---------------------------- MODULE MCScheduler ----------------------------
(* TLC instances of Scheduler. *)
EXTENDS Scheduler

\* One prompt that spans two blocks and is prefilled in chunks, one that is short.
LongAndShort == {<<1, 1, 1>>, <<2>>}

\* Prompts that share their first block, one of them ending on its boundary.
SharedPrefix == {<<1, 1>>, <<1, 1, 1>>, <<1, 1, 2, 2>>}

\* A prompt of two blocks and one of half a block.
FourAndOne == {<<1, 1, 1, 1>>, <<2>>}

\* Prompts with nothing in common.
Distinct == {<<1, 1, 1>>, <<2, 2, 2>>}
=============================================================================
