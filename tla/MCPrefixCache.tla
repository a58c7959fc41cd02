---------------------------- MODULE MCPrefixCache ----------------------------
(* TLC instance of PrefixCache: prompts that share a prefix, repeat it, and end *)
(* on and off a block boundary.                                              *)
EXTENDS PrefixCache

MCPrompts == {<<1, 1, 1, 1>>, <<1, 1, 2, 2, 1>>, <<2, 2, 1, 1>>}
=============================================================================
