------------------------------ MODULE MCLoadGen ------------------------------
(* TLC instances of LoadGen: closed loops with and without a deadline, an open  *)
(* loop with a burst and a pause, and plans that validate() refuses.            *)
EXTENDS LoadGen

Plan(open, concurrency, duration, warmup, arrivals, outputs, gpu) ==
  [open |-> open, rate |-> IF open THEN 1 ELSE None, concurrency |-> concurrency,
   duration |-> duration, warmup |-> warmup, interval |-> 1,
   arrivals |-> arrivals, outputs |-> outputs, gpu |-> gpu]

\* A plan that one option spoils; validate() does not look at the sampling interval.
Spoilt ==
  LET good == Plan(FALSE, 1, None, 1, <<0>>, <<1>>, TRUE)
  IN {[good EXCEPT !.concurrency = 0], [good EXCEPT !.duration = 0], [good EXCEPT !.warmup = -1],
      [good EXCEPT !.rate = 0], [good EXCEPT !.interval = 0],
      [good EXCEPT !.arrivals = <<>>, !.outputs = <<>>]}

MCPlans ==
  {Plan(FALSE, 2, d, 0, <<0, 0, 0>>, <<2, 1, 1>>, FALSE) : d \in {None, 1}}
  \cup {Plan(TRUE, c, d, 0, <<0, 0, 2>>, <<2, 1, 1>>, FALSE) : c \in {1, 2}, d \in {None, 1}}
  \cup {Plan(o, 1, None, 1, <<0, 1>>, <<1, 1>>, TRUE) : o \in BOOLEAN}
  \cup Spoilt

Burst == {Plan(TRUE, 1, None, 0, <<0, 0>>, <<1, 1>>, FALSE)}

Unusable == {Plan(FALSE, 1, None, 0, <<0>>, <<1>>, TRUE)}
=============================================================================
