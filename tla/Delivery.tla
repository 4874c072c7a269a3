------------------------------- MODULE Delivery -------------------------------
(***************************************************************************)
(* What a transfer promises its caller: the sink receives the source from  *)
(* its first unit on, in order, without gaps or repetition, and success is *)
(* reported only once everything the source holds has been delivered.      *)
(***************************************************************************)
EXTENDS Integers

CONSTANT Size

VARIABLES source_end, sink, returned

\* the first k units delivered; Size marks a place that nothing reached yet
Prefix(k) == [i \in 0 .. Size - 1 |-> IF i < k THEN i ELSE Size]

Init == source_end \in 0 .. Size /\ sink = Prefix(0) /\ returned = "none"

DeliverMore ==
  /\ returned = "none"
  /\ \E k, n \in 0 .. source_end : sink = Prefix(k) /\ k < n /\ sink' = Prefix(n)
  /\ UNCHANGED <<source_end, returned>>

\* a read fails: what lies behind it will never be known
SourceBreaks ==
  /\ returned = "none"
  /\ \E k, n \in 0 .. source_end : sink = Prefix(k) /\ k <= n /\ source_end' = n
  /\ UNCHANGED <<sink, returned>>

Succeed ==
  /\ returned = "none" /\ sink = Prefix(source_end)
  /\ returned' = "ok"
  /\ UNCHANGED <<source_end, sink>>

Fail ==
  /\ returned = "none"
  /\ returned' = "fail"
  /\ UNCHANGED <<source_end, sink>>

Spec == Init /\ [][DeliverMore \/ SourceBreaks \/ Succeed \/ Fail]_<<source_end, sink, returned>>
===============================================================================
