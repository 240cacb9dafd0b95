---------------------------- MODULE MCJsonStore ----------------------------
(* JsonStore for TLC: two processes, three writes, one read.                *)
EXTENDS JsonStore

TwoProcs == {"api", "bot"}
ThreeOps == {"w1", "w2", "w3"}
TwoOps == {"w1", "w2"}

\* two writes share a process, the third and the read are in the other one
Placed == [w1 |-> "api", w2 |-> "api", w3 |-> "bot", r |-> "bot"]
PlacedApart == [w1 |-> "api", w2 |-> "api", r |-> "bot"]
OneReader == {"r"}
=============================================================================
