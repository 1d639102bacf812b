------------------------------ MODULE MCBoards ------------------------------
(* Small instances of Boards for TLC.                                      *)
EXTENDS Boards

CONSTANTS b1, b2, b3, c1, c2

\* One page's requests, and two pages'.
OneLane  == [b \in Requests |-> c1]
TwoLanes == [b \in Requests |-> IF b = b3 THEN c2 ELSE c1]

NoPicks  == [b \in Requests |-> "none"]
\* A half-drafted board and a full one.
Shown    == [b \in Requests |-> IF b = b1 THEN "some" ELSE "six"]
=============================================================================
