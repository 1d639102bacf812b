----------------------------- MODULE MCPlaybook -----------------------------
(* Small instances of Playbook for TLC.                                    *)
EXTENDS Playbook

CONSTANTS tune1, add1

\* The first strategy is shipped, the second is not there yet.
OneShipped == [h \in Ids |-> IF h = 1 THEN {} ELSE Absent]
Aimed == [c \in Calls |-> IF c = add1 THEN 2 ELSE 1]
=============================================================================
