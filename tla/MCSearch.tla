------------------------------ MODULE MCSearch ------------------------------
(* Small instances of Search for TLC.                                      *)
EXTENDS Search

\* Two tanks, three damage, three supports, and a support not released yet.
Roster9 == 1..9
Role9 == [h \in Roster9 |-> IF h <= 2 THEN "tank" ELSE IF h <= 5 THEN "damage" ELSE "support"]
Playable == 1..8
TwoForms == {[tank |-> 1, damage |-> 2, support |-> 1], [tank |-> 1, damage |-> 1, support |-> 2]}

\* A hero's worth; a pair that pays only together; a guard on the six's own state.
Worths == {<<0, 0, 0, 0, 0, 0, 0, 0>>, <<1, 0, 2, 1, 0, 0, 1, 2>>, <<0, 2, 0, 1, 3, 2, 1, 0>>}
Bonds  == {{4, 7}, {1, 5}}
Guards == {2, 6}
Openings == {<<{}, {}>>, <<{3}, {1}>>, <<{}, {5, 8}>>}
Limits == {{}, {7, 8}, {6}}

\* Each bond meets one of the guards.
Asked == {b \in Worths \X Bonds \X Guards \X Openings \X Limits : b[2] = {4, 7} <=> b[3] = 2}

SumOver(T, w) == MapThenSumSet(LAMBDA h : w[h], T)

RawOf(b, r, T) ==
    CASE r = "worth" -> SumOver(T, b[1])
      [] r = "bond"  -> IF b[2] \subseteq T THEN 1 ELSE 0
      [] r = "need"  -> IF b[3] \in T THEN 1 + Cardinality(T \cap {3, 7}) ELSE NoReading

Terms         == {"worth", "bond", "need"}
Factors       == [worth |-> 2, bond |-> 3, need |-> 2]
Guarded       == {"need"}
None          == {}
Off(b, T)     == 0
WinMean(b, T) == Cardinality(T \cap {2, 8})
Limited(b, T) == b[5] # {} /\ b[5] \subseteq T
Ranking(b, h) == <<2, 1, 1, 3, 2, 1, 1, 2, 5>>[h]
Locks(b)      == b[4][1]
Bans(b)       == b[4][2]
Partnered     == {{4, 7}, {5, 8}, {3, 9}}
Drawn         == {{{1, 3, 4, 6}, {2, 4, 5, 7}, {1, 5, 6, 8}, {2, 3, 7, 8}},
                  {{1, 3, 5, 7}, {1, 4, 5, 7}, {1, 5, 7, 8}, {1, 3, 4, 8}}}
=============================================================================
