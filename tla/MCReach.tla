------------------------------- MODULE MCReach ------------------------------
(* Small instances of Verdict and of Reach for TLC: boards of three seats a  *)
(* side over six heroes, one of them outside every pool, and what a caller   *)
(* may ask; and seven heroes, two maps, two seats and two bans, in worlds    *)
(* that differ in who is strong, who answers whom and whom a hard limit      *)
(* keeps out.                                                                *)
EXTENDS Reach, TLC

Term(form, waits, likes, weight) == [form |-> form, waits |-> waits, likes |-> likes, weight |-> weight, passed |-> FALSE]
Playbooks == {
    <<>>, <<Term("heuristic", TRUE, {1, 4, 6}, 3), Term("soft", FALSE, {2}, -2)>>, <<Term("hard", FALSE, {}, 0)>>,
    <<Term("scored", FALSE, {2, 5}, 4), [Term("scored", FALSE, {1, 2, 3}, 1) EXCEPT !.passed = TRUE]>>,
    <<Term("heuristic", FALSE, {1, 2, 3, 4, 5, 6}, -1)>>}
Answers == {<<1, 4>>, <<2, 5>>, <<3, 1>>, <<6, 2>>, <<4, 6>>, <<5, 3>>}
Worlds == {[own |-> own, edges |-> Answers, base |-> base, pool |-> 1..5, likely |-> {1, 3, 5}, terms |-> terms] :
              own \in {<<3, 1, 2, 0, 2, 4>>, <<-2, 0, 1, -1, 0, 5>>}, base \in BOOLEAN, terms \in Playbooks}

BlueSides  == {s \in SUBSET (1..6) : Cardinality(s) <= TeamSize}
RedSides   == {{}, {4}, {2, 6}, {1, 2, 3}, {4, 5, 6}}
BoardDrafts == {d \in [blue : BlueSides, red : RedSides, bans : {{}, {2}}, asks : {TRUE}] : d.bans \cap (d.blue \cup d.red) = {}}

VerdictCases ==
    {[about |-> "board", world |-> w, draft |-> d, board |-> Pass(w, d), six |-> Shown(w, d)] : w \in Worlds, d \in BoardDrafts}
        \cup {[about |-> "bounds", pool |-> p, top |-> t] : p \in (-1..14) \cup {Nil}, t \in {Nil, -1, 1, 25}}

VerdictSound(c) ==
    /\ c.about = "board" => OneReading(c) /\ RightPickHolds(c) /\ OnItsScale(c) /\ Mirrored(c) /\ PlanTrue(c)
    /\ c.about = "bounds" => WithinBudget(c)

-----------------------------------------------------------------------------
Even == [h \in 1..7 |-> 0]
World7(own, edges, barred, pool, lift) ==
    [own |-> own, edges |-> edges, base |-> TRUE, pool |-> pool, likely |-> {}, terms |-> <<>>, barred |-> barred,
     expected |-> <<2, 4, 6, 1, 3, 5, 7>>,
     released |-> 1..7, role |-> <<"tank", "tank", "damage", "damage", "damage", "support", "support">>,
     pick |-> <<1, 2, 3, 1, 2, 3, 1>>, lift |-> lift, sides |-> <<<<"">>, <<"attack", "defense">>>>,
     holds |-> ("" :> Even) @@ ("attack" :> [Even EXCEPT ![5] = 1]) @@ ("defense" :> [Even EXCEPT ![2] = 1])]

Searched(hero, world) == [about |-> "reach", hero |-> hero, world |-> world, found |-> Search(world, hero)]

ReachCases ==
    {Searched(hero, World7(own, edges, barred, pool, lift)) :
        hero \in 1..7, own \in {<<4, 3, 3, 2, 1, 2, 0>>, <<0, 1, 2, 3, 4, 5, 6>>, <<2, 2, 9, 8, 0, 1, 1>>},
        edges \in {{<<1, 3>>, <<3, 5>>, <<5, 7>>, <<2, 6>>}, {<<3, 4>>, <<4, 5>>, <<5, 3>>, <<6, 1>>, <<6, 7>>}},
        barred \in {{}, {5}, {1, 2, 3, 4, 5, 6}}, pool \in {1..7, {1, 2, 3, 4, 6}},
        lift \in {<<Even, [Even EXCEPT ![7] = 3]>>, <<[Even EXCEPT ![4] = 2], [Even EXCEPT ![1] = 1]>>, <<>>}}

ReachSound(c) == ReachTrue(c)
=============================================================================
