----------------------------- MODULE MCObjective ----------------------------
(* Small instances of Objective for TLC: playbooks of three strategies, the *)
(* worlds of six heroes, and the sides of a lobby by their roles.           *)
EXTENDS Objective, TLC

Plain == [kind |-> "heuristic", form |-> "heuristic", when |-> NoGuard, reads |-> "team.b", n |-> 0,
          soft |-> FALSE, weight |-> Unit, minimize |-> FALSE, trusts |-> NoGuard]
Rule(kind, form, when, n) == [Plain EXCEPT !.kind = kind, !.form = form, !.when = when, !.n = n]

\* Needs on one guard by two numbers, the same guard on a limit of each temper
\* and on a bonus, a board's guard, a trusted reward, and prose.
Playbook == <<
    [Rule("heuristic", "heuristic", "team.a", 1) EXCEPT !.weight = 3 * Unit],
    [Rule("heuristic", "heuristic", "team.a", 2) EXCEPT !.minimize = TRUE],
    [Rule("heuristic", "heuristic", "enemy.s", 1) EXCEPT !.weight = 2 * Unit],
    [Plain EXCEPT !.trusts = "team.a", !.minimize = TRUE],
    Rule("constraint", "limit", "team.a", 1),
    [Rule("constraint", "limit", "team.a", 2) EXCEPT !.soft = TRUE],
    Rule("constraint", "scored", "team.a", 2),
    Rule("assumption", "assumption", NoGuard, 0)>>

Three    == {p \in [1..3 -> DOMAIN Playbook] : p[1] < p[2] /\ p[2] < p[3]}
Readings == [{"team.a", "team.b", "enemy.s"} -> 0..2]
Scales   == {[low |-> 0, high |-> 0], [low |-> 1, high |-> 2]}

ScoreCase(p, ns, scale) ==
    LET catalog == [i \in 1..3 |-> Playbook[p[i]]]
        all == [i \in 1..3 |-> scale]
    IN  [about |-> "score", catalog |-> catalog, ns |-> ns, bounds |-> all, scales |-> all,
         parts |-> Breakdown(catalog, ns, all, all)]

\* Two heroes of each role, seats for one each.
World(pick, pairs, weigh) ==
    [role |-> [h \in 1..6 |-> CASE h <= 2 -> "tank" [] h \in 3..4 -> "damage" [] OTHER -> "support"],
     pick |-> pick, here |-> 6 :> 3, win |-> [h \in 1..6 |-> 44 + 2 * h], pairs |-> pairs, weigh |-> weigh]

Rates  == {<<5, 5, 0, 4, 2, 6>>, <<1, 2, 3, 3, 4, 0>>}
Bonds  == {{}, {{1, 4}, {3, 6}}, {{2, 3}, {3, 5}, {2, 5}}}
Graphs == {[e \in (1..6) \X (1..6) |-> IF e \in wiki THEN 2 ELSE IF e \in kit /\ <<e[2], e[1]>> \notin wiki THEN 1 ELSE 0] :
               wiki \in {{}, {<<1, 4>>, <<4, 1>>, <<3, 6>>}}, kit \in {{<<1, 4>>, <<2, 5>>, <<6, 3>>}, {<<5, 1>>, <<6, 4>>}}}
Sides  == {{}, {1}, {2, 3}, {1, 3, 5}, {2, 4, 6}}

Lobby == [roles : {f \in [DOMAIN Shape -> 0..2] : f["tank"] + f["damage"] + f["support"] <= 3},
          hps : {0, 20, 45}, pool : {300, 900}]

ObjectiveCases ==
    {ScoreCase(p, ns, scale) : p \in Three, ns \in Readings, scale \in Scales}
        \cup {[about |-> "base", world |-> World(pick, pairs, weigh), red |-> red, blue |-> blue, banned |-> banned] :
                 pick \in Rates, pairs \in Bonds, weigh \in Graphs, red \in Sides, blue \in Sides, banned \in {{}, {4}, {5, 6}}}
        \cup [about : {"heal"}, side : {s \in Lobby : TRUE}, blue : {s \in Lobby : OpenSlots(s) = 0},
              medians : {[tank |-> 500, damage |-> 250, support |-> 225]}, healer : {30}]

ScoresSound(c) ==
    /\ c.about = "score" => ScoreSound(c) /\ SliderLocal(c)
    /\ c.about = "base" => BaseSound(c)
    /\ c.about = "heal" => HealSound(c)
=============================================================================
