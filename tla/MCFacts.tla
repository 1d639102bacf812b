------------------------------- MODULE MCFacts ------------------------------
(* Small instances of Facts for TLC: seven heroes, boards of up to three     *)
(* picks a side, mirrored ones included, with and without a map and bans.    *)
EXTENDS Facts, TLC

\* A hero whose page gives nothing.
Blank == [role |-> "damage", subrole |-> "flex", styles |-> {}, health |-> 200, shield |-> 0, armor |-> 0,
    form_armor |-> 0, overhealth |-> 0, dps |-> 0, burst |-> 0, melee |-> 0, melee_only |-> 0, max_range |-> 0,
    ult_damage |-> 0, ult_deals_damage |-> 0, ult_cost |-> 0, hitscan |-> 0, hitscan_range |-> 0, projectile |-> 0,
    beam |-> 0, aoe_count |-> 0, aoe_damage_count |-> 0, dmg_amp |-> 0, hps |-> 0, peak_heal |-> 0, self_heal |-> 0,
    self_hps |-> 0, lifesteal |-> 0, heal_amp |-> 0, antiheal |-> 0, cleanse |-> 0, invuln |-> 0, team_cleanse |-> 0,
    saves |-> 0, cooldowns |-> <<>>, cc |-> 0, mobility |-> 0, flyer |-> 0, barrier_hp |-> 0, pierces |-> 0,
    deployables |-> 0, win |-> 0, pick |-> 0, ban |-> 0, rank_spread |-> 0, trend |-> 0, released |-> TRUE, moved |-> 0,
    unread |-> 0, pieces |-> <<>>, tiers |-> 0, mapped |-> 0, best |-> 0]

\* A tank that blocks, a tank that dives, a gun, a flier, a beam, two supports.
Roster == <<
    [Blank EXCEPT !.role = "tank", !.subrole = "anchor", !.styles = {1}, !.health = 325, !.armor = 300, !.barrier_hp = 1200,
        !.dps = 70, !.melee = 1, !.melee_only = 1, !.burst = 75, !.ult_cost = 1540, !.win = 49, !.pick = 9, !.ban = 5,
        !.cooldowns = <<5, 6>>, !.cc = 2, !.mapped = 1, !.best = 1],
    [Blank EXCEPT !.role = "tank", !.subrole = "dive", !.styles = {2}, !.form_armor = 250, !.shield = 250, !.mobility = 2,
        !.max_range = 8, !.projectile = 1, !.dps = 60, !.burst = 100, !.win = 52, !.pick = 7, !.self_heal = 120, !.ban = 45],
    [Blank EXCEPT !.styles = {1, 3}, !.hitscan = 1, !.hitscan_range = 40, !.max_range = 60, !.dps = 150, !.burst = 300,
        !.ult_damage = 900, !.ult_deals_damage = 1, !.ult_cost = 2310, !.win = 47, !.pick = 6, !.ban = 22, !.rank_spread = 7,
        !.trend = 3, !.dmg_amp = 1, !.tiers = 2, !.pieces = <<[kind |-> "ability", tagged |-> TRUE, stats |-> 2]>>],
    [Blank EXCEPT !.subrole = "area", !.styles = {2}, !.flyer = 1, !.mobility = 1, !.projectile = 1, !.aoe_count = 3,
        !.aoe_damage_count = 2, !.dps = 110, !.max_range = 45, !.deployables = 1, !.released = FALSE, !.unread = 1],
    [Blank EXCEPT !.subrole = "area", !.styles = {3}, !.beam = 1, !.pierces = 1, !.dps = 100, !.max_range = 15,
        !.barrier_hp = 800, !.shield = 75, !.cooldowns = <<12>>, !.win = 50, !.pick = 3, !.lifesteal = 1, !.moved = 1],
    [Blank EXCEPT !.role = "support", !.subrole = "main", !.styles = {1}, !.hps = 60, !.peak_heal = 90, !.saves = 1,
        !.cleanse = 1, !.team_cleanse = 1, !.invuln = 1, !.heal_amp = 1, !.overhealth = 50, !.win = 51, !.pick = 11, !.ban = 30],
    [Blank EXCEPT !.role = "support", !.styles = {2, 3}, !.hps = 40, !.peak_heal = 70, !.self_hps = 20, !.antiheal = 1,
        !.mobility = 1, !.cc = 1, !.cooldowns = <<14, 12>>, !.win = 54, !.pick = 14, !.trend = -1]>>

\* <<loser, winner>>, both ways where the wiki says so of both; partners as a graph.
Graphs == {
    [counters |-> {<<2, 1>>, <<4, 3>>, <<3, 2>>, <<6, 2>>, <<3, 4>>, <<7, 5>>, <<1, 5>>},
     derived |-> {<<1, 3>>, <<5, 2>>}, synergy |-> {1, 6} :> 2 @@ {2, 7} :> 3 @@ {3, 6} :> 1 @@ {2, 4} :> 1],
    [counters |-> {<<5, 7>>, <<1, 7>>, <<7, 2>>}, derived |-> {}, synergy |-> {1, 5} :> 2 @@ {5, 6} :> 1]}
FactWorld(g) ==
    [hero |-> Roster, synergy |-> g.synergy, counters |-> g.counters, derived |-> g.derived, heal_bench |-> 100,
     hps_bench |-> 50, passives |-> {"anchor"}, snapshots |-> 2, newer |-> 1, catalog |-> TRUE]

Grounds == {NoMap,
    [style |-> 2, win |-> <<53, 0, 47, 0, 45, 51, 0>>, pick |-> <<8, 2, 5, 0, 1, 12, 0>>, ban |-> <<9, 0, 0, 0, 0, 35, 0>>,
     home |-> {1, 4}, sided |-> TRUE, stages |-> 3, terrain |-> 2,
     standouts |-> 1, lifts |-> 2, leans |-> 1, styled |-> {2, 3}],
    [style |-> 0, win |-> <<0, 0, 0, 0, 0, 0, 0>>, pick |-> <<0, 0, 0, 0, 0, 0, 0>>, ban |-> <<0, 0, 0, 0, 0, 0, 0>>,
     home |-> {}, sided |-> FALSE, stages |-> 0, terrain |-> 0,
     standouts |-> 0, lifts |-> 0, leans |-> 0, styled |-> {}]}

FactSides == {<<>>, <<3>>, <<2, 7>>, <<1, 3, 6>>, <<4, 7, 5>>, <<2, 4, 7>>, <<5, 1, 6>>, <<6, 3, 2>>, <<1, 2, 5>>, <<7, 6, 4>>}
FactCase(g, b) == LET w == FactWorld(g) IN [about |-> "facts", world |-> w, board |-> b, facts |-> Generate(w, b)]
FactCases ==
    {FactCase(g, b) : g \in Graphs, b \in
        {[map |-> m, red |-> r, blue |-> s, bans |-> x] : m \in Grounds, r \in FactSides, s \in FactSides, x \in {<<>>, <<5, 6>>}}}

FactsSound(c) == StatedWhenRead(c) /\ OneStory(c) /\ SidesAgree(c)
=============================================================================
