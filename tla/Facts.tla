-------------------------------- MODULE Facts -------------------------------
(***************************************************************************)
(* A board's facts (facts.board_facts): the team metrics of each side      *)
(* (facts.team), the facts written about the heroes, the sides and the     *)
(* matchup, the index a reader finds them by (facts.factset), and the two  *)
(* readers that must tell one story with them: the reasons a pick carries  *)
(* (inference.result) and the answers the plan words (inference.plan).     *)
(*                                                                         *)
(* A hero is a record of what its kit and its rates give, 0 where they     *)
(* give nothing; a side is a sequence of names; a key is a section and a   *)
(* metric; shares carry Unit.  A fact keeps what its readers look up: the  *)
(* sentence itself is left out.                                            *)
(***************************************************************************)
EXTENDS Integers, Sequences, FiniteSets, FiniteSetsExt, SequencesExt

CONSTANTS
    Unit,               \* a share of one
    TeamSize,           \* the seats of a side
    Roles,              \* what a lobby fields: each role's seats
    NoMap               \* the board with no map set

Squishy     == 250      \* SQUISHY_POOL
Specialist  == 3        \* SPECIALIST_DELTA, in whole points
RankSwing   == 6        \* RANK_SENSITIVE
FlierReach  == 30       \* FLIER_REACH
TrendPoints == 2        \* TREND_POINTS, in whole points

Names(side)       == Range(side)
Share(a, b)       == IF b = 0 THEN 0 ELSE (a * Unit) \div b
Most(S)           == IF S = {} THEN 0 ELSE Max(S)
Least(S)          == IF S = {} THEN 0 ELSE Min(S)

-----------------------------------------------------------------------------
(* Reading a side: w is the world, w.hero[n] the record of the hero n.      *)

Total(w, side, field)   == MapThenSumSet(LAMBDA n : w.hero[n][field], Names(side))
With(w, side, field)    == {n \in Names(side) : w.hero[n][field] # 0}
Number(w, side, field)  == Cardinality(With(w, side, field))
Values(w, side, field)  == {w.hero[n][field] : n \in With(w, side, field)}
Mean(w, side, field)    == Share(Total(w, side, field), Number(w, side, field))
InRole(w, side, r)      == {n \in Names(side) : w.hero[n].role = r}

\* The first of a side with the most of a field.
TopOf(w, side, field) ==
    side[CHOOSE i \in DOMAIN side : \A j \in DOMAIN side :
            \/ w.hero[side[j]][field] < w.hero[side[i]][field]
            \/ w.hero[side[j]][field] = w.hero[side[i]][field] /\ i <= j]

\* Twice the median: the sum of the two middle values.
Median(values) ==
    LET sorted == SortSeq(values, <)
        n == Len(values)
    IN  IF n = 0 THEN 0 ELSE sorted[(n + 1) \div 2] + sorted[(n + 2) \div 2]

\* A playstyle's picks, and the most carried of some, the map's and then the first on a tie.
Carrying(w, side, s) == {n \in Names(side) : s \in w.hero[n].styles}
Styles(w, side)      == UNION {w.hero[n].styles : n \in Names(side)}
Modal(w, side, among, favour) ==
    IF among = {} THEN 0 ELSE CHOOSE s \in among : \A t \in among :
        LET a == Cardinality(Carrying(w, side, s)) b == Cardinality(Carrying(w, side, t)) IN
        \/ a > b
        \/ a = b /\ (s = t \/ s = favour \/ (t # favour /\ s < t))
MapStyle(m) == IF m = NoMap THEN 0 ELSE m.style

-----------------------------------------------------------------------------
(* The team metrics, section by section. *)

Shape(w, side, m) ==
    LET n == Len(side)
        majority == {s \in Styles(w, side) : 2 * Cardinality(Carrying(w, side, s)) > n} IN
    [size |-> n, open_slots |-> Max({0, TeamSize - n}),
     tanks |-> Cardinality(InRole(w, side, "tank")), damage |-> Cardinality(InRole(w, side, "damage")),
     supports |-> Cardinality(InRole(w, side, "support")),
     subrole_diversity |-> Share(Cardinality({w.hero[x].subrole : x \in Names(side)}), n),
     style_top |-> Modal(w, side, Styles(w, side), 0), style_lean |-> Modal(w, side, majority, MapStyle(m)),
     style_fit |-> IF MapStyle(m) = 0 THEN 0 ELSE Share(Cardinality(Carrying(w, side, MapStyle(m))), n),
     shape_excess |-> MapThenSumSet(LAMBDA r : Max({0, Cardinality(InRole(w, side, r)) - Roles[r]}), DOMAIN Roles)]

Pool(h) == h.health + h.shield + h.armor
Durability(w, side) ==
    LET pools == {Pool(w.hero[n]) : n \in Names(side)}
        forms == Total(w, side, "form_armor")
        armor == Total(w, side, "armor") + forms
        all == Total(w, side, "health") + Total(w, side, "shield") + armor IN
    [pool_total |-> all, pool_min |-> Least(pools), armor_total |-> armor, armor_share |-> Share(armor, all),
     shield_total |-> Total(w, side, "shield"), shield_share |-> Share(Total(w, side, "shield"), all),
     squish_count |-> Cardinality({n \in Names(side) : Pool(w.hero[n]) <= Squishy}),
     overhealth_total |-> Total(w, side, "overhealth")]

Damage(w, side) ==
    [dps_floor |-> Total(w, side, "dps"), dps_count |-> Number(w, side, "dps"),
     burst_max |-> Most(Values(w, side, "burst")),
     one_shots |-> Cardinality({n \in Names(side) : w.hero[n].burst >= Squishy /\ w.hero[n].melee = 0}),
     burst_ranged |-> Most({w.hero[n].burst : n \in Names(side) \ With(w, side, "melee_only")}),
     ult_damage_total |-> Total(w, side, "ult_damage"), dmg_ults |-> Number(w, side, "ult_deals_damage"),
     ult_cost_mean |-> Mean(w, side, "ult_cost"), hitscan |-> Number(w, side, "hitscan"),
     hitscan_reach |-> Cardinality({n \in Names(side) : w.hero[n].hitscan_range >= FlierReach}),
     projectile |-> Number(w, side, "projectile"), beam |-> Number(w, side, "beam"), melee |-> Number(w, side, "melee"),
     aoe_count |-> Total(w, side, "aoe_count"), aoe_damage_count |-> Total(w, side, "aoe_damage_count"),
     range_median |-> Median(SelectSeq([i \in DOMAIN side |-> w.hero[side[i]].max_range], LAMBDA r : r # 0)),
     range_max |-> Most(Values(w, side, "max_range")), range_min |-> Least(Values(w, side, "max_range")),
     dmg_amp |-> Number(w, side, "dmg_amp")]

Healing == {"peak_heal", "hps", "self_heal", "self_hps", "lifesteal"}
Sustain(w, side) ==
    LET supports == SelectSeq(side, LAMBDA n : w.hero[n].role = "support") IN
    [hps_floor |-> Total(w, side, "hps"),
     heal_peak_total |-> MapThenSumSet(LAMBDA n : Max({w.hero[n].peak_heal, w.hero[n].self_heal}), Names(side)),
     heal_peak_supports |-> Total(w, supports, "peak_heal"), heal_peak_max |-> Most(Values(w, side, "peak_heal")),
     heal_ratio |-> Share(Total(w, supports, "peak_heal"), w.heal_bench),
     hps_supports |-> Total(w, supports, "hps"), hps_ratio |-> Share(Total(w, supports, "hps"), w.hps_bench),
     heal_amp |-> Number(w, side, "heal_amp"), antiheal |-> Number(w, side, "antiheal"),
     cleanse |-> Number(w, side, "cleanse"), invuln |-> Number(w, side, "invuln"),
     team_cleanse |-> Number(w, side, "team_cleanse"), team_saves |-> Number(w, side, "saves"),
     lifelines |-> Cardinality(UNION {With(w, side, f) : f \in Healing})]

Tools(w, side) ==
    LET cooldowns == FlattenSeq([i \in DOMAIN side |-> w.hero[side[i]].cooldowns]) IN
    [cooldown_median |-> Median(cooldowns), cooldown_count |-> Len(cooldowns),
     cc_count |-> Number(w, side, "cc"), mobility_count |-> Number(w, side, "mobility"),
     flyers |-> Number(w, side, "flyer"),
     light_flyers |-> Cardinality(With(w, side, "flyer") \ InRole(w, side, "tank")),
     barrier_hp |-> Total(w, side, "barrier_hp"), barrier_count |-> Number(w, side, "barrier_hp"),
     barrier_piercers |-> Number(w, side, "pierces"),
     pierce_dps |-> MapThenSumSet(LAMBDA n : w.hero[n].dps, With(w, side, "pierces")),
     deployables |-> Number(w, side, "deployables")]

\* The synergy graph among the picks.
Pairs(w, side)      == {p \in DOMAIN w.synergy : p \subseteq Names(side)}
Beside(w, side, n)  == {x \in Names(side) : {x, n} \in Pairs(w, side)}
Partnered(w, n)     == \E p \in DOMAIN w.synergy : n \in p
Grown(w, side, S)   == S \cup UNION {Beside(w, side, n) : n \in S}
Group(w, side, n)   == FoldSet(LAMBDA x, S : Grown(w, side, S), {n}, Names(side))
Isolated(w, side)   == {n \in Names(side) : Len(side) >= 2 /\ Beside(w, side, n) = {} /\ Partnered(w, n)}
Cohesion(w, side) ==
    LET edges == Cardinality(Pairs(w, side)) n == Len(side) IN
    [synergy_edges |-> edges, synergy_score |-> MapThenSumSet(LAMBDA p : w.synergy[p], Pairs(w, side)),
     synergy_density |-> Share(edges, (n * (n - 1)) \div 2), isolated_count |-> Cardinality(Isolated(w, side)),
     core_size |-> Most({Cardinality(Group(w, side, x)) : x \in Names(side)})]

\* The chance, of Unit, that every pick survives the ban screen.
Survival(rate, side) == FoldSet(LAMBDA n, p : (p * (100 - rate[n])) \div 100, Unit, Names(side))
Bans(w, side)        == [n \in Names(side) |-> w.hero[n].ban]
MapBans(w, side, m)  == [n \in Names(side) |-> IF m # NoMap /\ m.ban[n] # 0 THEN m.ban[n] ELSE w.hero[n].ban]
TopBan(w, side)      == IF side = <<>> THEN 0 ELSE TopOf(w, side, "ban")
Meta(w, side, m) ==
    [win_mean |-> Mean(w, side, "win"), pick_mass |-> Total(w, side, "pick"),
     availability |-> Survival(Bans(w, side), side), map_availability |-> Survival(MapBans(w, side, m), side),
     max_ban_rate |-> Most(Values(w, side, "ban")),
     rank_sensitive_count |-> Cardinality({n \in Names(side) : w.hero[n].rank_spread >= RankSwing}),
     trend_sum |-> Total(w, side, "trend")]

\* A pick's win rate here over its own, where it has both.
Deltas(w, side, m) == [n \in {x \in With(w, side, "win") : m.win[x] # 0} |-> m.win[n] - w.hero[n].win]
OnMap(w, side, m) ==
    IF m = NoMap
    THEN [map_known |-> 0, map_win_mean |-> Mean(w, side, "win"), map_pick_mass |-> Total(w, side, "pick"),
          map_specialists |-> 0, map_offmap |-> 0, home_map_hits |-> 0]
    ELSE LET rated == {n \in Names(side) : m.win[n] # 0}
             over == Deltas(w, side, m) IN
         [map_known |-> 1,
          map_win_mean |-> IF rated = {} THEN Mean(w, side, "win")
                           ELSE Share(MapThenSumSet(LAMBDA n : m.win[n], rated), Cardinality(rated)),
          map_pick_mass |-> MapThenSumSet(LAMBDA n : m.pick[n], Names(side)),
          map_specialists |-> Cardinality({n \in DOMAIN over : over[n] >= Specialist}),
          map_offmap |-> Cardinality({n \in DOMAIN over : over[n] <= -Specialist}),
          home_map_hits |-> Cardinality(Names(side) \cap m.home)]

\* The wiki's edges: <<e, h>> is in w.counters where h answers e.
Threatened(w, side, e) == {h \in Names(side) : <<h, e>> \in w.counters}  \* a mutant: the edge the other way
Answerers(w, side, e) == {h \in Names(side) : <<e, h>> \in w.counters}
Threats(w, foes, h)   == {e \in Names(foes) : <<h, e>> \in w.counters}
Versus(w, side, foes) ==
    LET covered == {e \in Names(foes) : Answerers(w, side, e) # {}}
        exposed == {h \in Names(side) : Threats(w, foes, h) # {}}
        into == Cardinality((Names(foes) \X Names(side)) \cap w.counters)
        back == Cardinality((Names(side) \X Names(foes)) \cap w.counters) IN
    [coverage |-> Cardinality(covered), coverage_share |-> Share(Cardinality(covered), Len(foes)),
     unanswered |-> Names(foes) \ covered, exposed |-> exposed,
     answer_edges |-> into, exposure_edges |-> back, exposed_count |-> Cardinality(exposed),
     safe_count |-> IF foes = <<>> THEN 0 ELSE Len(side) - Cardinality(exposed), net_edges |-> into - back,
     double_covered |-> Cardinality({e \in covered : Cardinality(Answerers(w, side, e)) >= 2}),
     banproof_coverage |-> Cardinality({e \in covered : Answerers(w, side, e) # {TopBan(w, side)}})]

\* The bag: every section's keys.
Merged(f, g) == [k \in DOMAIN f \cup DOMAIN g |-> IF k \in DOMAIN f THEN f[k] ELSE g[k]]
TeamMetrics(w, side, m, foes) ==
    FoldLeft(Merged, Shape(w, side, m), <<Durability(w, side), Damage(w, side), Sustain(w, side),
        Tools(w, side), Cohesion(w, side), Meta(w, side, m), OnMap(w, side, m), Versus(w, side, foes)>>)
-----------------------------------------------------------------------------
(* The facts: rows of a section, kept where they hold.                     *)

Row(holds, key, value) == [holds |-> holds, key |-> key, value |-> value, also |-> {}]
Also(row, keys)        == [row EXCEPT !.also = keys]
Several(n, key)        == [i \in 1..n |-> Row(TRUE, key, i)]
Filed(scope, subject, team, rows) ==
    LET kept == SelectSeq(rows, LAMBDA r : r.holds) IN
    [i \in DOMAIN kept |-> [key |-> <<scope, kept[i].key>>, subject |-> subject, team |-> team,
        also |-> kept[i].also, value |-> kept[i].value]]

\* A share as a sentence gives it, in hundredths.
Rounded(x)           == (200 * x + Unit) \div (2 * Unit)

\* A side's sentences: one is worded around a metric, and states others.
Ours(keys)           == {<<"team", k>> : k \in keys}
Stated(b, key)       == Row(TRUE, key, b[key])
Listed(b, key)       == Row(b[key] # 0, key, b[key])
SideRows(b, m, foes, size) == <<
    Stated(b, "size"), Also(Stated(b, "tanks"), Ours({"damage", "supports"})), Stated(b, "subrole_diversity"),
    Also(Listed(b, "style_top"), Ours({"style_lean"})), Row(MapStyle(m) # 0, "style_fit", b.style_fit),
    Listed(b, "shape_excess"),
    Stated(b, "pool_total"), Stated(b, "pool_min"), Also(Row(b.armor_total # 0, "armor_share", b.armor_share), Ours({"armor_total"})),
    Also(Row(b.shield_total # 0, "shield_share", b.shield_share), Ours({"shield_total"})), Listed(b, "squish_count"),
    Listed(b, "overhealth_total"),
    Also(Stated(b, "dps_floor"), Ours({"dps_count"})), Also(Listed(b, "burst_max"), Ours({"burst_ranged"})),
    Listed(b, "burst_ranged"), Listed(b, "one_shots"), Also(Stated(b, "dmg_ults"), Ours({"ult_damage_total"})),
    Listed(b, "ult_cost_mean"), Also(Stated(b, "hitscan"), Ours({"melee", "projectile", "beam"})), Listed(b, "hitscan_reach"),
    Also(Listed(b, "aoe_count"), Ours({"aoe_damage_count"})), Also(Listed(b, "range_median"), Ours({"range_max", "range_min"})),
    Listed(b, "dmg_amp"),
    Stated(b, "hps_floor"), Also(Row(b.supports # 0, "hps_supports", b.hps_supports), Ours({"hps_ratio"})),
    Also(Row(b.supports # 0, "heal_peak_supports", b.heal_peak_supports), Ours({"heal_ratio"})),
    Listed(b, "heal_peak_total"), Also(Stated(b, "lifelines"), Ours({"heal_peak_total"})), Listed(b, "heal_amp"), Listed(b, "antiheal"),
    Also(Row(b.cleanse # 0 \/ b.invuln # 0, "invuln", b.invuln), Ours({"cleanse", "team_cleanse", "team_saves"})),
    Listed(b, "team_cleanse"), Listed(b, "team_saves"),
    Also(Row(b.cooldown_count # 0, "cooldown_median", b.cooldown_median), Ours({"cooldown_count"})), Stated(b, "cc_count"),
    Stated(b, "mobility_count"), Listed(b, "flyers"), Also(Listed(b, "barrier_hp"), Ours({"barrier_count"})),
    Listed(b, "barrier_piercers"), Listed(b, "deployables"),
    Also(Row(size >= 2, "synergy_edges", b.synergy_edges), Ours({"synergy_score", "synergy_density"})),
    Row(size >= 2, "core_size", b.core_size), Row(size >= 2 /\ b.isolated_count # 0, "isolated_count", b.isolated_count),
    Stated(b, "win_mean"), Stated(b, "pick_mass"),
    Row(m # NoMap /\ Rounded(b.map_availability) # Rounded(b.availability), "map_availability", b.map_availability),
    Also(Stated(b, "availability"), Ours({"max_ban_rate"})), Listed(b, "rank_sensitive_count"), Listed(b, "trend_sum"),
    Row(m # NoMap, "map_win_mean", b.map_win_mean),
    Also(Row(m # NoMap, "map_specialists", b.map_specialists), Ours({"home_map_hits", "map_offmap"})),
    Also(Row(foes # <<>>, "coverage", b.coverage), Ours({"coverage_share", "unanswered"})),
    Also(Row(foes # <<>>, "net_edges", b.net_edges), Ours({"answer_edges", "exposure_edges"})),
    Also(Row(b.exposed # {}, "exposed_count", b.exposed_count), Ours({"safe_count"})), Listed(b, "double_covered"),
    Row(foes # <<>> /\ b.max_ban_rate # 0, "banproof_coverage", b.banproof_coverage)>>

\* One more for each enemy some pick answers.
AnswerRows(w, side, foes) ==
    [i \in DOMAIN foes |-> Row(Answerers(w, side, foes[i]) # {}, "answer", <<foes[i], Answerers(w, side, foes[i])>>)]
SideFacts(w, team, side, m, foes) ==
    Filed("team", team, team, SideRows(TeamMetrics(w, side, m, foes), m, foes, Len(side)) \o AnswerRows(w, side, foes))

\* The matchup, once both sides have picks; red's threats under their enemy keys.
Theirs(keys)    == {<<"enemy", k>> : k \in keys}
Joint(keys)     == {<<"matchup", k>> : k \in keys}
Threat(key, b, metric) == Also(Row(b[metric] # 0, key, b[metric]), Theirs({metric}))
MatchupRows(blue, red) ==
    [i \in 1..8 |-> Row(TRUE, <<"pool_diff", "dps_diff", "hps_diff", "burst_vs_heal",
        "chew_time_ours", "chew_time_theirs", "tempo_diff", "range_diff">>[i], 0)] \o
    <<Also(Row(TRUE, "heal_vs_burst", blue.heal_peak_max), Ours({"heal_peak_max"})), Row(TRUE, "net_edges", blue.net_edges),
      Also(Row(TRUE, "coverage_share", blue.coverage_share), Joint({"exposure_share"})),
      Threat("dive_pressure", red, "mobility_count"), Threat("flyers", red, "light_flyers"),
      Threat("barrier_need", red, "barrier_hp"), Threat("antiheal_need", red, "heal_peak_supports"),
      Also(Threat("ult_threat", red, "ult_damage_total"), Joint({"ult_answers"}) \cup Theirs({"ult_damage_total"})),
      Also(Row(blue.style_lean # 0 \/ red.style_lean # 0, "style_lean_red", red.style_lean), Theirs({"style_lean"}))>>
HealRows == <<Also(Row(TRUE, "heal_shortfall", 0), Joint({"heal_need"}))>>

TeamFacts(w, b) ==
    LET both == b.red # <<>> /\ b.blue # <<>>
        side(team, own, foes) == IF own = <<>> THEN <<>> ELSE SideFacts(w, team, own, b.map, foes) IN
    side("red", b.red, b.blue) \o side("blue", b.blue, b.red) \o
    Filed("matchup", "blue vs red", "both",
        (IF both THEN MatchupRows(TeamMetrics(w, b.blue, b.map, b.red), TeamMetrics(w, b.red, b.map, b.blue)) ELSE <<>>)
        \o (IF b.blue # <<>> THEN HealRows ELSE <<>>))

-----------------------------------------------------------------------------
(* A pick's facts: what it is wherever it plays, and what only this board has. *)

TraitRows(h) == <<
    Row(h.dps # 0, "dps", h.dps), Row(h.burst # 0, "burst", h.burst), Row(h.peak_heal # 0, "heal_peak", h.peak_heal),
    Row(h.hps # 0, "hps", h.hps), Row(h.self_heal # 0 \/ h.self_hps # 0, "self_heal", h.self_heal),
    Row(h.max_range # 0, "range", h.max_range), Row(h.cooldowns # <<>>, "cooldown_median", Median(h.cooldowns)),
    Row(h.cc # 0, "cc", h.cc), Row(h.mobility # 0, "mobility", h.mobility), Row(h.flyer # 0, "flyer", 1),
    Row(h.barrier_hp # 0, "barrier", h.barrier_hp), Row(h.pierces # 0, "pierces_barrier", 1), Row(h.antiheal # 0, "antiheal", h.antiheal),
    Row(h.heal_amp # 0, "heal_amp", h.heal_amp), Row(h.dmg_amp # 0, "dmg_amp", h.dmg_amp), Row(h.overhealth # 0, "overhealth", h.overhealth),
    Row(h.cleanse # 0, "cleanse", h.cleanse), Row(h.invuln # 0, "invuln", h.invuln), Row(h.deployables # 0, "deployables", h.deployables),
    Row(h.ult_damage # 0, "ult_damage", h.ult_damage), Row(h.ult_cost # 0, "ult_cost", h.ult_cost)>>

\* A piece of the kit, its tags and its measures.
PieceRows(p) == <<Row(TRUE, p.kind, p.tagged), Row(p.kind = "ability" /\ p.tagged, "ability_keywords", 0)>> \o Several(p.stats, "stat")

IdentityRows(w, h) ==
    <<Row(TRUE, "identity", 0), Row(~h.released, "announced", 0), Row(TRUE, "pool", Pool(h)), Row(h.subrole \in w.passives, "passive", 0),
      Row(h.moved # 0, "kit_format", h.moved), Row(h.unread # 0, "kit_format_notes", h.unread)>>
    \o TraitRows(h) \o Several(Cardinality(h.styles), "style") \o FlattenSeq([i \in DOMAIN h.pieces |-> PieceRows(h.pieces[i])])

RateRows(h, m) ==
    <<Row(h.win # 0, "rate", h.win)>> \o Several(h.tiers, "rate_tier") \o
    <<Row(h.rank_spread >= RankSwing, "rank_sensitivity", h.rank_spread), Row(h.trend >= TrendPoints \/ -h.trend >= TrendPoints, "trend", h.trend),
      Row(h.ban > 20, "ban_pressure", h.ban), Row(m = NoMap /\ h.mapped # 0, "rate_maps", h.mapped),
      Row(m = NoMap /\ h.best # 0 /\ h.win # 0, "best_map", h.best)>>

\* What the wiki and, where it is silent, the kit say of the hero, whoever is picked.
RelationRows(w, n) ==
    LET related(graph) == [by |-> {e[2] : e \in {d \in graph : d[1] = n}}, of |-> {e[1] : e \in {d \in graph : d[2] = n}}]
        wiki == related(w.counters) kit == related(w.derived) IN
    <<Row(wiki.by # {}, "answered_by", wiki.by), Row(wiki.of # {}, "answers", wiki.of),
      Row(kit.by # {}, "derived_answered_by", kit.by), Row(kit.of # {}, "derived_answers", kit.of)>>
    \o Several(Cardinality({p \in DOMAIN w.synergy : n \in p}), "partner")

HereRows(w, n, m) ==
    IF m = NoMap THEN <<>>
    ELSE <<Row(m.win[n] # 0, "map_win", m.win[n]), Row(m.win[n] # 0 /\ w.hero[n].win # 0, "map_delta", m.win[n] - w.hero[n].win),
           Row(n \in m.home, "home_map", 1), Row(MapStyle(m) \in w.hero[n].styles, "map_style_fit", MapStyle(m))>>

VersusRows(w, n, own, foes) ==
    <<Row(Threats(w, foes, n) # {}, "vs_answered_by", Threats(w, foes, n)),
      Row({e \in Names(foes) : <<e, n>> \in w.counters} # {}, "vs_answers", {e \in Names(foes) : <<e, n>> \in w.counters})>>
    \o [i \in DOMAIN foes |-> Row(<<n, foes[i]>> \in w.derived, "vs_derived", foes[i])]
    \o [i \in DOMAIN own |-> Row({n, own[i]} \in DOMAIN w.synergy /\ own[i] # n, "with_ally", own[i])]

HeroFacts(w, b, n, team) ==
    LET own == IF team = "red" THEN b.red ELSE b.blue
        foes == IF team = "red" THEN b.blue ELSE b.red IN
    Filed("hero", n, team, IdentityRows(w, w.hero[n]) \o RateRows(w.hero[n], b.map) \o RelationRows(w, n)
        \o HereRows(w, n, b.map) \o VersusRows(w, n, own, foes))

-----------------------------------------------------------------------------
(* The board. *)

BanRows(w, b, n) == <<
    Row(TRUE, "hero", n), Row({e \in Names(b.red) : <<e, n>> \in w.counters} # {}, "answered_red", 0),
    Row({a \in Names(b.blue) : <<a, n>> \in w.counters} # {}, "answered_blue", 0)>>
BanFacts(w, b) ==
    Filed("bans", "match", "both", <<Row(b.bans # <<>>, "count", Len(b.bans))>>) \o
    FlattenSeq([i \in DOMAIN b.bans |-> Filed("bans", b.bans[i], "both", BanRows(w, b, b.bans[i]))])

\* The map's: its mode and side, its ground, the styles it rewards, its heroes.
MapRows(w, m) ==
    LET rated == Cardinality({n \in DOMAIN w.hero : m.win[n] # 0})
        fits == {s \in m.styled : \E n \in DOMAIN w.hero : m.win[n] # 0 /\ s \in w.hero[n].styles} IN
    <<Row(TRUE, "mode", 0), Row(TRUE, "side", 0), Row(m.sided, "side_caveat", 0), Row(m.stages # 0 /\ ~m.sided, "stages", m.stages),
      Row(m.stages # 0 /\ m.sided, "phases", m.stages), Row(m.terrain = 0, "terrain_unread", 0), Row(m.style # 0, "style_top", m.style)>>
    \o Several(m.standouts, "stage_terrain") \o Several(m.terrain, "terrain") \o Several(m.lifts, "rate_lift")
    \o Several(m.leans, "terrain_lean") \o Several(Cardinality(m.styled), "style")
    \o Several(Min({10, rated}), "leader") \o <<Row(rated > 6, "strugglers", 0)>>
    \o Several(Cardinality(m.home), "home_map_of") \o Several(Cardinality(fits), "style_fit")
MapFacts(w, m) == IF m = NoMap THEN <<>> ELSE Filed("map", "map", "both", MapRows(w, m))
MetaFacts(w) == Filed("meta", "snapshot", "both", Several(w.snapshots, "snapshot") \o <<Row(w.newer # 0, "vintage_warning", w.newer)>>)
Generate(w, b) ==
    MetaFacts(w) \o BanFacts(w, b) \o MapFacts(w, b.map)
    \o FlattenSeq([i \in DOMAIN b.red |-> HeroFacts(w, b, b.red[i], "red")])
    \o FlattenSeq([i \in DOMAIN b.blue |-> HeroFacts(w, b, b.blue[i], "blue")])
    \o TeamFacts(w, b) \o Filed("playbook", "catalog", "both", <<Row(w.catalog, "catalog", 0)>>)

-----------------------------------------------------------------------------
(* The readers. *)

Find(fs, key, subject) == SelectSeq(fs, LAMBDA f : (f.key = key \/ key \in f.also) /\ f.subject = subject)
Cited(fs, key)         == Find(fs, key, "blue") \o Find(fs, key, "blue vs red")
FirstOf(found)         == SubSeq(found, 1, Min({1, Len(found)}))

\* Mutant: a mirror pick's facts are read whichever side's they are.
Either(fs, n, key) == Find(fs, <<"hero", key>>, n)

\* The facts about the seat's own copy of a hero: the FactSet files it as blue.
Own(fs, n, key) == SelectSeq(Find(fs, <<"hero", key>>, n), LAMBDA f : f.team \in {"both", "blue"})

\* The facts the reason for a pick cites (result._reasons).
Evidence(fs, n) ==
    LET mates == Own(fs, n, "with_ally")
        cites == FirstOf(Own(fs, n, "vs_answers")) \o SubSeq(mates, 1, Min({3, Len(mates)})) \o FirstOf(Own(fs, n, "map_win"))
                 \o SelectSeq(Own(fs, n, "map_delta"), LAMBDA f : f.value >= Specialist) \o FirstOf(Own(fs, n, "map_style_fit"))
                 \o FirstOf(Own(fs, n, "home_map")) \o FirstOf(Own(fs, n, "vs_answered_by"))
    IN  IF cites = <<>> THEN FirstOf(Own(fs, n, "rate")) ELSE cites
AnswersSaid(fs, n) == UNION {f.value : f \in Range(SelectSeq(Evidence(fs, n), LAMBDA f : f.key = <<"hero", "vs_answers">>))}

\* Who the plan says answers each of red's picks, and whom nobody does.
PlanAnswered(fs, six, e) ==
    {n \in Names(six) : \E f \in Range(Find(fs, <<"hero", "vs_answers">>, n)) : f.team = "blue" /\ e \in f.value}
PlanMissing(fs, six, red) == {e \in Names(red) : PlanAnswered(fs, six, e) = {}}

-----------------------------------------------------------------------------

Numeric(b) == DOMAIN b \ {"unanswered", "exposed", "style_top", "style_lean"}

\* The numbers no sentence is indexed under: five never, the others only while the
\* board lacks what their sentence is about.
Unworded(b, m, red) ==
    {"pierce_dps", "light_flyers", "map_known", "map_pick_mass", "open_slots"}
        \cup (IF m = NoMap THEN {"map_win_mean", "map_availability"} ELSE {})
        \cup (IF Rounded(b.map_availability) = Rounded(b.availability) THEN {"map_availability"} ELSE {})
        \cup (IF red = <<>> THEN {"heal_peak_max"} ELSE {})
        \cup (IF b.exposed_count = 0 THEN {"safe_count"} ELSE {})
        \cup (IF b.max_ban_rate = 0 THEN {"banproof_coverage"} ELSE {})
        \cup (IF b.size < 2 THEN {"core_size"} ELSE {})

\* A number a strategy reads of blue's side, other than those, is stated by a fact
\* its citation finds, worded around that number or carrying it (result._cited_fact).
StatedWhenRead(c) ==
    c.board.blue # <<>> =>
        LET bag == TeamMetrics(c.world, c.board.blue, c.board.map, c.board.red) IN
        \A k \in Numeric(bag) \ Unworded(bag, c.board.map, c.board.red) :
            bag[k] # 0 => Cited(c.facts, <<"team", k>>) # <<>>

\* The answers between two sides are told once: by the reason each pick carries, by
\* the other side's warning, by the side's own fact and by the plan, mirror picks
\* included; whom nobody answers is whom coverage leaves unanswered; and a pick
\* with a rate is never without evidence.
OneStory(c) ==
    LET b == c.board
        bag == TeamMetrics(c.world, b.blue, b.map, b.red)
        told == {f.value : f \in Range(SelectSeq(c.facts, LAMBDA f : f.key = <<"team", "answer">> /\ f.team = "blue"))}
    IN  /\ \A e \in Names(b.red), n \in Names(b.blue) :
               LET warned == \E f \in Range(Find(c.facts, <<"hero", "vs_answered_by">>, e)) : f.team = "red" /\ n \in f.value IN
               /\ warned <=> e \in AnswersSaid(c.facts, n)
               /\ warned <=> n \in PlanAnswered(c.facts, b.blue, e)
               /\ warned <=> \E t \in told : t[1] = e /\ n \in t[2]
        /\ b.blue # <<>> => PlanMissing(c.facts, b.blue, b.red) = bag.unanswered
        /\ \A n \in Names(b.blue) : c.world.hero[n].win # 0 => Evidence(c.facts, n) # <<>>

\* The two sides' metrics are one board's: what one answers the other is exposed to,
\* and no section counts a pick twice.
SidesAgree(c) ==
    LET b == c.board
        ours == TeamMetrics(c.world, b.blue, b.map, b.red)
        theirs == TeamMetrics(c.world, b.red, b.map, b.blue)
    IN  /\ ours.net_edges = -theirs.net_edges /\ ours.coverage = theirs.exposed_count
        /\ ours.banproof_coverage <= ours.coverage /\ ours.double_covered <= ours.coverage
        /\ b.red # <<>> => ours.safe_count + ours.exposed_count = ours.size
        /\ ours.tanks + ours.damage + ours.supports = ours.size
        /\ ours.synergy_edges + 1 >= ours.core_size
        /\ ours.pierce_dps <= ours.dps_floor /\ ours.hps_supports <= ours.hps_floor
        /\ ours.style_lean # 0 => ours.style_top # 0
=============================================================================
