----------------------------- MODULE MCCounters -----------------------------
(* Small instances of Counters for TLC.                                    *)
EXTENDS Counters, Functions

Bare == [kind |-> "weapon", primary |-> TRUE, damages |-> TRUE, type |-> "projectile", keywords |-> {},
         cooldown |-> 0, hits |-> {}, pellets |-> 1, reach |-> 0, falloff |-> 0, speed |-> 0, rate |-> 0,
         matrix |-> One, deflect |-> One, pierces |-> FALSE, allies |-> FALSE, family |-> "", lasts |-> 0,
         barrier |-> 0, antiheal |-> 0, shoves |-> FALSE, percent |-> FALSE]
Gun(type, rate, hits)   == [Bare EXCEPT !.type = type, !.rate = rate, !.hits = hits]
Tool(kind, cooldown, k) == [Bare EXCEPT !.kind = kind, !.cooldown = cooldown, !.keywords = k, !.damages = FALSE]
Person == [role |-> "damage", subrole |-> "Sharpshooter", pool |-> 250, armor |-> 0, dps |-> 100, hps |-> 0,
           selfHeal |-> 0, selfHps |-> 0, kit |-> <<>>]

\* A flier, a hitscan, a diver, a projectile eater, a matrix and a deflecting
\* one, an armored tank with a barrier, a channeller who cleanses, and a kit
\* with no weapon.
Flier == [Person EXCEPT !.dps = 120, !.kit = <<
    [Gun("projectile", 90, {120}) EXCEPT !.speed = 35], Tool("passive", 0, {"flight"})>>]
Sniper == [Person EXCEPT !.dps = 150, !.kit = <<
    Gun("hitscan", 150, {19, 300}), [Gun("hitscan", 90, {160, 19}) EXCEPT !.pellets = 9, !.falloff = 13],
    [Tool("ability", 16, {"stun"}) EXCEPT !.damages = TRUE]>>]
Diver == [Person EXCEPT !.subrole = "Flanker", !.dps = 140, !.kit = <<
    [Gun("projectile", 140, {28}) EXCEPT !.reach = 20, !.matrix = Half],
    Tool("ability", 8, {"strong movement", "evasive"}),
    [Tool("ability", 8, {"negate projectile"}) EXCEPT !.family = "deflect", !.lasts = 2],
    [Tool("ultimate", 0, {}) EXCEPT !.damages = TRUE, !.percent = TRUE, !.pierces = TRUE]>>]
Wall == [Person EXCEPT !.role = "tank", !.subrole = "Stalwart", !.pool = 600, !.armor = 300, !.dps = 60, !.kit = <<
    Gun("melee", 60, {100}), [Tool("ability", 5, {"barrier"}) EXCEPT !.barrier = 1200],
    [Tool("ability", 12, {"negate projectile"}) EXCEPT !.family = "matrix", !.lasts = 3],
    [Tool("ability", 6, {"displace"}) EXCEPT !.damages = TRUE]>>]
Medic == [Person EXCEPT !.role = "support", !.subrole = "Medic", !.dps = 50, !.hps = 60, !.selfHps = 20, !.kit = <<
    Gun("beam", 50, {}), Tool("ability", 10, {"cleanse"}), Tool("ultimate", 0, {"channel", "invulnerable"}),
    [Tool("ability", 14, {"negate projectile"}) EXCEPT !.family = "projectiles", !.lasts = 1],
    [Tool("ability", 12, {"immobilize"}) EXCEPT !.antiheal = One]>>]
Unarmed == [Person EXCEPT !.pool = 400, !.dps = 0, !.kit = <<
    [Tool("ability", 6, {"evasive", "flight"}) EXCEPT !.shoves = TRUE],
    Tool("ability", 3, {"channel"})>>]
People == {Flier, Sniper, Diver, Wall, Medic, Unarmed}

Three  == 1..3
Edges  == {<<1, 2>>, <<2, 1>>, <<2, 3>>, <<3, 1>>}
Graphs3 == {{}, {<<1, 2>>}, {<<1, 2>>, <<2, 1>>}, {<<2, 3>>, <<3, 1>>}, {<<1, 3>>, <<2, 3>>, <<3, 2>>}}
Matched == [{p \in Three \X Three : p[1] # p[2]} -> {400, 600, 700}]

\* Three heroes by their kits, with what is read of them, or three by a matrix
\* and a graph of the wiki's.
CounterCases ==
    {[about |-> "kits", read |-> ReadOf(r), matrix |-> Matrix(r), wiki |-> {<<1, 2>>}] : r \in [Three -> People]}
        \cup [about : {"graph"}, matrix : Matched, wiki : Graphs3]

CountersSound(c) ==
    /\ GraphSound(c.matrix, Three, c.wiki)
    /\ c.about = "kits" => EatenOrProof(c.read)
    /\ c.about = "graph" => AreaCounts(c.matrix, c.wiki)
=============================================================================
