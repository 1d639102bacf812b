------------------------------ MODULE Counters ------------------------------
(***************************************************************************)
(* Who answers whom by the kit alone (facts.counters): what is read of a   *)
(* hero's kit, the thirteen mechanisms, the matrix of pairings, the edges  *)
(* derived from it where the wiki has none, their weight in a tally, and   *)
(* how well the matrix ranks the wiki's own edges.                         *)
(*                                                                         *)
(* A strength is in 0..One: the code's numbers to their third decimal.     *)
(***************************************************************************)
EXTENDS Integers, Sequences, FiniteSets, FiniteSetsExt

One       == 1000       \* a strength of 1
Floor     == 100        \* a weaker mechanism does not fire
Threshold == 500        \* a derived edge scores this or more
CONSTANT TopAnswers     \* how many answers a loser has: 6

Ult       == (3 * One) \div 10
Half      == One \div 2
Clamp(x)  == Max({0, Min({One, x})})
Times(x, y)  == (x * y) \div One
Share(x, of) == IF of = 0 THEN 0 ELSE Clamp((x * One) \div of)
Best(S)      == Max(S \cup {0})
Tools(h, Test(_)) == {i \in DOMAIN h.kit : Test(h.kit[i])}
Total(h, S, Worth(_)) == Clamp(MapThenSumSet(LAMBDA i : Worth(h.kit[i]), S))

-----------------------------------------------------------------------------
(* What is read of a kit: its pieces, weapons and abilities. *)

IsWeapon(p)  == p.kind = "weapon"
IsAbility(p) == p.kind = "ability"
IsUlt(p)     == p.kind = "ultimate"
Cast(p)      == IsAbility(p) \/ IsUlt(p)
StrongMove   == {"strong movement", "flight"}
Movement(p)  == p.keywords \cap (StrongMove \cup {"movement", "evasive"}) # {}
Saving(p)    == Cast(p) /\ p.keywords \cap {"invulnerable", "cleanse"} # {}
CoolWeight(p, full) == IF IsUlt(p) THEN Ult ELSE IF p.cooldown = 0 THEN One ELSE Share(full, p.cooldown)

\* A pellet of a shot, or its biggest row.
PerHit(p) ==
    LET cap   == (105 * Max(p.hits)) \div (100 * p.pellets)
        small == {v \in p.hits : v <= cap}
    IN  IF p.hits = {} THEN 0 ELSE IF p.pellets < 2 THEN Max(p.hits)
        ELSE IF small # {} THEN Max(small) ELSE Max(p.hits) \div p.pellets

\* How far a weapon fights, and whether the kit publishes it.
Reach(p) ==
    CASE p.type = "melee" -> [metres |-> IF p.reach = 0 THEN 4 ELSE p.reach, published |-> TRUE]
      [] p.type # "melee" /\ p.falloff >= 10 /\ p.reach = 0 -> [metres |-> p.falloff, published |-> TRUE]
      [] p.type # "melee" /\ p.reach > 0 -> [metres |-> Min({60, p.reach}), published |-> TRUE]
      [] p.type = "beam" /\ p.reach = 0 -> [metres |-> 15, published |-> TRUE]
      [] p.type = "hitscan" /\ p.reach = 0 /\ p.falloff < 10 -> [metres |-> 60, published |-> FALSE]
      [] OTHER -> [metres |-> Min({60, (IF p.speed = 0 THEN 40 ELSE p.speed) \div 2}), published |-> FALSE]

\* A guess stands only where no primary fire publishes a reach.
Fights(h) ==
    LET guns == Tools(h, LAMBDA p : IsWeapon(p) /\ p.damages)
        said == \E g \in guns : h.kit[g].primary /\ Reach(h.kit[g]).published
    IN  {g \in guns : Reach(h.kit[g]).published \/ ~said}

AgainstAir(p) ==
    CASE p.type = "hitscan" -> One
      [] p.type = "projectile" -> IF p.speed >= 100 THEN (3 * One) \div 4 ELSE (2 * One) \div 5
      [] p.type = "beam" -> One \div 5
      [] p.type = "melee" -> 0

BurstOf(h) ==
    Best(UNION {h.kit[i].hits : i \in Tools(h, LAMBDA p :
        p.kind # "passive" /\ ~IsUlt(p) /\ ~(IsAbility(p) /\ Movement(p)))})

AntiAir(h) ==
    Times(Best({Times(AgainstAir(h.kit[g]), Share(Reach(h.kit[g]).metres, 30)) : g \in Fights(h)}),
          Max({Share(h.dps, 100), Share(BurstOf(h), 150)}))

FlightOf(h) ==
    IF h.pool > 300 THEN 0
    ELSE Best({CASE h.kit[i].kind = "passive" -> One
                 [] IsUlt(h.kit[i]) -> One \div 5
                 [] OTHER -> IF "evasive" \in h.kit[i].keywords THEN (3 * One) \div 10 ELSE (3 * One) \div 5 :
               i \in Tools(h, LAMBDA p : "flight" \in p.keywords)})

Interrupts(p) ==
    Cast(p) /\ ~p.allies /\ ("stun" \in p.keywords \/ ("displace" \in p.keywords /\ p.damages))
Denies(p) ==
    LET w == CoolWeight(p, 8) IN
    CASE ~Cast(p) \/ p.allies -> 0
      [] Interrupts(p) -> w
      [] Cast(p) /\ ~p.allies /\ ~Interrupts(p) /\ "immobilize" \in p.keywords -> (3 * w) \div 4
      [] OTHER -> IF p.shoves /\ p.damages /\ ~Movement(p) THEN (2 * w) \div 5 ELSE 0

\* An eater of a flag family, or one whose description says it takes projectiles.
Eater(h) ==
    LET eaters == Tools(h, LAMBDA p : Cast(p) /\ "negate projectile" \in p.keywords /\ p.family # "")
        uptime(p) == IF IsUlt(p) THEN Ult ELSE Clamp(5 * Share(p.lasts, p.lasts + p.cooldown))
        top == Best({uptime(h.kit[i]) : i \in eaters})
    IN  IF top = 0 THEN [strength |-> 0, family |-> ""]
        ELSE [strength |-> top,
              family |-> h.kit[Min({i \in eaters : uptime(h.kit[i]) = top})].family]

Pierces(h) ==
    IF Tools(h, LAMBDA p : IsWeapon(p) /\ p.damages /\ p.pierces) # {} THEN One
    ELSE Best({IF IsUlt(h.kit[i]) THEN Ult ELSE Half :
               i \in Tools(h, LAMBDA p : Cast(p) /\ p.damages /\ ~p.allies /\ p.pierces)})

\* The highest sustained rate; no weapon, no main.
MainOf(h) ==
    LET guns == Tools(h, LAMBDA p : IsWeapon(p) /\ p.damages)
    IN  CHOOSE g \in guns : \A o \in guns :
            h.kit[o].rate < h.kit[g].rate \/ (h.kit[o].rate = h.kit[g].rate /\ o <= g)
Armed(h) == Tools(h, LAMBDA p : IsWeapon(p) /\ p.damages) # {}

ArmorLoss(p) ==
    LET hit  == IF PerHit(p) = 0 THEN 1 ELSE PerHit(p)
        loss == IF p.type = "beam" THEN (3 * One) \div 10 ELSE Min({(5 * One) \div hit, Half})
    IN  IF "armor piercing" \in p.keywords THEN 0 ELSE loss

Features(h, supportHps) ==
    LET main   == h.kit[MainOf(h)]
        moves  == Tools(h, LAMBDA p : p.kind \in {"ability", "passive"} /\ ~p.allies /\ Movement(p))
        mobility == Clamp((2 * MapThenSumSet(LAMBDA i :
                        IF h.kit[i].keywords \cap StrongMove # {} THEN One ELSE Half, moves)) \div 3)
        barrier == Best({h.kit[i].barrier : i \in Tools(h, IsAbility)})
        own == h.selfHeal + 3 * h.selfHps
        range == Best({Reach(h.kit[g]).metres : g \in Fights(h)})
        channels(Test(_)) == Tools(h, LAMBDA p : "channel" \in p.keywords /\ Test(p)) # {}
        taken(share) == IF Armed(h) THEN Times(share, Max({One \div 4, Share(Best(main.hits), 60)})) ELSE 0
    IN [role |-> h.role, pool |-> h.pool, dps |-> h.dps, burst |-> BurstOf(h), range |-> range,
        armed |-> Armed(h), type |-> IF Armed(h) THEN main.type ELSE "none",
        passes |-> IF Armed(h) THEN [matrix |-> One - main.matrix, deflect |-> One - main.deflect]
                   ELSE [matrix |-> 0, deflect |-> 0],
        eaten |-> IF Armed(h) THEN taken(main.matrix) ELSE 0,
        deflected |-> IF Armed(h) THEN taken(main.deflect) ELSE 0,
        armorShare |-> Share(h.armor, h.pool), armorLoss |-> IF Armed(h) THEN ArmorLoss(main) ELSE 0,
        aa |-> AntiAir(h), flight |-> FlightOf(h), mobility |-> mobility,
        mobile |-> Clamp(((mobility - (34 * One) \div 100) * 100) \div 66),
        diver |-> h.subrole \in {"Initiator", "Flanker"},
        escape |-> Tools(h, LAMBDA p : IsAbility(p) /\ ~p.allies /\ "invulnerable" \in p.keywords) # {},
        interrupt |-> Total(h, Tools(h, Interrupts), LAMBDA p : CoolWeight(p, 8)),
        deny |-> Total(h, DOMAIN h.kit, Denies),
        channel |-> (IF channels(IsUlt) THEN Half ELSE 0)
            + IF channels(LAMBDA p : IsAbility(p) /\ ~p.allies /\ ~Movement(p)) THEN Half ELSE 0,
        save |-> Total(h, Tools(h, Saving), LAMBDA p :
            Times(IF "cleanse" \in p.keywords THEN One ELSE (7 * One) \div 10, CoolWeight(p, 10))),
        antiheal |-> Clamp(Best({Times(h.kit[i].antiheal, IF IsUlt(h.kit[i]) THEN Ult ELSE One) :
            i \in Tools(h, LAMBDA p : ~IsWeapon(p))})),
        healing |-> Max({Share(own, h.pool), Share(h.hps, supportHps)}),
        barrierShare |-> Share(barrier, barrier + h.pool), pierce |-> Pierces(h),
        eater |-> Eater(h).strength, family |-> Eater(h).family,
        tankness |-> IF h.role = "tank" THEN Share(Max({0, h.pool - 400}), 200) ELSE 0,
        backline |-> CASE h.subrole \in {"Sharpshooter", "Tactician", "Medic"} \/ range >= 40 -> One
                       [] OTHER -> IF range >= 30 THEN Half ELSE 0,
        oneshot |-> Share(Max({0, BurstOf(h) - 150}), 150),
        percent |-> Tools(h, LAMBDA p : IsUlt(p) /\ p.percent) # {}]

-----------------------------------------------------------------------------
(* The mechanisms: w against l. *)

Reachable(w, l) == One - Times(l.flight, One - w.aa)
Taken(family, l) ==
    CASE family = "deflect" -> l.deflected
      [] family = "matrix" -> l.eaten
      [] OTHER -> IF l.type = "projectile" THEN l.eaten ELSE 0

Strength(m, w, l) ==
    CASE m = "antiair"  -> Times(w.aa, l.flight)
      [] m = "flyer"    -> Times(Times(w.flight, One - l.aa), Share(w.dps, 90))
      [] m = "barrier"  -> Times(w.pierce, l.barrierShare)
      [] m = "antiheal" -> Times(w.antiheal, l.healing)
      [] m = "burst"    -> IF l.role = "tank" \/ w.burst = 0 THEN 0
            ELSE Times(Times(Share(Max({0, 2 * w.burst - l.pool}), l.pool),
                             (IF w.type = "melee" THEN Half ELSE One)),
                       Times(One - l.mobile \div 2, Reachable(w, l)))
      [] m = "cc"       -> Times(Max({Times(w.interrupt, l.channel), Times(w.deny, l.mobile)}), Reachable(w, l))
      [] m = "eater"    -> Times(w.eater, Taken(w.family, l))
      [] m = "eaterproof" -> IF l.eater = 0 \/ ~w.armed THEN 0
            ELSE Times(l.eater,
                CASE l.family = "matrix" -> w.passes.matrix
                  [] l.family = "deflect" -> w.passes.deflect
                  [] OTHER -> IF w.type \in {"beam", "melee"} THEN One
                              ELSE IF w.type = "projectile" THEN w.passes.matrix ELSE 0)
      [] m = "armor"    -> Times(w.armorShare, 2 * l.armorLoss)
      [] m = "dive"     -> IF ~w.diver THEN 0
            ELSE Times(Times(w.mobility,
                       Times(Times(l.backline, One - l.mobility), IF l.escape THEN Half ELSE One)),
                 Times(Clamp((5 * (((2 * w.burst + 3 * w.dps) * One) \div (2 * l.pool) - (2 * One) \div 5)) \div 3),
                       Reachable(w, l)))
      [] m = "save"     -> Times(w.save, Max({l.antiheal, l.interrupt, l.oneshot \div 2}))
      [] m = "range"    -> Times(Times(Share(Max({0, w.range - l.range - 10}), 30), Share(w.dps, 90)),
                                 Times(One - l.mobility, One - l.barrierShare))
      [] m = "tankbust" -> Times(l.tankness,
            Max({IF w.percent THEN Ult ELSE 0,
                 Share(Max({0, Times(w.dps, One - Times(w.armorLoss, l.armorShare)) - 90}), 60)}))

Mechanisms == {"antiair", "flyer", "barrier", "antiheal", "burst", "cc", "eater", "eaterproof",
               "armor", "dive", "save", "range", "tankbust"}
Fired(w, l)   == {m \in Mechanisms : Strength(m, w, l) >= Floor}
Pairing(w, l) == Clamp(MapThenSumSet(LAMBDA m : Strength(m, w, l), Fired(w, l)))

-----------------------------------------------------------------------------
(* The matrix of a roster, and the graph it fills. *)

Pairs(roster) == {p \in (DOMAIN roster) \X (DOMAIN roster) : p[1] # p[2]}
SupportHps(roster) == Best({roster[h].hps : h \in {k \in DOMAIN roster : roster[k].role = "support"}})
ReadOf(roster) == [h \in DOMAIN roster |-> Features(roster[h], SupportHps(roster))]
Matrix(roster) == LET read == ReadOf(roster) IN [p \in Pairs(roster) |-> Pairing(read[p[1]], read[p[2]])]

\* Mutant: a pair that ties either way answers both ways.
Answers0(matrix, heroes, l) ==
    {w \in heroes \ {l} : matrix[<<w, l>>] >= Threshold /\ matrix[<<w, l>>] >= matrix[<<l, w>>]}

\* A loser's answers that score and that it does not answer as well itself.
Answers(matrix, heroes, l) ==
    {w \in heroes \ {l} : matrix[<<w, l>>] >= Threshold /\ matrix[<<w, l>>] > matrix[<<l, w>>]}
Ahead(matrix, l, v, w) ==
    LET net(x) == matrix[<<x, l>>] - matrix[<<l, x>>] IN
    \/ matrix[<<v, l>>] > matrix[<<w, l>>]
    \/ matrix[<<v, l>>] = matrix[<<w, l>>] /\ (net(v) > net(w) \/ (net(v) = net(w) /\ v < w))
TopOf(matrix, heroes, l) ==
    LET found == Answers(matrix, heroes, l) IN
    {w \in found : Cardinality({v \in found : Ahead(matrix, l, v, w)}) < TopAnswers}

\* The edges, loser first, on the pairs the wiki has no edge on either way.
Derived(matrix, heroes, wiki) ==
    {e \in heroes \X heroes :
        e[1] # e[2] /\ e[2] \in TopOf(matrix, heroes, e[1]) /\ {e, <<e[2], e[1]>>} \cap wiki = {}}

EdgeWeight(derived, wiki, l, w) ==
    CASE <<l, w>> \in wiki -> 2
      [] <<w, l>> \in wiki /\ <<l, w>> \notin wiki -> 0
      [] OTHER -> IF <<l, w>> \in derived THEN 1 ELSE 0

\* Twice the rank sum's distance from its least: the area, over twice the pairs
\* of an edge and no edge.
RankArea(matrix, wiki) ==
    LET below(s) == Cardinality({p \in DOMAIN matrix : matrix[p] < s})
        upto(s)  == Cardinality({p \in DOMAIN matrix : matrix[p] <= s})
        edges    == {p \in DOMAIN matrix : <<p[2], p[1]>> \in wiki}
        ranks(p) == below(matrix[p]) + upto(matrix[p]) + 1
    IN  MapThenSumSet(ranks, edges) - Cardinality(edges) * (Cardinality(edges) + 1)

-----------------------------------------------------------------------------

\* The graph a tally sums: no loser has more than its best answers derived, none
\* on a pair the wiki speaks of, never both ways round; and whatever a pair's two
\* weights are, only two wiki edges weigh more than a wiki edge (derive, weight).
GraphSound(matrix, heroes, wiki) ==
    LET derived == Derived(matrix, heroes, wiki)
        weigh(l, w) == EdgeWeight(derived, wiki, l, w)
    IN  /\ \A l \in heroes : Cardinality({e \in derived : e[1] = l}) <= TopAnswers
        /\ \A l, w \in heroes :
            l # w /\ ~({<<l, w>>, <<w, l>>} \subseteq wiki) => weigh(l, w) + weigh(w, l) <= 2
        /\ \A l, w \in heroes :
            l # w /\ {<<l, w>>, <<w, l>>} \cap wiki = {} => weigh(l, w) + weigh(w, l) <= 1

\* What an eater takes of a weapon and what of it passes are shares of one whole:
\* no weapon is both eaten and proof (_taken and m_eaterproof).
EatenOrProof(read) ==
    \A p \in Pairs(read) :
        Strength("eater", read[p[1]], read[p[2]]) + Strength("eaterproof", read[p[2]], read[p[1]])
            <= read[p[1]].eater

\* The rank sum is the share of the pairs of an edge and no edge that the matrix
\* orders right, a tie a half: "the Mann-Whitney AUC, ties counted half" (auc).
AreaCounts(matrix, wiki) ==
    LET edges == {p \in DOMAIN matrix : <<p[2], p[1]>> \in wiki}
        rest  == DOMAIN matrix \ edges
        won(Test(_, _)) == Cardinality({q \in edges \X rest : Test(matrix[q[1]], matrix[q[2]])})
    IN  RankArea(matrix, wiki) = 2 * won(LAMBDA a, b : a > b) + won(LAMBDA a, b : a = b)
=============================================================================
