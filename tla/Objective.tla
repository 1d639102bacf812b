------------------------------ MODULE Objective -----------------------------
(***************************************************************************)
(* What one six scores on one board (inference.scoring.Objective), over    *)
(* the default engine's terms (inference.base.Base): the guards settled    *)
(* once per board and those a candidate decides, shared by the strategies  *)
(* that are guarded alike; the limits that prune and those that charge;    *)
(* the heuristics on their frozen scale, the needs and their budget; the   *)
(* trusted rates, the counter graph against the side a seat reads, and the *)
(* healing a side must meet (facts.compute).                               *)
(*                                                                         *)
(* A strategy is a record: its form, its guard `key < params.N` (or none), *)
(* the key it reads, and its dials.  Scores, weights and rates are whole   *)
(* numbers, Unit to one; quotients round toward zero.                      *)
(***************************************************************************)
EXTENDS Integers, Sequences, FiniteSets, FiniteSetsExt

CONSTANTS
    Unit,               \* a norm, a weight or a share of one
    Shape               \* what a lobby fields: each role's seats

Budget    == 2 * Unit   \* NEED_BUDGET: the most one guarded state can cost
Clamp(x)  == Max({0, Min({Unit, x})})
Times(x, y) == (x * y) \div Unit
Sum(S, Of(_)) == MapThenSumSet(Of, S)

SettledKeys == {"enemy.s", "map.k"}
NoGuard   == "none"

-----------------------------------------------------------------------------
(* The guards. *)

Settled(h)   == h.when = NoGuard \/ h.when \in SettledKeys
Guard(h, ns) == h.when = NoGuard \/ ns[h.when] < h.n

\* Mutant: strategies share a slot by the guard's text alone.
SlotByText(h) == h.when

\* Strategies whose guard and params are the same answer together.
SlotKey(h) == <<h.when, h.n>>

\* A slot holds the answer of the first of its strategies that is read.
Gate(catalog, i, ns) ==
    IF Settled(catalog[i]) THEN Guard(catalog[i], ns)
    ELSE Guard(catalog[Min({j \in DOMAIN catalog :
            ~Settled(catalog[j]) /\ SlotKey(catalog[j]) = SlotKey(catalog[i])})], ns)

OfForm(catalog, forms) == {i \in DOMAIN catalog : catalog[i].form \in forms}
Need(h) == h.form = "heuristic" /\ ~Settled(h)

-----------------------------------------------------------------------------
(* Preparing a candidate. *)

Requires(h, ns) == ns[h.reads] > 0

\* What prunes it: a hard limit that applies and fails.
Violations(catalog, ns) ==
    {i \in OfForm(catalog, {"limit"}) :
        ~catalog[i].soft /\ Gate(catalog, i, ns) /\ ~Requires(catalog[i], ns)}

-----------------------------------------------------------------------------
(* The frozen scale. *)

\* The needs of one guard, whatever their params, share the budget.
NeedShare(catalog, i) ==
    LET written == Sum({j \in DOMAIN catalog : Need(catalog[j]) /\ catalog[j].when = catalog[i].when},
                       LAMBDA j : catalog[j].weight)
    IN  IF ~Need(catalog[i]) \/ written = 0 THEN Unit ELSE Min({Unit, (Budget * Unit) \div written})

\* A raw value on its bounds; with no spread the middle, which a need cannot miss.
Norm(raw, bounds, h) ==
    LET span == bounds.high - bounds.low
        norm == Clamp(((raw - bounds.low) * Unit) \div span)
    IN  IF span <= 0 THEN (IF Need(h) THEN Unit ELSE Unit \div 2)
        ELSE IF h.minimize THEN Unit - norm ELSE norm

\* How far a confidence metric sits between its low, or 0, and its high.
Certainty(scale, raw) ==
    LET low   == Min({0, scale.low})
        width == scale.high - low
    IN  IF width <= 0 THEN Unit ELSE Clamp(((raw - low) * Unit) \div width)

-----------------------------------------------------------------------------
(* The score. *)

\* A term of the breakdown.
Term(applies, ok, weighted) == [applies |-> applies, ok |-> ok, weighted |-> weighted]

LimitTerm(catalog, i, ns) ==
    LET h  == catalog[i]
        ok == Gate(catalog, i, ns) => Requires(h, ns)
    IN  Term(Gate(catalog, i, ns), ok, IF h.soft /\ ~ok THEN -h.n * Unit ELSE 0)

HeuristicTerm(catalog, i, ns, bounds, scales) ==
    LET h == catalog[i]
        raw == ns[h.reads]
        sure == IF h.trusts = NoGuard \/ i \notin DOMAIN scales THEN Unit
                ELSE Certainty(scales[i], ns[h.trusts])
        weight == Times(Times(h.weight, NeedShare(catalog, i)), sure)
        norm == Norm(raw, IF i \in DOMAIN bounds THEN bounds[i] ELSE [low |-> 0, high |-> 0], h)
    IN  IF ~Gate(catalog, i, ns) THEN Term(FALSE, TRUE, 0)
        ELSE Term(TRUE, TRUE, IF Need(h) THEN -Times(weight, Unit - norm) ELSE Times(weight, norm))

ScoredTerm(catalog, i, ns) ==
    LET h == catalog[i] IN
    Term(Gate(catalog, i, ns), TRUE, IF Gate(catalog, i, ns) THEN h.weight * (ns[h.reads] - h.n) ELSE 0)

Breakdown(catalog, ns, bounds, scales) ==
    [i \in OfForm(catalog, {"limit", "heuristic", "scored"}) |->
        CASE catalog[i].form = "limit" -> LimitTerm(catalog, i, ns)
          [] catalog[i].form = "heuristic" -> HeuristicTerm(catalog, i, ns, bounds, scales)
          [] catalog[i].form = "scored" -> ScoredTerm(catalog, i, ns)]

Score(base, parts) == base + Sum(DOMAIN parts, LAMBDA i : parts[i].weighted)

\* Whether the playbook has any term that scores (catalog.has_scoring_terms).
HasScoringTerms(catalog) ==
    \E i \in DOMAIN catalog :
        \/ catalog[i].kind = "heuristic" \/ catalog[i].form = "scored"
        \/ catalog[i].form = "limit" /\ catalog[i].soft

\* A board's sliders: a heuristic named carries the weight asked, and no other.
Slid(catalog, i, weight) ==
    IF catalog[i].kind = "heuristic" THEN [catalog EXCEPT ![i].weight = Max({0, Min({10 * Unit, weight})})]
    ELSE catalog

-----------------------------------------------------------------------------
(* The default engine: a world's heroes, their rates, pairs and graph. *)

HeroesOf(world)   == DOMAIN world.role
Pick(world, h)  == IF h \in DOMAIN world.here THEN world.here[h] ELSE world.pick[h]
Partners(world, six, h) == {c \in six : {c, h} \in world.pairs}
Likelihood(world, six, h) == Pick(world, h) + 2 * Cardinality(Partners(world, six, h))

\* The likeliest hero of a role with a seat left, the first name on a tie.
Field(world, six, banned, seats) ==
    {h \in HeroesOf(world) \ (six \cup banned) : seats[world.role[h]] > 0}
Likeliest(world, six, field) ==
    CHOOSE h \in field : \A k \in field :
        \/ Likelihood(world, six, k) < Likelihood(world, six, h)
        \/ Likelihood(world, six, k) = Likelihood(world, six, h) /\ h <= k

SeatsLeft(world, six) ==
    [r \in DOMAIN Shape |-> Max({0, Shape[r] - Cardinality({h \in six : world.role[h] = r})})]

RECURSIVE Filled(_, _, _)
Filled(world, six, banned) ==
    LET field == Field(world, six, banned, SeatsLeft(world, six))
    IN  IF field = {} THEN six ELSE Filled(world, six \cup {Likeliest(world, six, field)}, banned)

ExpectedPicks(world, revealed, banned) == Filled(world, revealed, banned)
LikelySix(world, banned) == ExpectedPicks(world, {}, banned)

\* The side the counter term reads: its picks, else its likely six.
Opponent(world, red, banned) ==
    IF red = {} THEN [heroes |-> LikelySix(world, banned), likely |-> TRUE]
    ELSE [heroes |-> red, likely |-> red = LikelySix(world, banned)]

\* A hero's edge over a coin flip, trusted by its pick rate.
RateEdge(world, h) ==
    LET pick == Pick(world, h)
        edge == world.win[h] - 50
        size == (pick * (IF edge < 0 THEN -edge ELSE edge)) \div (pick + 3)
    IN  IF pick = 0 THEN 0 ELSE IF edge < 0 THEN -size ELSE size

\* The graph's weight into the other side and back; world.weigh[l, w] is the
\* weight of the edge by which w answers l.
Answered(world, six, against) ==
    Sum(six \X against, LAMBDA p : world.weigh[<<p[2], p[1]>>])
Exposed(world, six, against) ==
    Sum(six \X against, LAMBDA p : world.weigh[<<p[1], p[2]>>])

\* The edges the counter fact names: those the tally counts as derived.
DerivedNamed(world, six, against) ==
    {e \in (six \X against) \cup (against \X six) : world.weigh[e] = 1}

\* A six's terms, the rates' not yet divided by the six's size.
BaseTerms(world, six, red, banned) ==
    LET against == Opponent(world, red, banned).heroes IN
    [rates |-> Sum(six, LAMBDA h : RateEdge(world, h)),
     synergy |-> Cardinality({p \in world.pairs : p \subseteq six}),
     answers |-> Answered(world, six, against), exposures |-> Exposed(world, six, against),
     derived |-> DerivedNamed(world, six, against)]

-----------------------------------------------------------------------------
(* The healing floor: what the other side heals, its open slots filled with *)
(* the roles it still misses, and what of it a side leaves unhealed.  A side *)
(* counts its roles, its healing and its pool; numbers carry Unit.           *)

MissingSeats(side) == [r \in DOMAIN Shape |-> Max({0, Shape[r] - side.roles[r]})]
OpenSlots(side) == Sum(DOMAIN Shape, LAMBDA r : Shape[r] - side.roles[r])

\* Mutant: each open slot brings a seat's share of the reference six.
SlotBySeat(side, r) == (OpenSlots(side) * Shape[r] * Unit) \div Sum(DOMAIN Shape, LAMBDA q : Shape[q])

\* The open slots spread over the missing seats: what of role r they bring.
SlotShare(side, r) ==
    LET missing == MissingSeats(side)
        total == Sum(DOMAIN Shape, LAMBDA q : missing[q])
    IN  IF total = 0 THEN 0 ELSE (OpenSlots(side) * missing[r] * Unit) \div total

HealRead(side, medians, healer) ==
    [healing |-> side.hps * Unit + SlotShare(side, "support") * healer,
     pool |-> side.pool * Unit + Sum(DOMAIN Shape, LAMBDA r : SlotShare(side, r) * medians[r])]

HealNeed(read, bluePool) ==
    IF read.pool <= 0 THEN read.healing
    ELSE Max({read.healing, (read.healing * bluePool * Unit) \div read.pool})

HealShortfall(need, healing) ==
    IF need > 0 THEN (Max({0, need - healing * Unit}) * Unit) \div need ELSE 0

-----------------------------------------------------------------------------

\* A guard's answer is the strategy's own, though a slot reads it once for many;
\* the pass that prunes and the pass that scores agree on what a limit says, and
\* a hard one never charges; the needs of one guard cost at most the budget and
\* never pay, and a reward pays between nothing and its weight.
ScoreSound(c) ==
    LET catalog == c.catalog
        parts == c.parts
        needs(when) == {j \in DOMAIN catalog : Need(catalog[j]) /\ catalog[j].when = when}
    IN  /\ \A i \in DOMAIN parts : parts[i].applies = Guard(catalog[i], c.ns)
        /\ Violations(catalog, c.ns) =
               {i \in OfForm(catalog, {"limit"}) : ~catalog[i].soft /\ ~parts[i].ok}
        /\ \A i \in OfForm(catalog, {"limit"}) :
               parts[i].weighted # 0 => catalog[i].soft /\ ~parts[i].ok
        /\ \A i \in OfForm(catalog, {"heuristic"}) :
               IF Need(catalog[i])
               THEN /\ parts[i].weighted <= 0
                    /\ Sum(needs(catalog[i].when), LAMBDA j : parts[j].weighted) >= -Budget
               ELSE parts[i].weighted \in 0..catalog[i].weight
        /\ ~HasScoringTerms(catalog) => Score(0, parts) = 0

\* A slider moves its own heuristic's term, the needs that share its guard, and
\* nothing else of the breakdown (catalog.weighted, Objective.__init__).
SliderLocal(c) ==
    \A i \in DOMAIN c.catalog : \A weight \in {0, 3 * Unit} :
        LET slid == Slid(c.catalog, i, weight)
            moved == Breakdown(slid, c.ns, c.bounds, c.scales)
        IN  \A j \in DOMAIN moved :
                \/ moved[j] = c.parts[j] \/ j = i
                \/ Need(c.catalog[i]) /\ Need(c.catalog[j]) /\ c.catalog[j].when = c.catalog[i].when

\* The side a seat reads is a side a lobby may field, past the bans; handed back
\* as picks it is the likely six still; and the two seats' counter terms are one
\* number with its sign changed, naming the same derived edges (base.opponent).
BaseSound(c) ==
    LET likely == LikelySix(c.world, c.banned)
        against == Opponent(c.world, c.red, c.banned)
        ours == BaseTerms(c.world, c.blue, c.red, c.banned)
        theirs == BaseTerms(c.world, against.heroes, c.blue, c.banned)
    IN  /\ likely \cap c.banned = {}
        /\ \A r \in DOMAIN Shape :
               Cardinality({h \in likely : c.world.role[h] = r}) =
                   Min({Shape[r], Cardinality({h \in HeroesOf(c.world) \ c.banned : c.world.role[h] = r})})
        /\ Opponent(c.world, likely, c.banned) = [heroes |-> likely, likely |-> TRUE]
        /\ ExpectedPicks(c.world, likely, c.banned) = likely
        /\ c.blue # {} => /\ ours.answers = theirs.exposures /\ ours.exposures = theirs.answers
                          /\ ours.derived = theirs.derived

\* A side that shows its supports is never read as holding another, and a full
\* one is read as itself; every open slot brings one hero; equal sides need no more
\* than they have; and healing more never leaves more unhealed (compute.heal_need).
HealSound(c) ==
    LET read == HealRead(c.side, c.medians, c.healer)
        need == HealNeed(read, c.blue.pool)
        short(hps) == HealShortfall(need, hps)
    IN  /\ c.side.roles["support"] >= Shape["support"] => read.healing = c.side.hps * Unit
        /\ Sum(DOMAIN Shape, LAMBDA r : SlotShare(c.side, r)) = OpenSlots(c.side) * Unit
        /\ need >= read.healing
        /\ OpenSlots(c.side) = 0 /\ c.blue = c.side => short(c.blue.hps) = 0
        /\ short(c.blue.hps) \in 0..Unit /\ short(c.blue.hps + 1) <= short(c.blue.hps)
=============================================================================
