------------------------------- MODULE Search -------------------------------
(***************************************************************************)
(* One board's search for its best six (inference.solver.Solver), with the *)
(* scale it is scored on (inference.scale) and the slices a pool computes  *)
(* it in (inference.parallel.Split): the sample and the field fix every    *)
(* heuristic's bounds, the sample's mean scores rank each role's pool, the *)
(* pools are swept, and a local search starts from the best of the sweep.  *)
(*                                                                         *)
(* A six is a set of TeamSize heroes, a hero a number in the order of the  *)
(* names (and of the ids).  What a metric reads off a six is the board's   *)
(* data; scores are whole numbers, Unit to a weight of one.                *)
(***************************************************************************)
EXTENDS Integers, FiniteSets, FiniteSetsExt

CONSTANTS
    Heroes, RoleOf, Released,   \* the roster, each hero's role, who is playable
    TeamSize, MaxTanks,         \* the queue's form
    AllowedShapes,              \* the shapes the playbook's shape limits allow
    Rules, Weight,              \* the heuristics, what each weighs
    Minimize, Needs,            \* those that minimise, those guarded on the six
    Boards,                     \* the boards: map, side, red, bans and locks
    Raw(_, _, _),               \* what a rule reads off a six on a board
    Base(_, _), Tiebreak(_, _), \* the terms that read no scale; the map win mean
    Refused(_, _),              \* whether a hard limit refuses a six
    Prior(_, _),                \* a hero's ranking before a playbook ranked them
    Locked(_), Banned(_),       \* a board's blue picks, its bans
    Synergies,                  \* the wiki's pairs
    Samples,                    \* the reference samples a seed may draw
    Slices,                     \* the slices a round is split into
    PoolSize, ScalePool,        \* candidates per role: searched, and for the scale
    Seeds, ShapeReach, PairTries,   \* the local search's starts and budgets
    Restarts,                   \* the random starts after them
    Unit,                       \* a norm of one
    NoReading                   \* a rule that does not apply to a six

ASSUME SearchAssumption ==
    /\ Heroes \subseteq Nat /\ IsFiniteSet(Heroes) /\ Released \subseteq Heroes
    /\ RoleOf \in [Heroes -> {"tank", "damage", "support"}]
    /\ {TeamSize, Slices, Seeds, Unit} \subseteq Nat \ {0}
    /\ {MaxTanks, PoolSize, ScalePool, ShapeReach, PairTries, Restarts} \subseteq Nat
    /\ Needs \subseteq Rules /\ Minimize \subseteq Rules
    /\ \A b \in Boards : Locked(b) \subseteq Released \ Banned(b)
    /\ \A p \in Synergies : p \subseteq Heroes /\ Cardinality(p) = 2
    /\ \A S \in Samples : \A T \in S : T \subseteq Released /\ Cardinality(T) = TeamSize
    /\ IsFiniteSet(Rules) /\ Weight \in [Rules -> Int]
    /\ \A b \in Boards, T \in SUBSET Released : Cardinality(T) = TeamSize =>
        /\ Base(b, T) \in Int /\ Tiebreak(b, T) \in Int
        /\ \A r \in Rules : Raw(b, r, T) \in Int \cup {NoReading}

VARIABLES
    board,      \* the board asked about
    sample,     \* its reference sixes
    stage,      \* the round or the step of the local search under way
    slice,      \* the slices of this round already merged
    bounds,     \* each valued rule's low and high
    tally,      \* each hero's summed score and count over the sample
    field,      \* the swept sixes no limit refuses
    known,      \* every six scored and not refused
    todo,       \* starts left to climb from, or to bring pairs into
    at,         \* the six a climb stands on; {} between climbs
    seed,       \* the six pairs are brought into; {} between seeds
    best,       \* the best six met with a pair in
    offers,     \* the pairs not tried in the seed
    tries,      \* the new sixes scored for this seed
    leader,     \* the best six of the last two steps
    left        \* restarts to go

scale  == <<bounds, tally, field>>
pairing == <<seed, best, offers, tries>>
searchVars == <<board, sample, stage, slice, scale, known, todo, at, pairing, leader, left>>

NoSix == [six |-> {}, score |-> 0, tiebreak |-> 0]

-----------------------------------------------------------------------------
(* Shapes and sixes. *)

Roles == {"tank", "damage", "support"}

Seats(T, r)  == {h \in T : RoleOf[h] = r}
ShapeOf(T)   == [r \in Roles |-> Cardinality(Seats(T, r))]
LegalShapes  == {s \in AllowedShapes :
                    /\ s["tank"] <= MaxTanks
                    /\ s["tank"] + s["damage"] + s["support"] = TeamSize}

\* The sixes of a legal shape around the locked picks, from these candidates.
Around(locked, candidates) ==
    {T \in {locked \cup C : C \in kSubset(TeamSize - Cardinality(locked), candidates)} :
        ShapeOf(T) \in LegalShapes}

Prepared(S) == {T \in S : ~Refused(board, T)}

\* Sorted names, compared as lists are.
NamesBefore(T, U) == \E h \in T \ U : \A k \in U \ T : h < k

\* Every Slices-th six of a listing, from i.  The listing is any fixed order.
SliceOf(S, i) == {T \in S : Cardinality({U \in S : NamesBefore(U, T)}) % Slices = i}

-----------------------------------------------------------------------------
(* The scale and the score. *)

Valued(r, S)   == {Raw(board, r, T) : T \in S} \ {NoReading}
BoundsOver(S)  == [r \in {q \in Rules : Valued(q, S) # {}} |->
                    [low |-> Min(Valued(r, S)), high |-> Max(Valued(r, S))]]

\* Mutant: a rule a slice never valued counts as (0, 0) there.
WidenFromZero(b, part) ==
    LET Seen(f, r) == IF r \in DOMAIN f THEN f[r] ELSE [low |-> 0, high |-> 0]
    IN  [r \in DOMAIN b \cup DOMAIN part |->
            [low  |-> Min({Seen(b, r).low, Seen(part, r).low}),
             high |-> Max({Seen(b, r).high, Seen(part, r).high})]]

Widen(b, part) ==
    [r \in DOMAIN b \cup DOMAIN part |->
        IF r \notin DOMAIN part THEN b[r]
        ELSE IF r \notin DOMAIN b THEN part[r]
        ELSE [low  |-> Min({b[r].low, part[r].low}),
              high |-> Max({b[r].high, part[r].high})]]

\* A reading's place on its scale, in 0..Unit.
Norm(r, value) ==
    LET low  == IF r \in DOMAIN bounds THEN bounds[r].low ELSE 0
        high == IF r \in DOMAIN bounds THEN bounds[r].high ELSE 0
        at01 == Max({0, Min({Unit, ((value - low) * Unit) \div (high - low)})})
    IN  IF high <= low THEN IF r \in Needs THEN Unit ELSE Unit \div 2
        ELSE IF r \in Minimize THEN Unit - at01 ELSE at01

Weighted(r, T) ==
    IF Raw(board, r, T) = NoReading THEN 0
    ELSE Weight[r] * (Norm(r, Raw(board, r, T)) - IF r \in Needs THEN Unit ELSE 0)

Score(T) == Base(board, T) + MapThenSumSet(LAMBDA r : Weighted(r, T), Rules)

\* A six as the search keeps it: the verdict, not the working.
Verdict(T) == [six |-> T, score |-> Score(T), tiebreak |-> Tiebreak(board, T)]
Judged(S)  == {Verdict(T) : T \in Prepared(S)}

\* The order rank() sorts by: score, tie-break, names.
Above(v, w) ==
    \/ v.score > w.score
    \/ v.score = w.score /\ v.tiebreak > w.tiebreak
    \/ v.score = w.score /\ v.tiebreak = w.tiebreak /\ NamesBefore(v.six, w.six)

\* Mutant: a six that only ties is taken for an improvement.
BeatsOrTies(v, w) == v.score >= w.score /\ v # w

\* What every move of the local search asks.
Beats(v, w) == IF v.score # w.score THEN v.score > w.score ELSE Above(v, w)

Best(V)      == CHOOSE v \in V : \A w \in V \ {v} : Above(v, w)
BestOf(n, V) == {v \in V : Cardinality({w \in V : Above(w, v)}) < n}

-----------------------------------------------------------------------------
(* The pools. *)

\* The first n of a set of heroes in an order.
First(n, S, Before(_, _)) == {h \in S : Cardinality({k \in S : Before(k, h)}) < n}

\* The field that fixes the scale: it reads neither the bans nor the locks.
BoardPool(r) ==
    First(ScalePool, Seats(Released, r),
          LAMBDA h, k : \/ Prior(board, h) > Prior(board, k)
                        \/ Prior(board, h) = Prior(board, k) /\ h < k)
BoardField == Around({}, UNION {BoardPool(r) : r \in Roles})

Partners(h) == Cardinality({a \in Locked(board) : {a, h} \in Synergies})

\* Standing first (half a point for each locked partner), then prior, then name;
\* a hero of no reference six comes last.
PoolBefore(h, k) ==
    LET n == tally[h].sixes  m == tally[k].sixes
        x == (2 * tally[h].total + Unit * Partners(h) * n) * m
        y == (2 * tally[k].total + Unit * Partners(k) * m) * n
        p == Prior(board, h) + 2 * Partners(h)
        q == Prior(board, k) + 2 * Partners(k)
        level == (n = 0 /\ m = 0) \/ (n > 0 /\ m > 0 /\ x = y)
    IN  \/ n > 0 /\ (m = 0 \/ x > y)
        \/ level /\ (p > q \/ (p = q /\ h < k))

Pool(r) == First(PoolSize, Seats(Released \ (Locked(board) \cup Banned(board)), r), PoolBefore)

LegalSixes == Around(Locked(board), UNION {Pool(r) : r \in Roles})

-----------------------------------------------------------------------------
(* The moves of the local search. *)

\* Mutant: the roster of moves forgets the bans.
RosterWithBans == Released

Roster == Released \ Banned(board)

\* Mutant: the local search swaps within the pools.
SwapsInPools(T, n) ==
    {(T \ p[1]) \cup p[2] :
        p \in {q \in kSubset(n, T \ Locked(board)) \X kSubset(n, UNION {Pool(r) : r \in Roles} \ T) :
                ShapeOf(q[1]) = ShapeOf(q[2])}}

\* The sixes n open seats away, each seat refilled with a hero of its role.
Swaps(T, n) ==
    {(T \ p[1]) \cup p[2] :
        p \in {q \in kSubset(n, T \ Locked(board)) \X kSubset(n, Roster \ T) :
                ShapeOf(q[1]) = ShapeOf(q[2])}}

\* The synergy pairs this board can field.
Pairs == {p \in Synergies : p \subseteq Roster}

\* A pair seated in two open slots of its own roles.
Seatings(T, p) ==
    {(T \ out) \cup p : out \in {o \in kSubset(2, T \ Locked(board)) : ShapeOf(o) = ShapeOf(p)}}

\* The top of the field, and the best six of every shape close to the best.
Starts(V) ==
    LET floor == Best(V).score - ShapeReach
    IN  BestOf(Seeds, V) \cup
        {v \in V : /\ v.score >= floor
                   /\ \A w \in V \ {v} : ShapeOf(w.six) = ShapeOf(v.six) => Above(v, w)}

\* The sixes a restart draws from: the leader's shape around the locks.
Redraws == {T \in Around(Locked(board), Roster \ Locked(board)) :
                ShapeOf(T) = ShapeOf(leader.six)}

-----------------------------------------------------------------------------
SearchInit ==
    /\ board \in Boards /\ sample \in Samples
    /\ stage = "sampling" /\ slice = 0
    /\ bounds = [r \in {} |-> 0]
    /\ tally = [h \in Heroes |-> [total |-> 0, sixes |-> 0]]
    /\ field = {} /\ known = {} /\ todo = {}
    /\ at = NoSix /\ seed = NoSix /\ best = NoSix /\ leader = NoSix
    /\ offers = {} /\ tries = 0 /\ left = 0

\* The slice's result is merged; the last one ends the round.
Merged(next) ==
    /\ slice' = (slice + 1) % Slices
    /\ stage' = IF slice' = 0 THEN next ELSE stage
    /\ UNCHANGED <<board, sample, known, todo, at, pairing, leader, left>>

\* A slice of the sample and of the field, read for its lows and highs.
SampleSlice ==
    /\ stage = "sampling"
    /\ bounds' = Widen(bounds, BoundsOver(Prepared(SliceOf(sample, slice)
                                            \cup SliceOf(BoardField, slice))))
    /\ Merged("tallying")
    /\ UNCHANGED <<tally, field>>

TallyOver(S) == [h \in Heroes |->
    LET with == {T \in S : h \in T}
    IN  [total |-> MapThenSumSet(Score, with), sixes |-> Cardinality(with)]]

\* Mutant: a slice's standing replaces what the others tallied.
TalliesReplaced(a, b) == [h \in Heroes |-> IF b[h].sixes > 0 THEN b[h] ELSE a[h]]

MergeTallies(a, b) == [h \in Heroes |-> [total |-> a[h].total + b[h].total,
                                         sixes |-> a[h].sixes + b[h].sixes]]

\* A slice of the sample scored under the merged bounds.
TallySlice ==
    /\ stage = "tallying"
    /\ tally' = MergeTallies(tally, TallyOver(Prepared(SliceOf(sample, slice))))
    /\ Merged("sweeping")
    /\ UNCHANGED <<bounds, field>>

\* A slice of the enumeration, what the limits refuse left out.
SweepSlice ==
    /\ stage = "sweeping"
    /\ field' = field \cup Judged(SliceOf(LegalSixes, slice))
    /\ Merged("ranking")
    /\ UNCHANGED <<bounds, tally>>

\* No six meets the limits: rank() answers an empty list.
Refuse ==
    /\ stage = "ranking" /\ field = {}
    /\ stage' = "infeasible"
    /\ UNCHANGED <<board, sample, slice, scale, known, todo, at, pairing, leader, left>>

Rank ==
    /\ stage = "ranking" /\ field # {}
    /\ stage' = "seeds" /\ known' = field /\ todo' = Starts(field)
    /\ UNCHANGED <<board, sample, slice, scale, at, pairing, leader, left>>

-----------------------------------------------------------------------------
(* The local search. *)

NextSeed ==
    /\ stage = "seeds" /\ at = NoSix /\ todo # {}
    /\ at' = Best(todo) /\ todo' = todo \ {at'}
    /\ UNCHANGED <<board, sample, stage, slice, scale, known, pairing, leader, left>>

Better(V, v) == {w \in V : Beats(w, v)}

\* Every single-slot swap is tried, and the best of them taken.
Climb ==
    LET met == Judged(Swaps(at.six, 1))
    IN  /\ at # NoSix /\ Better(met, at) # {}
        /\ known' = known \cup met
        /\ at' = Best(Better(met, at))
        /\ UNCHANGED <<board, sample, stage, slice, scale, todo, pairing, leader, left>>

\* None ranks above it: the climb is over.
Rest ==
    LET met == Judged(Swaps(at.six, 1))
    IN  /\ at # NoSix /\ Better(met, at) = {}
        /\ known' = known \cup met
        /\ at' = NoSix
        /\ leader' = IF \/ stage = "restarts" /\ Beats(at, leader)
                        \/ stage = "twoswaps"
                     THEN at ELSE leader
        /\ UNCHANGED <<board, sample, stage, slice, scale, todo, pairing, left>>

SeedsDone ==
    /\ stage = "seeds" /\ at = NoSix /\ todo = {}
    /\ stage' = "pairs"
    /\ todo' = IF Pairs = {} THEN {} ELSE BestOf(Seeds, known)
    /\ UNCHANGED <<board, sample, slice, scale, known, at, pairing, leader, left>>

NextPaired ==
    /\ stage = "pairs" /\ at = NoSix /\ seed = NoSix /\ todo # {}
    /\ seed' = Best(todo) /\ best' = seed' /\ todo' = todo \ {seed'}
    /\ offers' = {p \in Pairs : p \cap seed'.six = {}}
    /\ tries' = 0
    /\ UNCHANGED <<board, sample, stage, slice, scale, known, at, leader, left>>

\* The next pair in id order, in every seating, while the budget lasts.
TryPair ==
    /\ seed # NoSix /\ offers # {} /\ tries < PairTries
    /\ LET p   == CHOOSE q \in offers : \A o \in offers \ {q} : NamesBefore(q, o)
           met == Judged(Seatings(seed.six, p))
       IN  /\ offers' = offers \ {p}
           /\ tries' = tries + Cardinality(Seatings(seed.six, p) \ {v.six : v \in known})
           /\ known' = known \cup met
           /\ best' = IF Better(met, best) = {} THEN best ELSE Best(Better(met, best))
    /\ UNCHANGED <<board, sample, stage, slice, scale, todo, at, seed, leader, left>>

\* The climb goes on from a six that gained.
PairsTried ==
    /\ seed # NoSix /\ (offers = {} \/ tries >= PairTries)
    /\ at' = IF best = seed THEN NoSix ELSE best
    /\ seed' = NoSix /\ best' = NoSix /\ offers' = {} /\ tries' = 0
    /\ UNCHANGED <<board, sample, stage, slice, scale, known, todo, leader, left>>

PairsDone ==
    /\ stage = "pairs" /\ at = NoSix /\ seed = NoSix /\ todo = {}
    /\ leader' = Best(known) /\ left' = Restarts /\ stage' = "restarts"
    /\ UNCHANGED <<board, sample, slice, scale, known, todo, at, pairing>>

\* Mutant: a drawn six is climbed from whether or not a limit refuses it.
RestartUnchecked ==
    /\ stage = "restarts" /\ at = NoSix /\ left > 0
    /\ left' = left - 1
    /\ \E T \in Redraws :
        /\ known' = known \cup Judged({T})
        /\ at' = Verdict(T)
    /\ UNCHANGED <<board, sample, stage, slice, scale, todo, pairing, leader>>

\* A random six of the leader's shape; one a limit refuses is not climbed from.
Restart ==
    /\ stage = "restarts" /\ at = NoSix /\ left > 0
    /\ left' = left - 1
    /\ \E T \in Redraws :
        /\ known' = known \cup Judged({T})
        /\ at' = IF Refused(board, T) THEN NoSix ELSE Verdict(T)
    /\ UNCHANGED <<board, sample, stage, slice, scale, todo, pairing, leader>>

RestartsDone ==
    /\ stage = "restarts" /\ at = NoSix /\ left = 0
    /\ stage' = "twoswaps"
    /\ UNCHANGED <<board, sample, slice, scale, known, todo, at, pairing, leader, left>>

\* Two open seats at once: the best of them is climbed from, to convergence.
TwoSwap ==
    LET met == Judged(Swaps(leader.six, 2))
    IN  /\ stage = "twoswaps" /\ at = NoSix /\ Better(met, leader) # {}
        /\ known' = known \cup met
        /\ at' = Best(Better(met, leader))
        /\ UNCHANGED <<board, sample, stage, slice, scale, todo, pairing, leader, left>>

Settle ==
    LET met == Judged(Swaps(leader.six, 2))
    IN  /\ stage = "twoswaps" /\ at = NoSix /\ Better(met, leader) = {}
        /\ known' = known \cup met
        /\ stage' = "done"
        /\ UNCHANGED <<board, sample, slice, scale, todo, at, pairing, leader, left>>

Answered == stage \in {"done", "infeasible"} /\ UNCHANGED searchVars

Work ==
    \/ SampleSlice \/ TallySlice \/ SweepSlice \/ Refuse \/ Rank
    \/ NextSeed \/ Climb \/ Rest \/ SeedsDone
    \/ NextPaired \/ TryPair \/ PairsTried \/ PairsDone
    \/ Restart \/ RestartsDone \/ TwoSwap \/ Settle

SearchNext == Work \/ Answered

SearchSpec     == SearchInit /\ [][SearchNext]_searchVars
FairSearchSpec == SearchSpec /\ WF_searchVars(Work)

-----------------------------------------------------------------------------
(* What the search promises. *)

\* The state is made of what each name says.
SearchTypeOK ==
    /\ board \in Boards /\ sample \in Samples /\ slice \in 0..Slices - 1
    /\ stage \in {"sampling", "tallying", "sweeping", "ranking", "seeds", "pairs",
                  "restarts", "twoswaps", "done", "infeasible"}
    /\ DOMAIN bounds \subseteq Rules
    /\ \A h \in Heroes : tally[h].sixes \in 0..Cardinality(sample)
    /\ stage = "seeds" => field \subseteq known
    /\ todo \subseteq known /\ {at, seed, best, leader} \subseteq known \cup {NoSix}
    /\ offers \subseteq Pairs /\ tries \in Nat /\ left \in 0..Restarts

\* The state keeps its type, and every six the search may answer with keeps the locks, holds no ban and
\* nobody unreleased, has a legal shape and breaks no limit, whichever of the
\* four moves proposed it (Solver._climb, _bring_pair, _restarts, _two_swap).
KnownLegal ==
    /\ SearchTypeOK
    /\ \A v \in known :
        /\ Locked(board) \subseteq v.six /\ v.six \subseteq Released \ Banned(board)
        /\ ShapeOf(v.six) \in LegalShapes /\ ~Refused(board, v.six)

\* The population a board is measured on, the whole of it: the sample and the
\* sixes of each role's first ScalePool heroes, whoever is banned or locked.
Measured ==
    LET pools == {h \in Released :
            Cardinality({k \in Seats(Released, RoleOf[h]) :
                \/ Prior(board, k) > Prior(board, h)
                \/ Prior(board, k) = Prior(board, h) /\ k < h}) < ScalePool}
    IN  Prepared(sample \cup {T \in kSubset(TeamSize, pools) : ShapeOf(T) \in LegalShapes})

\* However the rounds were split, a rule's bounds are its extremes over the whole
\* population, and a rule nothing there values has none: a slice that never saw
\* a rule leaves no trace (_bounds_over and _widen).
OneScale ==
    stage # "sampling" =>
        \A r \in Rules :
            LET values == {Raw(board, r, T) : T \in Measured} \ {NoReading}
            IN  /\ (r \in DOMAIN bounds) <=> (values # {})
                /\ r \in DOMAIN bounds =>
                    /\ {bounds[r].low, bounds[r].high} \subseteq values
                    /\ values \subseteq bounds[r].low..bounds[r].high

\* However the rounds were split, the standing and the swept field are those one
\* process computes (Solver.solve): the slices partition the work.
SliceFree ==
    /\ stage \notin {"sampling", "tallying"} => tally = TallyOver(Prepared(sample))
    /\ stage \notin {"sampling", "tallying", "sweeping"} => field = Judged(LegalSixes)

\* A board's scale, standing and field are the same however its rounds are split.
SplitFree == OneScale /\ SliceFree

\* The answer heads the order over everything scored, and no legal six of its
\* shape one or two open seats away ranks above it (the end of Solver.refine).
LocalOptimum ==
    stage = "done" =>
        /\ leader = Best(known)
        /\ \A v \in Judged(Redraws) :
            Cardinality(v.six \ leader.six) <= 2 => ~Above(v, leader)

\* Every search ends with an answer or a refusal: no climb goes round in a circle
\* of ties, and the two-swaps converge (_beats).
SearchEnds == <>(stage \in {"done", "infeasible"})
=============================================================================
