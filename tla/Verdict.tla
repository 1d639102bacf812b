------------------------------ MODULE Verdict -------------------------------
(***************************************************************************)
(* One pass over a board (inference.engine): the seats' drafts, the six    *)
(* each search returns, the picks as they stand, the fills and the         *)
(* countered case on their seats' scales, what a result tells of itself    *)
(* (inference.result), the verdict and the badges read off them, and what  *)
(* the plan claims (inference.plan).                                       *)
(*                                                                         *)
(* A world w gives what the engine pays a pick (own) and an answer         *)
(* (edges), the playbook's terms, the heroes a search ranks into its pool  *)
(* and a side's likely six past the bans; the search itself is Search's,   *)
(* and here finds the best of its field.                                   *)
(***************************************************************************)
EXTENDS Integers, Sequences, FiniteSets, FiniteSetsExt, SequencesExt, Combinatorics

CONSTANTS
    TeamSize,           \* the seats of a side
    Nil              \* no share, no result, no odds

-----------------------------------------------------------------------------
(* Bounds on a search. *)

FieldBudget == 500000

\* The legal sixes of a pool: the queue seats six, two of them tanks at most.
FieldSize(pool) ==
    LET of(k) == IF k > pool THEN 0 ELSE choose(pool, k) IN
    MapThenSumSet(LAMBDA t : MapThenSumSet(LAMBDA d : of(t) * of(d) * of(6 - t - d), 0..(6 - t)), 0..2)
PoolCeiling == Max({p \in 2..12 : FieldSize(p) <= FieldBudget})
Within(x, default, low, high) == Max({low, Min({IF x = Nil THEN default ELSE x, high})})
ClampSearch(pool, top) == [pool_size |-> Within(pool, 6, 2, PoolCeiling), top |-> Within(top, 5, 1, 20)]

-----------------------------------------------------------------------------
(* What a team scores against foes: a term waits until foes are known where *)
(* its guard reads them.                                                    *)

Applies(t, foes)   == t.waits => foes # {}
Gain(t, team)      == t.weight * Cardinality(t.likes \cap team)
\* The other side as the engine reads it: its picks, else its likely six.
Opponent(w, foes) == IF foes = {} THEN w.likely ELSE foes
\* What the engine pays: the team's rates, and its answers less its exposures.
EngineTerms(w, team, foes) ==
    LET other == Opponent(w, foes) IN
    IF ~w.base THEN <<>>
    ELSE <<MapThenSumSet(LAMBDA h : w.own[h], team),
           Cardinality((other \X team) \cap w.edges) - Cardinality((team \X other) \cap w.edges)>>
Engine(w, team, foes) == FoldSeq(+, 0, EngineTerms(w, team, foes))
Scored(w, team, foes) ==
    Engine(w, team, foes)
    + MapThenSumSet(LAMBDA i : IF Applies(w.terms[i], foes) THEN Gain(w.terms[i], team) ELSE 0, DOMAIN w.terms)
Scores(w) == w.base \/ \E i \in DOMAIN w.terms : w.terms[i].form # "hard"

\* A search's field: its pool, the locks kept and the bans out.
Sixes(w, locked, bans) ==
    {six \in kSubset(TeamSize, (w.pool \cup locked) \ bans) : locked \subseteq six}
BestSix(w, locked, foes, bans) ==
    LET field == Sixes(w, locked, bans) IN
    CHOOSE six \in field : \A x \in field : Scored(w, x, foes) <= Scored(w, six, foes)

-----------------------------------------------------------------------------
(* Results. *)

\* Mutant: a half goes up.
HalfUp(a, b) == (2 * a + b) \div (2 * b)
\* To the nearest whole, a half to the even one.
Nearest(a, b) ==
    LET q == (2 * a + b) \div (2 * b)
    IN  IF (2 * a + b) % (2 * b) = 0 /\ q % 2 = 1 THEN q - 1 ELSE q
Pct(score, best) ==
    IF best <= 0 THEN (IF score >= best THEN 100 ELSE 0)
    ELSE Max({0, Min({100, Nearest(100 * score, best)})})

\* A result of a team against foes, whose 100 is best.
Made(w, kind, seat, team, foes, locked, best) ==
    [kind |-> kind, seat |-> seat, team |-> team, foes |-> foes, locked |-> locked, score |-> Scored(w, team, foes),
     best |-> best, partial |-> kind = "current", met |-> team # {}]
ScaleTo(r, best)   == [r EXCEPT !.best = best]
ShareOf(r)         == Pct(r.score, r.best)

\* Why nothing on a result's board scores, or "scores".
Waiting(w, r) ==
    CASE ~Scores(w)                                                 -> "nothing in force"
      [] Scores(w) /\ r.best > 0                                    -> "scores"
      [] Scores(w) /\ r.best <= 0
            /\ (w.base \/ \E i \in DOMAIN w.terms : r.met /\ w.terms[i].form \in {"heuristic", "scored"}
                                                    /\ Applies(w.terms[i], r.foes)) -> "not above zero"
      [] OTHER                                                      -> "nothing applies yet"
Unscored(w, r) ==
    CASE r.kind = "infer" -> "scores"
      [] r.kind = "expected" /\ w.base -> "a likelihood"
      [] OTHER -> Waiting(w, r)
\* What a result tells: a partial team's own share never.
Normalized(w, r) == IF Unscored(w, r) = "scores" /\ ~r.partial THEN ShareOf(r) ELSE Nil

-----------------------------------------------------------------------------
(* The pass. *)

Drafting(picks) == picks # {} /\ Cardinality(picks) < TeamSize

Optimal(w, seat, locked, foes, bans, kind) ==
    LET six == BestSix(w, locked, foes, bans)
    IN  Made(w, kind, seat, six, foes, locked, Scored(w, six, foes))

\* A seat's picks as they stand: a full six evaluated against its field.
Current(w, seat, picks, foes, bans, optimal, kind) ==
    IF Cardinality(picks) < TeamSize
    THEN Made(w, kind, seat, picks, foes, picks, optimal.score)
    ELSE [Made(w, IF kind = "current" THEN "evaluate" ELSE kind, seat, picks, foes, {}, optimal.score)
              EXCEPT !.partial = FALSE]

\* A half-drafted seat's picks, the rest filled, on its seat's scale.
Filled(w, seat, picks, foes, bans, best, kind) ==
    IF ~Drafting(picks) THEN Nil
    ELSE ScaleTo(Optimal(w, seat, picks, foes, bans, kind), best)

\* Blue's picks against red's optimal six, on the scale of blue's best counter to it.
Countered(w, d, red) ==
    IF ~d.asks \/ d.blue = {} THEN Nil
    ELSE LET top == Optimal(w, "blue", {}, red.team, d.bans, "infer") IN
         IF Drafting(d.blue) THEN Filled(w, "blue", d.blue, red.team, d.bans, top.score, "countered")
         ELSE Current(w, "blue", d.blue, red.team, d.bans, top, "countered")

\* Whom each seat plays: blue's likely six stands in until red reveals a pick.
Enemy(w, d) == IF d.red # {} THEN d.red ELSE w.likely
\* Mutant: blue's current comp and its fill play red as revealed.
AsRevealed(w, d) == d.red
\* Whom blue's current comp and its fill play: its seat's enemy.
Facing(w, d) == Enemy(w, d)
Pass(w, d) ==
    LET blue == Optimal(w, "blue", {}, Enemy(w, d), d.bans, "infer")
        red == Optimal(w, "red", {}, d.blue, d.bans, "infer")
    IN  [blue |-> blue, red |-> red,
         current |-> Current(w, "blue", d.blue, Facing(w, d), d.bans, blue, "current"),
         red_current |-> Current(w, "red", d.red, d.blue, d.bans, red, "current"),
         fill |-> Filled(w, "blue", d.blue, Facing(w, d), d.bans, blue.score, "fill"),
         red_fill |-> Filled(w, "red", d.red, d.blue, d.bans, red.score, "fill"),
         countered |-> Countered(w, d, red)]
\* The six the page shows for blue, which the plan describes.
Shown(w, d) ==
    LET b == Pass(w, d) IN
    IF b.fill # Nil THEN b.fill ELSE IF Cardinality(d.blue) = TeamSize THEN b.current ELSE b.blue

-----------------------------------------------------------------------------
(* The verdict. *)

\* Mutant: a half-drafted seat is read by its picks alone.
AsItStands(current, fill) == current
\* A seat as the verdict reads it.
Now(current, fill) == IF fill # Nil /\ current.partial /\ current.team # {} THEN fill ELSE current

Badge(w, current, fill) ==
    IF Unscored(w, current) # "scores" THEN Unscored(w, current)
    ELSE IF current.team = {} THEN "the suggested six"
    ELSE <<ShareOf(Now(current, fill)), IF current.partial THEN "reach" ELSE "stand">>

\* Why a seat has no share: a seat with no picks is read off its optimal.
Why(w, current, optimal) == IF current.team # {} THEN Unscored(w, current) ELSE Waiting(w, optimal)
Share(w, current, fill, why) == IF current.team # {} /\ why = "scores" THEN ShareOf(Now(current, fill)) ELSE Nil
Odds(n, m) ==
    IF n = Nil \/ m = Nil THEN Nil
    ELSE IF n + m <= 0 THEN Nil
    ELSE LET blue == Nearest(100 * n, n + m) IN [blue |-> blue, red |-> 100 - blue]

GapLine(n, m) ==
    IF n - m < 5 /\ m - n < 5 THEN "even" ELSE IF n > m THEN "blue ahead" ELSE "red ahead"
VerdictLine(b, n, m, blueWhy, redWhy) ==
    CASE (blueWhy # "scores" /\ b.current.team # {}) \/ (redWhy # "scores" /\ b.red_current.team # {}) -> "one seat waits"
      [] OTHER -> IF n # Nil /\ m # Nil THEN GapLine(n, m)
                  ELSE IF m # Nil THEN "red alone" ELSE IF n # Nil THEN "blue alone" ELSE "no picks"

Momentum(w, b) ==
    LET blueWhy == Why(w, b.current, b.blue)
        redWhy == Why(w, b.red_current, b.red)
        neither == blueWhy # "scores" /\ redWhy # "scores"
        n == IF neither THEN Nil ELSE Share(w, b.current, b.fill, blueWhy)
        m == IF neither THEN Nil ELSE Share(w, b.red_current, b.red_fill, redWhy)
        held == ~neither /\ b.countered # Nil
    IN  [blue |-> n, red |-> m, odds |-> Odds(n, m),
         countered |-> IF ~held THEN Nil
                       ELSE IF Unscored(w, b.countered) = "scores" THEN ShareOf(b.countered) ELSE Nil,
         partial |-> ~neither /\ ((b.current.team # {} /\ b.current.partial) \/ (b.red_current.team # {} /\ b.red_current.partial)),
         verdict |-> IF neither THEN blueWhy ELSE VerdictLine(b, n, m, blueWhy, redWhy),
         badges |-> <<Badge(w, b.current, b.fill), Badge(w, b.red_current, b.red_fill)>>]

-----------------------------------------------------------------------------
(* What the plan claims of the six shown. *)

Yours(six) == CASE six.kind = "fill" -> six.locked [] six.kind = "evaluate" -> six.team [] OTHER -> {}
Keeps(six) == CASE six.kind = "evaluate" -> "is yours" [] six.kind # "evaluate" /\ Yours(six) # {} -> "keeps yours" [] OTHER -> "says nothing"

\* Their likely six, while red has revealed nothing: countered, or only named.
Unrevealed(w, six) ==
    CASE six.foes = {} -> "says nothing"
      [] six.foes # {} /\ Scores(w) /\ six.kind # "evaluate" -> "counters them"
      [] OTHER -> "names them"

\* The heaviest terms that apply and weigh, the engine's with the playbook's, four at
\* most; passed over are a shape's and those named for another style than the six's.
AboveAll(w, six) ==
    LET tells(t) == Applies(t, six.foes) /\ ~t.passed
        paid == [i \in DOMAIN w.terms |-> IF tells(w.terms[i]) THEN Gain(w.terms[i], six.team) ELSE 0]
                    \o EngineTerms(w, six.team, six.foes)
        ranked == SortSeq(SetToSortSeq({i \in DOMAIN paid : paid[i] > 0}, <), LAMBDA i, j : paid[i] > paid[j])
    IN  SubSeq(ranked, 1, Min({4, Len(ranked)}))
Basis(w, d, six) == {x \in {"bans", "yours", "theirs"} :
    CASE x = "bans" -> d.bans # {} [] x = "yours" -> Yours(six) # {} [] x = "theirs" -> d.red # {}}

-----------------------------------------------------------------------------

\* A badge and the verdict tell one share of a seat, or neither tells one, and a seat
\* with no picks is waiting exactly when the six suggested to it is.
OneReading(c) ==
    LET told == Momentum(c.world, c.board)
        agree(badge, share, current, optimal) ==
            IF current.team = {} THEN /\ share = Nil
                                      /\ badge = "the suggested six" <=> Waiting(c.world, optimal) = "scores"
            ELSE IF share = Nil THEN badge = Unscored(c.world, current) /\ badge # "scores"
            ELSE badge[1] = share
    IN  /\ agree(told.badges[1], told.blue, c.board.current, c.board.blue)
        /\ agree(told.badges[2], told.red, c.board.red_current, c.board.red)
        /\ told.blue # Nil /\ told.red # Nil /\ told.verdict = "blue ahead" => told.odds.blue > told.odds.red
        /\ Odds(told.red, told.blue) = IF told.odds = Nil THEN Nil
                                       ELSE [blue |-> told.odds.red, red |-> told.odds.blue]

\* Picks that are all of the seat's optimal six read 100, however many are in, and no
\* pick of the six a seat is filled to moves its share (plan.momentum).
RightPickHolds(c) ==
    LET w == c.world
        told == Momentum(w, c.board)
        next(h) == Momentum(w, Pass(w, [c.draft EXCEPT !.blue = @ \cup {h}]))
    IN  told.blue # Nil =>
          /\ c.draft.blue \subseteq c.board.blue.team => told.blue = 100
          /\ c.board.fill # Nil => \A h \in c.board.fill.team \ c.draft.blue : next(h).blue = told.blue

\* A fill, the picks and the countered case are scored on the board whose best is
\* their 100; with picks from the pool a fill is never above it.
OnItsScale(c) ==
    LET w == c.world
        placed(r, optimal) == r # Nil => r.foes = optimal.foes /\ r.best = optimal.score /\ r.best = Scored(w, optimal.team, r.foes)
    IN  /\ placed(c.board.current, c.board.blue) /\ placed(c.board.fill, c.board.blue)
        /\ placed(c.board.red_current, c.board.red) /\ placed(c.board.red_fill, c.board.red)
        /\ c.board.fill # Nil /\ c.draft.blue \subseteq w.pool => c.board.fill.score <= c.board.blue.score
        /\ c.board.countered # Nil => c.board.countered.foes = c.board.red.team
        /\ Drafting(c.draft.blue) => Normalized(w, c.board.current) = Nil

\* A board seen from the other side is told the other way round.
Mirrored(c) ==
    c.draft.red # {} /\ c.draft.blue # {} =>
        LET told == Momentum(c.world, c.board)
            other == Momentum(c.world, Pass(c.world, [c.draft EXCEPT !.blue = c.draft.red, !.red = c.draft.blue]))
        IN  told.blue = other.red /\ told.red = other.blue /\ told.partial = other.partial

\* The plan says the six counters someone only where it is the best of its field
\* against them and something scores it, keeps only picks the six holds, and says what
\* a six that scores is built for, unless it is of what it passes over alone.
PlanTrue(c) ==
    LET six == c.six IN
    /\ Yours(six) \subseteq six.team /\ (Keeps(six) = "keeps yours" => Yours(six) = c.draft.blue)
    /\ c.draft.red = {} /\ Unrevealed(c.world, six) = "counters them" =>
           /\ six.foes = c.world.likely /\ Scores(c.world)
           /\ \A x \in Sixes(c.world, six.locked, c.draft.bans) : Scored(c.world, x, six.foes) <= six.score
    /\ "yours" \in Basis(c.world, c.draft, six) <=> c.draft.blue # {}
    /\ AboveAll(c.world, six) # <<>> => Scores(c.world)
    /\ six.score > 0 /\ AboveAll(c.world, six) = <<>> => \E i \in DOMAIN c.world.terms : c.world.terms[i].passed

\* Whatever a caller asks, a search enumerates no more than its budget.
WithinBudget(c) ==
    LET asked == ClampSearch(c.pool, c.top) IN
    FieldSize(asked.pool_size) <= FieldBudget /\ asked.pool_size >= 2 /\ asked.top \in 1..20
=============================================================================
