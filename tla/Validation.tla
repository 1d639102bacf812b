----------------------------- MODULE Validation -----------------------------
(***************************************************************************)
(* A playbook judged on the recorded maps: which maps it may be judged on  *)
(* (inference.rescore's pin), what each is rescored to from both seats,    *)
(* the families an ablation drops, the splits and what each model is       *)
(* fitted on and reads (inference.predict), and what the report says       *)
(* (inference.validate).  A logistic fit is kept as what it is given: the  *)
(* coefficients are a function of that, whatever Newton's method makes of  *)
(* it.  A chance of M0 or M1 is a fraction <<of, in>>.                     *)
(*                                                                         *)
(* A world gives the roster, each hero's win rate and who answers whom; a  *)
(* strategy its form, the metrics it names, what it adds to a six, and the *)
(* maps and sides on which, a hard limit, it lets no six through.          *)
(***************************************************************************)
EXTENDS Integers, Sequences, FiniteSets, FiniteSetsExt, SequencesExt

CONSTANTS
    TimeBlocks,     \* the time split's blocks of sessions
    SessionFolds,   \* the most folds of the session split
    NoName          \* no metric, no confidence, no verdict

Total(f) == MapThenSumSet(LAMBDA k : f[k], DOMAIN f)
Merged(f, g) == [k \in DOMAIN f \cup DOMAIN g |-> IF k \in DOMAIN g THEN g[k] ELSE f[k]]

-----------------------------------------------------------------------------
(* The recorded maps and the pin. *)

\* Every recorded match, oldest first.
LoadMatches(recorded) ==
    SetToSortSeq(recorded, LAMBDA m, n : m.day < n.day \/ (m.day = n.day /\ m.id < n.id))

\* The digests the maps were played under, as they first appear.
Pins(matches, digest) ==
    LET under(d) == {i \in DOMAIN matches : matches[i].digest = d}
        digests == {matches[i].digest : i \in DOMAIN matches}
    IN  {[digest |-> d, maps |-> Cardinality(under(d)), first |-> matches[Min(under(d))].day,
          last |-> matches[Max(under(d))].day, judged |-> d = digest] : d \in digests}

\* Mutant: from the first day it was in force.
FromItsDay(matches, digest) ==
    LET days == {matches[i].day : i \in {j \in DOMAIN matches : matches[j].digest = digest}}
    IN  IF days = {} THEN <<>> ELSE SelectSeq(matches, LAMBDA m : m.day >= Min(days))
\* The maps a playbook may be judged on: from the first played under its digest on.
Pinned(matches, digest) ==
    LET own == {i \in DOMAIN matches : matches[i].digest = digest}
    IN  IF own = {} THEN <<>> ELSE SubSeq(matches, Min(own), Len(matches))

-----------------------------------------------------------------------------
(* The families. *)

\* A metric of each set a family is recognised by, and one of none.
SideKeys == {"map.side"}
CounterKeys == {"team.countered", "matchup.exposure_share"}
SynergyKeys == {"team.synergy_edges"}
RateKeys == {"team.win_mean", "map.style_top"}

Names(s) == ({s.metric, s.confidence} \ {NoName}) \cup s.expressions

\* Mutant: a soft limit moves no score.
ScoresAlone(s) == s.form \in {"heuristic", "scored"}
\* Whether a strategy moves a six's score.
MovesScore(s) == s.form \in {"heuristic", "scored"} \/ (s.form = "limit" /\ s.soft)

FamilyTests == <<"side", "counters", "synergy", "rates", "scored", "other">>
Meets(s, family) ==
    CASE family = "side"     -> Names(s) \cap SideKeys # {}
      [] family = "counters" -> Names(s) \cap CounterKeys # {}
      [] family = "synergy"  -> Names(s) \cap SynergyKeys # {}
      [] family = "rates"    -> Names(s) \cap RateKeys # {}
      [] family = "scored"   -> s.form = "scored"
      [] family = "other"    -> TRUE
\* The first family whose test it meets.
FiledUnder(s) == FamilyTests[Min({i \in DOMAIN FamilyTests : Meets(s, FamilyTests[i])})]
Families(catalog) ==
    LET scoring == {s \in catalog : MovesScore(s)} IN
    [f \in {FiledUnder(s) : s \in scoring} |-> {s.id : s \in {x \in scoring : FiledUnder(x) = f}}]

-----------------------------------------------------------------------------
(* The rescore. *)

Opposite(side) == CASE side = "attack" -> "defense" [] side = "defense" -> "attack" [] OTHER -> side

\* The map from each seat: red's against blue's, on the other side.
Seats(m) ==
    <<[map |-> m.map, blue |-> m.blue, red |-> m.red, side |-> m.side],
      [map |-> m.map, blue |-> m.red, red |-> m.blue, side |-> Opposite(m.side)]>>

\* What a strategy adds to the six of a seat: a hard limit prunes and adds nothing.
Term(s, seat) ==
    IF (s.form = "limit" /\ ~s.soft) \/ ("map.side" \in Names(s) /\ seat.side # "attack") THEN 0
    ELSE s.weight * Cardinality(s.likes \cap (IF "team.countered" \in Names(s) THEN seat.red ELSE seat.blue))
\* A seat evaluated: its term per strategy, and the playbook's score alone.
Evaluated(catalog, seat) ==
    LET by(id) == CHOOSE s \in catalog : s.id = id
        terms == [id \in {s.id : s \in catalog} |-> Term(by(id), seat)]
    IN  [score |-> Total(terms), terms |-> terms]

MapWin(w, six) == MapThenSumSet(LAMBDA h : w.win[h], six)
\* A metric is there only where the graph has something to say of the two sixes.
Matchup(w, blue, red) ==
    LET edges(a, b) == Cardinality((a \X b) \cap w.edges) IN
    [k \in IF edges(blue, red) + edges(red, blue) = 0 THEN {} ELSE {"matchup.exposure_share"}
        |-> edges(blue, red) - edges(red, blue)]

Rescored(w, m, catalog) ==
    LET seat == Seats(m)
    IN  [match |-> m, blue |-> Evaluated(catalog, seat[1]), red |-> Evaluated(catalog, seat[2]),
         map_win |-> MapWin(w, m.blue) - MapWin(w, m.red), matchup |-> Matchup(w, m.blue, m.red)]

\* The board of a seat no six satisfies: a hard limit bars every one.
Infeasible(catalog, seat) == \E s \in catalog : s.form = "limit" /\ ~s.soft /\ <<seat.map, seat.side>> \in s.bars
\* The engine refuses a hero the database no longer holds, and such a board from either seat.
Refuses(w, m, catalog) ==
    ~(m.blue \cup m.red \subseteq w.heroes) \/ \E i \in 1..2 : Infeasible(catalog, Seats(m)[i])
Rescore(w, matches, catalog) ==
    [scored |-> LET kept == SelectSeq(matches, LAMBDA m : ~Refuses(w, m, catalog))
                IN  [i \in DOMAIN kept |-> Rescored(w, kept[i], catalog)],
     refused |-> {m.id : m \in {x \in ToSet(matches) : Refuses(w, x, catalog)}}]

\* Blue's score minus red's, less every term of the strategies named.
Without(row, ids) ==
    LET kept(side) == side.score - MapThenSumSet(LAMBDA k : side.terms[k], ids \cap DOMAIN side.terms)
    IN  kept(row.blue) - kept(row.red)

-----------------------------------------------------------------------------
(* The decided maps as the models read them. *)

\* A hero on both sides nets out.
HeroFeatures(m) ==
    [h \in (m.blue \cup m.red) \ (m.blue \cap m.red) |-> IF h \in m.blue THEN 1 ELSE -1]
Example(row, kin) ==
    [match |-> row.match, won |-> IF row.match.result = "win" THEN 1 ELSE 0, heroes |-> HeroFeatures(row.match),
     map_win |-> row.map_win, matchup |-> row.matchup,
     score |-> [f \in DOMAIN kin \cup {""} |-> IF f = "" THEN row.blue.score - row.red.score
                                                 ELSE Without(row, kin[f])]]
Examples(rows, kin) ==
    LET decided == SelectSeq(rows, LAMBDA r : r.match.result \in {"win", "loss"})
    IN  [i \in DOMAIN decided |-> Example(decided[i], kin)]

-----------------------------------------------------------------------------
(* The splits: whole sessions, a session a day. *)

Sessions(rows) == {rows[i].match.day : i \in DOMAIN rows}
OnDays(rows, days) == SelectSeq(rows, LAMBDA e : e.match.day \in days)
Fold(rows, train, test) == [train |-> OnDays(rows, train), test |-> OnDays(rows, test)]

\* The sessions in date order, cut into blocks of about equal maps.
BlockOf(rows, day) ==
    Min({TimeBlocks - 1, (TimeBlocks * Len(SelectSeq(rows, LAMBDA e : e.match.day < day))) \div Len(rows)})
\* Mutant: a block is scored by a fit on itself too.
UpToItself(rows) ==
    LET block(k) == {d \in Sessions(rows) : BlockOf(rows, d) = k}
        folds == [k \in 1..(TimeBlocks - 1) |-> Fold(rows, UNION {block(j) : j \in 0..k}, block(k))]
    IN  SelectSeq(folds, LAMBDA f : f.train # <<>> /\ f.test # <<>>)
\* Each block after the first, scored by a fit on every block before it.
TimeFolds(rows) ==
    LET block(k) == {d \in Sessions(rows) : BlockOf(rows, d) = k}
        folds == [k \in 1..(TimeBlocks - 1) |-> Fold(rows, UNION {block(j) : j \in 0..(k - 1)}, block(k))]
    IN  SelectSeq(folds, LAMBDA f : f.train # <<>> /\ f.test # <<>>)

\* Mutant: the maps are dealt round, not the sessions.
DealtByMap(rows) ==
    LET count == Min({SessionFolds, Cardinality(Sessions(rows))})
        dealt(k) == {i \in DOMAIN rows : i % count = k}
        of(some) == [i \in 1..Cardinality(some) |-> rows[SetToSortSeq(some, <)[i]]]
    IN  IF count < 2 THEN <<>>
        ELSE [k \in 1..count |-> [train |-> of(DOMAIN rows \ dealt(k - 1)), test |-> of(dealt(k - 1))]]
\* The sessions dealt round into folds, each scored by a fit on the others.
LeaveSessionsOut(rows) ==
    LET days == SetToSortSeq(Sessions(rows), <)
        count == Min({SessionFolds, Len(days)})
        dealt(k) == {days[i] : i \in {j \in DOMAIN days : (j - 1) % count = k}}
    IN  IF count < 2 THEN <<>>
        ELSE [k \in 1..count |-> Fold(rows, Sessions(rows) \ dealt(k - 1), dealt(k - 1))]

Splits == {"time", "sessions"}
FoldsOf(split, rows) == IF split = "time" THEN TimeFolds(rows) ELSE LeaveSessionsOut(rows)

-----------------------------------------------------------------------------
(* The models. *)

\* M1: the map and side's win rate, pulled by four maps' worth toward the overall
\* rate, itself pulled toward an even chance by one win and one loss.
BaseRate(train, e) ==
    LET wins(rows) == MapThenSumSet(LAMBDA i : rows[i].won, DOMAIN rows)
        cell == SelectSeq(train, LAMBDA x : x.match.map = e.match.map /\ x.match.side = e.match.side)
    IN  <<wins(cell) * (Len(train) + 2) + 4 * (wins(train) + 1), (Len(cell) + 4) * (Len(train) + 2)>>

\* What a logistic model reads of a map: the ablations are M4 less a family, or less the score.
Reads(model, e) ==
    CASE model = "M2" -> [k \in {"map_win"} |-> e.map_win]
      [] model = "M3" -> e.heroes
      [] model = "M4" -> Merged(Merged(e.heroes, e.matchup), [k \in {"score"} |-> e.score[""]])
      [] model = "M4-playbook" -> Merged(e.heroes, e.matchup)
      [] OTHER -> Merged(Merged(e.heroes, e.matchup), [k \in {"score"} |-> e.score[model]])

\* A standardised feature that never varies on the training maps is dropped.
Standardised(k) == k \in {"map_win", "score", "matchup.exposure_share"}
ReadAs(features, k) == IF k \in DOMAIN features THEN features[k] ELSE 0
Design(seen) ==
    LET keys == UNION {DOMAIN seen[i] : i \in DOMAIN seen}
        values(k) == {ReadAs(seen[i], k) : i \in DOMAIN seen}
    IN  [k \in {x \in keys : Standardised(x) => Cardinality(values(x)) > 1} |->
            IF Standardised(k) THEN MapThenSumSet(LAMBDA i : ReadAs(seen[i], k), DOMAIN seen) ELSE 0]
\* A map's features as the fit reads them: a standardised one n times its distance
\* from the mean of the n training maps, the sd left out; one without a column not at all.
Row(design, n, features) ==
    [k \in DOMAIN features \cap DOMAIN design |->
        IF Standardised(k) THEN n * features[k] - design[k] ELSE features[k]]
Logistic(model, train, e) ==
    LET seen == [i \in DOMAIN train |-> Reads(model, train[i])]
        design == Design(seen)
        row(f) == Row(design, Len(seen), f)
    IN  [rows |-> [i \in DOMAIN seen |-> row(seen[i])], wins |-> [i \in DOMAIN train |-> train[i].won],
         width |-> Cardinality(DOMAIN design), read |-> row(Reads(model, e))]

Chance(model, train, e) ==
    CASE model = "M0" -> <<1, 2>> [] model = "M1" -> BaseRate(train, e) [] OTHER -> Logistic(model, train, e)

\* Every model on every fold: each scored map, once.
Models == {"M0", "M1", "M2", "M3", "M4"}
Ablations(kin) == IF DOMAIN kin = {} THEN {} ELSE DOMAIN kin \cup {"M4-playbook"}
Predictions(folds, models) ==
    LET tested == UNION {ToSet(folds[k].test) : k \in DOMAIN folds}
        lastOf(e) == Max({k \in DOMAIN folds : e \in ToSet(folds[k].test)})
    IN  [m \in models |-> [id \in {e.match.id : e \in tested} |->
            LET e == CHOOSE x \in tested : x.match.id = id IN Chance(m, folds[lastOf(e)].train, e)]]

-----------------------------------------------------------------------------
(* The report. *)

Enough(decided, needed) == decided >= needed

\* A split scored: its verdict only where the guard allows one.
SplitReport(split, rows, kin, enough) ==
    LET folds == FoldsOf(split, rows)
        days == UNION {{e.match.day : e \in ToSet(folds[k].test)} : k \in DOMAIN folds}
        predictions == Predictions(folds, Models \cup Ablations(kin))
        scored == DOMAIN predictions["M0"]
    IN  [folds |-> Len(folds), scored |-> Cardinality(scored), sessions |-> Cardinality(days),
         predictions |-> predictions, verdict |-> IF scored # {} /\ enough THEN split ELSE NoName]

\* M3 on every decided map: the heroes it has an effect for, and the maps each was on.
HeroEffects(rows) ==
    [h \in UNION {DOMAIN rows[i].heroes : i \in DOMAIN rows} |->
        Cardinality({i \in DOMAIN rows : h \in rows[i].match.blue \cup rows[i].match.red})]
\* Whether the score difference alone can have an effect fitted.
ScoreEffect(rows) == Cardinality({rows[i].score[""] : i \in DOMAIN rows}) > 1

\* A judged map's predictions: the splits that tested it.
Told(row, reports) ==
    {split \in DOMAIN reports : row.match.id \in DOMAIN reports[split].predictions["M0"]}

Counts(rescoring, judged, rows) ==
    LET of(result) == Len(SelectSeq(rescoring.scored, LAMBDA r : r.match.result = result)) IN
    [recorded |-> judged.recorded, set_aside |-> judged.set_aside, refused |-> Cardinality(rescoring.refused),
     judged |-> Len(rescoring.scored), decided |-> Len(rows), won |-> of("win"), lost |-> of("loss"),
     drawn |-> of("draw"), sessions |-> Cardinality(Sessions(rows))]

Overall(enough, reports, decided, judged) ==
    LET told == {split \in DOMAIN reports : reports[split].verdict # NoName} IN
    CASE decided = 0 /\ judged.pinned /\ ~\E p \in judged.pins : p.judged -> "none under this playbook"
      [] decided = 0 /\ ~(judged.pinned /\ ~\E p \in judged.pins : p.judged) -> "none decided"
      [] decided > 0 /\ ~enough -> "too few"
      [] decided > 0 /\ enough -> IF told = {} THEN "nothing scored" ELSE "what the splits say"

Assess(rescoring, judged, catalog, needed) ==
    LET kin == Families(catalog)
        rows == Examples(rescoring.scored, kin)
        enough == Enough(Len(rows), needed)
        reports == [split \in Splits |-> SplitReport(split, rows, kin, enough)]
    IN  [counts |-> Counts(rescoring, judged, rows), pins |-> judged.pins,
         splits |-> reports, heroes |-> HeroEffects(rows), score_effect |-> ScoreEffect(rows),
         matches |-> [i \in DOMAIN rescoring.scored |-> Told(rescoring.scored[i], reports)],
         verdict |-> Overall(enough, reports, Len(rows), judged)]

\* The pin, the rescore and the judgement, for the playbook under a digest.
Chosen(c) == LET matches == LoadMatches(c.recorded) IN IF c.pin THEN Pinned(matches, c.digest) ELSE matches
Validate(c) ==
    LET matches == LoadMatches(c.recorded)
    IN  Assess(Rescore(c.world, Chosen(c), c.catalog),
               [pins |-> Pins(matches, c.digest), recorded |-> Len(matches),
                set_aside |-> Len(matches) - Len(Chosen(c)), pinned |-> c.pin], c.catalog, c.needed)

-----------------------------------------------------------------------------

\* The decided maps a run judges, and what its models say of those a split tests.
Rows(c) == Examples(Rescore(c.world, Chosen(c), c.catalog).scored, Families(c.catalog))
Forecasts(c, split) == Predictions(FoldsOf(split, Rows(c)), Models \cup Ablations(Families(c.catalog)))

\* A pinned playbook is judged on no map played before the first under its digest,
\* and on every later one; the report accounts for each recorded map once.
PinHolds(c) ==
    LET chosen == ToSet(Chosen(c))
        own == {m \in c.recorded : m.digest = c.digest}
        earlier(m, n) == m.day < n.day \/ (m.day = n.day /\ m.id < n.id)
        n == c.told.counts
    IN  /\ c.pin => chosen = {m \in c.recorded : \E o \in own : ~earlier(m, o)}
        /\ n.recorded = n.set_aside + n.judged + n.refused /\ n.judged = n.decided + n.drawn
        /\ n.recorded = MapThenSumSet(LAMBDA p : p.maps, c.told.pins)
        /\ n.decided = n.won + n.lost /\ (c.told.verdict = "none under this playbook" => n.set_aside = n.recorded)

\* No fit trains on a session it is scored on, nor, in the time split, on that day or
\* later; the session split scores each decided map once, the time split none twice.
SessionsHeldOut(c) ==
    LET rows == Rows(c)
        apart(folds) == \A k \in DOMAIN folds : Sessions(folds[k].train) \cap Sessions(folds[k].test) = {}
        times(folds, e) == Len(SelectSeq(FlattenSeq([k \in DOMAIN folds |-> folds[k].test]), LAMBDA x : x = e))
        time == TimeFolds(rows)
        left == LeaveSessionsOut(rows)
    IN  /\ apart(time) /\ apart(left)
        /\ \A k \in DOMAIN time : \A a \in Sessions(time[k].train), b \in Sessions(time[k].test) : a < b
        /\ \A e \in ToSet(rows) : times(time, e) <= 1
        /\ left # <<>> => \A e \in ToSet(rows) : times(left, e) = 1

\* No prediction of a map can be told from what it would be had its session, or in the
\* time split any day from its own on, ended the other way.
BlindToItsDay(c) ==
    LET days == {m.day : m \in c.recorded}
        turned(unseen) == {IF m.day \in unseen /\ m.result # "draw"
                           THEN [m EXCEPT !.result = IF m.result = "win" THEN "loss" ELSE "win"] ELSE m : m \in c.recorded}
        same(split, told, day, unseen) ==
            LET other == Forecasts([c EXCEPT !.recorded = turned(unseen)], split)
            IN  \A m \in c.recorded : m.day = day /\ m.id \in DOMAIN told["M0"] =>
                    \A model \in DOMAIN told : other[model][m.id] = told[model][m.id]
    IN  /\ LET told == Forecasts(c, "sessions") IN \A day \in days : same("sessions", told, day, {day})
        /\ LET told == Forecasts(c, "time") IN \A day \in days : same("time", told, day, {d \in days : d >= day})

\* Every strategy that adds to a score is dropped by one family, so the families'
\* parts add up to the score difference; a map seen from the other seats is the same
\* map told the other way round.
FamiliesCover(c) ==
    LET kin == Families(c.catalog)
        rows == Rows(c)
        turned(m) == [m EXCEPT !.blue = m.red, !.red = m.blue, !.side = Opposite(m.side)]
    IN  \A i \in DOMAIN rows :
            LET e == rows[i]
                other == Example(Rescored(c.world, turned(e.match), c.catalog), kin)
            IN  /\ e.score[""] = MapThenSumSet(LAMBDA f : e.score[""] - e.score[f], DOMAIN kin)
                /\ \A f \in DOMAIN e.score : other.score[f] = -e.score[f]
                /\ other.map_win = -e.map_win /\ other.heroes = [h \in DOMAIN e.heroes |-> -e.heroes[h]]

\* A split has a verdict only with enough maps, and with enough the report scores
\* nothing only where they are all of one session; a fit's rows hold no column that
\* cannot be scaled, and what the training maps state is centred on them.
VerdictEarned(c) ==
    LET told == c.told
        models == {"M2", "M3", "M4"}
        fits == {told.splits[s].predictions[m][id] : s \in Splits, m \in models, id \in UNION {
                    DOMAIN told.splits[x].predictions["M0"] : x \in Splits} \cap DOMAIN told.splits["time"].predictions["M0"]}
    IN  /\ \A s \in Splits : told.splits[s].verdict # NoName => told.counts.decided >= c.needed
        /\ told.verdict = "nothing scored" <=>
               told.counts.decided > 0 /\ told.counts.decided >= c.needed /\ told.counts.sessions = 1
        /\ \A f \in fits : \A k \in {x \in UNION {DOMAIN f.rows[i] : i \in DOMAIN f.rows} : Standardised(x)} :
               (\A i \in DOMAIN f.rows : k \in DOMAIN f.rows[i]) =>
                   /\ MapThenSumSet(LAMBDA i : f.rows[i][k], DOMAIN f.rows) = 0
                   /\ \E i \in DOMAIN f.rows : f.rows[i][k] # 0
        /\ \A h \in DOMAIN told.heroes : told.heroes[h] > 0
        /\ \A i \in DOMAIN told.matches : told.matches[i] # {} => told.counts.sessions > 1
=============================================================================
