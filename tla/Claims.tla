------------------------------- MODULE Claims ------------------------------
(***************************************************************************)
(* How the wiki's articles become the counters table: the Match-Up cells   *)
(* (db.data.wiki.matchups), the sentences of the Strategy sections         *)
(* (db.data.wiki.strategy_sections), and what is stored of both.           *)
(*                                                                         *)
(* A cell is its label's ratings and, per sentence, the cues found in it,  *)
(* each with its span.  A sentence of a Strategy section is its clauses; a *)
(* clause is what it names in order: a hero (or "you", a pronoun, a piece  *)
(* of the hero's kit) with the gap before it, or a cue with what follows.  *)
(* Which words make a cue or a gap is the patterns', and left out.         *)
(***************************************************************************)
EXTENDS Integers, Sequences, FiniteSets, FiniteSetsExt, SequencesExt

CONSTANT Itself        \* the article's own hero, as a sentence has it

-----------------------------------------------------------------------------
(* A Match-Up cell. *)

Sign(x) == IF x > 0 THEN 1 ELSE IF x < 0 THEN -1 ELSE 0
Plus(s) == MapThenSumSet(LAMBDA i : s[i], DOMAIN s)

\* A rating decides, unless it is a range that averages under one step.
Decides(steps) == steps # <<>> /\ (Plus(steps) = 0 \/ Plus(steps) >= Len(steps) \/ -Plus(steps) >= Len(steps))

\* A sentence's weight by its place, in tenths.
PlaceWeight(place) == IF place <= 4 THEN <<10, 6, 4, 3>>[place] ELSE 2

Overlaps(a, b) == a.start < b.end /\ b.start < a.end
\* A plain cue before a negated one, then the heavier, then the longer.
ReadFirst(a, b) ==
    LET key(x) == <<IF x.negated THEN 1 ELSE 0, -x.weight, x.start - x.end, x.start, IF x.side = "threat" THEN 1 ELSE 0, x.end>>
        differ == {i \in 1..6 : key(a)[i] # key(b)[i]}
    IN  differ # {} /\ key(a)[Min(differ)] < key(b)[Min(differ)]
\* Where cues overlap one counts.
Counted(said) ==
    FoldLeft(LAMBDA kept, cue : IF \E x \in kept : Overlaps(x, cue) THEN kept ELSE kept \cup {cue},
             {}, SortSeq(SetToSeq(said), ReadFirst))

\* Mutant: a negated cue keeps its side.
Spoken(cue) == cue.side
\* Whom a cue speaks for: a negated one for the other.
SpeaksFor(cue) == IF ~cue.negated THEN cue.side ELSE IF cue.side = "threat" THEN "advantage" ELSE "threat"
\* In eightieths: weights are halves, places tenths, a concession and a negation halve.
Weighs(cue, place) ==
    cue.weight * PlaceWeight(place) * (IF cue.conceded THEN 1 ELSE 2) * (IF cue.negated THEN 1 ELSE 2)
ScoreSentence(said, place, side) ==
    MapThenSumSet(LAMBDA c : Weighs(c, place), {c \in Counted(said) : SpeaksFor(c) = side})

Unwritten == [verdict |-> 0, basis |-> "none"]
\* risk is in halves, from the hero's seat.
ReadCell(cell) ==
    LET sum(side) == MapThenSumSet(LAMBDA i : ScoreSentence(cell.said[i], i, side), DOMAIN cell.said)
        margin == sum("advantage") - sum("threat") + 40 * cell.risk
    IN  CASE ~cell.written /\ cell.steps = <<>> /\ cell.risk = 0 -> Unwritten
          [] (cell.written \/ cell.steps # <<>> \/ cell.risk # 0) /\ Decides(cell.steps) ->
                [verdict |-> Sign(Plus(cell.steps)), basis |-> "rating"]
          [] OTHER -> [verdict |-> IF margin \in -79..79 THEN 0 ELSE Sign(margin), basis |-> "prose"]

\* The written cells of each article, but one about itself: reading[hero][enemy].
ParseMatchups(hero, cells) == [enemy \in {e \in DOMAIN cells \ {hero} : ReadCell(cells[e]).basis # "none"} |-> ReadCell(cells[enemy])]
Seats(readings, heroes) ==
    UNION {{IF readings[h][o].verdict > 0 THEN <<o, h>> ELSE <<h, o>> :
               o \in {e \in (DOMAIN readings[h] \cap heroes) \ {h} : readings[h][e].verdict # 0}} : h \in DOMAIN readings}
Turned(pair) == <<pair[2], pair[1]>>
\* <<loser, winner>> of every pair the articles do not contradict each other on.
Combine(readings, heroes) ==
    LET seats == Seats(readings, heroes) IN
    [edges |-> {p \in seats : Turned(p) \notin seats}, contradicted |-> {{p[1], p[2]} : p \in {x \in seats : Turned(x) \in seats}}]

-----------------------------------------------------------------------------
(* A Strategy section's sentence. *)

Cues == <<"patient", "threatens", "strong", "weak", "act", "hit", "avoid">>
\* Where patterns overlap, the first listed is read.
CueKind(token) == Cues[Min({i \in DOMAIN Cues : Cues[i] \in token.kinds})]

\* Its pronoun is the hero only in a sentence that says no "you".
SaysYou(said) == \E k \in DOMAIN said.clauses : \E i \in DOMAIN said.clauses[k] : said.clauses[k][i].is = "you"
IsSelf(token, you) == token.is \in {"self", "you"} \/ (token.is = "own pronoun" /\ ~you)
IsFoe(token) == token.is \in {"foe", "enemy"}
Mentions(clause, you, allied) ==
    {i \in DOMAIN clause : \/ IsSelf(clause[i], you) \/ clause[i].is \in {"kit", "mirror", "enemy"}
                           \/ clause[i].is = "foe" /\ ~allied}
FoesOf(clause, some) == {clause[i].hero : i \in {j \in some : IsFoe(clause[j])}}

\* The list of foes that starts at i: it runs on through commas, "and" and "or".
RunFrom(clause, mentions, i) ==
    {j \in mentions : j >= i /\ \A k \in i..j : k \in mentions /\ IsFoe(clause[k]) /\ (k > i => clause[k].gap = "list")}
FirstList(clause, mentions, after) ==
    LET foes == {i \in after : IsFoe(clause[i])}
    IN  IF foes = {} THEN {} ELSE FoesOf(clause, RunFrom(clause, mentions, Min(foes)))

\* The object of the cue at i: the first named after it, past short words at most.
Object(clause, i, after) ==
    IF after = {} THEN 0
    ELSE LET j == Min(after)
         IN  IF clause[j].gap \in {"object", "list"} /\ \A k \in (i + 1)..(j - 1) : clause[k].is = "cue" /\ clause[k].links
             THEN j ELSE 0

Beats(foes) == {<<x, Itself>> : x \in foes}        \* they answer the hero
Beaten(foes) == {<<Itself, x>> : x \in foes}       \* the hero answers them

\* <<winner, loser>> of what the cue at i reads.
ReadCue(clause, you, mentions, i) ==
    LET kind == CueKind(clause[i])
        before == {j \in mentions : j < i}
        after == {j \in mentions : j > i}
        foeLast == before # {} /\ IsFoe(clause[Max(before)])
        object == Object(clause, i, after)
        list == FirstList(clause, mentions, after)
        unnamed == \E j \in 1..(i - 1) : clause[j].is \in {"own pronoun", "pronoun"}
    IN  CASE kind \in {"act", "hit", "avoid"} ->
                IF object # 0 /\ IsSelf(clause[object], you)
                THEN Beats(IF FoesOf(clause, before) # {} THEN FoesOf(clause, before) ELSE FoesOf(clause, after))
                ELSE IF foeLast THEN {}
                ELSE IF object # 0 /\ IsFoe(clause[object])
                THEN LET run == FoesOf(clause, RunFrom(clause, mentions, object)) IN IF kind = "avoid" THEN Beats(run) ELSE Beaten(run)
                ELSE IF kind = "act" /\ object = 0 THEN Beaten(list) ELSE {}
          [] kind = "patient" ->
                IF ~foeLast THEN Beats(list)
                ELSE IF FoesOf(clause, after) # {} THEN {} ELSE Beaten(FoesOf(clause, before))
          [] kind = "threatens" -> Beats(FoesOf(clause, mentions))
          [] kind = "strong" -> Beats(FoesOf(clause, before))
          [] kind = "weak" ->
                IF clause[i].rest = "such as" /\ FoesOf(clause, after) # {} THEN Beaten(list)
                ELSE IF foeLast THEN Beaten(FoesOf(clause, before))
                ELSE IF before = {} THEN (IF unnamed THEN {} ELSE Beaten(list))
                ELSE IF clause[i].rest = "by" THEN Beats(list) ELSE {}

\* The edges a sentence states, and the foes a cue named.
ReadSentence(said, under) ==
    LET you == SaysYou(said)
        allied == under \/ said.allied
        mentions(k) == Mentions(said.clauses[k], you, allied)
        cues(k) == {i \in DOMAIN said.clauses[k] : said.clauses[k][i].is = "cue"}
        read(k) == IF said.hedged THEN {} ELSE {i \in cues(k) : ~said.clauses[k][i].denied}
    IN  [edges |-> UNION {UNION {ReadCue(said.clauses[k], you, mentions(k), i) : i \in read(k)} : k \in DOMAIN said.clauses},
         cued |-> UNION {FoesOf(said.clauses[k], mentions(k)) : k \in {x \in DOMAIN said.clauses : cues(x) # {}}}]

\* Whether each line of a section stands under a bullet that speaks of allies.
UnderAllies(lines) ==
    LET opens(i) == \E k \in DOMAIN lines[i].said : lines[i].said[k].allied
        step(s, i) == LET at == IF s.at # -1 /\ lines[i].depth <= s.at THEN -1 ELSE s.at
                      IN  [at |-> IF opens(i) /\ lines[i].colon /\ at = -1 THEN lines[i].depth ELSE at, under |-> Append(s.under, at # -1)]
    IN  FoldLeft(step, [at |-> -1, under |-> <<>>], [i \in DOMAIN lines |-> i]).under

\* Mutant: a pair read both ways counts as answered.
AnyAnswered(claims, kept) == UNION {{p[1], p[2]} : p \in claims}
Answered(claims, kept) == UNION {{p[1], p[2]} : p \in kept}
\* An article's claims, and the foes a cue named without one.
ReadArticle(hero, lines) ==
    LET under == UnderAllies(lines)
        readings == UNION {{ReadSentence(lines[i].said[k], under[i]) : k \in DOMAIN lines[i].said} : i \in DOMAIN lines}
        by(x) == IF x = Itself THEN hero ELSE x
        claims == {<<by(p[1]), by(p[2])>> : p \in UNION {r.edges : r \in readings}}
        kept == {p \in claims : Turned(p) \notin claims}
    IN  [claims |-> kept, ambiguous |-> {{hero, o} : o \in UNION {r.cued : r \in readings} \ Answered(claims, kept)}]

\* Mutant: the articles are not held against each other.
MergedClaims(readings) ==
    LET edges == UNION {readings[a].claims : a \in DOMAIN readings} IN
    [edges |-> edges, dropped |-> UNION {readings[a].ambiguous : a \in DOMAIN readings} \ {{p[1], p[2]} : p \in edges}]
\* Every edge no other article's claim turns, and every pair dropped.
CombineClaims(readings) ==
    LET first == UNION {readings[a].claims : a \in DOMAIN readings}
        edges == {p \in first : Turned(p) \notin first}
    IN  [edges |-> edges,
         dropped |-> (UNION {readings[a].ambiguous : a \in DOMAIN readings} \ {{p[1], p[2]} : p \in edges})
                        \cup {{p[1], p[2]} : p \in first \ edges}]

-----------------------------------------------------------------------------
(* The store: every edge under its basis, or a refusal that stores nothing. *)

Stored(articles, heroes) ==
    LET matched == Combine([h \in DOMAIN articles |-> ParseMatchups(h, articles[h].cells)], heroes)
        stated == CombineClaims([h \in DOMAIN articles |-> ReadArticle(h, articles[h].lines)])
        rows == {Turned(p) : p \in stated.edges}
    IN  [refused |-> matched.edges = {}, matchup |-> matched.edges, strategy |-> rows, dropped |-> stated.dropped,
         contradicted |-> matched.contradicted,
         new |-> Cardinality({p \in rows : {p, Turned(p)} \cap matched.edges = {}}),
         reversed |-> Cardinality({p \in rows : Turned(p) \in matched.edges})]

-----------------------------------------------------------------------------

\* A cell told from the enemy's seat has the opposite verdict, and one that only denies
\* what speaks for a side never reads for that side.
VerdictTurns(c) ==
    LET other(side) == IF side = "threat" THEN "advantage" ELSE "threat"
        turned == [c.cell EXCEPT !.steps = [i \in DOMAIN @ |-> -@[i]], !.risk = -@,
                       !.said = [i \in DOMAIN @ |-> {[x EXCEPT !.side = other(x.side)] : x \in @[i]}]]
        cues == UNION {c.cell.said[i] : i \in DOMAIN c.cell.said}
        said == ReadCell(c.cell)
    IN  /\ ReadCell(turned) = [said EXCEPT !.verdict = -@]
        /\ said.basis = "prose" /\ c.cell.risk = 0 /\ (\A x \in cues : x.negated /\ x.side = "advantage") => said.verdict <= 0

\* Two articles that say the same of two heroes, each from its seat, at most one of them
\* before the cue, never read it opposite ways; "avoid", the hero's own threats and an
\* example apart.
SeatsAgree(c) ==
    LET turn(t) == CASE t.is = "self" -> [is |-> "foe", hero |-> c.hero, gap |-> t.gap]
                     [] t.is = "foe" -> [is |-> "self", gap |-> t.gap] [] OTHER -> t
        told(clause) == [hedged |-> FALSE, allied |-> FALSE, clauses |-> <<clause>>]
        one == ReadSentence(told(c.clause), FALSE).edges
        two == ReadSentence(told([i \in DOMAIN c.clause |-> turn(c.clause[i])]), FALSE).edges
    IN  one \cap two = {}

\* No basis holds a pair both ways or a hero against itself; the match-ups keep what one
\* article says and the other does not deny; and a pair a Strategy section's cue names
\* is an edge or told as dropped, never both.
TableHolds(c) ==
    LET verdict(h, o) == IF h \in DOMAIN c.articles /\ o \in DOMAIN c.articles[h].cells THEN ReadCell(c.articles[h].cells[o]).verdict ELSE 0
        named(h) == UNION {UNION {ReadSentence(c.articles[h].lines[i].said[k], UnderAllies(c.articles[h].lines)[i]).cued :
                              k \in DOMAIN c.articles[h].lines[i].said} : i \in DOMAIN c.articles[h].lines}
        pairs == {{p[1], p[2]} : p \in c.told.strategy}
    IN  /\ \A basis \in {c.told.matchup, c.told.strategy} : \A p \in basis : p[1] # p[2] /\ Turned(p) \notin basis
        /\ \A h, o \in c.heroes : h # o =>
               (<<o, h>> \in c.told.matchup <=> verdict(h, o) - verdict(o, h) > 0 /\ verdict(h, o) >= 0 /\ verdict(o, h) <= 0)
        /\ \A h \in DOMAIN c.articles : \A o \in named(h) \ {h} : {h, o} \in pairs <=> {h, o} \notin c.told.dropped
        /\ c.told.new + c.told.reversed <= Cardinality(c.told.strategy)
=============================================================================
