------------------------------ MODULE MCClaims ------------------------------
(* Small instances of Claims for TLC: cells of two sentences, clauses of     *)
(* three tokens, and three heroes' articles.                                 *)
EXTENDS Claims, TLC

Cue(side, weight, start, end, negated, conceded) ==
    [side |-> side, weight |-> weight, start |-> start, end |-> end, negated |-> negated, conceded |-> conceded]
SaidCues == {{}, {Cue("threat", 2, 1, 3, FALSE, FALSE)}, {Cue("advantage", 4, 1, 3, TRUE, FALSE)},
             {Cue("advantage", 3, 1, 4, FALSE, TRUE), Cue("threat", 3, 2, 4, TRUE, FALSE), Cue("threat", 1, 6, 8, FALSE, FALSE)},
             {Cue("threat", 4, 1, 5, FALSE, FALSE), Cue("advantage", 4, 2, 4, FALSE, FALSE)}}
Cell(steps, risk, written, said) == [steps |-> steps, risk |-> risk, written |-> written, said |-> said]
Cells == {Cell(steps, risk, said # <<>>, said) : steps \in {<<>>, <<1>>, <<0, -1>>, <<1, -1>>, <<-1, -2>>}, risk \in {-2, -1, 0, 1},
             said \in {<<>>} \cup {<<a>> : a \in SaidCues} \cup {<<a, b>> : a, b \in SaidCues}}

Mention(is, hero, gap) == [is |-> is, hero |-> hero, gap |-> gap]
Spoken1(kinds, rest) == [is |-> "cue", kinds |-> kinds, rest |-> rest, denied |-> FALSE, links |-> "hit" \in kinds]
\* What two heroes' articles may both say, but for what only one side can.
Named == {[is |-> "self", gap |-> g] : g \in {"object", "far"}} \cup {Mention("foe", "b", g) : g \in {"list", "object", "far"}}
Read == {Spoken1({k}, r) : k \in {"patient", "strong", "act", "hit"}, r \in {"plain"}} \cup {Spoken1({"weak"}, r) : r \in {"plain", "by"}}
Clauses == [1..1 -> Read] \cup {<<a, b>> : a, b \in Named \cup Read} \cup {<<a, k, b>> : a, b \in Named \cup Read, k \in Read}
               \cup {<<a, k, b, d>> : a, b, d \in Named, k \in Read}

\* Sentences of an article: an edge either way, one it hedges, one among allies.
Says(hedged, allied, clause) == [hedged |-> hedged, allied |-> allied, clauses |-> <<clause>>]
Sentence(x) == {
    Says(FALSE, FALSE, <<Mention("foe", x, "far"), Spoken1({"act", "hit"}, "plain"), [is |-> "you", gap |-> "object"]>>),
    Says(FALSE, FALSE, <<[is |-> "self", gap |-> "far"], Spoken1({"hit"}, "plain"), Mention("foe", x, "object")>>),
    Says(TRUE, FALSE, <<Spoken1({"patient"}, "plain"), Mention("enemy", x, "far")>>),
    Says(FALSE, TRUE, <<Mention("foe", x, "far"), Spoken1({"weak"}, "such as"), Mention("enemy", x, "far")>>)}
Line(depth, colon, said) == [depth |-> depth, colon |-> colon, said |-> said]
LinesOf(x, y) == {<<>>} \cup {<<Line(1, TRUE, <<s>>), Line(2, FALSE, <<t>>)>> : s \in Sentence(x), t \in Sentence(x)}
                    \cup {<<Line(1, TRUE, <<s>>), Line(1, FALSE, <<t>>)>> : s \in Sentence(x), t \in Sentence(y)}
Rated(v) == Cell(<<v>>, 0, TRUE, <<>>)
ArticlesOf(x, y, rated) == {[cells |-> cells, lines |-> lines] : lines \in LinesOf(x, y), cells \in rated}

Table(heroes, articles) ==
    [about |-> "table", heroes |-> heroes, articles |-> articles, told |-> Stored(articles, heroes)]

ClaimCases ==
    {[about |-> "cell", cell |-> cell] : cell \in Cells} \cup {[about |-> "clause", hero |-> "b", clause |-> k] : k \in Clauses}
        \cup {Table({"a", "b", "c"}, ("a" :> a) @@ ("b" :> b)) :
                 a \in ArticlesOf("b", "c", {("b" :> Rated(1)) @@ ("c" :> Rated(0)), "b" :> Rated(-1)}),
                 b \in ArticlesOf("a", "c", {"a" :> Rated(-1)})}

ClaimsSound(c) ==
    CASE c.about = "cell" -> VerdictTurns(c) [] c.about = "clause" -> SeatsAgree(c) [] c.about = "table" -> TableHolds(c)
=============================================================================
