-------------------------------- MODULE Reach -------------------------------
(***************************************************************************)
(* Is a hero the right pick somewhere?  The search for a board that seats  *)
(* it (inference.reach): the maps that lift it, reds it answers, a side,   *)
(* and the bans of the rivals that hold its seat.  The boards are          *)
(* Verdict's; this world adds each map's lift of a hero, the sides a map   *)
(* has, the roles, the pick rates, the heroes a hard limit keeps out and   *)
(* those a side is expected to pick, the first of them first.              *)
(***************************************************************************)
EXTENDS Verdict

CONSTANTS
    MapsTried,      \* the maps a search tries
    Closest,        \* the boards the ban search starts from
    MostBans        \* the bans a match has

Roles == <<"tank", "damage", "support">>

-----------------------------------------------------------------------------
(* The boards a search tries. *)

\* The maps, the best for the hero first.
MapsFor(w, hero) ==
    LET first(m, n) == w.lift[m][hero] > w.lift[n][hero] \/ (w.lift[m][hero] = w.lift[n][hero] /\ m < n)
        ranked == SetToSortSeq(DOMAIN w.lift, first)
    IN  SubSeq(ranked, 1, Min({MapsTried, Len(ranked)}))

IsCounteredBy(w, loser, winner) == <<loser, winner>> \in w.edges

\* No red; two a role of whom it answers, the most picked first; the same without
\* those that answer it back.
Reds(w, hero) ==
    LET late(x) == (IF IsCounteredBy(w, x, hero) THEN 0 ELSE 20) + (IF IsCounteredBy(w, hero, x) THEN 10 ELSE 0) - w.pick[x]
        first(x, y) == late(x) < late(y) \/ (late(x) = late(y) /\ x < y)
        of(role, strict) == {x \in w.released \ {hero} : w.role[x] = role /\ ~(strict /\ IsCounteredBy(w, hero, x))}
        two(role, strict) == LET s == SetToSortSeq(of(role, strict), first) IN {s[i] : i \in DOMAIN s \cap 1..2}
        red(strict) == UNION {two(Roles[i], strict) : i \in DOMAIN Roles}
    IN  <<{}>> \o (IF red(FALSE) = {} THEN <<>> ELSE <<red(FALSE)>>)
            \o (IF red(TRUE) \in {{}, red(FALSE)} THEN <<>> ELSE <<red(TRUE)>>)

\* Map by map, red by red, side by side.
BoardsFor(w, hero) ==
    LET of(m) == FlattenSeq([r \in DOMAIN Reds(w, hero) |->
                    [s \in DOMAIN w.sides[m] |-> [map |-> m, red |-> Reds(w, hero)[r], side |-> w.sides[m][s]]]])
        maps == MapsFor(w, hero)
    IN  FlattenSeq([i \in DOMAIN maps |-> of(maps[i])])

-----------------------------------------------------------------------------
(* The engine on a board: the best six its limits allow, or none (Infeasible). *)

NoSix == {}
On(w, b, bans) ==
    LET left == SelectSeq(w.expected, LAMBDA h : h \notin bans) IN
    [w EXCEPT !.own = [h \in DOMAIN w.own |-> w.own[h] + w.lift[b.map][h] + w.holds[b.side][h]],
              !.likely = {left[i] : i \in 1..TeamSize}]
Infer(w, b, locked, bans) ==
    LET world == On(w, b, bans)
        field == {six \in Sixes(world, locked, bans) : six \cap w.barred = {}}
    IN  IF field = {} THEN NoSix
        ELSE CHOOSE six \in field : \A x \in field : Scored(world, x, b.red) <= Scored(world, six, b.red)
ScoreOn(w, b, six) == Scored(On(w, b, {}), six, b.red)

Seated(w, found) == found.hero \in Infer(w, found.board, {}, found.banned)

-----------------------------------------------------------------------------
(* The ban search of one board. *)

\* Mutant: a rival red has picked may be banned.
Seatmates(w, hero, b, top, held) == {h \in top : w.role[h] = w.role[hero] /\ h \notin held}
\* Who holds the hero's seat and can be banned.
Rivals(w, hero, b, top, held) == {h \in top : w.role[h] = w.role[hero] /\ h \notin held /\ h \notin b.red}

\* One round: the board the bans so far make, and one rival more banned.
Round(w, hero, b, s) ==
    LET top == Infer(w, b, {}, s.banned)
        held == Infer(w, b, {hero}, s.banned)
        rivals == Rivals(w, hero, b, top, held)
        ended(how) == [s EXCEPT !.end = how]
    IN  CASE s.end # "open" -> s
          [] s.end = "open" /\ top # NoSix /\ s.banned # {} /\ hero \in top -> ended("found")
          [] OTHER -> IF top = NoSix \/ Cardinality(s.banned) = MostBans \/ held = NoSix \/ rivals = {} THEN ended("none")
                      ELSE [s EXCEPT !.banned = @ \cup {Min(rivals)}]
Banning(w, hero, b) ==
    LET after[n \in 0..(MostBans + 1)] ==
            IF n = 0 THEN [banned |-> {}, end |-> "open"] ELSE Round(w, hero, b, after[n - 1])
    IN  after[MostBans + 1]

-----------------------------------------------------------------------------
(* The search. *)

\* Each board with its best six, the best with the hero, and how far apart they are.
Solves(w, hero, boards) ==
    LET solved(b, top, held) ==
            [board |-> b, top |-> top, near |-> top # NoSix /\ held # NoSix,
             gap |-> IF top # NoSix /\ held # NoSix THEN ScoreOn(w, b, top) - ScoreOn(w, b, held) ELSE 0]
    IN  [i \in DOMAIN boards |-> solved(boards[i], Infer(w, boards[i], {}, {}), Infer(w, boards[i], {hero}, {}))]

\* The closest first, then by the map's name and the side's, then as they were tried.
Ranked(solves) ==
    LET key(s) == <<s.gap, s.board.map, IF s.board.side = "defense" THEN 1 ELSE 0>>
        below(k, l) == \E n \in 1..3 : k[n] < l[n] /\ \A m \in 1..(n - 1) : k[m] = l[m]
        before(i, j) == below(key(solves[i]), key(solves[j])) \/ (key(solves[i]) = key(solves[j]) /\ i < j)
    IN  SortSeq(SelectSeq([i \in DOMAIN solves |-> i], LAMBDA i : solves[i].near), before)

\* The first of the closest boards whose bans seat the hero, else the closest.
Banned(w, hero, solves, ranked) ==
    LET outcome == [n \in DOMAIN ranked \cap 1..Closest |-> Banning(w, hero, solves[ranked[n]].board)]
        won == {n \in DOMAIN outcome : outcome[n].end = "found"}
        answer(n, seated, banned) ==
            [end |-> "answered", hero |-> hero, seated |-> seated, board |-> solves[ranked[n]].board, banned |-> banned]
    IN  IF won = {} THEN answer(1, FALSE, {}) ELSE answer(Min(won), TRUE, outcome[Min(won)].banned)

\* The first board that seats the hero; with none, the closest boards' ban searches;
\* with none of those, the closest it came.
Found(w, hero, solves) ==
    LET seats == {i \in DOMAIN solves : hero \in solves[i].top} IN
    CASE solves = <<>> -> [end |-> "no maps"]
      [] seats # {} -> [end |-> "answered", hero |-> hero, seated |-> TRUE, board |-> solves[Min(seats)].board, banned |-> {}]
      [] solves # <<>> /\ \A i \in DOMAIN solves : ~solves[i].near -> [end |-> "infeasible"]
      [] OTHER -> Banned(w, hero, solves, Ranked(solves))
Search(w, hero) == Found(w, hero, Solves(w, hero, BoardsFor(w, hero)))

-----------------------------------------------------------------------------

\* A board found is a proof: it can be asked, within the bans of a match and none of a
\* red pick or of the hero, and solved again it seats the hero, whom its bans, made one
\* after another, did not seat before the last; a hero found nothing for is in no six of a
\* board the search tries unbanned.
ReachTrue(c) ==
    LET w == c.world
        found == c.found
        boards == BoardsFor(w, c.hero)
    IN  /\ found.end = "answered" =>
               IF found.seated
               THEN /\ Cardinality(found.banned) <= MostBans
                    /\ found.banned \cap (found.board.red \cup {c.hero}) = {} /\ Seated(w, found)
                    /\ \A n \in 0..(Cardinality(found.banned) - 1) :
                           \E fewer \in kSubset(n, found.banned) : ~Seated(w, [found EXCEPT !.banned = fewer])
               ELSE /\ \A i \in DOMAIN boards : c.hero \notin Infer(w, boards[i], {}, {})
                    /\ ~Seated(w, found)
        /\ found.end = "infeasible" => \A i \in DOMAIN boards : Infer(w, boards[i], {}, {}) = NoSix \/ Infer(w, boards[i], {c.hero}, {}) = NoSix
=============================================================================
