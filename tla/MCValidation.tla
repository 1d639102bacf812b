---------------------------- MODULE MCValidation ----------------------------
(* Small instances of Validation for TLC: up to five maps over three days,   *)
(* two a side, under two digests.                                            *)
EXTENDS Validation, TLC

Map(map, side, blue, red) == [map |-> map, side |-> side, blue |-> blue, red |-> red]
\* What each recorded map, by its order, was played on and with.
Played == <<Map("ilios", "", {"ana", "juno"}, {"ana", "mei"}), Map("numbani", "attack", {"ana", "rein"}, {"mei", "juno"}),
            Map("numbani", "defense", {"mei", "rein"}, {"rein", "juno"}), Map("ilios", "", {"mei", "ana"}, {"rein", "juno"}),
            Map("numbani", "attack", {"juno", "gone"}, {"ana", "mei"})>>
Results == {<<"win", "loss", "win", "loss", "win">>, <<"win", "draw", "loss", "win", "win">>,
            <<"draw", "draw", "draw", "draw", "draw">>}
Digests == <<<<"old", "new", "old", "new", "new">>, <<"old", "old", "old", "old", "old">>>>
Days(n) == {days \in [1..n -> 1..3] : \A i \in 1..(n - 1) : days[i] <= days[i + 1]}
\* A map entered late carries a later id than the day's.
Recorded(n, days, results, digests, late) ==
    {[id |-> IF late THEN n + 1 - i ELSE i, day |-> days[i], result |-> results[i], digest |-> digests[i]] @@ Played[i] : i \in 1..n}

Strategy(id, form, metric, expressions, weight, likes) ==
    [id |-> id, form |-> form, soft |-> TRUE, metric |-> metric, confidence |-> NoName, expressions |-> expressions,
     weight |-> weight, likes |-> likes, bars |-> {}]
Barring(sides) == [Strategy("cap", "limit", NoName, {"team.tanks"}, 5, {"ana"}) EXCEPT !.soft = FALSE, !.bars = sides]
Catalogs == <<
    {Strategy("range", "limit", NoName, {"team.hitscan"}, 2, {"mei"}), Strategy("flank", "scored", NoName, {"map.side"}, 3, {"ana", "rein"}),
     Strategy("answer", "heuristic", "team.countered", {}, -1, {"juno"}), Strategy("trend", "heuristic", "team.win_mean", {}, 1, {"rein"})},
    {Barring({})},
    {Barring({<<"numbani", "defense">>}), Strategy("flank", "scored", NoName, {"map.side"}, 3, {"ana", "rein"})}>>

World == [heroes |-> {"ana", "juno", "mei", "rein"}, win |-> [h \in {"ana", "juno", "mei", "rein", "gone"} |-> IF h = "ana" THEN 2 ELSE 1],
          edges |-> {<<"ana", "rein">>, <<"mei", "juno">>}]

\* The digests, the order of the ids, the pin, the catalog and the maps the guard needs.
Runs == {<<1, TRUE, TRUE, 1, 1>>, <<1, FALSE, TRUE, 2, 1>>, <<1, FALSE, FALSE, 1, 4>>, <<1, TRUE, FALSE, 2, 4>>, <<2, FALSE, TRUE, 1, 4>>, <<1, TRUE, TRUE, 3, 1>>}
Judged(c) == c @@ [told |-> Validate(c)]

ValidationCases ==
    {Judged([about |-> "run", world |-> World, recorded |-> Recorded(Len(days), days, r, Digests[run[1]], run[2]), digest |-> "new",
      pin |-> run[3], catalog |-> Catalogs[run[4]], needed |-> run[5]]) :
        days \in UNION {Days(n) : n \in {2, 4}} \cup {<<1, 1, 2, 2, 3>>, <<1, 2, 2, 2, 3>>}, r \in Results,
        run \in Runs}

ValidationSound(c) ==
    PinHolds(c) /\ SessionsHeldOut(c) /\ BlindToItsDay(c) /\ FamiliesCover(c) /\ VerdictEarned(c)
=============================================================================
