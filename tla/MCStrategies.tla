---------------------------- MODULE MCStrategies ----------------------------
(* Small instances of Strategies for TLC.                                  *)
EXTENDS Strategies

Known == [k \in {"team.a", "enemy.b", "map.t"} |-> IF k = "map.t" THEN "text" ELSE "number"]
OnBoard == {"enemy.b", "map.t"}

\* The opening line, a kind, its fields and its dials: a comment among the
\* dials at either column, a dial or a block written twice, another mapping, a
\* block that is none (refused), a blank at the end.
Bodies == {
    <<Line("kind", "heuristic"), Line("metric", "team.a"), Line("direction", "maximize"), Line("weight", "1")>>,
    <<Line("weight", "2"), Line("kind", "constraint"), Line("when", ""), Line("bonus", "params.A")>>,
    <<Line("kind", "constraint"), Line("require", "team.a"), Line("weight", "1"), Line("weight", "2")>>,
    <<Line("kind", "constraint")>>}
Blocks == {
    <<>>, <<Line("params", ""), Dial("A", "1")>>,
    <<Line("params", ""), NoLine(TRUE), Dial("A", "1")>>,
    <<Line("params", ""), NoLine(FALSE), Dial("A", "1")>>,
    <<Line("params", ""), Dial("A", "1"), Line("params", ""), Dial("A", "2"), Dial("B", "1")>>,
    <<Line("note", ""), Dial("A", "1")>>, <<Line("note", ""), Dial("params", "")>>,
    <<Line("params", "1")>>, <<Line("category", ""), Dial("A", "1")>>}
MCHeaders ==
    {<<NoLine(FALSE)>> \o body \o block \o end :
        body \in Bodies, block \in Blocks, end \in {<<>>, <<NoLine(FALSE)>>}}

Ask(field, type, text) == [field |-> field, type |-> type, text |-> text]
MCTunings == {
    <<Ask("weight", "number", "3")>>, <<Ask("weight", "text", "11")>>,
    <<Ask("when", "text", "enemy.b")>>, <<Ask("when", "text", "")>>, <<Ask("when", "text", "null")>>,
    <<Ask("when", "text", "team.gone")>>, <<Ask("metric", "text", "map.t")>>,
    <<Ask("category", "text", "yes")>>, <<Ask("confidence", "text", "enemy.b")>>,
    <<Ask("params.A", "number", "3")>>, <<Ask("params.B", "number", "2")>>,
    <<Ask("kind", "text", "assumption")>>, <<Ask("params", "text", "1")>>,
    <<Ask("soft", "bool", "true"), Ask("penalty", "number", "2")>>,
    <<Ask("bonus", "text", "params.B"), Ask("params.B", "number", "1")>>,
    <<Ask("params.A", "number", "2"), Ask("params.A", "number", "0")>>,
    <<Ask("require", "text", "params.A"), Ask("when", "text", "team.a")>>}

StrategiesSpec == StrategiesInit /\ [][StrategiesNext]_strategyVars
=============================================================================
