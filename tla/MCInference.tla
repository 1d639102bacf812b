----------------------------- MODULE MCInference ----------------------------
(* One run for the parts of the inference that share no state: the        *)
(* playbook's files and writers, a strategy's text, the search for a       *)
(* board's best six, and the calculations that have inputs and no state    *)
(* (case).  Init picks the part a behaviour is about; the others stay as   *)
(* they began.                                                             *)
EXTENDS MCPlaybook, MCSearch, MCStrategies

CONSTANT MaxDepth

VARIABLES part, case

Expr    == INSTANCE MCExpressions
Scored  == INSTANCE MCObjective WITH Shape <- [tank |-> 1, damage |-> 1, support |-> 1]

inferenceVars == <<vars, searchVars, strategyVars, part, case>>

AtRest == [about |-> "nothing"]

\* A part at rest begins in one state.
InferenceInit ==
    /\ Init /\ SearchInit /\ StrategiesInit
    /\ part \in {"playbook", "search", "text", "expressions", "scores"}
    /\ part # "playbook" => ~bare
    /\ part # "search" => board = (CHOOSE b \in Boards : TRUE)
                          /\ sample = (CHOOSE S \in Samples : TRUE)
    /\ part # "text" => lines = (CHOOSE h \in Headers : Admits(h))
    /\ case \in CASE part = "expressions" -> Expr!ExpressionCases
                  [] part = "scores" -> Scored!ObjectiveCases
                  [] OTHER -> {AtRest}

InferenceNext ==
    /\ UNCHANGED <<part, case>>
    /\ \/ /\ part = "playbook" /\ Next
          /\ UNCHANGED <<searchVars, strategyVars>>
       \/ /\ part = "search" /\ SearchNext
          /\ UNCHANGED <<vars, strategyVars>>
       \/ /\ part = "text" /\ StrategiesNext
          /\ UNCHANGED <<vars, searchVars>>

\* Each part's own fairness, asked of the part that moves.
InferenceFairness ==
    /\ WF_vars(part = "playbook" /\ (Scan \/ Quarantine))
    /\ \A c \in Calls : WF_vars(part = "playbook" /\ Call(c))
    /\ WF_searchVars(part = "search" /\ Work)

InferenceSpec == InferenceInit /\ [][InferenceNext]_inferenceVars /\ InferenceFairness

\* Search.SearchEnds, of the behaviours in which a board is searched.
SearchComes == part = "search" => SearchEnds

\* Expressions.ReadsOnlyItsNames, of every expression of the family.
ExpressionsSound == part = "expressions" => Expr!ExpressionsSound(case)

\* Objective.ScoreSound, SliderLocal, BaseSound and HealSound, of every
\* playbook, board and side of the family.
ScoresSound == part = "scores" => Scored!ScoresSound(case)
=============================================================================
