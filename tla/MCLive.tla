------------------------------- MODULE MCLive -------------------------------
(* One run for what must come in the end: the ends of two rebuilds that    *)
(* meet, the data container's start and the page's board; and for what a   *)
(* board that has come says, which has inputs and no state (case).  They   *)
(* share no state: Init picks the part a behaviour is about and the others *)
(* stay as they began.                                                     *)
EXTENDS MCMatches, Schema, Page

CONSTANT Nil

VARIABLES part, case

Decided == INSTANCE MCReach WITH TeamSize <- 3, MapsTried <- 2, Closest <- 2, MostBans <- 2

liveVars == <<vars, schemaVars, pageVars, part, case>>

\* Migration 3 alters what migration 1 made.
MCAlters == [m \in 1..MaxFiles |-> IF m = 3 THEN {1} ELSE {}]

LiveInit ==
    /\ Init /\ SchemaInit /\ PageInit
    /\ part \in {"rebuilds", "schema", "page", "verdict", "reach"}
    /\ part # "rebuilds" => ~hasTable
    /\ part # "page" => st = [draft |-> CHOOSE d \in Drafts : TRUE, weight |-> NoWeight]
                        /\ inFile = (CHOOSE w \in Weights : TRUE)
    /\ case \in CASE part = "verdict" -> Decided!VerdictCases
                  [] part = "reach" -> Decided!ReachCases
                  [] OTHER -> {[about |-> "nothing"]}

LiveNext ==
    /\ UNCHANGED <<part, case>>
    /\ \/ /\ part = "rebuilds" /\ Next
          /\ UNCHANGED <<schemaVars, pageVars>>
       \/ /\ part = "schema" /\ SchemaNext
          /\ UNCHANGED <<vars, pageVars>>
       \/ /\ part = "page" /\ PageNext
          /\ UNCHANGED <<vars, schemaVars>>

\* Each part's own fairness, asked of the part that moves.
LiveFairness ==
    /\ \A r \in Rebuilders : SF_vars(part = "rebuilds" /\ RebuildStep(r))
    /\ \A g \in Games : WF_vars(part = "rebuilds" /\ RecordCommit(g))
    /\ WF_schemaVars(part = "schema" /\ Start)
    /\ \A p \in Processes : WF_schemaVars(part = "schema" /\ ToolStep(p))
    /\ WF_pageVars(part = "page" /\ Fire)
    /\ WF_pageVars(part = "page" /\ Answered)
    /\ WF_pageVars(part = "page" /\ Focus)
    /\ WF_pageVars(part = "page" /\ StoreEnds)

LiveSpec == LiveInit /\ [][LiveNext]_liveVars /\ LiveFairness

\* Schema.DataServes, of the behaviours in which the container starts.
DataComes == part = "schema" => DataServes

\* Page.BoardComes, of the behaviours in which the page is used.
PageComes == part = "page" => BoardComes

\* Verdict.OneReading, RightPickHolds, OnItsScale, Mirrored, PlanTrue and
\* WithinBudget, of every board of the family, and Reach.ReachTrue, of every hero.
VerdictSound ==
    /\ part = "verdict" => Decided!VerdictSound(case)
    /\ part = "reach" => Decided!ReachSound(case)
=============================================================================
