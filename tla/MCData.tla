------------------------------- MODULE MCData -------------------------------
(* One run for the data's side: the pulls and the page cache, and what is   *)
(* calculated from the data they leave, which has inputs and no state       *)
(* (case): what the articles state, the counter graph, a board's facts, and *)
(* a playbook judged on the recorded maps.  Init picks the part a behaviour *)
(* is about; the others stay as they began.                                 *)
EXTENDS MCRefresh

CONSTANTS TopAnswers, NoMap, NoName, Itself

VARIABLES part, case

Counter == INSTANCE MCCounters
Told    == INSTANCE MCFacts WITH Roles <- [tank |-> 1, damage |-> 1, support |-> 1], Unit <- 10000, TeamSize <- 6
Stated  == INSTANCE MCClaims
Played  == INSTANCE MCValidation WITH TimeBlocks <- 3, SessionFolds <- 2

dataVars == <<vars, part, case>>

AtRest == [about |-> "nothing"]

\* A part at rest begins in one state.
DataInit ==
    /\ Init
    /\ part \in {"pages", "counters", "facts", "matches", "articles"}
    /\ part # "pages" => \A page \in Pages : file[page] = NoCopy <=> page \in (CHOOSE gap \in Gaps : TRUE)
    /\ case \in CASE part = "counters" -> Counter!CounterCases
                  [] part = "facts" -> Told!FactCases
                  [] part = "matches" -> Played!ValidationCases
                  [] part = "articles" -> Stated!ClaimCases
                  [] OTHER -> {AtRest}

DataNext == part = "pages" /\ Next /\ UNCHANGED <<part, case>>

DataSpec == DataInit /\ [][DataNext]_dataVars

\* Counters.GraphSound, EatenOrProof and AreaCounts, of every roster and matrix of
\* the family; Facts.StatedWhenRead, OneStory and SidesAgree, of every board; and
\* Claims.VerdictTurns, SeatsAgree and TableHolds, of what the articles state.
FactsSound ==
    /\ part = "counters" => Counter!CountersSound(case)
    /\ part = "facts" => Told!FactsSound(case)
    /\ part = "articles" => Stated!ClaimsSound(case)

\* Validation.PinHolds, SessionsHeldOut, BlindToItsDay, FamiliesCover and
\* VerdictEarned, of every record of maps of the family.
ValidationSound == part = "matches" => Played!ValidationSound(case)
=============================================================================
