------------------------------- MODULE Schema -------------------------------
(***************************************************************************)
(* The database's schema and the data container that waits for it to be    *)
(* ready.  apply() commits each migration by itself and records them all   *)
(* in the ledger after the last; state() is the one definition of ready,   *)
(* and the container rebuilds a database that is not current before it     *)
(* serves.  Meanwhile a person's process may call db_init, db_migrate,     *)
(* db_rebuild or sync_all on the same database, any process may die at any *)
(* step, and the image may be rebuilt with one more migration.             *)
(*                                                                         *)
(* A migration is its number.  What it creates, alters and drops is        *)
(* abstracted to the earlier migrations it cannot run without.             *)
(***************************************************************************)
EXTENDS Integers, FiniteSets

CONSTANTS
    FirstFiles,         \* the migrations of the first image
    MaxFiles,           \* bound: the migrations of the last one
    HeroesAt,           \* the migration that creates the heroes table
    LedgerAt,           \* the one that creates the ledger
    Alters,             \* the earlier migrations each one cannot run without
    Again,              \* those that run over themselves (IF [NOT] EXISTS)
    RosterNeeds,        \* the migrations pull_heroes writes to
    PullsNeed,          \* those the other pulls write to
    Owners,             \* the processes in which a person calls the tools
    OneWriter,          \* no two processes write the schema at once
    MaxFaults,          \* bound: the processes that die
    MaxAsked            \* bound: the calls a person makes

ASSUME SchemaAssumption ==
    /\ FirstFiles \in Nat /\ MaxFiles \in Nat /\ FirstFiles <= MaxFiles
    /\ HeroesAt \in 1..FirstFiles /\ LedgerAt \in 1..FirstFiles
    /\ Alters \in [1..MaxFiles -> SUBSET (1..MaxFiles)]
    /\ Again \subseteq 1..MaxFiles
    /\ RosterNeeds \subseteq 1..FirstFiles
    /\ PullsNeed \subseteq 1..MaxFiles
    /\ "data" \notin Owners
    /\ OneWriter \in BOOLEAN
    /\ MaxFaults \in Nat /\ MaxAsked \in Nat

VARIABLES
    files,              \* how many migrations the image holds
    has,                \* the migrations whose statements are committed
    recorded,           \* the rows of schema_migrations
    heroes,             \* the heroes table has rows
    job,                \* the step each process is at
    tool,               \* the tool it runs
    toApply, toRecord,  \* the migrations it has still to run, and will record
    faults, asks        \* how many processes died; how many calls were made

dbVars     == <<has, recorded, heroes>>
schemaVars == <<files, has, recorded, heroes, job, tool, toApply, toRecord, faults, asks>>

Processes   == {"data"} \cup Owners
Files       == 1..files
SchemaTools == {"db_init", "db_migrate", "db_rebuild", "sync_all"}
SchemaSteps == {"down", "idle", "drop", "apply", "roster", "pulls", "serving"}

SchemaInit ==
    /\ files = FirstFiles
    /\ has = {} /\ recorded = {} /\ heroes = FALSE
    /\ job = [p \in Processes |-> IF p = "data" THEN "down" ELSE "idle"]
    /\ tool = [p \in Processes |-> "db_rebuild"]
    /\ toApply = [p \in Processes |-> {}]
    /\ toRecord = [p \in Processes |-> {}]
    /\ faults = 0 /\ asks = 0

-----------------------------------------------------------------------------
(* The schema's own reading of the database.                               *)

\* Mutant: a database without a ledger has nothing pending.
PendingOnceRecorded == IF LedgerAt \in has THEN Files \ recorded ELSE {}

\* The files the ledger has not recorded: all of them before it exists.
Pending == IF LedgerAt \in has THEN Files \ recorded ELSE Files

\* Ready, named by the first condition that is unmet.
State ==
    CASE has = {}                                 -> "empty"
      [] has # {} /\ Pending # {}                 -> "stale"
      [] has # {} /\ Pending = {} /\ ~heroes      -> "unfilled"
      [] OTHER                                    -> "current"

\* A migration's statements run over the tables of those before it, and most
\* of them only once.
Runs(m) == Alters[m] \subseteq has /\ (m \in has => m \in Again)

Writing(p) == job[p] \in {"drop", "apply", "roster", "pulls"}

\* Nobody is in p's way.
Alone(p) == OneWriter => \A q \in Processes \ {p} : ~Writing(q)

-----------------------------------------------------------------------------
(* The tools, step by committed step.                                      *)

AtStep(p, step) == job' = [job EXCEPT ![p] = step]

\* Mutant: a person's process ends like the container.
OverDown(p) == IF p = "data" THEN "down" ELSE "ended"

\* A call that raises ends the data container, and a person's process.
Over(p) == IF p = "data" THEN "down" ELSE "idle"

SetToRun(p, todo) ==
    /\ toApply' = [toApply EXCEPT ![p] = todo]
    /\ toRecord' = [toRecord EXCEPT ![p] = todo]

\* Mutant: rebuild applies the files over what is there.
DropNothing(p) ==
    /\ job[p] = "drop"
    /\ SetToRun(p, Files)
    /\ AtStep(p, "apply")
    /\ UNCHANGED <<files, dbVars, tool, faults, asks>>

\* drop_all takes the ledger with the tables; rebuild applies every file.
DropAllTables(p) ==
    /\ job[p] = "drop"
    /\ has' = {} /\ recorded' = {} /\ heroes' = FALSE
    /\ SetToRun(p, Files)
    /\ AtStep(p, "apply")
    /\ UNCHANGED <<files, tool, faults, asks>>

\* The file p runs next: none of those it has still to run is before it.
NextFile(p) == {m \in toApply[p] : \A n \in toApply[p] : m <= n}

\* One migration run and committed, in filename order.
Apply(p) ==
    /\ job[p] = "apply"
    /\ \E m \in NextFile(p) :
        /\ Runs(m)
        /\ has' = has \cup {m}
        /\ toApply' = [toApply EXCEPT ![p] = @ \ {m}]
    /\ UNCHANGED <<files, recorded, heroes, job, tool, toRecord, faults, asks>>

\* Every migration ran: the ledger, once there is one, records them all.
RecordFiles(p) ==
    /\ job[p] = "apply" /\ toApply[p] = {}
    /\ recorded' = IF LedgerAt \in has THEN recorded \cup toRecord[p] ELSE recorded
    /\ AtStep(p, IF tool[p] = "db_rebuild" THEN "roster" ELSE Over(p))
    /\ UNCHANGED <<files, has, heroes, tool, toApply, toRecord, faults, asks>>

\* sync_all's first pull, committed before the next one starts.
PullRoster(p) ==
    /\ job[p] = "roster" /\ RosterNeeds \subseteq has
    /\ heroes' = TRUE
    /\ AtStep(p, "pulls")
    /\ UNCHANGED <<files, has, recorded, tool, toApply, toRecord, faults, asks>>

\* The other pulls, the strategies' mirror and the export.
PullRest(p) ==
    /\ job[p] = "pulls" /\ PullsNeed \cap Files \subseteq has
    /\ AtStep(p, IF p = "data" THEN "serving" ELSE "idle")
    /\ UNCHANGED <<files, dbVars, tool, toApply, toRecord, faults, asks>>

\* A statement the database refuses: a table that is there already, or one
\* that is not.
PullRefused(p) ==
    /\ \/ job[p] = "apply" /\ \E m \in NextFile(p) : ~Runs(m)
       \/ job[p] = "roster" /\ ~(RosterNeeds \subseteq has)
       \/ job[p] = "pulls" /\ ~(PullsNeed \cap Files \subseteq has)
    /\ AtStep(p, Over(p))
    /\ UNCHANGED <<files, dbVars, tool, toApply, toRecord, faults, asks>>

-----------------------------------------------------------------------------
(* Who calls them.                                                         *)

\* A person's call: db_init only on an empty database, db_migrate with what
\* is pending as it begins.
Ask(p, t) ==
    /\ p \in Owners /\ job[p] = "idle" /\ Alone(p)
    /\ asks < MaxAsked
    /\ asks' = asks + 1
    /\ t = "db_init" => has = {}
    /\ tool' = [tool EXCEPT ![p] = t]
    /\ SetToRun(p, IF t \in {"db_init", "db_migrate"} THEN Pending ELSE {})
    /\ AtStep(p, CASE t = "db_rebuild" -> "drop" [] t = "sync_all" -> "roster"
                 [] OTHER -> "apply")
    /\ UNCHANGED <<files, dbVars, faults>>

\* The data role: a database that is not current is rebuilt before it serves.
Start ==
    /\ job["data"] = "down" /\ Alone("data")
    /\ AtStep("data", IF State = "current" THEN "serving" ELSE "drop")
    /\ UNCHANGED <<files, dbVars, tool, toApply, toRecord, faults, asks>>

\* A process dies between two commits.
DieAt(p) ==
    /\ Writing(p)
    /\ faults < MaxFaults
    /\ faults' = faults + 1
    /\ AtStep(p, Over(p))
    /\ UNCHANGED <<files, dbVars, tool, toApply, toRecord, asks>>

\* An image with one more migration, started while no call of a person's runs.
Upgrade ==
    /\ files < MaxFiles
    /\ \A p \in Owners : job[p] = "idle"
    /\ files' = files + 1
    /\ AtStep("data", "down")
    /\ UNCHANGED <<dbVars, tool, toApply, toRecord, faults, asks>>

ToolStep(p) == DropAllTables(p) \/ Apply(p) \/ RecordFiles(p) \/ PullRoster(p) \/ PullRest(p) \/ PullRefused(p)

SchemaNext ==
    \/ Start \/ Upgrade
    \/ \E p \in Processes :
          ToolStep(p) \/ DieAt(p) \/ \E t \in SchemaTools : Ask(p, t)

\* The data container is restarted whenever it ends, and a call runs on.
SchemaFairness ==
    /\ WF_schemaVars(Start)
    /\ \A p \in Processes : WF_schemaVars(ToolStep(p))

SchemaSpec == SchemaInit /\ [][SchemaNext]_schemaVars

-----------------------------------------------------------------------------
(* Properties.                                                             *)

\* Every variable keeps its type, for every reachable state.
SchemaTypeOK ==
    /\ files \in FirstFiles..MaxFiles
    /\ has \subseteq 1..MaxFiles
    /\ recorded \subseteq 1..MaxFiles
    /\ heroes \in BOOLEAN
    /\ job \in [Processes -> SchemaSteps]
    /\ tool \in [Processes -> SchemaTools]
    /\ toApply \in [Processes -> SUBSET (1..MaxFiles)]
    /\ toRecord \in [Processes -> SUBSET (1..MaxFiles)]
    /\ faults \in Nat
    /\ asks \in Nat

\* The state keeps its type, and a database state() calls current has every
\* migration of the image, whatever died between two of them and whichever tool
\* finished the work (state: "the one definition of ready").
ReadyIsWhole ==
    /\ SchemaTypeOK
    /\ State = "current" => Files \subseteq has

\* The data container that starts comes to serve, over whatever a death, an
\* older image or a tool left in the database.
DataServes == job["data"] = "down" ~> job["data"] = "serving"
=============================================================================
