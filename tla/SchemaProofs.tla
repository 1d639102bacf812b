---------------------------- MODULE SchemaProofs ----------------------------
(***************************************************************************)
(* Proofs about Schema, for every number of migrations, every set of       *)
(* people's processes and every number of calls, deaths and upgrades; and  *)
(* about Mirror, for every set of tables and exporters.                    *)
(*                                                                         *)
(*   ReadyMeansWhole   while no two processes write the schema at once, a  *)
(*                     database that state() calls current has every       *)
(*                     migration of the image.  The ledger is written once *)
(*                     at the end of apply(), long after the migrations it *)
(*                     tells of: SchemaInv says that what a process will   *)
(*                     record it has either run or has still to run, which *)
(*                     no other process undoes while one writes.           *)
(*   MarksAreWhole     an export that ran beside no other marks a whole    *)
(*                     mirror.  AloneHolds says what such an export has    *)
(*                     written so far: the files of the tables it is done  *)
(*                     with, read since it began, and after the sweep no   *)
(*                     other; that it is alone is what keeps them so.      *)
(***************************************************************************)
EXTENDS Schema, Mirror, TLAPS

\* No two processes are writing.
WriterAlone == \A p, q \in Processes : Writing(p) /\ Writing(q) => p = q

\* What a process will record and is not still to run is there.
RunFirst(p) == job[p] = "apply" => toRecord[p] \subseteq has \cup toApply[p]

SchemaInv ==
    /\ SchemaTypeOK
    /\ WriterAlone
    /\ recorded \subseteq has
    /\ \A p \in Processes : RunFirst(p)

\* An empty database has recorded nothing, and nobody writes.
LEMMA SchemaInvInit == SchemaInit => SchemaInv
<1> SUFFICES ASSUME SchemaInit PROVE SchemaInv
  OBVIOUS
<1>1. job \in [Processes -> {"down", "idle"}]
  BY DEF SchemaInit
<1>2. tool \in [Processes -> SchemaTools]
  BY DEF SchemaInit, SchemaTools
<1>3. SchemaTypeOK
  <2>1. files \in FirstFiles..MaxFiles /\ faults \in Nat /\ asks \in Nat
    BY SchemaAssumption DEF SchemaInit
  <2>2. job \in [Processes -> SchemaSteps]
    BY <1>1 DEF SchemaSteps
  <2>3. /\ toApply \in [Processes -> SUBSET (1..MaxFiles)]
        /\ toRecord \in [Processes -> SUBSET (1..MaxFiles)]
    BY DEF SchemaInit
  <2>4. heroes \in BOOLEAN /\ has \subseteq 1..MaxFiles /\ recorded \subseteq 1..MaxFiles
    BY DEF SchemaInit
  <2> QED BY <1>2, <2>1, <2>2, <2>3, <2>4 DEF SchemaTypeOK
<1>4. \A p \in Processes : job[p] # "apply" /\ ~Writing(p)
  BY <1>1 DEF Writing
<1> QED BY <1>3, <1>4 DEF SchemaInit, SchemaInv, WriterAlone, RunFirst

\* Only 1..MaxFiles is ever pending.
LEMMA PendingFiles == SchemaInv => Pending \subseteq 1..MaxFiles /\ Files \subseteq 1..MaxFiles
BY SchemaAssumption DEF SchemaInv, SchemaTypeOK, Pending, Files

\* A process that begins finds nobody writing, and will record what it has
\* still to run.
LEMMA BeginStep ==
    ASSUME OneWriter, SchemaInv,
           Start \/ \E p \in Processes, t \in SchemaTools : Ask(p, t)
    PROVE  SchemaInv'
<1> USE SchemaAssumption
    DEF SchemaInv, SchemaTypeOK, WriterAlone, RunFirst, Writing, Alone, AtStep,
        SchemaSteps, dbVars
<1>1. ASSUME Start PROVE SchemaInv'
  BY <1>1 DEF Start, Processes
<1>2. ASSUME NEW p \in Processes, NEW t \in SchemaTools, Ask(p, t) PROVE SchemaInv'
  <2>1. job' \in [Processes -> SchemaSteps] /\ tool' \in [Processes -> SchemaTools] /\ asks' \in Nat
    BY <1>2 DEF Ask
  <2>2. /\ toApply' \in [Processes -> SUBSET (1..MaxFiles)]
        /\ toRecord' = [toRecord EXCEPT ![p] = toApply'[p]]
    BY <1>2, PendingFiles DEF Ask, SetToRun
  <2>3. WriterAlone'
    BY <1>2 DEF Ask
  <2>4. \A q \in Processes : RunFirst(q)'
    BY <1>2, <2>2 DEF Ask, SetToRun
  <2> QED BY <1>2, <2>1, <2>2, <2>3, <2>4 DEF Ask
<1> QED BY <1>1, <1>2

\* A step of the one process that writes.
LEMMA WriteStep ==
    ASSUME SchemaInv, NEW p \in Processes, ToolStep(p)
    PROVE  SchemaInv'
<1> USE SchemaAssumption
    DEF SchemaInv, SchemaTypeOK, WriterAlone, RunFirst, Writing, AtStep, SchemaSteps,
        Over, dbVars
<1>1. ASSUME DropAllTables(p) PROVE SchemaInv'
  <2>1. Files \in SUBSET (1..MaxFiles)
    BY PendingFiles
  <2> QED BY <1>1, <2>1 DEF DropAllTables, SetToRun
<1>2. ASSUME Apply(p) PROVE SchemaInv'
  <2>1. PICK m \in toApply[p] :
            /\ has' = has \cup {m}
            /\ toApply' = [toApply EXCEPT ![p] = @ \ {m}]
    BY <1>2 DEF Apply, NextFile
  <2>2. m \in 1..MaxFiles
    BY <2>1
  <2> QED BY <1>2, <2>1, <2>2 DEF Apply
<1>3. ASSUME RecordFiles(p) PROVE SchemaInv'
  BY <1>3 DEF RecordFiles
<1>4. ASSUME PullRoster(p) PROVE SchemaInv'
  BY <1>4 DEF PullRoster
<1>5. ASSUME PullRest(p) PROVE SchemaInv'
  BY <1>5 DEF PullRest
<1>6. ASSUME PullRefused(p) PROVE SchemaInv'
  BY <1>6 DEF PullRefused
<1> QED BY <1>1, <1>2, <1>3, <1>4, <1>5, <1>6 DEF ToolStep

\* A death or an upgrade ends a process and changes no table.
LEMMA EndStep ==
    ASSUME SchemaInv, Upgrade \/ \E p \in Processes : DieAt(p)
    PROVE  SchemaInv'
<1> USE SchemaAssumption
    DEF SchemaInv, SchemaTypeOK, WriterAlone, RunFirst, Writing, AtStep, SchemaSteps,
        Over, dbVars
<1>1. ASSUME Upgrade PROVE SchemaInv'
  BY <1>1 DEF Upgrade, Processes
<1>2. ASSUME NEW p \in Processes, DieAt(p) PROVE SchemaInv'
  BY <1>2 DEF DieAt
<1> QED BY <1>1, <1>2

LEMMA SchemaInvStep ==
    ASSUME OneWriter
    PROVE  SchemaInv /\ [SchemaNext]_schemaVars => SchemaInv'
<1> SUFFICES ASSUME SchemaInv, [SchemaNext]_schemaVars PROVE SchemaInv'
  OBVIOUS
<1>1. CASE UNCHANGED schemaVars
  BY <1>1 DEF schemaVars, SchemaInv, SchemaTypeOK, WriterAlone, RunFirst, Writing
<1>2. CASE SchemaNext
  BY <1>2, BeginStep, WriteStep, EndStep DEF SchemaNext
<1> QED BY <1>1, <1>2

\* A database that state() calls current has every migration of the image,
\* whatever died between two of them and whichever tool finished the work, as
\* long as one process at a time writes the schema.
THEOREM ReadyMeansWhole ==
    ASSUME OneWriter
    PROVE  SchemaSpec => []ReadyIsWhole
<1>1. SchemaInv => ReadyIsWhole
  <2> SUFFICES ASSUME SchemaInv, State = "current" PROVE Files \subseteq has
    BY DEF SchemaInv, ReadyIsWhole
  <2>1. Pending = {}
    BY DEF State
  <2>2. LedgerAt \in has
    <3> SUFFICES ASSUME LedgerAt \notin has PROVE FALSE
      OBVIOUS
    <3>1. Files = {}
      BY <2>1 DEF Pending
    <3>2. 1 \in Files
      BY SchemaAssumption DEF SchemaInv, SchemaTypeOK, Files
    <3> QED BY <3>1, <3>2
  <2>3. Files \subseteq recorded
    BY <2>1, <2>2 DEF Pending
  <2> QED BY <2>3 DEF SchemaInv
<1>2. SchemaInv /\ [SchemaNext]_schemaVars => SchemaInv'
  BY SchemaInvStep
<1> QED BY <1>1, <1>2, SchemaInvInit, PTL DEF SchemaSpec

-----------------------------------------------------------------------------
(* The CSV mirror.                                                         *)

MirrorType ==
    /\ now \in Nat
    /\ csv \in [Tables -> Nat \cup {Absent, Torn}]
    /\ exporting \in [Exporters -> {"idle", "next", "swept"} \cup Tables]
    /\ present \subseteq Tables
    /\ listed \in [Exporters -> SUBSET Tables]
    /\ unwritten \in [Exporters -> SUBSET Tables]
    /\ began \in [Exporters -> Nat]

\* What x has written, while no other export ran beside it.
AloneHolds(x) ==
    exporting[x] # "idle" /\ x \notin beside =>
        /\ \A y \in Exporters \ {x} : exporting[y] = "idle"
        /\ began[x] <= now
        /\ exporting[x] \in Tables => exporting[x] \in unwritten[x]
        /\ \A t \in listed[x] \ unwritten[x] : csv[t] \in began[x]..now
        /\ exporting[x] = "swept" =>
              unwritten[x] = {} /\ \A t \in Tables \ listed[x] : csv[t] = Absent

MirrorInv == MirrorType /\ \A x \in Exporters : AloneHolds(x)

LEMMA MirrorInvInit == MirrorInit => MirrorInv
BY MirrorAssumption DEF MirrorInit, MirrorInv, MirrorType, AloneHolds

\* An export's start, steps and end keep what it has written, and end another's
\* being alone before they touch its files.
LEMMA MirrorInvStep == MirrorInv /\ [MirrorNext]_mirrorVars => MirrorInv'
<1> SUFFICES ASSUME MirrorInv, [MirrorNext]_mirrorVars PROVE MirrorInv'
  OBVIOUS
<1> USE MirrorAssumption DEF MirrorInv, MirrorType, AloneHolds
<1>1. CASE UNCHANGED mirrorVars
  BY <1>1 DEF mirrorVars
<1>2. ASSUME Change PROVE MirrorInv'
  BY <1>2 DEF Change
<1>3. ASSUME NEW x \in Exporters, Export(x) PROVE MirrorInv'
  BY <1>3 DEF Export
<1>4. ASSUME NEW x \in Exporters, StopExport(x) PROVE MirrorInv'
  BY <1>4 DEF StopExport, Returns
<1>5. ASSUME NEW x \in Exporters, Sweep(x) PROVE MirrorInv'
  BY <1>5 DEF Sweep
<1>6. ASSUME NEW x \in Exporters, WriteMark(x) PROVE MirrorInv'
  BY <1>6 DEF WriteMark, Returns
<1>7. ASSUME NEW x \in Exporters, NEW t \in Tables, OpenCsv(x, t) PROVE MirrorInv'
  BY <1>7 DEF OpenCsv
<1>8. ASSUME NEW x \in Exporters, NEW t \in Tables, CopyTable(x, t) PROVE MirrorInv'
  BY <1>8 DEF CopyTable
<1> QED
  BY <1>1, <1>2, <1>3, <1>4, <1>5, <1>6, <1>7, <1>8 DEF MirrorNext

\* An export that ran beside no other marks a mirror that holds a whole file of
\* each table it listed and no other, whatever another left half-way.
THEOREM MarksAreWhole == MirrorSpec => MarkedWhole
<1> DEFINE Marks(x) ==
        WriteMark(x) =>
            \A t \in Tables :
                IF t \in listed[x] THEN csv'[t] \in began[x]..now
                ELSE csv'[t] = Absent
<1>1. MirrorInv /\ [MirrorNext]_mirrorVars => [\A x \in Exporters \ beside : Marks(x)]_mirrorVars
  <2> SUFFICES ASSUME MirrorInv, NEW x \in Exporters \ beside, WriteMark(x)
               PROVE  \A t \in Tables :
                          IF t \in listed[x] THEN csv'[t] \in began[x]..now
                          ELSE csv'[t] = Absent
    OBVIOUS
  <2> USE MirrorAssumption DEF MirrorInv, MirrorType, AloneHolds
  <2>1. exporting[x] = "swept" /\ csv' = csv
    BY DEF WriteMark
  <2>2. \A t \in Tables : IF t \in listed[x] THEN csv[t] \in began[x]..now ELSE csv[t] = Absent
    BY <2>1
  <2> QED BY <2>1, <2>2
<1> QED BY <1>1, MirrorInvInit, MirrorInvStep, PTL DEF MirrorSpec, MarkedWhole
=============================================================================
