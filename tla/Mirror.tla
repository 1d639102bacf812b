------------------------------- MODULE Mirror -------------------------------
(***************************************************************************)
(* The CSV mirror of the database: psql.export writes one file a table in  *)
(* place, removes the files of tables that are gone, and then writes the   *)
(* mark that says which export the folder came from.  The door's           *)
(* export_csv and the refresher's sync_all may export at once, either may  *)
(* die or be refused at any step, and the tables change meanwhile.         *)
(*                                                                         *)
(* What a file holds is the moment its table was read; the mark tells of   *)
(* the moment it is written, which is later than every one of them.        *)
(***************************************************************************)
EXTENDS Integers, FiniteSets

CONSTANTS
    Tables,             \* every table the schema ever has
    Exporters,          \* the processes that export
    Absent, Torn,       \* a file that is not there, or not yet whole
    MaxNow              \* bound: the moments at which the database changes

ASSUME MirrorAssumption ==
    /\ Absent \notin Nat /\ Torn \notin Nat /\ Absent # Torn
    /\ Tables \cap {"idle", "next", "swept"} = {}
    /\ MaxNow \in Nat

VARIABLES
    now,                \* the moment the database is at
    present,            \* the tables it has
    csv,                \* each table's file
    mark,               \* the moment the mark tells of
    exporting,          \* where each exporter is
    listed, unwritten,       \* the tables its export began with; those not written
    began,              \* history: the moment it listed them
    beside              \* history: the exports that ran beside another

mirrorVars == <<now, present, csv, mark, exporting, listed, unwritten, began, beside>>

MirrorInit ==
    /\ now = 0
    /\ present \in SUBSET Tables
    /\ csv = [t \in Tables |-> Absent]
    /\ mark = Absent
    /\ exporting = [x \in Exporters |-> "idle"]
    /\ listed = [x \in Exporters |-> {}]
    /\ unwritten = [x \in Exporters |-> {}]
    /\ began = [x \in Exporters |-> 0]
    /\ beside = {}

\* A pull commits, or a migration adds and drops tables.
Change ==
    /\ now < MaxNow
    /\ now' = now + 1
    /\ present' \in SUBSET Tables
    /\ UNCHANGED <<csv, mark, exporting, listed, unwritten, began, beside>>

Export(x) ==
    /\ exporting[x] = "idle"
    /\ exporting' = [exporting EXCEPT ![x] = "next"]
    /\ listed' = [listed EXCEPT ![x] = present]
    /\ unwritten' = [unwritten EXCEPT ![x] = present]
    /\ began' = [began EXCEPT ![x] = now]
    /\ LET others == {y \in Exporters \ {x} : exporting[y] # "idle"} IN
        beside' = IF others = {} THEN beside \ {x} ELSE beside \cup others \cup {x}
    /\ UNCHANGED <<now, present, csv, mark>>

\* open(path, "w") empties the file there was.
OpenCsv(x, t) ==
    /\ exporting[x] = "next" /\ t \in unwritten[x]
    /\ exporting' = [exporting EXCEPT ![x] = t]
    /\ csv' = [csv EXCEPT ![t] = Torn]
    /\ UNCHANGED <<now, present, mark, listed, unwritten, began, beside>>

\* COPY reads the table as it is now, and the file is written and closed.
CopyTable(x, t) ==
    /\ exporting[x] = t /\ t \in present
    /\ exporting' = [exporting EXCEPT ![x] = "next"]
    /\ csv' = [csv EXCEPT ![t] = now]
    /\ unwritten' = [unwritten EXCEPT ![x] = @ \ {t}]
    /\ UNCHANGED <<now, present, mark, listed, began, beside>>

\* The export is over, and its locals with it.
Returns(x) ==
    /\ exporting' = [exporting EXCEPT ![x] = "idle"]
    /\ listed' = [listed EXCEPT ![x] = {}]
    /\ unwritten' = [unwritten EXCEPT ![x] = {}]
    /\ began' = [began EXCEPT ![x] = 0]
    /\ beside' = beside \ {x}

\* The table was dropped since, or the process dies: the file stays as it is.
StopExport(x) ==
    /\ exporting[x] # "idle"
    /\ Returns(x)
    /\ UNCHANGED <<now, present, csv, mark>>

\* Mutant: only the files of tables the database has no more are kept out.
SweepNothing(x) ==
    /\ exporting[x] = "next" /\ unwritten[x] = {}
    /\ exporting' = [exporting EXCEPT ![x] = "swept"]
    /\ UNCHANGED <<now, present, csv, mark, listed, unwritten, began, beside>>

\* The files of every other table go.
Sweep(x) ==
    /\ exporting[x] = "next" /\ unwritten[x] = {}
    /\ exporting' = [exporting EXCEPT ![x] = "swept"]
    /\ csv' = [t \in Tables |-> IF t \in listed[x] THEN csv[t] ELSE Absent]
    /\ UNCHANGED <<now, present, mark, listed, unwritten, began, beside>>

\* The mark tells of the moment it is written, after every table was read.
WriteMark(x) ==
    /\ exporting[x] = "swept"
    /\ mark' = now
    /\ Returns(x)
    /\ UNCHANGED <<now, present, csv>>

MirrorNext ==
    \/ Change
    \/ \E x \in Exporters :
          \/ Export(x) \/ StopExport(x) \/ Sweep(x) \/ WriteMark(x)
          \/ \E t \in Tables : OpenCsv(x, t) \/ CopyTable(x, t)

MirrorSpec == MirrorInit /\ [][MirrorNext]_mirrorVars

-----------------------------------------------------------------------------
(* Properties.                                                             *)

\* When an export that ran beside no other writes its mark, the folder holds a
\* whole file of each table it listed, read since it began, and no other file,
\* whatever an export that stopped half-way has left.
MarkedWhole ==
    [][\A x \in Exporters \ beside :
        WriteMark(x) =>
            \A t \in Tables :
                IF t \in listed[x] THEN csv'[t] \in began[x]..now
                ELSE csv'[t] = Absent]_mirrorVars
=============================================================================
