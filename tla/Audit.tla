-------------------------------- MODULE Audit -------------------------------
(***************************************************************************)
(* The audit log and the sentry that reads it while it grows.  A call is   *)
(* stamped when it begins (audit._line) and its line appended when it ends *)
(* (audit.audit), in one write or in two, the second of which may never    *)
(* come.  Every pass of the sentry reads the log on from where the last    *)
(* one stopped, and a tail before that, for the last minute is time and    *)
(* not bytes (sentry.check_door).                                          *)
(*                                                                         *)
(* The log is a sequence of cells: a line is the body of one call and an   *)
(* end, which is the time it was appended.  Bodies that run together, or   *)
(* an end alone, are no audit entry.                                       *)
(***************************************************************************)
EXTENDS Integers, Sequences, FiniteSets, FiniteSetsExt

CONSTANTS
    Logged,             \* the calls that leave a line
    Crashing,           \* those that crash
    Minute,             \* the window the sentry counts
    Every,              \* from one pass to the next
    TailCells,          \* AUDIT_TAIL_BYTES
    MaxTime             \* bound: the time at which the model stops

ASSUME AuditAssumption ==
    /\ IsFiniteSet(Logged) /\ Logged \cap Nat = {}     \* a body is no time
    /\ Crashing \subseteq Logged
    /\ Minute \in Nat /\ Every \in Nat \ {0} /\ TailCells \in Nat \ {0}
    /\ MaxTime \in Nat

VARIABLES
    time,
    log,                \* the cells of the file
    stage,              \* where each call is
    stamp,              \* when it began
    offset,             \* what the sentry's next read starts from
    due,                \* when its next pass is
    recent,             \* the calls the last pass counted
    flagged,            \* history: how often each line was counted as no audit
                        \*     entry since the sentry started
    told                \* history: the crashes any pass has counted

logVars    == <<log, stage, stamp>>
passVars   == <<offset, due, recent, flagged, told>>
auditVars  == <<time, log, stage, stamp, offset, due, recent,
                flagged, told>>

AuditInit ==
    /\ time = 0
    /\ log = <<>>
    /\ stage = [c \in Logged |-> "out"]
    /\ stamp = [c \in Logged |-> 0]
    /\ offset = 0 /\ due = 0
    /\ recent = {}
    /\ flagged = [i \in 1..2 * Cardinality(Logged) |-> 0]
    /\ told = {}

-----------------------------------------------------------------------------
(* The writers.                                                            *)

Move(c, to) == stage' = [stage EXCEPT ![c] = to]

\* The call begins: its line is stamped.
Called(c) ==
    /\ stage[c] = "out"
    /\ Move(c, "running")
    /\ stamp' = [stamp EXCEPT ![c] = time]
    /\ UNCHANGED <<time, log, passVars>>

\* It returned, was refused or crashed, and its line is appended.
Append1(c) ==
    /\ stage[c] = "running"
    /\ Move(c, "logged")
    /\ log' = log \o <<c, time>>
    /\ UNCHANGED <<time, stamp, passVars>>

\* A line longer than the buffer is appended in two writes.
AppendBody(c) ==
    /\ stage[c] = "running"
    /\ Move(c, "half")
    /\ log' = Append(log, c)
    /\ UNCHANGED <<time, stamp, passVars>>

AppendEnd(c) ==
    /\ stage[c] = "half"
    /\ Move(c, "logged")
    /\ log' = Append(log, time)
    /\ UNCHANGED <<time, stamp, passVars>>

-----------------------------------------------------------------------------
(* A pass.                                                                 *)

LineEnds       == {i \in DOMAIN log : log[i] \notin Logged}
StartOf(e) == Max({0} \cup {i \in LineEnds : i < e})

\* The line is one call's.
Entry(e) == e = StartOf(e) + 2
CallOf(e) == log[e - 1]

Least(a, b) == IF a < b THEN a ELSE b
TailStart   == Max({0, Least(offset, Len(log)) - TailCells})

\* Mutant: the seek lands on the byte itself, and the line it starts is lost.
BeginAfter == IF TailStart = 0 THEN 0 ELSE Min({e \in LineEnds : e > TailStart})

\* The read begins after the line that the byte before the tail is in.
Begin == IF TailStart = 0 THEN 0 ELSE Min({e \in LineEnds : e >= TailStart})

\* Mutant: what is being written is taken as it is.
TakenSoFar == {e \in LineEnds \cup {Len(log)} : e > Begin}

\* The whole lines it reads; one without its end waits for the next pass.
Taken == {e \in LineEnds : e > Begin}

\* Mutant: a call that began a minute ago is out of the window.
InMinuteShort(e) == Entry(e) /\ time - stamp[CallOf(e)] < Minute

InMinute(e) == Entry(e) /\ time - stamp[CallOf(e)] <= Minute

\* A line that is no entry, and not read before.
Malformed == {e \in Taken : ~Entry(e) /\ StartOf(e) >= offset}

\* check_door: the calls of the last minute, the crashes among them, and each
\* line that is no entry in the read that first passes it.
Pass ==
    /\ time = due
    /\ recent' = {CallOf(e) : e \in {x \in Taken : InMinute(x)}}
    /\ offset' = Max(Taken \cup {Begin})
    /\ due' = due + Every
    /\ flagged' = [i \in DOMAIN flagged |->
                       flagged[i] + IF i \in Malformed THEN 1 ELSE 0]
    /\ told' = told \cup (recent' \cap Crashing)
    /\ UNCHANGED <<time, logVars>>

\* The sentry's container is restarted: it reads the log from the start.
Restarted ==
    /\ offset # 0
    /\ offset' = 0
    /\ due' = time
    /\ flagged' = [i \in DOMAIN flagged |-> 0]
    /\ UNCHANGED <<time, logVars, recent, told>>

\* Time passes, and no pass is late.
AuditTick ==
    /\ time < MaxTime /\ time < due
    /\ time' = time + 1
    /\ UNCHANGED <<logVars, passVars>>

AuditNext ==
    \/ Pass \/ Restarted \/ AuditTick
    \/ \E c \in Logged :
          Called(c) \/ Append1(c) \/ AppendBody(c) \/ AppendEnd(c)

AuditSpec == AuditInit /\ [][AuditNext]_auditVars

-----------------------------------------------------------------------------
(* Properties.                                                             *)

\* A line that is no audit entry is counted once by a sentry that has read
\* past it and not before, however lines are cut, run together or appended
\* during a pass (check_door: "counts once, in the read that first passes it").
MalformedOnce ==
    \A e \in LineEnds : ~Entry(e) => flagged[e] = IF e <= offset THEN 1 ELSE 0

\* A pass counts every call of the last minute whose line is whole and within
\* the tail, and no other, though calls end in another order than they began.
RecentExact ==
    [][due' > due =>
        /\ \A e \in LineEnds : InMinute(e) /\ offset - StartOf(e) <= TailCells
              => CallOf(e) \in recent'
        /\ \A c \in recent' : time - stamp[c] <= Minute]_auditVars

\* The crashes whose lines a pass has read past.
CrashLines == {e \in LineEnds : e <= offset /\ Entry(e) /\ CallOf(e) \in Crashing}

\* A crash is counted by some pass, when its line came early enough in the
\* minute its stamp began for the next pass to come within it.
CrashCounted ==
    \A e \in CrashLines :
        log[e] - stamp[CallOf(e)] + Every <= Minute => CallOf(e) \in told

\* What the passes have read past is counted: a malformed line once, a crash in
\* its minute.
LinesCounted == MalformedOnce /\ CrashCounted

\* Every call that crashed and left its line is counted (docs/mcp.md: "the
\* audit line says crashed, which the sentry counts").
EveryCrashCounted == \A e \in CrashLines : CallOf(e) \in told
=============================================================================
