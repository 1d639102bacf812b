--------------------------- MODULE PlaybookProofs ---------------------------
(***************************************************************************)
(* Proofs about Playbook, for every set of strategies and of calls, every  *)
(* shipped playbook that loads, and every number of edits and crashes.     *)
(*                                                                         *)
(*   TypeCorrect   the docs and the table never hold a half-written file.  *)
(*   FirstWritten  what the docs, the table and the log tell was written   *)
(*                 to its file first.                                      *)
(*   LinesStay     a call that answers has its line, where the playbook    *)
(*                 came with its log.                                      *)
(*   CopiesAgree   a call that met nobody else's write leaves the files,   *)
(*                 the docs and the table alike, or fails over docs that   *)
(*                 had lost their markers.                                 *)
(*                                                                         *)
(* None is inductive: each says something of the copies, and what goes     *)
(* into a copy is what a call holds in hand since an earlier step.  The    *)
(* invariants below say what a call holds at each of its steps.            *)
(***************************************************************************)
EXTENDS Playbook, TLAPS

Steps == {"asked", "validate", "open", "write", "docs", "empty", "fill", "log",
          "header", "append", "load", "mirror"} \cup Ended

\* The sets the variables range over.
Typed ==
    /\ file \in [Ids -> Texts] /\ docs \in [Ids -> Texts] /\ table \in [Ids -> Texts]
    /\ log \subseteq Calls /\ hasLog \in BOOLEAN /\ bare \in BOOLEAN
    /\ pc \in [Calls -> Steps]
    /\ text \in [Calls -> Texts] /\ seen \in [Calls -> [Ids -> Texts]]
    /\ target \in Ids \cup {0} /\ alone \subseteq Calls
    /\ adrift \subseteq Calls /\ \A c \in adrift : At(c, "write")
    /\ written \in [Ids -> SUBSET Texts]

\* No copy holds a strategy half written, and what a call holds in hand loads.
NoneBroken ==
    /\ \A h \in Ids : docs[h] # Broken /\ table[h] # Broken
    /\ \A c \in Calls : Loads(seen[c])

\* What a file, a copy or a call's hand holds was written to the file, but
\* for the change the call has still to write.
Sourced ==
    /\ \A h \in Ids :
          /\ Shipped[h] \in written[h]
          /\ file[h] \in written[h] \cup {Absent, Broken}
          /\ docs[h] \in written[h] \cup {Absent}
          /\ table[h] \in written[h] \cup {Absent}
    /\ \A c \in Calls : \A h \in Ids :
          IF pc[c] \in {"open", "write"} /\ h = Target[c] THEN seen[c][h] = text[c]
          ELSE seen[c][h] \in written[h] \cup {Absent}

\* The steps of a call whose text is written.
After == {"docs", "empty", "fill", "log", "header", "append", "load", "mirror"}

\* A call carries its change until it has written it; then some text has it.
Carried ==
    \A c \in Calls :
        /\ pc[c] \in {"validate", "open", "write"} => c \in text[c]
        /\ (pc[c] \in After \/ c \in log) => \E t \in written[Target[c]] : c \in t

\* Only a playbook without a log has one begun, which loses lines.
Lined ==
    /\ \A c \in Calls : At(c, "append") => hasLog
    /\ ~bare => /\ hasLog
                /\ \A c \in Calls :
                      /\ pc[c] # "header"
                      /\ pc[c] \in {"load", "mirror", "replied"} => c \in log

PlaybookInv == Typed /\ NoneBroken /\ Sourced /\ Carried /\ Lined

-----------------------------------------------------------------------------
(* The invariant holds at the start and every step keeps it.               *)

\* The shipped playbook loads, and nothing else has happened yet.
LEMMA InvInit == Init => PlaybookInv
<1> SUFFICES ASSUME Init PROVE PlaybookInv
  OBVIOUS
<1> USE PlaybookAssumption, ShippedAssumption DEF Init
<1>1. Typed
  BY DEF Typed, Steps, Texts, Absent
<1>2. NoneBroken
  BY DEF NoneBroken, Loads
<1>3. Sourced
  BY DEF Sourced
<1>4. Carried /\ Lined
  BY DEF Carried, After, Lined, At
<1> QED BY <1>1, <1>2, <1>3, <1>4 DEF PlaybookInv

\* A writer's steps keep the types.
LEMMA CallTyped ==
    ASSUME Typed, NEW c \in Calls, Call(c)
    PROVE  Typed'
<1> USE PlaybookAssumption, ShippedAssumption
    DEF Typed, Steps, Ended, At, Goto, Then, folder, calls, OnlyBy
<1>1. Absent \in Texts /\ Broken \in Texts /\ {c} \in Texts
      /\ \A t \in Texts : t \cup {c} \in Texts
  BY DEF Absent, Broken, Texts
<1>2. \A h \in Ids : \A t \in Texts :
         With(file, h, t) \in [Ids -> Texts] /\ Target[c] \in Ids
  BY DEF With
<1>3. CASE Read(c)
  <2>1. file[Target[c]] \cup {c} \in Texts
    BY <1>1, <1>2
  <2>2. text' \in [Calls -> Texts]
    BY <1>1, <1>3, <2>1 DEF Read
  <2>3. pc' \in [Calls -> Steps] /\ (\A a \in adrift : pc'[a] = "write")
    BY <1>3 DEF Read
  <2> QED BY <1>3, <2>2, <2>3 DEF Read
<1>4. CASE Validate(c)
  <2>1. With(file, Target[c], text[c]) \in [Ids -> Texts]
    BY <1>2
  <2>2. seen' \in [Calls -> [Ids -> Texts]] /\ text' \in [Calls -> Texts]
    BY <1>1, <1>4, <2>1 DEF Validate
  <2>3. pc' \in [Calls -> Steps] /\ (\A a \in adrift : pc'[a] = "write")
    BY <1>4 DEF Validate
  <2> QED BY <1>4, <2>2, <2>3 DEF Validate
<1>5. CASE Open(c)
  BY <1>1, <1>2, <1>5 DEF Open
<1>6. CASE Write(c)
  BY <1>1, <1>2, <1>6 DEF Write
<1>7. CASE ReadDocs(c) \/ Document(c)
  BY <1>7 DEF ReadDocs, Document
<1>7a. CASE EmptyDocs(c)
  <2>1. docs' \in [Ids -> Texts]
    BY <1>1, <1>7a DEF EmptyDocs, Emptied
  <2> QED BY <1>7a, <2>1 DEF EmptyDocs
<1>8. CASE FindLog(c)
  BY <1>8 DEF FindLog
<1>9. CASE StartLog(c)
  BY <1>9 DEF StartLog
<1>10. CASE AppendLog(c)
  BY <1>10 DEF AppendLog
<1>11. CASE Load(c)
  BY <1>11 DEF Load
<1>12. CASE Mirror(c)
  BY <1>12 DEF Mirror
<1> QED
  BY <1>3, <1>4, <1>5, <1>6, <1>7, <1>7a, <1>8, <1>9, <1>10, <1>11, <1>12 DEF Call

\* So do the sentry's, a person's and a crash.
LEMMA OtherTyped ==
    ASSUME Typed, (\E h \in Ids : Drop(h)) \/ Scan \/ Quarantine \/ Crash
    PROVE  Typed'
<1> USE DEF Typed, At, folder, calls, OnlyBy
<1>1. \A h \in Ids : \A t \in Texts : With(file, h, t) \in [Ids -> Texts]
  BY DEF With
<1>2. {Absent, Broken, Hostile, {"hand"}} \subseteq Texts
  BY DEF Absent, Broken, Hostile, Texts
<1>3. ASSUME NEW h \in Ids, Drop(h) PROVE Typed'
  <2>1. PICK t \in {Broken, Hostile, {"hand"}} :
           /\ file' = With(file, h, t)
           /\ written' = [written EXCEPT ![h] = @ \cup {t}]
    BY <1>3 DEF Drop
  <2>2. file' \in [Ids -> Texts]
    BY <1>1, <1>2, <2>1
  <2>3. written' \in [Ids -> SUBSET Texts]
    BY <1>2, <2>1
  <2> QED BY <1>3, <2>2, <2>3 DEF Drop
<1>4. CASE Scan
  BY <1>4 DEF Scan, Named
<1>5. CASE Quarantine
  <2>1. target \in Ids
    BY <1>5, PlaybookAssumption DEF Quarantine
  <2> QED BY <1>1, <1>2, <1>5, <2>1 DEF Quarantine
<1>6. CASE Crash
  <2>1. pc' \in [Calls -> Steps] /\ adrift' = {}
    BY <1>6 DEF Crash, Steps, Ended
  <2>2. seen' \in [Calls -> [Ids -> Texts]] /\ text' \in [Calls -> Texts]
    BY <1>2, <1>6, ShippedAssumption DEF Crash
  <2> QED BY <1>6, <2>1, <2>2 DEF Crash
<1> QED BY <1>3, <1>4, <1>5, <1>6

\* What goes into a copy was loaded: only Validate and Load fill a call's
\* hand, each with a catalog that loads.
LEMMA NoneBrokenStep ==
    ASSUME Typed, NoneBroken, Next
    PROVE  NoneBroken'
<1> USE ShippedAssumption, PlaybookAssumption DEF NoneBroken, Typed, folder, calls, At
<1>1. ASSUME NEW c \in Calls, Call(c) PROVE NoneBroken'
  <2>1. CASE \/ Read(c) \/ Open(c) \/ Write(c)
             \/ FindLog(c) \/ StartLog(c) \/ AppendLog(c)
    BY <2>1 DEF Read, Open, Write, FindLog, StartLog, AppendLog
  <2>2. CASE Validate(c)
    BY <2>2 DEF Validate
  <2>3. CASE ReadDocs(c)
    BY <2>3 DEF ReadDocs
  <2>4. CASE EmptyDocs(c)
    <3>1. \A h \in Ids : docs'[h] # Broken
      BY <2>4 DEF EmptyDocs, Emptied, Absent, Broken
    <3> QED BY <2>4, <3>1 DEF EmptyDocs
  <2>5. CASE Document(c)
    BY <2>5 DEF Document, Loads
  <2>6. CASE Load(c)
    BY <2>6 DEF Load
  <2>7. CASE Mirror(c)
    BY <2>7 DEF Mirror, Loads
  <2> QED BY <1>1, <2>1, <2>2, <2>3, <2>4, <2>5, <2>6, <2>7 DEF Call
<1>2. CASE (\E h \in Ids : Drop(h)) \/ Scan \/ Quarantine
  BY <1>2 DEF Drop, Scan, Quarantine
<1>3. CASE Crash
  BY <1>3 DEF Crash
<1>4. CASE UNCHANGED vars
  BY <1>4 DEF vars
<1> QED BY <1>1, <1>2, <1>3, <1>4 DEF Next

\* What goes into a copy was written: the change a call has still to write
\* is written before the call lets go of it.
LEMMA SourcedStep ==
    ASSUME Typed, Sourced, Next
    PROVE  Sourced'
<1> USE ShippedAssumption, PlaybookAssumption
    DEF Sourced, Typed, folder, calls, At, Goto, Then, Ended
<1>1. ASSUME NEW c \in Calls, Call(c) PROVE Sourced'
  <2>1. CASE Read(c)
    BY <2>1 DEF Read
  <2>2. CASE Validate(c)
    <3>1. CASE Goto(c, "refused")
      BY <2>2, <3>1 DEF Validate
    <3>2. CASE ~Goto(c, "refused")
      <4>1. /\ Goto(c, "open") /\ UNCHANGED <<file, docs, table, written, text>>
            /\ seen' = [seen EXCEPT ![c] = With(file, Target[c], text[c])]
            /\ Loads(With(file, Target[c], text[c]))
        BY <2>2, <3>2 DEF Validate
      <4> QED BY <4>1 DEF Loads, With
    <3> QED BY <3>1, <3>2
  <2>3. CASE Open(c)
    BY <2>3 DEF Open, With
  <2>4. CASE Write(c)
    BY <2>4 DEF Write, With
  <2>5. CASE ReadDocs(c)
    BY <2>5 DEF ReadDocs
  <2>5a. CASE EmptyDocs(c)
    BY <2>5a DEF EmptyDocs, Emptied
  <2>5b. CASE Document(c)
    BY <2>5b DEF Document
  <2>6. CASE FindLog(c) \/ StartLog(c) \/ AppendLog(c)
    BY <2>6 DEF FindLog, StartLog, AppendLog
  <2>7. CASE Load(c)
    BY <2>7 DEF Load, Loads
  <2>8. CASE Mirror(c)
    BY <2>8 DEF Mirror
  <2> QED
    BY <1>1, <2>1, <2>2, <2>3, <2>4, <2>5, <2>5a, <2>5b, <2>6, <2>7, <2>8 DEF Call
<1>2. ASSUME NEW h \in Ids, Drop(h) PROVE Sourced'
  <2>1. PICK t : /\ file' = With(file, h, t)
                 /\ written' = [written EXCEPT ![h] = @ \cup {t}]
    BY <1>2 DEF Drop
  <2>2. \A k \in Ids : /\ written[k] \subseteq written'[k]
                      /\ file'[k] \in written'[k] \cup {Absent, Broken}
    BY <2>1 DEF With
  <2> QED BY <1>2, <2>2 DEF Drop
<1>3. CASE Scan
  BY <1>3 DEF Scan
<1>4. CASE Quarantine
  BY <1>4 DEF Quarantine, With
<1>5. CASE Crash
  BY <1>5 DEF Crash
<1>6. CASE UNCHANGED vars
  BY <1>6 DEF vars
<1> QED BY <1>1, <1>2, <1>3, <1>4, <1>5, <1>6 DEF Next

\* A text that carries a call's change stays among those written.
LEMMA CarriedStep ==
    ASSUME Typed, Carried, Next
    PROVE  Carried'
<1> USE ShippedAssumption, PlaybookAssumption
    DEF Carried, After, Typed, folder, calls, At, Goto, Then, Ended
<1>1. ASSUME NEW c \in Calls, Call(c) PROVE Carried'
  <2>1. CASE Read(c)
    BY <2>1 DEF Read
  <2>2. CASE Validate(c)
    BY <2>2 DEF Validate
  <2>3. CASE Open(c)
    BY <2>3 DEF Open
  <2>4. CASE Write(c)
    <3>1. c \in text[c] /\ text[c] \in written'[Target[c]]
      BY <2>4 DEF Write
    <3>2. \A h \in Ids : written[h] \subseteq written'[h]
      BY <2>4 DEF Write
    <3> QED BY <2>4, <3>1, <3>2 DEF Write
  <2>5. CASE ReadDocs(c) \/ EmptyDocs(c) \/ Document(c)
    BY <2>5 DEF ReadDocs, EmptyDocs, Document
  <2>6. CASE FindLog(c)
    BY <2>6 DEF FindLog
  <2>7. CASE StartLog(c)
    BY <2>7 DEF StartLog
  <2>8. CASE AppendLog(c)
    BY <2>8 DEF AppendLog
  <2>9. CASE Load(c)
    BY <2>9 DEF Load
  <2>10. CASE Mirror(c)
    BY <2>10 DEF Mirror
  <2> QED
    BY <1>1, <2>1, <2>2, <2>3, <2>4, <2>5, <2>6, <2>7, <2>8, <2>9, <2>10 DEF Call
<1>2. ASSUME NEW h \in Ids, Drop(h) PROVE Carried'
  <2>1. \A k \in Ids : written[k] \subseteq written'[k]
    BY <1>2 DEF Drop
  <2> QED BY <1>2, <2>1 DEF Drop
<1>3. CASE Scan \/ Quarantine
  BY <1>3 DEF Scan, Quarantine
<1>4. CASE Crash
  BY <1>4 DEF Crash
<1>5. CASE UNCHANGED vars
  BY <1>5 DEF vars
<1> QED BY <1>1, <1>2, <1>3, <1>4, <1>5 DEF Next

\* Only a playbook without a log sends a call to begin one.
LEMMA LinedStep ==
    ASSUME Typed, Lined, Next
    PROVE  Lined'
<1> USE DEF Lined, Typed, folder, calls, At, Goto, Then, Ended
<1>1. ASSUME NEW c \in Calls, Call(c) PROVE Lined'
  <2>1. CASE \/ Read(c) \/ Validate(c) \/ Open(c) \/ Write(c)
             \/ ReadDocs(c) \/ EmptyDocs(c) \/ Document(c)
    BY <2>1 DEF Read, Validate, Open, Write, ReadDocs, EmptyDocs, Document
  <2>2. CASE FindLog(c)
    BY <2>2 DEF FindLog
  <2>3. CASE StartLog(c)
    BY <2>3 DEF StartLog
  <2>4. CASE AppendLog(c)
    BY <2>4 DEF AppendLog
  <2>5. CASE Load(c)
    BY <2>5 DEF Load
  <2>6. CASE Mirror(c)
    BY <2>6 DEF Mirror
  <2> QED BY <1>1, <2>1, <2>2, <2>3, <2>4, <2>5, <2>6 DEF Call
<1>2. CASE (\E h \in Ids : Drop(h)) \/ Scan \/ Quarantine
  BY <1>2 DEF Drop, Scan, Quarantine
<1>3. CASE Crash
  BY <1>3 DEF Crash
<1>4. CASE UNCHANGED vars
  BY <1>4 DEF vars
<1> QED BY <1>1, <1>2, <1>3, <1>4 DEF Next

\* The invariant holds of every state the folder and its writers reach.
THEOREM Invariant == Spec => []PlaybookInv
<1>1. ASSUME PlaybookInv, [Next]_vars PROVE PlaybookInv'
  <2> USE <1>1 DEF PlaybookInv
  <2>1. CASE Next
    <3>1. Typed'
      <4>1. CASE UNCHANGED vars
        BY <4>1 DEF vars, folder, calls, Typed, At
      <4> QED BY <2>1, <4>1, CallTyped, OtherTyped DEF Next
    <3> QED BY <2>1, <3>1, NoneBrokenStep, SourcedStep, CarriedStep, LinedStep
  <2>2. CASE UNCHANGED vars
    BY <2>2 DEF vars, folder, calls, Typed, NoneBroken, Sourced, Carried, Lined, At
  <2> QED BY <1>1, <2>1, <2>2
<1> QED BY <1>1, InvInit, PTL DEF Spec

\* The docs and the table never hold a file half written (what tune._commit
\* validates is what it documents; what _remirror loads is what it mirrors).
THEOREM TypeCorrect == Spec => []TypeOK
<1>1. PlaybookInv => TypeOK
  BY DEF PlaybookInv, Typed, NoneBroken, Lined, TypeOK
<1> QED BY <1>1, Invariant, PTL

\* What the docs, the table and the log say of a strategy was written to its
\* file first (tune._commit's order), whoever was killed on the way.
THEOREM FirstWritten == Spec => []WrittenFirst
<1>1. PlaybookInv => WrittenFirst
  BY DEF PlaybookInv, Typed, Sourced, Carried, WrittenFirst
<1> QED BY <1>1, Invariant, PTL

\* A call that answers has its line, where the playbook came with its log.
THEOREM LinesStay == Spec => []LoggedWhenTold
<1>1. PlaybookInv => LoggedWhenTold
  BY DEF PlaybookInv, Lined, LoggedWhenTold, At
<1> QED BY <1>1, Invariant, PTL

-----------------------------------------------------------------------------
(* Agreement.                                                              *)

\* The docs are without their markers only to a call at work on them, or after
\* a crash.
Emptiness == docs = Emptied => crashes > 0 \/ \E d \in Calls : At(d, "fill")

\* A catalog that loads is not the empty one.
LEMMA LoadsIsNotEmpty == ASSUME NEW f, Loads(f) PROVE f # Emptied
BY DEF Loads, Emptied

\* What empties the docs is at work on them until it fills them or is killed.
LEMMA EmptinessStep ==
    ASSUME Typed, NoneBroken, Emptiness, crashes \in Nat, Next
    PROVE  Emptiness' /\ crashes' \in Nat
<1> USE DEF Emptiness, Typed, folder, calls, At, Goto, Then
<1>1. ASSUME NEW c \in Calls, Call(c) PROVE Emptiness' /\ crashes' \in Nat
  <2>1. CASE \/ Read(c) \/ Validate(c) \/ Open(c) \/ Write(c) \/ ReadDocs(c)
             \/ FindLog(c) \/ StartLog(c) \/ AppendLog(c) \/ Load(c) \/ Mirror(c)
    <3>1. docs' = docs /\ crashes' = crashes /\ pc[c] # "fill"
          /\ \A d \in Calls : d # c => pc'[d] = pc[d]
      BY <2>1 DEF Read, Validate, Open, Write, ReadDocs, FindLog, StartLog, AppendLog,
                  Load, Mirror
    <3> QED BY <3>1
  <2>2. CASE EmptyDocs(c)
    BY <2>2 DEF EmptyDocs
  <2>3. CASE Document(c)
    <3>1. docs' = seen[c] /\ crashes' = crashes
      BY <2>3 DEF Document
    <3>2. docs' # Emptied
      BY <3>1, LoadsIsNotEmpty DEF NoneBroken
    <3>3. Emptied' = Emptied
      BY DEF Emptied
    <3> QED BY <3>1, <3>2, <3>3
  <2> QED BY <1>1, <2>1, <2>2, <2>3 DEF Call
<1>2. CASE (\E h \in Ids : Drop(h)) \/ Scan \/ Quarantine
  BY <1>2 DEF Drop, Scan, Quarantine
<1>3. CASE Crash
  BY <1>3 DEF Crash
<1>4. CASE UNCHANGED vars
  BY <1>4 DEF vars
<1> QED BY <1>1, <1>2, <1>3, <1>4 DEF Next

\* What a call that nobody has touched holds is what the folder has, step by
\* step; while it writes, its file is its own and still has its name.
Untouched ==
    \A c \in alone :
        /\ pc[c] \in {"open", "write"} => seen[c] = With(file, Target[c], text[c])
        /\ pc[c] = "write" => file[Target[c]] = Broken /\ c \notin adrift
        /\ pc[c] \in {"docs", "empty", "fill"} => seen[c] = file
        /\ pc[c] \in {"log", "header", "append", "load", "mirror"}
              => docs = file /\ Loads(file)
        /\ pc[c] = "mirror" => seen[c] = file

\* A step of somebody else either leaves an untouched call's folder as it was,
\* or ends its being untouched.
LEMMA UntouchedStep ==
    ASSUME Typed, NoneBroken, Untouched, Next
    PROVE  Untouched'
<1> USE PlaybookAssumption
    DEF Untouched, Typed, folder, calls, At, Goto, Then, Ended, OnlyBy
<1>1. ASSUME NEW c \in Calls, Call(c) PROVE Untouched'
  <2>1. CASE Read(c)
    BY <2>1 DEF Read
  <2>2. CASE Validate(c)
    BY <2>2 DEF Validate
  <2>3. CASE Open(c)
    <3>1. With(file', Target[c], text[c]) = With(file, Target[c], text[c])
          /\ file'[Target[c]] = Broken
      BY <2>3 DEF Open, With
    <3>2. alone' \subseteq {c} /\ c \notin adrift
      BY <2>3 DEF Open
    <3> QED BY <2>3, <3>1, <3>2 DEF Open
  <2>4. CASE Write(c)
    BY <2>4 DEF Write
  <2>5. CASE ReadDocs(c) \/ EmptyDocs(c)
    BY <2>5 DEF ReadDocs, EmptyDocs
  <2>6. CASE Document(c)
    <3>1. Loads(seen[c])
      BY DEF NoneBroken
    <3> QED BY <2>6, <3>1 DEF Document
  <2>7. CASE FindLog(c) \/ StartLog(c) \/ AppendLog(c)
    BY <2>7 DEF FindLog, StartLog, AppendLog
  <2>8. CASE Load(c)
    BY <2>8 DEF Load
  <2>9. CASE Mirror(c)
    BY <2>9 DEF Mirror
  <2> QED BY <1>1, <2>1, <2>2, <2>3, <2>4, <2>5, <2>6, <2>7, <2>8, <2>9 DEF Call
<1>2. CASE (\E h \in Ids : Drop(h)) \/ Scan
  BY <1>2 DEF Drop, Scan
<1>3. CASE Quarantine
  <2>1. CASE file[target] = Absent
    <3>1. file' = file
      BY <1>3, <2>1 DEF Quarantine, With
    <3>2. \A c \in alone : c \notin adrift' \/ pc[c] # "write" \/ c \in adrift
      BY <1>3, <2>1 DEF Quarantine, Absent, Broken
    <3> QED BY <1>3, <2>1, <3>1, <3>2 DEF Quarantine
  <2>2. CASE file[target] # Absent
    BY <1>3, <2>2 DEF Quarantine
  <2> QED BY <2>1, <2>2
<1>4. CASE Crash
  BY <1>4 DEF Crash
<1>5. CASE UNCHANGED vars
  BY <1>5 DEF vars
<1> QED BY <1>1, <1>2, <1>3, <1>4, <1>5 DEF Next

\* Only the mirror's own step answers; only docs without markers, and files that
\* do not load, fail a call, each at its own step.
LEMMA EndsBy ==
    ASSUME Typed, NEW c \in Calls, pc[c] \notin Ended, Next
    PROVE  /\ pc'[c] = "replied" => Mirror(c)
           /\ pc'[c] = "failed" =>
                 (At(c, "docs") /\ docs = Emptied) \/ (At(c, "load") /\ ~Loads(file))
<1> USE DEF At, Goto, Typed, calls, Then, Ended
<1> DEFINE Goes == pc'[c] \in {"replied", "failed"}
<1>1. ASSUME NEW d \in Calls, d # c, Goes PROVE ~Call(d)
  BY <1>1 DEF Call, Read, Validate, Open, Write, ReadDocs, EmptyDocs, Document, FindLog,
              StartLog, AppendLog, Load, Mirror
<1>2. Goes => ~((\E h \in Ids : Drop(h)) \/ Scan \/ Quarantine)
  BY DEF Drop, Scan, Quarantine
<1>3. Goes => ~Crash
  BY DEF Crash
<1>4. Goes => ~UNCHANGED vars
  BY DEF vars
<1>5. Goes => Call(c)
  BY <1>1, <1>2, <1>3, <1>4 DEF Next
<1>6. Goes => ReadDocs(c) \/ Load(c) \/ Mirror(c)
  BY <1>5 DEF Call, Read, Validate, Open, Write, EmptyDocs, Document, FindLog,
              StartLog, AppendLog
<1>7. CASE Mirror(c)
  BY <1>7 DEF Mirror
<1>8. CASE ReadDocs(c)
  BY <1>8 DEF ReadDocs
<1>9. CASE Load(c)
  BY <1>9 DEF Load
<1>10. CASE ~Goes
  BY <1>10
<1> QED BY <1>6, <1>7, <1>8, <1>9, <1>10

\* A call that met nobody else's write leaves the files, the docs and the table
\* telling the same catalog, or fails over docs without their markers, which a
\* call at work on them or a crash left so (tune._commit, db.embed).
THEOREM CopiesAgree == Spec => Settles
<1> DEFINE Held == Untouched /\ Emptiness /\ crashes \in Nat
<1>1. Init => Held
  BY LoadsIsNotEmpty, ShippedAssumption DEF Init, Untouched, Emptiness
<1>2. ASSUME PlaybookInv, Held, [Next]_vars PROVE Held'
  <2>1. CASE UNCHANGED vars
    BY <1>2, <2>1 DEF vars, folder, calls, Untouched, Emptiness, At
  <2> QED BY <1>2, <2>1, UntouchedStep, EmptinessStep DEF PlaybookInv
<1>3. ASSUME PlaybookInv, Held, [Next]_vars
      PROVE  [\A c \in alone : pc[c] \notin Ended =>
                 /\ pc'[c] = "replied" => docs' = file' /\ table' = file'
                 /\ pc'[c] = "failed" =>
                        docs = Emptied /\ (crashes > 0 \/ \E d \in Calls : At(d, "fill"))]_vars
  <2> SUFFICES ASSUME Next, NEW c \in alone, pc[c] \notin Ended
               PROVE  /\ pc'[c] = "replied" => docs' = file' /\ table' = file'
                      /\ pc'[c] = "failed" =>
                             docs = Emptied /\ (crashes > 0 \/ \E d \in Calls : At(d, "fill"))
    BY <1>3
  <2>1. c \in Calls
    BY <1>3 DEF PlaybookInv, Typed
  <2>2. pc'[c] = "replied" => docs' = file' /\ table' = file'
    <3> HAVE pc'[c] = "replied"
    <3>1. Mirror(c)
      BY <1>3, <2>1, EndsBy DEF PlaybookInv
    <3> QED BY <1>3, <3>1 DEF Mirror, Untouched, At
  <2>3. pc'[c] = "failed" =>
            docs = Emptied /\ (crashes > 0 \/ \E d \in Calls : At(d, "fill"))
    <3> HAVE pc'[c] = "failed"
    <3>1. docs = Emptied
      BY <1>3, <2>1, EndsBy DEF PlaybookInv, Untouched, At
    <3> QED BY <1>3, <3>1 DEF Emptiness
  <2> QED BY <2>2, <2>3
<1> QED BY <1>1, <1>2, <1>3, Invariant, PTL DEF Spec, Settles
=============================================================================
