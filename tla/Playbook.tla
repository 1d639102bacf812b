------------------------------ MODULE Playbook ------------------------------
(***************************************************************************)
(* The playbook's files and who changes them: the three writers of the     *)
(* door (tune, add_strategy, infer_strategy), each a read, a check of the  *)
(* whole catalog, a rewrite in place, the docs, the log and the database's *)
(* copy (inference.tune._commit, door.mcp.playbook._remirror); a person    *)
(* with an editor; and the sentry, which renames what will not load        *)
(* (door.sentry.quarantine_playbook).  They share no lock.                 *)
(*                                                                         *)
(* A file's text is the set of changes it carries.  A file opened for      *)
(* writing is empty until the handle closes: a strategy's does not load,   *)
(* and docs/inference.md has no markers to write between.                  *)
(***************************************************************************)
EXTENDS Integers, FiniteSets

CONSTANTS
    Ids,            \* the strategies, numbered in the order of their names
    Calls,          \* the calls of the writers
    Target, Adds,   \* the strategy of each; the calls that create theirs
    Shipped,        \* the files at the start
    MaxDrops,       \* bound: a person's edits
    MaxCrashes      \* bound: how often the server is killed

ASSUME PlaybookAssumption ==
    /\ Ids \subseteq Nat /\ Target \in [Calls -> Ids]
    /\ Adds \subseteq Calls
    /\ {MaxDrops, MaxCrashes} \subseteq Nat

VARIABLES
    file,       \* each strategy's text, Absent, or Broken
    docs,       \* the catalog as docs/inference.md holds it, or Emptied
    table,      \* the catalog as the strategies table holds it
    log,        \* the calls with a line in tuning-log.md
    hasLog,     \* whether the log file exists
    pc,         \* the step each call is at
    text,       \* the text each call is writing
    seen,       \* the catalog each call last loaded
    adrift,     \* open handles whose file was renamed under them
    target,     \* the strategy the sentry is about to rename; 0 when none
    drops, crashes,
    alone,      \* history: the calls nobody else's write has touched
    written,    \* history: every text each strategy was written with
    bare        \* history: whether the playbook started without its log

folder == <<file, docs, table, log, hasLog>>
calls  == <<pc, text, seen>>
vars   == <<folder, calls, adrift, target, drops, crashes, alone, written, bare>>

Absent  == {"absent"}
Broken  == {"broken"}
Hostile == {"hostile"}      \* it loads, and its prose reads like an instruction

Whole(t) == t \notin {Absent, Broken}

\* What a text can carry: a call's change, a person's, or one of the marks.
Texts == SUBSET (Calls \cup {"absent", "broken", "hostile", "hand"})

Loads(f) == (\A h \in Ids : f[h] # Broken) /\ (\E h \in Ids : f[h] # Absent)
With(f, h, t) == [f EXCEPT ![h] = t]

\* The shipped playbook loads.
ASSUME ShippedAssumption == Shipped \in [Ids -> Texts] /\ Loads(Shipped)

\* The docs opened for writing: no catalog that loads is empty.
Emptied == [h \in Ids |-> Absent]

\* Mutant: the docs are written before the file.
DocsFirst == [validate |-> "docs", docs |-> "empty", empty |-> "fill", fill |-> "open",
              open |-> "write", write |-> "log"]

\* The order _commit writes in, after the whole catalog has loaded.
Then == [validate |-> "open", open |-> "write", write |-> "docs", docs |-> "empty",
         empty |-> "fill", fill |-> "log"]

At(c, step) == pc[c] = step
Goto(c, step) == pc' = [pc EXCEPT ![c] = step]

\* Whoever else is at work no longer has the folder to itself.
OnlyBy(S) == alone' = alone \cap S

Init ==
    /\ file = Shipped /\ docs = Shipped /\ table = Shipped
    /\ log = {} /\ hasLog \in BOOLEAN /\ bare = ~hasLog
    /\ pc = [c \in Calls |-> "asked"]
    /\ text = [c \in Calls |-> Absent] /\ seen = [c \in Calls |-> Shipped]
    /\ adrift = {} /\ target = 0 /\ drops = 0 /\ crashes = 0 /\ alone = {}
    /\ written = [h \in Ids |-> {Shipped[h]}]

-----------------------------------------------------------------------------
(* A call of a writer. *)

\* tune and infer_strategy edit what the file holds, and refuse a file without
\* frontmatter; add_strategy refuses a path that exists.
Read(c) ==
    LET now == file[Target[c]]
    IN  /\ At(c, "asked")
        /\ \/ /\ IF c \in Adds THEN now = Absent ELSE Whole(now)
              /\ text' = [text EXCEPT ![c] = IF c \in Adds THEN {c} ELSE now \cup {c}]
              /\ Goto(c, "validate")
           \/ /\ IF c \in Adds THEN now # Absent ELSE ~Whole(now)
              /\ Goto(c, "refused") /\ UNCHANGED text
        /\ alone' = alone \cup {c}
        /\ UNCHANGED <<folder, seen, adrift, target, drops, crashes, written, bare>>

\* The catalog is loaded with the new text in a copy; it may refuse the change
\* itself, and refuses every change while another file does not load.
Validate(c) ==
    LET copy == With(file, Target[c], text[c])
    IN  /\ At(c, "validate")
        /\ \/ /\ Loads(copy)
              /\ seen' = [seen EXCEPT ![c] = copy] /\ Goto(c, Then["validate"])
              /\ UNCHANGED text
           \/ /\ text' = [text EXCEPT ![c] = Absent]
              /\ Goto(c, "refused") /\ UNCHANGED seen
        /\ UNCHANGED <<folder, adrift, target, drops, crashes, alone, written, bare>>

\* open(path, "w") empties the file.
Open(c) ==
    /\ At(c, "open")
    /\ file' = With(file, Target[c], Broken) /\ Goto(c, Then["open"])
    /\ OnlyBy({c})
    /\ UNCHANGED <<docs, table, log, hasLog, text, seen, adrift, target, drops, crashes,
                   written, bare>>

\* The text lands where the handle points: in the renamed file, if it was renamed.
Write(c) ==
    /\ At(c, "write")
    /\ file' = IF c \in adrift THEN file ELSE With(file, Target[c], text[c])
    /\ adrift' = adrift \ {c}
    /\ written' = [written EXCEPT ![Target[c]] = @ \cup {text[c]}]
    /\ Goto(c, Then["write"]) /\ OnlyBy({c}) /\ text' = [text EXCEPT ![c] = Absent]
    /\ UNCHANGED <<docs, table, log, hasLog, seen, target, drops, crashes, bare>>

\* db.embed reads the docs it writes between the markers of; without them it
\* raises, and the call ends there: its file written, nothing logged or mirrored.
ReadDocs(c) ==
    /\ At(c, "docs")
    /\ IF docs # Emptied
       THEN Goto(c, Then["docs"]) /\ UNCHANGED seen
       ELSE Goto(c, "failed") /\ seen' = [seen EXCEPT ![c] = Shipped]
    /\ UNCHANGED <<folder, text, adrift, target, drops, crashes, alone, written, bare>>

\* open(path, "w") empties the docs too.
EmptyDocs(c) ==
    /\ At(c, "empty")
    /\ docs' = Emptied /\ Goto(c, Then["empty"]) /\ OnlyBy({c})
    /\ UNCHANGED <<file, table, log, hasLog, text, seen, adrift, target, drops, crashes,
                   written, bare>>

\* Mutant: the docs are regenerated for a new strategy only.
DocumentAdded(c) ==
    /\ At(c, "fill")
    /\ docs' = IF c \in Adds THEN seen[c] ELSE Shipped
    /\ Goto(c, Then["fill"]) /\ OnlyBy({c})
    /\ seen' = [seen EXCEPT ![c] = Shipped]
    /\ UNCHANGED <<file, table, log, hasLog, text, adrift, target, drops, crashes,
                   written, bare>>

\* The docs are rewritten from the catalog that was validated.
Document(c) ==
    /\ At(c, "fill")
    /\ docs' = seen[c] /\ Goto(c, Then["fill"]) /\ OnlyBy({c})
    /\ seen' = [seen EXCEPT ![c] = Shipped]
    /\ UNCHANGED <<file, table, log, hasLog, text, adrift, target, drops, crashes,
                   written, bare>>

FindLog(c) ==
    /\ At(c, "log")
    /\ Goto(c, IF hasLog THEN "append" ELSE "header")
    /\ UNCHANGED <<folder, text, seen, adrift, target, drops, crashes, alone, written, bare>>

\* A new log is opened for writing, whoever has begun one since.
StartLog(c) ==
    /\ At(c, "header")
    /\ log' = {} /\ hasLog' = TRUE /\ Goto(c, "append")
    /\ UNCHANGED <<file, docs, table, text, seen, adrift, target, drops, crashes, alone,
                   written, bare>>

\* Mutant: the log is rewritten with this call's line.
AppendOver(c) ==
    /\ At(c, "append")
    /\ log' = {c} /\ hasLog' = TRUE /\ Goto(c, "load")
    /\ UNCHANGED <<file, docs, table, text, seen, adrift, target, drops, crashes, alone,
                   written, bare>>

AppendLog(c) ==
    /\ At(c, "append")
    /\ log' = log \cup {c} /\ hasLog' = TRUE /\ Goto(c, "load")
    /\ UNCHANGED <<file, docs, table, text, seen, adrift, target, drops, crashes, alone,
                   written, bare>>

\* Mutant: a catalog that does not load is mirrored all the same.
LoadAnyway(c) ==
    /\ At(c, "load")
    /\ seen' = [seen EXCEPT ![c] = file] /\ Goto(c, "mirror")
    /\ UNCHANGED <<folder, text, adrift, target, drops, crashes, alone, written, bare>>

\* The files are loaded again for the database; one that does not load fails
\* the call, its change written and logged.
Load(c) ==
    /\ At(c, "load")
    /\ IF Loads(file)
       THEN seen' = [seen EXCEPT ![c] = file] /\ Goto(c, "mirror")
       ELSE Goto(c, "failed") /\ seen' = [seen EXCEPT ![c] = Shipped]
    /\ UNCHANGED <<folder, text, adrift, target, drops, crashes, alone, written, bare>>

\* One transaction; the row of the source keeps two of them apart.
Mirror(c) ==
    /\ At(c, "mirror")
    /\ table' = seen[c] /\ Goto(c, "replied") /\ OnlyBy({c})
    /\ seen' = [seen EXCEPT ![c] = Shipped]
    /\ UNCHANGED <<file, docs, log, hasLog, text, adrift, target, drops, crashes,
                   written, bare>>

Call(c) ==
    \/ Read(c) \/ Validate(c) \/ Open(c) \/ Write(c)
    \/ ReadDocs(c) \/ EmptyDocs(c) \/ Document(c)
    \/ FindLog(c) \/ StartLog(c) \/ AppendLog(c) \/ Load(c) \/ Mirror(c)

-----------------------------------------------------------------------------
(* The sentry, a person, and a crash. *)

\* Mutant: a catalog that does not load ends the pass.
NamedWhenLoaded == {h \in Ids : Loads(file) /\ Hostile \subseteq file[h]}

\* A file the catalog names as broken, the first by name, or a hostile one.
Named ==
    IF \E h \in Ids : file[h] = Broken
    THEN {h \in Ids : file[h] = Broken /\ \A k \in Ids : file[k] = Broken => h <= k}
    ELSE {h \in Ids : Hostile \subseteq file[h]}

Scan ==
    /\ target = 0
    /\ \E h \in Named : target' = h
    /\ UNCHANGED <<folder, calls, adrift, drops, crashes, alone, written, bare>>

\* os.replace takes whatever the name holds by now, with the handles open on it.
Quarantine ==
    /\ target # 0
    /\ file' = With(file, target, Absent)
    /\ adrift' = adrift \cup {c \in Calls : At(c, "write") /\ Target[c] = target}
    /\ target' = 0
    /\ IF file[target] = Absent THEN UNCHANGED alone ELSE OnlyBy({})
    /\ UNCHANGED <<docs, table, log, hasLog, calls, drops, crashes, written, bare>>

\* Somebody saves a file into the folder: one that loads, one that does not, or
\* one that reads like an instruction.
Drop(h) ==
    /\ drops < MaxDrops
    /\ \E t \in {Broken, Hostile, {"hand"}} :
        /\ file' = With(file, h, t)
        /\ written' = [written EXCEPT ![h] = @ \cup {t}]
    /\ drops' = drops + 1 /\ OnlyBy({})
    /\ UNCHANGED <<docs, table, log, hasLog, calls, adrift, target, crashes, bare>>

Ended == {"replied", "refused", "failed", "dead"}

\* The server is killed: its calls end where they are.
Crash ==
    /\ crashes < MaxCrashes /\ crashes' = crashes + 1
    /\ pc' = [c \in Calls |-> IF pc[c] \in Ended \cup {"asked"} THEN pc[c] ELSE "dead"]
    /\ adrift' = {} /\ seen' = [c \in Calls |-> Shipped]
    /\ text' = [c \in Calls |-> Absent]
    /\ UNCHANGED <<folder, target, drops, alone, written, bare>>

Next ==
    \/ \E c \in Calls : Call(c)
    \/ \E h \in Ids : Drop(h)
    \/ Scan \/ Quarantine \/ Crash
    \/ (\A c \in Calls : pc[c] \in Ended) /\ UNCHANGED vars

Spec     == Init /\ [][Next]_vars
FairSpec == Spec /\ WF_vars(Scan \/ Quarantine) /\ \A c \in Calls : WF_vars(Call(c))

-----------------------------------------------------------------------------
(* What the playbook promises. *)

\* The docs and the table hold catalogs that loaded, never a strategy half
\* written.
TypeOK ==
    /\ \A h \in Ids : Broken \notin {docs[h], table[h]}
    /\ log \subseteq Calls /\ adrift \subseteq {c \in Calls : At(c, "write")}
    /\ target \in Ids \cup {0} /\ alone \subseteq Calls
    /\ \A c \in Calls : At(c, "append") => hasLog \/ bare

\* Whatever the docs, the table and the log say of a strategy was written to its
\* file first, whoever was killed on the way (tune._commit's one write order).
WrittenFirst ==
    /\ \A h \in Ids : {docs[h], table[h]} \subseteq written[h] \cup {Absent}
    /\ \A c \in log : \E t \in written[Target[c]] : c \in t

\* A call that answers has its line, where the playbook came with its log
\* (tune._log): the lines of the others survive it.
LoggedWhenTold == ~bare => \A c \in Calls : At(c, "replied") => c \in log

\* A call that met nobody else's write leaves the files, the docs and the table
\* telling the same catalog, whatever an earlier crash left of the files - or it
\* fails, and only because the docs had lost their markers, to a call at work
\* on them or one killed there (inference.tune._document, db.embed).
Settles ==
    [][\A c \in alone : pc[c] \notin Ended =>
            /\ pc'[c] = "replied" => docs' = file' /\ table' = file'
            /\ pc'[c] = "failed" =>
                   docs = Emptied /\ (crashes > 0 \/ \E d \in Calls : At(d, "fill"))]_vars

\* A file left half written, by a call or a crash, does not keep the playbook
\* from loading for ever.
BrokenGoes == \A h \in Ids : (file[h] = Broken) ~> (file[h] # Broken)

\* The sentry takes only what will not load or reads like an instruction
\* (door/sentry.py, the playbook).
TakesOnlyBad ==
    [][\A h \in Ids : file[h] # Absent /\ file'[h] = Absent
            => file[h] = Broken \/ Hostile \subseteq file[h]]_vars
=============================================================================
