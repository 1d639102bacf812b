------------------------------ MODULE Matches -------------------------------
(***************************************************************************)
(* The owner's recorded matches across db_rebuild.  A rebuild copies the   *)
(* matches to the kept-matches.json file, drops every table, applies the   *)
(* migrations, refills the roster from the sources and writes the matches  *)
(* back.  Meanwhile record_match and delete_match run in transactions of   *)
(* their own, the sources rename and drop heroes, a sync_all may refresh   *)
(* the roster, and any step of a rebuild may be its last.                  *)
(*                                                                         *)
(* A match keeps of its row what decides its fate: its id, which game it   *)
(* is, and the hero name it was read with.  A game stands for everything   *)
(* the owner entered; HeroOf picks the hero whose name decides whether the *)
(* refilled roster can still name the match.                               *)
(***************************************************************************)
EXTENDS Integers, FiniteSets

CONSTANTS
    Games,              \* the games the owner may record
    Heroes,             \* the heroes of the sources' roster
    Spellings,          \* the spellings one hero_key folds together
    HeroOf,             \* the hero a game's match names
    Gone,               \* the roster does not hold the hero
    Rebuilders,         \* the processes that may run db_rebuild
    OwnerWaits,         \* the owner records nothing during a rebuild
    OneAtATime,         \* no rebuild starts while another runs
    FailPoints,         \* the program points where a rebuild may die
    MaxId,              \* bound: the ids the identity hands out
    MaxRebuilds,        \* bound: the rebuilds begun
    MaxFailures,        \* bound: the rebuilds that die
    MaxChanges          \* bound: the renames and removals at the sources

ASSUME MatchesAssumption ==
    /\ HeroOf \in [Games -> Heroes]
    /\ Gone \notin Spellings
    /\ OwnerWaits \in BOOLEAN
    /\ OneAtATime \in BOOLEAN
    /\ MaxId \in Nat
    /\ MaxRebuilds \in Nat
    /\ MaxFailures \in Nat
    /\ MaxChanges \in Nat

VARIABLES
    rows,               \* the committed matches: [id, game]
    hasTable,           \* the matches table exists
    seq,                \* the last value of the match_id identity
    roster,             \* the heroes table: how each hero is spelled, or Gone
    open,               \* record_match transactions: rows not yet committed
    site,               \* what the sources publish, as roster is written
    fileState,          \* kept-matches.json: "absent", "torn" or "whole"
    fileKept,           \* the matches the whole file holds
    pc,                 \* where each rebuild is
    locks,              \* the rebuilds whose open transaction read `matches`
    kept,               \* the matches each rebuild holds
    todo,               \* those it has still to write back
    left,               \* those the roster can no longer name
    taken,              \* the ids it knows the table holds
    stored,             \* its uncommitted rows
    entry,              \* history: "new", "recorded" or "deleted" for a game
    twinned,            \* history: how a rebuild that died left a game in the
                        \* file and the table both: "no", "alike" or "unlike"
    spelt,              \* history: how the sources have spelled each hero
    begun,              \* how many rebuilds began,
    failures, changes   \* how many died, how often a source changed

database == <<rows, hasTable, seq, roster>>
file     == <<fileState, fileKept>>
counters == <<begun, failures, changes>>
locals   == <<kept, todo, left, taken, stored>>
history  == <<entry, twinned, spelt>>
vars     == <<rows, hasTable, seq, roster, open, site, fileState, fileKept, pc,
              locks, kept, todo, left, taken, stored, entry, twinned, spelt, begun,
              failures, changes>>

Names  == Spellings \cup {Gone}
Row    == [id : Nat, game : Games]
Match  == [id : Nat, game : Games, name : Spellings]
Points == {"idle", "read", "keeping", "writing", "kept", "queued",
           "dropped", "applied", "filled", "restoring", "committed", "rewriting"}

ASSUME FailPointsAssumption == FailPoints \subseteq Points \ {"idle"}

IdsOf(S)   == {x.id : x \in S}
GamesOf(S) == {x.game : x \in S}
Idle       == \A r \in Rebuilders : pc[r] = "idle"

\* The uncommitted rows of the restores under way.
Restoring == UNION {stored[r] : r \in Rebuilders}

\* No drop but r's own is queued for the tables: a queued drop holds back
\* every reader and writer that comes after it.
TablesFree(r) == \A s \in Rebuilders \ {r} : pc[s] # "queued"

\* A record_match, a delete_match or a db_migrate may begin.
OwnerMayAct ==
    /\ OwnerWaits => Idle
    /\ \A r \in Rebuilders : pc[r] # "queued"

-----------------------------------------------------------------------------
(* The state of a database that has been built and filled, with no match   *)
(* recorded yet; one built before migration 024 has no matches table.      *)
Init ==
    /\ rows = {}
    /\ hasTable \in BOOLEAN
    /\ seq = 0
    /\ site \in [Heroes -> Spellings]
    /\ roster = site
    /\ open = {}
    /\ fileState = "absent"
    /\ fileKept = {}
    /\ pc = [r \in Rebuilders |-> "idle"]
    /\ locks = {}
    /\ kept = [r \in Rebuilders |-> {}]
    /\ todo = [r \in Rebuilders |-> {}]
    /\ left = [r \in Rebuilders |-> {}]
    /\ taken = [r \in Rebuilders |-> {}]
    /\ stored = [r \in Rebuilders |-> {}]
    /\ entry = [g \in Games |-> "new"]
    /\ twinned = [g \in Games |-> "no"]
    /\ spelt = [h \in Heroes |-> {site[h]}]
    /\ begun = 0
    /\ failures = 0
    /\ changes = 0

-----------------------------------------------------------------------------
(* The owner's tools.                                                      *)

\* record_match up to its INSERT: the table is there, the roster names the
\* match, and the identity hands out the next id.  An id the table already
\* holds fails the INSERT; one another transaction has inserted is waited for.
RecordInsert(g) ==
    /\ OwnerMayAct
    /\ entry[g] = "new"
    /\ g \notin GamesOf(open)
    /\ hasTable
    /\ roster[HeroOf[g]] # Gone
    /\ seq < MaxId
    /\ seq + 1 \notin IdsOf(open) \cup IdsOf(Restoring)
    /\ seq' = seq + 1
    /\ open' = IF seq' \in IdsOf(rows) THEN open
               ELSE open \cup {[id |-> seq', game |-> g]}
    /\ UNCHANGED <<rows, hasTable, roster, site, file, pc, locks, locals, history,
                   counters>>

\* record_match's commit, after which the owner is told the match is recorded.
RecordCommit(g) ==
    \E row \in open :
        /\ row.game = g
        /\ rows' = rows \cup {row}
        /\ open' = open \ {row}
        /\ entry' = [entry EXCEPT ![g] = "recorded"]
        /\ UNCHANGED <<hasTable, seq, roster, site, file, pc, locks, locals,
                       twinned, spelt, counters>>

\* record_match dies before its commit: the row rolls back, the id is spent.
RecordAbort(g) ==
    /\ g \in GamesOf(open)
    /\ failures < MaxFailures
    /\ open' = {row \in open : row.game # g}
    /\ failures' = failures + 1
    /\ UNCHANGED <<database, site, file, pc, locks, locals, history, begun, changes>>

\* delete_match: a match the table holds, deleted in one transaction.
DeleteMatch(row) ==
    /\ OwnerMayAct
    /\ row \in rows
    /\ rows' = rows \ {row}
    /\ entry' = [entry EXCEPT ![row.game] = "deleted"]
    /\ UNCHANGED <<hasTable, seq, roster, open, site, file, pc, locks, locals,
                   twinned, spelt, counters>>

\* db_migrate brings a database without the matches table to it.
Migrate ==
    /\ OwnerMayAct
    /\ ~hasTable
    /\ hasTable' = TRUE
    /\ rows' = {}
    /\ seq' = 0
    /\ UNCHANGED <<roster, open, site, file, pc, locks, locals, history, counters>>

-----------------------------------------------------------------------------
(* The sources, and the pulls that follow them.                            *)

\* A source respells a hero, stops listing it, or lists it again.
Publish(h, name) ==
    /\ changes < MaxChanges
    /\ name # site[h]
    /\ site' = [site EXCEPT ![h] = name]
    /\ spelt' = [spelt EXCEPT ![h] = @ \cup ({name} \ {Gone})]
    /\ changes' = changes + 1
    /\ UNCHANGED <<database, open, file, pc, locks, locals, entry, twinned, begun,
                   failures>>

\* Mutant: the pull deletes the heroes no longer listed.
PulledOnlyListed == site

\* The heroes upsert: a listed hero takes its published spelling, and a hero
\* no longer listed keeps its row.
Pulled == [h \in Heroes |-> IF site[h] = Gone THEN roster[h] ELSE site[h]]

\* pull_heroes of a refresh or a shell, outside any rebuild.
PullHeroes ==
    /\ hasTable
    /\ \A r \in Rebuilders : pc[r] # "queued"
    /\ roster' = Pulled
    /\ UNCHANGED <<rows, hasTable, seq, open, site, file, pc, locks, locals,
                   history, counters>>

-----------------------------------------------------------------------------
(* db_rebuild, one action per commit, file operation or read.              *)

Goto(r, point) == pc' = [pc EXCEPT ![r] = point]

\* The rebuild returns or raises: a transaction still open rolls back, and
\* what the rebuild held in memory goes with it.
Ends(r) ==
    /\ Goto(r, "idle")
    /\ locks' = locks \ {r}
    /\ kept' = [kept EXCEPT ![r] = {}]
    /\ todo' = [todo EXCEPT ![r] = {}]
    /\ left' = [left EXCEPT ![r] = {}]
    /\ taken' = [taken EXCEPT ![r] = {}]
    /\ stored' = [stored EXCEPT ![r] = {}]

\* _keep_matches reads the file a failed rebuild left.  A torn file does not
\* parse, and the rebuild ends here.
ReadKept(r) ==
    /\ pc[r] = "idle"
    /\ OneAtATime => Idle
    /\ OwnerWaits => open = {}
    /\ begun < MaxRebuilds
    /\ begun' = begun + 1
    /\ fileState # "torn"
    /\ kept' = [kept EXCEPT ![r] = fileKept]
    /\ Goto(r, "read")
    /\ UNCHANGED <<database, open, site, file, locks, todo, left, taken, stored,
                   history, failures, changes>>

\* A match as load_matches reads it: the hero's name as the roster spells it.
Loaded == {[id |-> row.id, game |-> row.game, name |-> roster[HeroOf[row.game]]] :
              row \in rows}

\* Mutant: the database's matches replace the file's.
MergedOver(r) == IF Loaded = {} THEN kept[r] ELSE Loaded

\* The matches the file held, then the database's that it did not.
Merged(r) == kept[r] \cup Loaded

\* _keep_matches adds the database's matches to the file's.
LoadMatches(r) ==
    /\ pc[r] = "read"
    /\ TablesFree(r)
    /\ kept' = [kept EXCEPT ![r] = Merged(r)]
    /\ locks' = IF hasTable THEN locks \cup {r} ELSE locks
    /\ Goto(r, IF kept'[r] = {} THEN "kept" ELSE "keeping")
    /\ UNCHANGED <<database, open, site, file, todo, left, taken, stored, history,
                   counters>>

\* _write_kept opens the file for writing, which empties it ...
TruncateKept(r) ==
    /\ pc[r] = "keeping"
    /\ fileState' = "torn"
    /\ fileKept' = {}
    /\ Goto(r, "writing")
    /\ UNCHANGED <<database, open, site, locks, locals, history, counters>>

\* ... and writes what the rebuild holds.
WriteKept(r) ==
    /\ pc[r] = "writing"
    /\ fileState' = "whole"
    /\ fileKept' = kept[r]
    /\ Goto(r, "kept")
    /\ UNCHANGED <<database, open, site, locks, locals, history, counters>>

\* drop_all asks for every table exclusively ...
QueueDrop(r) ==
    /\ pc[r] = "kept"
    /\ Goto(r, "queued")
    /\ UNCHANGED <<database, open, site, file, locks, locals, history, counters>>

\* Mutant: the tables are dropped over a connection of its own, while the
\* transaction that read them is open.
DropElsewhere(r) ==
    /\ pc[r] = "queued"
    /\ open = {}
    /\ locks = {}
    /\ \A s \in Rebuilders \ {r} : pc[s] # "restoring"
    /\ rows' = {}
    /\ hasTable' = FALSE
    /\ seq' = 0
    /\ roster' = [h \in Heroes |-> Gone]
    /\ UNCHANGED locks
    /\ Goto(r, "dropped")
    /\ UNCHANGED <<open, site, file, locals, history, counters>>

\* ... and has them once the transactions that read or wrote them are over.
DropAll(r) ==
    /\ pc[r] = "queued"
    /\ open = {}
    /\ locks \subseteq {r}
    /\ \A s \in Rebuilders \ {r} : pc[s] # "restoring"
    /\ rows' = {}
    /\ hasTable' = FALSE
    /\ seq' = 0
    /\ roster' = [h \in Heroes |-> Gone]
    /\ locks' = {}
    /\ Goto(r, "dropped")
    /\ UNCHANGED <<open, site, file, locals, history, counters>>

\* Two rebuilds that both read `matches` and both wait to drop it: Postgres
\* breaks the deadlock by failing one.
DropDeadlock(r, s) ==
    /\ r # s
    /\ pc[r] = "queued" /\ pc[s] = "queued"
    /\ {r, s} \subseteq locks
    /\ Ends(r)
    /\ UNCHANGED <<database, open, site, file, history, counters>>

\* schema.apply over the dropped database.  A table another process has made
\* meanwhile fails the migration that creates it.
ApplyMigrations(r) ==
    /\ pc[r] = "dropped"
    /\ ~hasTable
    /\ hasTable' = TRUE
    /\ rows' = {}
    /\ seq' = 0
    /\ Goto(r, "applied")
    /\ UNCHANGED <<roster, open, site, file, locks, locals, history, counters>>

\* sync_all's pull_heroes, in a connection of its own.
FillRoster(r) ==
    /\ pc[r] = "applied"
    /\ hasTable
    /\ TablesFree(r)
    /\ roster' = Pulled
    /\ Goto(r, "filled")
    /\ UNCHANGED <<rows, hasTable, seq, open, site, file, locks, locals, history,
                   counters>>

\* The rest of sync_all is done and nothing was kept: the rebuild is over.
FinishEmpty(r) ==
    /\ pc[r] = "filled"
    /\ kept[r] = {}
    /\ Ends(r)
    /\ UNCHANGED <<database, open, site, file, history, counters>>

\* The rest of sync_all is done; _restore_matches loads the World, tells the
\* matches it names from those it cannot, and reads the ids in the table.
BeginRestore(r) ==
    /\ pc[r] = "filled"
    /\ kept[r] # {}
    /\ hasTable
    /\ TablesFree(r)
    /\ todo' = [todo EXCEPT ![r] = {m \in kept[r] : roster[HeroOf[m.game]] # Gone}]
    /\ left' = [left EXCEPT ![r] = kept[r] \ todo'[r]]
    /\ taken' = [taken EXCEPT ![r] = IdsOf(rows)]
    /\ Goto(r, "restoring")
    /\ UNCHANGED <<database, open, site, file, locks, kept, stored, history,
                   counters>>

\* A rebuild whose tables another process dropped or made fails at its next
\* statement.
TablesMoved(r) ==
    /\ \/ pc[r] = "dropped" /\ hasTable
       \/ pc[r] \in {"applied", "filled"} /\ ~hasTable
    /\ pc[r] = "filled" => kept[r] # {}
    /\ Ends(r)
    /\ UNCHANGED <<database, open, site, file, history, counters>>

\* Mutant: every restored match takes the identity's next id.
StoreIdFresh(r, m) == seq + 1

\* The id a match is stored under: its own, or the identity's next when the
\* table is known to hold its own.
StoreId(r, m) == IF m.id \in taken[r] THEN seq + 1 ELSE m.id

\* Mutant: the identity stays behind the ids the restore chose.
IdentityKept(ids) == seq' = seq

\* setval: the identity moves to the greatest of these ids.
SetIdentity(ids) == \E i \in ids : (\A j \in ids : j <= i) /\ seq' = i

\* recorded.store of one kept match: its row, and the identity moved to the
\* greatest id the transaction sees when the match kept its own.
StoreMatch(r, m) ==
    LET id == StoreId(r, m) IN
    /\ pc[r] = "restoring"
    /\ m \in todo[r]
    /\ id \notin IdsOf(open) \cup UNION {IdsOf(stored[s]) : s \in Rebuilders \ {r}}
    /\ id \notin IdsOf(rows \cup stored[r])
    /\ stored' = [stored EXCEPT ![r] = @ \cup {[id |-> id, game |-> m.game]}]
    /\ taken' = [taken EXCEPT ![r] = @ \cup {id}]
    /\ todo' = [todo EXCEPT ![r] = @ \ {m}]
    /\ IF m.id \in taken[r] THEN seq' = id
       ELSE SetIdentity(IdsOf(rows \cup stored'[r]))
    /\ UNCHANGED <<rows, hasTable, roster, open, site, file, pc, locks, kept,
                   left, history, counters>>

\* The id went to another transaction after the restore read the table: the
\* INSERT fails and the restore rolls back.
StoreCollides(r, m) ==
    LET id == StoreId(r, m) IN
    /\ pc[r] = "restoring"
    /\ m \in todo[r]
    /\ id \notin IdsOf(open) \cup UNION {IdsOf(stored[s]) : s \in Rebuilders \ {r}}
    /\ id \in IdsOf(rows \cup stored[r])
    /\ seq' = IF m.id \in taken[r] THEN id ELSE seq
    /\ Ends(r)
    /\ UNCHANGED <<rows, hasTable, roster, open, site, file, history, counters>>

\* Two restores that each wait for an id the other has inserted: Postgres
\* fails one.
StoreDeadlock(r, s) ==
    /\ pc[r] = "restoring" /\ pc[s] = "restoring"
    /\ \E m \in todo[r] : StoreId(r, m) \in IdsOf(stored[s])
    /\ \E m \in todo[s] : StoreId(s, m) \in IdsOf(stored[r])
    /\ r # s
    /\ Ends(r)
    /\ UNCHANGED <<database, open, site, file, history, counters>>

\* _restore_matches commits every match it named, at once.
CommitRestore(r) ==
    /\ pc[r] = "restoring"
    /\ todo[r] = {}
    /\ rows' = rows \cup stored[r]
    /\ stored' = [stored EXCEPT ![r] = {}]
    /\ Goto(r, "committed")
    /\ UNCHANGED <<hasTable, seq, roster, open, site, file, locks, kept, todo,
                   left, taken, history, counters>>

\* Mutant: a match the roster cannot name counts as back.
AllBackAssumed(r) == TRUE

\* The restore named every match.
AllBack(r) == left[r] = {}

\* Mutant: the file stays behind.
RemoveForgotten(r) ==
    /\ pc[r] = "committed"
    /\ AllBack(r)
    /\ Ends(r)
    /\ UNCHANGED <<database, open, site, file, history, counters>>

\* Every match is back: the file goes, and the rebuild is over.
RemoveKept(r) ==
    /\ pc[r] = "committed"
    /\ AllBack(r)
    /\ fileState' = "absent"
    /\ fileKept' = {}
    /\ Ends(r)
    /\ UNCHANGED <<database, open, site, history, counters>>

\* Some match could not be named: the file is emptied ...
TruncateLeft(r) ==
    /\ pc[r] = "committed"
    /\ ~AllBack(r)
    /\ fileState' = "torn"
    /\ fileKept' = {}
    /\ Goto(r, "rewriting")
    /\ UNCHANGED <<database, open, site, locks, locals, history, counters>>

\* ... and holds the matches left, and the rebuild is over.
WriteLeft(r) ==
    /\ pc[r] = "rewriting"
    /\ fileState' = "whole"
    /\ fileKept' = left[r]
    /\ Ends(r)
    /\ UNCHANGED <<database, open, site, history, counters>>

\* How a rebuild that dies here leaves game g: in the file and in the table both,
\* and then under one id in the two, or not.
Twin(g) ==
    LET filed  == {m \in fileKept : m.game = g}
        tabled == {row \in rows : row.game = g}
    IN  IF filed = {} \/ tabled = {} THEN twinned[g]
        ELSE IF twinned[g] # "unlike" /\ IdsOf(filed) = IdsOf(tabled) THEN "alike"
        ELSE "unlike"

\* A rebuild dies where the run lets it: a pull fails, the disk is full, the
\* process is killed.
Fail(r) ==
    /\ pc[r] \in FailPoints
    /\ failures < MaxFailures
    /\ failures' = failures + 1
    /\ Ends(r)
    /\ twinned' = [g \in Games |-> Twin(g)]
    /\ UNCHANGED <<database, open, site, file, entry, spelt, begun, changes>>

-----------------------------------------------------------------------------
RebuildStep(r) ==
    \/ LoadMatches(r) \/ TruncateKept(r) \/ WriteKept(r)
    \/ QueueDrop(r) \/ DropAll(r) \/ ApplyMigrations(r) \/ FillRoster(r)
    \/ FinishEmpty(r) \/ BeginRestore(r) \/ TablesMoved(r)
    \/ \E s \in Rebuilders : DropDeadlock(r, s) \/ StoreDeadlock(r, s)
    \/ \E m \in todo[r] : StoreMatch(r, m) \/ StoreCollides(r, m)
    \/ CommitRestore(r) \/ RemoveKept(r) \/ TruncateLeft(r) \/ WriteLeft(r)

OwnerStep ==
    \/ \E g \in Games : RecordInsert(g) \/ RecordCommit(g) \/ RecordAbort(g)
    \/ \E row \in rows : DeleteMatch(row)
    \/ Migrate

SourceStep ==
    \/ \E h \in Heroes, name \in Names : Publish(h, name)
    \/ PullHeroes

Next ==
    \/ OwnerStep
    \/ SourceStep
    \/ \E r \in Rebuilders : ReadKept(r) \/ RebuildStep(r) \/ Fail(r)

\* A rebuild once begun keeps running, through the lock queue when it waits
\* for tables: Postgres serves the queue in order, so a request is not passed
\* over for ever.  A record_match in its transaction commits.
Fairness ==
    /\ \A r \in Rebuilders : SF_vars(RebuildStep(r))
    /\ \A g \in Games : WF_vars(RecordCommit(g))

Spec == Init /\ [][Next]_vars
FairSpec == Spec /\ Fairness

-----------------------------------------------------------------------------
(* Properties.                                                             *)

\* Every variable keeps its type, for every reachable state.
TypeOK ==
    /\ rows \subseteq Row
    /\ hasTable \in BOOLEAN
    /\ seq \in Nat
    /\ roster \in [Heroes -> Names]
    /\ open \subseteq Row
    /\ site \in [Heroes -> Names]
    /\ fileState \in {"absent", "torn", "whole"}
    /\ fileKept \subseteq Match
    /\ pc \in [Rebuilders -> Points]
    /\ locks \subseteq Rebuilders
    /\ kept \in [Rebuilders -> SUBSET Match]
    /\ todo \in [Rebuilders -> SUBSET Match]
    /\ left \in [Rebuilders -> SUBSET Match]
    /\ taken \in [Rebuilders -> SUBSET Nat]
    /\ stored \in [Rebuilders -> SUBSET Row]
    /\ entry \in [Games -> {"new", "recorded", "deleted"}]
    /\ twinned \in [Games -> {"no", "alike", "unlike"}]
    /\ spelt \in [Heroes -> SUBSET Spellings]
    /\ begun \in Nat
    /\ failures \in Nat
    /\ changes \in Nat

\* The matches a rebuild is writing to the file it has just emptied.
InHand(r) ==
    CASE pc[r] = "writing"   -> kept[r]
      [] pc[r] = "rewriting" -> left[r]
      [] OTHER               -> {}

\* The games with a copy somewhere: in the table, in the file, or on their
\* way into the file.
Held ==
    GamesOf(rows) \cup GamesOf(fileKept) \cup
    UNION {GamesOf(InHand(r)) : r \in Rebuilders}

Recorded == {g \in Games : entry[g] = "recorded"}
Deleted  == {g \in Games : entry[g] = "deleted"}

\* Whatever step a rebuild has reached or died at, every match the owner was
\* told is recorded still has a copy (db_rebuild "keeps them").
NothingLost == Recorded \subseteq Held

\* A rebuild died with game g in the file and in the table both, and the two
\* copies came to differ: it had stored g under a fresh id, or the sources have
\* spelled its hero another way.
Differ(g) ==
    \/ twinned[g] = "unlike"
    \/ twinned[g] = "alike" /\ \E a, b \in spelt[HeroOf[g]] : a # b

\* No rebuild stores one game twice, though the file of a failed rebuild and
\* the table may both hold it - but for what `m not in kept` cannot match: two
\* copies that a death left and that differ since (_keep_matches).
OneRowAGame == \A x, y \in rows : x.game = y.game => x = y \/ Differ(x.game)

\* The identity is past every committed id, so the next record_match takes a
\* fresh one (recorded.store).
IdentityAhead == \A row \in rows : row.id <= seq

\* What a rebuild, finished or failed, leaves of the table: each game once, but for
\* copies that differ, and the next id free.
TableSound == OneRowAGame /\ IdentityAhead

\* A rebuild that commits its restore has each match it could name under its
\* own id, or under another because a row of the table has that id.
KeepsIds ==
    [][\A r \in Rebuilders :
        pc[r] = "restoring" /\ pc'[r] = "committed" =>
            \A m \in kept[r] \ left[r] :
                /\ m.game \in GamesOf(rows')
                /\ m.id \in IdsOf(rows')]_vars

\* The kept file goes only when every match in it is in the table again or
\* was deleted since.
FileGoesLast ==
    [][fileState = "whole" /\ fileState' = "absent" =>
        GamesOf(fileKept) \subseteq GamesOf(rows) \cup Deleted]_vars

\* A rebuild once begun returns or raises: the table locks, the waits for the
\* owner's transactions and a second rebuild never hold it for ever.
RebuildEnds == \A r \in Rebuilders : pc[r] = "read" ~> pc[r] = "idle"

\* With the owner waiting and no file left torn, a rebuild - finished or
\* failed - is invisible to the owner's record.
Record == INSTANCE Ledger WITH onRecord <- Held, deleted <- Deleted
ImplementsLedger == Record!LedgerSpec
=============================================================================
