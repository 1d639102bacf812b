---------------------------- MODULE MatchesProofs ----------------------------
(***************************************************************************)
(* Proofs about Matches, for every number of games, heroes, spellings,     *)
(* rebuilders, ids, rebuilds and failures.                                 *)
(*                                                                         *)
(*   TypeCorrect     every variable keeps its type.  Not inductive alone:  *)
(*                   load_matches reads a name for every row, so the       *)
(*                   roster must go on naming what the tables hold (the    *)
(*                   foreign key of match_picks), which Named adds.        *)
(*   NothingIsLost   while the owner leaves a rebuild alone, one rebuild   *)
(*                   runs at a time and none dies inside _write_kept, no   *)
(*                   recorded match is lost.  CopyInv says, for each point *)
(*                   of a rebuild, which of the table, the file and the    *)
(*                   rebuild's own lists has every recorded match.         *)
(*   FileOutlives    and the file goes only once the table has them.       *)
(*   IdsAreKept      under their own ids, or others': RestoreInv says what *)
(*                   a restore has done of what it has to do.              *)
(*   IdentityStays   the identity is past every id in use (AheadInv).      *)
(*   OneRowKept      no game has two rows, but where a death left it in    *)
(*                   the file and the table both and the two came to       *)
(*                   differ.  TwinInv follows the games whose copies still *)
(*                   agree: the next rebuild makes one of the two again.   *)
(*   ImplementsRecord  Matches implements Ledger, if no rebuild dies with  *)
(*                   the matches in both.  SingleInv: between rebuilds a   *)
(*                   match is in the table or in the file, once.           *)
(***************************************************************************)
EXTENDS Matches, TLAPS

-----------------------------------------------------------------------------
(* Type correctness.                                                       *)

\* The roster names the hero of game g.
Rostered(g) == roster[HeroOf[g]] # Gone

\* The roster names the hero of every match the tables hold, and of every
\* match a restore is writing; only a restore has any of those.
Named ==
    /\ \A row \in rows \cup open : Rostered(row.game)
    /\ \A r \in Rebuilders : \A x \in todo[r] \cup stored[r] :
          pc[r] = "restoring" /\ Rostered(x.game)

TypeInv == TypeOK /\ Named

\* A database just built holds no match, so nothing needs a name.
LEMMA TypeInit == Init => TypeInv
BY MatchesAssumption
   DEF Init, TypeInv, TypeOK, Named, Rostered, Points, Names, Row, Match

\* The owner's tools keep the types: record_match inserts only what the
\* roster names.
LEMMA OwnerType ==
    ASSUME TypeInv, OwnerStep
    PROVE  TypeInv'
<1> USE MatchesAssumption
    DEF TypeInv, TypeOK, Named, Rostered, Row, Match, database, file, counters, locals, history
<1>1. ASSUME NEW g \in Games, RecordInsert(g) PROVE TypeInv'
  BY <1>1 DEF RecordInsert
<1>2. ASSUME NEW g \in Games, RecordCommit(g) PROVE TypeInv'
  BY <1>2 DEF RecordCommit
<1>3. ASSUME NEW g \in Games, RecordAbort(g) PROVE TypeInv'
  BY <1>3 DEF RecordAbort
<1>4. ASSUME NEW row \in rows, DeleteMatch(row) PROVE TypeInv'
  BY <1>4 DEF DeleteMatch
<1>5. ASSUME Migrate PROVE TypeInv'
  BY <1>5 DEF Migrate
<1> QED BY <1>1, <1>2, <1>3, <1>4, <1>5 DEF OwnerStep

\* The sources and the pulls keep the types: an upsert never takes a hero
\* off the roster.
LEMMA SourceType ==
    ASSUME TypeInv, SourceStep
    PROVE  TypeInv'
<1> USE MatchesAssumption
    DEF TypeInv, TypeOK, Named, Rostered, Names, Row, Match, database, file,
        counters, locals, history
<1>1. ASSUME NEW h \in Heroes, NEW name \in Names, Publish(h, name) PROVE TypeInv'
  BY <1>1 DEF Publish
<1>2. ASSUME PullHeroes PROVE TypeInv'
  BY <1>2 DEF PullHeroes, Pulled
<1> QED BY <1>1, <1>2 DEF SourceStep

\* A rebuild that ends keeps the types, whatever it does to the file and the
\* identity with its last step.
LEMMA EndsType ==
    ASSUME TypeInv, NEW r \in Rebuilders, Ends(r),
           UNCHANGED <<rows, hasTable, roster, open, site, entry, spelt, begun, changes>>,
           twinned' \in [Games -> {"no", "alike", "unlike"}], seq' \in Nat, fileState' \in {"absent", "torn", "whole"},
           fileKept' \subseteq Match, failures' \in Nat
    PROVE  TypeInv'
<1>1. TypeOK'
  BY DEF TypeInv, TypeOK, Ends, Goto, Row, Points
<1>2. Named'
  BY DEF TypeInv, TypeOK, Named, Rostered, Ends, Goto
<1> QED BY <1>1, <1>2 DEF TypeInv

\* load_matches reads a whole Match off every row.
LEMMA LoadedType == TypeInv => Loaded \subseteq Match
BY MatchesAssumption DEF TypeInv, TypeOK, Named, Rostered, Loaded, Names, Row, Match

\* Every step of a rebuild keeps the types.
LEMMA RebuildType ==
    ASSUME TypeInv, NEW r \in Rebuilders, ReadKept(r) \/ RebuildStep(r) \/ Fail(r)
    PROVE  TypeInv'
<1> USE MatchesAssumption
    DEF TypeInv, TypeOK, Named, Rostered, Points, Row, Match, database, file,
        counters, locals, history
<1>1. ASSUME ReadKept(r) PROVE TypeInv'
  BY <1>1 DEF ReadKept, Goto
<1>2. ASSUME LoadMatches(r) PROVE TypeInv'
  <2>1. kept' \in [Rebuilders -> SUBSET Match]
    BY <1>2, LoadedType DEF LoadMatches, Merged
  <2>2. QED BY <1>2, <2>1 DEF LoadMatches, Goto
<1>3. ASSUME TruncateKept(r) PROVE TypeInv'
  BY <1>3 DEF TruncateKept, Goto
<1>4. ASSUME WriteKept(r) PROVE TypeInv'
  BY <1>4 DEF WriteKept, Goto
<1>5. ASSUME QueueDrop(r) PROVE TypeInv'
  BY <1>5 DEF QueueDrop, Goto
<1>6. ASSUME DropAll(r) PROVE TypeInv'
  BY <1>6 DEF DropAll, Goto, Names
<1>7. ASSUME ApplyMigrations(r) PROVE TypeInv'
  BY <1>7 DEF ApplyMigrations, Goto
<1>8. ASSUME FillRoster(r) PROVE TypeInv'
  BY <1>8 DEF FillRoster, Goto, Pulled, Names
<1>9. ASSUME FinishEmpty(r) PROVE TypeInv'
  BY <1>9, EndsType DEF FinishEmpty
<1>10. ASSUME BeginRestore(r) PROVE TypeInv'
  BY <1>10 DEF BeginRestore, Goto, IdsOf
<1>11. ASSUME TablesMoved(r) PROVE TypeInv'
  BY <1>11, EndsType DEF TablesMoved
<1>12. ASSUME CommitRestore(r) PROVE TypeInv'
  BY <1>12 DEF CommitRestore, Goto
<1>13. ASSUME RemoveKept(r) PROVE TypeInv'
  BY <1>13, EndsType DEF RemoveKept
<1>14. ASSUME TruncateLeft(r) PROVE TypeInv'
  BY <1>14 DEF TruncateLeft, Goto
<1>15. ASSUME WriteLeft(r) PROVE TypeInv'
  BY <1>15, EndsType DEF WriteLeft
<1>16. ASSUME Fail(r) PROVE TypeInv'
  BY <1>16, EndsType DEF Fail, Twin
<1>17. ASSUME NEW s \in Rebuilders, DropDeadlock(r, s) PROVE TypeInv'
  BY <1>17, EndsType DEF DropDeadlock
<1>18. ASSUME NEW s \in Rebuilders, StoreDeadlock(r, s) PROVE TypeInv'
  BY <1>18, EndsType DEF StoreDeadlock
<1>19. ASSUME NEW m \in todo[r], StoreMatch(r, m) PROVE TypeInv'
  BY <1>19 DEF StoreMatch, StoreId, SetIdentity, IdsOf
<1>20. ASSUME NEW m \in todo[r], StoreCollides(r, m) PROVE TypeInv'
  BY <1>20, EndsType DEF StoreCollides, StoreId, IdsOf
<1> QED
  BY <1>1, <1>2, <1>3, <1>4, <1>5, <1>6, <1>7, <1>8, <1>9, <1>10,
       <1>11, <1>12, <1>13, <1>14, <1>15, <1>16, <1>17, <1>18,
       <1>19, <1>20
  DEF RebuildStep

\* Every step keeps the types.
LEMMA TypeStep == TypeInv /\ [Next]_vars => TypeInv'
<1> SUFFICES ASSUME TypeInv, [Next]_vars PROVE TypeInv'
  OBVIOUS
<1>1. CASE UNCHANGED vars
  BY <1>1 DEF TypeInv, TypeOK, Named, Rostered, vars
<1>2. CASE Next
  BY <1>2, OwnerType, SourceType, RebuildType DEF Next
<1> QED BY <1>1, <1>2

\* Type correctness of the owner's matches, the kept file and the rebuilds.
THEOREM TypeCorrect == Spec => []TypeOK
<1>1. Spec => []TypeInv
  BY TypeInit, TypeStep, PTL DEF Spec
<1>2. TypeInv => TypeOK
  BY DEF TypeInv
<1> QED BY <1>1, <1>2, PTL

-----------------------------------------------------------------------------
(* No recorded match is lost.                                              *)

\* What the theorem assumes of the constants: the owner records nothing
\* during a rebuild, rebuilds do not overlap, and none dies in _write_kept.
Undisturbed ==
    /\ OwnerWaits
    /\ OneAtATime
    /\ FailPoints \cap {"writing", "rewriting"} = {}

\* At most one rebuild is under way, and then no record_match is.
Apart ==
    /\ \A r, s \in Rebuilders : pc[r] # "idle" /\ pc[s] # "idle" => r = s
    /\ open # {} => Idle

\* Rows, record_match transactions and restores need the matches table.
TableFirst ==
    rows # {} \/ open # {} \/ (\E r \in Rebuilders : pc[r] = "restoring") => hasTable

\* Every recorded match is in the table or in the file.
OnTableOrFile == Recorded \subseteq GamesOf(rows) \cup GamesOf(fileKept)

\* Which copies hold every recorded match while r is at each point.
Copied(r) ==
    /\ pc[r] = "read" => OnTableOrFile /\ kept[r] = fileKept
    /\ pc[r] = "keeping" => OnTableOrFile /\ Recorded \subseteq GamesOf(kept[r])
    /\ pc[r] = "writing" => Recorded \subseteq GamesOf(kept[r])
    /\ pc[r] \in {"kept", "queued", "dropped", "applied", "filled", "restoring",
                  "committed"} =>
          Recorded \subseteq GamesOf(fileKept) /\ kept[r] = fileKept
    /\ pc[r] = "restoring" =>
          GamesOf(kept[r]) \subseteq GamesOf(todo[r] \cup left[r] \cup stored[r])
    /\ pc[r] = "committed" => GamesOf(kept[r]) \subseteq GamesOf(left[r] \cup rows)
    /\ pc[r] = "rewriting" => Recorded \subseteq GamesOf(left[r] \cup rows)

\* The inductive invariant: what each point of a rebuild has copied, and that
\* rebuilds and the owner keep out of each other's way.
CopyInv ==
    /\ TypeInv
    /\ Apart
    /\ TableFirst
    /\ Idle => OnTableOrFile
    /\ \A r \in Rebuilders : Copied(r)

\* The invariant gives the property: wherever the rebuild under way is, the
\* copies it leaves are the ones Held counts.
LEMMA CopyHeld == CopyInv => NothingLost
<1> SUFFICES ASSUME CopyInv PROVE NothingLost
  OBVIOUS
<1>1. CASE Idle
  BY <1>1 DEF CopyInv, NothingLost, Held, OnTableOrFile
<1>2. ASSUME NEW r \in Rebuilders, pc[r] # "idle" PROVE NothingLost
  BY <1>2 DEF CopyInv, TypeInv, TypeOK, Points, Copied, OnTableOrFile, NothingLost,
     Held, InHand, GamesOf
<1> QED BY <1>1, <1>2 DEF Idle

\* A database just built holds no record to lose.
LEMMA CopyInit == Init => CopyInv
BY TypeInit DEF Init, CopyInv, Apart, TableFirst, Idle, OnTableOrFile, Recorded, GamesOf, Copied

\* The owner acts only between rebuilds, and what a tool adds to or takes from
\* the record it adds to or takes from the table.
LEMMA OwnerCopies ==
    ASSUME Undisturbed, CopyInv, OwnerStep
    PROVE  CopyInv'
<1> USE DEF CopyInv, TypeInv, TypeOK, Apart, TableFirst, OnTableOrFile, Copied, Idle,
            Recorded, GamesOf, Row, Undisturbed, database, file, counters, locals, history
<1>1. TypeInv'
  BY OwnerType
<1>2. ASSUME NEW g \in Games, RecordInsert(g) PROVE CopyInv'
  BY <1>1, <1>2 DEF RecordInsert, OwnerMayAct
<1>3. ASSUME NEW g \in Games, RecordCommit(g) PROVE CopyInv'
  BY <1>1, <1>3 DEF RecordCommit
<1>4. ASSUME NEW g \in Games, RecordAbort(g) PROVE CopyInv'
  BY <1>1, <1>4 DEF RecordAbort
<1>5. ASSUME NEW row \in rows, DeleteMatch(row) PROVE CopyInv'
  BY <1>1, <1>5 DEF DeleteMatch, OwnerMayAct
<1>6. ASSUME Migrate PROVE CopyInv'
  BY <1>1, <1>6 DEF Migrate, OwnerMayAct
<1> QED BY <1>2, <1>3, <1>4, <1>5, <1>6 DEF OwnerStep

\* The sources and the pulls move no match.
LEMMA SourceCopies ==
    ASSUME CopyInv, SourceStep
    PROVE  CopyInv'
<1> USE DEF CopyInv, Apart, TableFirst, OnTableOrFile, Copied, Idle, Recorded, GamesOf,
            database, file, counters, locals, history
<1>1. TypeInv'
  BY SourceType
<1>2. ASSUME NEW h \in Heroes, NEW name \in Names, Publish(h, name) PROVE CopyInv'
  BY <1>1, <1>2 DEF Publish
<1>3. ASSUME PullHeroes PROVE CopyInv'
  BY <1>1, <1>3 DEF PullHeroes
<1> QED BY <1>2, <1>3 DEF SourceStep

\* A rebuild that is under way is alone, so its end leaves every rebuild idle.
LEMMA EndsIdle ==
    ASSUME CopyInv, NEW r \in Rebuilders, pc[r] # "idle", Ends(r)
    PROVE  Idle' /\ \A s \in Rebuilders : pc'[s] = "idle"
BY DEF CopyInv, TypeInv, TypeOK, Apart, Ends, Goto, Idle

\* A rebuild may end where the table or the file has every recorded match.
LEMMA EndsCopies ==
    ASSUME CopyInv, TypeInv', NEW r \in Rebuilders, pc[r] # "idle", Ends(r),
           UNCHANGED <<rows, hasTable, open, entry>>, OnTableOrFile'
    PROVE  CopyInv'
BY EndsIdle DEF CopyInv, Apart, TableFirst, Copied, Idle

\* A rebuild that is under way goes on alone: what its own point promises, and
\* the tables its point needs, are all there is to show.
LEMMA GoesOnCopies ==
    ASSUME CopyInv, TypeInv', NEW r \in Rebuilders, pc[r] # "idle",
           NEW point, point # "idle", Goto(r, point), open' = open,
           TableFirst', Copied(r)'
    PROVE  CopyInv'
<1>1. open = {} /\ \A s \in Rebuilders \ {r} : pc[s] = "idle"
  BY DEF CopyInv, Apart, Idle
<1>2. pc'[r] = point /\ \A s \in Rebuilders \ {r} : pc'[s] = "idle"
  BY <1>1 DEF CopyInv, TypeInv, TypeOK, Goto
<1>3. Apart' /\ ~Idle'
  BY <1>1, <1>2 DEF Apart, Idle
<1>4. \A s \in Rebuilders : Copied(s)'
  BY <1>2 DEF Copied
<1> QED BY <1>3, <1>4 DEF CopyInv

\* The games of two sets of matches together are those of each.
LEMMA GamesUnion ==
    ASSUME NEW S, NEW T
    PROVE  GamesOf(S \cup T) = GamesOf(S) \cup GamesOf(T)
BY DEF GamesOf

\* Each step of a rebuild hands every recorded match from one copy to the
\* next before it gives the first one up.
LEMMA RebuildCopies ==
    ASSUME Undisturbed, CopyInv, NEW r \in Rebuilders,
           ReadKept(r) \/ RebuildStep(r) \/ Fail(r)
    PROVE  CopyInv'
<1> USE DEF CopyInv, TypeInv, TypeOK, Apart, TableFirst, OnTableOrFile, Copied, Idle,
            Recorded, Undisturbed, database, file, counters, locals, history
<1>0. TypeInv'
  BY RebuildType
<1>1. ASSUME ReadKept(r) PROVE CopyInv'
  BY <1>0, <1>1 DEF ReadKept, Goto
<1>2. ASSUME LoadMatches(r) PROVE CopyInv'
  <2>1. GamesOf(Loaded) = GamesOf(rows)
    <3>1. ASSUME NEW row \in rows PROVE \E m \in Loaded : m.game = row.game
      <4>1. [id |-> row.id, game |-> row.game, name |-> roster[HeroOf[row.game]]] \in Loaded
        BY DEF Loaded
      <4> QED BY <4>1
    <3>2. \A m \in Loaded : \E row \in rows : m.game = row.game
      BY DEF Loaded
    <3> QED BY <3>1, <3>2 DEF GamesOf
  <2>2. kept'[r] = kept[r] \cup Loaded
    BY <1>2 DEF LoadMatches, Merged
  <2>3. GamesOf(kept'[r]) = GamesOf(kept[r]) \cup GamesOf(rows)
    BY <2>1, <2>2, GamesUnion
  <2>4. OnTableOrFile' /\ Recorded' \subseteq GamesOf(kept'[r])
    BY <1>2, <2>3 DEF LoadMatches
  <2>5. kept'[r] = {} => kept'[r] = fileKept' /\ GamesOf(kept'[r]) = GamesOf(fileKept')
    BY <1>2, <2>2 DEF LoadMatches
  <2> QED
    BY <1>0, <1>2, <2>4, <2>5 DEF LoadMatches, Goto
<1>3. ASSUME TruncateKept(r) PROVE CopyInv'
  <2>1. TableFirst' /\ Copied(r)'
    BY <1>3 DEF TruncateKept, Goto
  <2> QED
    BY <1>0, <1>3, <2>1, GoesOnCopies DEF TruncateKept
<1>4. ASSUME WriteKept(r) PROVE CopyInv'
  <2>1. TableFirst' /\ Copied(r)'
    BY <1>4 DEF WriteKept, Goto
  <2> QED
    BY <1>0, <1>4, <2>1, GoesOnCopies DEF WriteKept
<1>5. ASSUME QueueDrop(r) PROVE CopyInv'
  <2>1. TableFirst' /\ Copied(r)'
    BY <1>5 DEF QueueDrop, Goto
  <2> QED
    BY <1>0, <1>5, <2>1, GoesOnCopies DEF QueueDrop
<1>6. ASSUME DropAll(r) PROVE CopyInv'
  <2>1. /\ pc[r] = "queued" /\ pc' = [pc EXCEPT ![r] = "dropped"]
        /\ rows' = {} /\ open = {} /\ open' = {}
        /\ UNCHANGED <<fileKept, kept, todo, left, stored, entry>>
        /\ \A s \in Rebuilders \ {r} : pc[s] = "idle"
    BY <1>6 DEF DropAll, Goto
  <2>2. TableFirst' /\ Copied(r)'
    BY <2>1
  <2> QED BY <1>0, <1>6, <2>1, <2>2, GoesOnCopies DEF DropAll
<1>7. ASSUME ApplyMigrations(r) PROVE CopyInv'
  <2>1. TableFirst' /\ Copied(r)'
    BY <1>7 DEF ApplyMigrations, Goto
  <2> QED
    BY <1>0, <1>7, <2>1, GoesOnCopies DEF ApplyMigrations
<1>8. ASSUME FillRoster(r) PROVE CopyInv'
  <2>1. TableFirst' /\ Copied(r)'
    BY <1>8 DEF FillRoster, Goto
  <2> QED
    BY <1>0, <1>8, <2>1, GoesOnCopies DEF FillRoster
<1>9. ASSUME FinishEmpty(r) PROVE CopyInv'
  BY <1>0, <1>9, EndsCopies DEF FinishEmpty
<1>10. ASSUME BeginRestore(r) PROVE CopyInv'
  <2>1. kept[r] \subseteq todo'[r] \cup left'[r] \cup stored'[r]
    BY <1>10 DEF BeginRestore
  <2>2. GamesOf(kept[r]) \subseteq GamesOf(todo'[r] \cup left'[r] \cup stored'[r])
    BY <2>1 DEF GamesOf
  <2>3. TableFirst' /\ Copied(r)'
    BY <1>10, <2>2 DEF BeginRestore, Goto
  <2> QED
    BY <1>0, <1>10, <2>3, GoesOnCopies DEF BeginRestore
<1>11. ASSUME TablesMoved(r) PROVE CopyInv'
  BY <1>0, <1>11, EndsCopies DEF TablesMoved
<1>12. ASSUME CommitRestore(r) PROVE CopyInv'
  <2>1. rows' = rows \cup stored[r] /\ todo[r] = {}
    BY <1>12 DEF CommitRestore
  <2>2. GamesOf(todo[r] \cup left[r] \cup stored[r]) \subseteq GamesOf(left[r] \cup rows')
    BY <2>1 DEF GamesOf
  <2>3. GamesOf(kept[r]) \subseteq GamesOf(left[r] \cup rows')
    BY <1>12, <2>2 DEF CommitRestore
  <2>4. TableFirst' /\ Copied(r)'
    BY <1>12, <2>3 DEF CommitRestore, Goto
  <2> QED
    BY <1>0, <1>12, <2>4, GoesOnCopies DEF CommitRestore
<1>13. ASSUME RemoveKept(r) PROVE CopyInv'
  <2>1. GamesOf(left[r] \cup rows) = GamesOf(rows)
    BY <1>13 DEF RemoveKept, AllBack
  <2>2. OnTableOrFile'
    BY <1>13, <2>1 DEF RemoveKept
  <2> QED
    BY <1>0, <1>13, <2>2, EndsCopies DEF RemoveKept
<1>14. ASSUME TruncateLeft(r) PROVE CopyInv'
  <2>1. /\ pc[r] = "committed" /\ pc' = [pc EXCEPT ![r] = "rewriting"]
        /\ UNCHANGED <<rows, hasTable, open, kept, todo, left, stored, entry>>
        /\ \A s \in Rebuilders \ {r} : pc[s] = "idle"
    BY <1>14 DEF TruncateLeft, Goto
  <2>2. Recorded \subseteq GamesOf(left[r] \cup rows)
    <3>1. /\ Recorded \subseteq GamesOf(kept[r])
          /\ GamesOf(kept[r]) \subseteq GamesOf(left[r] \cup rows)
      BY <2>1
    <3> QED BY <3>1
  <2>3. TableFirst' /\ Copied(r)'
    BY <2>1, <2>2
  <2> QED BY <1>0, <1>14, <2>3, GoesOnCopies DEF TruncateLeft
<1>15. ASSUME WriteLeft(r) PROVE CopyInv'
  <2>1. GamesOf(left[r] \cup rows) = GamesOf(left[r]) \cup GamesOf(rows)
    BY GamesUnion
  <2>2. OnTableOrFile'
    BY <1>15, <2>1 DEF WriteLeft
  <2> QED
    BY <1>0, <1>15, <2>2, EndsCopies DEF WriteLeft
<1>16. ASSUME Fail(r) PROVE CopyInv'
  <2>1. pc[r] \notin {"idle", "writing", "rewriting"}
    BY <1>16, FailPointsAssumption DEF Fail
  <2>2. OnTableOrFile'
    BY <1>16, <2>1 DEF Fail, Points
  <2> QED
    BY <1>0, <1>16, <2>1, <2>2, EndsCopies DEF Fail
<1>17. ASSUME NEW s \in Rebuilders, DropDeadlock(r, s) PROVE CopyInv'
  BY <1>17 DEF DropDeadlock
<1>18. ASSUME NEW s \in Rebuilders, StoreDeadlock(r, s) PROVE CopyInv'
  BY <1>18 DEF StoreDeadlock
<1>19. ASSUME NEW m \in todo[r], StoreMatch(r, m) PROVE CopyInv'
  <2>1. PICK id : stored' = [stored EXCEPT ![r] = @ \cup {[id |-> id, game |-> m.game]}]
    BY <1>19 DEF StoreMatch
  <2>2. todo' = [todo EXCEPT ![r] = @ \ {m}]
    BY <1>19 DEF StoreMatch
  <2>3. GamesOf(todo[r] \cup left[r] \cup stored[r])
          \subseteq GamesOf(todo'[r] \cup left[r] \cup stored'[r])
    <3> DEFINE row == [id |-> id, game |-> m.game]
    <3>1. todo'[r] = todo[r] \ {m} /\ stored'[r] = stored[r] \cup {row}
      BY <2>1, <2>2
    <3>2. row \in stored'[r] /\ row.game = m.game
      BY <3>1
    <3> HIDE DEF row
    <3> QED BY <3>1, <3>2 DEF GamesOf
  <2>4. /\ UNCHANGED <<rows, hasTable, open, fileKept, pc, kept, left, entry>>
        /\ pc[r] = "restoring"
    BY <1>19 DEF StoreMatch
  <2> QED
    BY <1>0, <2>3, <2>4
<1>20. ASSUME NEW m \in todo[r], StoreCollides(r, m) PROVE CopyInv'
  BY <1>0, <1>20, EndsCopies DEF StoreCollides
<1> QED
  BY <1>1, <1>2, <1>3, <1>4, <1>5, <1>6, <1>7, <1>8, <1>9, <1>10,
     <1>11, <1>12, <1>13, <1>14, <1>15, <1>16, <1>17, <1>18,
     <1>19, <1>20
  DEF RebuildStep

\* Every step of an undisturbed rebuild, of the owner and of the sources keeps
\* the invariant.
LEMMA CopyStep ==
    ASSUME Undisturbed
    PROVE  CopyInv /\ [Next]_vars => CopyInv'
<1> SUFFICES ASSUME CopyInv, [Next]_vars PROVE CopyInv'
  OBVIOUS
<1>1. CASE UNCHANGED vars
  <2>1. TypeInv'
    BY <1>1, TypeStep DEF CopyInv
  <2>2. QED
    BY <1>1, <2>1 DEF CopyInv, Apart, TableFirst, OnTableOrFile, Copied, Idle, Recorded, GamesOf, vars
<1>2. CASE Next
  BY <1>2, OwnerCopies, SourceCopies, RebuildCopies DEF Next
<1> QED BY <1>1, <1>2

\* A match the owner was told is recorded has a copy at every point of every
\* rebuild, finished or failed, when nothing disturbs one.
THEOREM NothingIsLost ==
    ASSUME Undisturbed
    PROVE  Spec => []NothingLost
<1>1. CopyInv /\ [Next]_vars => CopyInv'
  BY CopyStep
<1>2. Spec => []CopyInv
  BY CopyInit, <1>1, PTL DEF Spec
<1> QED BY <1>2, CopyHeld, PTL

-----------------------------------------------------------------------------
(* What a rebuild that ends well leaves behind.                            *)

\* The kept file goes only when every match in it is in the table again, when
\* nothing disturbs the rebuild that removes it.
THEOREM FileOutlives ==
    ASSUME Undisturbed
    PROVE  Spec => FileGoesLast
<1>1. CopyInv /\ [Next]_vars =>
        [fileState = "whole" /\ fileState' = "absent" =>
            GamesOf(fileKept) \subseteq GamesOf(rows) \cup Deleted]_vars
  <2> SUFFICES ASSUME CopyInv, Next, fileState = "whole", fileState' = "absent"
               PROVE  GamesOf(fileKept) \subseteq GamesOf(rows)
    OBVIOUS
  <2>1. PICK r \in Rebuilders : RemoveKept(r)
    BY DEF Next, OwnerStep, SourceStep, RebuildStep, RecordInsert, RecordCommit, RecordAbort,
           DeleteMatch, Migrate, Publish, PullHeroes, ReadKept, LoadMatches, TruncateKept,
           WriteKept, QueueDrop, DropAll, ApplyMigrations, FillRoster, FinishEmpty,
           BeginRestore, TablesMoved, DropDeadlock, StoreDeadlock, StoreMatch,
           StoreCollides, CommitRestore, TruncateLeft, WriteLeft, Fail, file
  <2>2. kept[r] = fileKept /\ GamesOf(kept[r]) \subseteq GamesOf(left[r] \cup rows)
    BY <2>1 DEF RemoveKept, CopyInv, Copied
  <2>3. GamesOf(left[r] \cup rows) = GamesOf(rows)
    BY <2>1 DEF RemoveKept, AllBack
  <2> QED BY <2>2, <2>3
<1>2. CopyInv /\ [Next]_vars => CopyInv'
  BY CopyStep
<1> QED BY <1>1, <1>2, CopyInit, PTL DEF Spec, FileGoesLast

\* What a restore has done so far: the ids it takes for taken are in the table
\* or its own, and each match it could name is still to do or has its row, with
\* its id taken.
Restored(r) ==
    pc[r] = "restoring" =>
        /\ taken[r] \subseteq IdsOf(rows) \cup IdsOf(stored[r])
        /\ \A m \in kept[r] \ left[r] :
              m \in todo[r] \/ (m.game \in GamesOf(stored[r]) /\ m.id \in taken[r])

RestoreInv == CopyInv /\ \A r \in Rebuilders : Restored(r)

LEMMA RestoreInit == Init => RestoreInv
BY CopyInit DEF Init, RestoreInv, Restored

\* Every step but ReadKept is taken by a rebuild that is under way.
LEMMA UnderWay ==
    ASSUME NEW s \in Rebuilders, RebuildStep(s) \/ Fail(s)
    PROVE  pc[s] # "idle"
BY FailPointsAssumption
   DEF RebuildStep, LoadMatches, TruncateKept, WriteKept, QueueDrop, DropAll,
       ApplyMigrations, FillRoster, FinishEmpty, BeginRestore, TablesMoved, DropDeadlock,
       StoreDeadlock, StoreMatch, StoreCollides, CommitRestore, RemoveKept, TruncateLeft,
       WriteLeft, Fail

\* A restore begins with BeginRestore.
LEMMA RestoreBegins ==
    ASSUME TypeInv, NEW s \in Rebuilders, ReadKept(s) \/ RebuildStep(s) \/ Fail(s),
           NEW r \in Rebuilders, pc[r] # "restoring", pc'[r] = "restoring"
    PROVE  BeginRestore(r)
<1> USE DEF TypeInv, TypeOK, Goto
<1>1. ASSUME Ends(s) PROVE FALSE
  BY <1>1 DEF Ends
<1> QED
  BY <1>1
  DEF ReadKept, RebuildStep, LoadMatches, TruncateKept, WriteKept, QueueDrop, DropAll,
      ApplyMigrations, FillRoster, FinishEmpty, BeginRestore, TablesMoved, DropDeadlock,
      StoreDeadlock, StoreMatch, StoreCollides, CommitRestore, RemoveKept, TruncateLeft,
      WriteLeft, Fail

\* A restore under way is the only rebuild that is, and goes on by StoreMatch.
LEMMA RestoreGoesOn ==
    ASSUME CopyInv, NEW s \in Rebuilders, RebuildStep(s) \/ Fail(s),
           NEW r \in Rebuilders, pc[r] = "restoring", pc'[r] = "restoring"
    PROVE  \E m \in todo[r] : StoreMatch(r, m)
<1>1. s = r
  BY UnderWay DEF CopyInv, Apart
<1>2. ASSUME Ends(r) PROVE FALSE
  BY <1>2 DEF Ends, Goto, CopyInv, TypeInv, TypeOK
<1> QED
  BY <1>1, <1>2
  DEF RebuildStep, LoadMatches, TruncateKept, WriteKept, QueueDrop, DropAll,
      ApplyMigrations, FillRoster, FinishEmpty, BeginRestore, TablesMoved, DropDeadlock,
      StoreDeadlock, StoreCollides, CommitRestore, RemoveKept, TruncateLeft,
      WriteLeft, Fail, Goto, CopyInv, TypeInv, TypeOK

\* Only a restore's own steps move the rows and the ids it counts on.
LEMMA RestoreStep ==
    ASSUME Undisturbed
    PROVE  RestoreInv /\ [Next]_vars => RestoreInv'
<1> SUFFICES ASSUME RestoreInv, [Next]_vars, NEW r \in Rebuilders, pc'[r] = "restoring"
             PROVE  Restored(r)'
  BY CopyStep DEF RestoreInv, Restored
<1>1. ASSUME UNCHANGED <<pc, rows, kept, todo, left, taken, stored>> PROVE Restored(r)'
  BY <1>1 DEF Restored, RestoreInv
<1>2. ASSUME OwnerStep PROVE Restored(r)'
  <2>1. pc' = pc
    BY <1>2 DEF OwnerStep, RecordInsert, RecordCommit, RecordAbort, DeleteMatch, Migrate
  <2>2. open = {} /\ ~OwnerMayAct
    BY <2>1 DEF RestoreInv, CopyInv, Apart, Idle, OwnerMayAct, Undisturbed
  <2> QED
    BY <1>2, <2>2
    DEF OwnerStep, RecordInsert, RecordCommit, RecordAbort, DeleteMatch, Migrate, GamesOf
<1>3. ASSUME SourceStep PROVE Restored(r)'
  BY <1>1, <1>3 DEF SourceStep, Publish, PullHeroes, database, locals
<1>4. ASSUME BeginRestore(r) PROVE Restored(r)'
  <2>1. /\ taken'[r] = IdsOf(rows) /\ rows' = rows /\ kept' = kept
        /\ left'[r] = kept[r] \ todo'[r]
    BY <1>4 DEF BeginRestore, database, RestoreInv, CopyInv, TypeInv, TypeOK
  <2> QED BY <2>1 DEF Restored
<1>5. ASSUME NEW m \in todo[r], StoreMatch(r, m) PROVE Restored(r)'
  <2> DEFINE id == StoreId(r, m)
             row == [id |-> id, game |-> m.game]
  <2>1. /\ stored'[r] = stored[r] \cup {row}
        /\ taken'[r] = taken[r] \cup {id}
        /\ todo'[r] = todo[r] \ {m}
        /\ rows' = rows /\ kept' = kept /\ left' = left
        /\ pc[r] = "restoring"
    BY <1>5 DEF StoreMatch, RestoreInv, CopyInv, TypeInv, TypeOK
  <2>2. row.id = id /\ row.game = m.game
    OBVIOUS
  <2>3. m.id \in taken'[r]
    BY <2>1 DEF StoreId
  <2>4. /\ IdsOf(stored'[r]) = IdsOf(stored[r]) \cup {id}
        /\ GamesOf(stored'[r]) = GamesOf(stored[r]) \cup {m.game}
    <3> HIDE DEF row, id
    <3> QED BY <2>1, <2>2 DEF IdsOf, GamesOf
  <2> HIDE DEF row, id
  <2> QED BY <2>1, <2>3, <2>4 DEF Restored, RestoreInv
<1>6. ASSUME NEW s \in Rebuilders, ReadKept(s) PROVE Restored(r)'
  <2>1. pc'[r] = "restoring" => pc[r] = "restoring" /\ ~Idle
    BY <1>6 DEF ReadKept, Goto, Idle, RestoreInv, CopyInv, TypeInv, TypeOK
  <2> QED BY <1>6, <2>1 DEF ReadKept, Undisturbed
<1>7. ASSUME NEW s \in Rebuilders, RebuildStep(s) \/ Fail(s) PROVE Restored(r)'
  BY <1>4, <1>5, <1>7, RestoreBegins, RestoreGoesOn DEF RestoreInv, CopyInv
<1>8. CASE UNCHANGED vars
  BY <1>1, <1>8 DEF vars
<1> QED BY <1>2, <1>3, <1>6, <1>7, <1>8 DEF Next

\* A rebuild that commits its restore has each match it could name under its
\* own id, or under another because a row of the table has that id, when
\* nothing disturbs it.
THEOREM IdsAreKept ==
    ASSUME Undisturbed
    PROVE  Spec => KeepsIds
<1>1. RestoreInv /\ [Next]_vars =>
        [\A r \in Rebuilders :
            pc[r] = "restoring" /\ pc'[r] = "committed" =>
                \A m \in kept[r] \ left[r] :
                    /\ m.game \in GamesOf(rows')
                    /\ m.id \in IdsOf(rows')]_vars
  <2> SUFFICES ASSUME RestoreInv, Next, NEW r \in Rebuilders,
                      pc[r] = "restoring", pc'[r] = "committed"
               PROVE  \A m \in kept[r] \ left[r] :
                          m.game \in GamesOf(rows') /\ m.id \in IdsOf(rows')
    OBVIOUS
  <2>1. CommitRestore(r)
    <3>1. PICK s \in Rebuilders : RebuildStep(s) \/ Fail(s)
      BY DEF Next, OwnerStep, SourceStep, RecordInsert, RecordCommit, RecordAbort,
             DeleteMatch, Migrate, Publish, PullHeroes, ReadKept, Goto, RestoreInv, CopyInv,
             TypeInv, TypeOK
    <3>2. s = r
      BY <3>1, UnderWay DEF RestoreInv, CopyInv, Apart
    <3>3. ASSUME Ends(r) PROVE FALSE
      BY <3>3 DEF Ends, Goto, RestoreInv, CopyInv, TypeInv, TypeOK
    <3> QED
      BY <3>1, <3>2, <3>3
      DEF RebuildStep, LoadMatches, TruncateKept, WriteKept, QueueDrop, DropAll,
          ApplyMigrations, FillRoster, FinishEmpty, BeginRestore, TablesMoved, DropDeadlock,
          StoreDeadlock, StoreMatch, StoreCollides, RemoveKept, TruncateLeft, WriteLeft, Fail
  <2>2. rows' = rows \cup stored[r] /\ todo[r] = {}
    BY <2>1 DEF CommitRestore
  <2>3. IdsOf(rows') = IdsOf(rows) \cup IdsOf(stored[r]) /\ GamesOf(stored[r]) \subseteq GamesOf(rows')
    BY <2>2 DEF IdsOf, GamesOf
  <2> QED BY <2>2, <2>3 DEF RestoreInv, Restored
<1>2. RestoreInv /\ [Next]_vars => RestoreInv'
  BY RestoreStep
<1> QED BY <1>1, <1>2, RestoreInit, PTL DEF Spec, KeepsIds

-----------------------------------------------------------------------------
(* The identity stays ahead of the ids in use.                             *)

\* No row, committed or not, has an id past the identity.
Ahead ==
    /\ \A x \in rows \cup open : x.id <= seq
    /\ \A r \in Rebuilders : \A x \in stored[r] : x.id <= seq

AheadInv == CopyInv /\ Ahead

LEMMA AheadInit == Init => AheadInv
BY CopyInit DEF Init, AheadInv, Ahead

\* Only a restore stores, and then nobody else has a row that is not committed.
LEMMA StoresAlone ==
    ASSUME CopyInv, NEW r \in Rebuilders, pc[r] # "idle"
    PROVE  /\ open = {} /\ \A s \in Rebuilders \ {r} : pc[s] = "idle" /\ stored[s] = {}
           /\ pc[r] # "restoring" => stored[r] = {}
BY DEF CopyInv, TypeInv, TypeOK, Named, Apart, Idle

\* What a stored match does to the identity: it is past the match's row, and
\* past every row the restore sees.
LEMMA StoreAhead ==
    ASSUME AheadInv, NEW r \in Rebuilders, NEW m \in todo[r], StoreMatch(r, m)
    PROVE  Ahead'
<1> DEFINE row == [id |-> StoreId(r, m), game |-> m.game]
<1>1. /\ pc[r] = "restoring" /\ rows' = rows /\ open' = open
      /\ stored' = [stored EXCEPT ![r] = @ \cup {row}]
  BY DEF StoreMatch
<1>2. /\ open' = {} /\ stored'[r] = stored[r] \cup {row} /\ row.id = StoreId(r, m)
      /\ \A s \in Rebuilders \ {r} : stored'[s] = {}
  BY <1>1, StoresAlone DEF AheadInv, CopyInv, TypeInv, TypeOK
<1>3. /\ \A x \in rows \cup stored[r] \cup {row} : x.id \in Nat
      /\ \A x \in rows \cup stored[r] : x.id <= seq
      /\ seq \in Nat /\ seq' \in Nat
  <2>1. seq' \in Nat
    BY TypeStep DEF AheadInv, CopyInv, TypeInv, TypeOK, Next, RebuildStep
  <2>2. m \in Match
    BY DEF AheadInv, CopyInv, TypeInv, TypeOK
  <2>3. row.id \in Nat
    BY <1>2, <2>2 DEF StoreId, Match, AheadInv, CopyInv, TypeInv, TypeOK
  <2> HIDE DEF row
  <2> QED BY <2>1, <2>3 DEF AheadInv, Ahead, CopyInv, TypeInv, TypeOK, Row
<1> HIDE DEF row
<1>4. CASE m.id \in taken[r]
  <2>1. seq' = seq + 1 /\ row.id = seq'
    BY <1>2, <1>4 DEF StoreMatch, StoreId
  <2> QED BY <1>1, <1>2, <1>3, <2>1 DEF Ahead
<1>5. CASE m.id \notin taken[r]
  <2>1. SetIdentity(IdsOf(rows \cup stored'[r]))
    BY <1>5 DEF StoreMatch
  <2>2. \A x \in rows \cup stored'[r] : x.id <= seq'
    BY <2>1 DEF SetIdentity, IdsOf
  <2> QED BY <1>1, <1>2, <2>2 DEF Ahead
<1> QED BY <1>4, <1>5

LEMMA AheadStep ==
    ASSUME Undisturbed
    PROVE  AheadInv /\ [Next]_vars => AheadInv'
<1> SUFFICES ASSUME AheadInv, [Next]_vars PROVE Ahead'
  BY CopyStep DEF AheadInv
<1>0. /\ seq \in Nat /\ \A x \in rows \cup open : x.id \in Nat
      /\ \A r \in Rebuilders : \A x \in stored[r] : x.id \in Nat
      /\ stored \in [Rebuilders -> SUBSET Row]
  BY DEF AheadInv, CopyInv, TypeInv, TypeOK, Row
<1>1. ASSUME UNCHANGED <<rows, open, seq>>, \A r \in Rebuilders : stored'[r] \subseteq stored[r]
      PROVE  Ahead'
  BY <1>1 DEF Ahead, AheadInv
<1>2. ASSUME OwnerStep PROVE Ahead'
  <2>1. ASSUME NEW g \in Games, RecordInsert(g) PROVE Ahead'
    <3>1. /\ seq' = seq + 1 /\ rows' = rows /\ stored' = stored
          /\ \A x \in open' : x \in open \/ x.id = seq + 1
      BY <2>1 DEF RecordInsert, locals
    <3> QED BY <1>0, <3>1 DEF Ahead, AheadInv
  <2>2. ASSUME NEW g \in Games, RecordCommit(g) PROVE Ahead'
    BY <2>2 DEF RecordCommit, locals, Ahead, AheadInv
  <2>3. ASSUME NEW g \in Games, RecordAbort(g) PROVE Ahead'
    BY <2>3 DEF RecordAbort, locals, database, Ahead, AheadInv
  <2>4. ASSUME NEW row \in rows, DeleteMatch(row) PROVE Ahead'
    BY <2>4 DEF DeleteMatch, locals, Ahead, AheadInv
  <2>5. ASSUME Migrate PROVE Ahead'
    <3>1. rows' = {} /\ open' = open /\ open = {} /\ stored' = stored /\ Idle
      BY <2>5 DEF Migrate, locals, OwnerMayAct, Undisturbed, AheadInv, CopyInv, TableFirst
    <3>2. \A r \in Rebuilders : stored[r] = {}
      BY <3>1 DEF Idle, AheadInv, CopyInv, TypeInv, Named
    <3> QED BY <3>1, <3>2 DEF Ahead
  <2> QED BY <1>2, <2>1, <2>2, <2>3, <2>4, <2>5 DEF OwnerStep
<1>3. ASSUME SourceStep PROVE Ahead'
  BY <1>1, <1>3 DEF SourceStep, Publish, PullHeroes, database, locals
<1>4. ASSUME NEW r \in Rebuilders, ReadKept(r) PROVE Ahead'
  BY <1>1, <1>4 DEF ReadKept, database
<1>5. ASSUME NEW r \in Rebuilders, RebuildStep(r) \/ Fail(r) PROVE Ahead'
  <2>1. /\ open = {} /\ \A s \in Rebuilders \ {r} : stored[s] = {}
        /\ pc[r] # "restoring" => stored[r] = {}
    BY <1>5, UnderWay, StoresAlone DEF AheadInv
  <2>2. ASSUME Ends(r) PROVE \A s \in Rebuilders : stored'[s] = {}
    BY <1>0, <2>1, <2>2 DEF Ends
  <2>3. ASSUME NEW m \in todo[r], StoreMatch(r, m) PROVE Ahead'
    BY <2>3, StoreAhead
  <2>4. ASSUME NEW m \in todo[r], StoreCollides(r, m) PROVE Ahead'
    <3>1. /\ rows' = rows /\ open' = {} /\ \A s \in Rebuilders : stored'[s] = {}
          /\ seq' \in {seq, seq + 1}
      BY <2>1, <2>2, <2>4 DEF StoreCollides, StoreId
    <3> QED BY <1>0, <3>1 DEF Ahead, AheadInv
  <2>5. CASE DropAll(r) \/ ApplyMigrations(r)
    BY <2>1, <2>5 DEF DropAll, ApplyMigrations, locals, Ahead
  <2>6. CASE CommitRestore(r)
    BY <1>0, <2>6 DEF CommitRestore, Ahead, AheadInv
  <2>7. CASE \/ LoadMatches(r) \/ TruncateKept(r) \/ WriteKept(r) \/ QueueDrop(r)
             \/ FillRoster(r) \/ BeginRestore(r) \/ TruncateLeft(r)
    BY <1>1, <2>7 DEF LoadMatches, TruncateKept, WriteKept, QueueDrop, FillRoster,
       BeginRestore, TruncateLeft, database, locals
  <2>8. CASE \/ FinishEmpty(r) \/ TablesMoved(r) \/ RemoveKept(r) \/ WriteLeft(r) \/ Fail(r)
             \/ \E s \in Rebuilders : DropDeadlock(r, s) \/ StoreDeadlock(r, s)
    BY <1>1, <2>2, <2>8 DEF FinishEmpty, TablesMoved, RemoveKept, WriteLeft, Fail,
       DropDeadlock, StoreDeadlock, database
  <2> QED BY <1>5, <2>3, <2>4, <2>5, <2>6, <2>7, <2>8 DEF RebuildStep
<1>6. CASE UNCHANGED vars
  BY <1>1, <1>6 DEF vars
<1> QED BY <1>2, <1>3, <1>4, <1>5, <1>6 DEF Next

\* The id the identity hands out next is free: recorded.store moves it past
\* the ids a restore keeps, when nothing disturbs one.
THEOREM IdentityStays ==
    ASSUME Undisturbed
    PROVE  Spec => []IdentityAhead
<1>1. AheadInv /\ [Next]_vars => AheadInv'
  BY AheadStep
<1>2. AheadInv => IdentityAhead
  BY DEF AheadInv, Ahead, IdentityAhead
<1> QED BY <1>1, <1>2, AheadInit, PTL DEF Spec

-----------------------------------------------------------------------------
(* No game twice, but where a death left it twice and the copies differ.   *)

\* What the sources have spelled one way only is spelled so everywhere.
SpeltOnce ==
    /\ \A h \in Heroes : {site[h], roster[h]} \subseteq spelt[h] \cup {Gone}
    /\ \A m \in fileKept : m.name \in spelt[HeroOf[m.game]]
    /\ \A r \in Rebuilders : \A m \in kept[r] \cup left[r] : m.name \in spelt[HeroOf[m.game]]

\* Of the games whose copies have not come to differ: none twice in a set of
\* matches; those in both of two under one id; none in both of two.
SoleEach(S)     == \A x, y \in S : x.game = y.game /\ ~Differ(x.game) => x = y
SameId(S, T)    == \A x \in S, y \in T : x.game = y.game /\ ~Differ(x.game) => x.id = y.id
SoleShared(S, T) ==
    \A x \in S, y \in T : x.game = y.game /\ ~Differ(x.game) => twinned[x.game] = "alike"
NoneBoth(S, T)  == \A x \in S, y \in T : x.game = y.game => Differ(x.game)

\* No match is of a game still to be recorded.
Known(S) == \A x \in S : entry[x.game] # "new"

\* What rebuild r has of each match at each of its points.
Twinned(r) ==
    /\ pc[r] \in {"keeping", "writing"} =>
          SoleEach(kept[r]) /\ SameId(rows, kept[r]) /\ Known(kept[r])
    /\ pc[r] = "writing" => fileKept = {}
    /\ pc[r] \in {"dropped", "applied", "filled", "restoring"} => rows = {}
    /\ pc[r] = "restoring" =>
          /\ todo[r] \cup left[r] \subseteq kept[r] /\ todo[r] \cap left[r] = {}
          /\ SoleEach(stored[r]) /\ Known(stored[r])
          /\ NoneBoth(stored[r], todo[r] \cup left[r])
    /\ pc[r] = "committed" => left[r] \subseteq kept[r] /\ NoneBoth(rows, left[r])
    /\ pc[r] = "rewriting" =>
          /\ SoleEach(left[r]) /\ Known(left[r])
          /\ NoneBoth(rows, left[r]) /\ fileKept = {}

\* The inductive invariant.  A rebuild may leave a match in the file and in the
\* table; the next one makes one of the two copies again while they agree.
TwinInv ==
    /\ CopyInv
    /\ SpeltOnce
    /\ \A x \in open : entry[x.game] = "new"
    /\ \A x, y \in open : x.game = y.game => x = y
    /\ SoleEach(rows) /\ Known(rows)
    /\ SoleEach(fileKept) /\ Known(fileKept)
    /\ Idle \/ (\E r \in Rebuilders : pc[r] \in {"read", "keeping"}) =>
          SameId(rows, fileKept) /\ SoleShared(rows, fileKept)
    /\ \A r \in Rebuilders : Twinned(r)

LEMMA TwinInit == Init => TwinInv
BY CopyInit, MatchesAssumption
   DEF Init, TwinInv, SpeltOnce, SoleEach, SameId, SoleShared, Known, Twinned

\* Copies that differ go on differing.
LEMMA DifferStays ==
    ASSUME TypeInv, [Next]_vars, NEW g \in Games, Differ(g)
    PROVE  Differ(g)'
<1> USE DEF Differ
<1>1. ASSUME twinned' = twinned, spelt' = spelt PROVE Differ(g)'
  BY <1>1
<1>2. ASSUME NEW h \in Heroes, NEW name \in Names, Publish(h, name) PROVE Differ(g)'
  <2>1. twinned' = twinned /\ \A k \in Heroes : spelt[k] \subseteq spelt'[k]
    BY <1>2 DEF Publish, TypeInv, TypeOK
  <2> QED BY <2>1, MatchesAssumption
<1>3. ASSUME NEW r \in Rebuilders, Fail(r) PROVE Differ(g)'
  <2>1. spelt' = spelt /\ twinned'[g] = Twin(g)
    BY <1>3 DEF Fail
  <2>2. /\ twinned[g] = "unlike" => Twin(g) = "unlike"
        /\ twinned[g] = "alike" => Twin(g) \in {"alike", "unlike"}
    BY DEF Twin
  <2> QED BY <2>1, <2>2
<1>4. ASSUME NEW r \in Rebuilders, ReadKept(r) \/ RebuildStep(r) PROVE Differ(g)'
  BY <1>1, <1>4
  DEF ReadKept, RebuildStep, LoadMatches, TruncateKept, WriteKept, QueueDrop, DropAll,
      ApplyMigrations, FillRoster, FinishEmpty, BeginRestore, TablesMoved, DropDeadlock,
      StoreDeadlock, StoreMatch, StoreCollides, CommitRestore, RemoveKept, TruncateLeft,
      WriteLeft, history
<1>5. ASSUME OwnerStep \/ PullHeroes PROVE Differ(g)'
  BY <1>1, <1>5
  DEF OwnerStep, RecordInsert, RecordCommit, RecordAbort, DeleteMatch, Migrate, PullHeroes,
      history
<1>6. CASE UNCHANGED vars
  BY <1>1, <1>6 DEF vars
<1> QED BY <1>2, <1>3, <1>4, <1>5, <1>6 DEF Next, SourceStep

\* A spelling is published before the roster, a row or a copy has it.
LEMMA SpeltStep ==
    ASSUME TypeInv, SpeltOnce, [Next]_vars
    PROVE  SpeltOnce'
<1> USE MatchesAssumption DEF SpeltOnce
<1>0. /\ fileKept \subseteq Match /\ kept \in [Rebuilders -> SUBSET Match]
      /\ left \in [Rebuilders -> SUBSET Match] /\ todo \in [Rebuilders -> SUBSET Match]
      /\ site \in [Heroes -> Names] /\ roster \in [Heroes -> Names]
      /\ spelt \in [Heroes -> SUBSET Spellings]
      /\ \A m \in Match : m.game \in Games /\ HeroOf[m.game] \in Heroes
  BY DEF TypeInv, TypeOK, Match
\* A step that moves copies from one place to another.
<1>1. ASSUME UNCHANGED <<site, spelt>>,
             roster' = roster \/ roster' = Pulled \/ roster' = [h \in Heroes |-> Gone],
             \A m \in fileKept' : m \in fileKept \/ \E r \in Rebuilders : m \in kept[r] \cup left[r],
             \A r \in Rebuilders : kept'[r] \cup left'[r] \subseteq kept[r] \cup left[r]
                                                         \cup fileKept \cup Loaded
      PROVE  SpeltOnce'
  <2>1. \A h \in Heroes : {site'[h], roster'[h]} \subseteq spelt'[h] \cup {Gone}
    BY <1>0, <1>1 DEF Pulled
  <2>2. \A m \in Loaded : m.name \in spelt[HeroOf[m.game]]
    <3> SUFFICES ASSUME NEW row \in rows PROVE roster[HeroOf[row.game]] \in spelt[HeroOf[row.game]]
      BY DEF Loaded
    <3>1. row.game \in Games /\ roster[HeroOf[row.game]] # Gone
      BY DEF TypeInv, TypeOK, Named, Rostered, Row
    <3> QED BY <3>1
  <2> QED BY <1>1, <2>1, <2>2
<1>2. ASSUME NEW h \in Heroes, NEW name \in Names, Publish(h, name) PROVE SpeltOnce'
  <2>1. /\ UNCHANGED <<roster, fileKept, kept, left>>
        /\ site' = [site EXCEPT ![h] = name]
        /\ spelt' = [spelt EXCEPT ![h] = @ \cup ({name} \ {Gone})]
    BY <1>2 DEF Publish, database, file, locals
  <2>2. \A k \in Heroes : spelt[k] \subseteq spelt'[k] /\ site'[k] \in spelt'[k] \cup {Gone}
    BY <1>0, <2>1
  <2> QED BY <1>0, <2>1, <2>2
<1>3. CASE PullHeroes
  BY <1>1, <1>3 DEF PullHeroes, file, locals, history
<1>4. CASE OwnerStep
  BY <1>1, <1>4 DEF OwnerStep, RecordInsert, RecordCommit, RecordAbort, DeleteMatch, Migrate,
                    database, file, locals, history
<1>5. ASSUME NEW r \in Rebuilders, Ends(r), UNCHANGED <<roster, site, spelt>>,
             fileKept' \in {fileKept, {}, left[r]}
      PROVE  SpeltOnce'
  <2>1. \A s \in Rebuilders : kept'[s] \subseteq kept[s] /\ left'[s] \subseteq left[s]
    BY <1>0, <1>5 DEF Ends
  <2> QED BY <1>1, <1>5, <2>1
<1>6. ASSUME NEW r \in Rebuilders, ReadKept(r) \/ RebuildStep(r) \/ Fail(r) PROVE SpeltOnce'
  <2>1. CASE ReadKept(r)
    BY <1>0, <1>1, <2>1 DEF ReadKept, database, file, history
  <2>2. CASE LoadMatches(r)
    BY <1>0, <1>1, <2>2 DEF LoadMatches, Merged, database, file, history
  <2>3. CASE TruncateKept(r) \/ WriteKept(r) \/ QueueDrop(r) \/ TruncateLeft(r)
    BY <1>1, <2>3 DEF TruncateKept, WriteKept, QueueDrop, TruncateLeft, database, file,
                      locals, history
  <2>4. CASE DropAll(r) \/ ApplyMigrations(r) \/ FillRoster(r) \/ CommitRestore(r)
    BY <1>1, <2>4 DEF DropAll, ApplyMigrations, FillRoster, CommitRestore, file, locals,
                      history
  <2>5. CASE BeginRestore(r)
    BY <1>0, <1>1, <2>5 DEF BeginRestore, database, file, history
  <2>6. CASE \E m \in todo[r] : StoreMatch(r, m)
    BY <1>1, <2>6 DEF StoreMatch, file, history
  <2>7. CASE \/ FinishEmpty(r) \/ TablesMoved(r) \/ RemoveKept(r) \/ WriteLeft(r) \/ Fail(r)
             \/ \E m \in todo[r] : StoreCollides(r, m)
             \/ \E s \in Rebuilders : DropDeadlock(r, s) \/ StoreDeadlock(r, s)
    BY <1>5, <2>7 DEF FinishEmpty, TablesMoved, RemoveKept, WriteLeft, Fail, StoreCollides,
                      DropDeadlock, StoreDeadlock, database, file, history
  <2> QED BY <1>6, <2>1, <2>2, <2>3, <2>4, <2>5, <2>6, <2>7 DEF RebuildStep
<1>7. CASE UNCHANGED vars
  BY <1>1, <1>7 DEF vars
<1> QED BY <1>2, <1>3, <1>4, <1>6, <1>7 DEF Next, SourceStep

\* The owner's tools act between rebuilds, and a match recorded is new to the
\* table and to the file.
LEMMA OwnerTwins ==
    ASSUME Undisturbed, TwinInv, OwnerStep
    PROVE  TwinInv'
<1>1. CopyInv' /\ SpeltOnce'
  BY OwnerCopies, SpeltStep DEF TwinInv, CopyInv, Next
<1>2. Idle /\ UNCHANGED <<pc, fileKept, twinned, spelt>>
  BY DEF OwnerStep, RecordInsert, RecordCommit, RecordAbort, DeleteMatch, Migrate, OwnerMayAct,
     Undisturbed, TwinInv, CopyInv, Apart, GamesOf, file, history
<1>3. \A r \in Rebuilders : Twinned(r)'
  BY <1>2 DEF Idle, Twinned
<1>4. /\ entry \in [Games -> {"new", "recorded", "deleted"}]
      /\ \A x \in rows \cup open \cup fileKept : x.game \in Games
  BY DEF TwinInv, CopyInv, TypeInv, TypeOK, Row, Match
<1>5. \A g \in Games : Differ(g)' = Differ(g)
  BY <1>2 DEF Differ
<1> USE DEF TwinInv, SoleEach, SameId, SoleShared, Known
<1>6. ASSUME NEW g \in Games, RecordInsert(g) PROVE TwinInv'
  <2>1. /\ entry[g] = "new" /\ \A x \in open : x.game # g
        /\ UNCHANGED <<rows, entry>>
    BY <1>6 DEF RecordInsert, GamesOf, history
  <2>2. open' = open \/ open' = open \cup {[id |-> seq', game |-> g]}
    BY <1>6 DEF RecordInsert
  <2>3. (\A x \in open' : entry[x.game] = "new") /\ \A x, y \in open' : x.game = y.game => x = y
    BY <2>1, <2>2
  <2> QED BY <1>1, <1>2, <1>3, <1>4, <1>5, <2>1, <2>3
<1>7. ASSUME NEW g \in Games, RecordCommit(g) PROVE TwinInv'
  <2>1. PICK row \in open :
            /\ row.game = g /\ rows' = rows \cup {row} /\ open' = open \ {row}
            /\ entry' = [entry EXCEPT ![g] = "recorded"]
    BY <1>7 DEF RecordCommit
  <2>2. /\ entry[g] = "new" /\ \A x \in open : x # row => x.game # g
        /\ \A x \in rows \cup fileKept : x.game # g
    BY <2>1
  <2> QED BY <1>1, <1>2, <1>3, <1>4, <1>5, <2>1, <2>2
<1>8. ASSUME NEW g \in Games, RecordAbort(g) PROVE TwinInv'
  BY <1>1, <1>2, <1>3, <1>4, <1>5, <1>8 DEF RecordAbort, database, history
<1>9. ASSUME NEW row \in rows, DeleteMatch(row) PROVE TwinInv'
  <2>1. /\ rows' = rows \ {row} /\ open' = open
        /\ entry' = [entry EXCEPT ![row.game] = "deleted"]
    BY <1>9 DEF DeleteMatch
  <2>2. \A x \in open : x.game # row.game
    BY <1>4
  <2> QED BY <1>1, <1>2, <1>3, <1>4, <1>5, <2>1, <2>2
<1>10. ASSUME Migrate PROVE TwinInv'
  BY <1>1, <1>2, <1>3, <1>4, <1>5, <1>10 DEF Migrate, history
<1> QED BY <1>6, <1>7, <1>8, <1>9, <1>10 DEF OwnerStep

\* The sources and the pulls move no match; a hero spelled another way takes
\* games out of those whose copies agree.
LEMMA SourceTwins ==
    ASSUME TwinInv, SourceStep
    PROVE  TwinInv'
<1>1. CopyInv' /\ SpeltOnce'
  BY SourceCopies, SpeltStep DEF TwinInv, CopyInv, Next
<1>2. UNCHANGED <<rows, open, fileKept, pc, kept, todo, left, stored, entry, twinned>>
  BY DEF SourceStep, Publish, PullHeroes, database, file, locals, history
<1>3. \A g \in Games : Differ(g) => Differ(g)'
  BY DifferStays DEF TwinInv, CopyInv, Next
<1>4. /\ \A x \in rows \cup fileKept : x.game \in Games
      /\ \A r \in Rebuilders : \A x \in kept[r] \cup left[r] \cup stored[r] : x.game \in Games
  BY DEF TwinInv, CopyInv, TypeInv, TypeOK, Row, Match
<1>5. \A r \in Rebuilders : Twinned(r)'
  <2> SUFFICES ASSUME NEW r \in Rebuilders PROVE Twinned(r)'
    OBVIOUS
  <2>1. Twinned(r)
    BY DEF TwinInv
  <2> QED BY <1>2, <1>3, <1>4, <2>1 DEF Twinned, SoleEach, SameId, NoneBoth, Known
<1> QED
  BY <1>1, <1>2, <1>3, <1>4, <1>5 DEF TwinInv, Idle, SoleEach, SameId, SoleShared, Known

\* A rebuild may end well where no match is in the table and in the file both.
LEMMA EndsTwins ==
    ASSUME TwinInv, CopyInv', SpeltOnce', NEW r \in Rebuilders, pc[r] # "idle", Ends(r),
           UNCHANGED <<rows, open, entry, twinned, spelt>>,
           SoleEach(fileKept'), Known(fileKept'), NoneBoth(rows, fileKept')
    PROVE  TwinInv'
<1>1. \A s \in Rebuilders : pc'[s] = "idle"
  BY EndsIdle DEF TwinInv, Idle
<1>2. \A x : Differ(x)' = Differ(x)
  BY DEF Differ
<1> QED BY <1>1, <1>2 DEF TwinInv, Idle, Twinned, SoleEach, SameId, SoleShared, NoneBoth, Known

\* A rebuild that dies with a match in the file and in the table both leaves the
\* two under one id, or they differ from then on.
LEMMA FailTwins ==
    ASSUME Undisturbed, TwinInv, NEW r \in Rebuilders, Fail(r)
    PROVE  TwinInv'
<1>1. CopyInv' /\ SpeltOnce'
  BY RebuildCopies, SpeltStep DEF TwinInv, CopyInv, Next
<1>2. /\ Ends(r) /\ UNCHANGED <<rows, open, fileKept, entry, spelt>>
      /\ pc[r] # "idle" /\ twinned' = [g \in Games |-> Twin(g)]
  BY FailPointsAssumption DEF Fail, database, file
<1>3. \A s \in Rebuilders : pc'[s] = "idle"
  BY <1>2, EndsIdle DEF TwinInv
<1>4. \A g \in Games : Differ(g) => Differ(g)'
  BY DifferStays DEF TwinInv, CopyInv, Next
<1>5. \A x \in rows \cup fileKept : x.game \in Games
  BY DEF TwinInv, CopyInv, TypeInv, TypeOK, Row, Match
<1>6. ASSUME NEW x \in rows, NEW m \in fileKept, x.game = m.game, ~Differ(x.game)'
      PROVE  x.id = m.id /\ twinned'[x.game] = "alike"
  <2> DEFINE filed  == {n \in fileKept : n.game = x.game}
             tabled == {row \in rows : row.game = x.game}
  <2>1. m \in filed /\ x \in tabled
    BY <1>6
  <2>2. twinned'[x.game] = Twin(x.game) /\ Twin(x.game) # "unlike"
    BY <1>2, <1>5, <1>6 DEF Differ
  <2>3. Twin(x.game) = "alike" /\ IdsOf(filed) = IdsOf(tabled)
    BY <2>1, <2>2 DEF Twin
  <2>4. m.id \in IdsOf(tabled)
    BY <2>1, <2>3 DEF IdsOf
  <2>5. PICK y \in tabled : y.id = m.id
    BY <2>4 DEF IdsOf
  <2>6. y = x
    BY <1>4, <1>5, <1>6, <2>5 DEF TwinInv, SoleEach
  <2> QED BY <2>2, <2>3, <2>5, <2>6
<1> QED
  BY <1>1, <1>2, <1>3, <1>4, <1>5, <1>6
  DEF TwinInv, Idle, Twinned, SoleEach, SameId, SoleShared, Known

\* Each step of a rebuild that hands matches on hands on each of them once, but
\* for those whose copies differ.
LEMMA RebuildTwins ==
    ASSUME Undisturbed, TwinInv, NEW r \in Rebuilders, ReadKept(r) \/ RebuildStep(r)
    PROVE  TwinInv'
<1>0. CopyInv' /\ SpeltOnce'
  BY RebuildCopies, SpeltStep DEF TwinInv, CopyInv, Next
<1>a. UNCHANGED <<entry, twinned, spelt>>
  BY DEF ReadKept, RebuildStep, LoadMatches, TruncateKept, WriteKept, QueueDrop, DropAll,
      ApplyMigrations, FillRoster, FinishEmpty, BeginRestore, TablesMoved, DropDeadlock,
      StoreDeadlock, StoreMatch, StoreCollides, CommitRestore, RemoveKept, TruncateLeft,
      WriteLeft, history
<1>b. \A x : Differ(x)' = Differ(x)
  BY <1>a DEF Differ
<1>1. ASSUME ReadKept(r) PROVE TwinInv'
  <2>1. /\ Idle /\ pc' = [pc EXCEPT ![r] = "read"]
        /\ UNCHANGED <<rows, open, fileKept>>
    BY <1>1 DEF ReadKept, Goto, Undisturbed, database, file
  <2> QED
    BY <1>0, <1>a, <1>b, <2>1
    DEF TwinInv, CopyInv, TypeInv, TypeOK, Idle, Twinned, SoleEach, SameId, SoleShared, Known
<1>2. ASSUME RebuildStep(r) PROVE TwinInv'
  <2>1. /\ pc[r] # "idle" /\ open = {} /\ ~Idle
        /\ \A s \in Rebuilders \ {r} : pc[s] = "idle"
        /\ pc[r] # "restoring" => stored[r] = {}
    BY <1>2, UnderWay, StoresAlone DEF TwinInv, Idle
  <2>2. /\ pc \in [Rebuilders -> Points] /\ kept \in [Rebuilders -> SUBSET Match]
        /\ todo \in [Rebuilders -> SUBSET Match] /\ left \in [Rebuilders -> SUBSET Match]
        /\ stored \in [Rebuilders -> SUBSET Row]
    BY DEF TwinInv, CopyInv, TypeInv, TypeOK
  \* What a step that goes on to point p has to show.
  <2>3. ASSUME open' = open, NEW p, p # "idle", pc' = [pc EXCEPT ![r] = p],
               SoleEach(rows'), Known(rows'), SoleEach(fileKept'), Known(fileKept'),
               p \in {"read", "keeping"} => SameId(rows', fileKept') /\ SoleShared(rows', fileKept'),
               Twinned(r)'
        PROVE  TwinInv'
    <3>1. pc'[r] = p /\ \A s \in Rebuilders \ {r} : pc'[s] = "idle"
      BY <2>1, <2>2, <2>3
    <3>2. \A s \in Rebuilders \ {r} : Twinned(s)'
      BY <3>1 DEF Twinned
    <3> QED
      BY <1>0, <1>a, <1>b, <2>1, <2>3, <3>1, <3>2
      DEF TwinInv, Idle, SoleEach, SameId, SoleShared, Known
  <2>4. CASE LoadMatches(r)
    <3>1. /\ pc[r] = "read" /\ UNCHANGED <<rows, open, fileKept>>
          /\ kept'[r] = fileKept \cup Loaded
          /\ \/ kept'[r] = {} /\ pc' = [pc EXCEPT ![r] = "kept"]
             \/ pc' = [pc EXCEPT ![r] = "keeping"]
      BY <2>2, <2>4 DEF LoadMatches, Goto, Merged, database, file, TwinInv, CopyInv, Copied
    <3>2. SameId(rows, fileKept) /\ SoleShared(rows, fileKept)
      BY <3>1 DEF TwinInv
    <3>3. \A m \in Loaded : \E row \in rows :
              /\ m = [id |-> row.id, game |-> row.game, name |-> roster[HeroOf[row.game]]]
              /\ m.id = row.id /\ m.game = row.game /\ m.name \in spelt[HeroOf[m.game]]
      <4> SUFFICES ASSUME NEW row \in rows
                   PROVE  roster[HeroOf[row.game]] \in spelt[HeroOf[row.game]]
        BY DEF Loaded
      <4> QED
        BY MatchesAssumption
        DEF TwinInv, SpeltOnce, CopyInv, TypeInv, TypeOK, Named, Rostered, Row
    <3>4. ASSUME NEW m \in fileKept, NEW n \in Loaded, m.game = n.game, ~Differ(m.game)
          PROVE  m = n
      <4>1. PICK row \in rows :
                /\ n = [id |-> row.id, game |-> row.game, name |-> roster[HeroOf[row.game]]]
                /\ n.id = row.id /\ n.game = row.game /\ n.name \in spelt[HeroOf[n.game]]
        BY <3>3
      <4>2. row.id = m.id /\ twinned[m.game] = "alike"
        BY <3>2, <3>4, <4>1 DEF SameId, SoleShared
      <4>3. m.name \in spelt[HeroOf[m.game]] /\ n.name \in spelt[HeroOf[m.game]]
        BY <3>4, <4>1 DEF TwinInv, SpeltOnce
      <4>4. m.name = n.name
        BY <3>4, <4>2, <4>3 DEF Differ
      <4>5. m \in Match
        BY DEF TwinInv, CopyInv, TypeInv, TypeOK
      <4> QED BY <3>4, <4>1, <4>2, <4>4, <4>5 DEF Match
    <3>5. ASSUME NEW m \in Loaded, NEW n \in Loaded, m.game = n.game, ~Differ(m.game)
          PROVE  m = n
      BY <3>3, <3>5 DEF TwinInv, SoleEach
    <3>6. SoleEach(kept'[r])
      BY <3>1, <3>4, <3>5 DEF TwinInv, SoleEach
    <3>7. Known(kept'[r])
      BY <3>1, <3>3 DEF TwinInv, Known
    <3>8. SameId(rows, kept'[r])
      BY <3>1, <3>2, <3>3 DEF TwinInv, SameId, SoleEach
    <3>9. Twinned(r)'
      BY <1>a, <1>b, <2>2, <3>1, <3>6, <3>7, <3>8 DEF Twinned, SoleEach, SameId, Known
    <3> QED BY <2>3, <3>1, <3>2, <3>9 DEF TwinInv
  <2>5. CASE TruncateKept(r) \/ WriteKept(r) \/ QueueDrop(r)
    <3>1. PICK p \in {"writing", "kept", "queued"} : pc' = [pc EXCEPT ![r] = p]
      BY <2>5 DEF TruncateKept, WriteKept, QueueDrop, Goto
    <3>2. /\ UNCHANGED <<rows, open, kept>>
          /\ fileKept' \in {{}, fileKept, kept[r]}
          /\ fileKept' = kept[r] => fileKept' = fileKept \/ pc[r] = "writing" \/ fileKept' = {}
          /\ p = "writing" => pc[r] = "keeping" /\ fileKept' = {}
      BY <2>2, <2>5, <3>1
      DEF TruncateKept, WriteKept, QueueDrop, Goto, database, file, locals
    <3>3. SoleEach(fileKept') /\ Known(fileKept')
      BY <3>2 DEF TwinInv, Twinned, SoleEach, Known
    <3>4. Twinned(r)'
      <4>1. pc'[r] = p
        BY <2>2, <3>1
      <4>2. p = "writing" => SoleEach(kept[r]) /\ SameId(rows, kept[r]) /\ Known(kept[r])
        BY <3>2 DEF TwinInv, Twinned
      <4> QED BY <1>a, <1>b, <3>1, <3>2, <4>1, <4>2 DEF Twinned, SoleEach, SameId, Known
    <3> QED BY <2>3, <3>1, <3>2, <3>3, <3>4 DEF TwinInv
  <2>6. CASE DropAll(r) \/ ApplyMigrations(r) \/ FillRoster(r)
    <3>1. PICK p \in {"dropped", "applied", "filled"} : pc' = [pc EXCEPT ![r] = p]
      BY <2>6 DEF DropAll, ApplyMigrations, FillRoster, Goto
    <3>2. rows' = {} /\ UNCHANGED <<open, fileKept>>
      BY <2>6 DEF DropAll, ApplyMigrations, FillRoster, file, TwinInv, Twinned
    <3>3. Twinned(r)'
      BY <2>2, <3>1, <3>2 DEF Twinned
    <3> QED BY <2>3, <3>1, <3>2, <3>3 DEF TwinInv, SoleEach, Known
  <2>7. CASE BeginRestore(r)
    <3>1. /\ pc' = [pc EXCEPT ![r] = "restoring"] /\ pc[r] = "filled"
          /\ UNCHANGED <<rows, open, fileKept, kept, stored>>
          /\ todo'[r] \subseteq kept[r] /\ left'[r] = kept[r] \ todo'[r]
      BY <2>2, <2>7 DEF BeginRestore, Goto, database, file
    <3>2. Twinned(r)'
      BY <2>1, <2>2, <3>1 DEF TwinInv, Twinned, SoleEach, Known, NoneBoth
    <3> QED BY <2>3, <3>1, <3>2 DEF TwinInv
  <2>8. ASSUME NEW m \in todo[r], StoreMatch(r, m) PROVE TwinInv'
    <3> DEFINE row == [id |-> StoreId(r, m), game |-> m.game]
    <3>1. /\ pc[r] = "restoring" /\ pc' = pc
          /\ UNCHANGED <<rows, open, fileKept, kept, left>>
          /\ todo'[r] = todo[r] \ {m} /\ stored'[r] = stored[r] \cup {row}
      BY <2>2, <2>8 DEF StoreMatch, file
    <3>2. row.game = m.game
      OBVIOUS
    <3> HIDE DEF row
    <3>3. /\ m \in kept[r] /\ m \notin left[r] /\ entry[m.game] # "new"
          /\ \A x \in (todo[r] \ {m}) \cup left[r] : x.game = m.game => Differ(m.game)
          /\ \A x \in stored[r] : x.game = m.game => Differ(m.game)
      <4>1. /\ kept[r] = fileKept /\ SoleEach(fileKept) /\ Known(fileKept)
            /\ todo[r] \cup left[r] \subseteq kept[r] /\ todo[r] \cap left[r] = {}
            /\ NoneBoth(stored[r], todo[r] \cup left[r])
        BY <3>1 DEF TwinInv, CopyInv, Copied, Twinned
      <4> QED BY <4>1 DEF SoleEach, Known, NoneBoth
    <3>4. Twinned(r)'
      <4>1. Twinned(r)
        BY DEF TwinInv
      <4> QED
        BY <1>a, <1>b, <3>1, <3>2, <3>3, <4>1 DEF Twinned, SoleEach, Known, NoneBoth
    <3>5. pc' = [pc EXCEPT ![r] = "restoring"]
      BY <2>2, <3>1
    <3> QED BY <2>3, <3>1, <3>4, <3>5 DEF TwinInv
  <2>9. CASE CommitRestore(r)
    <3>1. /\ pc[r] = "restoring" /\ pc' = [pc EXCEPT ![r] = "committed"]
          /\ rows' = rows \cup stored[r] /\ rows = {}
          /\ UNCHANGED <<open, fileKept, kept, left>>
      BY <2>9 DEF CommitRestore, Goto, file, TwinInv, Twinned
    <3>2. SoleEach(rows') /\ Known(rows') /\ NoneBoth(rows', left[r]) /\ left[r] \subseteq kept[r]
      BY <3>1 DEF TwinInv, Twinned, SoleEach, Known, NoneBoth
    <3>3. Twinned(r)'
      BY <1>b, <2>2, <3>1, <3>2 DEF Twinned, NoneBoth
    <3> QED BY <2>3, <3>1, <3>2, <3>3 DEF TwinInv
  <2>10. CASE TruncateLeft(r)
    <3>1. /\ pc[r] = "committed" /\ pc' = [pc EXCEPT ![r] = "rewriting"] /\ fileKept' = {}
          /\ UNCHANGED <<rows, open, kept, left>>
      BY <2>10 DEF TruncateLeft, Goto, database, locals
    <3>2. kept[r] = fileKept /\ left[r] \subseteq kept[r] /\ NoneBoth(rows, left[r])
      BY <3>1 DEF TwinInv, CopyInv, Copied, Twinned
    <3>3. Twinned(r)'
      BY <1>a, <1>b, <2>2, <3>1, <3>2 DEF TwinInv, Twinned, SoleEach, Known, NoneBoth
    <3> QED BY <2>3, <3>1, <3>3 DEF TwinInv, SoleEach, Known
  <2>11. CASE FinishEmpty(r) \/ TablesMoved(r) \/ \E m \in todo[r] : StoreCollides(r, m)
    <3>1. /\ Ends(r) /\ UNCHANGED <<rows, open, fileKept>>
          /\ pc[r] \in {"dropped", "applied", "filled", "restoring"}
      BY <2>11 DEF FinishEmpty, TablesMoved, StoreCollides, database, file
    <3>2. rows = {}
      BY <3>1 DEF TwinInv, Twinned
    <3> QED BY <1>0, <1>a, <2>1, <3>1, <3>2, EndsTwins DEF TwinInv, NoneBoth
  <2>12. CASE RemoveKept(r)
    BY <1>0, <1>a, <2>1, <2>12, EndsTwins DEF RemoveKept, database, SoleEach, Known, NoneBoth
  <2>13. CASE WriteLeft(r)
    BY <1>0, <1>a, <2>1, <2>13, EndsTwins DEF WriteLeft, database, TwinInv, Twinned
  <2>14. ASSUME NEW s \in Rebuilders, DropDeadlock(r, s) \/ StoreDeadlock(r, s) PROVE FALSE
    BY <2>1, <2>14 DEF DropDeadlock, StoreDeadlock
  <2> QED
    BY <1>2, <2>4, <2>5, <2>6, <2>7, <2>8, <2>9, <2>10, <2>11, <2>12, <2>13, <2>14
    DEF RebuildStep
<1> QED BY <1>1, <1>2

LEMMA TwinStep ==
    ASSUME Undisturbed
    PROVE  TwinInv /\ [Next]_vars => TwinInv'
<1> SUFFICES ASSUME TwinInv, [Next]_vars PROVE TwinInv'
  OBVIOUS
<1>1. CASE UNCHANGED vars
  <2>1. CopyInv' /\ SpeltOnce'
    BY CopyStep, SpeltStep DEF TwinInv, CopyInv
  <2>2. \A x : Differ(x)' = Differ(x)
    BY <1>1 DEF vars, Differ
  <2> QED
    BY <1>1, <2>1, <2>2
    DEF vars, TwinInv, Idle, Twinned, SoleEach, SameId, SoleShared, NoneBoth, Known
<1> QED BY <1>1, OwnerTwins, SourceTwins, RebuildTwins, FailTwins DEF Next

\* No rebuild stores one game twice, wherever the one before it died, but where
\* that death left the game in the file and in the table both and the two copies
\* have come to differ, which `m not in kept` cannot see (_keep_matches).
THEOREM OneRowKept ==
    ASSUME Undisturbed
    PROVE  Spec => []OneRowAGame
<1>1. TwinInv /\ [Next]_vars => TwinInv'
  BY TwinStep
<1>2. TwinInv => OneRowAGame
  BY DEF TwinInv, SoleEach, OneRowAGame
<1> QED BY <1>1, <1>2, TwinInit, PTL DEF Spec

\* What a rebuild leaves of the table, wherever it dies: each game once, but for
\* copies that differ, and the next id free (db_rebuild, recorded.store).
THEOREM TableStays ==
    ASSUME Undisturbed
    PROVE  Spec => []TableSound
<1>1. OneRowAGame /\ IdentityAhead => TableSound
  BY DEF TableSound
<1> QED BY <1>1, OneRowKept, IdentityStays, PTL


-----------------------------------------------------------------------------
(* The record: one copy of each match, and none of any other.              *)

\* What the refinement assumes beside: no rebuild dies where the matches are in
\* the file and in the table both.  One that does leaves two copies, and a match
\* then deleted from the table is in the file still and comes back.
OnePlace == Undisturbed /\ FailPoints \cap {"kept", "queued", "committed"} = {}

\* No game twice in a set of matches, none in both of two, all on record.
OneEach(S)      == \A x, y \in S : x.game = y.game => x = y
NoneShared(S, T) == \A x \in S, y \in T : x.game # y.game
OnRecord(S)     == \A x \in S : entry[x.game] = "recorded"

\* What rebuild r has of each match at each of its points.
Single(r) ==
    /\ pc[r] = "keeping" => OneEach(kept[r]) /\ OnRecord(kept[r])
    /\ pc[r] = "writing" => OneEach(kept[r]) /\ OnRecord(kept[r]) /\ fileKept = {}
    /\ pc[r] \in {"dropped", "applied", "filled", "restoring"} => rows = {}
    /\ pc[r] = "restoring" =>
          /\ todo[r] \cup left[r] \subseteq kept[r] /\ todo[r] \cap left[r] = {}
          /\ OneEach(stored[r]) /\ OnRecord(stored[r])
          /\ NoneShared(stored[r], todo[r] \cup left[r])
    /\ pc[r] = "committed" => left[r] \subseteq kept[r] /\ NoneShared(rows, left[r])
    /\ pc[r] = "rewriting" =>
          /\ OneEach(left[r]) /\ OnRecord(left[r])
          /\ NoneShared(rows, left[r]) /\ fileKept = {}

\* The inductive invariant: between rebuilds a match is in the table or in
\* the file, once and not in both, and so at every point a rebuild may die.
SingleInv ==
    /\ CopyInv
    /\ \A x \in open : entry[x.game] = "new"
    /\ \A x, y \in open : x.game = y.game => x = y
    /\ OneEach(rows) /\ OnRecord(rows)
    /\ OneEach(fileKept) /\ OnRecord(fileKept)
    /\ Idle \/ (\E r \in Rebuilders : pc[r] \in {"read", "keeping"}) => NoneShared(rows, fileKept)
    /\ \A r \in Rebuilders : Single(r)

LEMMA SingleInit == Init => SingleInv
BY CopyInit DEF Init, SingleInv, OneEach, OnRecord, NoneShared, Single

\* The owner's tools act between rebuilds: a match recorded is new to the
\* table and to the file, and one deleted was not in the file.
LEMMA OwnerSingle ==
    ASSUME OnePlace, SingleInv, OwnerStep
    PROVE  SingleInv'
<1>1. CopyInv'
  BY OwnerCopies DEF OnePlace, SingleInv
<1>2. Idle /\ pc' = pc /\ fileKept' = fileKept
  BY DEF OwnerStep, RecordInsert, RecordCommit, RecordAbort, DeleteMatch, Migrate, OwnerMayAct,
     OnePlace, Undisturbed, SingleInv, CopyInv, Apart, GamesOf, file
<1>3. \A r \in Rebuilders : Single(r)'
  BY <1>2 DEF Idle, Single
<1>4. /\ entry \in [Games -> {"new", "recorded", "deleted"}]
      /\ \A x \in rows \cup open \cup fileKept : x.game \in Games
  BY DEF SingleInv, CopyInv, TypeInv, TypeOK, Row, Match
<1> USE DEF SingleInv, OneEach, OnRecord, NoneShared
<1>5. ASSUME NEW g \in Games, RecordInsert(g) PROVE SingleInv'
  <2>1. /\ entry[g] = "new" /\ \A x \in open : x.game # g
        /\ rows' = rows /\ entry' = entry /\ locals' = locals
    BY <1>5 DEF RecordInsert, GamesOf, history
  <2> DEFINE row == [id |-> seq', game |-> g]
  <2>2. row.game = g /\ (open' = open \/ open' = open \cup {row})
    BY <1>5 DEF RecordInsert
  <2> HIDE DEF row
  <2> QED BY <1>1, <1>2, <1>3, <2>1, <2>2
<1>6. ASSUME NEW g \in Games, RecordCommit(g) PROVE SingleInv'
  <2>1. PICK row \in open :
            /\ row.game = g /\ rows' = rows \cup {row} /\ open' = open \ {row}
            /\ entry' = [entry EXCEPT ![g] = "recorded"]
    BY <1>6 DEF RecordCommit
  <2>2. /\ entry[g] = "new" /\ \A x \in open : x # row => x.game # g
        /\ \A x \in rows \cup fileKept : x.game # g
    BY <2>1
  <2> QED BY <1>1, <1>2, <1>3, <1>4, <2>1, <2>2
<1>7. ASSUME NEW g \in Games, RecordAbort(g) PROVE SingleInv'
  BY <1>1, <1>2, <1>3, <1>7 DEF RecordAbort, database, history
<1>8. ASSUME NEW row \in rows, DeleteMatch(row) PROVE SingleInv'
  <2>1. /\ rows' = rows \ {row} /\ open' = open
        /\ entry' = [entry EXCEPT ![row.game] = "deleted"]
    BY <1>8 DEF DeleteMatch
  <2>2. /\ \A x \in rows' : x.game # row.game
        /\ \A x \in fileKept : x.game # row.game
        /\ \A x \in open : x.game # row.game
    BY <1>2, <2>1
  <2> QED BY <1>1, <1>2, <1>3, <1>4, <2>1, <2>2
<1>9. ASSUME Migrate PROVE SingleInv'
  BY <1>1, <1>2, <1>3, <1>9 DEF Migrate, history
<1> QED BY <1>5, <1>6, <1>7, <1>8, <1>9 DEF OwnerStep

\* A rebuild may end where no match is in the table and in the file both.
LEMMA EndsSingle ==
    ASSUME SingleInv, CopyInv', NEW r \in Rebuilders, pc[r] # "idle", Ends(r),
           UNCHANGED <<rows, open, entry>>,
           OneEach(fileKept'), OnRecord(fileKept'), NoneShared(rows, fileKept')
    PROVE  SingleInv'
BY EndsIdle DEF SingleInv, Single, OneEach, OnRecord, NoneShared

\* Each step of a rebuild that hands matches on hands on each of them once.
LEMMA RebuildSingle ==
    ASSUME OnePlace, SingleInv, NEW r \in Rebuilders,
           ReadKept(r) \/ RebuildStep(r) \/ Fail(r)
    PROVE  SingleInv'
<1>0. CopyInv' /\ Undisturbed
  BY RebuildCopies DEF OnePlace, SingleInv
<1>1. ASSUME ReadKept(r) PROVE SingleInv'
  <2>1. /\ Idle /\ pc' = [pc EXCEPT ![r] = "read"]
        /\ UNCHANGED <<rows, open, fileKept, entry>>
    BY <1>0, <1>1 DEF ReadKept, Goto, Undisturbed, database, file, history
  <2> QED
    BY <1>0, <2>1 DEF SingleInv, CopyInv, TypeInv, TypeOK, Idle, Single, OneEach, OnRecord, NoneShared
<1>2. ASSUME RebuildStep(r) \/ Fail(r) PROVE SingleInv'
  <2>1. /\ pc[r] # "idle" /\ open = {} /\ ~Idle
        /\ \A s \in Rebuilders \ {r} : pc[s] = "idle"
        /\ pc[r] # "restoring" => stored[r] = {}
    BY <1>2, UnderWay, StoresAlone DEF SingleInv, Idle
  <2>2. /\ pc \in [Rebuilders -> Points] /\ kept \in [Rebuilders -> SUBSET Match]
        /\ todo \in [Rebuilders -> SUBSET Match] /\ left \in [Rebuilders -> SUBSET Match]
        /\ stored \in [Rebuilders -> SUBSET Row]
    BY DEF SingleInv, CopyInv, TypeInv, TypeOK
  \* What a step that leaves the record alone has to show.
  <2>3. ASSUME UNCHANGED <<open, entry>>, NEW p, p # "idle", pc' = [pc EXCEPT ![r] = p],
               OneEach(rows') /\ OnRecord(rows'), OneEach(fileKept') /\ OnRecord(fileKept'),
               p \in {"read", "keeping"} => NoneShared(rows', fileKept'), Single(r)'
        PROVE  SingleInv'
    <3>1. pc'[r] = p /\ \A s \in Rebuilders \ {r} : pc'[s] = "idle"
      BY <2>1, <2>2, <2>3
    <3>2. \A s \in Rebuilders \ {r} : Single(s)'
      BY <3>1 DEF Single
    <3> QED
      BY <1>0, <2>1, <2>3, <3>1, <3>2 DEF SingleInv, Idle, OneEach, OnRecord, NoneShared
  <2>4. CASE LoadMatches(r)
    <3>1. /\ pc[r] = "read" /\ UNCHANGED <<rows, open, fileKept, entry>>
          /\ kept'[r] = fileKept \cup Loaded
          /\ \/ kept'[r] = {} /\ pc' = [pc EXCEPT ![r] = "kept"]
             \/ pc' = [pc EXCEPT ![r] = "keeping"]
      BY <2>2, <2>4 DEF LoadMatches, Goto, Merged, database, file, history, SingleInv, CopyInv, Copied
    <3>2. OneEach(Loaded) /\ OnRecord(Loaded) /\ NoneShared(Loaded, fileKept)
      <4>1. \A m \in Loaded : \E row \in rows :
                /\ m = [id |-> row.id, game |-> row.game, name |-> roster[HeroOf[row.game]]]
                /\ m.game = row.game
        BY DEF Loaded
      <4> QED BY <2>1, <3>1, <4>1 DEF SingleInv, OneEach, OnRecord, NoneShared
    <3>3. OneEach(kept'[r]) /\ OnRecord(kept[r])'
      BY <3>1, <3>2 DEF SingleInv, OneEach, OnRecord, NoneShared
    <3>4. Single(r)'
      BY <2>2, <3>1, <3>3 DEF Single, OneEach, OnRecord
    <3> QED BY <2>3, <3>1, <3>4 DEF SingleInv, OneEach, OnRecord, NoneShared
  <2>5. CASE TruncateKept(r) \/ WriteKept(r) \/ QueueDrop(r)
    <3>1. PICK p \in {"writing", "kept", "queued"} : pc' = [pc EXCEPT ![r] = p]
      BY <2>5 DEF TruncateKept, WriteKept, QueueDrop, Goto
    <3>2. /\ UNCHANGED <<rows, open, entry, kept>>
          /\ fileKept' \in {{}, fileKept, kept[r]}
          /\ fileKept' = kept[r] => fileKept' = fileKept \/ pc[r] = "writing" \/ fileKept' = {}
          /\ p = "writing" => pc[r] = "keeping" /\ fileKept' = {}
      BY <2>2, <2>5, <3>1
      DEF TruncateKept, WriteKept, QueueDrop, Goto, database, file, locals, history
    <3>3. /\ OneEach(fileKept') /\ OnRecord(fileKept)'
          /\ OneEach(rows') /\ OnRecord(rows)'
      BY <3>2 DEF SingleInv, Single, OneEach, OnRecord
    <3>4. Single(r)'
      BY <2>2, <3>1, <3>2 DEF SingleInv, Single, OneEach, OnRecord
    <3> QED BY <2>3, <3>1, <3>2, <3>3, <3>4 DEF OneEach, OnRecord
  <2>6. CASE DropAll(r) \/ ApplyMigrations(r) \/ FillRoster(r)
    <3>1. PICK p \in {"dropped", "applied", "filled"} : pc' = [pc EXCEPT ![r] = p]
      BY <2>6 DEF DropAll, ApplyMigrations, FillRoster, Goto
    <3>2. rows' = {} /\ UNCHANGED <<open, fileKept, entry>>
      BY <2>6 DEF DropAll, ApplyMigrations, FillRoster, file, history, SingleInv, Single
    <3>3. Single(r)'
      BY <2>2, <3>1, <3>2 DEF Single
    <3> QED BY <2>3, <3>1, <3>2, <3>3 DEF SingleInv, OneEach, OnRecord, NoneShared
  <2>7. CASE BeginRestore(r)
    <3>1. /\ pc' = [pc EXCEPT ![r] = "restoring"] /\ pc[r] = "filled"
          /\ UNCHANGED <<rows, open, fileKept, entry, kept, stored>>
          /\ todo'[r] \subseteq kept[r] /\ left'[r] = kept[r] \ todo'[r]
      BY <2>2, <2>7 DEF BeginRestore, Goto, database, file, history
    <3>2. Single(r)'
      BY <2>1, <2>2, <3>1 DEF SingleInv, Single, OneEach, OnRecord, NoneShared
    <3> QED BY <2>3, <3>1, <3>2 DEF SingleInv, OneEach, OnRecord
  <2>8. ASSUME NEW m \in todo[r], StoreMatch(r, m) PROVE SingleInv'
    <3> DEFINE row == [id |-> StoreId(r, m), game |-> m.game]
    <3>1. /\ pc[r] = "restoring" /\ pc' = pc
          /\ UNCHANGED <<rows, open, fileKept, entry, kept, left>>
          /\ todo'[r] = todo[r] \ {m} /\ stored'[r] = stored[r] \cup {row}
      BY <2>2, <2>8 DEF StoreMatch, file, history
    <3>2. row.game = m.game
      OBVIOUS
    <3> HIDE DEF row
    <3>3. /\ kept[r] = fileKept /\ OneEach(kept[r]) /\ OnRecord(kept[r])
          /\ m \in kept[r] /\ m \notin left[r]
          /\ \A x \in (todo[r] \ {m}) \cup left[r] : x.game # m.game
          /\ \A x \in stored[r] : x.game # m.game
      <4>1. /\ kept[r] = fileKept /\ OneEach(fileKept) /\ OnRecord(fileKept)
            /\ todo[r] \cup left[r] \subseteq kept[r] /\ todo[r] \cap left[r] = {}
            /\ NoneShared(stored[r], todo[r] \cup left[r])
        BY <3>1 DEF SingleInv, CopyInv, Copied, Single
      <4> QED BY <4>1 DEF OneEach, NoneShared
    <3>4. Single(r)'
      BY <3>1, <3>2, <3>3 DEF SingleInv, Single, OneEach, OnRecord, NoneShared
    <3>5. pc' = [pc EXCEPT ![r] = "restoring"]
      BY <2>2, <3>1
    <3> QED BY <2>3, <3>1, <3>4, <3>5 DEF SingleInv, OneEach, OnRecord
  <2>9. CASE CommitRestore(r)
    <3>1. /\ pc[r] = "restoring" /\ pc' = [pc EXCEPT ![r] = "committed"]
          /\ rows' = rows \cup stored[r] /\ rows = {}
          /\ UNCHANGED <<open, fileKept, entry, kept, left>>
      BY <2>9 DEF CommitRestore, Goto, file, history, SingleInv, Single
    <3>2. OneEach(rows') /\ OnRecord(rows)' /\ NoneShared(rows', left[r]) /\ left[r] \subseteq kept[r]
      BY <3>1 DEF SingleInv, Single, OneEach, OnRecord, NoneShared
    <3>3. Single(r)'
      BY <2>2, <3>1, <3>2 DEF Single, NoneShared
    <3> QED BY <2>3, <3>1, <3>2, <3>3 DEF SingleInv, OneEach, OnRecord
  <2>10. CASE TruncateLeft(r)
    <3>1. /\ pc[r] = "committed" /\ pc' = [pc EXCEPT ![r] = "rewriting"] /\ fileKept' = {}
          /\ UNCHANGED <<rows, open, entry, kept, left>>
      BY <2>10 DEF TruncateLeft, Goto, database, locals, history
    <3>2. /\ kept[r] = fileKept /\ left[r] \subseteq kept[r] /\ NoneShared(rows, left[r])
      BY <3>1 DEF SingleInv, CopyInv, Copied, Single
    <3>3. Single(r)'
      BY <2>2, <3>1, <3>2 DEF SingleInv, Single, OneEach, OnRecord, NoneShared
    <3> QED BY <2>3, <3>1, <3>3 DEF SingleInv, OneEach, OnRecord
  <2>11. CASE FinishEmpty(r) \/ TablesMoved(r) \/ \E m \in todo[r] : StoreCollides(r, m)
    <3>1. /\ Ends(r) /\ UNCHANGED <<rows, open, fileKept, entry>>
          /\ pc[r] \in {"dropped", "applied", "filled", "restoring"}
      BY <2>11 DEF FinishEmpty, TablesMoved, StoreCollides, database, file, history
    <3>2. rows = {}
      BY <3>1 DEF SingleInv, Single
    <3> QED BY <1>0, <2>1, <3>1, <3>2, EndsSingle DEF SingleInv, NoneShared
  <2>12. CASE RemoveKept(r)
    BY <1>0, <2>1, <2>12, EndsSingle DEF RemoveKept, database, history, OneEach, OnRecord, NoneShared
  <2>13. CASE WriteLeft(r)
    BY <1>0, <2>1, <2>13, EndsSingle DEF WriteLeft, database, history, SingleInv, Single
  <2>14. CASE Fail(r)
    <3>1. /\ Ends(r) /\ UNCHANGED <<rows, open, fileKept, entry>>
          /\ pc[r] \in {"read", "keeping", "dropped", "applied", "filled", "restoring"}
      BY <2>14, FailPointsAssumption DEF Fail, database, file, OnePlace, Undisturbed, Points
    <3>2. NoneShared(rows, fileKept)
      BY <3>1 DEF SingleInv, Single, NoneShared
    <3> QED BY <1>0, <2>1, <3>1, <3>2, EndsSingle DEF SingleInv
  <2>15. ASSUME NEW s \in Rebuilders, DropDeadlock(r, s) \/ StoreDeadlock(r, s) PROVE FALSE
    BY <2>1, <2>15 DEF DropDeadlock, StoreDeadlock
  <2> QED
    BY <1>2, <2>4, <2>5, <2>6, <2>7, <2>8, <2>9, <2>10, <2>11, <2>12, <2>13, <2>14, <2>15
    DEF RebuildStep
<1> QED BY <1>1, <1>2

LEMMA SingleStep ==
    ASSUME OnePlace
    PROVE  SingleInv /\ [Next]_vars => SingleInv'
<1> SUFFICES ASSUME SingleInv, [Next]_vars PROVE SingleInv'
  OBVIOUS
<1>1. CASE UNCHANGED <<pc, rows, open, fileKept, kept, todo, left, stored, entry>>
  <2>1. CopyInv'
    BY CopyStep DEF OnePlace, SingleInv
  <2> QED BY <1>1, <2>1 DEF SingleInv, Idle, Single, OneEach, OnRecord, NoneShared
<1>2. CASE SourceStep
  BY <1>1, <1>2 DEF SourceStep, Publish, PullHeroes, database, file, locals, history
<1>3. CASE UNCHANGED vars
  BY <1>1, <1>3 DEF vars
<1> QED BY <1>2, <1>3, OwnerSingle, RebuildSingle DEF Next

\* The copies that count hold the matches on record and no others.
LEMMA HeldIsRecorded == SingleInv => Held = Recorded
<1> SUFFICES ASSUME SingleInv PROVE Held \subseteq Recorded
  BY CopyHeld DEF NothingLost, SingleInv
<1>1. GamesOf(rows) \cup GamesOf(fileKept) \subseteq Recorded
  BY DEF SingleInv, OnRecord, GamesOf, Recorded, CopyInv, TypeInv, TypeOK, Row, Match
<1>2. ASSUME NEW r \in Rebuilders PROVE GamesOf(InHand(r)) \subseteq Recorded
  <2>1. \/ pc[r] = "writing" /\ InHand(r) = kept[r]
        \/ pc[r] = "rewriting" /\ InHand(r) = left[r]
        \/ InHand(r) = {}
    BY DEF InHand
  <2>2. /\ pc[r] = "writing" => OnRecord(kept[r])
        /\ pc[r] = "rewriting" => OnRecord(left[r])
        /\ kept[r] \subseteq Match /\ left[r] \subseteq Match
    BY DEF SingleInv, Single, CopyInv, TypeInv, TypeOK
  <2>3. \A x \in InHand(r) : x.game \in Games /\ entry[x.game] = "recorded"
    BY <2>1, <2>2 DEF OnRecord, Match
  <2> QED BY <2>3 DEF GamesOf, Recorded
<1> QED BY <1>1, <1>2 DEF Held

\* What is on record changes by record_match's commit and by delete_match.
LEMMA LedgerStep ==
    ASSUME SingleInv, SingleInv', [Next]_vars
    PROVE  [Record!LedgerNext]_(Record!ledgerVars)
<1>1. Held = Recorded
  BY HeldIsRecorded
<1>2. (Held = Recorded)'
  BY HeldIsRecorded, PTL
<1>3. entry \in [Games -> {"new", "recorded", "deleted"}]
  BY DEF SingleInv, CopyInv, TypeInv, TypeOK
<1>4. ASSUME entry' = entry PROVE UNCHANGED Record!ledgerVars
  <2>1. Recorded' = Recorded /\ Deleted' = Deleted
    BY <1>4 DEF Recorded, Deleted
  <2> QED BY <1>1, <1>2, <2>1 DEF Record!ledgerVars
<1>5. ASSUME NEW g \in Games, RecordCommit(g) PROVE Record!Record(g)
  <2>1. entry[g] = "new" /\ entry' = [entry EXCEPT ![g] = "recorded"]
    BY <1>5 DEF RecordCommit, SingleInv
  <2>2. Recorded' = Recorded \cup {g} /\ Deleted' = Deleted /\ g \notin Recorded \cup Deleted
    BY <1>3, <2>1 DEF Recorded, Deleted
  <2> QED BY <1>1, <1>2, <2>2 DEF Record!Record
<1>6. ASSUME NEW row \in rows, DeleteMatch(row) PROVE \E g \in Games : Record!Delete(g)
  <2>1. row.game \in Games /\ entry[row.game] = "recorded"
    BY DEF SingleInv, OnRecord, CopyInv, TypeInv, TypeOK, Row
  <2>2. entry' = [entry EXCEPT ![row.game] = "deleted"]
    BY <1>6 DEF DeleteMatch
  <2>3. /\ row.game \in Recorded
        /\ Recorded' = Recorded \ {row.game} /\ Deleted' = Deleted \cup {row.game}
    BY <1>3, <2>1, <2>2 DEF Recorded, Deleted
  <2> QED BY <1>1, <1>2, <2>1, <2>3 DEF Record!Delete
<1>7. CASE OwnerStep
  <2>1. ASSUME NEW g \in Games, RecordInsert(g) \/ RecordAbort(g) PROVE entry' = entry
    BY <2>1 DEF RecordInsert, RecordAbort, history
  <2>2. ASSUME Migrate PROVE entry' = entry
    BY <2>2 DEF Migrate, history
  <2> QED BY <1>4, <1>5, <1>6, <1>7, <2>1, <2>2 DEF OwnerStep, Record!LedgerNext
<1>8. CASE SourceStep \/ \E r \in Rebuilders : ReadKept(r) \/ RebuildStep(r) \/ Fail(r)
  <2>1. CASE SourceStep
    BY <1>4, <2>1 DEF SourceStep, Publish, PullHeroes, history
  <2>2. ASSUME NEW r \in Rebuilders, ReadKept(r) \/ RebuildStep(r) \/ Fail(r)
        PROVE  entry' = entry
    BY <2>2
    DEF ReadKept, RebuildStep, LoadMatches, TruncateKept, WriteKept, QueueDrop, DropAll,
        ApplyMigrations, FillRoster, FinishEmpty, BeginRestore, TablesMoved, DropDeadlock,
        StoreDeadlock, StoreMatch, StoreCollides, CommitRestore, RemoveKept, TruncateLeft,
        WriteLeft, Fail, history
  <2> QED BY <1>4, <1>8, <2>1, <2>2
<1>9. CASE UNCHANGED vars
  BY <1>4, <1>9 DEF vars
<1> QED BY <1>7, <1>8, <1>9 DEF Next

\* A rebuild, finished or failed, is invisible to the owner's record: Matches
\* implements Ledger, when nothing disturbs a rebuild and none dies with the
\* matches in two places.
THEOREM ImplementsRecord ==
    ASSUME OnePlace
    PROVE  Spec => ImplementsLedger
<1>1. SingleInv /\ [Next]_vars => SingleInv'
  BY SingleStep
<1>2. Init => Record!LedgerInit
  <2> SUFFICES ASSUME Init PROVE Record!LedgerInit
    OBVIOUS
  <2>1. Held = Recorded /\ Recorded = {} /\ Deleted = {}
    BY SingleInit, HeldIsRecorded DEF Init, Recorded, Deleted
  <2> QED BY <2>1 DEF Record!LedgerInit
<1>3. SingleInv /\ SingleInv' /\ [Next]_vars => [Record!LedgerNext]_(Record!ledgerVars)
  BY LedgerStep
<1> QED BY <1>1, <1>2, <1>3, SingleInit, PTL DEF Spec, ImplementsLedger, Record!LedgerSpec
=============================================================================
