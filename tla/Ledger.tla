------------------------------- MODULE Ledger -------------------------------
(***************************************************************************)
(* What the owner is promised about the recorded matches: a game enters    *)
(* the record when record_match stores it, leaves it when delete_match     *)
(* deletes it, and nothing else - no rebuild, no failure - changes what is *)
(* on record.  Matches.tla is the detailed specification that implements   *)
(* this one while the owner leaves a rebuild alone.                        *)
(***************************************************************************)

CONSTANT Games          \* the games the owner may play and enter

VARIABLES
    onRecord,           \* the games whose match is on record
    deleted             \* the games whose match the owner deleted

ledgerVars == <<onRecord, deleted>>

LedgerInit ==
    /\ onRecord = {}
    /\ deleted = {}

Record(g) ==
    /\ g \notin onRecord \cup deleted
    /\ onRecord' = onRecord \cup {g}
    /\ UNCHANGED deleted

Delete(g) ==
    /\ g \in onRecord
    /\ onRecord' = onRecord \ {g}
    /\ deleted' = deleted \cup {g}

LedgerNext == \E g \in Games : Record(g) \/ Delete(g)

LedgerSpec == LedgerInit /\ [][LedgerNext]_ledgerVars
=============================================================================
