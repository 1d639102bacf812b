------------------------------ MODULE MCHouse -------------------------------
(* One run for the parts of the house that share no state: Init picks the  *)
(* part a behaviour is about and the others stay as they began.  The parts *)
(* are the recorded matches with a rebuild that dies and leaves no torn    *)
(* file, and again with one that leaves the matches in one place (Clean),  *)
(* the CSV mirror, the HTTP door, the audit log and the page.              *)
EXTENDS MCMatches, Mirror, Door, Audit, Page, TLC

VARIABLES
    part,
    rows2, hasTable2, seq2, roster2, open2, site2, fileState2, fileKept2, pc2, locks2,
    kept2, todo2, left2, taken2, stored2, entry2, twinned2, spelt2, begun2, failures2,
    changes2

Clean == INSTANCE Matches WITH
    FailPoints <- CleanPoints, MaxRebuilds <- 2,
    rows <- rows2, hasTable <- hasTable2, seq <- seq2, roster <- roster2, open <- open2,
    site <- site2, fileState <- fileState2, fileKept <- fileKept2, pc <- pc2,
    locks <- locks2, kept <- kept2, todo <- todo2, left <- left2, taken <- taken2,
    stored <- stored2, entry <- entry2,
    twinned <- twinned2, spelt <- spelt2, begun <- begun2, failures <- failures2,
    changes <- changes2

cleanVars == <<rows2, hasTable2, seq2, roster2, open2, site2, fileState2, fileKept2, pc2, locks2,
               kept2, todo2, left2, taken2, stored2, entry2, twinned2, spelt2, begun2, failures2,
               changes2>>
houseVars == <<vars, cleanVars, mirrorVars, doorVars, auditVars, pageVars, part>>

\* A spelling is as good as the other, and so is each game with its hero.
Alike ==
    Permutations(Spellings) \cup {[x \in {g1, g3, h1, h2} |->
        CASE x = g1 -> g3 [] x = g3 -> g1 [] x = h1 -> h2 [] x = h2 -> h1]}

\* Requests of one call, and a last of every kind: each tool call by itself, two
\* calls in a batch, no call at all, no token, no JSON, too many messages.
Holding(messages) == [token |-> TRUE, readable |-> TRUE, messages |-> messages]
MCBodies == [r \in Posts |->
    IF r < MaxPosts THEN {Holding(<<"ok">>)}
    ELSE {Holding(<<m>>) : m \in CallKind \cup {"note"}}
         \cup {Holding(<<"invalid", "crashed", "note">>), Holding(<<"other", "unserved">>),
               [Holding(<<"ok">>) EXCEPT !.token = FALSE],
               [Holding(<<"ok">>) EXCEPT !.readable = FALSE],
               Holding([i \in 1..(MaxBatch + 1) |-> "ok"])}]

\* A part at rest begins in one state, and the page with one weight in the
\* file: the weights are alike. So are the spellings of each hero, which are
\* compared with that hero's own: the sources begin with the first of each.
HouseInit ==
    /\ Init /\ Clean!Init /\ MirrorInit /\ DoorInit /\ AuditInit /\ PageInit
    /\ part \in {"matches", "clean", "mirror", "door", "audit", "page"}
    /\ site = [h \in Heroes |-> CHOOSE n \in Spellings : TRUE] /\ site2 = site
    /\ part # "matches" => ~hasTable
    /\ part # "clean" => ~hasTable2
    /\ part # "mirror" => present = {}
    /\ part # "page" => st = [draft |-> CHOOSE d \in Drafts : TRUE, weight |-> NoWeight]
    /\ inFile = CHOOSE w \in Weights : TRUE

HouseNext ==
    /\ UNCHANGED part
    /\ \/ /\ part = "matches" /\ Next
          /\ UNCHANGED <<cleanVars, mirrorVars, doorVars, auditVars, pageVars>>
       \/ /\ part = "clean" /\ Clean!Next
          /\ UNCHANGED <<vars, mirrorVars, doorVars, auditVars, pageVars>>
       \/ /\ part = "mirror" /\ MirrorNext
          /\ UNCHANGED <<vars, cleanVars, doorVars, auditVars, pageVars>>
       \/ /\ part = "door" /\ DoorNext
          /\ UNCHANGED <<vars, cleanVars, mirrorVars, auditVars, pageVars>>
       \/ /\ part = "audit" /\ AuditNext
          /\ UNCHANGED <<vars, cleanVars, mirrorVars, doorVars, pageVars>>
       \/ /\ part = "page" /\ PageNext
          /\ UNCHANGED <<vars, cleanVars, mirrorVars, doorVars, auditVars>>

HouseSpec == HouseInit /\ [][HouseNext]_houseVars

\* Matches.ImplementsLedger: a rebuild is invisible to the owner's record.
LedgerClean == Clean!ImplementsLedger
=============================================================================
