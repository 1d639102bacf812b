-------------------------------- MODULE Page --------------------------------
(***************************************************************************)
(* The board's page in a browser: the board as it is set, the debounced    *)
(* refresh that asks for its facts and its solve, the weight a slider sets *)
(* and may store, and the record tab that posts a played map.  Replies     *)
(* come in any order, refused or not at all; several stores may be on      *)
(* their way, and one the page has given up may still move the file.       *)
(*                                                                         *)
(* A board is a model value: every click that changes the map, the side,   *)
(* the bans or a six is one step to another.  One heuristic stands for the *)
(* sliders.  A reply is drawn only while its request is the newest.        *)
(***************************************************************************)
EXTENDS Integers, FiniteSets

CONSTANTS
    Drafts,             \* the boards a user may set
    Played,             \* those that are a played map: recordLacks is empty
    Weights,            \* the weights the heuristic may have
    NoDraft, NoWeight,
    MaxClicks,          \* bound: the changes, stores and results a user makes
    MaxAsks,            \* bound: the refreshes sent
    MaxFailed           \* bound: the replies that are refused or lost

Asks == 1..MaxAsks

ASSUME PageAssumption ==
    /\ Played \subseteq Drafts /\ NoDraft \notin Drafts
    /\ Drafts # {} /\ Weights # {} /\ NoWeight \notin Weights
    /\ MaxClicks \in Nat /\ MaxAsks \in Nat /\ MaxFailed \in Nat

VARIABLES
    st,                 \* the page's board and the slider's setting
    inFile,             \* the weight in the heuristic's file, at the server
    row,                \* the heuristic's row in the playbook tab: the weight
                        \*     its card was drawn with, the slider's, and
                        \*     whether its store button is enabled
    reading,            \* the cards are being read again
    pending,            \* the debounce timer runs
    latest,             \* the newest refresh sent
    facts, board,       \* its requests: who still waits, and what it asked
    FACTS, INF,         \* what is drawn of each, Unanswered when nothing is
    busy,               \* solving(true) is drawn
    STALE,
    stores,             \* the weights posted: not written, written, or given
                        \*     up by the page before they were
    unsure,             \* history: a store the page gave up moved the file
                        \*     since the last refresh was sent
    enabled,            \* the result buttons
    posts,              \* the results posted and not answered, by press
    recordedKey,        \* the board the last result recorded
    onRecord,           \* the boards the server has recorded
    clicks, failed

cards  == <<row, reading>>
posting == <<stores, unsure>>
drawn  == <<facts, board, FACTS, INF, busy, STALE>>
record == <<enabled, posts, recordedKey, onRecord>>

pageVars == <<st, inFile, cards, pending, latest, facts, board, FACTS, INF, busy, STALE,
              posting, enabled, posts, recordedKey, onRecord, clicks, failed>>

Unanswered == [draft |-> NoDraft, weight |-> NoWeight]

\* A request: not sent, at the server, served with what it saw, or over.
Waiting == {"sent", "served"}
Unsent  == [at |-> "unsent", q |-> Unanswered]
Closed  == [at |-> "over", q |-> Unanswered]

\* The weight a board sent now is solved with: the page's setting, else the
\* file's.
Solved(q) == [draft |-> q.draft, weight |-> IF q.weight = NoWeight THEN inFile ELSE q.weight]

\* weightRow: a row as it is drawn, for the file's weight and the page's.
DrawnRow(w, set) ==
    [inferred |-> w, value |-> IF set = NoWeight THEN w ELSE set, storable |-> set # NoWeight]

\* renderRecord's buttons, drawn by every paint.
Pressable(d, r) == d \in Played /\ d # r

Clicks(n) == clicks + n <= MaxClicks /\ clicks' = clicks + n

PageInit ==
    /\ \E d \in Drafts, w \in Weights \cup {NoWeight} : st = [draft |-> d, weight |-> w]
    /\ inFile \in Weights /\ row = DrawnRow(inFile, st.weight) /\ reading = FALSE
    /\ pending = TRUE
    /\ latest = 0
    /\ facts = [n \in Asks |-> Unsent] /\ board = [n \in Asks |-> Unsent]
    /\ FACTS = Unanswered /\ INF = Unanswered
    /\ busy = FALSE /\ STALE = FALSE
    /\ stores = {} /\ unsure = FALSE
    /\ enabled = (st.draft \in Played)
    /\ posts = {} /\ recordedKey = NoDraft /\ onRecord = {}
    /\ clicks = 0 /\ failed = 0

\* toggle, toggleBan, the map, the side, a clear: another board, painted, and
\* a refresh.
Choose(d) ==
    /\ d # st.draft
    /\ Clicks(1)
    /\ st' = [draft |-> d, weight |-> st.weight]
    /\ enabled' = Pressable(d, recordedKey)
    /\ pending' = TRUE
    /\ UNCHANGED <<inFile, cards, latest, drawn, posting, posts, recordedKey, onRecord, failed>>

\* setWeight: the slider moved, or its reset.
SetWeight(w) ==
    /\ w # row.value \/ (w = row.inferred /\ st.weight # NoWeight)
    /\ Clicks(1)
    /\ st' = [draft |-> st.draft, weight |-> IF w = row.inferred THEN NoWeight ELSE w]
    /\ row' = [row EXCEPT !.value = w, !.storable = w # row.inferred]
    /\ pending' = TRUE
    /\ UNCHANGED <<inFile, reading, latest, drawn, posting, record, failed>>

\* The debounce runs out: both requests are sent, the older board's aborted.
Fire ==
    /\ pending /\ latest < MaxAsks
    /\ pending' = FALSE
    /\ latest' = latest + 1
    /\ facts' = [facts EXCEPT ![latest + 1] = [at |-> "sent", q |-> st]]
    /\ board' = [n \in Asks |-> IF n = latest + 1 THEN [at |-> "sent", q |-> st]
                                ELSE IF board[n].at \in Waiting THEN Closed
                                ELSE board[n]]
    /\ busy' = TRUE /\ unsure' = FALSE
    /\ UNCHANGED <<st, inFile, cards, FACTS, INF, STALE, stores, record, clicks, failed>>

\* The server reads its playbook and solves the board.
Solve(n) ==
    /\ board[n].at = "sent"
    /\ board' = [board EXCEPT ![n] = [at |-> "served", q |-> Solved(board[n].q)]]
    /\ UNCHANGED <<st, inFile, cards, pending, latest, facts, FACTS, INF, busy, STALE,
                   posting, record, clicks, failed>>

\* A mutant: a reply is drawn whichever request it answers.
NewestOrNot(n) == n <= latest

Newest(n) == n = latest

Faulted == failed < MaxFailed /\ failed' = failed + 1

\* A request's reply is over with; it is drawn if the page has not moved past.
FactsAnswered(n) ==
    /\ facts[n].at = "sent"
    /\ facts' = [facts EXCEPT ![n] = Closed]
    /\ FACTS' = IF Newest(n) THEN facts[n].q ELSE FACTS
    /\ UNCHANGED <<st, inFile, cards, pending, latest, board, INF, busy, STALE,
                   posting, record, clicks, failed>>

\* factsFailed: by an error in the reply, or by none coming.
FactsFailed(n, lost) ==
    /\ facts[n].at = "sent"
    /\ Faulted
    /\ facts' = [facts EXCEPT ![n] = Closed]
    /\ FACTS' = IF Newest(n) THEN Unanswered ELSE FACTS
    /\ STALE' = (STALE \/ (Newest(n) /\ lost))
    /\ UNCHANGED <<st, inFile, cards, pending, latest, board, INF, busy,
                   posting, record, clicks>>

\* A solved board, drawn by renderInf, which paints.
BoardAnswered(n) ==
    /\ board[n].at = "served"
    /\ board' = [board EXCEPT ![n] = Closed]
    /\ IF Newest(n)
       THEN INF' = board[n].q /\ busy' = FALSE /\ STALE' = FALSE
            /\ enabled' = Pressable(st.draft, recordedKey)
       ELSE UNCHANGED <<INF, busy, STALE, enabled>>
    /\ UNCHANGED <<st, inFile, cards, pending, latest, facts, FACTS,
                   posting, posts, recordedKey, onRecord, clicks, failed>>

\* An error in the reply, or boardFailed: both leave the page stale.
BoardFailed(n) ==
    /\ board[n].at \in Waiting
    /\ Faulted
    /\ board' = [board EXCEPT ![n] = Closed]
    /\ IF Newest(n)
       THEN INF' = Unanswered /\ busy' = FALSE /\ STALE' = TRUE
            /\ enabled' = Pressable(st.draft, recordedKey)
       ELSE UNCHANGED <<INF, busy, STALE, enabled>>
    /\ UNCHANGED <<st, inFile, cards, pending, latest, facts, FACTS,
                   posting, posts, recordedKey, onRecord, clicks>>

\* A mutant: a page is asked for again only if its facts are missing.
FocusOnFacts ==
    /\ STALE /\ FACTS = Unanswered /\ ~pending
    /\ pending' = TRUE
    /\ UNCHANGED <<st, inFile, cards, latest, drawn, posting, record, clicks, failed>>

\* 'online' or 'focus' on a page whose last refresh failed.
Focus ==
    /\ STALE /\ ~pending
    /\ pending' = TRUE
    /\ UNCHANGED <<st, inFile, cards, latest, drawn, posting, record, clicks, failed>>

\* storeWeight: the slider's weight posted, its button off until the slider is
\* moved, the cards are drawn or the post fails; another may be on its way.
Store ==
    /\ row.storable
    /\ Clicks(1)
    /\ stores' = stores \cup
          {[press |-> clicks + 1, weight |-> row.value, at |-> "posted", here |-> TRUE]}
    /\ row' = [row EXCEPT !.storable = FALSE]
    /\ UNCHANGED <<unsure, st, inFile, reading, pending, latest, drawn, record, failed>>

\* The server's tune writes the file, whether the page still waits or not.
Tuned(s) ==
    /\ s \in stores /\ s.at # "tuned"
    /\ inFile' = s.weight
    /\ stores' = (stores \ {s}) \cup (IF s.at = "posted" THEN {[s EXCEPT !.at = "tuned"]} ELSE {})
    /\ unsure' = (unsure \/ (s.at = "lost" /\ inFile # s.weight))
    /\ UNCHANGED <<st, cards, pending, latest, drawn, record, clicks, failed>>

\* A mutant: the cards are read again and the board is not.
StoreAnsweredQuietly(s) ==
    /\ s \in stores /\ s.at = "tuned"
    /\ stores' = stores \ {s}
    /\ st' = [draft |-> st.draft, weight |-> NoWeight]
    /\ reading' = TRUE
    /\ UNCHANGED <<unsure, inFile, row, pending, latest, drawn, record, clicks, failed>>

\* The reply: the setting is dropped, whatever it is by now, the cards are
\* read again and the board asked for again.
StoreAnswered(s) ==
    /\ s \in stores /\ s.at = "tuned"
    /\ stores' = stores \ {s}
    /\ st' = [draft |-> st.draft, weight |-> NoWeight]
    /\ pending' = TRUE /\ reading' = TRUE
    /\ UNCHANGED <<unsure, inFile, row, latest, drawn, record, clicks, failed>>

\* renderPlaybook: the cards drawn from the files as they are.
CardsRead ==
    /\ reading
    /\ reading' = FALSE /\ row' = DrawnRow(inFile, st.weight)
    /\ stores' = {[s EXCEPT !.here = FALSE] : s \in stores}
    /\ UNCHANGED <<unsure, st, inFile, pending, latest, drawn, record, clicks, failed>>

\* A refusal, or no reply to a weight that is in the file, will be (late) or
\* will not; its button, if it is still on the page, is enabled again.
StoreFailed(s, late) ==
    /\ s \in stores /\ s.at # "lost" /\ (late => s.at = "posted")
    /\ Faulted
    /\ stores' = (stores \ {s}) \cup (IF late THEN {[s EXCEPT !.at = "lost"]} ELSE {})
    /\ unsure' = (unsure \/ s.at = "tuned")
    /\ row' = [row EXCEPT !.storable = @ \/ s.here]
    /\ UNCHANGED <<st, inFile, reading, pending, latest, drawn, record, clicks>>

\* recordMatch: the board as it is, posted; the buttons are off until the next
\* paint.
Press ==
    /\ enabled
    /\ Clicks(1)
    /\ posts' = posts \cup {[press |-> clicks + 1, key |-> st.draft]}
    /\ enabled' = FALSE
    /\ UNCHANGED <<st, inFile, cards, pending, latest, drawn, posting, recordedKey, onRecord, failed>>

\* A mutant: the board as it is when the reply comes.
KeyNow(p) == st.draft

\* The board the page remembers as recorded: the one that was posted.
KeyOf(p) == p.key

MatchAnswered(p) ==
    /\ p \in posts
    /\ posts' = posts \ {p}
    /\ onRecord' = onRecord \cup {p.key}
    /\ recordedKey' = KeyOf(p)
    /\ enabled' = Pressable(st.draft, recordedKey')
    /\ UNCHANGED <<st, inFile, cards, pending, latest, drawn, posting, clicks, failed>>

\* A refusal, or no reply to a match that was recorded or was not.
MatchFailed(p, kept) ==
    /\ p \in posts
    /\ Faulted
    /\ posts' = posts \ {p}
    /\ onRecord' = IF kept THEN onRecord \cup {p.key} ELSE onRecord
    /\ enabled' = Pressable(st.draft, recordedKey)
    /\ UNCHANGED <<st, inFile, cards, pending, latest, drawn, posting, recordedKey, clicks>>

PageNext ==
    \/ \E d \in Drafts : Choose(d)
    \/ \E w \in Weights : SetWeight(w)
    \/ Fire \/ Focus
    \/ \E n \in Asks : \/ Solve(n) \/ FactsAnswered(n) \/ BoardAnswered(n) \/ BoardFailed(n)
                       \/ \E lost \in BOOLEAN : FactsFailed(n, lost)
    \/ Store \/ CardsRead
    \/ \E s \in stores : \/ Tuned(s) \/ StoreAnswered(s)
                        \/ \E late \in BOOLEAN : StoreFailed(s, late)
    \/ Press
    \/ \E p \in posts : MatchAnswered(p) \/ \E kept \in BOOLEAN : MatchFailed(p, kept)

PageSpec == PageInit /\ [][PageNext]_pageVars

\* The timer runs out, a request is answered in the end or fails, and a user
\* whose page is stale comes back to it.
Answered == \E n \in Asks : Solve(n) \/ BoardAnswered(n) \/ BoardFailed(n)
StoreEnds ==
    \/ CardsRead
    \/ \E s \in stores : Tuned(s) \/ StoreAnswered(s) \/ \E late \in BOOLEAN : StoreFailed(s, late)
PageFairness ==
    WF_pageVars(Fire) /\ WF_pageVars(Answered) /\ WF_pageVars(Focus) /\ WF_pageVars(StoreEnds)

-----------------------------------------------------------------------------
(* What the page promises.                                                 *)

Current == Solved(st)

\* Every write of the file has been heard of: its store was answered, and has
\* the board asked for again, or the next refresh has gone out since.
Heard == ~unsure /\ \A s \in stores : s.at # "tuned"

\* A page that is at rest draws what its own settings ask for and nothing
\* older: the facts of the board it shows, the solve of that board under the
\* weights in force, those a store has just moved to the file included, or
\* nothing (board.js, `mine !== seq`), however many stores are on their way.
\* While a store's write is still to be heard of, or has landed after the page
\* gave it up and no refresh has gone out since, the solve is not judged.
ShownIsCurrent ==
    ~pending =>
        /\ FACTS # Unanswered /\ facts[latest].at = "over" => FACTS.draft = st.draft
        /\ ~busy /\ Heard => INF \in {Unanswered, Current}

\* A board comes in the end, however many requests fail on the way and
\* whatever order the replies take: the failure leaves the page stale and the
\* user's return asks again (board.js, the listeners on STALE).  A page that
\* has used up the model's refreshes is not judged.
BoardComes == <>[](latest < MaxAsks => ~busy /\ (~unsure => INF = Current))

\* The page calls recorded only a board the server has recorded, though the
\* board may be changed while its post is on the way (record.js, `key`).
RecordedIsStored == recordedKey \in onRecord \cup {NoDraft}

\* One map is sent once: while a board's result is on its way no other is
\* sent for it.
SentOnce == \A p, q \in posts : p.key = q.key => p = q
=============================================================================
