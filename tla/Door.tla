-------------------------------- MODULE Door --------------------------------
(***************************************************************************)
(* The MCP door over HTTP, and the client in web.py that calls it.  Each   *)
(* request has a thread: it checks the token, reads the body, admits the   *)
(* tool calls in it against the client address's rate (HttpServer.admit),  *)
(* has the server handle its messages, and replies.  A tool call leaves    *)
(* one audit line, and so does a request the door turns away.  The rate's  *)
(* window is kept under a lock, by a clock that is read before it.         *)
(*                                                                         *)
(* A message is what becomes of it: "note" needs no answer, "other" runs   *)
(* no tool, "unserved" is no request the server serves, "invalid" a        *)
(* tools/call that reaches no tool, and a tool ends in three ways.         *)
(***************************************************************************)
EXTENDS Integers, Sequences, FiniteSets

CONSTANTS
    MaxPosts,           \* bound: the requests, numbered as they come
    Callers,            \* the client addresses
    Bodies,             \* what each request may hold
    MaxBatch,           \* MAX_BATCH
    RateLimit,          \* RATE_LIMIT, and the seconds it is for
    RateWindow,
    MaxLag,             \* from a thread's reading of the clock to its lock
    MaxTracked,         \* MAX_TRACKED_CLIENTS
    MaxClock            \* bound: the time at which the model stops

Ended    == {"ok", "refused", "crashed"}
CallKind == Ended \cup {"invalid"}
Message  == CallKind \cup {"note", "other", "unserved"}
Posts    == 1..MaxPosts

ASSUME DoorAssumption ==
    /\ MaxPosts \in Nat
    /\ \A r \in Posts : Bodies[r] \subseteq
          [token : BOOLEAN, readable : BOOLEAN, messages : Seq(Message)]
    /\ MaxBatch \in Nat /\ RateLimit \in Nat
    /\ RateWindow \in Nat \ {0} /\ MaxLag \in Nat
    /\ MaxTracked \in Nat /\ MaxClock \in Nat

VARIABLES
    clock,
    post,               \* where each request is: a step, or its reply's status
    from, body,         \* the address it came from, and what it holds
    readAt,             \* the time its thread read
    calls,              \* HttpServer._calls: each address's admitted calls
    tracked,            \*     and the addresses it has an entry for
    overtaken,          \* history: the requests that took the lock after a later reader
    lines,              \* the audit lines each left, by what they say
    answers             \*     and the responses in its reply, each at its
                        \*     message's place in the batch

doorVars == <<clock, post, from, body, readAt, calls, tracked, overtaken, lines, answers>>

Nothing == [token |-> FALSE, readable |-> FALSE, messages |-> <<>>]

DoorInit ==
    /\ clock = 0
    /\ post = [r \in Posts |-> "unsent"]
    /\ from = [r \in Posts |-> CHOOSE c \in Callers : TRUE]
    /\ body = [r \in Posts |-> Nothing]
    /\ readAt = [r \in Posts |-> 0]
    /\ calls = [c \in Callers |-> <<>>]
    /\ tracked = {} /\ overtaken = {}
    /\ lines = [r \in Posts |-> <<>>]
    /\ answers = [r \in Posts |-> <<>>]

-----------------------------------------------------------------------------
\* The messages of those kinds, each at its place.
Those(b, kinds) ==
    [i \in {j \in DOMAIN b.messages : b.messages[j] \in kinds} |-> b.messages[i]]

CallsIn(b) == Cardinality(DOMAIN Those(b, CallKind))

\* The door's threads to the clock: the token, the body, the batch's size.
FirstRefusal(b) ==
    CASE ~b.token                                       -> "401"
      [] b.token /\ ~b.readable                         -> "400"
      [] b.token /\ b.readable /\ Len(b.messages) > MaxBatch -> "413"
      [] OTHER                                          -> "none"

\* _turn_away leaves the line before it replies.
TurnAway(r, status) ==
    /\ post' = [post EXCEPT ![r] = status]
    /\ lines' = [lines EXCEPT ![r] = <<status>>]
    /\ UNCHANGED answers

\* Mutant: a tool's refusal escapes like a crash.
AnswerRaised(m) == IF m \in {"other", "ok"} THEN "result" ELSE "error"

\* Server.handle and _tools_call: a tool's refusal is a result that says so.
AnswerTo(m) ==
    CASE m \in {"other", "ok"}                      -> "result"
      [] m = "refused"                              -> "isError"
      [] m \in {"crashed", "invalid", "unserved"}   -> "error"

\* _dispatch: every message, each tool it reached audited, then the reply.
Dispatch(r, b) ==
    LET answered == Those(b, Message \ {"note"}) IN
    /\ lines' = [lines EXCEPT ![r] = Those(b, Ended)]
    /\ answers' = [answers EXCEPT ![r] = [i \in DOMAIN answered |-> AnswerTo(answered[i])]]
    /\ post' = [post EXCEPT ![r] = IF DOMAIN answered = {} THEN "202" ELSE "200"]

\* A request without a tool call needs no place in the window.
Receive(r, c, b) ==
    /\ post[r] = "unsent" /\ \A q \in Posts : q < r => post[q] # "unsent"
    /\ from' = [from EXCEPT ![r] = c]
    /\ body' = [body EXCEPT ![r] = b]
    /\ readAt' = [readAt EXCEPT ![r] = clock]
    /\ CASE FirstRefusal(b) # "none" -> TurnAway(r, FirstRefusal(b))
         [] FirstRefusal(b) = "none" /\ CallsIn(b) = 0 -> Dispatch(r, b)
         [] OTHER -> post' = [post EXCEPT ![r] = "waiting"] /\ UNCHANGED <<lines, answers>>
    /\ UNCHANGED <<clock, calls, tracked, overtaken>>

\* Mutant: a batch is let in whenever one call would be.
FitsOne(recent, n) == Len(recent) < RateLimit

Fits(recent, n) == Len(recent) + n <= RateLimit

\* Mutant: past MaxTracked, every address but the caller's is forgotten.
NobodySeen(ts, now) == ts # <<>> /\ ts[Len(ts)] = now

\* An address whose last call is within the window.
Seen(ts, now) == ts # <<>> /\ now - ts[Len(ts)] < RateWindow

\* The calls of the window that ends now, in their order.
Within(ts, now) ==
    LET kept[n \in 0..Len(ts)] ==
            IF n = 0 THEN <<>>
            ELSE IF now - ts[n] < RateWindow THEN Append(kept[n - 1], ts[n]) ELSE kept[n - 1]
    IN  kept[Len(ts)]

\* The requests whose threads have taken the lock: those with a tool call.
Locked(r) == post[r] \in {"200", "202", "429"} /\ CallsIn(body[r]) > 0

\* admit, under the lock: the calls of the window that ends at the time read.
Admit(r) ==
    LET c == from[r]  now == readAt[r]  n == CallsIn(body[r])
        recent == Within(calls[c], now)
        known  == [calls EXCEPT ![c] = recent \o [i \in 1..n |-> now]]
        all    == tracked \cup {c}
        kept   == IF Cardinality(all) > MaxTracked
                  THEN {d \in all : Seen(known[d], now)} ELSE all IN
    /\ post[r] = "waiting"
    /\ IF Fits(recent, n)
       THEN /\ Dispatch(r, body[r])
            /\ calls' = [d \in Callers |-> IF d \in kept THEN known[d] ELSE <<>>]
            /\ tracked' = kept
       ELSE /\ TurnAway(r, "429")
            /\ calls' = [calls EXCEPT ![c] = recent]
            /\ tracked' = all
    /\ overtaken' = IF \E q \in Posts : Locked(q) /\ readAt[q] > now
                    THEN overtaken \cup {r} ELSE overtaken
    /\ UNCHANGED <<clock, from, body, readAt>>

\* Time passes; a thread waits for the lock for MaxLag at most.
DoorTick ==
    /\ clock < MaxClock
    /\ \A r \in Posts : post[r] = "waiting" => clock < readAt[r] + MaxLag
    /\ clock' = clock + 1
    /\ UNCHANGED <<post, from, body, readAt, calls, tracked, overtaken, lines, answers>>

DoorNext ==
    \/ DoorTick
    \/ \E r \in Posts :
          Admit(r) \/ \E c \in Callers, b \in Bodies[r] : Receive(r, c, b)

DoorSpec == DoorInit /\ [][DoorNext]_doorVars

-----------------------------------------------------------------------------
(* The client.                                                             *)

\* call_tool: what a relay that sent one tools/call answers with.
CallStatus(r) ==
    CASE post[r] = "200" /\ answers[r][1] = "result"  -> 200
      [] post[r] = "200" /\ answers[r][1] = "isError" -> 400
      [] post[r] = "429"                              -> 429
      [] OTHER                                        -> 502

OneCall(r) == Len(body[r].messages) = 1 /\ CallsIn(body[r]) = 1

-----------------------------------------------------------------------------
(* Properties.                                                             *)

\* The calls of c's requests let in that read a time of S.
LetIn(c, S) ==
    UNION {{r} \X DOMAIN Those(body[r], CallKind) :
              r \in {q \in Posts : from[q] = c /\ readAt[q] \in S /\ post[q] \in {"200", "202"}}}

\* No RateWindow seconds see more calls of one address let in than RateLimit,
\* whomever the clean-up forgets, unless a thread of that address took the lock
\* after a later reader, in them or a lag before: an entry that such a thread
\* ends with its older time is forgotten too early, and so is the start of the
\* window it reads.  Even then no RateWindow - 2 MaxLag of them do: a lag counts
\* once for the time forgotten and once for the call let in next.
RateHeld ==
    \A c \in Callers, t \in 0..MaxClock :
        /\ \/ Cardinality(LetIn(c, t..(t + RateWindow - 1))) <= RateLimit
           \/ \E r \in overtaken : from[r] = c /\ readAt[r] \in (t - MaxLag)..(t + RateWindow - 1)
        /\ Cardinality(LetIn(c, t..(t + RateWindow - 2 * MaxLag - 1))) <= RateLimit

Replied(r) == post[r] \notin {"unsent", "waiting"}

\* The relay blames the one at fault: 200 says the tool ran and answered, 400
\* that it refused its input, 429 that the address was past its rate, and 502
\* everything else; and the log has the tool's line exactly when it ran.
RelayTellsWho ==
    \A r \in Posts : Replied(r) /\ OneCall(r) =>
        /\ CallStatus(r) = 200 <=> lines[r] = <<"ok">>
        /\ CallStatus(r) = 400 <=> lines[r] = <<"refused">>
        /\ CallStatus(r) = 429 <=> lines[r] = <<"429">>
=============================================================================
