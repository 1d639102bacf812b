------------------------------- MODULE Boards -------------------------------
(***************************************************************************)
(* The board requests of a server and the process pool they share.  Each   *)
(* request takes a ticket in its client's lane (supersede.Latest), loads   *)
(* the playbook, and walks its searches through their rounds               *)
(* (engine._board_once over parallel.Split), every round asking its Watch  *)
(* whether a newer request replaced it.  A worker may die under any of     *)
(* them, which sends the board to solve again in its own thread; and the   *)
(* tables or the playbook may stop being readable, which fails the board   *)
(* that reads them as it starts, or whose worker rereads the playbook.     *)
(*                                                                         *)
(* A task is one slice of one round of one search; what it computes is     *)
(* left out.                                                               *)
(***************************************************************************)
EXTENDS Integers, Sequences, SequencesExt, FiniteSets

CONSTANTS
    Requests,           \* the board requests
    Clients,            \* the pages that send them
    LaneOf,             \* the client of each request
    Blue, Red,          \* how many picks each draft shows: "none", "some", "six"
    Countered,          \* the requests whose brief asks for the countered case
    Hopeless,           \* the requests whose limits no six satisfies
    Pooled,             \* the requests board() may split across the pool
    Size,               \* the pool's workers
    Slots,              \* the tasks an executor hands out before they are done
    Strangers,          \* boards of pages outside Requests use the pool too
    MaxLive,            \* bound: the requests the server works on at once
    MaxDeaths,          \* bound: the workers that die
    MaxLosses,          \* bound: the times the tables or the playbook are lost
    MaxFaults           \* bound: both together

ASSUME BoardsAssumption ==
    /\ IsFiniteSet(Requests)
    /\ LaneOf \in [Requests -> Clients]
    /\ Blue \in [Requests -> {"none", "some", "six"}]
    /\ Red \in [Requests -> {"none", "some", "six"}]
    /\ Countered \subseteq Requests
    /\ Hopeless \subseteq Requests
    /\ Pooled \subseteq Requests
    /\ Size \in Nat \ {0}
    /\ Slots \in Nat \ {0}
    /\ Strangers \in BOOLEAN
    /\ MaxLive \in Nat \ {0}
    /\ MaxDeaths \in Nat
    /\ MaxLosses \in Nat
    /\ MaxFaults \in Nat

VARIABLES
    newest,             \* Latest: the newest ticket of each client
    ticket,             \* each board's ticket, 0 before it takes one
    pc,                 \* where each board is, or how it ended
    at,                 \* the call of its script it is in
    asked,              \* that call has asked the Watch and goes on
    phase,              \* how far each search of each board is
    uses,               \* the executor each board submits to, 0 for none
    late,               \* history: the rounds it submitted while superseded
    current,            \* POOL's executor, 0 for none
    made,               \* the executors created
    dead, shut,         \* the executors broken by a dead worker, and shut down
    queue,              \* each executor's tasks no worker has taken, in order
    running,            \* each executor's tasks handed to the workers
    done, broken,       \* the tasks whose result, or whose failure, waits to be
    raised,             \*     read; those that raise what board() does not catch
    deaths,             \* the workers that died
    lost, losses,       \* what cannot be read now, and how often something was lost
    met                 \* history: the boards in hand while something was

boardVars  == <<newest, ticket, late>>
walk       == <<pc, at, asked, phase, uses>>
poolVars   == <<current, made, dead, shut>>
taskVars   == <<queue, running, done, broken, raised>>
readVars   == <<lost, losses, met>>
vars       == <<newest, ticket, pc, at, asked, phase, uses, late, current, made, dead,
                shut, queue, running, done, broken, raised, deaths, lost, losses, met>>

Searches  == {"blue", "red", "fill", "redfill", "against", "answer"}
Phases    == {"none", "sampling", "tallying", "scaled", "sweeping", "ranking", "solved"}
Outcomes  == {"answered", "superseded", "refused", "failed"}
Executors == 1..Cardinality(Requests)
Task      == [board : Requests, search : Searches, round : Phases, slice : 1..Size]

-----------------------------------------------------------------------------
(* The script: the calls _board_once makes, in order.                      *)

Drafting(picks) == picks = "some"

\* The searches this request wants; the others only ask the Watch.
Wanted == [b \in Requests |->
    {"blue", "red"}
    \cup (IF Drafting(Blue[b]) THEN {"fill"} ELSE {})
    \cup (IF Drafting(Red[b]) THEN {"redfill"} ELSE {})
    \cup (IF b \in Countered /\ Blue[b] # "none" THEN {"against"} ELSE {})
    \cup (IF b \in Countered /\ Drafting(Blue[b]) THEN {"answer"} ELSE {})]

\* The search whose bounds and standing another takes in place of a sample.
ScaleOf(s) ==
    CASE s = "fill" -> "blue" [] s = "redfill" -> "red" [] s = "answer" -> "against"
      [] OTHER -> s

Call(op, searches) == [i \in DOMAIN searches |-> [op |-> op, of |-> searches[i]]]

When(cond, calls) == IF cond THEN calls ELSE <<>>

\* Mutant: red's fill is sent out and never taken.
ScriptUnread == [b \in Requests |->
    Call("split", <<"blue", "red">>) \o Call("rank", <<"blue", "red">>)
    \o Call("sweep", <<"blue", "red">>)
    \o Call("split", <<"fill", "redfill">>) \o Call("sweep", <<"fill", "redfill">>)
    \o Call("merge", <<"blue", "red">>) \o Call("solved", <<"blue", "red">>)
    \o Call("merge", <<"fill", "redfill">>)
    \o When(Drafting(Blue[b]), Call("solved", <<"fill">>))]

\* What one board calls, round by round, when nothing stops it.
Script == [b \in Requests |->
    Call("split", <<"blue", "red">>) \o Call("rank", <<"blue", "red">>)
    \o Call("sweep", <<"blue", "red">>)
    \o Call("split", <<"fill", "redfill">>) \o Call("sweep", <<"fill", "redfill">>)
    \o Call("merge", <<"blue", "red">>) \o Call("solved", <<"blue", "red">>)
    \o Call("split", <<"against">>) \o Call("sweep", <<"against">>)
    \o Call("split", <<"answer">>) \o Call("sweep", <<"answer">>)
    \o Call("merge", <<"fill", "redfill", "against", "answer">>)
    \o When(Blue[b] = "six", Call("swept", <<"blue">>))
    \o When(Red[b] = "six", Call("swept", <<"red">>))
    \o When(Drafting(Blue[b]), Call("solved", <<"fill">>))
    \o When(Drafting(Red[b]), Call("solved", <<"redfill">>))
    \o When("against" \in Wanted[b],
            Call("solved", <<"against">>)
            \o (IF Drafting(Blue[b]) THEN Call("solved", <<"answer">>)
                ELSE Call("swept", <<"against">>)))]

\* Blue's searches and its fill split over half the workers, the rest over
\* the others.
AtLeastOne(n) == IF n < 1 THEN 1 ELSE n
Half      == AtLeastOne(Size \div 2)
Slices(s) == IF s \in {"blue", "fill"} THEN Half ELSE AtLeastOne(Size - Half)

\* The tasks of one round: every slice of the search, and one tail.
TasksOf(b, s, round) ==
    [i \in 1..(CASE round \in {"sampling", "tallying", "sweeping"} -> Slices(s)
                 [] round = "ranking" -> 1
                 [] OTHER -> 0) |->
        [board |-> b, search |-> s, round |-> round, slice |-> i]]

\* Mutant: a swept search's ranking goes by a name no call knows.
NextRoundMisnamed(round) ==
    CASE round = "sampling" -> "tallying"
      [] round \in {"tallying", "scaled"} -> "sweeping"
      [] round = "sweeping" -> "ranked"
      [] OTHER -> "solved"

\* The round a search goes on to once it has read the one it is in.
NextRound(round) ==
    CASE round = "sampling" -> "tallying"
      [] round \in {"tallying", "scaled"} -> "sweeping"
      [] round = "sweeping" -> "ranking"
      [] OTHER -> "solved"

\* Where a call leaves its search.
Reached(op, round) ==
    CASE op = "rank"   -> round # "sampling"
      [] op = "sweep"  -> round = "sweeping"
      [] op = "merge"  -> round = "ranking"
      [] op = "solved" -> round = "solved"
      [] OTHER         -> TRUE

-----------------------------------------------------------------------------
Init ==
    /\ newest = [c \in Clients |-> 0]
    /\ ticket = [b \in Requests |-> 0]
    /\ pc = [b \in Requests |-> "sent"]
    /\ at = [b \in Requests |-> 1]
    /\ asked = [b \in Requests |-> FALSE]
    /\ phase = [b \in Requests |-> [s \in Searches |-> "none"]]
    /\ uses = [b \in Requests |-> 0]
    /\ late = [b \in Requests |-> 0]
    /\ current = 0
    /\ made = 0
    /\ dead = {}
    /\ shut = {}
    /\ queue = [e \in Executors |-> <<>>]
    /\ running = [e \in Executors |-> {}]
    /\ done = {}
    /\ broken = {}
    /\ raised = {}
    /\ deaths = 0
    /\ lost = {}
    /\ losses = 0
    /\ met = {}

Live(b) == pc[b] \in {"pooled", "here"}
Op(b)   == Script[b][at[b]].op
Of(b)   == Script[b][at[b]].of

\* The search of b's call is split across the pool (parallel.Split), and not
\* one that only asks the Watch (parallel.NullSplit).
IsSplit(b) == pc[b] = "pooled" /\ Of(b) \in Wanted[b]

\* Mutant: the ticket just taken counts as replaced.
SupersededOrNewest(b) == newest[LaneOf[b]] >= ticket[b]

\* Latest.take's check: another ticket was taken in this board's lane.
Superseded(b) == newest[LaneOf[b]] # ticket[b]

Awaited(b) == Range(TasksOf(b, Of(b), phase[b][Of(b)]))

\* b is in a call and has asked its Watch.
InCall(b) == Live(b) /\ at[b] <= Len(Script[b]) /\ asked[b]

\* The round b's call sends out now that it has read what it awaited.
Sends(b) ==
    IF Live(b) /\ at[b] <= Len(Script[b]) /\ Op(b) = "split" /\ IsSplit(b)
    THEN TasksOf(b, Of(b), IF ScaleOf(Of(b)) = Of(b) THEN "sampling" ELSE "scaled")
    ELSE IF InCall(b) /\ Awaited(b) \subseteq done
    THEN TasksOf(b, Of(b), NextRound(phase[b][Of(b)]))
    ELSE <<>>

\* The result b reads next is one of S: those of the slices before it are read.
ReadsNext(b, S) ==
    /\ InCall(b)
    /\ \E t \in Awaited(b) \cap S :
          \A u \in Awaited(b) : u.slice < t.slice => u \in done

Submit(b) ==
    /\ queue' = [queue EXCEPT ![uses[b]] = @ \o Sends(b)]
    /\ late' = [late EXCEPT ![b] = IF Superseded(b) /\ Sends(b) # <<>> THEN @ + 1 ELSE @]

Accepts(b) == Sends(b) # <<>> => uses[b] \notin dead \cup shut

-----------------------------------------------------------------------------
(* The tickets.                                                            *)

\* handle_board, in the request's own thread: the connection made and the
\* query parsed, the request takes its client's next ticket.
Take(b) ==
    /\ pc[b] = "sent"
    /\ Cardinality({c \in Requests : pc[c] \in {"ticketed", "pooled", "here"}}) < MaxLive
    /\ newest' = [newest EXCEPT ![LaneOf[b]] = @ + 1]
    /\ ticket' = [ticket EXCEPT ![b] = newest'[LaneOf[b]]]
    /\ pc' = [pc EXCEPT ![b] = "ticketed"]
    /\ met' = IF lost = {} THEN met ELSE met \cup {b}
    /\ UNCHANGED <<at, asked, phase, uses, late, poolVars, taskVars, deaths, lost, losses>>

\* The world is read from the tables and board() loads the playbook; where it
\* may split its searches it takes the pool, which creates its executor on
\* first use.
Load(b) ==
    /\ pc[b] = "ticketed"
    /\ lost = {}
    /\ IF b \in Pooled
       THEN /\ made' = IF current = 0 THEN made + 1 ELSE made
            /\ current' = IF current = 0 THEN made' ELSE current
            /\ uses' = [uses EXCEPT ![b] = current']
            /\ pc' = [pc EXCEPT ![b] = "pooled"]
       ELSE /\ pc' = [pc EXCEPT ![b] = "here"]
            /\ UNCHANGED <<made, current, uses>>
    /\ UNCHANGED <<newest, ticket, at, asked, phase, late, dead, shut, taskVars, deaths,
                   readVars>>

\* Either read raises: tables.load finds no database or no tables (a rebuild
\* has dropped them), or catalog.load a file it cannot take.  The board has
\* sent nothing out.
LoadRaises(b) ==
    /\ pc[b] = "ticketed"
    /\ lost # {}
    /\ pc' = [pc EXCEPT ![b] = "failed"]
    /\ UNCHANGED <<boardVars, at, asked, phase, uses, poolVars, taskVars, deaths, readVars>>

-----------------------------------------------------------------------------
(* A board's walk through its script.                                      *)

NextCall(b) ==
    /\ at' = [at EXCEPT ![b] = @ + 1]
    /\ asked' = [asked EXCEPT ![b] = FALSE]

\* Mutant: a board that ends leaves its tasks where they are.
CancelNone(b) == queue' = queue

\* What is left of a queue without b's tasks, in its order.
Without(q, b) ==
    LET left[n \in 0..Len(q)] ==
            IF n = 0 THEN <<>>
            ELSE IF q[n].board = b THEN left[n - 1] ELSE Append(left[n - 1], q[n])
    IN  left[Len(q)]

\* cancel_all: the tasks b submitted that no worker has taken.
CancelAll(b) == queue' = [e \in Executors |-> Without(queue[e], b)]

\* The pass is over: the tasks still running answer to nobody.
PassEnds(b) ==
    /\ at' = [at EXCEPT ![b] = 1]
    /\ asked' = [asked EXCEPT ![b] = FALSE]
    /\ phase' = [phase EXCEPT ![b] = [s \in Searches |-> "none"]]
    /\ uses' = [uses EXCEPT ![b] = 0]
    /\ done' = {t \in done : t.board # b}
    /\ broken' = {t \in broken : t.board # b}

Ends(b, outcome) ==
    /\ pc' = [pc EXCEPT ![b] = outcome]
    /\ PassEnds(b)
    /\ CancelAll(b)
    /\ raised' = {t \in raised : t.board # b}
    /\ UNCHANGED <<boardVars, poolVars, running, deaths, readVars>>

\* A search is sent out.  One on a scale another search froze draws no sample.
Split(b) ==
    /\ Live(b) /\ at[b] <= Len(Script[b]) /\ Op(b) = "split"
    /\ Accepts(b)
    /\ IF IsSplit(b)
       THEN /\ phase' = [phase EXCEPT ![b][Of(b)] =
                            IF ScaleOf(Of(b)) = Of(b) THEN "sampling" ELSE "scaled"]
            /\ Submit(b)
       ELSE UNCHANGED <<phase, queue, late>>
    /\ NextCall(b)
    /\ UNCHANGED <<newest, ticket, pc, uses, poolVars, running, done,
                   broken, raised, deaths, readVars>>

\* Every other call asks the Watch first.
Asks(b) ==
    /\ Live(b) /\ at[b] <= Len(Script[b]) /\ Op(b) # "split"
    /\ ~asked[b]

\* Watch.check: a newer request replaced this board.
Supersede(b) ==
    /\ Asks(b)
    /\ Superseded(b)
    /\ Ends(b, "superseded")

\* Mutant: only the searches split across the pool ask.
PassUnasked(b) ==
    /\ Asks(b)
    /\ Op(b) \in {"rank", "merge"} => ~Superseded(b)
    /\ IF IsSplit(b) /\ ~Reached(Op(b), phase[b][Of(b)])
       THEN asked' = [asked EXCEPT ![b] = TRUE] /\ UNCHANGED at
       ELSE NextCall(b)
    /\ UNCHANGED <<boardVars, pc, phase, uses, poolVars, taskVars, deaths, readVars>>

\* None did: the call goes on, and is over when it has nothing to wait for.
Pass(b) ==
    /\ Asks(b)
    /\ ~Superseded(b)
    /\ IF IsSplit(b) /\ ~Reached(Op(b), phase[b][Of(b)])
       THEN asked' = [asked EXCEPT ![b] = TRUE] /\ UNCHANGED at
       ELSE NextCall(b)
    /\ UNCHANGED <<boardVars, pc, phase, uses, poolVars, taskVars, deaths, readVars>>

\* The call has read every result of the round, and sends the next one out.
Gather(b) ==
    LET round == NextRound(phase[b][Of(b)]) IN
    /\ InCall(b)
    /\ Awaited(b) \subseteq done
    /\ Accepts(b)
    /\ b \in Hopeless => round # "solved"
    /\ phase' = [phase EXCEPT ![b][Of(b)] = round]
    /\ Submit(b)
    /\ done' = done \ Awaited(b)
    /\ IF Reached(Op(b), round) THEN NextCall(b) ELSE UNCHANGED <<at, asked>>
    /\ UNCHANGED <<newest, ticket, pc, uses, poolVars, running,
                   broken, raised, deaths, readVars>>

\* _optimal: the search came back with no six the limits allow.
Refuse(b) ==
    /\ b \in Hopeless
    /\ \/ /\ InCall(b) /\ Op(b) = "solved"
          /\ Awaited(b) \subseteq done
       \/ pc[b] = "here" /\ Asks(b) /\ Op(b) = "solved" /\ ~Superseded(b)
    /\ Ends(b, "refused")

Answer(b) ==
    /\ Live(b)
    /\ at[b] > Len(Script[b])
    /\ Ends(b, "answered")

\* A board meets a dead worker: POOL's executor, whichever it is by
\* now, is shut down, and the board solves again in its own thread.
Recover(b) ==
    /\ \/ ReadsNext(b, broken)
       \/ Sends(b) # <<>> /\ uses[b] \in dead
    /\ pc' = [pc EXCEPT ![b] = "here"]
    /\ PassEnds(b)
    /\ current' = 0
    /\ IF current = 0
       THEN CancelAll(b) /\ UNCHANGED <<shut, raised>>
       ELSE /\ shut' = shut \cup {current}
            /\ raised' = raised \cup
                   {t \in Range(queue[current]) : t.board # b}
            /\ queue' = [queue EXCEPT ![current] = <<>>]
    /\ UNCHANGED <<boardVars, made, dead, running, deaths, readVars>>

\* The same by a board outside Requests: POOL's executor is shut down.
StrangerDrops ==
    /\ Strangers /\ dead # {} /\ current # 0
    /\ current' = 0
    /\ shut' = shut \cup {current}
    /\ raised' = raised \cup Range(queue[current])
    /\ queue' = [queue EXCEPT ![current] = <<>>]
    /\ UNCHANGED <<boardVars, walk, made, dead, running, done, broken, deaths, readVars>>

\* A task of this board was cancelled by another's drop or could not read the
\* playbook, or the executor the board holds no longer takes tasks: none is the
\* BrokenProcessPool board() catches.
Fall(b) ==
    /\ \/ ReadsNext(b, raised)
       \/ Sends(b) # <<>> /\ uses[b] \in shut \ dead
    /\ Ends(b, "failed")

-----------------------------------------------------------------------------
(* The executors.                                                          *)

\* The next task goes to the workers, where it can no longer be cancelled.
Hand(e) ==
    /\ queue[e] # <<>>
    /\ Cardinality(running[e]) < Slots
    /\ running' = [running EXCEPT ![e] = @ \cup {Head(queue[e])}]
    /\ queue' = [queue EXCEPT ![e] = Tail(@)]
    /\ UNCHANGED <<boardVars, walk, poolVars, done, broken, raised, deaths, readVars>>

\* A worker rereads the playbook (_Held.playbook) and solves its slice; where
\* the files do not load the task raises in place of a result.
Finish(e) ==
    \E t \in running[e] :
        /\ running' = [running EXCEPT ![e] = @ \ {t}]
        /\ IF uses[t.board] # e
           THEN UNCHANGED <<done, raised>>
           ELSE IF "playbook" \in lost
                THEN raised' = raised \cup {t} /\ UNCHANGED done
                ELSE done' = done \cup {t} /\ UNCHANGED raised
        /\ UNCHANGED <<boardVars, walk, poolVars, queue, broken, deaths, readVars>>

\* A worker dies: the executor is broken, and so is every task it has not
\* finished.
WorkerDies(e) ==
    /\ e = current \/ running[e] # {}
    /\ e \notin dead
    /\ deaths < MaxDeaths /\ deaths + losses < MaxFaults
    /\ deaths' = deaths + 1
    /\ dead' = dead \cup {e}
    /\ broken' = broken \cup
           {t \in running[e] \cup Range(queue[e]) : uses[t.board] = e}
    /\ running' = [running EXCEPT ![e] = {}]
    /\ queue' = [queue EXCEPT ![e] = <<>>]
    /\ UNCHANGED <<boardVars, walk, current, made, shut, done, raised, readVars>>

\* The database goes away or a rebuild drops its tables ("tables"), or an edit
\* leaves a playbook that does not load ("playbook").
Lose(what) ==
    /\ what \notin lost
    /\ losses < MaxLosses /\ deaths + losses < MaxFaults
    /\ losses' = losses + 1
    /\ lost' = lost \cup {what}
    /\ met' = met \cup {b \in Requests : pc[b] \in {"ticketed", "pooled", "here"}}
    /\ UNCHANGED <<boardVars, walk, poolVars, taskVars, deaths>>

Regain(what) ==
    /\ what \in lost
    /\ lost' = lost \ {what}
    /\ UNCHANGED <<boardVars, walk, poolVars, taskVars, deaths, losses, met>>

-----------------------------------------------------------------------------
Work(b) ==
    \/ Load(b) \/ LoadRaises(b) \/ Split(b) \/ Supersede(b) \/ Pass(b) \/ Gather(b)
    \/ Refuse(b) \/ Answer(b) \/ Recover(b) \/ Fall(b)

Sources == {"tables", "playbook"}

Next ==
    \/ \E b \in Requests : Take(b) \/ Work(b)
    \/ \E e \in Executors : Hand(e) \/ Finish(e) \/ WorkerDies(e)
    \/ StrangerDrops
    \/ \E what \in Sources : Lose(what) \/ Regain(what)

\* A request's thread is scheduled, and an executor hands tasks out and
\* finishes them for as long as it has any.
Fairness ==
    /\ \A b \in Requests : WF_vars(Work(b))
    /\ \A e \in Executors : WF_vars(Hand(e) \/ Finish(e))

Spec == Init /\ [][Next]_vars
FairSpec == Spec /\ Fairness

-----------------------------------------------------------------------------
(* Properties.                                                             *)

\* Every variable keeps its type, for every reachable state.
TypeOK ==
    /\ newest \in [Clients -> Nat]
    /\ ticket \in [Requests -> Nat]
    /\ pc \in [Requests -> {"sent", "ticketed", "pooled", "here"} \cup Outcomes]
    /\ at \in [Requests -> Nat]
    /\ asked \in [Requests -> BOOLEAN]
    /\ phase \in [Requests -> [Searches -> Phases]]
    /\ uses \in [Requests -> {0} \cup Executors]
    /\ late \in [Requests -> Nat]
    /\ current \in {0} \cup Executors
    /\ made \in {0} \cup Executors
    /\ dead \subseteq Executors
    /\ shut \subseteq Executors
    /\ queue \in [Executors -> Seq(Task)]
    /\ running \in [Executors -> SUBSET Task]
    /\ done \subseteq Task
    /\ broken \subseteq Task
    /\ raised \subseteq Task
    /\ deaths \in Nat
    /\ lost \subseteq Sources
    /\ losses \in Nat
    /\ met \subseteq Requests

Ended(b) == pc[b] \in Outcomes

\* The state keeps its type and, however a pooled pass ends - whole, superseded,
\* refused, broken or failed - none of its tasks stays queued for the pool
\* (board's cancel_all).
NothingQueuedBehind ==
    /\ TypeOK
    /\ \A e \in Executors : \A t \in Range(queue[e]) :
           pc[t.board] = "pooled" /\ uses[t.board] = e

\* A board a newer request replaced sends out two rounds of tasks at most
\* before a round asks the Watch and stops it.
StopsSoon == \A b \in Requests : late[b] <= 2

\* A pass that answers has read every task it submitted, so its cancel_all
\* has nothing to cancel and no worker is left solving for nobody.
WholePassRead ==
    [][\A b \in Requests :
        pc[b] = "pooled" /\ pc'[b] = "answered" =>
            \A e \in Executors : \A t \in Range(queue[e]) \cup running[e] \cup done :
                t.board # b]_vars

\* A worker dying anywhere in a pooled pass ends no board: it solves again in
\* the server's process.
NoneFails == \A b \in Requests : pc[b] # "failed"

\* The server keeps each client's lane as the service promises, fails a board
\* only after a worker has died or where the tables or the playbook could not
\* be read in the board's own time, and replies to every request that took its
\* ticket.
Service == INSTANCE BoardService WITH
    place <- ticket,
    reply <- [b \in Requests |-> IF Ended(b) THEN pc[b] ELSE "none"],
    hurt <- deaths > 0,
    readable <- lost = {}
ImplementsService == Service!ServiceSpec
=============================================================================
