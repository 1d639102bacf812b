---------------------------- MODULE BoardService ----------------------------
(***************************************************************************)
(* What /board promises a page: each request takes a place in its client's *)
(* lane and gets one reply.  It is told it was superseded only when a      *)
(* later place in the same lane is taken, it fails only after some worker  *)
(* has died or where what a board reads was out of reach while it was in   *)
(* hand, and every request is replied to.  Boards.tla is the detailed      *)
(* specification that implements this one.                                 *)
(***************************************************************************)
EXTENDS Naturals, FiniteSets

CONSTANTS Requests, Clients, LaneOf

VARIABLES
    place,              \* a request's place in its lane, 0 before it has one
    reply,              \* "none", or what the request was answered
    hurt,               \* a worker has died
    readable,           \* the tables and the playbook can be read
    met                 \* the requests in hand while they could not

serviceVars == <<place, reply, hurt, readable, met>>

ServiceInit ==
    /\ place = [b \in Requests |-> 0]
    /\ reply = [b \in Requests |-> "none"]
    /\ hurt = FALSE
    /\ readable = TRUE
    /\ met = {}

SameLane(b, c) == LaneOf[b] = LaneOf[c]

Join(b) ==
    /\ place[b] = 0
    /\ \E n \in 1..(1 + Cardinality(Requests)) :
        /\ \A c \in Requests : SameLane(b, c) => place[c] < n
        /\ \A m \in 1..(n - 1) : \E c \in Requests : SameLane(b, c) /\ place[c] = m
        /\ place' = [place EXCEPT ![b] = n]
    /\ met' = IF readable THEN met ELSE met \cup {b}
    /\ UNCHANGED <<reply, hurt, readable>>

Reply(b) ==
    /\ place[b] # 0
    /\ reply[b] = "none"
    /\ \E said \in {"answered", "superseded", "refused", "failed"} :
        /\ said = "superseded" =>
              \E c \in Requests : SameLane(b, c) /\ place[c] > place[b]
        /\ said = "failed" => hurt \/ b \in met
        /\ reply' = [reply EXCEPT ![b] = said]
    /\ UNCHANGED <<place, hurt, readable, met>>

Hurt ==
    /\ hurt' = TRUE
    /\ UNCHANGED <<place, reply, readable, met>>

InHand == {b \in Requests : place[b] # 0 /\ reply[b] = "none"}

\* What a board reads goes out of reach, and comes back.
Spoil ==
    /\ readable' = FALSE
    /\ met' = met \cup InHand
    /\ UNCHANGED <<place, reply, hurt>>

Mend ==
    /\ readable' = TRUE
    /\ UNCHANGED <<place, reply, hurt, met>>

ServiceNext == Hurt \/ Spoil \/ Mend \/ \E b \in Requests : Join(b) \/ Reply(b)

ServiceSpec ==
    /\ ServiceInit
    /\ [][ServiceNext]_serviceVars
    /\ \A b \in Requests : WF_serviceVars(Reply(b))
=============================================================================
