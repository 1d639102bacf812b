--------------------------- MODULE RefreshProofs ----------------------------
(***************************************************************************)
(* Proofs about Refresh, for every set of pages, every call of the         *)
(* owner's, and any number of days, calls and kills: StoresFresh,          *)
(* FetchesOnce, SnapshotsReal and StaysYoung.                              *)
(*                                                                         *)
(* Fetching is the invariant under the first three: what a process has     *)
(* settled of its pull's pages, by one cutoff.  Young carries the fourth:  *)
(* how far behind its period a page is (Lag), and the periods the kills,   *)
(* calls and failures have cost it (Owed); the pages a full refresh brings *)
(* are so many that the median age says when one is due.                   *)
(***************************************************************************)
EXTENDS Refresh, TLAPS, FiniteSetTheorems, WellFoundedInduction

\* A set of naturals has a least element.
LEMMA LeastNat == \A T \in SUBSET Nat : T # {} => \E x \in T : \A y \in T : x <= y
<1> SUFFICES ASSUME NEW T \in SUBSET Nat, T # {} PROVE \E x \in T : \A y \in T : x <= y
  OBVIOUS
<1>1. IsWellFoundedOn(OpToRel(<, Nat), Nat)
  BY NatLessThanWellFounded
<1>2. PICK x \in T : \A y \in T : ~(<<y, x>> \in OpToRel(<, Nat))
  BY <1>1, WFMin
<1>3. \A y \in T : ~(y < x)
  BY <1>2 DEF OpToRel
<1> QED BY <1>3

-----------------------------------------------------------------------------
(* The jobs: what is left of sync_all, of the daily pulls, or of one call. *)

Pulls == {"pull_kits", "pull_seasons", "pull_rates", "pull_synergies"}

FullJobs == {Registry, <<"pull_seasons", "pull_rates", "pull_synergies">>,
             <<"pull_rates", "pull_synergies">>, <<"pull_synergies">>}
DailyJobs == {Daily, <<"pull_rates">>}
OneJobs == {<<q>> : q \in Pulls}
AllJobs == FullJobs \cup DailyJobs \cup OneJobs

LEMMA PagesOfIn ==
    /\ \A q \in Pulls : PagesOf(q) \subseteq Pages
    /\ PagesOf("pull_seasons") = SeasonPages /\ PagesOf("pull_rates") = RatesPages
    /\ PagesOf("pull_kits") = Articles /\ PagesOf("pull_synergies") = Articles
    /\ SeasonPages \cap RatesPages = {} /\ Articles \cap RatesPages = {}
  BY RefreshAssumption DEF Pulls, PagesOf, Pages, Wiki

LEMMA JobShapes ==
    ASSUME NEW job \in AllJobs
    PROVE  /\ job # <<>> /\ Head(job) \in Pulls
           /\ job \in OneJobs => Len(job) = 1
           /\ Len(job) # 1 => Tail(job) \in AllJobs
           /\ Len(job) # 1 /\ job \in FullJobs =>
                 Tail(job) \in FullJobs /\ Tail(job) # Registry /\ Head(job) # "pull_synergies"
           /\ Len(job) # 1 /\ job \in DailyJobs =>
                 job = Daily /\ Head(job) = "pull_seasons" /\ Tail(job) = <<"pull_rates">>
           /\ job \in DailyJobs => Head(job) \in {"pull_seasons", "pull_rates"}
           /\ job = Registry => Head(job) = "pull_kits"
           /\ job \in FullJobs /\ Len(job) = 1 => Head(job) = "pull_synergies"
<1>1. CASE job \in OneJobs
  <2>1. PICK q \in Pulls : job = <<q>>
    BY <1>1 DEF OneJobs
  <2> QED BY <2>1 DEF Pulls, FullJobs, DailyJobs, Registry, Daily
<1>2. CASE job \in FullJobs \cup DailyJobs
  <2>1. CASE job = Registry
    BY <2>1 DEF Pulls, FullJobs, DailyJobs, OneJobs, AllJobs, Registry, Daily
  <2>2. CASE job = <<"pull_seasons", "pull_rates", "pull_synergies">>
    BY <2>2 DEF Pulls, FullJobs, DailyJobs, OneJobs, AllJobs, Registry, Daily
  <2>3. CASE job = <<"pull_rates", "pull_synergies">>
    BY <2>3 DEF Pulls, FullJobs, DailyJobs, OneJobs, AllJobs, Registry, Daily
  <2>4. CASE job = <<"pull_synergies">>
    BY <2>4 DEF Pulls, FullJobs, DailyJobs, OneJobs, AllJobs, Registry, Daily
  <2>5. CASE job = Daily
    BY <2>5 DEF Pulls, FullJobs, DailyJobs, OneJobs, AllJobs, Registry, Daily
  <2>6. CASE job = <<"pull_rates">>
    BY <2>6 DEF Pulls, FullJobs, DailyJobs, OneJobs, AllJobs, Registry, Daily
  <2> QED BY <1>2, <2>1, <2>2, <2>3, <2>4, <2>5, <2>6 DEF FullJobs, DailyJobs
<1> QED BY <1>1, <1>2 DEF AllJobs

-----------------------------------------------------------------------------
(* The records: what a process holds, and what NextPage leaves of it.      *)

Stages  == {"boot", "idle", "pull", "look", "read", "ask", "fill", "store"}
Working == Stages \ {"boot", "idle"}
Walking == {"look", "read", "ask", "fill", "store"}

Gots == {<<>>} \cup UNION {[PagesOf(q) -> Copies] : q \in Pulls}
Recs == [pc : Stages, job : AllJobs \cup {<<>>}, refresh : BOOLEAN, shared : Nat,
         cutoff : Nat, todo : SUBSET Pages, page : Pages \cup {"none"}, attempt : Nat,
         got : Gots, stale : SUBSET Pages, mine : SUBSET Pages]

\* The pages of its pull a process has not settled.
Ahead(r) == IF r.pc = "store" THEN {} ELSE r.todo \cup {r.page}

LEMMA Move ==
    \A r \in Recs, pc \in Stages, page \in Pages \cup {"none"}, todo \in SUBSET Pages, k \in Nat :
        [r EXCEPT !.pc = pc, !.page = page, !.todo = todo, !.attempt = k] \in Recs
  BY DEF Recs

LEMMA NextPageFacts ==
    ASSUME NEW r \in Recs, NEW n, n = NextPage(r)
    PROVE  /\ n \in Recs /\ n.pc \in {"look", "store"} /\ n.attempt = 0
           /\ n.pc = "store" => r.todo = {}
           /\ n.pc = "look" => n.page \in r.todo /\ n.page \notin n.todo
           /\ Ahead(n) = r.todo /\ n.todo \subseteq r.todo
           /\ n.job = r.job /\ n.refresh = r.refresh /\ n.shared = r.shared
           /\ n.cutoff = r.cutoff /\ n.got = r.got /\ n.stale = r.stale /\ n.mine = r.mine
<1>1. CASE r.todo = {}
  <2>1. n = [r EXCEPT !.pc = "store", !.page = "none", !.attempt = 0]
    BY <1>1 DEF NextPage
  <2>2. n \in Recs
    <3>1. n = [r EXCEPT !.pc = "store", !.page = "none", !.todo = r.todo, !.attempt = 0]
      BY <2>1 DEF Recs
    <3>2. "store" \in Stages /\ "none" \in Pages \cup {"none"} /\ r.todo \in SUBSET Pages /\ 0 \in Nat
      BY DEF Recs, Stages
    <3>3. [r EXCEPT !.pc = "store", !.page = "none", !.todo = r.todo, !.attempt = 0] \in Recs
      BY <3>2, Move
    <3> QED BY <3>1, <3>3
  <2>3. /\ n.pc = "store" /\ n.attempt = 0 /\ n.todo = r.todo
        /\ n.job = r.job /\ n.refresh = r.refresh /\ n.shared = r.shared
        /\ n.cutoff = r.cutoff /\ n.got = r.got /\ n.stale = r.stale /\ n.mine = r.mine
    BY <2>1 DEF Recs
  <2> QED BY <1>1, <2>2, <2>3 DEF Ahead
<1>2. CASE r.todo # {}
  <2>1. PICK x : x = (CHOOSE y \in r.todo : TRUE)
    OBVIOUS
  <2>2. x \in r.todo /\ x \in Pages /\ r.todo \subseteq Pages
    BY <1>2, <2>1 DEF Recs
  <2>3. n = [r EXCEPT !.pc = "look", !.page = x, !.todo = r.todo \ {x}, !.attempt = 0]
    BY <1>2, <2>1 DEF NextPage
  <2>4. /\ n.pc = "look" /\ n.attempt = 0 /\ n.todo = r.todo \ {x} /\ n.page = x
        /\ n.job = r.job /\ n.refresh = r.refresh /\ n.shared = r.shared
        /\ n.cutoff = r.cutoff /\ n.got = r.got /\ n.stale = r.stale /\ n.mine = r.mine
    BY <2>3 DEF Recs
  <2>5. n \in Recs
    <3>1. "look" \in Stages /\ x \in Pages \cup {"none"} /\ r.todo \ {x} \in SUBSET Pages /\ 0 \in Nat
      BY <2>2 DEF Stages
    <3>2. [r EXCEPT !.pc = "look", !.page = x, !.todo = r.todo \ {x}, !.attempt = 0] \in Recs
      BY <3>1, Move
    <3> QED BY <2>3, <3>2
  <2>6. Ahead(n) = r.todo
    BY <2>2, <2>4 DEF Ahead
  <2> QED BY <2>2, <2>4, <2>5, <2>6
<1> QED BY <1>1, <1>2

-----------------------------------------------------------------------------
(* What holds of every state.                                              *)

WorldOK ==
    /\ day \in 0..MaxDay /\ clock \in Nat \ {0} /\ wake \in {day, day + 1}
    /\ file \in [Pages -> Copies]
    /\ \A page \in Pages : file[page].stamp <= clock /\ file[page].day <= day
    /\ DOMAIN stored = Followed
    /\ \A q \in Followed :
          stored[q] \in [PagesOf(q) -> [day : 0..MaxDay, text : {"whole", "torn", "none"}]]
    /\ DOMAIN proc = Procs
    /\ failed \in Nat /\ upsets \in 0..MaxUpsets

\* A process that works has a job, and the refresher's is one of its own.
JobOK(p, r) ==
    /\ r \in Recs /\ r.attempt < Attempts
    /\ r.shared <= clock /\ r.cutoff <= clock
    /\ r.pc = "boot" => p = refresher
    /\ r.pc \in {"boot", "idle"} => r.shared = 0
    /\ r.shared # 0 => r.refresh
    /\ r.pc \in Working =>
          /\ r.job \in AllJobs
          /\ r.refresh /\ r.shared = 0 => r.job \in DailyJobs \cup OneJobs
          /\ p = refresher =>
                /\ r.refresh
                /\ r.job \in (IF r.shared = 0 THEN DailyJobs ELSE FullJobs)

\* A page the pull has settled: a copy written since its cutoff, one it names
\* under stale, or an article that is missing.
Settled(r, page) ==
    \/ r.got[page] = NoCopy /\ Guarded(page)
    \/ r.got[page].stamp >= r.cutoff
    \/ page \in r.stale

WalkOK(r) ==
    r.pc \in Walking =>
        LET of == PagesOf(Head(r.job)) IN
        /\ r.got \in [of -> Copies]
        /\ \A page \in of : r.got[page].day <= day
        /\ Ahead(r) \subseteq of /\ r.todo \subseteq of
        /\ r.pc # "store" => r.page \notin r.todo
        /\ r.shared # 0 => r.cutoff = r.shared
        /\ \A page \in Ahead(r) : r.got[page] = NoCopy
        /\ \A page \in of \ Ahead(r) : Settled(r, page)
        /\ r.pc = "read" => file[r.page] # NoCopy /\ file[r.page].stamp >= r.cutoff

\* What a job of one cutoff has fetched it does not fetch again.
MineOK(r) ==
    r.pc \in Working /\ r.refresh =>
        /\ r.shared # 0 => \A page \in r.mine : file[page].stamp >= r.shared
        /\ r.shared = 0 /\ r.pc = "pull" => r.mine \cap PagesOf(Head(r.job)) = {}
        /\ r.shared = 0 /\ r.job = Daily => r.mine \subseteq SeasonPages
        /\ r.shared = 0 /\ r.pc \in Walking => r.mine \cap Ahead(r) = {}
        /\ r.pc \in {"ask", "fill"} => r.page \notin r.mine

Fetching == WorldOK /\ \A p \in Procs : JobOK(p, proc[p]) /\ WalkOK(proc[p]) /\ MineOK(proc[p])

-----------------------------------------------------------------------------
(* What a process holds is not disturbed by the other's steps.             *)

\* Time goes on, and a page is as it was or written now.
Onward ==
    /\ clock' \in Nat /\ clock' >= clock /\ day' = day
    /\ \A page \in Pages :
          \/ file'[page] = file[page]
          \/ /\ file'[page] \in Copies /\ file'[page] # NoCopy
             /\ file'[page].stamp = clock /\ file'[page].day = day

LEMMA Undisturbed ==
    ASSUME Fetching, Onward, NEW p \in Procs, proc'[p] = proc[p]
    PROVE  (JobOK(p, proc[p]) /\ WalkOK(proc[p]) /\ MineOK(proc[p]))'
<1>0. PICK r : r = proc[p]
  OBVIOUS
<1>1. /\ JobOK(p, r) /\ WalkOK(r) /\ MineOK(r) /\ r \in Recs
      /\ clock \in Nat /\ \A page \in Pages : file[page] \in Copies /\ file[page].stamp \in Nat
    BY <1>0 DEF Fetching, JobOK, WorldOK, Copies, NoCopy
<1>2. r.cutoff \in Nat /\ r.shared \in Nat /\ r.mine \subseteq Pages
      /\ r.page \in Pages \cup {"none"} /\ r.cutoff <= clock /\ r.shared <= clock
  BY <1>1 DEF Recs, JobOK
<1>3. \A page \in Pages : \A n \in Nat :
         n <= clock /\ file[page].stamp >= n => file'[page].stamp >= n
  BY <1>1 DEF Onward
<1>4. clock' \in Nat /\ clock' >= clock /\ day' = day
  BY DEF Onward
<1>5. JobOK(p, r)'
  BY <1>1, <1>2, <1>4 DEF JobOK
<1>6. WalkOK(r)'
  <2>1. ASSUME r.pc = "read" PROVE file'[r.page] # NoCopy /\ file'[r.page].stamp >= r.cutoff
    <3>1. r.job \in AllJobs
      BY <1>1, <2>1 DEF JobOK, Working, Stages
    <3>2. r.page \in Pages /\ file[r.page] # NoCopy /\ file[r.page].stamp >= r.cutoff
      BY <1>1, <2>1, <3>1, JobShapes, PagesOfIn DEF WalkOK, Walking, Ahead
    <3> QED BY <1>2, <1>3, <3>2 DEF Onward
  <2>2. \A page : Settled(r, page)' <=> Settled(r, page)
    BY DEF Settled
  <2> QED BY <1>1, <1>4, <2>1, <2>2 DEF WalkOK
<1>7. MineOK(r)'
  <2>1. r.pc \in Working /\ r.refresh /\ r.shared # 0 => \A page \in r.mine : file'[page].stamp >= r.shared
    BY <1>1, <1>2, <1>3 DEF MineOK
  <2> QED BY <1>1, <2>1 DEF MineOK
<1> QED BY <1>0, <1>5, <1>6, <1>7

-----------------------------------------------------------------------------
(* One process moves.                                                      *)

LEMMA ProcMoves ==
    ASSUME Fetching, NEW p \in Procs, NEW n, Set(p, n), Onward, WorldOK',
           JobOK(p, n)', WalkOK(n)', MineOK(n)'
    PROVE  Fetching'
<1>1. proc'[p] = n /\ \A q \in Procs : q # p => proc'[q] = proc[q]
  BY DEF Set, Fetching, WorldOK
<1>2. ASSUME NEW q \in Procs
      PROVE  (JobOK(q, proc[q]) /\ WalkOK(proc[q]) /\ MineOK(proc[q]))'
  <2>1. CASE q = p
    BY <1>1, <2>1
  <2>2. CASE q # p
    BY <1>1, <2>2, Undisturbed
  <2> QED BY <2>1, <2>2
<1> QED BY <1>2 DEF Fetching

LEMMA Rests ==
    ASSUME NEW p \in Procs, NEW n, clock' \in Nat,
           n = Idle \/ (p = refresher /\ n = [Idle EXCEPT !.pc = "boot"])
    PROVE  (JobOK(p, n) /\ WalkOK(n) /\ MineOK(n))'
<1>1. /\ n.pc \in {"idle", "boot"} /\ (n.pc = "boot" => p = refresher)
      /\ n.shared = 0 /\ n.cutoff = 0 /\ n.attempt = 0
  BY DEF Idle
<1>2. Idle \in Recs /\ "boot" \in Stages
  BY DEF Idle, Recs, Stages, Gots
<1>3. n \in Recs
  BY <1>2 DEF Recs
<1> QED BY <1>1, <1>3, RefreshAssumption DEF JobOK, WalkOK, MineOK, Working, Walking

\* A job begins.
LEMMA Begins ==
    ASSUME NEW p \in Procs, NEW job \in AllJobs, NEW refresh \in BOOLEAN, NEW shared \in Nat, NEW n,
           clock' \in Nat, shared <= clock',
           n = [Idle EXCEPT !.pc = "pull", !.job = job, !.refresh = refresh, !.shared = shared],
           refresh /\ shared = 0 => job \in DailyJobs \cup OneJobs,
           shared # 0 => refresh,
           p = refresher => refresh /\ job \in (IF shared = 0 THEN DailyJobs ELSE FullJobs)
    PROVE  (JobOK(p, n) /\ WalkOK(n) /\ MineOK(n))'
<1>1. /\ n.pc = "pull" /\ n.job = job /\ n.refresh = refresh /\ n.shared = shared
      /\ n.cutoff = 0 /\ n.attempt = 0 /\ n.mine = {}
  BY DEF Idle
<1>2. Idle \in Recs /\ "pull" \in Stages
  BY DEF Idle, Recs, Stages, Gots
<1>3. n \in Recs
  BY <1>2 DEF Recs
<1> QED BY <1>1, <1>3, RefreshAssumption DEF JobOK, WalkOK, MineOK, Working, Walking

\* The rest of a record is as it was.
SameJob(r, n) ==
    /\ n.job = r.job /\ n.refresh = r.refresh /\ n.shared = r.shared /\ n.cutoff = r.cutoff

LEMMA JobKept ==
    ASSUME NEW p \in Procs, NEW r, NEW n \in Recs, JobOK(p, r)', r.pc \in Working, n.pc \in Working,
           SameJob(r, n), n.attempt < Attempts
    PROVE  JobOK(p, n)'
  BY DEF JobOK, SameJob, Working

\* A page is settled and the next one looked at.
LEMMA PageDone ==
    ASSUME NEW r \in Recs, NEW n, n = NextPage(r),
           NEW of, of = PagesOf(Head(r.job)),
           r.got \in [of -> Copies], r.todo \subseteq of,
           \A page \in of : r.got[page].day <= day',
           r.shared # 0 => r.cutoff = r.shared,
           \A page \in r.todo : r.got[page] = NoCopy,
           \A page \in of \ r.todo : Settled(r, page)
    PROVE  WalkOK(n)'
<1>1. /\ n \in Recs /\ n.pc \in {"look", "store"} /\ Ahead(n) = r.todo /\ n.todo \subseteq r.todo
      /\ n.pc = "look" => n.page \notin n.todo
      /\ n.job = r.job /\ n.shared = r.shared /\ n.cutoff = r.cutoff /\ n.got = r.got /\ n.stale = r.stale
  BY NextPageFacts
<1>2. \A page : Settled(n, page) <=> Settled(r, page)
  BY <1>1 DEF Settled
<1> QED BY <1>1, <1>2 DEF WalkOK

LEMMA MineKept ==
    ASSUME NEW r, NEW n, MineOK(r)', r.pc \in Walking, n.pc \in {"look", "read", "store"},
           SameJob(r, n), n.mine = r.mine, Ahead(n) \subseteq Ahead(r)
    PROVE  MineOK(n)'
  BY DEF MineOK, SameJob, Working, Walking, Stages

-----------------------------------------------------------------------------
(* The actions.                                                            *)

\* What the actions need of the process that moves.
LEMMA AtWork ==
    ASSUME Fetching, NEW p \in Procs, NEW r, r = proc[p]
    PROVE  /\ JobOK(p, r) /\ WalkOK(r) /\ MineOK(r) /\ r \in Recs
           /\ r.pc \in Stages /\ r.attempt \in Nat /\ r.cutoff \in Nat /\ r.shared \in Nat
           /\ r.mine \subseteq Pages /\ r.stale \subseteq Pages
           /\ r.pc \in Walking => /\ r.pc \in Working /\ r.job \in AllJobs
                                  /\ PagesOf(Head(r.job)) \subseteq Pages
                                  /\ r.pc # "store" => r.page \in Pages /\ r.page \in PagesOf(Head(r.job))
                                                       /\ r.page \in Ahead(r) /\ Ahead(r) = r.todo \cup {r.page}
<1>1. JobOK(p, r) /\ WalkOK(r) /\ MineOK(r) /\ r \in Recs
  BY DEF Fetching, JobOK
<1>2. r.pc \in Walking => r.pc \in Working /\ r.job \in AllJobs
  BY <1>1 DEF JobOK, Working, Walking, Stages
<1>3. r.pc \in Walking => PagesOf(Head(r.job)) \subseteq Pages
  BY <1>2, JobShapes, PagesOfIn
<1>4. r.pc \in Walking /\ r.pc # "store" => r.page \in PagesOf(Head(r.job)) /\ r.page \in Ahead(r)
         /\ Ahead(r) = r.todo \cup {r.page}
  BY <1>1 DEF WalkOK, Ahead
<1> QED BY <1>1, <1>2, <1>3, <1>4 DEF Recs

LEMMA LookKeeps ==
    ASSUME Fetching, NEW p \in Procs, Look(p)
    PROVE  Fetching'
<1>1. PICK r : r = proc[p]
  OBVIOUS
<1>2. PICK n : n = [r EXCEPT !.pc = IF Fresh(r.page, r.cutoff) THEN "read" ELSE "ask"]
  OBVIOUS
<1>3. r.pc = "look" /\ r.pc \in Walking /\ r.pc \in Working
  BY <1>1 DEF Look, Working, Walking, Stages
<1>4. Set(p, n) /\ UNCHANGED <<day, clock, file, stored, wake, upsets, failed>>
  BY <1>1, <1>2 DEF Look
<1>5. Onward /\ WorldOK'
  BY <1>4 DEF Onward, WorldOK, Fetching, Set
<1>6. /\ JobOK(p, r) /\ WalkOK(r) /\ MineOK(r) /\ r \in Recs /\ r.page \in Pages
      /\ r.page \in Ahead(r) /\ Ahead(r) = r.todo \cup {r.page} /\ r.shared \in Nat /\ r.mine \subseteq Pages
      /\ r.attempt < Attempts /\ r.cutoff \in Nat
  BY <1>1, <1>3, AtWork DEF JobOK
<1>7. /\ n.pc = IF Fresh(r.page, r.cutoff) THEN "read" ELSE "ask"
      /\ n.todo = r.todo /\ n.page = r.page /\ n.attempt = r.attempt /\ n.got = r.got
      /\ n.stale = r.stale /\ n.mine = r.mine /\ SameJob(r, n)
  BY <1>2, <1>6 DEF Recs, SameJob
<1>8. n \in Recs
  <2>1. "read" \in Stages /\ "ask" \in Stages
    BY DEF Stages
  <2> QED BY <1>2, <1>6, <2>1 DEF Recs
<1>9. n.pc \in Working /\ n.pc \in Walking /\ n.pc \in {"read", "ask"} /\ Ahead(n) = Ahead(r)
  BY <1>7, <1>6 DEF Working, Walking, Stages, Ahead
<1>10. JobOK(p, n)'
  <2>1. JobOK(p, r)'
    BY <1>4, <1>6 DEF JobOK
  <2> QED BY <1>3, <1>6, <1>7, <1>8, <1>9, <2>1, JobKept
<1>11. r.got \in [PagesOf(Head(r.job)) -> Copies] /\ (r.shared # 0 => r.cutoff = r.shared)
  BY <1>3, <1>6 DEF WalkOK
<1>12. WalkOK(n)'
  <2>1. n.pc = "read" => file[r.page] # NoCopy /\ file[r.page].stamp >= r.cutoff
    <3>1. file[r.page].stamp \in Nat
      BY <1>6 DEF Fetching, WorldOK, Copies, NoCopy
    <3> QED BY <1>6, <1>7, <3>1 DEF Fresh, Exists
  <2>2. \A page : Settled(n, page) <=> Settled(r, page)
    BY <1>7 DEF Settled, SameJob
  <2> QED BY <1>3, <1>4, <1>6, <1>7, <1>9, <2>1, <2>2 DEF WalkOK, SameJob
<1>13. MineOK(n)'
  <2>1. CASE n.pc = "read"
    <3>1. MineOK(r)'
      BY <1>4, <1>6 DEF MineOK
    <3> QED BY <1>3, <1>7, <1>9, <2>1, <3>1, MineKept
  <2>2. CASE n.pc = "ask"
    <3>1. ASSUME r.refresh PROVE r.page \notin r.mine
      <4>1. CASE r.shared = 0
        BY <1>3, <1>6, <3>1, <4>1 DEF MineOK
      <4>2. CASE r.shared # 0
        <5>1. ~Fresh(r.page, r.shared)
          BY <1>7, <1>11, <2>2, <4>2
        <5>2. r.page \in r.mine => file[r.page].stamp >= r.shared
          BY <1>3, <1>6, <3>1, <4>2 DEF MineOK
        <5>3. file[r.page].stamp \in Nat /\ (file[r.page] = NoCopy => file[r.page].stamp = 0)
          BY <1>6 DEF Fetching, WorldOK, Copies, NoCopy
        <5> QED BY <1>6, <4>2, <5>1, <5>2, <5>3 DEF Fresh, Exists
      <4> QED BY <4>1, <4>2
    <3> QED BY <1>3, <1>4, <1>6, <1>7, <1>9, <2>2, <3>1 DEF MineOK, SameJob
  <2> QED BY <1>9, <2>1, <2>2
<1> QED BY <1>4, <1>5, <1>10, <1>12, <1>13, ProcMoves

\* A pull settles the page it is at with got, and goes on to the next.
LEMMA SettlesPage ==
    ASSUME Fetching, NEW p \in Procs, Onward, WorldOK', NEW r, r = proc[p],
           r.pc \in {"read", "ask", "fill"},
           NEW copy \in Copies, NEW stale \in SUBSET Pages, NEW mine \in SUBSET Pages,
           NEW d, d \in Recs,
           d.got = [r.got EXCEPT ![r.page] = copy], d.stale = stale, d.mine = mine, d.todo = r.todo,
           d.pc = r.pc, d.page = r.page, SameJob(r, d),
           copy.day <= day, r.stale \subseteq stale,
           (copy = NoCopy /\ Guarded(r.page)) \/ copy.stamp >= r.cutoff \/ r.page \in stale,
           mine = r.mine \/ (mine = r.mine \cup {r.page} /\ file'[r.page].stamp = clock),
           NEW n, n = NextPage(d), Set(p, n)
    PROVE  Fetching'
<1> DEFINE of == PagesOf(Head(r.job))
<1>1. r.pc \in Walking /\ r.pc # "store" /\ r.pc \in Working
  BY DEF Walking, Working, Stages
<1>2. /\ JobOK(p, r) /\ WalkOK(r) /\ MineOK(r) /\ r \in Recs /\ r.page \in Pages
      /\ r.page \in of /\ Ahead(r) = r.todo \cup {r.page} /\ r.shared \in Nat
      /\ r.mine \subseteq Pages /\ r.cutoff \in Nat
  BY <1>1, AtWork
<1>3. /\ r.got \in [of -> Copies] /\ \A page \in of : r.got[page].day <= day
      /\ r.todo \subseteq of /\ r.page \notin r.todo /\ (r.shared # 0 => r.cutoff = r.shared)
      /\ \A page \in r.todo : r.got[page] = NoCopy
      /\ \A page \in of \ Ahead(r) : Settled(r, page)
  BY <1>1, <1>2 DEF WalkOK, Ahead
<1> HIDE DEF of
<1>4. /\ d.got \in [of -> Copies] /\ d.got[r.page] = copy
      /\ \A page \in of : page # r.page => d.got[page] = r.got[page]
  BY <1>2, <1>3
<1>5. day' = day
  BY DEF Onward
<1>6. WalkOK(n)'
  <2>1. \A page \in of \ r.todo : Settled(d, page)
    <3> SUFFICES ASSUME NEW page \in of \ r.todo PROVE Settled(d, page)
      OBVIOUS
    <3>1. CASE page = r.page
      BY <1>4, <3>1 DEF Settled, SameJob
    <3>2. CASE page # r.page
      <4>1. Settled(r, page)
        BY <1>2, <1>3, <3>2
      <4> QED BY <1>4, <3>2, <4>1 DEF Settled, SameJob
    <3> QED BY <3>1, <3>2
  <2>2. \A page \in of : d.got[page].day <= day'
    BY <1>3, <1>4, <1>5
  <2>3. /\ of = PagesOf(Head(d.job)) /\ d.todo \subseteq of /\ (d.shared # 0 => d.cutoff = d.shared)
        /\ \A page \in d.todo : d.got[page] = NoCopy
        /\ \A page \in of \ d.todo : Settled(d, page)
    BY <1>3, <1>4, <2>1 DEF of, SameJob
  <2> QED BY <1>4, <2>2, <2>3, PageDone
<1>7. /\ n \in Recs /\ n.pc \in {"look", "store"} /\ n.attempt = 0 /\ Ahead(n) = r.todo
      /\ SameJob(r, n) /\ n.mine = mine
  BY NextPageFacts DEF SameJob
<1>8. JobOK(p, n)'
  <2>1. JobOK(p, r)'
    <3>1. clock \in Nat /\ clock' \in Nat /\ clock' >= clock
      BY DEF Fetching, WorldOK, Onward
    <3> QED BY <1>2, <3>1 DEF JobOK
  <2>2. 0 < Attempts
    BY RefreshAssumption
  <2> QED BY <1>1, <1>7, <2>1, <2>2, JobKept DEF Working, Stages
<1>9. MineOK(n)'
  <2>1. r.refresh /\ r.shared # 0 => \A page \in mine : file'[page].stamp >= r.shared
    <3> SUFFICES ASSUME r.refresh, r.shared # 0, NEW page \in mine PROVE file'[page].stamp >= r.shared
      OBVIOUS
    <3>1. r.shared <= clock /\ clock \in Nat
      BY <1>2 DEF JobOK, Fetching, WorldOK
    <3>2. CASE page \in r.mine
      <4>1. file[page].stamp >= r.shared /\ page \in Pages
        BY <1>1, <1>2, <3>2 DEF MineOK
      <4> QED BY <1>2, <3>1, <4>1 DEF Onward
    <3>3. CASE page \notin r.mine
      BY <1>2, <3>1, <3>3
    <3> QED BY <3>2, <3>3
  <2>2. r.refresh /\ r.shared = 0 => mine \cap r.todo = {} /\ (r.job = Daily => mine \subseteq SeasonPages)
    <3>1. r.refresh /\ r.shared = 0 => r.mine \cap Ahead(r) = {} /\ (r.job = Daily => r.mine \subseteq SeasonPages)
      BY <1>1, <1>2 DEF MineOK
    <3>2. r.job = Daily => of = SeasonPages
        <4>1. Head(Daily) = "pull_seasons"
        BY DEF Daily
      <4> QED BY <4>1, PagesOfIn DEF of
    <3> QED BY <1>2, <1>3, <3>1, <3>2
  <2> QED BY <1>7, <2>1, <2>2 DEF MineOK, SameJob, Working
<1> QED BY <1>6, <1>8, <1>9, ProcMoves

LEMMA ReadCopyKeeps ==
    ASSUME Fetching, NEW p \in Procs, ReadCopy(p)
    PROVE  Fetching'
<1>1. PICK r : r = proc[p]
  OBVIOUS
<1>2. PICK c : c = file[r.page]
  OBVIOUS
<1>3. PICK d : d = [r EXCEPT !.got[r.page] = c]
  OBVIOUS
<1>4. PICK n : n = NextPage(d)
  OBVIOUS
<1>5. r.pc = "read" /\ Set(p, n) /\ UNCHANGED <<day, clock, file, stored, wake, upsets, failed>>
  BY <1>1, <1>2, <1>3, <1>4 DEF ReadCopy, Keep
<1>6. Onward /\ WorldOK'
  BY <1>5 DEF Onward, WorldOK, Fetching, Set
<1>7. /\ WalkOK(r) /\ r \in Recs /\ r.page \in Pages /\ r.page \in PagesOf(Head(r.job)) /\ r.job \in AllJobs
      /\ r.mine \in SUBSET Pages /\ r.stale \in SUBSET Pages
      /\ r.got \in [PagesOf(Head(r.job)) -> Copies]
  <2>1. r.pc \in Walking /\ r.pc # "store"
    BY <1>5 DEF Walking
  <2> QED BY <1>1, <2>1, AtWork DEF WalkOK
<1>8. c \in Copies /\ c.stamp >= r.cutoff /\ c.day <= day
  BY <1>2, <1>5, <1>7 DEF Fetching, WorldOK, WalkOK, Walking
<1>9. d \in Recs /\ d.got = [r.got EXCEPT ![r.page] = c]
  <2>1. [r.got EXCEPT ![r.page] = c] \in Gots
    <3>1. Head(r.job) \in Pulls
      BY <1>7, JobShapes
    <3>2. [r.got EXCEPT ![r.page] = c] \in [PagesOf(Head(r.job)) -> Copies]
      BY <1>7, <1>8
    <3> QED BY <3>1, <3>2 DEF Gots
  <2> QED BY <1>3, <1>7, <2>1 DEF Recs
<1>10. d.stale = r.stale /\ d.mine = r.mine /\ d.todo = r.todo /\ d.pc = r.pc /\ d.page = r.page /\ SameJob(r, d)
  BY <1>3, <1>7 DEF Recs, SameJob
<1>11. r.pc \in {"read", "ask", "fill"}
  BY <1>5
<1> QED BY <1>1, <1>4, <1>5, <1>6, <1>7, <1>8, <1>9, <1>10, <1>11, SettlesPage

\* A process goes on asking for its page, or opens it.
LEMMA AsksOn ==
    ASSUME Fetching, NEW p \in Procs, Onward, WorldOK', NEW r, r = proc[p], r.pc = "ask",
           NEW n \in Recs, Set(p, n), n.pc \in {"ask", "fill"}, n.attempt < Attempts,
           SameJob(r, n), n.todo = r.todo, n.page = r.page, n.got = r.got, n.stale = r.stale, n.mine = r.mine
    PROVE  Fetching'
<1>1. r.pc \in Walking /\ r.pc # "store" /\ r.pc \in Working /\ n.pc \in Working /\ n.pc \in Walking
  BY DEF Walking, Working, Stages
<1>2. JobOK(p, r) /\ WalkOK(r) /\ MineOK(r) /\ r \in Recs /\ Ahead(n) = Ahead(r) /\ r.mine \subseteq Pages
      /\ r.shared \in Nat /\ r.cutoff \in Nat
  BY <1>1, AtWork DEF Ahead
<1>3. day' = day /\ clock \in Nat /\ clock' \in Nat /\ clock' >= clock
  BY DEF Onward, Fetching, WorldOK
<1>4. JobOK(p, n)'
  <2>1. JobOK(p, r)'
    BY <1>2, <1>3 DEF JobOK
  <2> QED BY <1>1, <2>1, JobKept
<1>5. WalkOK(n)'
  <2>1. \A page : Settled(n, page) <=> Settled(r, page)
    BY DEF Settled, SameJob
  <2> QED BY <1>1, <1>2, <1>3, <2>1 DEF WalkOK, SameJob
<1>6. MineOK(n)'
  <2>1. r.refresh /\ r.shared # 0 => \A page \in r.mine : file'[page].stamp >= r.shared
    <3> SUFFICES ASSUME r.refresh, r.shared # 0, NEW page \in r.mine PROVE file'[page].stamp >= r.shared
      OBVIOUS
    <3>1. file[page].stamp >= r.shared /\ page \in Pages /\ r.shared <= clock
      BY <1>1, <1>2 DEF MineOK, JobOK
    <3> QED BY <1>2, <1>3, <3>1 DEF Onward
  <2> QED BY <1>1, <1>2, <2>1 DEF MineOK, SameJob
<1> QED BY <1>4, <1>5, <1>6, ProcMoves

LEMMA RetryKeeps ==
    ASSUME Fetching, NEW p \in Procs, Retry(p)
    PROVE  Fetching'
<1>1. PICK r : r = proc[p]
  OBVIOUS
<1>2. PICK n : n = [r EXCEPT !.attempt = r.attempt + 1]
  OBVIOUS
<1>3. /\ r.pc = "ask" /\ r.attempt + 1 < AttemptsAt(r.page) /\ Set(p, n)
      /\ UNCHANGED <<day, clock, file, stored, wake, upsets, failed>>
  BY <1>1, <1>2 DEF Retry
<1>4. Onward /\ WorldOK'
  BY <1>3 DEF Onward, WorldOK, Fetching, Set
<1>5. r \in Recs /\ r.attempt \in Nat
  BY <1>1, AtWork
<1>6. n \in Recs
  BY <1>2, <1>5 DEF Recs
<1>7. n.attempt < Attempts
  BY <1>2, <1>3, <1>5, RefreshAssumption DEF AttemptsAt, Recs
<1>8. /\ SameJob(r, n) /\ n.todo = r.todo /\ n.page = r.page /\ n.got = r.got /\ n.stale = r.stale
      /\ n.mine = r.mine /\ n.pc = "ask"
  BY <1>2, <1>3, <1>5 DEF Recs, SameJob
<1> QED BY <1>1, <1>3, <1>4, <1>6, <1>7, <1>8, AsksOn

\* A page written now.
LEMMA Written ==
    ASSUME Fetching, NEW page \in Pages, NEW t \in {"torn", "whole"},
           file' = [file EXCEPT ![page] = Copy(t)], Fetching,
           UNCHANGED <<day, clock, stored, wake, upsets, failed>>, DOMAIN proc' = Procs
    PROVE  /\ Onward /\ WorldOK' /\ Copy(t) \in Copies /\ Copy(t) # NoCopy
           /\ Copy(t).stamp = clock /\ Copy(t).day = day /\ file'[page].stamp = clock
<1>1. clock \in Nat \ {0} /\ day \in Nat /\ file \in [Pages -> Copies]
  BY RefreshAssumption DEF Fetching, WorldOK
<1>2. Copy(t) \in Copies /\ Copy(t) # NoCopy /\ Copy(t).stamp = clock /\ Copy(t).day = day
  BY <1>1 DEF Copy, Copies, NoCopy
<1>3. /\ file' \in [Pages -> Copies] /\ file'[page] = Copy(t)
      /\ \A q \in Pages : q # page => file'[q] = file[q]
  BY <1>1, <1>2
<1>4. Onward
  BY <1>1, <1>2, <1>3 DEF Onward
<1>5. WorldOK'
  <2>1. \A q \in Pages : file'[q].stamp <= clock /\ file'[q].day <= day
    BY <1>1, <1>2, <1>3 DEF Fetching, WorldOK
  <2> QED BY <1>3, <2>1 DEF Fetching, WorldOK
<1> QED BY <1>2, <1>3, <1>4, <1>5

LEMMA OpenKeeps ==
    ASSUME Fetching, NEW p \in Procs, Open(p)
    PROVE  Fetching'
<1>1. PICK r : r = proc[p]
  OBVIOUS
<1>2. PICK n : n = [r EXCEPT !.pc = "fill", !.attempt = 0]
  OBVIOUS
<1>3. /\ r.pc = "ask" /\ Set(p, n) /\ file' = [file EXCEPT ![r.page] = Copy("torn")]
      /\ UNCHANGED <<day, clock, stored, wake, upsets, failed>>
  BY <1>1, <1>2 DEF Open
<1>4. r \in Recs /\ r.page \in Pages
  <2>1. r.pc \in Walking /\ r.pc # "store"
    BY <1>3 DEF Walking
  <2> QED BY <1>1, <2>1, AtWork
<1>5. DOMAIN proc' = Procs
  BY <1>3 DEF Set, Fetching, WorldOK
<1>6. Onward /\ WorldOK'
  BY <1>3, <1>4, <1>5, Written
<1>7. n \in Recs
  <2>1. "fill" \in Stages
    BY DEF Stages
  <2> QED BY <1>2, <1>4, <2>1 DEF Recs
<1>8. /\ SameJob(r, n) /\ n.todo = r.todo /\ n.page = r.page /\ n.got = r.got /\ n.stale = r.stale
      /\ n.mine = r.mine /\ n.pc = "fill" /\ n.attempt = 0
  BY <1>2, <1>3, <1>4 DEF Recs, SameJob
<1>9. 0 < Attempts
  BY RefreshAssumption
<1> QED BY <1>1, <1>3, <1>6, <1>7, <1>8, <1>9, AsksOn

LEMMA FillKeeps ==
    ASSUME Fetching, NEW p \in Procs, Fill(p)
    PROVE  Fetching'
<1>1. PICK r : r = proc[p]
  OBVIOUS
<1>2. PICK c : c = Copy("whole")
  OBVIOUS
<1>3. PICK d : d = [[r EXCEPT !.mine = r.mine \cup {r.page}] EXCEPT !.got[r.page] = c]
  OBVIOUS
<1>4. PICK n : n = NextPage(d)
  OBVIOUS
<1>5. r.pc = "fill" /\ r \in Recs /\ r.page \in Pages
  <2>1. r.pc = "fill" /\ r.pc \in Walking /\ r.pc # "store"
    BY <1>1 DEF Fill, Walking
  <2> QED BY <1>1, <2>1, AtWork
<1>6. [r EXCEPT !.mine = r.mine \cup {r.page}].page = r.page
  BY <1>5 DEF Recs
<1>7. /\ Set(p, n) /\ file' = [file EXCEPT ![r.page] = Copy("whole")]
      /\ UNCHANGED <<day, clock, stored, wake, upsets, failed>>
  BY <1>1, <1>2, <1>3, <1>4, <1>6 DEF Fill, Keep
<1>8. DOMAIN proc' = Procs
  BY <1>7 DEF Set, Fetching, WorldOK
<1>9. Onward /\ WorldOK' /\ c \in Copies /\ c.stamp = clock /\ c.day = day /\ file'[r.page].stamp = clock
  BY <1>2, <1>5, <1>7, <1>8, Written
<1>10. /\ JobOK(p, r) /\ r.page \in PagesOf(Head(r.job)) /\ r.job \in AllJobs
       /\ r.mine \in SUBSET Pages /\ r.stale \in SUBSET Pages
       /\ r.got \in [PagesOf(Head(r.job)) -> Copies]
  <2>1. r.pc \in Walking /\ r.pc # "store"
    BY <1>5 DEF Walking
  <2> QED BY <1>1, <2>1, AtWork DEF WalkOK
<1>11. d \in Recs /\ d.got = [r.got EXCEPT ![r.page] = c] /\ d.mine = r.mine \cup {r.page}
  <2>1. [r.got EXCEPT ![r.page] = c] \in Gots
    <3>1. Head(r.job) \in Pulls
      BY <1>10, JobShapes
    <3>2. [r.got EXCEPT ![r.page] = c] \in [PagesOf(Head(r.job)) -> Copies]
      BY <1>9, <1>10
    <3> QED BY <3>1, <3>2 DEF Gots
  <2>2. r.mine \cup {r.page} \in SUBSET Pages
    BY <1>5, <1>10
  <2> QED BY <1>3, <1>5, <2>1, <2>2 DEF Recs
<1>12. d.stale = r.stale /\ d.todo = r.todo /\ d.pc = r.pc /\ d.page = r.page /\ SameJob(r, d)
  BY <1>3, <1>5 DEF Recs, SameJob
<1>13. r.mine \cup {r.page} \in SUBSET Pages /\ r.pc \in {"read", "ask", "fill"} /\ c.day <= day /\ c.stamp >= r.cutoff
  BY <1>5, <1>9, <1>10 DEF JobOK, Fetching, WorldOK
<1> QED BY <1>1, <1>4, <1>7, <1>9, <1>10, <1>11, <1>12, <1>13, SettlesPage

LEMMA RaiseKeeps ==
    ASSUME Fetching, NEW p \in Procs, Raise(p), UNCHANGED <<day, clock, file, stored, wake, upsets>>
    PROVE  Fetching'
<1>1. Set(p, Idle) /\ failed' \in Nat
  BY DEF Raise, Fetching, WorldOK
<1>2. Onward /\ WorldOK' /\ clock' \in Nat
  BY <1>1 DEF Onward, WorldOK, Fetching, Set
<1>3. PICK n : n = Idle
  OBVIOUS
<1> QED BY <1>1, <1>2, <1>3, Rests, ProcMoves

LEMMA GiveUpKeeps ==
    ASSUME Fetching, NEW p \in Procs, GiveUp(p)
    PROVE  Fetching'
<1>1. PICK r : r = proc[p]
  OBVIOUS
<1>2. r.pc = "ask" /\ UNCHANGED <<day, clock, file, stored, wake, upsets>>
  BY <1>1 DEF GiveUp
<1>3. /\ r \in Recs /\ r.page \in Pages /\ r.page \in PagesOf(Head(r.job)) /\ r.job \in AllJobs
      /\ r.mine \in SUBSET Pages /\ r.stale \in SUBSET Pages
      /\ r.got \in [PagesOf(Head(r.job)) -> Copies] /\ r.got[r.page] = NoCopy
  <2>1. r.pc \in Walking /\ r.pc # "store"
    BY <1>2 DEF Walking
  <2> QED BY <1>1, <2>1, AtWork DEF WalkOK
<1>4. CASE Exists(r.page) /\ KeepStale(p, r) /\ UNCHANGED failed
  <2>1. PICK c : c = file[r.page]
    OBVIOUS
  <2>2. PICK d : d = [r EXCEPT !.got[r.page] = c, !.stale = r.stale \cup {r.page}]
    OBVIOUS
  <2>3. PICK n : n = NextPage(d)
    OBVIOUS
  <2>4. Set(p, n)
    BY <1>4, <2>1, <2>2, <2>3 DEF KeepStale
  <2>5. Onward /\ WorldOK'
    BY <1>2, <1>4, <2>4 DEF Onward, WorldOK, Fetching, Set
  <2>6. c \in Copies /\ c.day <= day
    BY <1>3, <2>1 DEF Fetching, WorldOK
  <2>7. d \in Recs /\ d.got = [r.got EXCEPT ![r.page] = c] /\ d.stale = r.stale \cup {r.page}
    <3>1. [r.got EXCEPT ![r.page] = c] \in Gots
      <4>1. Head(r.job) \in Pulls
        BY <1>3, JobShapes
      <4>2. [r.got EXCEPT ![r.page] = c] \in [PagesOf(Head(r.job)) -> Copies]
        BY <1>3, <2>6
      <4> QED BY <4>1, <4>2 DEF Gots
    <3>2. r.stale \cup {r.page} \in SUBSET Pages
      BY <1>3
    <3> QED BY <1>3, <2>2, <3>1, <3>2 DEF Recs
  <2>8. d.mine = r.mine /\ d.todo = r.todo /\ d.pc = r.pc /\ d.page = r.page /\ SameJob(r, d)
    BY <1>3, <2>2 DEF Recs, SameJob
  <2>9. r.stale \cup {r.page} \in SUBSET Pages /\ r.pc \in {"read", "ask", "fill"}
    BY <1>2, <1>3
  <2> QED BY <1>1, <1>3, <2>3, <2>4, <2>5, <2>6, <2>7, <2>8, <2>9, SettlesPage
<1>5. CASE ~Exists(r.page) /\ Guarded(r.page) /\ Set(p, NextPage(r)) /\ UNCHANGED failed
  <2>1. PICK n : n = NextPage(r)
    OBVIOUS
  <2>2. Onward /\ WorldOK'
    BY <1>2, <1>5 DEF Onward, WorldOK, Fetching, Set
  <2>3. r.got = [r.got EXCEPT ![r.page] = NoCopy] /\ NoCopy \in Copies /\ NoCopy.day <= day
    <3>1. NoCopy.day = 0 /\ day \in Nat
      BY RefreshAssumption DEF NoCopy, Fetching, WorldOK
    <3> QED BY <1>3, <3>1 DEF Copies
  <2>4. SameJob(r, r) /\ r.pc \in {"read", "ask", "fill"}
    BY <1>2 DEF SameJob
  <2> QED BY <1>1, <1>3, <1>5, <2>1, <2>2, <2>3, <2>4, SettlesPage
<1>6. CASE Raise(p)
  BY <1>2, <1>6, RaiseKeeps
<1> QED BY <1>1, <1>4, <1>5, <1>6 DEF GiveUp

\* The clock is read, and the files are as they were.
LEMMA ClockOn ==
    ASSUME Fetching, clock' \in {clock, clock + 1}, UNCHANGED <<day, file, stored>>,
           wake' \in {day, day + 1}, upsets' \in 0..MaxUpsets, failed' \in Nat, DOMAIN proc' = Procs
    PROVE  Onward /\ WorldOK' /\ clock \in Nat /\ clock' \in Nat /\ clock' >= clock
<1>1. clock \in Nat \ {0} /\ \A page \in Pages : file[page].stamp \in Nat /\ file[page].stamp <= clock
  BY DEF Fetching, WorldOK, Copies, NoCopy
<1>2. clock' \in Nat \ {0} /\ clock' >= clock /\ \A page \in Pages : file'[page].stamp <= clock'
  BY <1>1
<1> QED BY <1>1, <1>2 DEF Onward, WorldOK, Fetching

LEMMA PullKeeps ==
    ASSUME Fetching, NEW p \in Procs, Pull(p)
    PROVE  Fetching'
<1>1. PICK r : r = proc[p]
  OBVIOUS
<1>2. PICK of : of = PagesOf(Head(r.job))
  OBVIOUS
<1>3. PICK k : k = Cutoff(r)
  OBVIOUS
<1>4. PICK d : d = [r EXCEPT !.cutoff = k, !.todo = of, !.got = [page \in of |-> NoCopy], !.stale = {}]
  OBVIOUS
<1>5. PICK n : n = NextPage(d)
  OBVIOUS
<1>6. /\ r.pc = "pull" /\ Set(p, n) /\ clock' = (IF r.refresh /\ r.shared = 0 THEN clock + 1 ELSE clock)
      /\ UNCHANGED <<day, file, stored, wake, upsets, failed>>
  BY <1>1, <1>2, <1>3, <1>4, <1>5 DEF Pull
<1>7. /\ JobOK(p, r) /\ MineOK(r) /\ r \in Recs /\ r.pc \in Working /\ r.shared \in Nat
      /\ r.shared <= clock /\ r.mine \subseteq Pages
  BY <1>1, <1>6, AtWork DEF JobOK, Working, Stages
<1>8. DOMAIN proc' = Procs /\ wake \in {day, day + 1} /\ upsets \in 0..MaxUpsets /\ failed \in Nat
  BY <1>6 DEF Set, Fetching, WorldOK
<1>9. Onward /\ WorldOK' /\ clock \in Nat /\ clock' \in Nat /\ clock' >= clock
  BY <1>6, <1>8, ClockOn
<1>10. k \in Nat /\ k <= clock' /\ (r.refresh /\ r.shared # 0 => k = r.shared)
       /\ (~r.refresh => k = 0)
  BY <1>3, <1>6, <1>7, <1>9 DEF Cutoff
<1>11. Head(r.job) \in Pulls /\ of \subseteq Pages /\ r.job \in AllJobs
  BY <1>2, <1>7, JobShapes, PagesOfIn DEF JobOK
<1>12. /\ d \in Recs /\ d.job = r.job /\ d.refresh = r.refresh /\ d.shared = r.shared /\ d.cutoff = k
       /\ d.todo = of /\ d.got = [page \in of |-> NoCopy] /\ d.mine = r.mine
  <2>1. [page \in of |-> NoCopy] \in Gots
    <3>1. [page \in of |-> NoCopy] \in [PagesOf(Head(r.job)) -> Copies]
      BY <1>2 DEF Copies
    <3> QED BY <1>11, <3>1 DEF Gots
  <2>2. {} \in SUBSET Pages /\ of \in SUBSET Pages
    BY <1>11
  <2> QED BY <1>4, <1>7, <1>10, <2>1, <2>2 DEF Recs
<1>13. r.shared # 0 => r.refresh
  BY <1>7 DEF JobOK
<1>14. WalkOK(n)'
  <2>1. d.got \in [of -> Copies] /\ \A page \in of : d.got[page] = NoCopy /\ d.got[page].day <= day'
    <3>1. NoCopy.day = 0 /\ day' \in Nat
      BY <1>6, RefreshAssumption DEF NoCopy, Fetching, WorldOK
    <3> QED BY <1>12, <3>1 DEF Copies
  <2>2. (d.shared # 0 => d.cutoff = d.shared) /\ of \ d.todo = {} /\ d.todo \subseteq of
    BY <1>10, <1>12, <1>13
  <2>3. of = PagesOf(Head(d.job))
    BY <1>2, <1>12
  <2> QED BY <1>5, <1>12, <2>1, <2>2, <2>3, PageDone
<1>15. /\ n \in Recs /\ n.pc \in {"look", "store"} /\ n.attempt = 0 /\ Ahead(n) = of
       /\ n.job = r.job /\ n.refresh = r.refresh /\ n.shared = r.shared /\ n.cutoff = k /\ n.mine = r.mine
  BY <1>5, <1>12, NextPageFacts
<1>16. JobOK(p, n)'
  BY <1>7, <1>9, <1>10, <1>15, RefreshAssumption DEF JobOK, Working, Stages
<1>17. MineOK(n)'
  BY <1>2, <1>6, <1>7, <1>15 DEF MineOK, Walking, Working, Stages
<1> QED BY <1>6, <1>9, <1>14, <1>16, <1>17, ProcMoves

LEMMA StoreKeeps ==
    ASSUME Fetching, NEW p \in Procs, Store(p)
    PROVE  Fetching'
<1>1. PICK r : r = proc[p]
  OBVIOUS
<1>2. PICK q : q = Head(r.job)
  OBVIOUS
<1>3. PICK n : n = NextPull(r)
  OBVIOUS
<1>4. /\ r.pc = "store" /\ Set(p, n) /\ UNCHANGED <<day, clock, file, wake, upsets, failed>>
      /\ stored' = IF q \in Followed /\ Stores(q, r) THEN [stored EXCEPT ![q] = Made(r.got)] ELSE stored
  BY <1>1, <1>2, <1>3 DEF Store
<1>5. /\ JobOK(p, r) /\ WalkOK(r) /\ MineOK(r) /\ r \in Recs /\ r.job \in AllJobs /\ r.pc \in Walking
      /\ r.pc \in Working /\ r.got \in [PagesOf(q) -> Copies] /\ \A page \in PagesOf(q) : r.got[page].day <= day
  <2>1. r.pc \in Walking
    BY <1>4 DEF Walking
  <2>2. JobOK(p, r) /\ WalkOK(r) /\ MineOK(r) /\ r \in Recs /\ r.job \in AllJobs /\ r.pc \in Working
    BY <1>1, <2>1, AtWork
  <2> QED BY <1>2, <2>1, <2>2 DEF WalkOK
<1>6. DOMAIN stored' = Followed /\ \A x \in Followed :
         stored'[x] \in [PagesOf(x) -> [day : 0..MaxDay, text : {"whole", "torn", "none"}]]
  <2>1. Made(r.got) \in [PagesOf(q) -> [day : 0..MaxDay, text : {"whole", "torn", "none"}]]
    <3>1. day \in 0..MaxDay /\ DOMAIN r.got = PagesOf(q)
      BY <1>5 DEF Fetching, WorldOK
    <3>2. \A page \in PagesOf(q) : r.got[page].day \in 0..MaxDay /\ r.got[page].text \in {"whole", "torn", "none"}
      <4>1. \A c \in Copies : c.day \in Nat /\ c.text \in {"whole", "torn", "none"}
        BY DEF Copies, NoCopy
      <4> QED BY <1>5, <3>1, <4>1, RefreshAssumption
    <3> QED BY <3>1, <3>2 DEF Made
  <2>2. DOMAIN stored = Followed /\ \A x \in Followed :
           stored[x] \in [PagesOf(x) -> [day : 0..MaxDay, text : {"whole", "torn", "none"}]]
    BY DEF Fetching, WorldOK
  <2>3. CASE q \in Followed /\ Stores(q, r)
    BY <1>4, <2>1, <2>2, <2>3
  <2>4. CASE ~(q \in Followed /\ Stores(q, r))
    BY <1>4, <2>2, <2>4
  <2> QED BY <2>3, <2>4
<1>7. DOMAIN proc' = Procs /\ clock' \in Nat
  BY <1>4 DEF Set, Fetching, WorldOK
<1>8. Onward /\ WorldOK'
  BY <1>4, <1>6, <1>7 DEF Onward, WorldOK, Fetching
<1>9. CASE Len(r.job) = 1
  <2>1. n = Idle
    BY <1>3, <1>9 DEF NextPull
  <2> QED BY <1>4, <1>7, <1>8, <2>1, Rests, ProcMoves
<1>10. CASE Len(r.job) # 1
  <2>1. n = [Idle EXCEPT !.pc = "pull", !.job = Tail(r.job), !.refresh = r.refresh,
                !.shared = r.shared, !.mine = r.mine]
    BY <1>3, <1>10 DEF NextPull
  <2>2. /\ n.pc = "pull" /\ n.job = Tail(r.job) /\ n.refresh = r.refresh /\ n.shared = r.shared
        /\ n.mine = r.mine /\ n.attempt = 0 /\ n.cutoff = 0
    BY <2>1 DEF Idle
  <2>3. Tail(r.job) \in AllJobs
    BY <1>5, <1>10, JobShapes
  <2>4. n \in Recs
    <3>1. Idle \in Recs /\ "pull" \in Stages
      BY DEF Idle, Recs, Stages, Gots
    <3>2. r.refresh \in BOOLEAN /\ r.shared \in Nat /\ r.mine \in SUBSET Pages
      BY <1>5 DEF Recs
    <3> QED BY <2>1, <2>3, <3>1, <3>2 DEF Recs
  <2>5. /\ r.job \in FullJobs => Tail(r.job) \in FullJobs
        /\ r.job \in DailyJobs \cup OneJobs =>
              r.job = Daily /\ Tail(r.job) \in DailyJobs /\ Head(Tail(r.job)) = "pull_rates"
              /\ Tail(r.job) # Daily
    <3>1. r.job \in OneJobs => FALSE
      BY <1>5, <1>10, JobShapes
    <3>2. r.job \in DailyJobs => r.job = Daily /\ Tail(r.job) = <<"pull_rates">>
      BY <1>5, <1>10, JobShapes
    <3>3. Head(<<"pull_rates">>) = "pull_rates" /\ <<"pull_rates">> # Daily /\ <<"pull_rates">> \in DailyJobs
      BY DEF Daily, DailyJobs
    <3>4. r.job \in FullJobs => Tail(r.job) \in FullJobs
      BY <1>5, <1>10, JobShapes
    <3> QED BY <3>1, <3>2, <3>3, <3>4
  <2>6. JobOK(p, n)'
    <3>1. n.cutoff <= clock' /\ n.attempt < Attempts /\ clock' = clock
      BY <1>4, <1>7, <2>2, RefreshAssumption
    <3> QED BY <1>5, <2>2, <2>3, <2>4, <2>5, <3>1 DEF JobOK, Working, Stages
  <2>7. WalkOK(n)'
    BY <2>2 DEF WalkOK, Walking
  <2>8. MineOK(n)'
    <3>1. r.refresh /\ r.shared # 0 => \A page \in r.mine : file[page].stamp >= r.shared
      BY <1>5 DEF MineOK
    <3>2. r.refresh /\ r.shared = 0 => r.mine \cap PagesOf(Head(Tail(r.job))) = {} /\ Tail(r.job) # Daily
      <4>1. r.refresh /\ r.shared = 0 => r.job \in DailyJobs \cup OneJobs
        BY <1>5 DEF JobOK
      <4>2. r.refresh /\ r.shared = 0 /\ r.job = Daily => r.mine \subseteq SeasonPages
        BY <1>5 DEF MineOK
      <4> QED BY <2>5, <4>1, <4>2, PagesOfIn
    <3> QED BY <1>4, <2>2, <3>1, <3>2 DEF MineOK, Walking
  <2> QED BY <1>4, <1>8, <2>6, <2>7, <2>8, ProcMoves
<1> QED BY <1>9, <1>10

LEMMA DieKeeps ==
    ASSUME Fetching, NEW p \in Procs, Die(p)
    PROVE  Fetching'
<1>1. PICK n : n = IF p = refresher THEN [Idle EXCEPT !.pc = "boot"] ELSE Idle
  OBVIOUS
<1>2. Set(p, n) /\ UNCHANGED <<day, clock, file, stored, wake, failed>> /\ upsets < MaxUpsets /\ upsets' = upsets + 1
  BY <1>1 DEF Die
<1>3. upsets' \in 0..MaxUpsets
  BY <1>2, RefreshAssumption DEF Fetching, WorldOK
<1>4. Onward /\ WorldOK' /\ clock' \in Nat
  BY <1>2, <1>3 DEF Onward, WorldOK, Fetching, Set
<1> QED BY <1>1, <1>2, <1>4, Rests, ProcMoves

LEMMA StartKeeps ==
    ASSUME Fetching, StartRefresh, wake' \in {day, day + 1}, UNCHANGED <<day, file, stored, upsets, failed>>
    PROVE  Fetching'
<1>1. PICK full \in FullDue : /\ Set(refresher, Refreshing(full))
                              /\ clock' = IF full THEN clock + 1 ELSE clock
  BY DEF StartRefresh
<1>2. refresher \in Procs /\ TRUE \in BOOLEAN
  BY DEF Procs
<1>3. PICK n : n = Refreshing(full)
  OBVIOUS
<1>4. DOMAIN proc' = Procs /\ clock \in Nat /\ upsets \in 0..MaxUpsets /\ failed \in Nat
  BY <1>1 DEF Set, Fetching, WorldOK
<1>5. Onward /\ WorldOK' /\ clock' \in Nat
  BY <1>1, <1>2, <1>4, ClockOn
<1>6. Registry \in FullJobs /\ Daily \in DailyJobs /\ Registry \in AllJobs /\ Daily \in AllJobs
  BY DEF FullJobs, DailyJobs, AllJobs
<1>7. (JobOK(refresher, n) /\ WalkOK(n) /\ MineOK(n))'
  <2>1. CASE full
    <3>1. n = [Idle EXCEPT !.pc = "pull", !.job = Registry, !.refresh = TRUE, !.shared = clock + 1]
      BY <1>3, <2>1 DEF Refreshing, Idle
    <3>2. PICK shared : shared = clock + 1
      OBVIOUS
    <3>3. shared \in Nat /\ shared # 0 /\ shared <= clock'
      BY <1>1, <1>4, <2>1, <3>2
    <3> QED BY <1>2, <1>5, <1>6, <3>1, <3>2, <3>3, Begins
  <2>2. CASE ~full
    <3>0. PICK shared \in Nat : shared = 0
      OBVIOUS
    <3>1. n = [Idle EXCEPT !.pc = "pull", !.job = Daily, !.refresh = TRUE, !.shared = shared]
      BY <1>3, <2>2, <3>0 DEF Refreshing, Idle
    <3>2. shared <= clock'
      BY <1>5, <3>0
    <3> QED BY <1>2, <1>5, <1>6, <3>0, <3>1, <3>2, Begins
  <2> QED BY <2>1, <2>2
<1> QED BY <1>1, <1>2, <1>3, <1>5, <1>7, ProcMoves

LEMMA BootKeeps ==
    ASSUME Fetching, Boot
    PROVE  Fetching'
<1>1. CASE StartRefresh
  BY <1>1, StartKeeps DEF Boot
<1>2. CASE Set(refresher, Idle) /\ UNCHANGED clock
  <2>1. PICK n : n = Idle
    OBVIOUS
  <2>2. wake' \in {day, day + 1} /\ UNCHANGED <<day, file, stored, upsets, failed>>
    BY DEF Boot
  <2>3. Onward /\ WorldOK' /\ clock' \in Nat
    BY <1>2, <2>2 DEF Onward, WorldOK, Fetching, Set
  <2> QED BY <1>2, <2>1, <2>3, Rests, ProcMoves DEF Procs
<1> QED BY <1>1, <1>2 DEF Boot

LEMMA WakeKeeps ==
    ASSUME Fetching, Wake
    PROVE  Fetching'
<1>1. wake' \in {day, day + 1}
  BY DEF Wake
<1> QED BY <1>1, StartKeeps DEF Wake

LEMMA CallKeeps ==
    ASSUME Fetching, Call
    PROVE  Fetching'
<1>1. PICK refresh \in BOOLEAN, job \in Jobs :
         LET shared == refresh /\ job = Registry IN
         /\ Set(session, [Idle EXCEPT !.pc = "pull", !.job = job, !.refresh = refresh,
                            !.shared = IF shared THEN clock + 1 ELSE 0])
         /\ clock' = IF shared THEN clock + 1 ELSE clock
  BY DEF Call
<1>2. upsets < MaxUpsets /\ upsets' = upsets + 1 /\ UNCHANGED <<day, file, stored, wake, failed>>
  BY DEF Call
<1>3. PICK shared : shared = IF refresh /\ job = Registry THEN clock + 1 ELSE 0
  OBVIOUS
<1>4. PICK n : n = [Idle EXCEPT !.pc = "pull", !.job = job, !.refresh = refresh, !.shared = shared]
  OBVIOUS
<1>5. Set(session, n) /\ clock' = IF refresh /\ job = Registry THEN clock + 1 ELSE clock
  BY <1>1, <1>3, <1>4
<1>6. DOMAIN proc' = Procs /\ clock \in Nat /\ upsets' \in 0..MaxUpsets /\ failed \in Nat
      /\ wake \in {day, day + 1}
  BY <1>2, <1>5, RefreshAssumption DEF Set, Fetching, WorldOK
<1>7. Onward /\ WorldOK' /\ clock' \in Nat
  BY <1>2, <1>5, <1>6, ClockOn
<1>8. job \in AllJobs /\ (job # Registry => job \in OneJobs)
  <2>1. job = Registry \/ \E i \in DOMAIN Registry : job = <<Registry[i]>>
    BY RefreshAssumption
  <2>2. \A i \in DOMAIN Registry : Registry[i] \in Pulls
    BY DEF Registry, Pulls
  <2> QED BY <2>1, <2>2 DEF AllJobs, OneJobs, FullJobs
<1>9. shared \in Nat /\ shared <= clock' /\ (refresh /\ shared = 0 => job \in OneJobs) /\ (shared # 0 => refresh)
  BY <1>3, <1>5, <1>6, <1>8
<1>10. session \in Procs /\ session # refresher
  BY RefreshAssumption DEF Procs
<1>11. (JobOK(session, n) /\ WalkOK(n) /\ MineOK(n))'
  BY <1>4, <1>7, <1>8, <1>9, <1>10, Begins
<1> QED BY <1>5, <1>7, <1>10, <1>11, ProcMoves

LEMMA NextDayKeeps ==
    ASSUME Fetching, NextDay
    PROVE  Fetching'
<1>1. /\ day' = day + 1 /\ day < MaxDay /\ wake > day /\ UNCHANGED <<clock, file, stored, proc, wake, upsets, failed>>
      /\ \A p \in Procs : proc[p].pc = "idle"
  BY DEF NextDay
<1>2. day \in 0..MaxDay /\ wake = day + 1
  BY <1>1, RefreshAssumption DEF Fetching, WorldOK
<1>3. WorldOK'
  <2>1. day' \in 0..MaxDay /\ wake' \in {day', day' + 1}
    BY <1>1, <1>2, RefreshAssumption
  <2>2. \A page \in Pages : file[page].day \in Nat /\ file[page].day <= day
    BY DEF Fetching, WorldOK, Copies, NoCopy
  <2>3. \A page \in Pages : file'[page].day <= day'
    BY <1>1, <1>2, <2>2
  <2> QED BY <1>1, <2>1, <2>3 DEF Fetching, WorldOK
<1>4. ASSUME NEW p \in Procs PROVE (JobOK(p, proc[p]) /\ WalkOK(proc[p]) /\ MineOK(proc[p]))'
  <2>1. PICK r : r = proc[p] /\ r = proc'[p]
    BY <1>1
  <2>2. r.pc = "idle" /\ JobOK(p, r) /\ clock' = clock
    BY <1>1, <2>1 DEF Fetching
  <2>3. JobOK(p, r)' /\ WalkOK(r)' /\ MineOK(r)'
    BY <2>2 DEF JobOK, WalkOK, MineOK, Walking, Working
  <2> QED BY <2>1, <2>3
<1> QED BY <1>3, <1>4 DEF Fetching

LEMMA FetchingInit == Init => Fetching
<1> SUFFICES ASSUME Init PROVE Fetching
  OBVIOUS
<1>1. day = 0 /\ clock = 1 /\ wake = 0 /\ upsets = 0 /\ failed = 0
  BY DEF Init
<1>2. PICK missing \in Gaps :
         file = [page \in Pages |-> IF page \in missing THEN NoCopy
                                    ELSE [stamp |-> 1, day |-> 0, text |-> "whole"]]
  BY DEF Init
<1>3. file \in [Pages -> Copies] /\ \A page \in Pages : file[page].stamp <= 1 /\ file[page].day = 0
                                                        /\ file[page].text \in {"whole", "none"}
  <2>1. [stamp |-> 1, day |-> 0, text |-> "whole"] \in Copies
    BY DEF Copies
  <2> QED BY <1>2, <2>1 DEF Copies, NoCopy
<1>4. DOMAIN stored = Followed /\ \A q \in Followed :
         stored[q] \in [PagesOf(q) -> [day : 0..MaxDay, text : {"whole", "torn", "none"}]]
  <2>1. stored = [q \in Followed |-> Made([page \in PagesOf(q) |-> file[page]])]
    BY DEF Init
  <2>2. ASSUME NEW q \in Followed
        PROVE  Made([page \in PagesOf(q) |-> file[page]])
                  \in [PagesOf(q) -> [day : 0..MaxDay, text : {"whole", "torn", "none"}]]
    <3>1. PagesOf(q) \subseteq Pages
      BY PagesOfIn DEF Followed, Pulls
    <3>2. \A page \in PagesOf(q) : file[page].day \in 0..MaxDay /\ file[page].text \in {"whole", "torn", "none"}
      BY <1>3, <3>1, RefreshAssumption
    <3> QED BY <3>2 DEF Made
  <2> QED BY <2>1, <2>2
<1>5. proc = [p \in Procs |-> IF p = refresher THEN [Idle EXCEPT !.pc = "boot"] ELSE Idle]
  BY DEF Init
<1>6. WorldOK
  BY <1>1, <1>3, <1>4, <1>5, RefreshAssumption DEF WorldOK
<1>7. ASSUME NEW p \in Procs PROVE JobOK(p, proc[p]) /\ WalkOK(proc[p]) /\ MineOK(proc[p])
  <2>1. PICK n : n = proc[p]
    OBVIOUS
  <2>2. n = Idle \/ (p = refresher /\ n = [Idle EXCEPT !.pc = "boot"])
    BY <1>5, <2>1
  <2>3. n.pc \in {"idle", "boot"} /\ (n.pc = "boot" => p = refresher) /\ n.shared = 0 /\ n.cutoff = 0 /\ n.attempt = 0
    BY <2>2 DEF Idle
  <2>4. n \in Recs
    <3>1. Idle \in Recs /\ "boot" \in Stages
      BY DEF Idle, Recs, Stages, Gots
    <3> QED BY <2>2, <3>1 DEF Recs
  <2> QED BY <1>1, <2>1, <2>3, <2>4, RefreshAssumption DEF JobOK, WalkOK, MineOK, Working, Walking
<1> QED BY <1>6, <1>7 DEF Fetching

LEMMA FetchingStep == Fetching /\ [Next]_vars => Fetching'
<1> SUFFICES ASSUME Fetching, [Next]_vars PROVE Fetching'
  OBVIOUS
<1>1. CASE UNCHANGED vars
  BY <1>1 DEF vars, Fetching, WorldOK, JobOK, WalkOK, MineOK
<1>2. ASSUME NEW p \in Procs, Work(p) PROVE Fetching'
  <2>1. ASSUME Unreadable(p) PROVE Raise(p) /\ UNCHANGED <<day, clock, file, stored, wake, upsets>>
    BY <2>1 DEF Unreadable
  <2> QED BY <1>2, <2>1, PullKeeps, LookKeeps, ReadCopyKeeps, RetryKeeps, GiveUpKeeps, OpenKeeps,
             FillKeeps, StoreKeeps, RaiseKeeps DEF Work
<1> QED BY <1>1, <1>2, BootKeeps, WakeKeeps, CallKeeps, NextDayKeeps, DieKeeps DEF Next

-----------------------------------------------------------------------------
(* What a process fetches and stores.                                      *)

\* What a process has settled of its pull's pages, at every step of the two.
THEOREM FetchingAlways == Spec => []Fetching
  BY FetchingInit, FetchingStep, PTL DEF Spec

\* A pull about to commit has settled every page, however often the other
\* process writes the same files meanwhile.
THEOREM StoresFresh == Spec => []FreshOrNamed
<1>1. Fetching => FreshOrNamed
  <2> SUFFICES ASSUME Fetching PROVE FreshOrNamed
    OBVIOUS
  <2>1. TypeOK
    <3>1. ASSUME NEW p \in Procs
          PROVE  proc[p].pc \in Stages /\ proc[p].todo \subseteq Pages /\ proc[p].attempt < Attempts
      BY DEF Fetching, JobOK, Recs
    <3>2. wake \in day..MaxDay + 1
      BY RefreshAssumption DEF Fetching, WorldOK
    <3> QED BY <3>1, <3>2 DEF TypeOK, Fetching, WorldOK, Stages
  <2>2. ASSUME NEW p \in Procs, proc[p].pc = "store", NEW page \in DOMAIN proc[p].got
        PROVE  Settled(proc[p], page)
    <3>1. PICK r : r = proc[p]
      OBVIOUS
    <3>2. WalkOK(r) /\ r.pc = "store" /\ page \in DOMAIN r.got
      BY <2>2, <3>1 DEF Fetching
    <3>3. page \in PagesOf(Head(r.job)) \ Ahead(r)
      BY <3>2 DEF WalkOK, Walking, Ahead
    <3> QED BY <3>1, <3>2, <3>3 DEF WalkOK, Walking
  <2> QED BY <2>1, <2>2 DEF FreshOrNamed, Settled
<1> QED BY <1>1, FetchingAlways, PTL

\* A page one sync_all has fetched it does not ask for again.
THEOREM FetchesOnce == Spec => []FetchedOnce
<1>1. Fetching => FetchedOnce
  BY DEF Fetching, MineOK, FetchedOnce, Working, Stages
<1> QED BY <1>1, FetchingAlways, PTL

\* No rates snapshot is stamped from a page kept stale.
THEOREM SnapshotsReal == Spec => SnapshotReal
<1>1. ASSUME Fetching, [Next]_vars, NEW p \in Procs, proc[p].pc = "store", proc'[p].pc # "store",
             stored'["pull_rates"] # stored["pull_rates"], Head(proc[p].job) = "pull_rates"
      PROVE  \A page \in RatesPages : proc[p].got[page].stamp >= proc[p].cutoff
  <2>1. PICK q \in Procs : Store(q)
    BY <1>1 DEF Next, vars, Work, Boot, Wake, Call, NextDay, Die, Pull, Look, ReadCopy, Retry,
                GiveUp, Open, Fill, Unreadable
  <2>2. q = p
    BY <1>1, <2>1 DEF Store, Set, Fetching, WorldOK
  <2>3. PICK r : r = proc[p]
    OBVIOUS
  <2>4. r.pc = "store" /\ Head(r.job) = "pull_rates" /\ WalkOK(r)
    BY <1>1, <2>3 DEF Fetching
  <2>5. Stores("pull_rates", r)
    BY <1>1, <2>1, <2>2, <2>3, <2>4 DEF Store
  <2>6. r.stale = {}
    BY <2>5 DEF Stores
  <2>7. ASSUME NEW page \in RatesPages PROVE r.got[page].stamp >= r.cutoff
    <3>1. Settled(r, page)
      BY <2>4, PagesOfIn DEF WalkOK, Walking, Ahead
    <3>2. ~Guarded(page)
      BY PagesOfIn DEF Guarded
    <3> QED BY <2>6, <3>1, <3>2 DEF Settled
  <2> QED BY <2>3, <2>7
<1>2. Fetching /\ [Next]_vars =>
         [\A p \in Procs :
            proc[p].pc = "store" /\ proc'[p].pc # "store" /\ stored'["pull_rates"] # stored["pull_rates"]
               /\ Head(proc[p].job) = "pull_rates"
                => \A page \in RatesPages : proc[p].got[page].stamp >= proc[p].cutoff]_vars
  BY <1>1
<1> QED BY <1>2, FetchingAlways, PTL DEF Spec, SnapshotReal

-----------------------------------------------------------------------------
(* The schedule: a median of the ages exists, and while it is young some    *)
(* article is.                                                             *)

Kept == {page \in Wiki : Exists(page)}
OlderThan(n) == {page \in Kept : Age(page) > n}
OldAs(n) == {page \in Kept : Age(page) >= n}

LEMMA MedianIs ==
    ASSUME Fetching, Kept # {}
    PROVE  /\ MedianAge \in Int /\ IsFiniteSet(Kept) /\ Cardinality(Kept) \in Nat
           /\ Cardinality(OlderThan(MedianAge)) < Cardinality(Kept) - Cardinality(Kept) \div 2
<1>1. /\ day \in Nat /\ Kept \subseteq Pages
      /\ \A page \in Pages : file[page].day \in Nat /\ file[page].day <= day /\ Age(page) \in Nat /\ Age(page) <= day
  <2>1. day \in Nat
    BY RefreshAssumption DEF Fetching, WorldOK
  <2>2. \A page \in Pages : file[page].day \in Nat /\ file[page].day <= day
    BY DEF Fetching, WorldOK, Copies, NoCopy
  <2> QED BY <2>1, <2>2 DEF Age, Kept, Pages
<1>2. IsFiniteSet(Kept)
  BY RefreshAssumption, FS_Subset DEF Kept
<1>3. Cardinality(Kept) \in Nat /\ Cardinality(Kept) # 0
  BY <1>2, FS_CardinalityType, FS_EmptySet
<1>4. PICK half : half = Cardinality(Kept) - Cardinality(Kept) \div 2
  OBVIOUS
<1>5. half \in Nat /\ half >= 1 /\ half <= Cardinality(Kept)
  BY <1>3, <1>4
<1>6. \A n \in Nat : /\ IsFiniteSet(OlderThan(n)) /\ Cardinality(OlderThan(n)) \in Nat
                     /\ IsFiniteSet(OldAs(n)) /\ Cardinality(OldAs(n)) \in Nat
  <2> SUFFICES ASSUME NEW n \in Nat
               PROVE  /\ IsFiniteSet(OlderThan(n)) /\ Cardinality(OlderThan(n)) \in Nat
                      /\ IsFiniteSet(OldAs(n)) /\ Cardinality(OldAs(n)) \in Nat
    OBVIOUS
  <2>1. OlderThan(n) \subseteq Kept /\ OldAs(n) \subseteq Kept
    BY DEF OlderThan, OldAs
  <2> QED BY <1>2, <2>1, FS_Subset, FS_CardinalityType
\* The largest age that half of the pages have reached.
<1> DEFINE Spans == {day - n : n \in {k \in {Age(page) : page \in Kept} : Cardinality(OldAs(k)) >= half}}
<1>7. \E n \in {Age(page) : page \in Kept} : Cardinality(OldAs(n)) >= half
  <2>1. {Age(page) : page \in Kept} \in SUBSET Nat /\ {Age(page) : page \in Kept} # {}
    BY <1>1
  <2>2. PICK n \in {Age(page) : page \in Kept} : \A m \in {Age(page) : page \in Kept} : n <= m
    BY <2>1, LeastNat, Zenon
  <2>3. OldAs(n) = Kept
    BY <1>1, <2>1, <2>2 DEF OldAs
  <2> QED BY <1>5, <2>2, <2>3
<1>8. PICK n \in {Age(page) : page \in Kept} :
         /\ Cardinality(OldAs(n)) >= half
         /\ \A m \in {Age(page) : page \in Kept} : Cardinality(OldAs(m)) >= half => m <= n
  <2>1. Spans \in SUBSET Nat /\ Spans # {}
    BY <1>1, <1>7
  <2>2. PICK g \in Spans : \A h \in Spans : g <= h
    BY <2>1, LeastNat, Zenon
  <2>3. PICK n \in {Age(page) : page \in Kept} : Cardinality(OldAs(n)) >= half /\ g = day - n
    BY <2>2
  <2>4. \A m \in {Age(page) : page \in Kept} : Cardinality(OldAs(m)) >= half => g <= day - m
    BY <2>2
  <2>5. \A m \in {Age(page) : page \in Kept} : m \in Nat
    BY <1>1
  <2> QED BY <1>1, <2>3, <2>4, <2>5
<1>9. n \in Nat
  BY <1>1
<1>10. Cardinality(OlderThan(n)) < half
  <2> SUFFICES ASSUME Cardinality(OlderThan(n)) >= half PROVE FALSE
    BY <1>5, <1>6, <1>9
  <2>1. OlderThan(n) # {}
    BY <1>5, FS_EmptySet
  <2>2. {Age(page) : page \in OlderThan(n)} \in SUBSET Nat /\ {Age(page) : page \in OlderThan(n)} # {}
    BY <1>1, <2>1 DEF OlderThan
  <2>3. PICK m \in {Age(page) : page \in OlderThan(n)} : \A k \in {Age(page) : page \in OlderThan(n)} : m <= k
    BY <2>2, LeastNat, Zenon
  <2>4. m \in {Age(page) : page \in Kept} /\ m > n /\ m \in Nat
    BY <1>1, <2>3 DEF OlderThan
  <2>5. OldAs(m) = OlderThan(n)
    BY <1>1, <1>9, <2>3, <2>4 DEF OldAs, OlderThan
  <2> QED BY <1>8, <1>9, <2>4, <2>5
<1>11. \E k \in {Age(page) : page \in Kept} :
          Cardinality(OlderThan(k)) < half /\ Cardinality(OldAs(k)) >= half
  BY <1>8, <1>10
<1>12. MedianAge = CHOOSE k \in {Age(page) : page \in Kept} :
                      Cardinality(OlderThan(k)) < half /\ Cardinality(OldAs(k)) >= half
  BY <1>4 DEF MedianAge, Kept, OlderThan, OldAs
<1>13. MedianAge \in {Age(page) : page \in Kept} /\ Cardinality(OlderThan(MedianAge)) < half
  BY <1>11, <1>12
<1> QED BY <1>1, <1>2, <1>3, <1>4, <1>13

\* There are as many articles that always come as there are Season pages.
EnoughSteady == Cardinality(SeasonPages) <= Cardinality(Steady)

\* When no full refresh is due, some article is young.
LEMMA NotDue ==
    ASSUME Fetching, EnoughSteady, Steady # {}, \A x \in Steady : Exists(x),
           NEW full \in FullDue, ~full
    PROVE  \E q \in Articles : day - file[q].day <= FullDays
<1>1. PICK x \in Steady : TRUE
  OBVIOUS
<1>2. x \in Kept /\ Kept # {} /\ Steady \subseteq Articles
  BY <1>1 DEF Kept, Steady, Wiki
<1>3. /\ MedianAge \in Int /\ IsFiniteSet(Kept) /\ Cardinality(Kept) \in Nat
      /\ Cardinality(OlderThan(MedianAge)) < Cardinality(Kept) - Cardinality(Kept) \div 2
  BY <1>2, MedianIs
<1>4. full \in {MedianAge > FullDays, MedianAge >= FullDays}
  BY <1>2 DEF FullDue, Kept
<1>5. MedianAge <= FullDays /\ FullDays \in Nat
  <2>1. FullDays \in Nat
    BY RefreshAssumption
  <2>2. ~(MedianAge > FullDays) \/ ~(MedianAge >= FullDays)
    BY <1>4
  <2> QED BY <1>3, <2>1, <2>2
<1> SUFFICES ASSUME \A q \in Articles : ~(day - file[q].day <= FullDays) PROVE FALSE
  OBVIOUS
<1> DEFINE old == {q \in Articles : Exists(q)}
<1>6. old \subseteq OlderThan(MedianAge)
  <2> SUFFICES ASSUME NEW q \in old PROVE q \in OlderThan(MedianAge)
    OBVIOUS
  <2>1. file[q].day \in Nat /\ day \in Nat
    BY RefreshAssumption DEF Fetching, WorldOK, Copies, NoCopy, Pages, Wiki
  <2>2. Age(q) > MedianAge
    BY <1>3, <1>5, <2>1 DEF Age
  <2> QED BY <2>2 DEF OlderThan, Kept, Wiki
<1>7. OlderThan(MedianAge) \subseteq Kept /\ IsFiniteSet(OlderThan(MedianAge))
  BY <1>3, FS_Subset DEF OlderThan
<1>8. IsFiniteSet(old) /\ Cardinality(old) <= Cardinality(OlderThan(MedianAge))
      /\ Cardinality(old) \in Nat /\ Cardinality(OlderThan(MedianAge)) \in Nat
  BY <1>6, <1>7, FS_Subset, FS_CardinalityType
<1>9. IsFiniteSet(SeasonPages) /\ Cardinality(SeasonPages) \in Nat
  BY RefreshAssumption, FS_Subset, FS_CardinalityType DEF Wiki
<1>10. Cardinality(Steady) <= Cardinality(old) /\ Cardinality(Steady) \in Nat
  <2>1. Steady \subseteq old
    BY <1>2
  <2> QED BY <1>8, <2>1, FS_Subset, FS_CardinalityType
<1>11. Cardinality(Kept) <= Cardinality(old) + Cardinality(SeasonPages)
  <2> HIDE DEF old
  <2>1. Kept \subseteq old \cup SeasonPages
    BY DEF Kept, Wiki, old
  <2>2. IsFiniteSet(old \cup SeasonPages) /\ Cardinality(old \cup SeasonPages)
           = Cardinality(old) + Cardinality(SeasonPages) - Cardinality(old \cap SeasonPages)
    BY <1>8, <1>9, FS_Union
  <2>3. Cardinality(old \cap SeasonPages) \in Nat
    BY <1>8, FS_Intersection, FS_CardinalityType
  <2>4. Cardinality(Kept) <= Cardinality(old \cup SeasonPages)
    BY <2>1, <2>2, FS_Subset
  <2> QED BY <1>3, <1>8, <1>9, <2>2, <2>3, <2>4
<1> HIDE DEF old
<1>12. Cardinality(Kept) <= 2 * Cardinality(old)
  BY <1>3, <1>8, <1>9, <1>10, <1>11 DEF EnoughSteady
<1>13. Cardinality(Kept) - Cardinality(Kept) \div 2 <= Cardinality(old)
  BY <1>3, <1>8, <1>12
<1> QED BY <1>3, <1>8, <1>13

-----------------------------------------------------------------------------
(* How old an article, or what a table has of it, may be.                  *)

\* What so many setbacks may put a refresh off by.
Owed(n) == n * (FullDays + 1)

LEMMA OwedGrows ==
    /\ FullDays \in Nat
    /\ \A n \in Nat : Owed(n) \in Nat /\ Owed(n + 1) = Owed(n) + FullDays + 1
    /\ \A m, n \in Nat : m <= n => Owed(m) <= Owed(n)
<1>1. FullDays \in Nat
  BY RefreshAssumption
<1>2. \A n \in Nat : Owed(n) \in Nat /\ Owed(n + 1) = Owed(n) + FullDays + 1
  BY <1>1 DEF Owed
<1>3. ASSUME NEW m \in Nat, NEW n \in Nat, m <= n PROVE Owed(m) <= Owed(n)
  <2>1. PICK k \in Nat : n = m + k
    BY <1>3
  <2>2. k * (FullDays + 1) \in Nat /\ (m + k) * (FullDays + 1) = m * (FullDays + 1) + k * (FullDays + 1)
    BY <1>1
  <2>3. m * (FullDays + 1) \in Nat
    BY <1>1
  <2> QED BY <2>1, <2>2, <2>3 DEF Owed
<1> QED BY <1>1, <1>2, <1>3

\* A setback is under way, or has just been.
Upset == proc[refresher].pc = "boot" \/ proc[session].pc # "idle"

\* A copy of day d, after n setbacks, while no refresh is under way that
\* replaces it: every article may be as much younger as n setbacks explain.
Lag(d, n, refreshing) ==
    /\ day - d <= Owed(n + 1)
    /\ ~refreshing =>
          /\ wake > day => day - d <= FullDays + Owed(n)
          /\ \A q \in Articles : file[q].day - d <= Owed(n)
    /\ Upset => day - d <= Owed(n)

LEMMA LagSquare ==
    ASSUME WorldOK', NEW d \in Int, NEW n \in Nat, NEW refreshing, day' - d <= Owed(n)
    PROVE  Lag(d, n, refreshing)'
<1>1. day' \in Nat /\ \A q \in Articles : file'[q].day \in Nat /\ file'[q].day <= day'
  BY RefreshAssumption DEF WorldOK, Copies, NoCopy, Pages, Wiki
<1>2. Owed(n) \in Nat /\ Owed(n) <= Owed(n + 1) /\ Owed(n + 1) \in Nat /\ FullDays \in Nat
  BY OwedGrows
<1>3. \A q \in Articles : file'[q].day - d <= Owed(n)
  BY <1>1, <1>2
<1>4. day' - d <= Owed(n + 1) /\ day' - d <= FullDays + Owed(n)
  BY <1>1, <1>2
<1> QED BY <1>3, <1>4 DEF Lag

LEMMA LagStill ==
    ASSUME NEW d \in Int, NEW n \in Nat, NEW before, NEW after, Lag(d, n, before), day' = day,
           before => after, after \/ wake' = wake, Upset' => Upset,
           after \/ \A q \in Articles : file'[q].day = file[q].day
    PROVE  Lag(d, n, after)'
  BY DEF Lag

\* Nothing was due, for some article was young.
LEMMA LagChecked ==
    ASSUME Fetching, NEW d \in Int, NEW n \in Nat, Lag(d, n, FALSE), day' = day, file' = file,
           Upset' => Upset, NEW q \in Articles, day - file[q].day <= FullDays
    PROVE  Lag(d, n, FALSE)'
<1>1. day \in Nat /\ file[q].day \in Nat /\ Owed(n) \in Nat /\ FullDays \in Nat
  <2>0. Owed(n) \in Nat /\ FullDays \in Nat
    BY OwedGrows
  <2>1. day \in Nat
    BY RefreshAssumption DEF Fetching, WorldOK
  <2>2. q \in Pages /\ file[q] \in Copies
    BY DEF Fetching, WorldOK, Pages, Wiki
  <2> QED BY <2>0, <2>1, <2>2 DEF Copies, NoCopy
<1>2. file[q].day - d <= Owed(n)
  BY DEF Lag
<1>3. day - d <= FullDays + Owed(n)
  BY <1>1, <1>2
<1> QED BY <1>3 DEF Lag

LEMMA LagDay ==
    ASSUME Fetching, NEW d \in Int, NEW n \in Nat, Lag(d, n, FALSE), NextDay
    PROVE  Lag(d, n, FALSE)'
<1>1. /\ day' = day + 1 /\ wake > day /\ UNCHANGED <<file, proc, wake>>
      /\ \A p \in Procs : proc[p].pc = "idle"
  BY DEF NextDay
<1>2. wake = day + 1 /\ day \in Nat
  BY <1>1, RefreshAssumption DEF Fetching, WorldOK
<1>3. day - d <= FullDays + Owed(n) /\ Owed(n + 1) = Owed(n) + FullDays + 1 /\ Owed(n) \in Nat /\ FullDays \in Nat
  BY <1>1, OwedGrows DEF Lag
<1>4. day' - d <= Owed(n + 1) /\ ~(wake' > day')
  BY <1>1, <1>2, <1>3
<1>5. ~Upset'
  BY <1>1 DEF Upset, Procs
<1> QED BY <1>1, <1>4, <1>5 DEF Lag

-----------------------------------------------------------------------------
(* The articles and the tables made from them.                             *)

Reads(r) == Head(r.job) \in {"pull_kits", "pull_synergies"}
FullAt(r) == r.pc \in Working /\ r.shared # 0
KitsAt(r) == FullAt(r) /\ r.job = Registry

\* A full refresh has a copy of today of each article it has passed, in the
\* cache once the kits are pulled, and of each one it read itself.
FullSeen(r) ==
    FullAt(r) =>
        /\ \A page \in Pages : file[page].stamp >= r.shared => file[page].day = day
        /\ \A x \in Steady :
              (r.job = Registry /\ (r.pc = "pull" \/ x \in Ahead(r))) \/ file[x].day = day
        /\ r.pc \in Walking /\ Reads(r) => \A x \in Steady \ Ahead(r) : r.got[x].day = day

\* What any process has read of the articles is no older than they were.
SeenYoung(r) ==
    r.pc \in Walking /\ Reads(r) =>
        \A x \in Steady \ Ahead(r) : day - r.got[x].day <= Owed(upsets)

TableDay(x) == stored["pull_synergies"][x].day

Young ==
    /\ \A x \in Steady : Exists(x)
    /\ \A x \in Steady : /\ Lag(file[x].day, upsets, KitsAt(proc[refresher]))
                         /\ Lag(TableDay(x), failed + upsets, FullAt(proc[refresher]))
    /\ FullSeen(proc[refresher])
    /\ SeenYoung(proc[session])

LEMMA Days ==
    ASSUME WorldOK
    PROVE  /\ day \in Nat /\ upsets \in Nat /\ failed \in Nat /\ failed + upsets \in Nat
           /\ upsets <= failed + upsets
           /\ Steady \subseteq Articles /\ Articles \subseteq Pages
           /\ \A page \in Pages : file[page].day \in Nat /\ file[page].day \in Int
                                  /\ file[page].day <= day
           /\ \A x \in Steady : TableDay(x) \in Nat /\ TableDay(x) \in Int
<1>1. day \in Nat /\ upsets \in Nat /\ failed \in Nat
  BY RefreshAssumption DEF WorldOK
<1>2. Steady \subseteq Articles /\ Articles \subseteq Pages
  BY DEF Steady, Pages, Wiki
<1>3. \A page \in Pages : file[page].day \in Nat /\ file[page].day <= day
  BY DEF WorldOK, Copies, NoCopy
<1>4. ASSUME NEW x \in Steady PROVE TableDay(x) \in Nat
  <2>1. stored["pull_synergies"] \in
           [Articles -> [day : 0..MaxDay, text : {"whole", "torn", "none"}]]
    BY PagesOfIn DEF WorldOK, Followed
  <2> QED BY <1>2, <2>1, RefreshAssumption DEF TableDay
<1> QED BY <1>1, <1>2, <1>3, <1>4

\* A setback: the day's count is paid, whatever was being done.
LEMMA Setback ==
    ASSUME WorldOK, WorldOK', NEW d \in Int, NEW n \in Nat, NEW before, NEW after, NEW m \in Nat, m > n,
           Lag(d, n, before), day' = day
    PROVE  Lag(d, m, after)'
<1>0. n + 1 \in Nat /\ n + 1 <= m
  OBVIOUS
<1>1. Owed(n + 1) <= Owed(m) /\ Owed(n + 1) \in Nat /\ Owed(m) \in Nat
  BY <1>0, OwedGrows
<1>2. day' - d <= Owed(m)
  BY <1>1, Days DEF Lag
<1> QED BY <1>2, LagSquare

\* A copy of today owes nothing.
LEMMA Today ==
    ASSUME WorldOK', NEW d \in Int, NEW n \in Nat, NEW refreshing, d = day'
    PROVE  Lag(d, n, refreshing)'
<1>1. day' - d <= Owed(n)
  BY OwedGrows
<1> QED BY <1>1, LagSquare

\* What the refresher's record says of its job.
LEMMA RefresherAt ==
    ASSUME Fetching, NEW r, r = proc[refresher]
    PROVE  /\ r.pc \in Working /\ ~FullAt(r) => r.job \in DailyJobs /\ ~Reads(r)
           /\ FullAt(r) => r.job \in FullJobs
           /\ r.pc \notin Working => ~FullAt(r) /\ ~KitsAt(r)
           /\ ~FullAt(r) => ~KitsAt(r)
<1>1. JobOK(refresher, r)
  BY DEF Fetching, Procs
<1>2. r.pc \in Working /\ ~FullAt(r) => r.job \in DailyJobs
  BY <1>1 DEF JobOK, FullAt
<1>3. r.job \in DailyJobs => Head(r.job) \in {"pull_seasons", "pull_rates"}
  BY JobShapes DEF AllJobs
<1> QED BY <1>1, <1>2, <1>3 DEF JobOK, FullAt, KitsAt, Reads

\* A process goes on with its pull: pages are looked at, read, asked for and
\* written, and what it has passed by now it passed before or settles now.
LEMMA PullGoesOn ==
    ASSUME Fetching, Fetching', Young, NEW p \in Procs, NEW r, r = proc[p], NEW n, Set(p, n),
           r.pc \in Working, n.pc \in Walking, n.job = r.job, n.shared = r.shared,
           UNCHANGED <<day, stored, wake, upsets, failed>>,
           \A q \in Pages :
              \/ file'[q] = file[q]
              \/ /\ q = r.page /\ r.pc \in Walking /\ r.page \in PagesOf(Head(r.job))
                 /\ file'[q].day = day /\ file'[q] # NoCopy,
           \A q \in Steady : q \notin Ahead(n) /\ Reads(r) =>
              \/ r.pc \in Walking /\ q \notin Ahead(r) /\ n.got[q] = r.got[q]
              \/ n.got[q] = file'[q] /\ (p = refresher /\ FullAt(r) => file'[q].day = day)
    PROVE  Young'
<1>1. Steady \subseteq Articles /\ Articles \subseteq Pages /\ day \in Nat /\ upsets \in Nat
      /\ failed + upsets \in Nat /\ upsets <= failed + upsets
      /\ \A page \in Pages : file[page].day \in Int
      /\ \A x \in Steady : TableDay(x) \in Int
  BY Days DEF Fetching
<1>2. WorldOK /\ WorldOK' /\ DOMAIN proc = Procs /\ refresher # session
      /\ refresher \in Procs /\ session \in Procs
  BY RefreshAssumption DEF Fetching, WorldOK, Procs
<1>3. proc'[p] = n /\ \A q \in Procs : q # p => proc'[q] = proc[q]
  BY <1>2 DEF Set
<1>4. n.pc \in Working /\ n.pc # "idle" /\ n.pc # "boot" /\ r.pc # "idle" /\ r.pc # "boot"
  BY DEF Walking, Working, Stages
<1>5. Upset' <=> Upset
  BY <1>2, <1>3, <1>4 DEF Upset, Procs
<1>6. /\ FullAt(proc'[refresher]) <=> FullAt(proc[refresher])
      /\ KitsAt(proc'[refresher]) <=> KitsAt(proc[refresher])
  BY <1>2, <1>3, <1>4 DEF FullAt, KitsAt
\* An article is written by the session, or by a full refresh.
<1>7. p = refresher /\ ~FullAt(r) => \A q \in Articles : file'[q] = file[q]
  <2> SUFFICES ASSUME p = refresher, ~FullAt(r), NEW q \in Articles PROVE file'[q] = file[q]
    OBVIOUS
  <2>1. r.job \in DailyJobs
    BY RefresherAt
  <2>2. PagesOf(Head(r.job)) \in {SeasonPages, RatesPages}
    <3>1. Head(r.job) \in {"pull_seasons", "pull_rates"}
      BY <2>1, JobShapes DEF AllJobs
    <3> QED BY <3>1, PagesOfIn
  <2> QED BY <1>1, <2>2, RefreshAssumption, PagesOfIn
<1>8. \A x \in Steady : Exists(x)'
  BY <1>1 DEF Young, Exists
<1>9. ASSUME NEW d \in Int, NEW k \in Nat, NEW before, Lag(d, k, before),
             p = refresher /\ FullAt(r) /\ ~before => d = day
      PROVE  Lag(d, k, before)'
  <2>1. CASE p = refresher /\ FullAt(r) /\ ~before
    BY <1>2, <1>9, <2>1, Today
  <2>2. CASE p = refresher /\ (before \/ ~FullAt(r))
    BY <1>5, <1>7, <1>9, <2>2, LagStill
  <2>3. CASE p # refresher
    <3>1. Upset
      BY <1>4, <2>3 DEF Upset, Procs
    <3>2. day' - d <= Owed(k)
      BY <1>9, <3>1 DEF Lag
    <3> QED BY <1>2, <3>2, LagSquare
  <2> QED BY <2>1, <2>2, <2>3
\* What each page is now: as it was, or of today.
<1>10. \A x \in Steady : file'[x] = file[x] \/ file'[x].day = day
  BY <1>1
<1>11. ASSUME NEW x \in Steady PROVE Lag(file[x].day, upsets, KitsAt(proc[refresher]))'
  <2>1. PICK d : d = file'[x].day
    OBVIOUS
  <2>2. PICK k : k = KitsAt(proc[refresher])
    OBVIOUS
  <2>3. PICK u : u = upsets
    OBVIOUS
  <2>4. Lag(d, u, k)'
    <3>1. CASE file'[x] = file[x]
      <4>1. d \in Int /\ u \in Nat /\ Lag(d, u, k)
        BY <1>1, <2>1, <2>2, <2>3, <3>1 DEF Young
      <4>2. p = refresher /\ FullAt(r) /\ ~k => d = day
        BY <2>1, <2>2, <3>1 DEF Young, FullSeen, KitsAt
      <4> QED BY <1>9, <4>1, <4>2
    <3>2. CASE file'[x].day = day
      BY <1>1, <1>2, <2>1, <2>3, <3>2, Today
    <3> QED BY <1>10, <3>1, <3>2
  <2>5. k <=> KitsAt(proc'[refresher])
    BY <1>6, <2>2
  <2>6. u = upsets'
    BY <2>3
  <2> QED BY <2>1, <2>4, <2>5, <2>6 DEF Lag
<1>12. ASSUME NEW x \in Steady PROVE Lag(TableDay(x), failed + upsets, FullAt(proc[refresher]))'
  <2>1. PICK d : d = TableDay(x)
    OBVIOUS
  <2>2. PICK k : k = FullAt(proc[refresher])
    OBVIOUS
  <2>3. PICK u : u = failed + upsets
    OBVIOUS
  <2>4. Lag(d, u, k)'
    <3>1. d \in Int /\ u \in Nat /\ Lag(d, u, k)
      BY <1>1, <2>1, <2>2, <2>3 DEF Young
    <3>2. p = refresher /\ FullAt(r) /\ ~k => d = day
      BY <2>2
    <3> QED BY <1>9, <3>1, <3>2
  <2>5. k <=> FullAt(proc'[refresher])
    BY <1>6, <2>2
  <2>6. u = failed' + upsets' /\ d = TableDay(x)'
    BY <2>1, <2>3 DEF TableDay
  <2> QED BY <2>4, <2>5, <2>6 DEF Lag
<1>13. \A page \in Pages : \A k : (file[page].stamp >= k => file[page].day = day)
                                     => (file'[page].stamp >= k => file'[page].day = day)
  OBVIOUS
<1>14. FullSeen(proc[refresher])'
  <2>1. CASE p = refresher
    <3>1. FullSeen(r) /\ (FullAt(n) <=> FullAt(r)) /\ day' = day
      BY <1>4, <2>1 DEF Young, FullAt
    <3>2. ASSUME FullAt(r), NEW x \in Steady, x \notin Ahead(n) \/ n.job # Registry PROVE file'[x].day = day
      <4>1. CASE n.job # Registry
        BY <1>10, <3>1, <3>2, <4>1 DEF FullSeen
      <4>2. CASE n.job = Registry
        <5>1. Reads(r)
          BY <4>2, JobShapes DEF Reads, AllJobs, FullJobs
        <5>2. r.pc \in Walking /\ x \notin Ahead(r) => file[x].day = day
          BY <3>1, <3>2 DEF FullSeen, Walking
        <5> QED BY <1>10, <2>1, <3>2, <4>2, <5>1, <5>2
      <4> QED BY <4>1, <4>2
    <3>3. ASSUME FullAt(r), Reads(r), NEW x \in Steady, x \notin Ahead(n) PROVE n.got[x].day = day
      <4>1. r.pc \in Walking /\ x \notin Ahead(r) => r.got[x].day = day
        BY <3>1, <3>3 DEF FullSeen
      <4> QED BY <2>1, <3>3, <4>1
    <3>4. FullAt(r) => \A page \in Pages : file'[page].stamp >= n.shared => file'[page].day = day
      BY <1>13, <3>1 DEF FullSeen
    <3>5. Reads(n) <=> Reads(r)
      BY DEF Reads
    <3>6. FullSeen(n)'
      BY <3>1, <3>2, <3>3, <3>4, <3>5 DEF FullSeen
    <3> QED BY <1>3, <2>1, <3>6
  <2>2. CASE p # refresher
    <3>1. PICK s : s = proc[refresher]
      OBVIOUS
    <3>2. s = proc'[refresher] /\ FullSeen(s)
      BY <1>2, <1>3, <2>2, <3>1 DEF Young
    <3>3. FullAt(s) => \A page \in Pages : file'[page].stamp >= s.shared => file'[page].day = day
      BY <1>13, <3>2 DEF FullSeen
    <3>4. FullSeen(s)'
      BY <1>10, <3>2, <3>3 DEF FullSeen
    <3> QED BY <3>2, <3>4
  <2> QED BY <2>1, <2>2
<1>15. SeenYoung(proc[session])'
  <2>1. CASE p = session
    <3>1. SeenYoung(r) /\ Upset
      BY <1>4, <2>1 DEF Young, Upset
    <3>2. ASSUME Reads(r), NEW x \in Steady, x \notin Ahead(n) PROVE day - n.got[x].day <= Owed(upsets)
      <4>1. CASE r.pc \in Walking /\ x \notin Ahead(r) /\ n.got[x] = r.got[x]
        BY <3>1, <3>2, <4>1 DEF SeenYoung
      <4>2. CASE n.got[x] = file'[x]
        <5>1. day - file[x].day <= Owed(upsets)
          BY <3>1 DEF Young, Lag
        <5>2. day - day <= Owed(upsets)
          BY <1>1, OwedGrows
        <5> QED BY <1>10, <4>2, <5>1, <5>2
      <4> QED BY <3>2, <4>1, <4>2
    <3>3. SeenYoung(n)'
      BY <3>2 DEF SeenYoung, Reads
    <3> QED BY <1>3, <2>1, <3>3
  <2>2. CASE p # session
    <3>1. PICK s : s = proc[session]
      OBVIOUS
    <3>2. s = proc'[session] /\ SeenYoung(s)
      BY <1>2, <1>3, <2>2, <3>1 DEF Young
    <3>3. SeenYoung(s)'
      BY <3>2 DEF SeenYoung
    <3> QED BY <3>2, <3>3
  <2> QED BY <2>1, <2>2
<1> QED BY <1>8, <1>11, <1>12, <1>14, <1>15 DEF Young

\* The page a pull settles, and what is left of the others.
LEMMA SettlesOne ==
    ASSUME Fetching, NEW p \in Procs, NEW r, r = proc[p], r.pc \in {"read", "ask", "fill"},
           NEW c \in Copies, NEW d \in Recs, d.got = [r.got EXCEPT ![r.page] = c], d.todo = r.todo, SameJob(r, d),
           NEW n, n = NextPage(d)
    PROVE  /\ n.pc \in Walking /\ n.job = r.job /\ n.shared = r.shared /\ n.got = d.got
           /\ r.pc \in Walking /\ r.pc \in Working /\ r.page \in PagesOf(Head(r.job)) /\ r.page \in Pages
           /\ \A q \in Steady : q \notin Ahead(n) /\ Reads(r) /\ q # r.page =>
                 q \notin Ahead(r) /\ n.got[q] = r.got[q]
           /\ Reads(r) /\ r.page \in Steady => n.got[r.page] = c
<1>1. r.pc \in Walking /\ r.pc \in Working /\ r.pc # "store"
  BY DEF Walking, Working, Stages
<1>2. /\ WalkOK(r) /\ r.page \in PagesOf(Head(r.job)) /\ Ahead(r) = r.todo \cup {r.page} /\ r.page \in Pages
      /\ r.got \in [PagesOf(Head(r.job)) -> Copies]
  BY <1>1, AtWork DEF WalkOK
<1>3. n.pc \in Walking /\ Ahead(n) = r.todo /\ n.job = r.job /\ n.shared = r.shared /\ n.got = d.got
  BY NextPageFacts DEF SameJob, Walking
<1>4. Reads(r) => PagesOf(Head(r.job)) = Articles
  BY PagesOfIn DEF Reads
<1>5. Steady \subseteq Articles
  BY DEF Steady
<1> QED BY <1>1, <1>2, <1>3, <1>4, <1>5

LEMMA PullYoung ==
    ASSUME Fetching, Fetching', Young, NEW p \in Procs, Pull(p)
    PROVE  Young'
<1>1. PICK r : r = proc[p]
  OBVIOUS
<1>2. PICK of : of = PagesOf(Head(r.job))
  OBVIOUS
<1>3. PICK d : d = [r EXCEPT !.cutoff = Cutoff(r), !.todo = of, !.got = [page \in of |-> NoCopy], !.stale = {}]
  OBVIOUS
<1>4. PICK n : n = NextPage(d)
  OBVIOUS
<1>5. r.pc = "pull" /\ Set(p, n) /\ UNCHANGED <<day, file, stored, wake, upsets, failed>>
  BY <1>1, <1>2, <1>3, <1>4 DEF Pull
<1>6. r \in Recs /\ r.pc \in Working
  BY <1>1, <1>5, AtWork DEF Working, Stages
<1>7. n.job = r.job /\ n.shared = r.shared /\ n.pc \in Walking /\ Ahead(n) = of
  <2>1. n.job = d.job /\ n.shared = d.shared /\ n.pc \in {"look", "store"}
        /\ (n.pc = "store" => d.todo = {}) /\ (n.pc = "look" => n.todo \cup {n.page} = d.todo)
    <3>1. d.todo # {} => (CHOOSE x \in d.todo : TRUE) \in d.todo
      OBVIOUS
    <3>2. d.todo = of /\ d = [r EXCEPT !.cutoff = d.cutoff, !.todo = of, !.got = d.got, !.stale = {}]
      BY <1>3, <1>6 DEF Recs
    <3>3. CASE d.todo = {}
      <4>1. n = [d EXCEPT !.pc = "store", !.page = "none", !.attempt = 0]
        BY <1>4, <3>3 DEF NextPage
      <4> QED BY <1>6, <3>2, <3>3, <4>1 DEF Recs
    <3>4. CASE d.todo # {}
      <4>1. PICK x : x = (CHOOSE y \in d.todo : TRUE)
        OBVIOUS
      <4>2. n = [d EXCEPT !.pc = "look", !.page = x, !.todo = d.todo \ {x}, !.attempt = 0]
        BY <1>4, <3>4, <4>1 DEF NextPage
      <4> QED BY <1>6, <3>1, <3>2, <3>4, <4>1, <4>2 DEF Recs
    <3> QED BY <3>3, <3>4
  <2>2. d.job = r.job /\ d.shared = r.shared /\ d.todo = of
    BY <1>3, <1>6 DEF Recs
  <2> QED BY <2>1, <2>2 DEF Ahead, Walking
<1>8. \A q \in Steady : q \notin Ahead(n) => ~Reads(r)
  BY <1>2, <1>7, PagesOfIn DEF Steady, Reads
<1> QED BY <1>1, <1>5, <1>6, <1>7, <1>8, PullGoesOn

\* The page goes on being the process's, as it was or opened.
LEMMA SamePageYoung ==
    ASSUME Fetching, Fetching', Young, NEW p \in Procs, NEW r, r = proc[p], NEW n, Set(p, n),
           r.pc \in {"look", "ask"}, n.pc \in {"read", "ask", "fill"},
           n.job = r.job, n.shared = r.shared, n.todo = r.todo, n.page = r.page, n.got = r.got,
           UNCHANGED <<day, stored, wake, upsets, failed>>,
           file' = file \/ (file' = [file EXCEPT ![r.page] = Copy("torn")])
    PROVE  Young'
<1>1. r.pc \in Walking /\ r.pc \in Working /\ n.pc \in Walking /\ Ahead(n) = Ahead(r)
      /\ r.pc # "store"
  BY DEF Walking, Working, Stages, Ahead
<1>2. r.page \in Pages /\ r.page \in PagesOf(Head(r.job))
  BY <1>1, AtWork
<1>3. \A q \in Pages : file'[q] = file[q] \/ (q = r.page /\ file'[q].day = day /\ file'[q] # NoCopy)
  <2>1. file \in [Pages -> Copies] /\ clock \in Nat \ {0}
    BY DEF Fetching, WorldOK
  <2>2. Copy("torn").day = day /\ Copy("torn") # NoCopy
    BY <2>1 DEF Copy, NoCopy
  <2> QED BY <1>2, <2>1, <2>2
<1> QED BY <1>1, <1>2, <1>3, PullGoesOn

LEMMA LookYoung ==
    ASSUME Fetching, Fetching', Young, NEW p \in Procs, Look(p)
    PROVE  Young'
<1>1. PICK r : r = proc[p]
  OBVIOUS
<1>2. PICK n : n = [r EXCEPT !.pc = IF Fresh(r.page, r.cutoff) THEN "read" ELSE "ask"]
  OBVIOUS
<1>3. r.pc = "look" /\ Set(p, n) /\ UNCHANGED <<day, file, stored, wake, upsets, failed>> /\ r \in Recs
  BY <1>1, <1>2, AtWork DEF Look
<1>4. n.pc \in {"read", "ask", "fill"} /\ n.job = r.job /\ n.shared = r.shared /\ n.todo = r.todo
      /\ n.page = r.page /\ n.got = r.got
  BY <1>2, <1>3 DEF Recs
<1> QED BY <1>1, <1>3, <1>4, SamePageYoung

LEMMA RetryYoung ==
    ASSUME Fetching, Fetching', Young, NEW p \in Procs, Retry(p)
    PROVE  Young'
<1>1. PICK r : r = proc[p]
  OBVIOUS
<1>2. PICK n : n = [r EXCEPT !.attempt = r.attempt + 1]
  OBVIOUS
<1>3. r.pc = "ask" /\ Set(p, n) /\ UNCHANGED <<day, file, stored, wake, upsets, failed>> /\ r \in Recs
  BY <1>1, <1>2, AtWork DEF Retry
<1>4. n.pc \in {"read", "ask", "fill"} /\ n.job = r.job /\ n.shared = r.shared /\ n.todo = r.todo
      /\ n.page = r.page /\ n.got = r.got
  BY <1>2, <1>3 DEF Recs
<1> QED BY <1>1, <1>3, <1>4, SamePageYoung

LEMMA OpenYoung ==
    ASSUME Fetching, Fetching', Young, NEW p \in Procs, Open(p)
    PROVE  Young'
<1>1. PICK r : r = proc[p]
  OBVIOUS
<1>2. PICK n : n = [r EXCEPT !.pc = "fill", !.attempt = 0]
  OBVIOUS
<1>3. /\ r.pc = "ask" /\ Set(p, n) /\ file' = [file EXCEPT ![r.page] = Copy("torn")]
      /\ UNCHANGED <<day, stored, wake, upsets, failed>> /\ r \in Recs
  BY <1>1, <1>2, AtWork DEF Open
<1>4. n.pc \in {"read", "ask", "fill"} /\ n.job = r.job /\ n.shared = r.shared /\ n.todo = r.todo
      /\ n.page = r.page /\ n.got = r.got
  BY <1>2, <1>3 DEF Recs
<1> QED BY <1>1, <1>3, <1>4, SamePageYoung

LEMMA ReadCopyYoung ==
    ASSUME Fetching, Fetching', Young, NEW p \in Procs, ReadCopy(p)
    PROVE  Young'
<1>1. PICK r : r = proc[p]
  OBVIOUS
<1>2. PICK c : c = file[r.page]
  OBVIOUS
<1>3. PICK d : d = [r EXCEPT !.got[r.page] = c]
  OBVIOUS
<1>4. PICK n : n = NextPage(d)
  OBVIOUS
<1>5. r.pc = "read" /\ Set(p, n) /\ UNCHANGED <<day, clock, file, stored, wake, upsets, failed>>
  BY <1>1, <1>2, <1>3, <1>4 DEF ReadCopy, Keep
<1>6. /\ WalkOK(r) /\ r \in Recs /\ r.page \in PagesOf(Head(r.job)) /\ r.job \in AllJobs /\ r.page \in Pages
      /\ r.got \in [PagesOf(Head(r.job)) -> Copies] /\ r.pc \in Walking
  <2>1. r.pc \in Walking /\ r.pc # "store"
    BY <1>5 DEF Walking
  <2> QED BY <1>1, <2>1, AtWork DEF WalkOK
<1>7. c \in Copies
  BY <1>2, <1>6 DEF Fetching, WorldOK
<1>8. d \in Recs /\ d.got = [r.got EXCEPT ![r.page] = c] /\ d.todo = r.todo /\ SameJob(r, d)
  <2>1. [r.got EXCEPT ![r.page] = c] \in Gots
    <3>1. Head(r.job) \in Pulls
      BY <1>6, JobShapes
    <3>2. [r.got EXCEPT ![r.page] = c] \in [PagesOf(Head(r.job)) -> Copies]
      BY <1>6, <1>7
    <3> QED BY <3>1, <3>2 DEF Gots
  <2> QED BY <1>3, <1>6, <2>1 DEF Recs, SameJob
<1>9. p = refresher /\ FullAt(r) => file'[r.page].day = day
  <2> SUFFICES ASSUME p = refresher, FullAt(r) PROVE file[r.page].day = day
    BY <1>5
  <2>1. r.shared # 0 /\ r.cutoff = r.shared /\ file[r.page].stamp >= r.cutoff
    BY <1>5, <1>6 DEF WalkOK, FullAt
  <2>2. FullSeen(r)
    BY <1>1 DEF Young
  <2> QED BY <1>6, <2>1, <2>2 DEF FullSeen
<1>10. r.pc \in {"read", "ask", "fill"}
  BY <1>5
<1>11. /\ n.pc \in Walking /\ n.job = r.job /\ n.shared = r.shared /\ r.pc \in Working
       /\ \A q \in Steady : q \notin Ahead(n) /\ Reads(r) /\ q # r.page =>
             q \notin Ahead(r) /\ n.got[q] = r.got[q]
       /\ Reads(r) /\ r.page \in Steady => n.got[r.page] = c
  BY <1>1, <1>4, <1>7, <1>8, <1>10, SettlesOne
<1>12. \A q \in Steady : q \notin Ahead(n) /\ Reads(r) =>
              \/ r.pc \in Walking /\ q \notin Ahead(r) /\ n.got[q] = r.got[q]
              \/ n.got[q] = file'[q] /\ (p = refresher /\ FullAt(r) => file'[q].day = day)
  BY <1>2, <1>5, <1>6, <1>9, <1>11
<1>13. \A q \in Pages : file'[q] = file[q]
  BY <1>5
<1> QED BY <1>1, <1>5, <1>11, <1>12, <1>13, PullGoesOn

LEMMA FillYoung ==
    ASSUME Fetching, Fetching', Young, NEW p \in Procs, Fill(p)
    PROVE  Young'
<1>1. PICK r : r = proc[p]
  OBVIOUS
<1>2. PICK c : c = Copy("whole")
  OBVIOUS
<1>3. PICK d : d = [[r EXCEPT !.mine = r.mine \cup {r.page}] EXCEPT !.got[r.page] = c]
  OBVIOUS
<1>4. PICK n : n = NextPage(d)
  OBVIOUS
<1>5. /\ r.pc = "fill" /\ r \in Recs /\ r.page \in Pages /\ r.pc \in Walking /\ r.mine \subseteq Pages
      /\ r.page \in PagesOf(Head(r.job)) /\ r.job \in AllJobs /\ r.got \in [PagesOf(Head(r.job)) -> Copies]
  <2>1. r.pc = "fill" /\ r.pc \in Walking /\ r.pc # "store"
    BY <1>1 DEF Fill, Walking
  <2> QED BY <1>1, <2>1, AtWork DEF WalkOK
<1>6. [r EXCEPT !.mine = r.mine \cup {r.page}].page = r.page
  BY <1>5 DEF Recs
<1>7. /\ Set(p, n) /\ file' = [file EXCEPT ![r.page] = c]
      /\ UNCHANGED <<day, stored, wake, upsets, failed>>
  BY <1>1, <1>2, <1>3, <1>4, <1>6 DEF Fill, Keep
<1>8. c \in Copies /\ c.day = day /\ c # NoCopy
  <2>1. clock \in Nat \ {0} /\ day \in Nat
    BY RefreshAssumption DEF Fetching, WorldOK
  <2> QED BY <1>2, <2>1 DEF Copy, Copies, NoCopy
<1>9. d \in Recs /\ d.got = [r.got EXCEPT ![r.page] = c] /\ d.todo = r.todo /\ SameJob(r, d)
  <2>1. [r.got EXCEPT ![r.page] = c] \in Gots
    <3>1. Head(r.job) \in Pulls
      BY <1>5, JobShapes
    <3>2. [r.got EXCEPT ![r.page] = c] \in [PagesOf(Head(r.job)) -> Copies]
      BY <1>5, <1>8
    <3> QED BY <3>1, <3>2 DEF Gots
  <2>2. r.mine \cup {r.page} \in SUBSET Pages
    BY <1>5
  <2> QED BY <1>3, <1>5, <2>1, <2>2 DEF Recs, SameJob
<1>10. r.pc \in {"read", "ask", "fill"}
  BY <1>5
<1>11. /\ n.pc \in Walking /\ n.job = r.job /\ n.shared = r.shared /\ r.pc \in Working
       /\ \A q \in Steady : q \notin Ahead(n) /\ Reads(r) /\ q # r.page =>
             q \notin Ahead(r) /\ n.got[q] = r.got[q]
       /\ Reads(r) /\ r.page \in Steady => n.got[r.page] = c
  BY <1>1, <1>4, <1>8, <1>9, <1>10, SettlesOne
<1>12. /\ file'[r.page] = c /\ \A q \in Pages : q # r.page => file'[q] = file[q]
  BY <1>5, <1>7 DEF Fetching, WorldOK
<1>13. \A q \in Steady : q \notin Ahead(n) /\ Reads(r) =>
              \/ r.pc \in Walking /\ q \notin Ahead(r) /\ n.got[q] = r.got[q]
              \/ n.got[q] = file'[q] /\ (p = refresher /\ FullAt(r) => file'[q].day = day)
  BY <1>5, <1>8, <1>11, <1>12
<1> QED BY <1>1, <1>5, <1>7, <1>8, <1>11, <1>12, <1>13, PullGoesOn

\* A process comes to rest without an answer, or begins another job: the
\* counts are as they were, or one more.
LEMMA RaiseYoung ==
    ASSUME Fetching, Fetching', Young, NEW p \in Procs, Raise(p), proc[p].pc \in Working,
           UNCHANGED <<day, clock, file, stored, wake, upsets>>,
           p = refresher => ~(KitsAt(proc[p]))
    PROVE  Young'
<1>1. /\ WorldOK /\ WorldOK' /\ refresher # session /\ refresher \in Procs /\ session \in Procs
      /\ \A x \in Steady : Exists(x)'
      /\ upsets \in Nat /\ failed \in Nat /\ failed + upsets \in Nat
      /\ \A x \in Steady : file[x].day \in Int /\ TableDay(x) \in Int
  BY Days, RefreshAssumption DEF Fetching, Procs, Young, Exists
<1>2. proc'[p] = Idle /\ \A q \in Procs : q # p => proc'[q] = proc[q]
  BY DEF Raise, Set, Fetching, WorldOK
<1>3. Idle.pc = "idle" /\ Idle.pc \notin Working /\ Idle.pc \notin Walking
  BY DEF Idle, Working, Walking
<1>4. proc[p].pc # "idle" /\ proc[p].pc # "boot"
  BY DEF Working
<1>5. Upset' => Upset
  BY <1>1, <1>2, <1>3 DEF Upset, Procs
<1>6. ASSUME NEW x \in Steady PROVE Lag(file[x].day, upsets, KitsAt(proc[refresher]))'
  <2>1. PICK d : d = file[x].day
    OBVIOUS
  <2>2. PICK k : k = KitsAt(proc[refresher])
    OBVIOUS
  <2>3. PICK u : u = upsets
    OBVIOUS
  <2>4. d \in Int /\ u \in Nat /\ Lag(d, u, k)
    BY <1>1, <2>1, <2>2, <2>3 DEF Young
  <2>5. k <=> KitsAt(proc'[refresher])
    BY <1>1, <1>2, <1>3, <2>2 DEF KitsAt, FullAt, Procs
  <2>6. Lag(d, u, k)'
    BY <1>5, <2>4, LagStill
  <2> QED BY <2>1, <2>3, <2>5, <2>6 DEF Lag
<1>7. ASSUME NEW x \in Steady PROVE Lag(TableDay(x), failed + upsets, FullAt(proc[refresher]))'
  <2>1. PICK d : d = TableDay(x)
    OBVIOUS
  <2>2. PICK k : k = FullAt(proc[refresher])
    OBVIOUS
  <2>3. PICK u : u = failed + upsets
    OBVIOUS
  <2>4. d \in Int /\ u \in Nat /\ Lag(d, u, k) /\ d = TableDay(x)'
    BY <1>1, <2>1, <2>2, <2>3 DEF Young, TableDay
  <2>5. CASE p = refresher
    <3>1. PICK v : v = failed' + upsets'
      OBVIOUS
    <3>2. v \in Nat /\ v > u
      BY <1>1, <2>3, <2>5, <3>1 DEF Raise
    <3>3. Lag(d, v, FALSE)'
      BY <1>1, <2>4, <3>2, Setback
    <3> QED BY <2>4, <3>1, <3>3 DEF Lag
  <2>6. CASE p # refresher
    <3>1. failed' = failed /\ u = failed' + upsets'
      BY <2>3, <2>6 DEF Raise
    <3>2. k <=> FullAt(proc'[refresher])
      BY <1>1, <1>2, <2>2, <2>6 DEF FullAt
    <3>3. Lag(d, u, k)'
      BY <1>5, <2>4, LagStill
    <3> QED BY <2>4, <3>1, <3>2, <3>3 DEF Lag
  <2> QED BY <2>5, <2>6
<1>8. FullSeen(proc[refresher])'
  <2>1. CASE p = refresher
    BY <1>2, <1>3, <2>1 DEF FullSeen, FullAt
  <2>2. CASE p # refresher
    BY <1>1, <1>2, <2>2 DEF FullSeen, Young
  <2> QED BY <2>1, <2>2
<1>9. SeenYoung(proc[session])'
  <2>1. CASE p = session
    BY <1>2, <1>3, <2>1 DEF SeenYoung
  <2>2. CASE p # session
    BY <1>1, <1>2, <2>2 DEF SeenYoung, Young
  <2> QED BY <2>1, <2>2
<1> QED BY <1>1, <1>6, <1>7, <1>8, <1>9 DEF Young

LEMMA GiveUpYoung ==
    ASSUME Fetching, Fetching', Young, NEW p \in Procs, GiveUp(p)
    PROVE  Young'
<1>1. PICK r : r = proc[p]
  OBVIOUS
<1>2. r.pc = "ask" /\ r.page \in Flaky /\ UNCHANGED <<day, clock, file, stored, wake, upsets>>
  BY <1>1 DEF GiveUp
<1>3. /\ r \in Recs /\ r.page \in Pages /\ r.page \in PagesOf(Head(r.job)) /\ r.job \in AllJobs
      /\ r.stale \subseteq Pages /\ r.pc \in Walking /\ r.pc \in Working
      /\ r.got \in [PagesOf(Head(r.job)) -> Copies] /\ r.got[r.page] = NoCopy
  <2>1. r.pc \in Walking /\ r.pc # "store" /\ r.pc \in Working
    BY <1>2 DEF Walking, Working, Stages
  <2> QED BY <1>1, <2>1, AtWork DEF WalkOK
<1>4. r.page \notin Steady /\ r.pc \in {"read", "ask", "fill"} /\ \A q \in Pages : file'[q] = file[q]
  BY <1>2 DEF Steady
<1>5. ASSUME NEW c \in Copies, NEW d \in Recs, d.got = [r.got EXCEPT ![r.page] = c], d.todo = r.todo,
             SameJob(r, d), Set(p, NextPage(d)), UNCHANGED failed
      PROVE  Young'
  <2>1. PICK n : n = NextPage(d)
    OBVIOUS
  <2>2. /\ n.pc \in Walking /\ n.job = r.job /\ n.shared = r.shared
        /\ \A q \in Steady : q \notin Ahead(n) /\ Reads(r) /\ q # r.page =>
              q \notin Ahead(r) /\ n.got[q] = r.got[q]
    BY <1>1, <1>4, <1>5, <2>1, SettlesOne
  <2>3. \A q \in Steady : q \notin Ahead(n) /\ Reads(r) =>
              r.pc \in Walking /\ q \notin Ahead(r) /\ n.got[q] = r.got[q]
    BY <1>3, <1>4, <2>2
  <2> QED BY <1>1, <1>2, <1>3, <1>4, <1>5, <2>1, <2>2, <2>3, PullGoesOn
<1>6. CASE Exists(r.page) /\ KeepStale(p, r) /\ UNCHANGED failed
  <2>1. PICK c : c = file[r.page]
    OBVIOUS
  <2>2. PICK d : d = [r EXCEPT !.got[r.page] = c, !.stale = r.stale \cup {r.page}]
    OBVIOUS
  <2>3. Set(p, NextPage(d))
    BY <1>6, <2>1, <2>2 DEF KeepStale
  <2>4. c \in Copies
    BY <1>3, <2>1 DEF Fetching, WorldOK
  <2>5. d \in Recs /\ d.got = [r.got EXCEPT ![r.page] = c] /\ d.todo = r.todo /\ SameJob(r, d)
    <3>1. [r.got EXCEPT ![r.page] = c] \in Gots
      <4>1. Head(r.job) \in Pulls
        BY <1>3, JobShapes
      <4>2. [r.got EXCEPT ![r.page] = c] \in [PagesOf(Head(r.job)) -> Copies]
        BY <1>3, <2>4
      <4> QED BY <4>1, <4>2 DEF Gots
    <3>2. r.stale \cup {r.page} \in SUBSET Pages
      BY <1>3
    <3> QED BY <1>3, <2>2, <3>1, <3>2 DEF Recs, SameJob
  <2> QED BY <1>5, <1>6, <2>3, <2>4, <2>5
<1>7. CASE ~Exists(r.page) /\ Guarded(r.page) /\ Set(p, NextPage(r)) /\ UNCHANGED failed
  <2>1. r.got = [r.got EXCEPT ![r.page] = NoCopy] /\ NoCopy \in Copies /\ SameJob(r, r)
    BY <1>3 DEF Copies, SameJob
  <2> QED BY <1>3, <1>5, <1>7, <2>1
<1>8. CASE ~Exists(r.page) /\ ~Guarded(r.page) /\ Raise(p)
  <2>1. ~KitsAt(r)
    <3>1. r.job = Registry => Head(r.job) = "pull_kits"
      BY <1>3, JobShapes
    <3> QED BY <1>3, <1>8, <3>1, PagesOfIn DEF KitsAt, Guarded
  <2> QED BY <1>1, <1>2, <1>3, <1>8, <2>1, RaiseYoung
<1> QED BY <1>1, <1>6, <1>7, <1>8 DEF GiveUp

LEMMA UnreadableYoung ==
    ASSUME Fetching, Fetching', Young, NEW p \in Procs, Unreadable(p)
    PROVE  Young'
<1>1. PICK r : r = proc[p]
  OBVIOUS
<1>2. /\ r.pc = "store" /\ Refused(Head(r.job), r) /\ Raise(p)
      /\ UNCHANGED <<day, clock, file, stored, wake, upsets>>
  BY <1>1 DEF Unreadable
<1>3. r.job \in AllJobs /\ r.pc \in Working
  <2>1. r.pc \in Walking
    BY <1>2 DEF Walking
  <2> QED BY <1>1, <2>1, AtWork
<1>4. ~KitsAt(r)
  <2>1. r.job = Registry => Head(r.job) = "pull_kits"
    BY <1>3, JobShapes
  <2> QED BY <1>2, <2>1 DEF KitsAt, Refused
<1> QED BY <1>1, <1>2, <1>3, <1>4, RaiseYoung

\* A kill or a call: each count is one more.
LEMMA SetbackYoung ==
    ASSUME Fetching, Fetching', Young, UNCHANGED <<day, file, stored, failed>>, upsets' = upsets + 1,
           NEW p \in Procs, NEW n, Set(p, n), n.pc \notin Walking, p = refresher => ~FullAt(n)
    PROVE  Young'
<1>1. /\ WorldOK /\ WorldOK' /\ refresher # session /\ refresher \in Procs /\ session \in Procs
      /\ \A x \in Steady : Exists(x)'
      /\ upsets \in Nat /\ failed \in Nat /\ failed + upsets \in Nat
      /\ \A x \in Steady : file[x].day \in Int /\ TableDay(x) \in Int
  BY Days, RefreshAssumption DEF Fetching, Procs, Young, Exists
<1>2. proc'[p] = n /\ \A q \in Procs : q # p => proc'[q] = proc[q]
  BY DEF Set, Fetching, WorldOK
<1>3. ASSUME NEW x \in Steady PROVE Lag(file[x].day, upsets, KitsAt(proc[refresher]))'
  <2>1. PICK d : d = file[x].day
    OBVIOUS
  <2>2. PICK k : k = KitsAt(proc[refresher])
    OBVIOUS
  <2>3. PICK u : u = upsets
    OBVIOUS
  <2>4. PICK v : v = upsets'
    OBVIOUS
  <2>5. d \in Int /\ u \in Nat /\ v \in Nat /\ v > u /\ Lag(d, u, k)
    BY <1>1, <2>1, <2>2, <2>3, <2>4 DEF Young
  <2>6. Lag(d, v, FALSE)'
    BY <1>1, <2>5, Setback
  <2> QED BY <2>1, <2>4, <2>6 DEF Lag
<1>4. ASSUME NEW x \in Steady PROVE Lag(TableDay(x), failed + upsets, FullAt(proc[refresher]))'
  <2>1. PICK d : d = TableDay(x)
    OBVIOUS
  <2>2. PICK k : k = FullAt(proc[refresher])
    OBVIOUS
  <2>3. PICK u : u = failed + upsets
    OBVIOUS
  <2>4. PICK v : v = failed' + upsets'
    OBVIOUS
  <2>5. d \in Int /\ u \in Nat /\ v \in Nat /\ v > u /\ Lag(d, u, k) /\ d = TableDay(x)'
    BY <1>1, <2>1, <2>2, <2>3, <2>4 DEF Young, TableDay
  <2>6. Lag(d, v, FALSE)'
    BY <1>1, <2>5, Setback
  <2> QED BY <2>4, <2>5, <2>6 DEF Lag
<1>5. FullSeen(proc[refresher])'
  <2>1. CASE p = refresher
    BY <1>2, <2>1 DEF FullSeen, FullAt
  <2>2. CASE p # refresher
    BY <1>1, <1>2, <2>2 DEF FullSeen, Young
  <2> QED BY <2>1, <2>2
<1>6. SeenYoung(proc[session])'
  <2>1. CASE p = session
    BY <1>2, <2>1 DEF SeenYoung
  <2>2. CASE p # session
    <3>1. Owed(upsets) <= Owed(upsets') /\ Owed(upsets) \in Nat /\ Owed(upsets') \in Nat
      <4>1. upsets' \in Nat /\ upsets <= upsets'
        BY <1>1
      <4> QED BY <1>1, <4>1, OwedGrows
    <3>2. PICK s : s = proc[session]
      OBVIOUS
    <3>3. s = proc'[session] /\ SeenYoung(s)
      BY <1>1, <1>2, <2>2, <3>2 DEF Young
    <3>4. s.pc \in Walking /\ Reads(s) => \A x \in Steady \ Ahead(s) : day - s.got[x].day \in Int
      <4>1. s.pc \in Walking => s.got \in [PagesOf(Head(s.job)) -> Copies]
        BY <1>1, <3>2 DEF Fetching, WalkOK
      <4>2. Reads(s) => PagesOf(Head(s.job)) = Articles
        BY PagesOfIn DEF Reads
      <4>3. \A c \in Copies : c.day \in Nat
        BY DEF Copies, NoCopy
      <4>4. day \in Nat /\ Steady \subseteq Articles
        BY <1>1, Days
      <4> QED BY <4>1, <4>2, <4>3, <4>4
    <3>5. SeenYoung(s)'
      BY <3>1, <3>3, <3>4 DEF SeenYoung
    <3> QED BY <3>3, <3>5
  <2> QED BY <2>1, <2>2
<1> QED BY <1>1, <1>3, <1>4, <1>5, <1>6 DEF Young

LEMMA DieYoung ==
    ASSUME Fetching, Fetching', Young, NEW p \in Procs, Die(p)
    PROVE  Young'
<1>1. PICK n : n = IF p = refresher THEN [Idle EXCEPT !.pc = "boot"] ELSE Idle
  OBVIOUS
<1>2. Set(p, n) /\ UNCHANGED <<day, file, stored, failed>> /\ upsets' = upsets + 1
  BY <1>1 DEF Die
<1>3. n.pc \notin Walking /\ ~FullAt(n)
  BY <1>1 DEF Idle, Walking, FullAt
<1> QED BY <1>2, <1>3, SetbackYoung

LEMMA CallYoung ==
    ASSUME Fetching, Fetching', Young, Call
    PROVE  Young'
<1>1. PICK n : Set(session, n) /\ n.pc = "pull"
  <2>1. PICK refresh \in BOOLEAN, job \in Jobs :
           Set(session, [Idle EXCEPT !.pc = "pull", !.job = job, !.refresh = refresh,
                            !.shared = IF refresh /\ job = Registry THEN clock + 1 ELSE 0])
    BY DEF Call
  <2>2. [Idle EXCEPT !.pc = "pull", !.job = job, !.refresh = refresh,
            !.shared = IF refresh /\ job = Registry THEN clock + 1 ELSE 0].pc = "pull"
    BY DEF Idle
  <2> QED BY <2>1, <2>2
<1>2. UNCHANGED <<day, file, stored, failed>> /\ upsets' = upsets + 1
  BY DEF Call
<1>3. session \in Procs /\ session # refresher /\ n.pc \notin Walking
  BY <1>1, RefreshAssumption DEF Procs, Walking
<1> QED BY <1>1, <1>2, <1>3, SetbackYoung

\* A commit: the table is made of what was read, or is left alone.
LEMMA StoreYoung ==
    ASSUME Fetching, Fetching', Young, NEW p \in Procs, Store(p)
    PROVE  Young'
<1>1. PICK r : r = proc[p]
  OBVIOUS
<1>2. PICK q : q = Head(r.job)
  OBVIOUS
<1>3. PICK n : n = NextPull(r)
  OBVIOUS
<1>4. /\ r.pc = "store" /\ Set(p, n) /\ UNCHANGED <<day, clock, file, wake, upsets, failed>>
      /\ stored' = IF q \in Followed /\ Stores(q, r) THEN [stored EXCEPT ![q] = Made(r.got)] ELSE stored
  BY <1>1, <1>2, <1>3 DEF Store
<1>5. /\ r.job \in AllJobs /\ r.pc \in Walking /\ r.pc \in Working /\ Ahead(r) = {}
      /\ r.got \in [PagesOf(q) -> Copies]
  <2>1. r.pc \in Walking
    BY <1>4 DEF Walking
  <2>2. WalkOK(r) /\ r.job \in AllJobs /\ r.pc \in Working
    BY <1>1, <2>1, AtWork
  <2> QED BY <1>2, <1>4, <2>1, <2>2 DEF WalkOK, Ahead
<1>6. /\ WorldOK /\ WorldOK' /\ refresher # session /\ refresher \in Procs /\ session \in Procs
      /\ \A x \in Steady : Exists(x)'
      /\ upsets \in Nat /\ failed \in Nat /\ failed + upsets \in Nat /\ upsets <= failed + upsets
      /\ day \in Nat /\ Steady \subseteq Articles
      /\ \A x \in Steady : file[x].day \in Int /\ TableDay(x) \in Int /\ TableDay(x)' \in Int
  <2>1. ASSUME NEW x \in Steady PROVE TableDay(x)' \in Int
    <3>1. stored'["pull_synergies"] \in
             [Articles -> [day : 0..MaxDay, text : {"whole", "torn", "none"}]]
      BY PagesOfIn DEF Fetching, WorldOK, Followed
    <3> QED BY <3>1, RefreshAssumption DEF TableDay, Steady
  <2> QED BY <1>4, <2>1, Days, RefreshAssumption DEF Fetching, Procs, Young, Exists
<1>7. proc'[p] = n /\ \A s \in Procs : s # p => proc'[s] = proc[s]
  BY <1>4 DEF Set, Fetching, WorldOK
<1>8. /\ n.pc \in {"idle", "pull"} /\ n.pc \notin Walking
      /\ n.pc = "idle" <=> Len(r.job) = 1
      /\ n.pc = "pull" => n.shared = r.shared /\ n.job = Tail(r.job)
  BY <1>3 DEF NextPull, Idle, Walking
<1>9. Upset' => Upset
  BY <1>1, <1>4, <1>6, <1>7, <1>8 DEF Upset, Procs
<1>10. FullAt(n) => FullAt(r) /\ Len(r.job) # 1 /\ n.shared = r.shared /\ n.job = Tail(r.job)
  BY <1>5, <1>8 DEF FullAt, Working, Stages
<1>11. p = refresher /\ FullAt(r) => /\ r.job \in FullJobs
                                     /\ q # "pull_synergies" => FullAt(n)
                                     /\ Len(r.job) # 1 => Tail(r.job) # Registry
  <2>1. p = refresher /\ FullAt(r) => r.job \in FullJobs
    BY <1>1, RefresherAt
  <2>2. r.job \in FullJobs => /\ Len(r.job) = 1 => q = "pull_synergies"
                              /\ Len(r.job) # 1 => Tail(r.job) # Registry
    BY <1>2, <1>5, JobShapes
  <2> QED BY <1>8, <2>1, <2>2 DEF FullAt, Working, Stages
<1>12. p = refresher => FullSeen(r)
  BY <1>1 DEF Young
<1>13. ASSUME NEW x \in Steady PROVE Lag(file[x].day, upsets, KitsAt(proc[refresher]))'
  <2>1. PICK d : d = file[x].day
    OBVIOUS
  <2>2. PICK k : k = KitsAt(proc[refresher])
    OBVIOUS
  <2>3. PICK u : u = upsets
    OBVIOUS
  <2>4. PICK a : a = KitsAt(proc'[refresher])
    OBVIOUS
  <2>5. d \in Int /\ u \in Nat /\ Lag(d, u, k) /\ d = file'[x].day /\ u = upsets' /\ day' = day /\ wake' = wake
        /\ \A s \in Articles : file'[s].day = file[s].day
    BY <1>4, <1>6, <2>1, <2>2, <2>3 DEF Young
  <2>6. Lag(d, u, a)'
    <3>1. CASE p = refresher /\ k
      <4>1. KitsAt(r) /\ FullAt(r)
        BY <1>1, <2>2, <3>1 DEF KitsAt
      <4>2. d = day'
        BY <1>4, <1>5, <1>12, <2>1, <3>1, <4>1 DEF FullSeen
      <4> QED BY <1>6, <2>5, <4>2, Today
    <3>2. CASE p = refresher /\ ~k
      BY <1>9, <2>5, <3>2, LagStill
    <3>3. CASE p # refresher
      <4>1. a = k
        BY <1>6, <1>7, <2>2, <2>4, <3>3
      <4> QED BY <1>9, <2>5, <4>1, LagStill
    <3> QED BY <3>1, <3>2, <3>3
  <2> QED BY <2>4, <2>5, <2>6 DEF Lag
<1>14. ASSUME NEW x \in Steady PROVE Lag(TableDay(x), failed + upsets, FullAt(proc[refresher]))'
  <2>1. PICK d : d = TableDay(x)'
    OBVIOUS
  <2>2. PICK k : k = FullAt(proc[refresher])
    OBVIOUS
  <2>3. PICK u : u = failed + upsets
    OBVIOUS
  <2>4. PICK a : a = FullAt(proc'[refresher])
    OBVIOUS
  <2>5. /\ d \in Int /\ u \in Nat /\ u = failed' + upsets' /\ day' = day /\ wake' = wake
        /\ \A s \in Articles : file'[s].day = file[s].day
        /\ Lag(TableDay(x), u, k) /\ Owed(upsets) <= Owed(u) /\ Owed(upsets) \in Nat /\ Owed(u) \in Nat
    <3>1. u \in Nat /\ upsets \in Nat /\ upsets <= u
      BY <1>6, <2>3
    <3>2. Owed(upsets) <= Owed(u) /\ Owed(upsets) \in Nat /\ Owed(u) \in Nat
      BY <3>1, OwedGrows
    <3> QED BY <1>4, <1>6, <2>1, <2>2, <2>3, <3>2 DEF Young
  <2>6. CASE q = "pull_synergies"
    <3>1. stored'["pull_synergies"] = Made(r.got)
      BY <1>4, <2>6 DEF Followed, Stores, Fetching, WorldOK
    <3>2. DOMAIN r.got = Articles /\ x \in Articles /\ r.got[x] \in Copies /\ r.got[x].day \in Nat
      <4>1. \A c \in Copies : c.day \in Nat
        BY DEF Copies, NoCopy
      <4> QED BY <1>5, <1>6, <2>6, <4>1, PagesOfIn
    <3>3. d = r.got[x].day
      BY <2>1, <3>1, <3>2 DEF Made, TableDay
    <3>4. Reads(r)
      BY <1>2, <2>6 DEF Reads
    <3>5. CASE p = refresher
      <4>1. FullAt(r)
        BY <1>1, <1>5, <3>4, <3>5, RefresherAt
      <4>2. d = day'
        BY <1>4, <1>5, <1>12, <3>3, <3>4, <3>5, <4>1 DEF FullSeen
      <4>3. Lag(d, u, a)'
        BY <1>6, <2>5, <4>2, Today
      <4> QED BY <2>1, <2>4, <2>5, <4>3 DEF Lag
    <3>6. CASE p # refresher
      <4>1. SeenYoung(r)
        BY <1>1, <3>6 DEF Young, Procs
      <4>2. day - d <= Owed(upsets)
        BY <1>5, <3>3, <3>4, <4>1 DEF SeenYoung
      <4>3. day' - d <= Owed(u)
        BY <1>6, <2>5, <4>2
      <4>4. Lag(d, u, a)'
        BY <1>6, <2>5, <4>3, LagSquare
      <4> QED BY <2>1, <2>4, <2>5, <4>4 DEF Lag
    <3> QED BY <3>5, <3>6
  <2>7. CASE q # "pull_synergies"
    <3>1. d = TableDay(x)
      BY <1>4, <2>1, <2>7 DEF TableDay, Fetching, WorldOK
    <3>2. k => a
      BY <1>1, <1>7, <1>11, <2>2, <2>4, <2>7, <1>6
    <3>3. Lag(d, u, k)
      BY <2>5, <3>1
    <3>4. Lag(d, u, a)'
      BY <1>9, <2>5, <3>2, <3>3, LagStill
    <3> QED BY <2>1, <2>4, <2>5, <3>4 DEF Lag
  <2> QED BY <2>6, <2>7
<1>15. FullSeen(proc[refresher])'
  <2>1. CASE p = refresher
    <3>1. ASSUME FullAt(n)
          PROVE  /\ \A page \in Pages : file[page].stamp >= n.shared => file[page].day = day
                 /\ \A x \in Steady : file[x].day = day
      BY <1>4, <1>5, <1>10, <1>12, <2>1, <3>1 DEF FullSeen
    <3>2. FullSeen(n)'
      BY <1>4, <1>8, <3>1 DEF FullSeen
    <3> QED BY <1>7, <2>1, <3>2
  <2>2. CASE p # refresher
    BY <1>4, <1>6, <1>7, <2>2 DEF FullSeen, Young
  <2> QED BY <2>1, <2>2
<1>16. SeenYoung(proc[session])'
  <2>1. CASE p = session
    BY <1>7, <1>8, <2>1 DEF SeenYoung
  <2>2. CASE p # session
    BY <1>4, <1>6, <1>7, <2>2 DEF SeenYoung, Young
  <2> QED BY <2>1, <2>2
<1> QED BY <1>6, <1>13, <1>14, <1>15, <1>16 DEF Young

\* The refresher begins: a full refresh, or the daily pulls when none is due.
LEMMA StartYoung ==
    ASSUME Fetching, Fetching', Young, EnoughSteady, StartRefresh, proc[refresher].pc \in {"boot", "idle"},
           UNCHANGED <<day, file, stored, upsets, failed>>
    PROVE  Young'
<1>1. PICK full \in FullDue : /\ Set(refresher, Refreshing(full))
                              /\ clock' = IF full THEN clock + 1 ELSE clock
  BY DEF StartRefresh
<1>2. PICK n : n = Refreshing(full)
  OBVIOUS
<1>3. /\ n.pc = "pull" /\ n.job = (IF full THEN Registry ELSE Daily)
      /\ n.shared = IF full THEN clock + 1 ELSE 0
  BY <1>2 DEF Refreshing, Idle
<1>4. /\ WorldOK /\ WorldOK' /\ refresher # session /\ refresher \in Procs /\ session \in Procs
      /\ \A x \in Steady : Exists(x)'
      /\ upsets \in Nat /\ failed \in Nat /\ failed + upsets \in Nat /\ clock \in Nat
      /\ \A x \in Steady : file[x].day \in Int /\ TableDay(x) \in Int
  BY Days, RefreshAssumption DEF Fetching, WorldOK, Procs, Young, Exists
<1>5. proc'[refresher] = n /\ proc'[session] = proc[session]
  BY <1>1, <1>2, <1>4 DEF Set, Fetching, WorldOK
<1>6. full => FullAt(n) /\ KitsAt(n)
  BY <1>3, <1>4 DEF FullAt, KitsAt, Working, Stages
<1>7. ~full => ~FullAt(n) /\ ~KitsAt(n)
  BY <1>3 DEF FullAt, KitsAt
<1>8. ~FullAt(proc[refresher]) /\ ~KitsAt(proc[refresher])
  BY RefresherAt DEF Working
<1>9. Upset' => Upset
  BY <1>3, <1>5 DEF Upset
\* A lag goes on: it is about to be made good, or nothing was due.
<1>10. ASSUME NEW x \in Steady, NEW d \in Int, NEW u \in Nat, Lag(d, u, FALSE)
       PROVE  full \/ Lag(d, u, FALSE)'
  <2>1. ASSUME ~full PROVE Lag(d, u, FALSE)'
    <3>1. PICK q \in Articles : day - file[q].day <= FullDays
      BY <2>1, NotDue DEF Young
    <3> QED BY <1>9, <1>10, <3>1, LagChecked
  <2> QED BY <2>1
<1>11. ASSUME NEW d \in Int, NEW u \in Nat, Lag(d, u, FALSE) PROVE Lag(d, u, TRUE)'
  BY <1>9, <1>11, LagStill
<1>12. ASSUME NEW x \in Steady PROVE Lag(file[x].day, upsets, KitsAt(proc[refresher]))'
  <2>1. PICK d : d = file[x].day
    OBVIOUS
  <2>2. PICK u : u = upsets
    OBVIOUS
  <2>3. d \in Int /\ u \in Nat /\ Lag(d, u, FALSE)
    BY <1>4, <1>8, <2>1, <2>2 DEF Young, Lag
  <2>4. Lag(d, u, full)'
    BY <1>10, <1>11, <2>3 DEF Lag
  <2> QED BY <1>5, <1>6, <1>7, <2>1, <2>2, <2>4 DEF Lag
<1>13. ASSUME NEW x \in Steady PROVE Lag(TableDay(x), failed + upsets, FullAt(proc[refresher]))'
  <2>1. PICK d : d = TableDay(x)
    OBVIOUS
  <2>2. PICK u : u = failed + upsets
    OBVIOUS
  <2>3. d \in Int /\ u \in Nat /\ Lag(d, u, FALSE) /\ d = TableDay(x)'
    BY <1>4, <1>8, <2>1, <2>2 DEF Young, Lag, TableDay
  <2>4. Lag(d, u, full)'
    BY <1>10, <1>11, <2>3 DEF Lag
  <2> QED BY <1>5, <1>6, <1>7, <2>2, <2>3, <2>4 DEF Lag
<1>14. FullSeen(proc[refresher])'
  <2>1. ASSUME full, NEW page \in Pages PROVE ~(file[page].stamp >= n.shared)
    <3>1. file[page].stamp <= clock /\ file[page].stamp \in Nat
      BY <1>4 DEF WorldOK, Copies, NoCopy
    <3> QED BY <1>3, <1>4, <2>1, <3>1
  <2>2. FullSeen(n)'
    BY <1>3, <1>7, <2>1 DEF FullSeen, Walking
  <2> QED BY <1>5, <2>2
<1>15. SeenYoung(proc[session])'
  BY <1>5 DEF SeenYoung, Young
<1> QED BY <1>4, <1>12, <1>13, <1>14, <1>15 DEF Young

LEMMA WakeYoung ==
    ASSUME Fetching, Fetching', Young, EnoughSteady, Wake
    PROVE  Young'
  BY StartYoung DEF Wake

\* A boot that finds the cache fresh: the kill before it has been counted.
LEMMA BootYoung ==
    ASSUME Fetching, Fetching', Young, EnoughSteady, Boot
    PROVE  Young'
<1>1. proc[refresher].pc = "boot" /\ UNCHANGED <<day, file, stored, upsets, failed>>
  BY DEF Boot
<1>2. CASE StartRefresh
  BY <1>1, <1>2, StartYoung
<1>3. CASE Set(refresher, Idle)
  <2>1. /\ WorldOK /\ WorldOK' /\ refresher # session /\ refresher \in Procs /\ session \in Procs
        /\ \A x \in Steady : Exists(x)'
        /\ upsets \in Nat /\ failed \in Nat /\ failed + upsets \in Nat
        /\ \A x \in Steady : file[x].day \in Int /\ TableDay(x) \in Int
    BY <1>1, Days, RefreshAssumption DEF Fetching, WorldOK, Procs, Young, Exists
  <2>2. proc'[refresher] = Idle /\ proc'[session] = proc[session]
    BY <1>3, <2>1 DEF Set, Fetching, WorldOK
  <2>3. Idle.pc = "idle"
    BY DEF Idle
  <2>4. ASSUME NEW x \in Steady PROVE Lag(file[x].day, upsets, KitsAt(proc[refresher]))'
    <3>1. PICK d : d = file[x].day
      OBVIOUS
    <3>2. PICK u : u = upsets
      OBVIOUS
    <3>3. d \in Int /\ u \in Nat /\ day' - d <= Owed(u)
      BY <1>1, <2>1, <3>1, <3>2 DEF Young, Lag, Upset
    <3>4. Lag(d, u, FALSE)'
      BY <2>1, <3>3, LagSquare
    <3> QED BY <1>1, <3>1, <3>2, <3>4 DEF Lag
  <2>5. ASSUME NEW x \in Steady PROVE Lag(TableDay(x), failed + upsets, FullAt(proc[refresher]))'
    <3>1. PICK d : d = TableDay(x)
      OBVIOUS
    <3>2. PICK u : u = failed + upsets
      OBVIOUS
    <3>3. d \in Int /\ u \in Nat /\ day' - d <= Owed(u) /\ d = TableDay(x)'
      BY <1>1, <2>1, <3>1, <3>2 DEF Young, Lag, Upset, TableDay
    <3>4. Lag(d, u, FALSE)'
      BY <2>1, <3>3, LagSquare
    <3> QED BY <1>1, <3>2, <3>3, <3>4 DEF Lag
  <2>6. FullSeen(proc[refresher])'
    BY <2>2, <2>3 DEF FullSeen, FullAt, Working
  <2>7. SeenYoung(proc[session])'
    BY <1>1, <2>2 DEF SeenYoung, Young
  <2> QED BY <2>1, <2>4, <2>5, <2>6, <2>7 DEF Young
<1> QED BY <1>2, <1>3 DEF Boot

LEMMA NextDayYoung ==
    ASSUME Fetching, Fetching', Young, NextDay
    PROVE  Young'
<1>1. /\ UNCHANGED <<clock, file, stored, proc, wake, upsets, failed>>
      /\ proc[refresher].pc = "idle" /\ proc[session].pc = "idle"
  BY DEF NextDay, Procs
<1>2. /\ \A x \in Steady : Exists(x)'
      /\ upsets \in Nat /\ failed + upsets \in Nat
      /\ \A x \in Steady : file[x].day \in Int /\ TableDay(x) \in Int
  BY <1>1, Days DEF Fetching, Young, Exists
<1>3. ~FullAt(proc[refresher]) /\ ~KitsAt(proc[refresher])
      /\ ~FullAt(proc'[refresher]) /\ ~KitsAt(proc'[refresher])
  BY <1>1 DEF FullAt, KitsAt, Working
<1>4. ASSUME NEW x \in Steady PROVE Lag(file[x].day, upsets, KitsAt(proc[refresher]))'
  <2>1. PICK d : d = file[x].day
    OBVIOUS
  <2>2. PICK u : u = upsets
    OBVIOUS
  <2>3. d \in Int /\ u \in Nat /\ Lag(d, u, FALSE)
    BY <1>2, <1>3, <2>1, <2>2 DEF Young, Lag
  <2>4. Lag(d, u, FALSE)'
    BY <2>3, LagDay
  <2> QED BY <1>1, <2>1, <2>2, <2>4 DEF Lag
<1>5. ASSUME NEW x \in Steady PROVE Lag(TableDay(x), failed + upsets, FullAt(proc[refresher]))'
  <2>1. PICK d : d = TableDay(x)
    OBVIOUS
  <2>2. PICK u : u = failed + upsets
    OBVIOUS
  <2>3. d \in Int /\ u \in Nat /\ Lag(d, u, FALSE) /\ d = TableDay(x)'
    BY <1>1, <1>2, <1>3, <2>1, <2>2 DEF Young, Lag, TableDay
  <2>4. Lag(d, u, FALSE)'
    BY <2>3, LagDay
  <2> QED BY <1>1, <2>2, <2>3, <2>4 DEF Lag
<1>6. FullSeen(proc[refresher])' /\ SeenYoung(proc[session])'
  BY <1>1 DEF FullSeen, FullAt, SeenYoung, Working, Walking
<1> QED BY <1>2, <1>4, <1>5, <1>6 DEF Young

LEMMA YoungInit == Init => Young
<1> SUFFICES ASSUME Init PROVE Young
  OBVIOUS
<1>1. day = 0 /\ wake = 0 /\ upsets = 0 /\ failed = 0
  BY DEF Init
<1>2. PICK missing \in Gaps :
         file = [page \in Pages |-> IF page \in missing THEN NoCopy
                                    ELSE [stamp |-> 1, day |-> 0, text |-> "whole"]]
  BY DEF Init
<1>3. Steady \subseteq Articles /\ Articles \subseteq Pages
      /\ \A q \in Pages : file[q].day = 0
      /\ \A x \in Steady : file[x] = [stamp |-> 1, day |-> 0, text |-> "whole"]
  <2>1. missing \subseteq Flaky
    BY <1>2, RefreshAssumption
  <2> QED BY <1>2, <2>1 DEF Steady, Pages, Wiki, NoCopy
<1>4. \A x \in Steady : Exists(x)
  BY <1>3 DEF Exists, NoCopy
<1>5. ASSUME NEW x \in Steady PROVE TableDay(x) = 0
  <2>1. stored["pull_synergies"] = Made([page \in Articles |-> file[page]])
    BY PagesOfIn DEF Init, Followed
  <2> QED BY <1>3, <2>1 DEF Made, TableDay
<1>6. proc[refresher].pc = "boot" /\ proc[session].pc = "idle"
  BY RefreshAssumption DEF Init, Procs, Idle
<1>7. ASSUME NEW d, d = 0, NEW refreshing PROVE Lag(d, 0, refreshing)
  <2>1. Owed(0) \in Nat /\ Owed(0 + 1) \in Nat /\ FullDays \in Nat
    BY OwedGrows
  <2>2. \A q \in Articles : file[q].day = 0
    BY <1>3
  <2> QED BY <1>1, <1>7, <2>1, <2>2 DEF Lag
<1>8. ASSUME NEW x \in Steady
      PROVE  /\ Lag(file[x].day, upsets, KitsAt(proc[refresher]))
             /\ Lag(TableDay(x), failed + upsets, FullAt(proc[refresher]))
  <2>1. upsets = 0 /\ failed + upsets = 0 /\ file[x].day = 0 /\ TableDay(x) = 0
    BY <1>1, <1>3, <1>5
  <2> QED BY <1>7, <2>1
<1>9. FullSeen(proc[refresher]) /\ SeenYoung(proc[session])
  BY <1>6 DEF FullSeen, FullAt, SeenYoung, Working, Walking
<1> QED BY <1>4, <1>8, <1>9 DEF Young

LEMMA YoungStep == EnoughSteady /\ Fetching /\ Fetching' /\ Young /\ [Next]_vars => Young'
<1> SUFFICES ASSUME EnoughSteady, Fetching, Fetching', Young, [Next]_vars PROVE Young'
  OBVIOUS
<1>1. CASE UNCHANGED vars
  BY <1>1 DEF vars, Young, Exists, Lag, Upset, FullSeen, SeenYoung, TableDay
<1>2. ASSUME NEW p \in Procs, Work(p) PROVE Young'
  BY <1>2, PullYoung, LookYoung, ReadCopyYoung, RetryYoung, GiveUpYoung, OpenYoung,
     FillYoung, StoreYoung, UnreadableYoung DEF Work
<1> QED BY <1>1, <1>2, BootYoung, WakeYoung, CallYoung, NextDayYoung, DieYoung DEF Next

\* Where the articles that always come are as many as the Season pages, no such
\* article, nor the tables made from it, outgrows the age that makes a full
\* refresh due by more than one such period for each kill, call and failure.
THEOREM StaysYoung == EnoughSteady => (Spec => []StayYoung)
<1>1. Fetching /\ Young => StayYoung
  <2> SUFFICES ASSUME Fetching, Young, Done PROVE ArticlesYoung /\ TablesYoung
    BY DEF StayYoung
  <2>1. wake > day /\ ~FullAt(proc[refresher]) /\ ~KitsAt(proc[refresher])
    BY DEF Done, FullAt, KitsAt, Working
  <2>2. \A x \in Steady : /\ day - file[x].day <= FullDays + Owed(upsets)
                          /\ day - TableDay(x) <= FullDays + Owed(failed + upsets)
    BY <2>1 DEF Young, Lag
  <2> QED BY <2>2 DEF ArticlesYoung, TablesYoung, Age, TableDay, Owed
<1> SUFFICES ASSUME EnoughSteady PROVE Spec => []StayYoung
  OBVIOUS
<1>2. Fetching /\ Young /\ [Next]_vars => (Fetching /\ Young)'
  BY FetchingStep, YoungStep
<1>3. Init => Fetching /\ Young
  BY FetchingInit, YoungInit
<1> QED BY <1>1, <1>2, <1>3, PTL DEF Spec
=============================================================================
