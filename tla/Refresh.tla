------------------------------ MODULE Refresh ------------------------------
(***************************************************************************)
(* The page cache and the refreshes that read through it: the refresher's  *)
(* loop (door.refresh), which runs the daily pulls, or all of them once    *)
(* the wiki cache is old; an owner's session calling a pull or sync_all    *)
(* (door.mcp.pulls); and the cache sequence every page goes through        *)
(* (db.data.fetch.cached).  The two processes share the cache folders and  *)
(* no lock.                                                                *)
(*                                                                         *)
(* A page's mtime is a stamp, which orders it against a cutoff, and a day, *)
(* which is its age for the schedule.  A run of a pull takes less than a   *)
(* day.  A page opened for writing is torn until its handle closes.        *)
(***************************************************************************)
EXTENDS Integers, FiniteSets, Sequences

CONSTANTS
    refresher, session,         \* the two processes
    Articles,                   \* the hero articles
    SeasonPages, RatesPages,    \* the wiki's Season pages, Blizzard's rates
    Flaky,                      \* the pages whose source may fail
    FullDays,                   \* COUNTRIX_REFRESH_FULL_DAYS
    Attempts,                   \* RATES_POLICY's attempts
    Jobs,                       \* what the session calls, as pulls
    Gaps,                       \* the pages the caches may lack at first
    MaxDay,                     \* bound: the days
    MaxUpsets                   \* bound: the session's calls and the kills

Wiki == Articles \cup SeasonPages
Pages == Wiki \cup RatesPages

Registry == <<"pull_kits", "pull_seasons", "pull_rates", "pull_synergies">>

ASSUME RefreshAssumption ==
    /\ IsFiniteSet(Wiki)
    /\ Jobs \subseteq {<<Registry[i]>> : i \in DOMAIN Registry} \cup {Registry}
    /\ refresher # session /\ Flaky \subseteq Pages /\ Gaps \subseteq SUBSET Flaky
    /\ Articles \cap SeasonPages = {} /\ Wiki \cap RatesPages = {}
    /\ {FullDays, Attempts, MaxDay} \subseteq Nat \ {0}
    /\ MaxUpsets \in Nat

VARIABLES
    day, clock,         \* the day, and the time as a count of starts
    file,               \* the cached copy of each page
    stored,             \* what each pull's last commit was made from
    proc,               \* each process: its calls, its pull, its page
    wake,               \* the day the refresher next wakes
    upsets,             \* how many calls the session made and kills there were
    failed              \* how many refreshes came to (False, the error)

vars == <<day, clock, file, stored, proc, wake, upsets, failed>>

Procs == {refresher, session}
-----------------------------------------------------------------------------
(***************************************************************************)
(* The pulls.                                                              *)
(***************************************************************************)

\* Mutant: a tool that reads the hero articles joins the daily ones.
DailyKits == <<"pull_seasons", "pull_kits", "pull_rates">>
Daily == <<"pull_seasons", "pull_rates">>
\* The pulls whose tables are followed: a dated snapshot, and a reload.
Followed == {"pull_rates", "pull_synergies"}

PagesOf(q) == CASE q = "pull_seasons" -> SeasonPages
                [] q = "pull_rates" -> RatesPages
                [] OTHER -> Articles

\* An article that will not come is missing; any other page fails its pull.
Guarded(page) == page \in Articles

AttemptsAt(page) == IF page \in RatesPages THEN Attempts ELSE 1

NoCopy == [stamp |-> 0, day |-> 0, text |-> "none"]
Copies == [stamp : Nat, day : Nat, text : {"whole", "torn"}] \cup {NoCopy}

\* A cutoff of 0 is None: no page is ever older.
Exists(page) == file[page] # NoCopy
Fresh(page, cutoff) == Exists(page) /\ ~(file[page].stamp < cutoff)

Idle == [pc |-> "idle", job |-> <<>>, refresh |-> FALSE, shared |-> 0,
         cutoff |-> 0, todo |-> {}, page |-> "none", attempt |-> 0,
         got |-> <<>>, stale |-> {}, mine |-> {}]

Set(p, r) == proc' = [proc EXCEPT ![p] = r]
-----------------------------------------------------------------------------
(***************************************************************************)
(* When the refresher works.                                               *)
(***************************************************************************)

Age(page) == day - file[page].day

\* The median_high of the wiki pages' ages.
MedianAge ==
    LET kept == {page \in Wiki : Exists(page)}
        Older(n) == Cardinality({page \in kept : Age(page) > n})
        AtLeast(n) == Cardinality({page \in kept : Age(page) >= n})
        half == Cardinality(kept) - Cardinality(kept) \div 2
    IN  CHOOSE n \in {Age(page) : page \in kept} : Older(n) < half /\ AtLeast(n) >= half

\* Mutant: the age of the wiki cache is its newest page's.
FullDueNewest ==
    LET ages == {Age(page) : page \in {x \in Wiki : Exists(x)}}
        newest == CHOOSE n \in ages : \A m \in ages : n <= m
    IN  {newest > FullDays, newest >= FullDays}

\* An age of exactly FullDays days is on either side by its hours.
FullDue == IF \A page \in Wiki : ~Exists(page) THEN {TRUE}
           ELSE {MedianAge > FullDays, MedianAge >= FullDays}

\* cache_age_hours: the newest page's age, against 20 hours.
NewestAge == CHOOSE n \in {Age(page) : page \in {x \in Pages : Exists(x)}} :
                \A page \in Pages : Exists(page) => n <= Age(page)
TooOld == IF \A page \in Pages : ~Exists(page) THEN {TRUE}
          ELSE {NewestAge > 0, NewestAge > 1}

\* Mutant: sync_all runs its pulls in its own context, each with its cutoff.
RefreshingApart(full) ==
    [Idle EXCEPT !.pc = "pull", !.refresh = TRUE,
        !.job = IF full THEN Registry ELSE Daily]

\* refresh_once: sync_all's pulls share a cutoff, the daily ones take theirs.
Refreshing(full) ==
    [Idle EXCEPT !.pc = "pull", !.refresh = TRUE,
        !.job = IF full THEN Registry ELSE Daily,
        !.shared = IF full THEN clock + 1 ELSE 0]

StartRefresh ==
    \E full \in FullDue : /\ Set(refresher, Refreshing(full))
                          /\ clock' = IF full THEN clock + 1 ELSE clock

Boot ==
    /\ proc[refresher].pc = "boot"
    /\ wake' \in {day, day + 1}
    /\ \/ TRUE \in TooOld /\ StartRefresh
       \/ FALSE \in TooOld /\ Set(refresher, Idle) /\ UNCHANGED clock
    /\ UNCHANGED <<day, file, stored, upsets, failed>>

Wake ==
    /\ proc[refresher].pc = "idle" /\ wake = day
    /\ wake' = day + 1
    /\ StartRefresh
    /\ UNCHANGED <<day, file, stored, upsets, failed>>

\* A call of the owner's: one pull, or sync_all.
Call ==
    /\ proc[session].pc = "idle" /\ upsets < MaxUpsets
    /\ upsets' = upsets + 1
    /\ \E refresh \in BOOLEAN, job \in Jobs :
          LET shared == refresh /\ job = Registry IN
          /\ Set(session, [Idle EXCEPT !.pc = "pull", !.job = job, !.refresh = refresh,
                             !.shared = IF shared THEN clock + 1 ELSE 0])
          /\ clock' = IF shared THEN clock + 1 ELSE clock
    /\ UNCHANGED <<day, file, stored, wake, failed>>
-----------------------------------------------------------------------------
(***************************************************************************)
(* One pull, page by page.                                                 *)
(***************************************************************************)

Cutoff(r) == IF ~r.refresh THEN 0 ELSE IF r.shared # 0 THEN r.shared ELSE clock + 1

NextPage(r) ==
    IF r.todo = {} THEN [r EXCEPT !.pc = "store", !.page = "none", !.attempt = 0]
    ELSE LET page == CHOOSE x \in r.todo : TRUE
         IN  [r EXCEPT !.pc = "look", !.page = page, !.todo = @ \ {page}, !.attempt = 0]

\* The pull raises: the transaction is rolled back and the job ends.
Raise(p) == /\ Set(p, Idle)
            /\ failed' = IF p = refresher THEN failed + 1 ELSE failed

Pull(p) ==
    LET r == proc[p] IN
    /\ r.pc = "pull"
    /\ clock' = IF r.refresh /\ r.shared = 0 THEN clock + 1 ELSE clock
    /\ LET q == Head(r.job)
       IN  Set(p, NextPage([r EXCEPT !.cutoff = Cutoff(r), !.todo = PagesOf(q),
                              !.got = [page \in PagesOf(q) |-> NoCopy], !.stale = {}]))
    /\ UNCHANGED <<day, file, stored, wake, upsets, failed>>

Keep(p, r, copy) == Set(p, NextPage([r EXCEPT !.got[r.page] = copy]))

\* cached: the fresh copy is read, else the source is asked.
Look(p) ==
    LET r == proc[p] IN
    /\ r.pc = "look"
    /\ Set(p, [r EXCEPT !.pc = IF Fresh(r.page, r.cutoff) THEN "read" ELSE "ask"])
    /\ UNCHANGED <<day, clock, file, stored, wake, upsets, failed>>

ReadCopy(p) ==
    LET r == proc[p] IN
    /\ r.pc = "read"
    /\ Keep(p, r, file[r.page])
    /\ UNCHANGED <<day, clock, file, stored, wake, upsets, failed>>

\* Mutant: the first request is not counted.
RetryMore(p) ==
    LET r == proc[p] IN
    /\ r.pc = "ask" /\ r.page \in Flaky
    /\ r.attempt + 1 <= AttemptsAt(r.page)
    /\ Set(p, [r EXCEPT !.attempt = @ + 1])
    /\ UNCHANGED <<day, clock, file, stored, wake, upsets, failed>>

\* A stall or a rate limit, with attempts left.
Retry(p) ==
    LET r == proc[p] IN
    /\ r.pc = "ask" /\ r.page \in Flaky
    /\ r.attempt + 1 < AttemptsAt(r.page)
    /\ Set(p, [r EXCEPT !.attempt = @ + 1])
    /\ UNCHANGED <<day, clock, file, stored, wake, upsets, failed>>

\* Mutant: the kept copy is not named.
KeptSilently(p, r) == Set(p, NextPage([r EXCEPT !.got[r.page] = file[r.page]]))

\* A FetchError: the cached copy is kept and named; with none, the article
\* is missing or the pull raises.
KeepStale(p, r) ==
    Set(p, NextPage([r EXCEPT !.got[r.page] = file[r.page], !.stale = @ \cup {r.page}]))

GiveUp(p) ==
    LET r == proc[p] IN
    /\ r.pc = "ask" /\ r.page \in Flaky
    /\ \/ Exists(r.page) /\ KeepStale(p, r) /\ UNCHANGED failed
       \/ ~Exists(r.page) /\ Guarded(r.page) /\ Set(p, NextPage(r)) /\ UNCHANGED failed
       \/ ~Exists(r.page) /\ ~Guarded(r.page) /\ Raise(p)
    /\ UNCHANGED <<day, clock, file, stored, wake, upsets>>

Copy(t) == [stamp |-> clock, day |-> day, text |-> t]

\* An answer: _write_cache empties the file, then fills it.
Open(p) ==
    LET r == proc[p] IN
    /\ r.pc = "ask"
    /\ file' = [file EXCEPT ![r.page] = Copy("torn")]
    /\ Set(p, [r EXCEPT !.pc = "fill", !.attempt = 0])
    /\ UNCHANGED <<day, clock, stored, wake, upsets, failed>>

Fill(p) ==
    LET r == proc[p] IN
    /\ r.pc = "fill"
    /\ file' = [file EXCEPT ![r.page] = Copy("whole")]
    /\ Keep(p, [r EXCEPT !.mine = @ \cup {r.page}], Copy("whole"))
    /\ UNCHANGED <<day, clock, stored, wake, upsets, failed>>
-----------------------------------------------------------------------------
(***************************************************************************)
(* The commit.                                                             *)
(***************************************************************************)

\* What the rows are made from.
Made(got) == [page \in DOMAIN got |-> [day |-> got[page].day, text |-> got[page].text]]

\* Mutant: a snapshot is stamped from whatever was read.
StoresAll(q, r) == TRUE
\* meta.run stamps no snapshot from a page kept stale.
Stores(q, r) == q = "pull_rates" => r.stale = {}

\* synergies.run raises when no article it found has a claim: a torn one may
\* have lost its own.  A torn page of the others has lost what its parser
\* requires, or rows it does not miss.
Found(r, texts) == \E page \in DOMAIN r.got : r.got[page].text \in texts
Stored(q, r) == q = "pull_synergies" => Found(r, {"whole", "torn"})
Refused(q, r) == \/ q = "pull_synergies" /\ ~Found(r, {"whole"})
                 \/ q \in {"pull_seasons", "pull_rates"} /\ Found(r, {"torn"})

NextPull(r) == IF Len(r.job) = 1 THEN Idle
               ELSE [Idle EXCEPT !.pc = "pull", !.job = Tail(r.job), !.refresh = r.refresh,
                        !.shared = r.shared, !.mine = r.mine]

Store(p) ==
    LET r == proc[p]
        q == Head(r.job)
    IN
    /\ r.pc = "store"
    /\ Stored(q, r)
    /\ stored' = IF q \in Followed /\ Stores(q, r) THEN [stored EXCEPT ![q] = Made(r.got)] ELSE stored
    /\ Set(p, NextPull(r))
    /\ UNCHANGED <<day, clock, file, wake, upsets, failed>>

\* A torn page that does not parse, or no page at all, fails the pull.
Unreadable(p) ==
    LET r == proc[p] IN
    /\ r.pc = "store"
    /\ Refused(Head(r.job), r)
    /\ Raise(p)
    /\ UNCHANGED <<day, clock, file, stored, wake, upsets>>
-----------------------------------------------------------------------------
(***************************************************************************)
(* The world outside: a kill, the next day.                                *)
(***************************************************************************)

Die(p) ==
    /\ proc[p].pc \notin {"idle", "boot"} /\ upsets < MaxUpsets
    /\ upsets' = upsets + 1
    /\ Set(p, IF p = refresher THEN [Idle EXCEPT !.pc = "boot"] ELSE Idle)
    /\ UNCHANGED <<day, clock, file, stored, wake, failed>>

NextDay ==
    /\ day < MaxDay
    /\ \A p \in Procs : proc[p].pc = "idle"
    /\ wake > day
    /\ day' = day + 1
    /\ UNCHANGED <<clock, file, stored, proc, wake, upsets, failed>>

\* The refresher starts beside a database built on day 0.  An article may not
\* have come, and a rates page may be one Blizzard has listed since.
Init ==
    /\ day = 0 /\ clock = 1 /\ wake = 0 /\ upsets = 0 /\ failed = 0
    /\ \E missing \in Gaps :
          file = [page \in Pages |-> IF page \in missing THEN NoCopy
                                     ELSE [stamp |-> 1, day |-> 0, text |-> "whole"]]
    /\ stored = [q \in Followed |-> Made([page \in PagesOf(q) |-> file[page]])]
    /\ proc = [p \in Procs |-> IF p = refresher THEN [Idle EXCEPT !.pc = "boot"] ELSE Idle]

Work(p) ==
    \/ Pull(p) \/ Look(p) \/ ReadCopy(p) \/ Retry(p) \/ GiveUp(p)
    \/ Open(p) \/ Fill(p) \/ Store(p) \/ Unreadable(p)

Next ==
    \/ Boot \/ Wake \/ Call \/ NextDay
    \/ \E p \in Procs : Work(p) \/ Die(p)

Spec == Init /\ [][Next]_vars
-----------------------------------------------------------------------------
(***************************************************************************)
(* Properties.                                                             *)
(***************************************************************************)

\* The type invariant.
TypeOK ==
    /\ day \in 0..MaxDay /\ clock \in Nat /\ wake \in day..MaxDay + 1
    /\ file \in [Pages -> Copies]
    /\ \A q \in Followed :
          stored[q] \in [PagesOf(q) -> [day : 0..MaxDay, text : {"whole", "torn", "none"}]]
    /\ \A p \in Procs : /\ proc[p].pc \in {"boot", "idle", "pull", "look", "read", "ask",
                                            "fill", "store"}
                         /\ proc[p].todo \subseteq Pages
                         /\ proc[p].attempt < Attempts
    /\ failed \in Nat /\ upsets \in 0..MaxUpsets

\* The state keeps its type and, whatever the other process does to the same
\* files meanwhile, a pull about to commit holds, for each page, a copy written
\* since its cutoff or one it names under stale; only an article may be missing
\* (fetch.cached, 176-198).
FreshOrNamed ==
    /\ TypeOK
    /\ \A p \in Procs :
        proc[p].pc = "store" =>
            \A page \in DOMAIN proc[p].got :
                \/ proc[p].got[page] = NoCopy /\ Guarded(page)
                \/ proc[p].got[page].stamp >= proc[p].cutoff
                \/ page \in proc[p].stale

\* A rates snapshot is stamped only from pages written since the pull's
\* cutoff: the newest capture stays the last real one (meta.run, 265-270).
SnapshotReal ==
    [][\A p \in Procs :
          proc[p].pc = "store" /\ proc'[p].pc # "store" /\ stored'["pull_rates"] # stored["pull_rates"]
             /\ Head(proc[p].job) = "pull_rates"
              => \A page \in RatesPages : proc[p].got[page].stamp >= proc[p].cutoff]_vars

\* The pulls of one sync_all fetch a shared article once, also when the owner
\* calls a pull of the same articles meanwhile (Context.refreshing).
FetchedOnce ==
    \A p \in Procs :
        proc[p].pc \in {"ask", "fill"} /\ proc[p].refresh
            => proc[p].page \notin proc[p].mine

\* The refresher has done today's work.
Done == proc[refresher].pc = "idle" /\ wake > day

\* The articles whose source always answers.
Steady == Articles \ Flaky

\* No such article grows older than the age that makes a full refresh due,
\* though most days refetch only the Season pages and the schedule reads
\* nothing but the pages' own ages; each kill or call of the owner's may put
\* it off by one full period (refresh.full_due, 101-109).
ArticlesYoung ==
    \A page \in Steady : Age(page) <= FullDays + upsets * (FullDays + 1)

\* Nor do the tables made from it, which the last pull of sync_all reloads: a
\* full refresh that reports no error has reached it, whatever other pages
\* failed, and one that does costs at most one period, though it leaves the
\* articles young (pulls.sync_all, 243-264; refresh.refresh_once, 132-147).
TablesYoung ==
    \A page \in Steady :
        day - stored["pull_synergies"][page].day
            <= FullDays + (failed + upsets) * (FullDays + 1)

\* The articles and the tables made from them stay young, each within its bound.
StayYoung == Done => ArticlesYoung /\ TablesYoung

\* A table never trades the rows of a whole page for those of a torn one: "a
\* flaky source degrades to yesterday's numbers, never to an empty table"
\* (db/data/fetch.py:23-24).
NeverEmptied ==
    [][\A q \in Followed : \A page \in PagesOf(q) :
          stored[q][page].text = "whole" => stored'[q][page].text = "whole"]_vars
=============================================================================
