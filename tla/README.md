# Countrix: models, checks and proofs

Countrix answers "which six heroes should blue play here" for Overwatch's
six-a-side queue. It pulls pages from Blizzard and the wiki into a file cache,
imports them into PostgreSQL, derives facts from the tables, scores sixes under a
playbook of strategies kept as Markdown files, and serves the answer to a page
(HTTP) and to an agent (MCP). The owner also enters matches by hand, tunes the
playbook and rebuilds the database while the rest runs.

This directory holds what its unit tests hardly reach: steps of two processes in
an order nobody wrote a test for, a death between two steps, a reply that comes
late, a search that must end on a right answer however its work was cut up, and
calculations whose parts must tell one story for every input and not for the ones
a test names. It contains TLA+ modules translated from the source, TLC runs over
small instances of them, and proofs TLAPS checks for every instance.
`PROJECT.json` maps each definition to the lines it translates.

## 1. The system

| part | state | operations | who else touches it |
|---|---|---|---|
| recorded matches (`db/matches.py`, `door/mcp/matches.py`, `door/mcp/lifecycle.py`) | the matches and match_picks tables, their identity; `kept-matches.json` | record_match, delete_match, db_migrate, db_rebuild | every tool call is its own transaction; pulls rename the heroes a match names |
| schema (`db/psql/schema.py`, `door/refresh.py`) | the tables, the ledger of the migrations | apply, rebuild, state; db_init, db_migrate, db_rebuild, sync_all | the data container rebuilds what is not current; other containers wait for `state` |
| CSV mirror (`db/psql/__init__.py`) | a CSV per table and a mark | export | the refresher and the owner may export at once, while tables change |
| board requests (`inference/serve.py`, `supersede.py`, `engine.py`, `parallel.py`) | a ticket per client, one shared process pool; the tables and the playbook each board reads | /board, its walk through up to six searches, superseding, the fallback after a worker's death | one thread per request, one pool for all |
| the search (`inference/solver.py`, `scale.py`, `scoring.py`, `shapes.py`, `parallel.py`) | bounds, standings, the field swept, the sixes scored | sample, tally, sweep, rank, climb, bring pairs, restart, two-swap | its rounds are slices in other processes |
| the objective (`inference/scoring.py`, `base.py`, `facts/compute.py`) | one per board: guards' slots, scales | score, breakdown, opponent, likely six | read by every slice |
| results and the plan (`inference/engine.py`, `result.py`, `report.py`, `plan.py`), reach (`inference/reach.py`) | none kept | the pass over a board's seats; the verdict, badges, claims; a board for a hero | the page and the agent show them |
| the playbook (`inference/tune.py`, `catalog.py`, `door/mcp/playbook.py`, `door/sentry.py`) | a file per strategy, `docs/inference.md`, `tuning-log.md`, the strategies table | tune, add_strategy, infer_strategy, an editor, the sentry's quarantine | no lock; every board reads the folder |
| the strategy language (`inference/expr.py`, `strategy.py`, `frontmatter.py`) | a header's lines | load, check, edit in place; compile, evaluate | the loader and the editor each walk the lines |
| cache, pulls, daily refresh (`db/data/fetch.py`, `door/mcp/pulls.py`, `door/refresh.py`) | a file and mtime per page, the tables a pull reloads, the schedule | ten pulls, sync_all, the refresher's loop | the data container's session shares the cache with the refresher |
| parsers (`db/data/blizzard`, `db/data/wiki`) | none | text to rows; the match-ups and Strategy sections to counter edges | called by the pulls |
| facts (`facts/`) | a frozen World | readings of kits, heroes, sixes and boards; the counter matrix; the facts and their index | read by the search, the results and the page |
| validation (`inference/validate.py`, `fit.py`, `predict.py`, `rescore.py`) | none kept | pin, rescore, splits, fits, the report | reads the recorded matches |
| doors (`door/mcp/server.py`, `http.py`, `stdio.py`, `audit.py`, `db/web.py`) | the audit log; a window of calls per address | admit, dispatch, audit, relay | the sentry tails the log while it grows |
| sentry (`door/sentry.py`) | an offset into the log | quarantine, database scan, tail, report | renames files under the writers |
| the page (`ui/static/*.js`, `ui/board.py`) | the board as set, what is drawn, requests on the way | debounced refresh, slider, record | replies in any order, refused or lost |
| orchestrator (`orchestrator.py`) | Docker's | start and poll | - |

What makes the parts correct, in the order it matters:

1. **A match the owner entered is never lost.** Every other table can be pulled
   again. A rebuild drops them all, so the matches pass through a file.
2. **A board answers, and answers for itself.** A page that drags a slider sends a
   board per tick, a worker may be killed for memory, the boards share a pool, and
   what is drawn is what the page's own settings ask for.
3. **The six is the one promised.** Legal, on one scale whatever the slices, locally
   optimal, found in finite time, and scored as the strategies say.
4. **What is said of a six is true of it.** Reasons, answers, badges, verdict and
   plan are read from the numbers that scored it.
5. **The playbook's copies agree.** Files first, then docs, log and table; nothing
   half written stays; nothing good is taken away; an edit is what the loader reads.
6. **What a table holds is as young as it claims,** or it is named stale; what
   calls itself ready, a mirror of a moment, or counted once is so.

The behaviours that are hard to test are listed in `PROJECT.json` under `hazards`,
each at its line, with the properties that would catch it.

## 2. The modules

    Ledger        what the owner is promised of the matches   (abstract)
    Matches       record, delete, migrate, pull, rebuild      implements Ledger
    MatchesProofs TypeCorrect, NothingIsLost, FileOutlives, IdsAreKept,
                  IdentityStays, OneRowKept, TableStays,
                  ImplementsRecord                                      TLAPS
    Schema        migrations, their ledger, ready, the data container
    Mirror        two exporters over changing tables
    SchemaProofs  ReadyMeansWhole; MarksAreWhole of Mirror              TLAPS
    BoardService  what a page is promised of its boards       (abstract)
    Boards        lanes, walk, pool, death, lost reads        implements BoardService
    BoardsProofs  QueuesKept, PassesRead, SoonStopped, StepsAsService   TLAPS
    Page          the browser's requests, in any order
    Door          admission, dispatch, reply, the relay's reading of it
    Audit         the log, and the sentry that reads it while it grows
    DoorProofs    RateKept, RelayTold; LogCounted, PassExact of Audit;
                  CurrentIsShown, StoredIsRecorded of Page              TLAPS
    Search        scale, standing, sweep, local search
    SearchProofs  OnlyLegalSixes, SplitsAgreeWithWhole,
                  AnswerIsLocalOptimum, ClimbsAscend                    TLAPS
    Playbook      writers, editor, sentry, crash
    PlaybookProofs TypeCorrect, FirstWritten, LinesStay, CopiesAgree    TLAPS
    Strategies    a header's loader, its rules, and the edits in place
    StrategiesProofs TuningIsRead                                       TLAPS
    Refresh       cache, pulls, refresher, session, kill
    RefreshProofs StoresFresh, FetchesOnce, SnapshotsReal, StaysYoung   TLAPS

    Expressions   what compiles, which names it reads, its value        (pure)
    Objective     guards, limits, heuristics, needs, the base engine    (pure)
    Claims        cells and sentences to counter edges                  (pure)
    Counters      kits, mechanisms, the matrix, derived edges           (pure)
    Facts         team metrics, facts, their index and readers          (pure)
    Verdict       the pass over the seats, shares, badges, plan         (pure)
    Reach         a board that seats a hero; EXTENDS Verdict            (pure)
    Validation    pin, rescore, splits, what each fit is given          (pure)

    MC*           the small instance of each for TLC
    MCHouse, MCLive, MCData, MCInference       several of them in one run

Each is parameterised by CONSTANTS with a named assumption, has one action per
step of the code that another actor can see (a commit, a file operation, a read
used later, a reply drawn), and declares no RECURSIVE operator. Definitions named
in a comment "Mutant: ..." are the code with one plausible bug; `PROJECT.json`
pairs each with the property that catches it.

The last four compose modules that share no state, to check them in one run each:
the variable `part` says which one a behaviour is about, the others stay at an
initial state, and `case` holds the input of a pure module, of which every member
of a family is an initial state. A property of one part is either true of the
others' initial states too or is stated `part = "..." => ...`.

### Matches

`rows`, `seq`, `hasTable`, `roster` are the database; `open` the record_match
transactions that have inserted and not committed; `fileState`, `fileKept` are
kept-matches.json; `pc[r]` and the variables after it are the locals of a rebuild.

A rebuild is `ReadKept, LoadMatches` (`_keep_matches`), `TruncateKept, WriteKept`
(`_write_kept`: `open(path, "w")`, then the dump), `QueueDrop, DropAll`
(`schema.drop_all`), `ApplyMigrations` (`schema.apply`), `FillRoster` (sync_all's
pull_heroes), `FinishEmpty` or `BeginRestore, StoreMatch*, CommitRestore`
(`_restore_matches`, `recorded.store`), then `RemoveKept`, or `TruncateLeft,
WriteLeft` when the roster cannot name some match any more.

PostgreSQL is modelled where the code leans on it. DROP TABLE waits for every
transaction that read or wrote the tables and holds back whoever comes after it
(`locks`, `OwnerMayAct`, `TablesFree`). An INSERT waits for another transaction's
uncommitted row of the same id, and fails on a committed one (`StoreCollides`).
Two rebuilds that each hold what the other waits for are a deadlock, and one fails
(`DropDeadlock`, `StoreDeadlock`). A sequence does not roll back.

A match keeps its id, its game and the spelling of one hero; the hero decides
whether the roster still names it. Two spellings are enough to make the file's
copy and the table's copy of one match differ.

Four constants say who may disturb a rebuild: `OwnerWaits`, `OneAtATime`,
`FailPoints` and the number of rebuilders. The code enforces none of them, so the
runs take them one at a time and the results name the ones they need. Two history
variables tell what a death between the file and the table leads to: `twinned[g]`,
how a dead rebuild left game g in both, and `spelt[h]`, the names the sources have
given h. `Differ(g)` says the two copies no longer compare equal, which is where
`m not in kept` keeps both.

### Schema

`has` is what is committed, `recorded` the ledger's rows, `job[p]` where a process
is: `drop`, `apply`, `roster`, `pulls`, or `serving` for the data container. A
migration is a number with the earlier ones it cannot run without (`Alters`) and
whether it runs over itself (`Again`). `Apply` commits one file, `RecordFiles`
writes the ledger after the last, `State` is `schema.state`. A process may die
between any two commits, and `Upgrade` restarts the container with one more file.

### Mirror

`exporting[x]` is an exporter's place in `psql.export`: listing the tables, opening a
file (`Torn`), filling it with the moment its table is read at, sweeping the files of
tables that are gone, writing the mark. `export` lists the tables once and reads
each later, so the files of one export may be of several moments; the mark tells the
moment it is written, after all of them.

### Boards

`newest` and `ticket` are `supersede.Latest`; `at`, `asked` and `phase` a board's
place in `_board_once`, whose calls are the function `Script`; `current`, `made`,
`dead`, `shut` are `parallel.POOL` and the executors it created; `queue`,
`running`, `done`, `broken`, `raised` where each task is. `lost` is what cannot be read
now, the tables or the playbook (`Lose`, `Regain`: a rebuild has dropped the tables, an
editor has left a file that does not load): a board that starts then fails
(`LoadRaises`), and a worker, which rereads the playbook at every task, raises in place
of a result (`Finish`). `met` is history: the boards in hand while something was lost.

A task is one slice of one round of one search. A call that needs a round
(`rank`, `sweep`, `merge`, `solved`) asks the Watch once, awaits the round and
sends the next one out (`Gather`). A board that is superseded, refused, broken,
failed or answered goes through the `finally` of `engine.board` (`CancelAll`).
`Recover` is the except branch, with `POOL.drop()`; `Fall` the two exceptions it
does not catch. `Hand`, `Finish`, `WorkerDies` model ProcessPoolExecutor from its
documented behaviour: tasks handed to the call queue cannot be cancelled, a dead
worker breaks every task of its executor.

A request's drafts are `Blue` and `Red`: no picks, some, or a whole six; they
decide which searches the board wants. `engine.Brief` lets a board both be
superseded and solve the countered case (tests/inference/test_supersede.py does);
the `/board` handler turns the latter off (serve.py:90), and so does the run `service`
(`Countered = {}`). The proofs take boards of either kind.

### Search

Sixes are sets of heroes. `SampleSlice`, `TallySlice`, `SweepSlice` are the pooled
rounds (`parallel._bounds`, `_standing`, `_sweep` and their merges); `Slices = 1`
would be `Solver.solve` in one process. What a rule reads off a six is the constant
operator `Raw`; the norms, needs and weights over it are the code's, in integers
(`Unit` to a weight of one). The local search is `Solver.refine`: climbs from the
seeds, from synergy pairs brought in, from random restarts, then two-seat swaps.
A random draw is any six it could draw.

### Playbook

A strategy's text is the set of changes it carries. A writer is `Read` (the file,
or its absence), `Validate` (the catalog with the change in a copy), `Open`,
`Write`, `ReadDocs`, `EmptyDocs`, `Document`, `FindLog`, `StartLog`/`AppendLog`
(`tune._commit`, `tune._log`), `Load` and `Mirror` (`_remirror`). The docs are rewritten
in place, as the files are: `db.embed` reads them, empties them and fills them, and
raises where it finds no markers to write between (`Emptied`). A call that raises there
has its file written and nothing logged or mirrored; nothing in `src/` gives the docs
their markers back. Between any two of them an editor
may save any file (`Drop`), the sentry may judge (`Scan`) or rename (`Quarantine`),
and the server may be killed (`Crash`). A handle stays with its file through a
rename (`adrift`).

### Refresh

A page's copy is a stamp (its mtime against a cutoff), a day (its age for the
schedule), and whether it is whole. Two processes, the refresher and the owner's
session, run the same steps: `Pull` fixes the cutoff, then per page `Look`,
`ReadCopy` or `Retry`/`GiveUp`/`Open`/`Fill` (`fetch.cached`), then `Store` or
`Unreadable`. `Boot` and `Wake` are `run_forever`. Of the ten pulls the registry
keeps four: pull_kits and pull_synergies, which read the hero articles (a missing
one is skipped); pull_seasons, which raises without its pages; and pull_rates, a
snapshot refused from stale pages. pull_rates and pull_synergies are followed into
their tables.

### Door and Audit

`Door` follows each request's thread through `_Handler.do_POST`. `Receive` is all
of it up to the lock: the token, the body, the batch's size, a request without a tool
call, and the reading of the clock. `Admit` is what happens under the lock and after:
the window at the time read, which may be `MaxLag` old by then, the messages one by one
and the reply. `overtaken` is history: the requests that took the lock after one whose
clock read later. `CallStatus` is `web.call_tool`: what the page's own server makes of the
door's answer. `Audit` is the log as cells:
a line's body and its end are one write or two, the second of which may never come.
`Pass` is one `sentry.check_door`: from the kept offset on, and a tail before it for
the calls of the last minute.

### Page

`st` is the board and the weight as set, `inFile` the weight in the strategy's file,
`pending` the debounce timer, `facts[n]` and `board[n]` the two requests of refresh
n, `latest` the newest (`seq` in board.js), `FACTS`, `INF` and `busy` what is drawn,
`row` the slider's card as drawn (the file's weight it was drawn for, its value, whether
its store button is on), `stores` the slider's stores on their way, of which a moved
slider or cards drawn again may add another, `posts` the results on theirs. A reply may
come in any order, be refused or be lost. A store the page is told has failed may still
land: the fetch was cut, or the relay gave up (`lost`), while the tune goes on. `unsure`
is a history variable: such a store has moved the file's weight unheard, and until the
next refresh is sent the board's solve is not judged.

### Strategies and Expressions

`Strategies` has a header's lines as `frontmatter.parse_frontmatter` reads them
(`Parsed`: what is a comment, which indented lines belong to which mapping) and as
`tune._set_param` and `_set_scalar` edit them (`SetParam`, `SetScalar`), with the
rules a file keeps (`Admits`, from strategy.py) on both sides of an edit. That the
loader and the editor walk the lines by different rules is where the run `dial`
looks. `Expressions` is `expr.py`: the whitelist, the names a tree reads, its value,
and `SettledByBoard`, on the strength of which the solver reads a guard once for a
whole board.

### The pure modules

They translate calculations with no state, in whole numbers (`Unit` to one), and
state what a unit test over chosen inputs does not: that two readers of one number
agree, that a quantity is what its words say for every input of a family.

- `Objective`: the guards read once per slot, limits that prune or charge,
  heuristics on a frozen scale, needs under one budget; and `base.py`: the likely
  six, the opponent a seat reads, trusted edges, the counter tally.
- `Claims`: a Match-Up cell's ratings and cues to a verdict, two articles' verdicts
  to an edge neither denies, a sentence's cues and mentions to the edges it states.
- `Counters`: a kit's reading, thirteen mechanisms, the pairing, the edges derived
  where the wiki has none, and the rank area that calibrates them.
- `Facts`: every section of the team metrics, when each fact is written and under
  which keys it is found, and its two readers, the reasons of a pick and the plan.
- `Verdict`: one pass over a board - the seats' drafts, the optimal, current, filled
  and countered results - the shares, badges, odds, verdict and the plan's claims.
  The search is taken as "the best of its field", which is what Search promises
  locally. `Reach` asks it of the maps, reds and bans reach.py tries.
- `Validation`: the pin, rescoring from both seats, the families an ablation drops,
  both splits, and what every fit is trained on and reads. A fit is kept as its
  inputs, so "the coefficients know nothing of the test session" is an equality.

## 3. The runs

Four runs compose parts (`house`, `live`, `inference`, `data`); every other run
asks one question.

| run | what it asks | distinct states | result |
|---|---|---|---|
| `house` | the parts of the house: matches under a rebuild that dies, the mirror, the door, the audit log, the page | 1.1 × 10^6 | holds |
| `live` | what must come in the end: two rebuilds, the data container, the page; and, calculated, what the page is told | 1.3 × 10^5 | holds |
| `service` | two pooled boards of one page, one half-drafted, one no six satisfies, a worker dying, strangers who drop the executor, tables or a playbook lost for a while | 4.6 × 10^5 | holds |
| `inference` | writers of the playbook, a strategy's text, the search; and, calculated, expressions and scores | 5.7 × 10^5 | holds |
| `data` | the cache, the pulls, the refresher; and, calculated, what is made of the data | 4.4 × 10^6 | holds |
| `owner_busy` | one rebuild, the owner recording meanwhile: is a match lost | - | **lost** |
| `drop` | three pooled boards of two pages, a worker dying: does any board fail | - | **fails** |
| `sentry` | writers, an editor and the sentry: does it take a file that loads | - | **takes one** |
| `torn` | four days and a kill: does a table lose the rows of a page it had | - | **loses them** |
| `late_crash` | a call that crashes late: is every crash counted | - | **not** |
| `sent_twice` | a result pressed while a board is solved: is one map sent once | - | **twice** |
| `dial` | any header that loads, tuned: is the change what the loader reads | - | **not** |

What the bold ones show is in section 5. What the passing ones check:

- `house`. Of the matches: `NothingLost`, `KeepsIds` (a restore commits each
  match it can name under its id), `FileGoesLast`, `TableSound` (one row a game, also
  where a rebuild died with the matches in the file and the table both, unless the two
  copies have come to differ; the identity ahead of every id), and over the rebuild
  that never leaves the matches in two places `LedgerClean` (Matches implements
  Ledger: a rebuild is invisible to the owner's record). `MarkedWhole`: a mark is of
  whole files. `RateHeld`: a whole window sees no more calls of an address than the
  rate, unless a thread of that address was overtaken on its way to the lock in the
  window or a lag before it; a window less two lags never does. In this instance both
  halves bite: an overtaken thread does push a window past the rate (section 5), and
  it is not enough to look for one inside the window.
  `RelayTellsWho`: the page's server blames the side that is at fault.
  `LinesCounted`, `RecentExact`: a pass of the sentry counts what it should, once.
  `ShownIsCurrent`, `RecordedIsStored`: a page at rest draws what its settings ask
  for, whatever stores are on their way, unless the file was written behind its back;
  and it calls recorded only what is.
- `live`. `RebuildEnds`, `DataComes` (the container that starts comes to serve),
  `PageComes` (a board comes, however many requests fail), `ReadyIsWhole` (what
  calls itself current has every migration). `VerdictSound`: badge, share and
  verdict tell one story; a right pick keeps a seat at its share; each result is on
  the scale of its own seat; a board seen from the other side reads the other way;
  the plan claims what is so; and a board reach finds is a proof.
- `service`. `NothingQueuedBehind` (no task is left queued behind a board that
  ended), `StopsSoon` (a replaced board sends out two more rounds at most),
  `WholePassRead` (an answer read every task it sent), `ImplementsService` (Boards
  implements BoardService, every reply included: a board fails only after a worker has
  died, or where something it reads was out of reach while it was in hand).
- `inference`. `WrittenFirst`, `LoggedWhenTold`, `BrokenGoes` of the playbook's
  copies, and `Settles`: a call no other write touched ends with the files, the docs
  and the table alike, or fails because the docs had lost their markers to another
  call at work on them or to a kill; `TidyTurns` of a header's edits; `KnownLegal` (no move leaves
  the locks, the bans, the shapes or the limits), `SplitFree` (the scale, the standing
  and the sweep are the same however they are sliced), `LocalOptimum` of the answer,
  `SearchComes` (it ends); `ExpressionsSound` (a tree reads only the names it
  lists, and divides by no zero); `ScoresSound` (guards, limits and needs mean in
  a shared slot what they mean alone; a slider moves its own term; the two seats'
  counters are one number).
- `data`. `FreshOrNamed`, `FetchedOnce`, `StayYoung`, `SnapshotReal` of the pulls.
  `FactsSound`: the derived graph is bounded and one-way, the rank area is the
  Mann-Whitney count, every number a strategy reads is stated by a fact its citation
  finds, the answers are told once by four tellers, an article read from the other
  seat is read the other way, what is stored is what one article says and none
  denies. `ValidationSound`: a pin sets aside what it says, no fit sees the session
  it is scored on - turned results change no prediction -, families add up.

**Bounds.** They are constants of the modules and set in the .cfg files.

- *Matches* (`house`): two games naming two heroes, so a restore can name one and
  leave the other; three rebuilds (two in the instance of `LedgerClean`), so that a
  failed one's file meets a second, which fails too, and a third finds what both left;
  two deaths and two source changes.
  Ids to 3: each game's own and one collision. `live` has two rebuilders and no
  deaths, since a death only ends a rebuild sooner. The games and the spellings are
  alike, and so reduced by symmetry in `house`, which checks no liveness; and a
  spelling is only ever compared with its own hero's, so each begins with the first.
- *Schema*: an image of three migrations and a fourth that comes; the third alters
  what the first made, the second is the ledger, the fourth runs over itself; two
  deaths, two calls of a person's. *Mirror*: two tables, two exporters, two changes.
- *Door*: four requests of two addresses, a rate of two calls in four seconds over five
  moments, a second's lag, one address tracked: windows slide, two lags leave half of
  one, and every limit is passed by one. *Audit*: three calls,
  one of which crashes, a window of two passes, a tail of one line.
- *Page*: two boards, two weights, two refreshes, three clicks, one failure: a reply
  older, newer and lost beside a change, and two stores at once, one of which is lost.
- *Boards*: three boards (`drop`), the fewest with which one meets the broken
  executor late and drops the next under another; two with every search a board
  can want, one slice each, and the stranger's drop that a third would make
  (`service`); one worker's death, so two executors, and there one loss of the tables
  or the playbook.
- *Search*: 108 boards. Two tanks, three damage, four supports with one unreleased;
  four seats and two legal shapes; pools of two a role, so a swap outside the pool
  exists; three rules: one that adds up, one a pair switches on, one guarded on
  the six that may have no reading; the drafts lock, ban both, or neither; the
  limits refuse sixes, some pools entirely (the run reaches `Refuse`).
- *Playbook*: a call on a strategy that is there and one that adds one, one
  edit, one crash; the log is there at first, or not. *Strategies*: 50 headers of
  every form, two calls in a row.
- *Refresh*: `FullDays` 1 and `MaxDay` 4, so two full refreshes with a daily one
  between; `Attempts` 2; one upset (a call or a kill); pages missing at first
  or not. A refresh ends within its day: the code runs one in minutes.
- *The pure modules*: 2232 expressions to depth 2; 9108 scores, engines and heal
  readings; 216 rosters of three kits and 3645 matrices with a graph; 4401 cells,
  sentences and sets of articles; 1200 boards with their facts; 5756 boards and 756
  reach searches with sides of three; 414 histories of maps over up to four days.
  Each family crosses the cases the code branches on; what is larger is more of
  the same branches.

`CHECK_DEADLOCK FALSE` stands where a bounded instance comes to rest: requests all
answered, the last day done, a composed run's part at its bound.

**Fairness.** Each composed run asks of every part the fairness its module states
and nothing of the others.
`Matches!Fairness`: strong for a rebuild's own steps, because PostgreSQL serves its
lock queue in order, so a waiting rebuild is not passed over for ever; weak for a
record_match to commit. Nothing is assumed of failures, deletions, pulls or the
start of a rebuild. `Boards!Fairness`: weak for each request's thread and for an
executor to hand out and finish tasks; none for worker deaths or new requests.
`SchemaFairness`: weak for the container's start (Docker restarts it) and for the
steps of a call that runs. `PageFairness`: weak for the timer, for each request to
be answered or to fail, for a store to end, and for the user to return to a stale
page - board.js has no other retry, and the property is of a page somebody looks at.
`Search`: weak for the one process's next step. `Playbook`: weak for a call's own
steps and for the sentry's loop. Refresh, Mirror, Door and Audit have no liveness
property: what they promise is a bound, and so an invariant.

## 4. The proofs

Thirty-five results in eight modules, each for every value of the constants its
module assumes. What a theorem states and a run checks is one definition. Where a
hypothesis is named, the code does not enforce it, and the text says what happens
without it.

`MatchesProofs`, for every number of games, heroes, spellings, rebuilders, ids,
rebuilds and failures:

- **TypeCorrect**: `Spec => []TypeOK`, from `MatchesAssumption` and
  `FailPointsAssumption` alone. TypeOK is not inductive: load_matches must find a
  name for every row, so `TypeInv` adds `Named`: the roster names what the tables
  hold, and what a restore is writing. It is preserved because a drop empties
  the tables with the roster and a pull never takes a hero off it - the foreign
  key of match_picks and the heroes upsert.

- **NothingIsLost**: `Undisturbed => (Spec => []NothingLost)`, where `Undisturbed`
  says the owner records nothing during a rebuild, rebuilds do not overlap, and
  none dies inside one of the two file writes. NothingLost says only that a
  recorded match has *some* copy, so nothing in it stops a step from giving up the
  copy the next step needs. `CopyInv` says for each point of a rebuild *which*
  copies are complete: the table or the file between rebuilds and until the merge;
  the rebuild's own list from the merge to the end of the write; the file, equal to
  that list, from the write to the commit of the restore; the list split into
  to-do, left and stored while it restores; left and the table after. Each step of a
  rebuild hands the matches on before it gives the first copy up: one step of the
  proof per action. `Apart` and `TableFirst` keep the owner and a second rebuild out
  of the way and rows inside a table. The three hypotheses are needed: `owner_busy`
  violates the property without the first, and the code does not exclude any.

- **FileOutlives**, **IdsAreKept**: `Undisturbed => (Spec => FileGoesLast)` and
  `KeepsIds`. The first is a consequence of CopyInv at the two steps that remove or
  rewrite the file. The second needs what a restore has *done*: `RestoreInv` adds
  that every id it takes for taken is a row's, and that each match it could name is
  still to do or has its row, with its id taken - so a match under another id met a
  row with its own.

- **IdentityStays**: `Undisturbed => (Spec => []IdentityAhead)`. A restore inserts
  ids of its own choosing and sets the identity to the greatest id *it* sees, so
  `AheadInv` speaks of rows not yet committed too, and needs that nobody else has
  any: a second restore, or a record_match, could be behind the identity it moves
  back.

- **OneRowKept**, **TableStays**: `Undisturbed => (Spec => []OneRowAGame)` and
  `[]TableSound`. A rebuild may die with the matches in the file and in the table both
  (between the write and the drop, or between the restore's commit and the file's
  removal); the next merges the two by `m not in kept`, which compares whole records.
  So the invariant follows a game from such a death on: while its hero keeps its
  spelling and its copy its id the two copies are one record, and once they differ the
  property says so by name (`Differ`). It does not say the code is right there: it
  stores the game twice (section 5).
- **ImplementsRecord**: `OnePlace => (Spec => ImplementsLedger)`, whole: Ledger has no
  fairness. `OnePlace` adds to Undisturbed that no rebuild dies with the matches in
  both places.
  `SingleInv` says between rebuilds a match is in one of the two, once; and at each
  point of a rebuild which lists share no game. So the copies that count hold what is
  on record and nothing else (`HeldIsRecorded`), and only record_match's commit and
  delete_match change that. Without OnePlace the ledger is not implemented: a match
  deleted from the table is in the file that the dead rebuild left, and comes back.

`SchemaProofs`, for every number of migrations, owners, deaths and upgrades:

- **ReadyMeansWhole**: `OneWriter => (SchemaSpec => []ReadyIsWhole)`. `SchemaInv`
  says the ledger records only what has run, that one process at most writes, and
  that what a process will record has run once nothing is left to run (`RunFirst`).
  `OneWriter` is needed: with two, one drops what the other has applied and both
  record every file.

`SchemaProofs` also, of Mirror, for every set of tables and exporters:

- **MarksAreWhole**: `MirrorSpec => MarkedWhole`. `AloneHolds` follows an export
  nobody ran beside: the files it has written are whole and read since it began, and
  once it has swept there are no others. A second export's first step ends the
  first's being alone, before it touches a file.

`DoorProofs`, of Page, for every set of boards and weights and every number of refreshes,
clicks and failures:

- **CurrentIsShown**: `PageSpec => []ShownIsCurrent`. A page at rest says nothing of
  the requests on their way, so `AskedAsSet` does: unless the timer runs, the newest
  request asked for the page as it is set; if it is served it saw what is current;
  while it is not over the page is busy; and what is drawn is nothing or current.
  Every step that changes a setting sets the timer, and only the newest reply is
  drawn. Any number of stores may be on their way. One that has been written and not
  answered, or was written after the page gave it up, is the premise `Heard` of the
  solve's half: a store answered sets the timer, and the next refresh forgives the rest.
- **StoredIsRecorded**: `PageSpec => []RecordedIsStored`; the key travels with the
  post, so what a reply makes recorded is what the server has.

`PlaybookProofs`, for every set of strategies and of calls, every shipped playbook
that loads, and every number of edits and crashes (`PlaybookAssumption`,
`ShippedAssumption`):

- **TypeCorrect**, **FirstWritten**, **LinesStay**: `Spec => []TypeOK`,
  `[]WrittenFirst`, `[]LoggedWhenTold`. All three speak of the copies, and a copy is
  filled from what a call has held since an earlier step, with any number of
  others' steps between. So `PlaybookInv` says what each call holds at each step:
  a catalog that loaded (`NoneBroken`); texts that were written, except the call's
  own until it writes it (`Sourced`); its change, until some written text has it
  (`Carried`); and that no call begins a log where the playbook came with one
  (`Lined`).

- **CopiesAgree**: `Spec => Settles`: such a call replies with the copies alike, or it
  fails, and then the docs had lost their markers and a crash, or a call at work on the
  docs, is there to blame. `Untouched` adds, for a call no other write has
  touched, that the folder is still as the call's hand says: through its own
  open and write, to its docs, to its mirror. Any step of somebody else that
  changes a file, the docs or the table ends the call's being untouched; the one
  rename that changes nothing, of a file already gone, cannot take the call's
  handle, because that file is there while the call writes it.

`BoardsProofs`, for every set of requests, clients and drafts, every size of the
pool, and every number of workers that die. All four rest on `Core`: which boards hold
the shared executor, that a task outside its board's pooled pass is in no queue, and
that a board's tasks are in one place each.

- **QueuesKept**: `Spec => []NothingQueuedBehind`. A board leaves its pass only through
  `CancelAll`, which takes its tasks out of the one queue they can be in; a task that
  was handed to a worker is no longer in any.
- **PassesRead**: `Spec => WholePassRead`. `Placed` says where each task of the present
  round is, `Walked` how far the walk of the searches has come: a board goes on only
  when the round it awaits is done.
- **SoonStopped**: `Spec => []StopsSoon`. The property bounds the rounds sent *after*
  a board is superseded; `Credit` adds those it may still send before its thread asks
  the Watch, and that the sum is two at most at every step of the walk.
- **StepsAsService**: `Spec => ServiceInit /\ [][ServiceNext]_serviceVars`, the safety
  half of `ImplementsService`: `Lanes` numbers each client's lane without a gap, and
  `Unhurt` says an executor is broken only after a worker has died, and a task raises
  only for a board in hand while the playbook could not be read.

`SearchProofs`, for every roster, playbook, board and sample, every number of slices
and every budget of the local search, from `SearchAssumption`: whole-number data, as
the module has throughout; a sample of full sixes of released heroes, which is what
`scale.sample` draws; locks that are released and not banned. What a rule reads, what
a limit refuses and which shapes are allowed are free.

- **SplitsAgreeWithWhole**: `SearchSpec => []SplitFree`. `OnScale` and `Counted` say
  what the bounds, the standing and the field are while a round is under way: those of
  the slices seen so far. Three facts carry them. The slices of a list are disjoint and
  the last completes it (`Slicing`). Bounds that fit two lists widen into bounds that
  fit both, a rule only one list values included (`WidenFits`). And the standings of
  two lists that share no six add up (`TallyJoined`): the sum of a finite set is a
  fold that takes its members in the order CHOOSE gives, so this is an induction over
  the subsets of the set (`AllSubsets`), since either part is folded in its own order.
- **OnlyLegalSixes**: `SearchSpec => []KnownLegal`. Each move keeps a six `Seated`: a
  swap or a pair brought in takes from each role as many as it gives (`Reseated`), so
  the shape stays legal, and it draws from a roster without the bans.
- **AnswerIsLocalOptimum**: `SearchSpec => []LocalOptimum`. Nothing in the property
  says that the swaps of the answer *one* seat away were ever tried: Settle tries two.
  `Climbed` does: in the seeds and the pairs, the first of everything known has had
  its swaps tried or its turn is to come - it is climbed from now, it is a start not
  yet taken, or it is the gain of the pairs under way - and from then on the leader's
  have been tried and nothing known is above both it and the six climbed from. A six
  one seat away that ranks above would have been the climb's next step. `TwoAway`
  closes it: a legal six of the shape at most two seats away is one of those swaps.
  All of it rests on rank()'s order being strict and total on a board's verdicts, ties
  of score and tie-break included (**AboveOrder**).
- **ClimbsAscend**: `SearchSpec => [][Ascends]_searchVars`: what a climb moves to is
  above where it stood. There are finitely many verdicts (`RankedIs`), so this is why
  SearchComes holds; the liveness itself needs ENABLED and is TLC's.

`StrategiesProofs`, for every registry, every header and calls of however many pairs;
the assumption types a line and a pair, no more:

- **TuningIsRead**: `StrategiesInit /\ [][StrategiesNext]_strategyVars => TidyTurns`. The
  loader folds over the lines and a writer looks for one among them; nothing either
  keeps tells of the other. So first what the loader makes of a tidy header:
  each line's value at the line's own path, and nothing elsewhere (`TidyReads`, by
  induction over the lines: an indented one has `params:` above it with nothing at
  column 0 between, `UnderParams`). A header is then no more than its lines' paths and
  values, and a writer is judged by what one line put in, or written over, does to
  those (`PutIn`, `WriteOver`). `ScalarSets` and `ParamSets` find the line each of the
  two picks, the block `_set_param` opens in a header without one included. `EditsSet`
  is the induction over the pairs of a call, the last on a field winning. That the
  header is tidy is a hypothesis inside the property; the loader does not ask for
  it, and the run `dial` has the headers that show it is needed.

`RefreshProofs`, for every set of pages, every call of the owner's, and any number of
days, calls and kills:

- **StoresFresh**, **FetchesOnce**, **SnapshotsReal**: `Spec => []FreshOrNamed`,
  `[]FetchedOnce`, `SnapshotReal`. `Fetching` says of each process which pages its pull
  has settled, and by what: looked at and young, fetched since the cutoff, or named
  stale; the two processes share the files and neither's step makes a file older.
- **StaysYoung**: `EnoughSteady => (Spec => []StayYoung)`. The refresher decides by the
  *median* age of the wiki's pages, and the property is about *each* page that always
  comes, so the proof counts: when a full refresh is not due, fewer than half of the
  pages are old, hence some article is young, and the articles are brought together.
  `Young` carries how far each page, and the table made of it, is behind (`Lag`), and
  what the kills, calls and failures so far may have cost (`Owed`). `EnoughSteady` is
  that the articles that always come are no fewer than the Season pages. Without it
  the Season pages could be the median, and a daily refresh, which brings them and no
  article, would keep it young for ever. The wiki has an article for each of some
  fifty heroes and a handful of Season pages; the run has one of each.

`DoorProofs`, for every set of requests, batches, addresses and calls, every limit of
the door and every length of the log's tail:

- **RateKept**: `DoorSpec => []RateHeld`. A thread reads the clock before it takes the
  lock, so a window's times need not be in order; `Near` says they are but for one lag.
  `Remembered` says of the times no late reading can have put out of the window that
  the calls let in then are all in their address's entry. Two facts carry it: an
  address is forgotten only when its last time is out of the window, and then, by
  Near, it holds no such time; and dropping what is out of the window leaves every
  other time as often as it was (`WithinIs`, by induction over the entry). That is the
  window less two lags. Of a whole window `StraightHeld` says more while no thread of
  its address was overtaken near it (`Straight`): until a later reader has the lock
  (`Open`) the entry has every call let in of the window, and after that none is let
  in, since its thread would be overtaken. That the clean-up forgets no such entry
  needs the lag before the window: an older time behind a newer one is an overtaken
  thread's (`LockOK`).
- **RelayTold**: `DoorSpec => []RelayTellsWho`. `Told` says a reply given is a refusal
  with its line or the whole of the answers with theirs (`Served`).
- **LogCounted**, **PassExact**: `AuditSpec => []LinesCounted` and `RecentExact`.
  `Reading` says the sentry stopped at a line's end and has counted nothing past it;
  that a crash is counted, too late for its minute, or in the reach of the next pass;
  and that a line of the tail begins where the tail may be read from. The one
  assumption that is not a limit, `Logged \cap Nat = {}`, is the encoding: a cell is
  a call's body or the time its end was written.

Induction over data is done with explicit sets: a set of naturals has a least element
(the library's theorem on well-founded relations), so the set of lengths for which a
fact holds has all of them (`LeastNat`, `Upwards`). That serves the filters of queues
and windows, and by the size of its members a family of finite sets (`AllSubsets`). A
fold over a sequence is unrolled the same way (`FoldExists` of StrategiesProofs). The
library's induction theorems that take an operator cannot be instantiated by the
installed provers.

Checked by TLC only: liveness (`RebuildEnds`, `DataComes`, `PageComes`,
`SearchComes`, `BrokenGoes`, the liveness half of BoardService), which needs
ENABLED; and the pure modules, whose properties are equalities between calculations
over families of inputs. `LedgerClean` of `house` is not a theorem by that name: it is
ImplementsLedger of the instance whose rebuild leaves the matches in one place, which
ImplementsRecord proves of Matches.

## 5. Where the code and its words disagree

- `owner_busy`: db_rebuild says it keeps the recorded matches; a record_match that
  commits between the copy and the drop is in neither. `drop_all` even waits for
  it to commit.
- `drop`: engine.board says a worker dying anywhere in the pooled pass means the
  same pass here; a board that meets the broken executor late shuts down the
  *next* executor, under another board, whose CancelledError nobody catches.
- `sentry`: only files that do not load, or read like instructions, are to be
  quarantined; one that a writer has just emptied is judged then and renamed
  after it was filled.
- `torn`: a flaky source is to mean yesterday's numbers, never an empty table; the
  cached page is emptied before the new text is in, so a kill there and a source
  that fails next day serve the empty page.
- `late_crash`: an audit line says crashed, "which the sentry counts"; a line is
  stamped when its call begins, so one that crashes after more than the sentry's
  minute is out of every pass's window when it is appended.
- `sent_twice`: "one map is sent once"; every paint enables the result buttons by
  what is recorded and not by what is on its way, so a board's reply that comes
  between the press and the post's reply offers the press again.
- `dial`: a tuning is to be an edit written back; where `params:` is followed by a
  comment at column 0 the editor takes the block for empty and writes the dial
  above the line the loader goes on reading; and an indented `params:` of another
  mapping is a line the editor, which strips it, takes for the block.

The two writes of kept-matches.json have the same weakness as `torn`: a death
between emptying and filling leaves a file that does not parse and, when the table
is already gone, no other copy. The runs and the theorem exclude those two points
by name (`UntornPoints`, `Undisturbed`).

Smaller ones, met while translating; the modules follow the code:

- A rebuild that died with the matches in the file and the table both, a pull that
  respells a hero, and the next rebuild: `m not in kept` (lifecycle.py:213) keeps both
  copies, and the restore stores the game twice, under its id and a fresh one
  (`Differ` in Matches; the modules reach it).
- `http.HttpServer.admit` speaks of "a sliding window of RATE_WINDOW seconds"
  (http.py:180) but reads the clock before it takes the lock: a thread overtaken by a
  later reader finds that reader's cut of the entry, and a window is let in past its
  limit (`overtaken` in Door; RateHeld says how far that goes).
- `db.embed` rewrites docs/inference.md in place (db/__init__.py:123-124) and raises
  without its markers (119-120), and the log's header says every change is in the log
  (tune.py:199-200): after a kill between the two, every later change is written to its
  file and neither logged nor mirrored.
- `result._cited_fact` promises a fact for every metric it is asked; `map_win_mean`
  on an empty map and the metrics in `Facts!Unworded` have none.
- `catalog.has_scoring_terms` counts any heuristic, one that scores nothing included.
- `strategy_sections.combine` keeps an edge another article reads ambiguously; its
  docstring speaks only of agreement.
- `predict.Design` takes a missing standardised feature as 0 in the mean it centres
  on, and as the mean when it reads a row.
- A time split with one scored session gives an interval of no width.
- A slider's store whose reply is lost, or that the relay gives up on (web.py:264-267)
  while the tune goes on, leaves the page drawn under the old weight until something
  else asks again (`unsure` in Page).

## 6. What is not modelled, and why

- *Parsers* (`db/data/blizzard`, and of `db/data/wiki` articles, kits, maps,
  terrain, playstyles, patches): text in, rows out, one thread. Their order of
  effects, refusals and commits is in Refresh and Matches; what is decided from the
  match-ups and the Strategy sections is Claims.
- *facts/tables.py, kit.py, scalars.py*: rows and words read into a frozen World; the
  pure modules take a World as an input.
- *Newton's method, the bootstrap and the wording of the report* in validation:
  floats; a fit is kept as what it is given.
- *The MCP registry, argument schemas and stdio*: they keep no state but the audit
  log, which is Audit's; Door has the one transport that admits.
- *Docker, the browser's rendering, charts, the model's command line*: outside the
  repository, or without state. derive_strategies ends in an addition, which is
  Playbook's.
- *A relay's timeout* in RelayTellsWho, which speaks of replies that come. What a write
  that lands after it does to the page is in Page.
- *The search inside Verdict*: BestSix is the exact best of the field, where the code
  enumerates and then climbs. That a fill is never above its seat's optimal, and that a
  pick of the fill does not move the share, rest on it; a search that stopped short
  would have its share cut at 100 (`Pct`).
- *warm()* and the workers' watch on their parent (Boards); *confidence* metrics in
  the search; `evaluate`'s rank; the Host and Origin guard; the export at the end
  of a refresh and the strategies mirror of sync_all.

`PROJECT.json` gives the status of each component.

## 7. The plan

Built in this order: Matches with its ledger and proofs; Boards and BoardService;
Search; Playbook; Refresh; then Schema, Mirror, Door, Audit, Page, Strategies; the
pure modules; the composed runs; the proofs of Schema, Mirror, Page and of Matches'
action properties; those of Boards, Refresh, Door and Audit; those of Ledger; those of Search
and of Strategies. What is left:

1. Composition: a board that loads one catalog while its workers load another
   (Boards with Playbook, the hazard at `engine.py:326`); a match stamped with the
   playbook's digest while a writer writes (Matches with Playbook).
2. Proofs: lemmas on Claims and Verdict that turn a seat round.
3. The rank, the need budget and confidence metrics in Search's objective, which
   Objective has already.

## 8. Running it

    tlc -workers 2 -config MCHouse_house.cfg MCHouse
    for m in Matches Playbook Schema Boards Refresh Door Search Strategies; do tlapm ${m}Proofs.tla; done

Each run ends within five minutes on two cores; the proofs take about
fifteen minutes together.
