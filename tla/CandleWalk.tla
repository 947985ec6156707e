----------------------------- MODULE CandleWalk -----------------------------
(***************************************************************************)
(* How the candles of one expiry get on disk: the planner that turns a     *)
(* download sheet into candle_chunk rows (pipeline/planner.py), the handler*)
(* that stores a chunk and decides whether an older one is worth a request *)
(* (pipeline/handlers/candle_chunk.py), the transaction it stores it with  *)
(* (db/writer.py, CandleChunkWrite) and the ledger of what is held         *)
(* (db/queries/coverage.py).                                               *)
(*                                                                         *)
(* A day is a number and the contracts expire on LastDay, in the past.  An *)
(* expired contract traded on every open day from its birth to its expiry: *)
(* the contiguous life on which the source builds the walk.  A bar stands  *)
(* for all the candles of its day.                                         *)
(***************************************************************************)
EXTENDS Integers, SequencesExt, FiniteSetsExt

CONSTANTS
  Contracts, Spot,  \* the contracts of the expiry; the underlying's own series
  Resolutions,
  Workers,
  LastDay,          \* the expiry
  Births,           \* the first days a life may have; LastDay + 1: never traded
  Closed,           \* the days on which nothing trades
  Holidays,         \* those of them the calendar knows of
  ExchangeFloor, DataFrom, LifeDays,  \* the clamps of the planner and of the walk
  ChunkDays,        \* MAX_DAYS_PER_REQUEST
  MaxSteps,         \* MAX_BACKWARD_PROBE_STEPS
  Sheets,           \* the download sheets that may be committed
  MaxJobs,          \* bound: jobs committed
  MaxFaults         \* bound: failed requests, failed planning after a chunk, kills

Days == 1 .. LastDay
Series == Contracts \cup {Spot}
NoDay == 0

\* A sheet names its window (NoDay: not given), its resolutions, whether it
\* takes the spot series along and whether it is a forced refresh.
SheetType == [from : Days \cup {NoDay}, to : Days \cup {NoDay}, res : SUBSET Resolutions,
              spot : BOOLEAN, force : BOOLEAN]

\* The life window is always shorter than the steps of the walk can reach, and
\* the market is never shut for as long as a request can span.
ASSUME WalkAssumption ==
  /\ {LastDay, ChunkDays, MaxSteps, MaxJobs, MaxFaults} \subseteq Nat
  /\ {ExchangeFloor, DataFrom} \subseteq Days /\ LifeDays \in 0 .. LastDay - 1
  /\ ChunkDays > 0 /\ MaxSteps * ChunkDays >= LastDay
  /\ Births \subseteq 1 .. LastDay + 1
  /\ Holidays \subseteq Closed /\ Closed \subseteq Days
  /\ \A d \in Days : d + ChunkDays - 1 <= LastDay => ~(d .. d + ChunkDays - 1 \subseteq Closed)
  /\ Spot \notin Contracts /\ Sheets \subseteq SheetType

VARIABLES
  birth,    \* the first day of each contract's life
  bars,     \* candles: how many bars of a day are stored, for a series and a resolution
  ledger,   \* candle_coverage
  sealed,   \* the contracts with dim_contract.sealed_at set
  jobs,     \* the job rows: sheet, total_tasks, and what was retried
  tasks,    \* the task rows
  draft,    \* the plan a create call has priced and not yet committed
  work,     \* where each worker stands
  cut,      \* the walks whose planning failed after a chunk was stored
  faults

database == <<bars, ledger>>
queue == <<jobs, tasks>>
vars == <<birth, database, sealed, queue, draft, work, cut, faults>>

States == {"pending", "leased", "done", "empty", "skipped", "failed"}
Steps == {"idle", "leased", "stored", "checking", "sealing", "decided"}
Chunk == [c : Series, r : Resolutions, from : Days, to : Days]
Idle == [step |-> "idle", task |-> 0]

TypeOK ==
  /\ birth \in [Contracts -> Births]
  /\ bars \in [Series \X Resolutions \X Days -> Nat]
  /\ ledger \subseteq [c : Series, r : Resolutions, from : Days, to : Days,
                       status : {"ok", "empty"}]
  /\ sealed \subseteq Contracts
  /\ jobs \in Seq([sheet : Sheets, total : Nat, retried : BOOLEAN])
  /\ tasks \in Seq([job : DOMAIN jobs, c : Series, r : Resolutions, from : Days, to : Days,
                    state : States])
  /\ draft \subseteq [sheet : Sheets, chunks : SUBSET Chunk] /\ Cardinality(draft) <= 1
  /\ work \in [Workers -> [step : Steps, task : 0 .. Len(tasks)]]
  /\ Len(jobs) <= MaxJobs /\ cut \subseteq (DOMAIN jobs) \X Contracts \X Resolutions
  /\ faults \in 0 .. MaxFaults

Init ==
  /\ birth \in [Contracts -> Births]
  /\ bars = [k \in Series \X Resolutions \X Days |-> 0] /\ ledger = {}
  /\ sealed = {}
  /\ jobs = <<>> /\ tasks = <<>> /\ draft = {}
  /\ work = [w \in Workers |-> Idle] /\ cut = {}
  /\ faults = 0

-----------------------------------------------------------------------------
(* Days, windows and the ledger: pure operators. *)

\* What the broker holds of a series.
Life(c) == {d \in Days \ Closed : c = Spot \/ d >= birth[c]}

\* TradingCalendar.next_trading_day, inclusive: with no holiday known a shut
\* day counts as open.
NextOpen(d) == Min({e \in d .. LastDay + 1 : e \notin Holidays})

\* chunk_range, and the steps of _plan_older_chunk: newest first, each piece as
\* wide as allowed, the oldest one cut at lo.
Grid(lo, hi, span) ==
  [i \in {i \in 1 .. hi - lo + 1 : hi - (i - 1) * span >= lo} |->
     [to |-> hi - (i - 1) * span, from |-> Max({lo, hi + 1 - i * span})]]

\* sorted: by the left edge, then by the right one.
InOrder(ranges) ==
  LET rest[S \in SUBSET ranges] ==
        IF S = {} THEN <<>>
        ELSE LET x == CHOOSE x \in S :
                   \A y \in S : x.from < y.from \/ (x.from = y.from /\ x.to <= y.to)
             IN  <<x>> \o rest[S \ {x}]
  IN  rest[ranges]

\* merge_ranges, one range: joined to the last one when it overlaps or touches it.
Extend(merged, x) ==
  IF merged # <<>> /\ x.from <= Last(merged).to + 1
    THEN [merged EXCEPT ![Len(merged)].to = Max({@, x.to})]
    ELSE Append(merged, x)

MergeRanges(ranges) == FoldLeft(Extend, <<>>, InOrder(ranges))

MissingWindowsSeam(ranges, want) ==      \* mutant: a gap takes the next held day along
  LET merged == MergeRanges(ranges)
      n == Len(merged)
      after(i) == IF i = 0 THEN want.from ELSE Max({want.from, merged[i].to + 1})
      before(i) == IF i = n THEN want.to ELSE Min({want.to, merged[i + 1].from})
  IN  {[from |-> after(i), to |-> before(i)] : i \in {j \in 0 .. n : after(j) <= before(j)}}

\* missing_windows: the gaps between the merged ranges, seen from want.from.
MissingWindows(ranges, want) ==
  LET merged == MergeRanges(ranges)
      n == Len(merged)
      after(i) == IF i = 0 THEN want.from ELSE Max({want.from, merged[i].to + 1})
      before(i) == IF i = n THEN want.to ELSE Min({want.to, merged[i + 1].from - 1})
  IN  {[from |-> after(i), to |-> before(i)] : i \in {j \in 0 .. n : after(j) <= before(j)}}

Windows(rows) == {[from |-> x.from, to |-> x.to] : x \in rows}

\* _held_ranges: the rows of one series at one resolution.
Held(c, r) == {x \in ledger : x.c = c /\ x.r = r}

\* _fully_covered, over the merged empty rows.
RecordedEmpty(rows, want) ==
  \E x \in Range(MergeRanges(Windows({y \in rows : y.status = "empty"}))) :
    x.from <= want.from /\ x.to >= want.to

\* _already_covered: one row spans the window.
AlreadyCovered(c, r, want) == \E x \in Held(c, r) : x.from <= want.from /\ x.to >= want.to

WindowBoundsClosed(from, to) ==          \* mutant: the last day of the window is left out
  {d \in Days : from <= d /\ d < to}

\* window_bounds: the days stored by a request, half open on the right.
WindowBounds(from, to) == {d \in Days : from <= d /\ d < to + 1}

-----------------------------------------------------------------------------
(* The planner. *)

\* The clamps shared by the planner and the walk, without the sheet's.
LifeFloor == Max({ExchangeFloor, DataFrom, LastDay - LifeDays})

WalkFloorUnclamped(s) == LifeFloor       \* mutant: the sheet's left edge is forgotten

\* _contract_window, and _walk_bounds with _sheet_range_from.
WalkFloor(s) == Max({LifeFloor, s.from})
WindowEnd(s) == IF s.to = NoDay THEN LastDay ELSE s.to

\* _emit_chunks, probing backwards: the newest chunk that is not held, unless a
\* newer one, or it, is recorded empty.
EmitChunks(s, c, r) ==
  LET rows == IF s.force THEN {} ELSE Held(c, r)
      grid == Grid(WalkFloor(s), WindowEnd(s), ChunkDays)
      held(i) == MissingWindows(Windows(rows), grid[i]) = {}
  IN  {[c |-> c, r |-> r, from |-> grid[i].from, to |-> grid[i].to] :
         i \in {i \in DOMAIN grid :
                  /\ ~held(i) /\ \A j \in 1 .. i - 1 : held(j)
                  /\ \A j \in 1 .. i : ~RecordedEmpty(rows, grid[j])}}

\* _plan_expiry: the sealed contracts are left out, unless the sheet is forced.
PlanExpiry(s) ==
  UNION {EmitChunks(s, c, r) : c \in {c \in Contracts : c \notin sealed \/ s.force}, r \in s.res}

\* _plan_spot: every chunk with a gap, from the expiry or the sheet's left edge.
PlanSpot(s) ==
  LET lo == Max({IF s.from = NoDay THEN LastDay ELSE s.from, DataFrom, ExchangeFloor})
      grid == Grid(lo, WindowEnd(s), ChunkDays)
      rows(r) == IF s.force THEN {} ELSE Windows(Held(Spot, r))
  IN  UNION {{[c |-> Spot, r |-> r, from |-> x.from, to |-> x.to] :
                x \in {y \in Range(grid) : MissingWindows(rows(r), y) # {}}} : r \in s.res}

\* Planner.plan: prices a sheet from what is stored now.
Plan(s) ==
  /\ draft = {} /\ Len(jobs) < MaxJobs
  /\ draft' = {[sheet |-> s,
                chunks |-> PlanExpiry(s) \cup (IF s.spot THEN PlanSpot(s) ELSE {})]}
  /\ UNCHANGED <<birth, database, sealed, queue, work, cut, faults>>

Rows(j, chunks) ==
  LET x == SetToSeq(chunks)
  IN  [i \in DOMAIN x |->
         [job |-> j, c |-> x[i].c, r |-> x[i].r, from |-> x[i].from, to |-> x[i].to,
          state |-> "pending"]]

\* JobService.create: nothing to download is refused, else the job and its rows
\* land together.
Commit ==
  /\ Len(jobs) < MaxJobs
  /\ \E plan \in draft :
       IF plan.chunks = {} THEN UNCHANGED queue
       ELSE /\ jobs' = Append(jobs, [sheet |-> plan.sheet, total |-> Cardinality(plan.chunks),
                                     retried |-> FALSE])
            /\ tasks' = tasks \o Rows(Len(jobs) + 1, plan.chunks)
  /\ draft' = {}
  /\ UNCHANGED <<birth, database, sealed, work, cut, faults>>

TasksOf(j) == {i \in DOMAIN tasks : tasks[i].job = j}

\* JobService.retry_failed: a child job over copies of the failed rows; its
\* sheet is the parent's.  (A job is retried once here: a bound.)
RetryFailed(j) ==
  LET failed == {i \in TasksOf(j) : tasks[i].state = "failed"}
  IN  /\ failed # {} /\ ~jobs[j].retried /\ Len(jobs) < MaxJobs
      /\ jobs' = Append([jobs EXCEPT ![j].retried = TRUE],
                        [sheet |-> jobs[j].sheet, total |-> Cardinality(failed), retried |-> FALSE])
      /\ tasks' = tasks \o
           Rows(Len(jobs) + 1, {[c |-> tasks[i].c, r |-> tasks[i].r, from |-> tasks[i].from,
                                 to |-> tasks[i].to] : i \in failed})
      /\ UNCHANGED <<birth, database, sealed, draft, work, cut, faults>>

-----------------------------------------------------------------------------
(* A worker and the handler. *)

\* What the broker answers for a window.
Response(t) == Life(t.c) \cap (t.from .. t.to)

Mine(w) == tasks[work[w].task]
GoTo(w, s) == work' = [work EXCEPT ![w].step = s]
Finish(w, s) ==
  /\ tasks' = [tasks EXCEPT ![work[w].task].state = s]
  /\ work' = [work EXCEPT ![w] = Idle]

\* The queue hands out the rows of the older job first, and those in their order.
Lease(w) ==
  /\ work[w].step = "idle"
  /\ \E i \in DOMAIN tasks :
       /\ tasks[i].state = "pending"
       /\ \A k \in DOMAIN tasks :
            tasks[k].state = "pending" =>
              tasks[i].job < tasks[k].job \/ (tasks[i].job = tasks[k].job /\ i <= k)
       /\ tasks' = [tasks EXCEPT ![i].state = "leased"]
       /\ work' = [work EXCEPT ![w] = [step |-> "leased", task |-> i]]
  /\ UNCHANGED <<birth, database, sealed, jobs, draft, cut, faults>>

\* The request fails for good, or the answer does not map onto the schema.
RequestFails(w) ==
  /\ work[w].step = "leased" /\ faults < MaxFaults
  /\ Finish(w, "failed")
  /\ faults' = faults + 1
  /\ UNCHANGED <<birth, database, sealed, jobs, draft, cut>>

\* CandleChunkWrite.apply: the delete and the insert of one window.
Stored(t, got) ==
  [k \in DOMAIN bars |->
     IF k[1] = t.c /\ k[2] = t.r /\ k[3] \in WindowBounds(t.from, t.to)
       THEN IF k[3] \in got THEN 1 ELSE 0
       ELSE bars[k]]

\* ingest_candles: the answer, its bars and its coverage row in one transaction.
\* An answer the ledger already records for this window is not written again.
IngestCandles(w) ==
  LET t == Mine(w)
      got == Response(t)
      row == [c |-> t.c, r |-> t.r, from |-> t.from, to |-> t.to,
              status |-> IF got = {} THEN "empty" ELSE "ok"]
  IN  /\ bars' = IF row \in ledger THEN bars ELSE Stored(t, got)
      /\ ledger' = {x \in ledger : <<x.c, x.r, x.from, x.to>> # <<t.c, t.r, t.from, t.to>>}
                   \cup {row}
      /\ UNCHANGED <<birth, sealed, queue, draft, cut, faults>>

\* handle_candle_chunk: the request and the commit, before any planning.
HandleCandleChunk(w) ==
  /\ work[w].step = "leased" /\ Mine(w).c # Spot
  /\ IngestCandles(w) /\ GoTo(w, "stored")

\* handle_spot_chunk: the same ingest; a live series is neither probed nor sealed.
HandleSpotChunk(w) ==
  /\ work[w].step = "leased" /\ Mine(w).c = Spot
  /\ IngestCandles(w) /\ GoTo(w, "decided")

LifeStartedInsideEdge(t) ==              \* mutant: a chunk full to its edge ends the walk
  Min(Response(t)) >= NextOpen(t.from)

\* _life_started_inside: the first bar lies after the first day that could have one.
LifeStartedInside(t) == Min(Response(t)) > NextOpen(t.from)

\* _plan_older_chunk: the newest older window no single row covers.
OlderWindows(t) ==
  LET grid == Grid(WalkFloor(jobs[t.job].sheet), t.from - 1, t.to - t.from + 1)
  IN  {grid[i] : i \in {i \in DOMAIN grid :
         /\ i <= MaxSteps /\ ~AlreadyCovered(t.c, t.r, grid[i])
         /\ \A j \in 1 .. i - 1 : AlreadyCovered(t.c, t.r, grid[j])}}

\* _insert_followup: unless the job has the very same row; the totals move along.
InsertFollowup(t, x) ==
  LET row == [job |-> t.job, c |-> t.c, r |-> t.r, from |-> x.from, to |-> x.to,
              state |-> "pending"]
  IN  IF \E i \in DOMAIN tasks : [tasks[i] EXCEPT !.state = "pending"] = row
        THEN UNCHANGED queue
        ELSE /\ tasks' = Append(tasks, row)
             /\ jobs' = [jobs EXCEPT ![t.job].total = @ + 1]

\* _skip_older_chunks, within the job.
SkipOlderChunks(t) ==
  /\ tasks' = [i \in DOMAIN tasks |->
       IF /\ tasks[i].state = "pending" /\ tasks[i].job = t.job
          /\ tasks[i].c = t.c /\ tasks[i].r = t.r /\ tasks[i].to < t.from
         THEN [tasks[i] EXCEPT !.state = "skipped"] ELSE tasks[i]]
  /\ UNCHANGED jobs

\* _decide_backward: no data ends the walk, so does a life that began inside the
\* chunk; else one more window is planned, or there is none and the walk is over.
DecideBackward(w) ==
  LET t == Mine(w)
      older == OlderWindows(t)
  IN  /\ work[w].step = "stored"
      /\ \/ /\ Response(t) = {}
            /\ SkipOlderChunks(t) /\ GoTo(w, "checking")
         \/ /\ Response(t) # {} /\ (LifeStartedInside(t) \/ older = {})
            /\ GoTo(w, "checking") /\ UNCHANGED queue
         \/ /\ Response(t) # {} /\ ~LifeStartedInside(t)
            /\ \E x \in older : InsertFollowup(t, x)
            /\ GoTo(w, "decided")
      /\ UNCHANGED <<birth, database, sealed, draft, cut, faults>>

\* _seal_if_idle, the read: no other open row of the contract, in any job.
CheckIdle(w) ==
  /\ work[w].step = "checking"
  /\ LET open == {i \in DOMAIN tasks : /\ tasks[i].c = Mine(w).c /\ i # work[w].task
                                       /\ tasks[i].state \in {"pending", "leased"}}
     IN  GoTo(w, IF open = {} THEN "sealing" ELSE "decided")
  /\ UNCHANGED <<birth, database, sealed, queue, draft, cut, faults>>

\* _seal_if_idle, the write, queued on the writer after the read.
Seal(w) ==
  /\ work[w].step = "sealing"
  /\ sealed' = sealed \cup {Mine(w).c}
  /\ GoTo(w, "decided")
  /\ UNCHANGED <<birth, database, queue, draft, cut, faults>>

\* An exception after the commit is swallowed: the chunk is durable, the walk ends.
PlanningFails(w) ==
  /\ work[w].step \in {"stored", "checking", "sealing"} /\ faults < MaxFaults
  /\ GoTo(w, "decided")
  /\ cut' = cut \cup {<<Mine(w).job, Mine(w).c, Mine(w).r>>}
  /\ faults' = faults + 1
  /\ UNCHANGED <<birth, database, sealed, queue, draft>>

\* The outcome, empty or done, is acked after all of it.
Ack(w) ==
  /\ work[w].step = "decided"
  /\ Finish(w, IF Response(Mine(w)) = {} THEN "empty" ELSE "done")
  /\ UNCHANGED <<birth, database, sealed, jobs, draft, cut, faults>>

CrashKeepsClaims ==                      \* mutant: the restart does not reclaim
  /\ faults < MaxFaults
  /\ faults' = faults + 1
  /\ work' = [w \in Workers |-> Idle] /\ draft' = {}
  /\ UNCHANGED <<birth, database, sealed, queue, cut>>

\* A kill and a restart: the claims come back, what was committed stays.
Crash ==
  /\ faults < MaxFaults
  /\ faults' = faults + 1
  /\ work' = [w \in Workers |-> Idle] /\ draft' = {}
  /\ tasks' = [i \in DOMAIN tasks |->
       IF tasks[i].state = "leased" THEN [tasks[i] EXCEPT !.state = "pending"] ELSE tasks[i]]
  /\ UNCHANGED <<birth, database, sealed, jobs, cut>>

Handle(w) ==
  \/ HandleCandleChunk(w) \/ HandleSpotChunk(w)
  \/ DecideBackward(w) \/ CheckIdle(w) \/ Seal(w) \/ Ack(w)

Next ==
  \/ \E s \in Sheets : Plan(s)
  \/ Commit
  \/ \E j \in DOMAIN jobs : RetryFailed(j)
  \/ \E w \in Workers : Lease(w) \/ Handle(w) \/ RequestFails(w) \/ PlanningFails(w)
  \/ Crash

\* The worker loop takes what is queued and its handler runs to its end.
Spec == Init /\ [][Next]_vars /\ \A w \in Workers : WF_vars(Lease(w)) /\ WF_vars(Handle(w))

-----------------------------------------------------------------------------
(* What must hold. *)

Terminal == {"done", "empty", "skipped", "failed"}
Chain(j, c, r) == {i \in TasksOf(j) : tasks[i].c = c /\ tasks[i].r = r}
WantedOf(j, c) ==
  LET s == jobs[j].sheet
  IN  Life(c) \cap (WalkFloor(s) .. WindowEnd(s))

\* A coverage row says what is stored: exactly one bar for each day of its
\* window on which the series traded, none else, and empty when there is none;
\* and no bar is stored outside every row.  Replays after a crash between the
\* write and the ack, two jobs over overlapping windows and retries keep it so.
LedgerHonest ==
  /\ \A x \in ledger :
       /\ \A d \in x.from .. x.to : bars[<<x.c, x.r, d>>] = IF d \in Life(x.c) THEN 1 ELSE 0
       /\ (x.status = "empty") <=> (Life(x.c) \cap (x.from .. x.to) = {})
  /\ \A k \in DOMAIN bars :
       bars[k] > 0 => \E x \in Held(k[1], k[2]) : k[3] \in x.from .. x.to

\* The rows of one job for one contract and resolution never overlap: no day is
\* paid for twice, also when a chunk is replayed after its successor was planned.
WalkIsDisjoint ==
  \A i, k \in DOMAIN tasks :
    (i # k /\ <<tasks[i].job, tasks[i].c, tasks[i].r>> = <<tasks[k].job, tasks[k].c, tasks[k].r>>)
      => tasks[i].to < tasks[k].from \/ tasks[k].to < tasks[i].from

\* The walk never leaves the sheet that was priced, nor the life window: every
\* row asks for days between the sheet's floor and its right edge.
WalkStaysOnSheet ==
  \A i \in DOMAIN tasks :
    LET s == jobs[tasks[i].job].sheet
    IN  /\ tasks[i].to <= WindowEnd(s) /\ tasks[i].from <= tasks[i].to
        /\ tasks[i].from >= s.from
        /\ tasks[i].c # Spot => tasks[i].from >= LifeFloor

\* When the rows a job had for a contract and resolution have all ended, none of
\* them failed and no planning step was lost, every day of the contract's life
\* inside the sheet is stored: the walk does not stop early and skips nothing.
SettledMeansHeld ==
  \A j \in DOMAIN jobs : \A c \in Contracts, r \in Resolutions :
    (/\ Chain(j, c, r) # {} /\ <<j, c, r>> \notin cut
     /\ \A i \in Chain(j, c, r) : tasks[i].state \in {"done", "empty", "skipped"})
      => \A d \in WantedOf(j, c) : bars[<<c, r, d>>] = 1

\* What a failed request or a lost planning step leaves out is found again: for
\* a contract that is not sealed and misses a day of its life, an open sheet
\* prices a request, as long as no row of it is already under way.
PlannerFindsHoles ==
  \A c \in Contracts \ sealed, r \in Resolutions :
    (\E d \in Life(c) : d >= LifeFloor /\ bars[<<c, r, d>>] = 0)
      => EmitChunks([from |-> NoDay, to |-> NoDay, res |-> {r}, spot |-> FALSE,
                     force |-> FALSE], c, r) # {}

\* The interval arithmetic answers what the sets say: the gaps it returns hold
\* exactly the days no row covers, and none is empty or touches another.
MissingIsExact ==
  \A c \in Series, r \in Resolutions : \A lo, hi \in Days :
    LET gaps == MissingWindows(Windows(Held(c, r)), [from |-> lo, to |-> hi])
    IN  /\ UNION {x.from .. x.to : x \in gaps}
             = {d \in lo .. hi : \A x \in Held(c, r) : d \notin x.from .. x.to}
        /\ \A x, y \in gaps : x # y => x.to + 1 < y.from \/ y.to + 1 < x.from

\* The totals on the job row, the denominator of its progress, count its rows.
TotalsCountRows == \A j \in DOMAIN jobs : jobs[j].total = Cardinality(TasksOf(j))

\* The walk ends: every row of every job reaches an end, whatever failed or was
\* replayed, because each successor lies strictly further back.
WalkEnds ==
  \A j \in 1 .. MaxJobs :
    (j \in DOMAIN jobs) ~> (j \in DOMAIN jobs /\ \A i \in TasksOf(j) : tasks[i].state \in Terminal)

\* docs/PIPELINE.md on sealing: sealed_at is set once the coverage rows span the
\* contract's whole tradeable life.  Read as weakly as it can be: at one
\* resolution at least, nothing of its life is left to fetch.
\* It does not hold: see "Stated in the modules" in the README.
SealedMeansHeld ==
  \A c \in sealed : \E r \in Resolutions : \A d \in Life(c) :
    d >= LifeFloor => bars[<<c, r, d>>] = 1

\* What is recorded is what is there: the coverage rows say what the store holds, and
\* the job's totals what rows it has, over retries, kills and a second plan.
LedgerSound == TypeOK /\ LedgerHonest /\ TotalsCountRows

\* No two rows of a job ask for the same day, and none asks outside the sheet it was
\* planned for.
WalksApart == WalkIsDisjoint /\ WalkStaysOnSheet

\* A plan asks for all that is missing and for nothing that is held, and the walks it
\* starts, once they are settled, have left nothing out.
PlannerExact == PlannerFindsHoles /\ MissingIsExact /\ SettledMeansHeld
=============================================================================
