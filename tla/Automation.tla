----------------------------- MODULE Automation -----------------------------
(***************************************************************************)
(* What runs without anybody asking: the schedules and the triggers rebuilt*)
(* from their table (scheduler/service.py), the actions they run           *)
(* (scheduler/jobs_def.py), the broker's token from one login to the next  *)
(* (brokers/fyers/tokens.py), and the part of the daily budget a sweep is  *)
(* priced against (pipeline/planner.py, pipeline/jobs.py).                 *)
(*                                                                         *)
(* Time is counted in halves of a day, in India: the early half ends at    *)
(* 05:30, when the date in UTC catches up.  The routes run on threads of   *)
(* their own; a fire is a coroutine and the fires share one lock.          *)
(***************************************************************************)
EXTENDS Integers, Sequences, FiniteSetsExt

CONSTANTS
  Own,          \* the schedules a user may create; each is a sweep
  Edited,       \* the schedules that are changed; the others stay as they are seeded
  Routes,       \* the requests that may be changing schedules at once
  Sheets,       \* how many underlyings a sweep prices
  Price,        \* requests a sheet of a sweep takes
  Daily,        \* the daily budget
  Reserve,      \* the part of it for sweeps: int(daily_budget * fraction)
  TokenLife,    \* halves a token is good for
  Freedoms,     \* what may happen besides, of AllFreedoms
  LastHalf, MaxJobs,   \* bounds
  MaxEvents     \* bound: edits, presses, logins, rejections and restarts together

\* A change is under way when a fire is due; the machine sleeps past the grace of a fire.
AllFreedoms == {"edits_at_the_hour", "sleeps"}

Generations == 1 .. MaxEvents + 1
Builtins == {"reset", "logout", "health"}
Ids == Builtins \cup Own
Crons == {"early", "late"}
Fires == Ids \cup {"button"}      \* a trigger has one fire at most; so has Run now here

\* A created schedule has an id of its own, not that of a builtin.
ASSUME AutomationAssumption ==
  /\ {Sheets, Price, Daily, Reserve, TokenLife, LastHalf, MaxJobs, MaxEvents} \subseteq Nat
  /\ Own \cap (Builtins \cup {"button"}) = {} /\ Edited \subseteq Ids

VARIABLES
  half,
  table,       \* schedule
  triggers,    \* what APScheduler has installed
  shown,       \* the schedules with a next_fire_at
  route,       \* where each change of the schedules stands
  met,         \* the last change to begin found another under way
  fire,        \* where each fire stands
  rows,        \* broker_token
  broker,      \* what TokenBroker remembers of it
  reports,     \* generations the broker refused, still to be reported by a worker
  refused,     \* those it ever refused
  mode,        \* of the governor
  budget,      \* api_budget; swept: how much of used the sweeps sent
  jobs,
  spent

schedules == <<table, triggers, shown, route, met>>
tokens == <<rows, broker, reports, refused>>
work == <<budget, jobs>>
vars == <<half, schedules, fire, tokens, mode, work, spent>>

Day(h) == h \div 2
UtcDay(h) == (h + 1) \div 2 - 1
HalfOf(h) == IF h % 2 = 0 THEN "early" ELSE "late"

Absent == [there |-> FALSE]
Row(cron, on) == [there |-> TRUE, cron |-> cron, on |-> on]
Resting == [step |-> "idle"]
NotLoaded == [loaded |-> FALSE, gen |-> 0, parked |-> 0, rec |-> {}]
\* A stored token; an expiry of 0 is an unknown one.
Usable(r) == r.state \in {"active", "expiring"}

TypeOK ==
  /\ half \in 0 .. LastHalf
  /\ \A i \in Ids : table[i].there => table[i].cron \in Crons /\ table[i].on \in BOOLEAN
  /\ \A i \in Builtins : table[i].there
  /\ \A i \in DOMAIN triggers : triggers[i].cron \in Crons /\ triggers[i].due \in BOOLEAN
  /\ DOMAIN triggers \subseteq Ids /\ shown \subseteq Ids
  /\ \A r \in rows : r.gen \in Generations /\ r.state \in {"active", "needs_reauth", "revoked"}
  /\ broker.gen \in Generations \cup {0} /\ broker.parked \in Generations \cup {0}
  /\ met \in BOOLEAN /\ mode \in {"running", "paused_auth", "stopped_budget"}
  /\ budget.used \in 0 .. Daily
  /\ \A j \in DOMAIN jobs : jobs[j].status \in {"queued", "deferred_budget"} /\ jobs[j].left \in Nat

Install(t) == [i \in {x \in Ids : t[x].there /\ t[x].on} |-> [cron |-> t[i].cron, due |-> FALSE]]

Init ==
  /\ half = 0
  /\ table = [i \in Ids |-> IF i = "health" THEN Row("late", TRUE)
                            ELSE IF i \in Builtins THEN Row("early", TRUE) ELSE Absent]
  /\ triggers = Install(table) /\ shown = DOMAIN triggers
  /\ route = [e \in Routes |-> Resting] /\ met = FALSE /\ fire = [p \in Fires |-> Resting]
  /\ \E exp \in {0, TokenLife} : rows = {[gen |-> 1, exp |-> exp, state |-> "active"]}
  /\ broker = NotLoaded /\ reports = {} /\ refused = {}
  /\ mode = "running" /\ jobs = <<>>
  /\ budget \in {[day |-> 0, used |-> n, swept |-> 0] : n \in {0, Daily}}
  /\ spent = 0

Spend == spent < MaxEvents /\ spent' = spent + 1
Allowed(what) == what \in Freedoms

-----------------------------------------------------------------------------
(* The token. *)

\* max_generation: of every row, the revoked ones included.
MaxGeneration == Max({0} \cup {r.gen : r \in rows})

\* load_active: the newest usable row.
LoadActive == {r \in rows : Usable(r) /\ \A s \in rows : Usable(s) => s.gen <= r.gen}

\* TokenBroker._load.
Loaded ==
  IF broker.loaded THEN broker
  ELSE [loaded |-> TRUE, gen |-> Max({broker.gen, MaxGeneration}), parked |-> broker.parked,
        rec |-> LoadActive]

Expired(r, h) == r.exp # 0 /\ r.exp <= h
\* has_valid_token, on the remembered record.
HasValidToken == \E r \in Loaded.rec : Usable(r) /\ ~Expired(r, half)

Revoked(r) == IF r.state = "revoked" THEN r ELSE [r EXCEPT !.state = "revoked"]

\* SqliteTokenStore.save: the earlier tokens are destroyed in the same transaction.
Saved(gen, exp) ==
  rows' = {Revoked(r) : r \in rows} \cup {[gen |-> gen, exp |-> exp, state |-> "active"]}

\* TokenBroker.store_login, and the resume that the callback asks for: at any time, also
\* between the two parts of a logout.
StoreLogin ==
  /\ Spend
  /\ LET gen == Max({broker.gen, MaxGeneration}) + 1
     IN  \E exp \in {0, half + TokenLife} :
           /\ Saved(gen, exp)
           /\ broker' = [loaded |-> TRUE, gen |-> gen, parked |-> 0,
                         rec |-> {[gen |-> gen, exp |-> exp, state |-> "active"]}]
  /\ mode' = IF mode = "paused_auth" THEN "running" ELSE mode
  /\ UNCHANGED <<half, schedules, fire, reports, refused, work>>

OnAuthErrorUnguarded(g) ==       \* mutant: an older generation parks as well
  LET m == Loaded
  IN  IF g <= m.parked THEN broker' = m /\ UNCHANGED <<rows, mode>>
      ELSE /\ rows' = {IF r.gen \in {x.gen : x \in m.rec} THEN [r EXCEPT !.state = "needs_reauth"]
                       ELSE r : r \in rows}
           /\ broker' = [m EXCEPT !.loaded = FALSE, !.parked = g, !.rec = {}]
           /\ mode' = "paused_auth"
OnAuthErrorKeepingRecord(g) ==       \* mutant: what is remembered of the token is kept
  LET m == Loaded
  IN  IF g < m.gen \/ g <= m.parked THEN broker' = m /\ UNCHANGED <<rows, mode>>
      ELSE /\ rows' = {IF r.gen \in {x.gen : x \in m.rec} THEN [r EXCEPT !.state = "needs_reauth"]
                       ELSE r : r \in rows}
           /\ broker' = [m EXCEPT !.parked = g] /\ mode' = "paused_auth"
\* TokenBroker.on_auth_error: one caller parks, once for a generation.
OnAuthError(g) ==
  LET m == Loaded
  IN  IF g < m.gen \/ g <= m.parked THEN broker' = m /\ UNCHANGED <<rows, mode>>
      ELSE /\ rows' = {IF r.gen \in {x.gen : x \in m.rec} THEN [r EXCEPT !.state = "needs_reauth"]
                       ELSE r : r \in rows}
           /\ broker' = [m EXCEPT !.loaded = FALSE, !.parked = g, !.rec = {}]
           /\ mode' = "paused_auth"

\* TokenBroker.clear.
Clear ==
  /\ rows' = {Revoked(r) : r \in rows}
  /\ LET gen == Max({broker.gen, MaxGeneration})
     IN  broker' = [loaded |-> FALSE, gen |-> gen, parked |-> gen, rec |-> {}]
  /\ mode' = "paused_auth"

\* A request in flight meets a token the broker no longer takes; its worker reports
\* that when it gets to it, and others, as late as they like, report it again.
Refuse ==
  /\ Spend /\ HasValidToken /\ Loaded.gen \notin refused
  /\ reports' = reports \cup {Loaded.gen} /\ refused' = refused \cup {Loaded.gen}
  /\ broker' = Loaded
  /\ UNCHANGED <<half, schedules, fire, rows, mode, work>>
OnAuthFailure(g) ==
  /\ g \in reports /\ OnAuthError(g)
  /\ UNCHANGED <<half, schedules, fire, reports, refused, work, spent>>

-----------------------------------------------------------------------------
(* The schedules. *)

Change(e, id, row) ==
  /\ route[e].step = "idle" /\ Spend
  /\ ~Allowed("edits_at_the_hour") => \A i \in DOMAIN triggers : ~triggers[i].due
  /\ table' = [table EXCEPT ![id] = row]
  /\ route' = [route EXCEPT ![e] = [step |-> "committed"]]
  /\ met' = (\E o \in Routes : route[o].step # "idle")
  /\ UNCHANGED <<half, triggers, shown, fire, tokens, mode, work>>

\* SchedulerService.create, update and delete, up to the commit.  A builtin is not
\* deleted; nor is a schedule that a job names: the foreign key refuses.
CreateSchedule(e, id, cron) == ~table[id].there /\ Change(e, id, Row(cron, TRUE))
UpdateSchedule(e, id, cron, on) == table[id].there /\ Change(e, id, Row(cron, on))
DeleteSchedule(e, id) ==
  /\ table[id].there /\ id \notin Builtins
  /\ \A j \in DOMAIN jobs : jobs[j].by # id
  /\ Change(e, id, Absent)

KeepAll(e) ==       \* mutant: what is installed is not removed first
  /\ route[e].step = "committed" /\ UNCHANGED triggers
  /\ route' = [route EXCEPT ![e] = [step |-> "listed", of |-> table]]
  /\ UNCHANGED <<half, table, shown, met, fire, tokens, mode, work, spent>>
\* sync: everything is removed and the table read; then the triggers are added,
\* what was due is not due any more, and the next fire times are written.
RemoveAllJobs(e) ==
  /\ route[e].step = "committed" /\ triggers' = <<>>
  /\ route' = [route EXCEPT ![e] = [step |-> "listed", of |-> table]]
  /\ UNCHANGED <<half, table, shown, met, fire, tokens, mode, work, spent>>
AddJobs(e) ==
  /\ route[e].step = "listed"
  /\ LET new == Install(route[e].of)
     IN  triggers' = [i \in DOMAIN triggers \cup DOMAIN new |->
                        IF i \in DOMAIN new THEN new[i] ELSE triggers[i]]
  /\ route' = [route EXCEPT ![e] = [step |-> "added"]]
  /\ UNCHANGED <<half, table, shown, met, fire, tokens, mode, work, spent>>
WriteNextFireTimes(e) ==
  /\ route[e].step = "added" /\ shown' = {i \in DOMAIN triggers : table[i].there}
  /\ route' = [route EXCEPT ![e] = Resting]
  /\ UNCHANGED <<half, table, triggers, met, fire, tokens, mode, work, spent>>

-----------------------------------------------------------------------------
(* A fire. *)

\* fire, up to the lock: the row and the time are read.
Called(p, id) ==
  fire' = [fire EXCEPT ![p] =
    IF table[id].there THEN [step |-> "waiting", id |-> id, on |-> table[id].on, at |-> half]
    ELSE Resting]
\* A trigger that is due.
FireFromTrigger(id) ==
  /\ id \in DOMAIN triggers /\ triggers[id].due
  /\ triggers' = [triggers EXCEPT ![id].due = FALSE]
  /\ fire[id].step = "idle" /\ Called(id, id)
  /\ UNCHANGED <<half, table, shown, route, met, tokens, mode, work, spent>>
RunNow(id) ==
  /\ fire["button"].step = "idle" /\ Spend
  /\ table[id].there /\ Called("button", id)
  /\ UNCHANGED <<half, schedules, tokens, mode, work>>

LockFree == \A p \in Fires : fire[p].step # "acting"
Acting(p, kind) ==
  fire[p].step = "acting" /\ (fire[p].id = kind \/ (kind = "sweep" /\ fire[p].id \in Own))
\* _record, and the lock is given back.
Recorded(p) == fire' = [fire EXCEPT ![p] = Resting]
Proceed(p, left) == fire' = [fire EXCEPT ![p] = [step |-> "acting", id |-> @.id, at |-> @.at, left |-> left]]

Allowance == Reserve - budget.used
\* The two guards, for a kind that needs a token and spends budget.
Guarded(p) ==
  \/ ~fire[p].on /\ p # "button"
  \/ fire[p].id \in Own /\ (~HasValidToken \/ mode # "running" \/ Allowance <= 0)
\* _guarded: the lock, the guards, and either the action begins or the skip is recorded.
\* A sweep may also fall on a holiday.
EnterFire(p) ==
  /\ fire[p].step = "waiting" /\ LockFree
  /\ \E holiday \in BOOLEAN :
       IF Guarded(p) \/ (holiday /\ fire[p].id \in Own) THEN Recorded(p)
       ELSE Proceed(p, IF fire[p].id \in Own THEN Sheets ELSE 2)
  /\ UNCHANGED <<half, schedules, tokens, mode, work, spent>>

\* Planner._price: a sheet is refused when it exceeds what is left of the reserve.
Fits == Price <= Allowance
SweepJob(id) == [by |-> id, status |-> "queued", left |-> Price]

\* plan_and_create for the next underlying: priced against what is used by now, and
\* committed or refused.  A row of a deleted schedule fails, and the action with it.
PlanAndCreate(p) ==
  /\ Acting(p, "sweep") /\ fire[p].left > 0
  /\ IF ~table[fire[p].id].there THEN Recorded(p) /\ UNCHANGED jobs
     ELSE /\ Proceed(p, fire[p].left - 1)
          /\ jobs' = IF Fits THEN Append(jobs, SweepJob(fire[p].id)) ELSE jobs
  /\ Len(jobs) < MaxJobs
  /\ UNCHANGED <<half, schedules, tokens, mode, budget, spent>>
SweepDone(p) ==
  /\ Acting(p, "sweep") /\ (fire[p].left = 0 \/ Len(jobs) = MaxJobs) /\ Recorded(p)
  /\ UNCHANGED <<half, schedules, tokens, mode, work, spent>>

\* run_token_health: within two minutes of the expiry, or after it, the pipeline is
\* parked as if the token had been refused.
TokenHealth(p) ==
  /\ Acting(p, "health")
  /\ \E close \in BOOLEAN :
       IF \E r \in Loaded.rec : Expired(r, half) \/ (close /\ Expired(r, half + 1))
         THEN OnAuthError(Loaded.gen)
         ELSE broker' = Loaded /\ UNCHANGED <<rows, mode>>
  /\ Recorded(p)
  /\ UNCHANGED <<half, schedules, reports, refused, work, spent>>

\* run_token_logout: the pipeline is parked first, then the token destroyed.
LogoutParks(p) ==
  /\ Acting(p, "logout") /\ fire[p].left = 2
  /\ IF Loaded.rec = {} THEN Recorded(p) /\ broker' = Loaded /\ UNCHANGED <<rows, mode>>
     ELSE Proceed(p, 1) /\ OnAuthError(Loaded.gen)
  /\ UNCHANGED <<half, schedules, reports, refused, work, spent>>
ScheduledLogout(p) ==
  /\ Acting(p, "logout") /\ fire[p].left = 1 /\ Clear /\ Recorded(p)
  /\ UNCHANGED <<half, schedules, reports, refused, work, spent>>

\* _roll_day_if_needed: the row of the day; a stop on budget is lifted.
Rolled == IF budget.day = Day(half) THEN budget ELSE [day |-> Day(half), used |-> 0, swept |-> 0]
RollMode ==
  mode' = IF budget.day # Day(half) /\ mode = "stopped_budget" THEN "running" ELSE mode

RollNone(today) == jobs       \* mutant: nothing is released
\* roll_deferred_budget_jobs: the day of a job is the date of its created_at.
RollDeferred(today) ==
  [j \in DOMAIN jobs |->
     IF jobs[j].status = "deferred_budget" /\ jobs[j].created < today
       THEN [jobs[j] EXCEPT !.status = "queued"] ELSE jobs[j]]
\* run_budget_reset.
RefreshDay(p) ==
  /\ Acting(p, "reset") /\ fire[p].left = 2 /\ Proceed(p, 1)
  /\ budget' = Rolled /\ RollMode
  /\ UNCHANGED <<half, schedules, tokens, jobs, spent>>
ReleaseDeferred(p) ==
  /\ Acting(p, "reset") /\ fire[p].left = 1 /\ Recorded(p)
  /\ jobs' = RollDeferred(Day(fire[p].at))
  /\ UNCHANGED <<half, schedules, tokens, mode, budget, spent>>

-----------------------------------------------------------------------------
(* The pipeline, the user and the clock. *)

\* JobService.create for a sheet that exceeds the day, with defer_to_tomorrow.
DeferToTomorrow ==
  /\ Len(jobs) < MaxJobs
  /\ jobs' = Append(jobs, [by |-> "user", status |-> "deferred_budget", left |-> 1,
                           created |-> UtcDay(half), on |-> Day(half)])
  /\ UNCHANGED <<half, schedules, fire, tokens, mode, budget, spent>>

\* A request of a job; the governor rolls the day on the way and stops at the budget.
Send(j) ==
  /\ jobs[j].status = "queued" /\ jobs[j].left > 0 /\ mode = "running" /\ HasValidToken
  /\ LET b == Rolled
     IN  IF b.used = Daily THEN mode' = "stopped_budget" /\ budget' = b /\ UNCHANGED jobs
         ELSE /\ budget' = [b EXCEPT !.used = @ + 1,
                                     !.swept = @ + (IF jobs[j].by = "user" THEN 0 ELSE 1)]
              /\ jobs' = [jobs EXCEPT ![j].left = @ - 1] /\ UNCHANGED mode
  /\ broker' = Loaded
  /\ UNCHANGED <<half, schedules, fire, rows, reports, refused, spent>>

\* The next half of the day, with every fire of the last one over: the triggers of
\* that time become due.
Tick ==
  /\ half < LastHalf /\ half' = half + 1
  /\ \A p \in Fires : fire[p].step = "idle"
  /\ ~Allowed("sleeps") => \A i \in DOMAIN triggers : ~triggers[i].due
  /\ ~Allowed("edits_at_the_hour") => \A e \in Routes : route[e].step = "idle"
  /\ triggers' = [i \in DOMAIN triggers |-> [cron |-> triggers[i].cron,
                                             due |-> triggers[i].cron = HalfOf(half + 1)]]
  /\ UNCHANGED <<table, shown, route, met, fire, tokens, mode, work, spent>>

\* The process ends and starts again: the triggers are rebuilt, the fires that came
\* due meanwhile are not run, and the jobs of an earlier day are released.
Restart ==
  /\ Spend
  /\ triggers' = Install(table) /\ shown' = DOMAIN Install(table)
  /\ route' = [e \in Routes |-> Resting] /\ met' = FALSE /\ fire' = [p \in Fires |-> Resting]
  /\ broker' = NotLoaded /\ reports' = {} /\ mode' = "running"
  /\ budget' = Rolled /\ jobs' = RollDeferred(Day(half))
  /\ UNCHANGED <<half, table, rows, refused>>

FireStep(p) ==
  \/ EnterFire(p) \/ PlanAndCreate(p) \/ SweepDone(p) \/ TokenHealth(p) \/ LogoutParks(p)
  \/ ScheduledLogout(p) \/ RefreshDay(p) \/ ReleaseDeferred(p)
Sync(e) == RemoveAllJobs(e) \/ AddJobs(e) \/ WriteNextFireTimes(e)

Next ==
  \/ StoreLogin \/ Refuse \/ \E g \in reports : OnAuthFailure(g)
  \/ \E e \in Routes :
       \/ \E id \in Own, cron \in Crons : CreateSchedule(e, id, cron)
       \/ \E id \in Edited, cron \in Crons, on \in BOOLEAN : UpdateSchedule(e, id, cron, on)
       \/ \E id \in Own : DeleteSchedule(e, id)
       \/ Sync(e)
  \/ \E id \in Ids : FireFromTrigger(id) \/ RunNow(id)
  \/ \E p \in Fires : FireStep(p)
  \/ DeferToTomorrow \/ \E j \in DOMAIN jobs : Send(j)
  \/ Tick \/ Restart

Spec == Init /\ [][Next]_vars
\* Time passes, a due trigger fires, and a coroutine or a thread that can go on does.
Fairness ==
  /\ WF_vars(Tick) /\ WF_vars(\E id \in Ids : FireFromTrigger(id))
  /\ WF_vars(\E p \in Fires : FireStep(p)) /\ WF_vars(\E e \in Routes : Sync(e))
FairSpec == Spec /\ Fairness

-----------------------------------------------------------------------------
(* What the automation promises. *)

ScreenIsWhatFires ==
  /\ DOMAIN triggers = {i \in Ids : table[i].there /\ table[i].on} /\ shown = DOMAIN triggers
  /\ \A i \in DOMAIN triggers : triggers[i].cron = table[i].cron

\* With no change under way, the triggers and the times shown are those of the enabled
\* rows, after any sequence of edits, deletions and restarts, unless the last change to
\* begin met another one: whatever two that met have left behind, the next change made
\* alone puts it right.
TriggersMirrorTable == ~met /\ (\A e \in Routes : route[e].step = "idle") => ScreenIsWhatFires

\* scheduler/service.py, of `sync`: "a rebuild cannot be wrong: the table is the truth",
\* and of the design: "what the schedules screen shows is exactly what will fire, and
\* there is nothing else".
\* It does not hold: two changes that meet, each on a thread of its own, rebuild from two
\* readings of the table, and the earlier reading may be the last one installed.
RebuildIsNeverWrong == (\A e \in Routes : route[e].step = "idle") => ScreenIsWhatFires

\* "There is never a moment with two usable tokens", and a generation names one
\* login for good: also after a logout and a restart between two logins.
OneUsableToken ==
  /\ Cardinality({r \in rows : Usable(r)}) <= 1
  /\ \A r, s \in rows : r.gen = s.gen => r = s

\* What is remembered of the token is what is stored: no request goes out with a
\* token that a logout destroyed or a rejection marked, and no login is missed.
CacheIsCurrent ==
  /\ broker.loaded => broker.rec = LoadActive /\ broker.gen >= MaxGeneration
  /\ HasValidToken => \E r \in rows : Usable(r) /\ r.gen = Loaded.gen

\* Why a token that was usable is not any more: a newer login, a rejection of that very
\* generation, its own expiry, or a logout.
LeavesForAReason(r) ==
  \/ \E s \in rows' : s.gen > r.gen
  \/ r.gen \in refused
  \/ Expired(r, half + 1)
Lost == {r \in rows : Usable(r) /\ \A s \in rows' : s.gen = r.gen => ~Usable(s)}

\* A stored token stops being usable for a reason of its own, or because a logout is
\* running, which at its end destroys whatever is stored by then.  A late report about an
\* earlier token, the health check and a restart do not undo a login.
TokenLeavesForAReason ==
  [][\A r \in Lost : LeavesForAReason(r) \/ \E p \in Fires : Acting(p, "logout")]_vars

\* jobs_def.py, of the scheduled logout: "the backfill that was interrupted at 03:00
\* resumes at the exact task the moment the user logs in".  A logout takes the token it
\* found, and the login that ends the interruption stays.
\* It does not hold: the login that lands while the logout is parking the jobs is
\* destroyed at its end, and the pipeline is parked again.
LogoutTakesWhatItFound ==
  [][\A r \in Lost :
       LeavesForAReason(r) \/ \E p \in Fires : Acting(p, "logout") /\ fire[p].left = 2]_vars

\* A job held for tomorrow is queued once the day is over, by the reset or by a
\* restart, while the reset is in place.
DeferredIsReleased ==
  "reset" \notin Edited =>
    \A j \in 1 .. MaxJobs :
      (j \in DOMAIN jobs /\ jobs[j].status = "deferred_budget" /\ jobs[j].on < Day(LastHalf))
        ~> (j \in DOMAIN jobs /\ jobs[j].status = "queued")

\* A token that has expired is not left standing as active: the health check, while
\* it is in place, parks the pipeline and asks for a login.
Overdue == \E r \in rows : Usable(r) /\ Expired(r, half) /\ r.exp + 1 < LastHalf
ExpiredIsParked == "health" \notin Edited => (Overdue ~> ~Overdue)

\* PIPELINE.md section 2.4: the nightly backfill "never spends more than
\* budget_reserve_fraction of the daily cap".
\* It does not hold: see "Stated in the modules" in the README.
ReserveKept == budget.swept <= Reserve

\* jobs.py: a job held for tomorrow "must stay parked" after "a restart inside the
\* same day".
\* It does not hold: see "Stated in the modules" in the README.
DeferredWaits ==
  \A j \in DOMAIN jobs :
    jobs[j].by = "user" /\ jobs[j].on = Day(half) => jobs[j].status = "deferred_budget"

\* There is one token anyone can use, and the one remembered is the one stored, whoever
\* logs in, clears, reloads or reports a refusal.
TokensSound == TypeOK /\ OneUsableToken /\ CacheIsCurrent

\* What was held back moves on: a job deferred for the day is queued again, a token that
\* ran out is parked before anyone meets its refusal again and again.
HeldBackMovesOn == DeferredIsReleased /\ ExpiredIsParked
=============================================================================
