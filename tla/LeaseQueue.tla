----------------------------- MODULE LeaseQueue -----------------------------
(***************************************************************************)
(* The two SQLite tables the download pipeline runs on, and every          *)
(* statement that changes them: pipeline/queue.py (class LeaseQueue), the  *)
(* job-row statements of pipeline/supervisor.py, pipeline/jobs.py and      *)
(* api/v1/broker.py, and the two task-row statements of the candle         *)
(* handler.  SQLite runs one writing transaction at a time, so a statement *)
(* (or the transaction around several) is one action.                      *)
(*                                                                         *)
(* A row of `task` keeps what the statements' WHERE clauses read: state,   *)
(* attempt, lease_owner and the two timestamps as the answer to the only   *)
(* question asked of them (backoff: not_before > now; lapsed:              *)
(* lease_expires_at < now).  Provenance columns and the request counters   *)
(* are left out.                                                           *)
(*                                                                         *)
(* Spec lets any owner issue any statement at any time, so what holds here *)
(* holds whatever the callers do.  Pipeline.tla uses the same actions in   *)
(* the order the dispatcher, the workers and the supervisor really issue   *)
(* them.                                                                   *)
(***************************************************************************)
EXTENDS Naturals, FiniteSets

CONSTANTS
  Tasks,          \* task ids, numbered in dispatch order (priority, job_id, seq)
  Jobs,           \* job ids
  JobOf,          \* the job_id column
  MaxAttempts,    \* the max_attempts column
  Owners,         \* lease owners: one string per dispatcher, that is per process run
  NoOwner         \* SQL NULL

ASSUME TasksAssumption == Tasks \subseteq Nat /\ IsFiniteSet(Tasks)
ASSUME JobOfAssumption == JobOf \in [Tasks -> Jobs]
ASSUME MaxAttemptsAssumption == MaxAttempts \in Nat \ {0}
ASSUME OwnersAssumption == NoOwner \notin Owners

VARIABLES
  task,           \* the task table
  job             \* the job table

tables == <<task, job>>

OpenStates == {"pending", "leased"}
OutcomeStates == {"done", "empty", "skipped"}        \* what TaskOutcome accepts
TerminalStates == OutcomeStates \cup {"failed", "cancelled"}
TaskStates == {"absent"} \cup OpenStates \cup TerminalStates

LeasableStatuses == {"queued", "running"}
ResumableStatuses == {"paused", "blocked_auth", "blocked_rate", "deferred_budget"}
FinalStatuses == {"completed", "completed_with_errors", "cancelled"}
JobStatuses == {"absent"} \cup LeasableStatuses \cup ResumableStatuses \cup FinalStatuses

TaskRow == [state : TaskStates, attempt : 0 .. MaxAttempts,
            owner : Owners \cup {NoOwner}, backoff : BOOLEAN, lapsed : BOOLEAN]
JobRow == [status : JobStatuses, cancel : BOOLEAN]

TypeOK ==
  /\ task \in [Tasks -> TaskRow]
  /\ job \in [Jobs -> JobRow]

TasksOf(j) == {t \in Tasks : JobOf[t] = j}

AbsentRow == [state |-> "absent", attempt |-> 0, owner |-> NoOwner,
              backoff |-> FALSE, lapsed |-> FALSE]

(* The lease columns cleared, the state set: what every statement that ends
   a lease writes. *)
Unleased(row, state) == [row EXCEPT !.state = state, !.owner = NoOwner, !.lapsed = FALSE]

SetState(rows, state) ==
  task' = [t \in Tasks |-> IF t \in rows THEN Unleased(task[t], state) ELSE task[t]]

Init ==
  /\ task = [t \in Tasks |-> AbsentRow]
  /\ job = [j \in Jobs |-> [status |-> "absent", cancel |-> FALSE]]

-----------------------------------------------------------------------------
(* Claiming. *)

Leasable(t) ==
  /\ task[t].state = "pending"
  /\ ~task[t].backoff
  /\ ~job[JobOf[t]].cancel
  /\ job[JobOf[t]].status \in LeasableStatuses

(* ORDER BY priority, job_id, seq LIMIT n *)
FirstOf(S, n) == {t \in S : Cardinality({u \in S : u < t}) < n}

LeaseWithoutJoin(limit) ==               \* mutant: the job row is not consulted
  FirstOf({t \in Tasks : task[t].state = "pending" /\ ~task[t].backoff}, limit)

LeaseSelection(limit) == FirstOf({t \in Tasks : Leasable(t)}, limit)

(* One transaction: the rows are claimed and their queued jobs promoted. *)
Lease(owner, limit) ==
  LET rows == LeaseSelection(limit)
  IN  /\ task' = [t \in Tasks |->
                    IF t \in rows
                      THEN [task[t] EXCEPT !.state = "leased", !.owner = owner, !.lapsed = FALSE]
                      ELSE task[t]]
      /\ job' = [j \in Jobs |->
                    IF job[j].status = "queued" /\ \E t \in rows : JobOf[t] = j
                      THEN [job[j] EXCEPT !.status = "running"]
                      ELSE job[j]]

-----------------------------------------------------------------------------
(* Completion: ack, the nacks and release touch a row only while it is
   leased to the owner that answers; otherwise the statement matches nothing. *)

Holds(owner, t) == task[t].state = "leased" /\ task[t].owner = owner

Ack(owner, t, outcome) ==
  /\ SetState({u \in {t} : Holds(owner, u)}, outcome)
  /\ UNCHANGED job

Charged(row) ==
  [Unleased(row, IF row.attempt + 1 >= MaxAttempts THEN "failed" ELSE "pending")
     EXCEPT !.attempt = row.attempt + 1, !.backoff = TRUE]

NackTransient(owner, t) ==
  /\ task' = IF Holds(owner, t) THEN [task EXCEPT ![t] = Charged(task[t])] ELSE task
  /\ UNCHANGED job

NackFatal(owner, t) ==
  /\ SetState({u \in {t} : Holds(owner, u)}, "failed")
  /\ UNCHANGED job

ParkCharged(owner, t) ==                 \* mutant: a park counts as a failure
  /\ task' = IF Holds(owner, t) THEN [task EXCEPT ![t] = Charged(task[t])] ELSE task
  /\ UNCHANGED job

(* nack_auth and nack_rate: back to pending, attempt untouched. *)
Park(owner, t) ==
  /\ SetState({u \in {t} : Holds(owner, u)}, "pending")
  /\ UNCHANGED job

Release(owner, rows) ==
  /\ SetState({t \in rows : Holds(owner, t)}, "pending")
  /\ UNCHANGED job

ReleaseAll(owner) == Release(owner, Tasks)

ReclaimKeepingOwner ==                   \* mutant: lease_owner left behind
  /\ task' = [t \in Tasks |-> IF task[t].state = "leased" /\ task[t].lapsed
                                THEN [task[t] EXCEPT !.state = "pending", !.lapsed = FALSE]
                                ELSE task[t]]
  /\ UNCHANGED job

ReclaimNothing ==                        \* mutant: lapsed rows stay leased
  UNCHANGED tables

ReclaimExpiredLeases ==
  /\ SetState({t \in Tasks : task[t].state = "leased" /\ task[t].lapsed}, "pending")
  /\ UNCHANGED job

CancelEverything(j) ==                   \* mutant: no "AND state = 'pending'"
  /\ SetState({t \in TasksOf(j) : task[t].state # "absent"}, "cancelled")
  /\ UNCHANGED job

CancelPending(j) ==
  /\ SetState({t \in TasksOf(j) : task[t].state = "pending"}, "cancelled")
  /\ UNCHANGED job

IsFinishedByPending(j) == \A t \in TasksOf(j) : task[t].state # "pending"   \* mutant

(* JobAggregate: the fresh GROUP BY a settle decides on. *)
IsFinished(j) == \A t \in TasksOf(j) : task[t].state \notin OpenStates

TerminalStatusOptimist(j) == IF job[j].cancel THEN "cancelled" ELSE "completed"  \* mutant

TerminalStatus(j) ==
  IF job[j].cancel THEN "cancelled"
  ELSE IF \E t \in TasksOf(j) : task[t].state = "failed" THEN "completed_with_errors"
  ELSE "completed"

-----------------------------------------------------------------------------
(* The candle handler's own statements on the table. *)

(* _skip_older_chunks: some of a job's pending rows are known to be empty. *)
SkipOlder(j, rows) ==
  /\ rows \subseteq {t \in TasksOf(j) : task[t].state = "pending"}
  /\ SetState(rows, "skipped")
  /\ UNCHANGED job

(* _insert_followup: the next older window becomes a row of the same job. *)
InsertFollowup(t) ==
  /\ task[t].state = "absent"
  /\ job[JobOf[t]].status # "absent"
  /\ SetState({t}, "pending")
  /\ UNCHANGED job

-----------------------------------------------------------------------------
(* Job rows: jobs.py, supervisor.py, broker.py. *)

SetJobs(S, status) ==
  job' = [j \in Jobs |-> IF j \in S THEN [job[j] EXCEPT !.status = status] ELSE job[j]]

JobsIn(statuses) == {j \in Jobs : job[j].status \in statuses}

(* JobService._commit: the job and its first rows in one transaction. *)
CommitJob(j, status, rows) ==
  /\ job[j].status = "absent"
  /\ status \in {"queued", "deferred_budget"}
  /\ rows \subseteq {t \in TasksOf(j) : task[t].state = "absent"}
  /\ SetState(rows, "pending")
  /\ SetJobs({j}, status)

RequestCancel(j) ==
  /\ job[j].status # "absent"
  /\ job' = [job EXCEPT ![j].cancel = TRUE]
  /\ UNCHANGED task

PauseJob(j) ==
  /\ SetJobs({j} \cap JobsIn(LeasableStatuses), "paused")
  /\ UNCHANGED task

(* JobService.resume's UPDATE names the job and nothing else. *)
ResumeJob(j) ==
  /\ job[j].status # "absent"
  /\ SetJobs({j}, "queued")
  /\ UNCHANGED task

ParkJobs(status) ==
  /\ SetJobs(JobsIn(LeasableStatuses), status)
  /\ UNCHANGED task

(* PipelineSupervisor._unpark_jobs skips a job asked to cancel ... *)
UnparkJobs(status) ==
  /\ SetJobs({j \in JobsIn({status}) : ~job[j].cancel}, "queued")
  /\ UNCHANGED task

(* ... while the login callback's resume_jobs_after_login does not. *)
ResumeJobsAfterLogin ==
  /\ SetJobs(JobsIn({"blocked_auth"}), "queued")
  /\ UNCHANGED task

FinishJob(j, status) ==
  /\ job[j].status # "absent"
  /\ SetJobs({j}, status)
  /\ UNCHANGED task

(* reclaim_and_recover, before anything else of a new process runs: lapsed
   leases are returned and running jobs wait for the user. *)
ReclaimAndRecover ==
  /\ SetState({t \in Tasks : task[t].state = "leased" /\ task[t].lapsed}, "pending")
  /\ SetJobs(JobsIn({"running"}), "paused")

(* created_at's date is before today for the jobs in S. *)
RollDeferredBudgetJobs(S) ==
  /\ SetJobs(S \cap JobsIn({"deferred_budget"}), "queued")
  /\ UNCHANGED task

-----------------------------------------------------------------------------
(* Time: a lease runs out, a back-off ends. *)

LeaseLapses(t) ==
  /\ task[t].state = "leased" /\ ~task[t].lapsed
  /\ task' = [task EXCEPT ![t].lapsed = TRUE]
  /\ UNCHANGED job

BackoffEnds(t) ==
  /\ task[t].state = "pending" /\ task[t].backoff
  /\ task' = [task EXCEPT ![t].backoff = FALSE]
  /\ UNCHANGED job

-----------------------------------------------------------------------------
QueueStatement ==
  \/ \E o \in Owners, n \in 0 .. Cardinality(Tasks) : Lease(o, n)
  \/ \E o \in Owners, t \in Tasks :
        \/ \E outcome \in OutcomeStates : Ack(o, t, outcome)
        \/ NackTransient(o, t)
        \/ NackFatal(o, t)
        \/ Park(o, t)
  \/ \E o \in Owners, rows \in SUBSET Tasks : Release(o, rows)
  \/ \E o \in Owners : ReleaseAll(o)
  \/ ReclaimExpiredLeases
  \/ \E j \in Jobs : job[j].cancel /\ CancelPending(j)  \* both callers raise the flag first
  \/ \E j \in Jobs, rows \in SUBSET Tasks : SkipOlder(j, rows)
  \/ \E t \in Tasks : InsertFollowup(t)

JobStatement ==
  \/ \E j \in Jobs, status \in JobStatuses, rows \in SUBSET Tasks : CommitJob(j, status, rows)
  \/ \E j \in Jobs : RequestCancel(j) \/ PauseJob(j) \/ ResumeJob(j)
  \/ \E status \in {"blocked_auth", "blocked_rate"} : ParkJobs(status) \/ UnparkJobs(status)
  \/ ResumeJobsAfterLogin
  \/ \E j \in Jobs, status \in FinalStatuses : FinishJob(j, status)
  \/ \E S \in SUBSET Jobs : RollDeferredBudgetJobs(S)

TimePasses == \E t \in Tasks : LeaseLapses(t) \/ BackoffEnds(t)

Next == QueueStatement \/ JobStatement \/ ReclaimAndRecover \/ TimePasses

Spec == Init /\ [][Next]_tables

-----------------------------------------------------------------------------
(* The lease columns and the state column never disagree: a row carries an
   owner exactly while it is leased, only a leased row can have lapsed, and a
   row still backing off is never leased.  Without the first a late ack could
   match a row that was handed back. *)
LeaseShape ==
  \A t \in Tasks :
    /\ task[t].owner # NoOwner <=> task[t].state = "leased"
    /\ task[t].lapsed => task[t].state = "leased"
    /\ task[t].backoff => task[t].state # "leased"

(* A row that can still be attempted has an attempt left, whatever mix of
   failures, parks, releases and reclaims it went through: no row is retried
   beyond its budget and none is open with its budget spent. *)
AttemptBudget ==
  \A t \in Tasks : task[t].state \in OpenStates => task[t].attempt < MaxAttempts

(* A row not yet committed carries no attempt: it will be committed as pending. *)
AbsentIsFresh == \A t \in Tasks : task[t].state = "absent" => task[t].attempt = 0

(* What every statement finds and leaves: the tables well typed, leases whole or
   absent, no attempt beyond the budget.  Inductive. *)
LeaseInv == TypeOK /\ LeaseShape /\ AttemptBudget /\ AbsentIsFresh

(* The tables implement the ledger: one outcome per row, charged attempts
   only ever grow one failure at a time, cancelled only on request. *)
Ledger == INSTANCE TaskLedger WITH
  fate <- [t \in Tasks |-> IF task[t].state \in OpenStates THEN "open" ELSE task[t].state],
  charged <- [t \in Tasks |-> task[t].attempt],
  stopping <- {j \in Jobs : job[j].cancel}

ImplementsLedger == Ledger!LedgerSpec

(* A claim never overtakes: when a row is leased, its job is live and not
   cancelled, and no row that was runnable and ahead of it in dispatch order
   is left behind. *)
ClaimsInOrder ==
  [][\A t \in Tasks : task[t].state # "leased" /\ task'[t].state = "leased" =>
        /\ job[JobOf[t]].status \in LeasableStatuses /\ ~job[JobOf[t]].cancel
        /\ \A u \in Tasks : u < t /\ Leasable(u) => task'[u].state = "leased"]_tables

=============================================================================
