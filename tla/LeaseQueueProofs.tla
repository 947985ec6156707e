-------------------------- MODULE LeaseQueueProofs --------------------------
(***************************************************************************)
(* Theorems about LeaseQueue for every set of tasks, jobs and owners and   *)
(* every retry budget: the type invariant, the shape of a lease, the       *)
(* attempt budget, that the tables implement TaskLedger, and that a claim  *)
(* never overtakes a row ahead of it.                                      *)
(*                                                                         *)
(* AttemptBudget alone is not inductive: a row is committed as pending, so *)
(* a row that does not exist yet must not carry attempts.  LeaseInv adds   *)
(* that.  Most statements change the task table through SetState; the      *)
(* first lemmas say field by field what SetState and Lease write, and the  *)
(* invariant and the refinement are argued from the fields.                *)
(***************************************************************************)
EXTENDS LeaseQueue, FiniteSetTheorems, TLAPS

-----------------------------------------------------------------------------
(* What SetState writes: the state and the lease columns of the rows named,
   nothing else. *)
LEMMA SetStateFields ==
  ASSUME TypeOK, NEW rows, NEW state \in TaskStates, SetState(rows, state)
  PROVE  /\ task' \in [Tasks -> TaskRow]
         /\ \A t \in Tasks :
              /\ task'[t].attempt = task[t].attempt
              /\ task'[t].backoff = task[t].backoff
              /\ t \in rows => /\ task'[t].state = state
                               /\ task'[t].owner = NoOwner
                               /\ task'[t].lapsed = FALSE
              /\ t \notin rows => task'[t] = task[t]
<1>1. ASSUME NEW t \in Tasks PROVE Unleased(task[t], state) \in TaskRow
  BY DEF TypeOK, Unleased, TaskRow
<1>2. task' \in [Tasks -> TaskRow]
  BY <1>1 DEF SetState, TypeOK
<1>3. ASSUME NEW t \in Tasks, t \in rows
      PROVE  /\ task'[t].attempt = task[t].attempt
             /\ task'[t].backoff = task[t].backoff
             /\ task'[t].state = state
             /\ task'[t].owner = NoOwner
             /\ task'[t].lapsed = FALSE
  <2>1. task[t] \in TaskRow
    BY DEF TypeOK
  <2>2. task'[t] = Unleased(task[t], state)
    BY <1>3 DEF SetState
  <2> QED
    BY <2>1, <2>2 DEF Unleased, TaskRow
<1>4. ASSUME NEW t \in Tasks, t \notin rows PROVE task'[t] = task[t]
  BY <1>4 DEF SetState
<1> QED
  BY <1>2, <1>3, <1>4

(* SetJobs writes the status of the jobs named and no cancel flag. *)
LEMMA SetJobsFields ==
  ASSUME TypeOK, NEW S, NEW status \in JobStatuses, SetJobs(S, status)
  PROVE  /\ job' \in [Jobs -> JobRow]
         /\ \A j \in Jobs : job'[j].cancel = job[j].cancel
<1>1. ASSUME NEW j \in Jobs
      PROVE  /\ [job[j] EXCEPT !.status = status] \in JobRow
             /\ [job[j] EXCEPT !.status = status].cancel = job[j].cancel
  BY DEF TypeOK, JobRow
<1> QED
  BY <1>1 DEF SetJobs, TypeOK

(* A step of SetState preserves the invariant when it opens no row whose
   attempts are spent and leases none. *)
LEMMA SetStateInv ==
  ASSUME LeaseInv, NEW rows, NEW state \in TaskStates \ {"absent", "leased"},
         SetState(rows, state),
         state = "pending" => \A t \in rows \cap Tasks : task[t].attempt < MaxAttempts
  PROVE  /\ task' \in [Tasks -> TaskRow]
         /\ LeaseShape' /\ AttemptBudget' /\ AbsentIsFresh'
<1> USE DEF LeaseInv
<1>1. state \in TaskStates /\ TypeOK
  OBVIOUS
<1>2. /\ task' \in [Tasks -> TaskRow]
      /\ \A t \in Tasks :
           /\ task'[t].attempt = task[t].attempt
           /\ task'[t].backoff = task[t].backoff
           /\ t \in rows => /\ task'[t].state = state
                            /\ task'[t].owner = NoOwner
                            /\ task'[t].lapsed = FALSE
           /\ t \notin rows => task'[t] = task[t]
  BY <1>1, SetStateFields
<1>3. LeaseShape'
  BY <1>2 DEF LeaseShape
<1>4. AttemptBudget'
  BY <1>2 DEF AttemptBudget, OpenStates
<1>5. AbsentIsFresh'
  BY <1>2 DEF AbsentIsFresh
<1> QED
  BY <1>2, <1>3, <1>4, <1>5

(* The table of tasks is untouched, or the step is of no interest to it. *)
LEMMA JobStepInv ==
  ASSUME LeaseInv, UNCHANGED task, job' \in [Jobs -> JobRow]
  PROVE  LeaseInv'
BY DEF LeaseInv, TypeOK, LeaseShape, AttemptBudget, AbsentIsFresh

(* A claim turns pending rows into leased ones of the claiming owner. *)
LEMMA LeaseFields ==
  ASSUME TypeOK, NEW owner \in Owners, NEW limit, Lease(owner, limit)
  PROVE  /\ task' \in [Tasks -> TaskRow]
         /\ job' \in [Jobs -> JobRow]
         /\ \A j \in Jobs : job'[j].cancel = job[j].cancel
         /\ \A t \in Tasks :
              \/ task'[t] = task[t]
              \/ /\ task[t].state = "pending" /\ task[t].backoff = FALSE
                 /\ task'[t].state = "leased" /\ task'[t].owner = owner
                 /\ task'[t].attempt = task[t].attempt
                 /\ task'[t].backoff = FALSE /\ task'[t].lapsed = FALSE
<1> DEFINE rows == LeaseSelection(limit)
<1>1. ASSUME NEW t \in rows
      PROVE  t \in Tasks /\ task[t].state = "pending" /\ task[t].backoff = FALSE
  <2>1. t \in Tasks /\ Leasable(t)
    BY DEF LeaseSelection, FirstOf
  <2> QED
    BY <2>1 DEF Leasable, TypeOK, TaskRow
<1>2. ASSUME NEW t \in Tasks
      PROVE  LET row == [task[t] EXCEPT !.state = "leased", !.owner = owner, !.lapsed = FALSE]
             IN  /\ row \in TaskRow
                 /\ row.state = "leased" /\ row.owner = owner /\ row.lapsed = FALSE
                 /\ row.attempt = task[t].attempt /\ row.backoff = task[t].backoff
  BY DEF TypeOK, TaskRow, TaskStates, OpenStates
<1>3. ASSUME NEW j \in Jobs
      PROVE  /\ [job[j] EXCEPT !.status = "running"] \in JobRow
             /\ [job[j] EXCEPT !.status = "running"].cancel = job[j].cancel
  BY DEF TypeOK, JobRow, JobStatuses, LeasableStatuses
<1>4. /\ task' = [t \in Tasks |->
                   IF t \in rows
                     THEN [task[t] EXCEPT !.state = "leased", !.owner = owner, !.lapsed = FALSE]
                     ELSE task[t]]
      /\ job' = [j \in Jobs |->
                   IF job[j].status = "queued" /\ \E t \in rows : JobOf[t] = j
                     THEN [job[j] EXCEPT !.status = "running"]
                     ELSE job[j]]
  BY DEF Lease
<1> HIDE DEF rows
<1>5. task' \in [Tasks -> TaskRow]
  BY <1>2, <1>4 DEF TypeOK
<1>6. job' \in [Jobs -> JobRow] /\ \A j \in Jobs : job'[j].cancel = job[j].cancel
  BY <1>3, <1>4 DEF TypeOK
<1>7. ASSUME NEW t \in Tasks, t \notin rows PROVE task'[t] = task[t]
  BY <1>4, <1>7
<1>8. ASSUME NEW t \in Tasks, t \in rows
      PROVE  /\ task[t].state = "pending" /\ task[t].backoff = FALSE
             /\ task'[t].state = "leased" /\ task'[t].owner = owner
             /\ task'[t].attempt = task[t].attempt
             /\ task'[t].backoff = FALSE /\ task'[t].lapsed = FALSE
  <2>1. task'[t] = [task[t] EXCEPT !.state = "leased", !.owner = owner, !.lapsed = FALSE]
    BY <1>4, <1>8
  <2> QED
    BY <1>1, <1>2, <1>8, <2>1
<1> QED
  BY <1>5, <1>6, <1>7, <1>8

(* A transient failure charges one attempt to a row its owner holds, and the
   last attempt fails the row; for anybody else the statement matches nothing. *)
LEMMA NackTransientFields ==
  ASSUME TypeOK, AttemptBudget, NEW owner \in Owners, NEW t \in Tasks, NackTransient(owner, t)
  PROVE  \/ task' = task
         \/ /\ task[t].state = "leased"
            /\ task' \in [Tasks -> TaskRow]
            /\ \A u \in Tasks \ {t} : task'[u] = task[u]
            /\ task'[t].attempt = task[t].attempt + 1
            /\ task'[t].owner = NoOwner /\ task'[t].lapsed = FALSE
            /\ task'[t].state = IF task[t].attempt + 1 = MaxAttempts THEN "failed" ELSE "pending"
<1> DEFINE state == IF task[t].attempt + 1 >= MaxAttempts THEN "failed" ELSE "pending"
           row == Charged(task[t])
<1>1. CASE ~Holds(owner, t)
  BY <1>1 DEF NackTransient
<1>2. CASE Holds(owner, t)
  <2>1. /\ task[t] \in TaskRow /\ task[t].attempt \in 0 .. MaxAttempts
        /\ task[t].state = "leased" /\ MaxAttempts \in Nat
    BY <1>2, MaxAttemptsAssumption DEF TypeOK, TaskRow, Holds
  <2>2. task[t].attempt < MaxAttempts
    BY <2>1 DEF AttemptBudget, OpenStates
  <2>3. state \in TaskStates
    BY DEF TaskStates, OpenStates, TerminalStates
  <2>4. /\ row \in TaskRow
        /\ row.attempt = task[t].attempt + 1 /\ row.state = state
        /\ row.owner = NoOwner /\ row.lapsed = FALSE
    <3>1. task[t].attempt + 1 \in 0 .. MaxAttempts
      BY <2>1, <2>2
    <3>2. row = [Unleased(task[t], state) EXCEPT !.attempt = task[t].attempt + 1, !.backoff = TRUE]
      BY DEF Charged
    <3> HIDE DEF state, row
    <3> QED
      BY <2>1, <2>3, <3>1, <3>2 DEF Unleased, TaskRow
  <2>5. state = IF task[t].attempt + 1 = MaxAttempts THEN "failed" ELSE "pending"
    BY <2>1, <2>2
  <2>6. task' = [task EXCEPT ![t] = row]
    BY <1>2 DEF NackTransient
  <2> HIDE DEF row, state
  <2>7. /\ task' \in [Tasks -> TaskRow] /\ task'[t] = row
        /\ \A u \in Tasks \ {t} : task'[u] = task[u]
    BY <2>4, <2>6 DEF TypeOK
  <2> QED
    BY <2>1, <2>4, <2>5, <2>7
<1> QED
  BY <1>1, <1>2

-----------------------------------------------------------------------------
(* The invariant, one statement after the other. *)

(* Empty tables satisfy the invariant. *)
LEMMA InitInv == Init => LeaseInv
<1> SUFFICES ASSUME Init PROVE LeaseInv
  OBVIOUS
<1>1. AbsentRow \in TaskRow
  BY MaxAttemptsAssumption DEF AbsentRow, TaskRow, TaskStates
<1>2. /\ AbsentRow.state = "absent" /\ AbsentRow.attempt = 0 /\ AbsentRow.owner = NoOwner
      /\ AbsentRow.lapsed = FALSE /\ AbsentRow.backoff = FALSE
  BY DEF AbsentRow
<1>3. TypeOK
  BY <1>1 DEF Init, TypeOK, JobRow, JobStatuses
<1>4. \A t \in Tasks : task[t] = AbsentRow
  BY DEF Init
<1> QED
  BY <1>2, <1>3, <1>4 DEF LeaseInv, LeaseShape, AttemptBudget, AbsentIsFresh, OpenStates

(* The statements that leave the job table alone and go through SetState. *)
LEMMA TaskStepInv ==
  ASSUME LeaseInv, NEW rows, NEW state \in TaskStates \ {"absent", "leased"},
         SetState(rows, state), job' = job,
         state = "pending" => \A t \in rows \cap Tasks : task[t].attempt < MaxAttempts
  PROVE  LeaseInv'
<1>1. /\ task' \in [Tasks -> TaskRow]
      /\ LeaseShape' /\ AttemptBudget' /\ AbsentIsFresh'
  BY SetStateInv
<1> QED
  BY <1>1 DEF LeaseInv, TypeOK

(* A claim keeps the invariant. *)
LEMMA LeaseInvariant ==
  ASSUME LeaseInv, NEW owner \in Owners, NEW limit, Lease(owner, limit)
  PROVE  LeaseInv'
<1>1. /\ task' \in [Tasks -> TaskRow]
      /\ job' \in [Jobs -> JobRow]
      /\ \A t \in Tasks :
           \/ task'[t] = task[t]
           \/ /\ task[t].state = "pending" /\ task[t].backoff = FALSE
              /\ task'[t].state = "leased" /\ task'[t].owner = owner
              /\ task'[t].attempt = task[t].attempt
              /\ task'[t].backoff = FALSE /\ task'[t].lapsed = FALSE
  BY LeaseFields DEF LeaseInv
<1>2. LeaseShape'
  BY <1>1, OwnersAssumption DEF LeaseInv, LeaseShape
<1>3. AttemptBudget' /\ AbsentIsFresh'
  BY <1>1 DEF LeaseInv, AttemptBudget, AbsentIsFresh, OpenStates
<1> QED
  BY <1>1, <1>2, <1>3 DEF LeaseInv, TypeOK

(* A charge fails the row that has no attempt left, and reopens the others. *)
LEMMA NackTransientInvariant ==
  ASSUME LeaseInv, NEW owner \in Owners, NEW t \in Tasks, NackTransient(owner, t)
  PROVE  LeaseInv'
<1>1. job' = job
  BY DEF NackTransient
<1>2. CASE task' = task
  BY <1>1, <1>2, JobStepInv DEF LeaseInv, TypeOK
<1>3. CASE task' # task
  <2>1. /\ task[t].state = "leased"
        /\ task' \in [Tasks -> TaskRow]
        /\ \A u \in Tasks \ {t} : task'[u] = task[u]
        /\ task'[t].attempt = task[t].attempt + 1
        /\ task'[t].owner = NoOwner /\ task'[t].lapsed = FALSE
        /\ task'[t].state = IF task[t].attempt + 1 = MaxAttempts THEN "failed" ELSE "pending"
    BY <1>3, NackTransientFields DEF LeaseInv
  <2>2. LeaseShape'
    BY <2>1 DEF LeaseInv, LeaseShape
  <2>3. /\ task[t].attempt \in Nat /\ MaxAttempts \in Nat
        /\ task[t].attempt < MaxAttempts
    BY <2>1, MaxAttemptsAssumption DEF LeaseInv, TypeOK, TaskRow, AttemptBudget, OpenStates
  <2>4. AttemptBudget'
    BY <2>1, <2>3 DEF LeaseInv, AttemptBudget, OpenStates
  <2>5. AbsentIsFresh'
    BY <2>1 DEF LeaseInv, AbsentIsFresh
  <2> QED
    BY <1>1, <2>1, <2>2, <2>4, <2>5 DEF LeaseInv, TypeOK
<1> QED
  BY <1>2, <1>3

(* Every statement of queue.py keeps the invariant. *)
LEMMA QueueStatementInv == LeaseInv /\ QueueStatement => LeaseInv'
<1> SUFFICES ASSUME LeaseInv, QueueStatement PROVE LeaseInv'
  OBVIOUS
<1>a. {"done", "empty", "skipped", "failed", "pending", "cancelled"}
        \subseteq TaskStates \ {"absent", "leased"}
  BY DEF TaskStates, OpenStates, TerminalStates, OutcomeStates
<1>b. \A t \in Tasks : task[t].state \in OpenStates => task[t].attempt < MaxAttempts
  BY DEF LeaseInv, AttemptBudget
<1>1. ASSUME NEW o \in Owners, NEW n, Lease(o, n) PROVE LeaseInv'
  BY <1>1, LeaseInvariant
<1>2. ASSUME NEW o \in Owners, NEW t \in Tasks, NEW outcome \in OutcomeStates, Ack(o, t, outcome)
      PROVE  LeaseInv'
  <2>1. outcome \in TaskStates \ {"absent", "leased"} /\ outcome # "pending"
    BY <1>a DEF OutcomeStates
  <2> QED
    BY <1>2, <2>1, TaskStepInv DEF Ack
<1>3. ASSUME NEW o \in Owners, NEW t \in Tasks, NackTransient(o, t) PROVE LeaseInv'
  BY <1>3, NackTransientInvariant
<1>4. ASSUME NEW o \in Owners, NEW t \in Tasks, NackFatal(o, t) PROVE LeaseInv'
  BY <1>4, <1>a, TaskStepInv DEF NackFatal
<1>5. ASSUME NEW o \in Owners, NEW t \in Tasks, Park(o, t) PROVE LeaseInv'
  <2>1. \A u \in {u \in {t} : Holds(o, u)} \cap Tasks : task[u].attempt < MaxAttempts
    BY <1>b DEF Holds, OpenStates
  <2> QED
    BY <1>5, <1>a, <2>1, TaskStepInv DEF Park
<1>6. ASSUME NEW o \in Owners, NEW rows, Release(o, rows) PROVE LeaseInv'
  <2>1. \A u \in {u \in rows : Holds(o, u)} \cap Tasks : task[u].attempt < MaxAttempts
    BY <1>b DEF Holds, OpenStates
  <2> QED
    BY <1>6, <1>a, <2>1, TaskStepInv DEF Release
<1>7. ASSUME ReclaimExpiredLeases PROVE LeaseInv'
  <2>1. \A u \in {t \in Tasks : task[t].state = "leased" /\ task[t].lapsed} \cap Tasks :
          task[u].attempt < MaxAttempts
    BY <1>b DEF OpenStates
  <2> QED
    BY <1>7, <1>a, <2>1, TaskStepInv DEF ReclaimExpiredLeases
<1>8. ASSUME NEW j \in Jobs, CancelPending(j) PROVE LeaseInv'
  BY <1>8, <1>a, TaskStepInv DEF CancelPending
<1>9. ASSUME NEW j \in Jobs, NEW rows \in SUBSET Tasks, SkipOlder(j, rows) PROVE LeaseInv'
  BY <1>9, <1>a, TaskStepInv DEF SkipOlder
<1>10. ASSUME NEW t \in Tasks, InsertFollowup(t) PROVE LeaseInv'
  <2>1. \A u \in {t} \cap Tasks : task[u].attempt < MaxAttempts
    BY <1>10, MaxAttemptsAssumption DEF InsertFollowup, LeaseInv, AbsentIsFresh
  <2> QED
    BY <1>10, <1>a, <2>1, TaskStepInv DEF InsertFollowup
<1> QED
  BY <1>1, <1>2, <1>3, <1>4, <1>5, <1>6, <1>7, <1>8, <1>9, <1>10 DEF QueueStatement, ReleaseAll

(* Every statement on job rows keeps the invariant. *)
LEMMA JobStatementInv == LeaseInv /\ JobStatement => LeaseInv'
<1> SUFFICES ASSUME LeaseInv, JobStatement PROVE LeaseInv'
  OBVIOUS
<1>1. ASSUME NEW S, NEW status \in JobStatuses, SetJobs(S, status), UNCHANGED task
      PROVE  LeaseInv'
  BY <1>1, SetJobsFields, JobStepInv DEF LeaseInv
<1>2. LeasableStatuses \cup ResumableStatuses \cup FinalStatuses \subseteq JobStatuses
  BY DEF JobStatuses
<1>3. ASSUME NEW j \in Jobs, NEW status \in JobStatuses, NEW rows \in SUBSET Tasks,
             CommitJob(j, status, rows)
      PROVE  LeaseInv'
  <2>1. \A t \in rows \cap Tasks : task[t].attempt < MaxAttempts
    BY <1>3, MaxAttemptsAssumption DEF CommitJob, LeaseInv, AbsentIsFresh
  <2>2. "pending" \in TaskStates \ {"absent", "leased"}
    BY DEF TaskStates, OpenStates
  <2>3. SetState(rows, "pending") /\ SetJobs({j}, status)
    BY <1>3 DEF CommitJob
  <2>4. task' \in [Tasks -> TaskRow] /\ LeaseShape' /\ AttemptBudget' /\ AbsentIsFresh'
    BY <2>1, <2>2, <2>3, SetStateInv
  <2>5. job' \in [Jobs -> JobRow]
    BY <2>3, SetJobsFields DEF LeaseInv
  <2> QED
    BY <2>4, <2>5 DEF LeaseInv, TypeOK
<1>4. ASSUME NEW j \in Jobs, RequestCancel(j) PROVE LeaseInv'
  <2>1. [job[j] EXCEPT !.cancel = TRUE] \in JobRow
    BY DEF LeaseInv, TypeOK, JobRow
  <2>2. job' = [job EXCEPT ![j] = [job[j] EXCEPT !.cancel = TRUE]] /\ task' = task
    BY <1>4 DEF RequestCancel
  <2> QED
    BY <2>1, <2>2, JobStepInv DEF LeaseInv, TypeOK
<1>5. ASSUME NEW j \in Jobs, PauseJob(j) \/ ResumeJob(j) PROVE LeaseInv'
  BY <1>1, <1>2, <1>5 DEF PauseJob, ResumeJob, LeasableStatuses, ResumableStatuses
<1>6. ASSUME NEW status \in {"blocked_auth", "blocked_rate"}, ParkJobs(status) \/ UnparkJobs(status)
      PROVE  LeaseInv'
  BY <1>1, <1>2, <1>6 DEF ParkJobs, UnparkJobs, LeasableStatuses, ResumableStatuses
<1>7. ASSUME ResumeJobsAfterLogin PROVE LeaseInv'
  BY <1>1, <1>2, <1>7 DEF ResumeJobsAfterLogin, LeasableStatuses
<1>8. ASSUME NEW j \in Jobs, NEW status \in FinalStatuses, FinishJob(j, status) PROVE LeaseInv'
  BY <1>1, <1>2, <1>8 DEF FinishJob
<1>9. ASSUME NEW S \in SUBSET Jobs, RollDeferredBudgetJobs(S) PROVE LeaseInv'
  BY <1>1, <1>2, <1>9 DEF RollDeferredBudgetJobs, LeasableStatuses
<1> QED
  BY <1>3, <1>4, <1>5, <1>6, <1>7, <1>8, <1>9 DEF JobStatement

(* The recovery at start-up keeps the invariant. *)
LEMMA RecoverInv == LeaseInv /\ ReclaimAndRecover => LeaseInv'
<1> SUFFICES ASSUME LeaseInv, ReclaimAndRecover PROVE LeaseInv'
  OBVIOUS
<1> DEFINE rows == {t \in Tasks : task[t].state = "leased" /\ task[t].lapsed}
<1>1. \A t \in rows \cap Tasks : task[t].attempt < MaxAttempts
  BY DEF LeaseInv, AttemptBudget, OpenStates
<1>2. SetState(rows, "pending") /\ SetJobs(JobsIn({"running"}), "paused")
  BY DEF ReclaimAndRecover
<1>3. "pending" \in TaskStates \ {"absent", "leased"} /\ "paused" \in JobStatuses
  BY DEF TaskStates, OpenStates, JobStatuses, ResumableStatuses
<1> HIDE DEF rows
<1>4. task' \in [Tasks -> TaskRow] /\ LeaseShape' /\ AttemptBudget' /\ AbsentIsFresh'
  BY <1>1, <1>2, <1>3, SetStateInv
<1>5. job' \in [Jobs -> JobRow]
  BY <1>2, <1>3, SetJobsFields DEF LeaseInv
<1> QED
  BY <1>4, <1>5 DEF LeaseInv, TypeOK

(* Lapsing leases and ending back-offs keep the invariant. *)
LEMMA TimePassesInv == LeaseInv /\ TimePasses => LeaseInv'
<1> SUFFICES ASSUME LeaseInv, NEW t \in Tasks, LeaseLapses(t) \/ BackoffEnds(t) PROVE LeaseInv'
  BY DEF TimePasses
<1>1. PICK row \in TaskRow :
        /\ task' = [task EXCEPT ![t] = row] /\ job' = job
        /\ row.state = task[t].state /\ row.attempt = task[t].attempt /\ row.owner = task[t].owner
        /\ row.lapsed => task[t].lapsed \/ task[t].state = "leased"
        /\ row.backoff => task[t].backoff
  <2>1. CASE LeaseLapses(t)
    <3>1. [task[t] EXCEPT !.lapsed = TRUE] \in TaskRow
      BY DEF LeaseInv, TypeOK, TaskRow
    <3> QED
      BY <2>1, <3>1 DEF LeaseLapses, TaskRow, LeaseInv, TypeOK
  <2>2. CASE BackoffEnds(t)
    <3>1. [task[t] EXCEPT !.backoff = FALSE] \in TaskRow
      BY DEF LeaseInv, TypeOK, TaskRow
    <3> QED
      BY <2>2, <3>1 DEF BackoffEnds, TaskRow, LeaseInv, TypeOK
  <2> QED
    BY <2>1, <2>2
<1>2. /\ task' \in [Tasks -> TaskRow] /\ task'[t] = row
      /\ \A u \in Tasks \ {t} : task'[u] = task[u]
  BY <1>1 DEF LeaseInv, TypeOK
<1>3. LeaseShape'
  BY <1>1, <1>2 DEF LeaseInv, LeaseShape
<1>4. AttemptBudget' /\ AbsentIsFresh'
  BY <1>1, <1>2 DEF LeaseInv, AttemptBudget, AbsentIsFresh
<1> QED
  BY <1>1, <1>2, <1>3, <1>4 DEF LeaseInv, TypeOK

(* LeaseInv is preserved by every statement, whoever issues it and whenever. *)
THEOREM LeaseInvInductive == LeaseInv /\ [Next]_tables => LeaseInv'
<1>1. LeaseInv /\ Next => LeaseInv'
  BY QueueStatementInv, JobStatementInv, RecoverInv, TimePassesInv DEF Next
<1>2. LeaseInv /\ UNCHANGED tables => LeaseInv'
  BY DEF LeaseInv, TypeOK, LeaseShape, AttemptBudget, AbsentIsFresh, tables
<1> QED
  BY <1>1, <1>2

(* The strengthened invariant holds of the tables at all times. *)
THEOREM LeaseInvAlways == Spec => []LeaseInv
BY InitInv, LeaseInvInductive, PTL DEF Spec

(* The two tables keep their types. *)
THEOREM TypeCorrect == Spec => []TypeOK
<1>1. LeaseInv => TypeOK
  BY DEF LeaseInv
<1> QED
  BY <1>1, LeaseInvAlways, PTL

(* A row carries an owner exactly while it is leased; nothing that is not
   leased can lapse; nothing that is leased is backing off. *)
THEOREM LeaseShapeAlways == Spec => []LeaseShape
<1>1. LeaseInv => LeaseShape
  BY DEF LeaseInv
<1> QED
  BY <1>1, LeaseInvAlways, PTL

(* A row that can still be attempted has an attempt left, for every budget. *)
THEOREM AttemptBudgetAlways == Spec => []AttemptBudget
<1>1. LeaseInv => AttemptBudget
  BY DEF LeaseInv
<1> QED
  BY <1>1, LeaseInvAlways, PTL

-----------------------------------------------------------------------------
(* The refinement.  Three lemmas say which changes of the tables are a
   stutter, a recorded outcome or an opening in the ledger. *)

SameFate(t) ==
  /\ task'[t].attempt = task[t].attempt
  /\ \/ task'[t].state = task[t].state
     \/ task'[t].state \in OpenStates /\ task[t].state \in OpenStates

SameFlags == \A j \in Jobs : job'[j].cancel = job[j].cancel

(* Nothing the ledger sees has changed. *)
LEMMA LedgerStutters ==
  ASSUME SameFlags, \A t \in Tasks : SameFate(t)
  PROVE  UNCHANGED Ledger!ledgerVars
BY DEF SameFlags, SameFate, Ledger!ledgerVars

(* Writing absent rows as pending is an opening in the ledger. *)
LEMMA LedgerOpens ==
  ASSUME TypeOK, SameFlags, NEW rows \in SUBSET Tasks,
         \A t \in rows : task[t].state = "absent", SetState(rows, "pending")
  PROVE  Ledger!LedgerNext
<1>1. "pending" \in TaskStates
  BY DEF TaskStates, OpenStates
<1>2. /\ task' \in [Tasks -> TaskRow]
      /\ \A t \in Tasks :
           /\ task'[t].attempt = task[t].attempt
           /\ task'[t].backoff = task[t].backoff
           /\ t \in rows => /\ task'[t].state = "pending"
                            /\ task'[t].owner = NoOwner
                            /\ task'[t].lapsed = FALSE
           /\ t \notin rows => task'[t] = task[t]
  BY <1>1, SetStateFields
<1>3. Ledger!Open(rows)
  BY <1>2 DEF Ledger!Open, SameFlags, OpenStates
<1> QED
  BY <1>3 DEF Ledger!LedgerNext

(* Closing open rows with an outcome is a record in the ledger. *)
LEMMA LedgerRecords ==
  ASSUME TypeOK, SameFlags, NEW rows \in SUBSET Tasks,
         \A t \in rows : task[t].state \in OpenStates,
         NEW outcome \in TaskStates \ OpenStates, SetState(rows, outcome)
  PROVE  Ledger!Record(rows, outcome)
<1>1. outcome \in TaskStates
  OBVIOUS
<1>2. /\ task' \in [Tasks -> TaskRow]
      /\ \A t \in Tasks :
           /\ task'[t].attempt = task[t].attempt
           /\ task'[t].backoff = task[t].backoff
           /\ t \in rows => /\ task'[t].state = outcome
                            /\ task'[t].owner = NoOwner
                            /\ task'[t].lapsed = FALSE
           /\ t \notin rows => task'[t] = task[t]
  BY <1>1, SetStateFields
<1> QED
  BY <1>2 DEF Ledger!Record, SameFlags

(* SetState to pending over open rows changes nobody's fate. *)
LEMMA LedgerIgnoresReturns ==
  ASSUME TypeOK, SameFlags, NEW rows,
         \A t \in rows \cap Tasks : task[t].state \in OpenStates, SetState(rows, "pending")
  PROVE  UNCHANGED Ledger!ledgerVars
<1>1. "pending" \in TaskStates /\ "pending" \in OpenStates
  BY DEF TaskStates, OpenStates
<1>2. /\ task' \in [Tasks -> TaskRow]
      /\ \A t \in Tasks :
           /\ task'[t].attempt = task[t].attempt
           /\ task'[t].backoff = task[t].backoff
           /\ t \in rows => /\ task'[t].state = "pending"
                            /\ task'[t].owner = NoOwner
                            /\ task'[t].lapsed = FALSE
           /\ t \notin rows => task'[t] = task[t]
  BY <1>1, SetStateFields
<1>3. \A t \in Tasks : SameFate(t)
  BY <1>1, <1>2 DEF SameFate
<1> QED
  BY <1>3, LedgerStutters

(* Every statement of queue.py is a step of the ledger or none. *)
LEMMA QueueRefines == LeaseInv /\ QueueStatement => [Ledger!LedgerNext]_(Ledger!ledgerVars)
<1> SUFFICES ASSUME LeaseInv, QueueStatement PROVE Ledger!LedgerNext \/ UNCHANGED Ledger!ledgerVars
  OBVIOUS
<1>a. TypeOK
  BY DEF LeaseInv
<1>b. job' = job => SameFlags
  BY DEF SameFlags
<1>c. {"done", "empty", "skipped", "failed", "cancelled"} \subseteq TaskStates \ OpenStates
  BY DEF TaskStates, OpenStates, TerminalStates, OutcomeStates
<1>d. ASSUME NEW rows \in SUBSET Tasks, NEW outcome \in Ledger!Recorded,
             \A t \in rows : task[t].state \in OpenStates, SetState(rows, outcome), job' = job
      PROVE  Ledger!LedgerNext
  <2>1. Ledger!Record(rows, outcome)
    BY <1>a, <1>b, <1>c, <1>d, LedgerRecords DEF Ledger!Recorded
  <2> QED
    BY <2>1 DEF Ledger!LedgerNext
<1>1. ASSUME NEW o \in Owners, NEW n, Lease(o, n) PROVE UNCHANGED Ledger!ledgerVars
  <2>1. SameFlags /\ \A t \in Tasks : SameFate(t)
    BY <1>1, <1>a, LeaseFields DEF SameFlags, SameFate, OpenStates
  <2> QED
    BY <2>1, LedgerStutters
<1>2. ASSUME NEW o \in Owners, NEW t \in Tasks, NEW outcome \in OutcomeStates, Ack(o, t, outcome)
      PROVE  Ledger!LedgerNext
  BY <1>2, <1>d DEF Ack, Holds, OpenStates, OutcomeStates, Ledger!Recorded
<1>3. ASSUME NEW o \in Owners, NEW t \in Tasks, NackTransient(o, t)
      PROVE  Ledger!LedgerNext \/ UNCHANGED Ledger!ledgerVars
  <2>1. SameFlags
    BY <1>3, <1>b DEF NackTransient
  <2>2. CASE task' = task
    BY <2>1, <2>2, LedgerStutters DEF SameFate
  <2>3. CASE task' # task
    <3>1. /\ task[t].state = "leased"
          /\ \A u \in Tasks \ {t} : task'[u] = task[u]
          /\ task'[t].attempt = task[t].attempt + 1
          /\ task'[t].state = IF task[t].attempt + 1 = MaxAttempts THEN "failed" ELSE "pending"
      BY <1>3, <1>a, <2>3, NackTransientFields DEF LeaseInv
    <3>2. task[t].attempt < MaxAttempts
      BY <3>1 DEF LeaseInv, AttemptBudget, OpenStates
    <3>3. Ledger!Charge(t)
      BY <2>1, <3>1, <3>2 DEF Ledger!Charge, SameFlags, OpenStates
    <3> QED
      BY <3>3 DEF Ledger!LedgerNext
  <2> QED
    BY <2>2, <2>3
<1>4. ASSUME NEW o \in Owners, NEW t \in Tasks, NackFatal(o, t) PROVE Ledger!LedgerNext
  BY <1>4, <1>d DEF NackFatal, Holds, OpenStates, Ledger!Recorded
<1>5. ASSUME NEW o \in Owners, NEW t \in Tasks, Park(o, t) PROVE UNCHANGED Ledger!ledgerVars
  BY <1>5, <1>a, <1>b, LedgerIgnoresReturns DEF Park, Holds, OpenStates
<1>6. ASSUME NEW o \in Owners, NEW rows, Release(o, rows) PROVE UNCHANGED Ledger!ledgerVars
  BY <1>6, <1>a, <1>b, LedgerIgnoresReturns DEF Release, Holds, OpenStates
<1>7. ASSUME ReclaimExpiredLeases PROVE UNCHANGED Ledger!ledgerVars
  BY <1>7, <1>a, <1>b, LedgerIgnoresReturns DEF ReclaimExpiredLeases, OpenStates
<1>8. ASSUME NEW j \in Jobs, job[j].cancel, CancelPending(j) PROVE Ledger!LedgerNext
  <2> DEFINE rows == {t \in TasksOf(j) : task[t].state = "pending"}
  <2>1. rows \in SUBSET {t \in Tasks : JobOf[t] = j}
    BY DEF TasksOf
  <2>2. SetState(rows, "cancelled") /\ job' = job /\ \A t \in rows : task[t].state \in OpenStates
    BY <1>8 DEF CancelPending, OpenStates
  <2> HIDE DEF rows
  <2>3. Ledger!Record(rows, "cancelled")
    BY <1>a, <1>b, <1>c, <2>1, <2>2, LedgerRecords
  <2> QED
    BY <1>8, <2>1, <2>3 DEF Ledger!LedgerNext
<1>9. ASSUME NEW j \in Jobs, NEW rows \in SUBSET Tasks, SkipOlder(j, rows) PROVE Ledger!LedgerNext
  BY <1>9, <1>d DEF SkipOlder, OpenStates, Ledger!Recorded
<1>10. ASSUME NEW t \in Tasks, InsertFollowup(t) PROVE Ledger!LedgerNext
  BY <1>10, <1>a, <1>b, LedgerOpens DEF InsertFollowup
<1> QED
  BY <1>1, <1>2, <1>3, <1>4, <1>5, <1>6, <1>7, <1>8, <1>9, <1>10 DEF QueueStatement, ReleaseAll

(* Every statement on job rows is a step of the ledger or none. *)
LEMMA JobRefines == LeaseInv /\ JobStatement => [Ledger!LedgerNext]_(Ledger!ledgerVars)
<1> SUFFICES ASSUME LeaseInv, JobStatement PROVE Ledger!LedgerNext \/ UNCHANGED Ledger!ledgerVars
  OBVIOUS
<1>a. TypeOK
  BY DEF LeaseInv
<1>b. LeasableStatuses \cup ResumableStatuses \cup FinalStatuses \subseteq JobStatuses
  BY DEF JobStatuses
<1>c. ASSUME NEW S, NEW status \in JobStatuses, SetJobs(S, status) PROVE SameFlags
  BY <1>a, <1>c, SetJobsFields DEF SameFlags
<1>d. ASSUME SameFlags, task' = task PROVE UNCHANGED Ledger!ledgerVars
  BY <1>d, LedgerStutters DEF SameFate
<1>1. ASSUME NEW j \in Jobs, NEW status \in JobStatuses, NEW rows \in SUBSET Tasks,
             CommitJob(j, status, rows)
      PROVE  Ledger!LedgerNext
  <2>1. SameFlags
    BY <1>1, <1>c DEF CommitJob
  <2> QED
    BY <1>1, <1>a, <2>1, LedgerOpens DEF CommitJob
<1>2. ASSUME NEW j \in Jobs, RequestCancel(j) PROVE Ledger!LedgerNext
  <2>1. /\ task' = task
        /\ \A k \in Jobs : job'[k].cancel = (k = j \/ job[k].cancel)
    BY <1>2, <1>a DEF RequestCancel, TypeOK, JobRow
  <2>2. Ledger!RequestStop(j)
    BY <2>1 DEF Ledger!RequestStop
  <2> QED
    BY <2>2 DEF Ledger!LedgerNext
<1>3. ASSUME NEW j \in Jobs, PauseJob(j) \/ ResumeJob(j) PROVE UNCHANGED Ledger!ledgerVars
  BY <1>3, <1>b, <1>c, <1>d DEF PauseJob, ResumeJob, LeasableStatuses, ResumableStatuses
<1>4. ASSUME NEW status \in {"blocked_auth", "blocked_rate"}, ParkJobs(status) \/ UnparkJobs(status)
      PROVE  UNCHANGED Ledger!ledgerVars
  BY <1>4, <1>b, <1>c, <1>d DEF ParkJobs, UnparkJobs, LeasableStatuses, ResumableStatuses
<1>5. ASSUME ResumeJobsAfterLogin PROVE UNCHANGED Ledger!ledgerVars
  BY <1>5, <1>b, <1>c, <1>d DEF ResumeJobsAfterLogin, LeasableStatuses
<1>6. ASSUME NEW j \in Jobs, NEW status \in FinalStatuses, FinishJob(j, status)
      PROVE  UNCHANGED Ledger!ledgerVars
  BY <1>6, <1>b, <1>c, <1>d DEF FinishJob
<1>7. ASSUME NEW S \in SUBSET Jobs, RollDeferredBudgetJobs(S) PROVE UNCHANGED Ledger!ledgerVars
  BY <1>7, <1>b, <1>c, <1>d DEF RollDeferredBudgetJobs, LeasableStatuses
<1> QED
  BY <1>1, <1>2, <1>3, <1>4, <1>5, <1>6, <1>7 DEF JobStatement

(* The recovery at start-up is invisible to the ledger. *)
LEMMA RecoverRefines == LeaseInv /\ ReclaimAndRecover => UNCHANGED Ledger!ledgerVars
<1> SUFFICES ASSUME LeaseInv, ReclaimAndRecover PROVE UNCHANGED Ledger!ledgerVars
  OBVIOUS
<1>1. TypeOK /\ "paused" \in JobStatuses
  BY DEF LeaseInv, JobStatuses, ResumableStatuses
<1>2. SameFlags
  BY <1>1, SetJobsFields DEF ReclaimAndRecover, SameFlags
<1> QED
  BY <1>1, <1>2, LedgerIgnoresReturns DEF ReclaimAndRecover, OpenStates

(* Time is invisible to the ledger. *)
LEMMA TimeRefines == LeaseInv /\ TimePasses => UNCHANGED Ledger!ledgerVars
<1> SUFFICES ASSUME LeaseInv, NEW t \in Tasks, LeaseLapses(t) \/ BackoffEnds(t)
             PROVE  UNCHANGED Ledger!ledgerVars
  BY DEF TimePasses
<1>1. SameFlags
  BY DEF LeaseLapses, BackoffEnds, SameFlags
<1>2. ASSUME NEW u \in Tasks PROVE SameFate(u)
  BY DEF LeaseLapses, BackoffEnds, SameFate, LeaseInv, TypeOK, TaskRow
<1> QED
  BY <1>1, <1>2, LedgerStutters

(* The tables implement the ledger: one outcome per row that nothing rewrites,
   attempts charged one failure at a time, cancelled only on request, for every
   number of tasks, jobs, owners and attempts. *)
THEOREM TablesImplementLedger == Spec => ImplementsLedger
<1>1. Init => Ledger!LedgerInit
  BY DEF Init, AbsentRow, Ledger!LedgerInit, OpenStates
<1>2. LeaseInv /\ [Next]_tables => [Ledger!LedgerNext]_(Ledger!ledgerVars)
  <2>1. LeaseInv /\ Next => [Ledger!LedgerNext]_(Ledger!ledgerVars)
    BY QueueRefines, JobRefines, RecoverRefines, TimeRefines DEF Next
  <2>2. UNCHANGED tables => UNCHANGED Ledger!ledgerVars
    BY DEF tables, Ledger!ledgerVars
  <2> QED
    BY <2>1, <2>2
<1> QED
  BY <1>1, <1>2, LeaseInvAlways, PTL DEF Spec, ImplementsLedger, Ledger!LedgerSpec

-----------------------------------------------------------------------------
(* The dispatch order. *)

(* Among the first n of a set is everything of the set that comes before one of them. *)
LEMMA FirstOfIsInitial ==
  ASSUME NEW S \in SUBSET Tasks, NEW n \in Nat, NEW t \in FirstOf(S, n), NEW u \in S, u < t
  PROVE  u \in FirstOf(S, n)
<1> DEFINE before(x) == {v \in S : v < x}
<1>1. t \in Nat /\ u \in Nat /\ \A v \in S : v \in Nat
  BY TasksAssumption DEF FirstOf
<1>2. before(u) \subseteq before(t) /\ IsFiniteSet(before(t))
  <2>1. IsFiniteSet(Tasks) /\ before(t) \subseteq Tasks
    BY TasksAssumption
  <2>2. IsFiniteSet(before(t))
    BY <2>1, FS_Subset
  <2>3. \A v \in S : v < u => v < t
    BY <1>1
  <2>4. before(u) \subseteq before(t)
    BY <2>3
  <2> QED
    BY <2>2, <2>4
<1>3. /\ IsFiniteSet(before(u)) /\ Cardinality(before(u)) <= Cardinality(before(t))
      /\ Cardinality(before(u)) \in Nat /\ Cardinality(before(t)) \in Nat
  BY <1>2, FS_Subset, FS_CardinalityType
<1>4. Cardinality(before(t)) < n
  BY DEF FirstOf
<1>5. Cardinality(before(u)) < n
  <2> HIDE DEF before
  <2> QED
    BY <1>3, <1>4
<1> QED
  BY <1>5 DEF FirstOf

(* What a claim may take. *)
InOrder ==
  \A t \in Tasks : task[t].state # "leased" /\ task'[t].state = "leased" =>
    /\ job[JobOf[t]].status \in LeasableStatuses /\ ~job[JobOf[t]].cancel
    /\ \A u \in Tasks : u < t /\ Leasable(u) => task'[u].state = "leased"

(* No other statement leases a row. *)
LEMMA SetStateLeasesNothing ==
  ASSUME TypeOK, NEW rows, NEW state \in TaskStates \ {"leased"}, SetState(rows, state)
  PROVE  InOrder
<1>0. state \in TaskStates
  OBVIOUS
<1>1. /\ task' \in [Tasks -> TaskRow]
      /\ \A t \in Tasks :
           /\ task'[t].attempt = task[t].attempt
           /\ task'[t].backoff = task[t].backoff
           /\ t \in rows => /\ task'[t].state = state
                            /\ task'[t].owner = NoOwner
                            /\ task'[t].lapsed = FALSE
           /\ t \notin rows => task'[t] = task[t]
  BY <1>0, SetStateFields
<1>2. \A t \in Tasks : ~(task[t].state # "leased" /\ task'[t].state = "leased")
  BY <1>1
<1> QED
  BY <1>2 DEF InOrder

(* The claim takes the first of the runnable rows, and leases each of them. *)
LEMMA LeaseInOrder ==
  ASSUME TypeOK, NEW owner \in Owners, NEW n \in Nat, Lease(owner, n)
  PROVE  InOrder
<1> DEFINE able == {t \in Tasks : Leasable(t)}
<1>1. /\ \A t \in Tasks : t \in LeaseSelection(n) => task'[t].state = "leased"
      /\ \A t \in Tasks : t \notin LeaseSelection(n) => task'[t] = task[t]
  BY DEF Lease, TypeOK, TaskRow
<1>2. LeaseSelection(n) = FirstOf(able, n) /\ able \in SUBSET Tasks
  BY DEF LeaseSelection
<1>3. ASSUME NEW t \in Tasks, task[t].state # "leased", task'[t].state = "leased"
      PROVE  /\ job[JobOf[t]].status \in LeasableStatuses /\ ~job[JobOf[t]].cancel
             /\ \A u \in Tasks : u < t /\ Leasable(u) => task'[u].state = "leased"
  <2>1. t \in FirstOf(able, n)
    BY <1>1, <1>2, <1>3
  <2>2. Leasable(t)
    BY <2>1 DEF FirstOf
  <2>3. ASSUME NEW u \in Tasks, u < t, Leasable(u) PROVE task'[u].state = "leased"
    <3>1. u \in able
      BY <2>3
    <3> HIDE DEF able
    <3>2. u \in FirstOf(able, n)
      BY <1>2, <2>1, <2>3, <3>1, FirstOfIsInitial
    <3> QED
      BY <1>1, <1>2, <3>2
  <2> QED
    BY <2>2, <2>3 DEF Leasable
<1> QED
  BY <1>3 DEF InOrder

(* Every statement, then. *)
LEMMA StatementsInOrder == LeaseInv /\ Next => InOrder
<1> SUFFICES ASSUME LeaseInv, Next PROVE InOrder
  OBVIOUS
<1>a. TypeOK
  BY DEF LeaseInv
<1>b. OutcomeStates \cup {"failed", "pending", "cancelled", "skipped"} \subseteq TaskStates \ {"leased"}
  BY DEF TaskStates, OpenStates, TerminalStates, OutcomeStates
<1>c. ASSUME NEW rows, NEW state \in OutcomeStates \cup {"failed", "pending", "cancelled", "skipped"},
             SetState(rows, state)
      PROVE  InOrder
  BY <1>a, <1>b, <1>c, SetStateLeasesNothing
<1>d. ASSUME task' = task PROVE InOrder
  BY <1>d DEF InOrder
<1>1. CASE QueueStatement
  <2>1. ASSUME NEW o \in Owners, NEW n \in 0 .. Cardinality(Tasks), Lease(o, n) PROVE InOrder
    <3>1. n \in Nat
      BY TasksAssumption, FS_CardinalityType
    <3> QED
      BY <1>a, <2>1, <3>1, LeaseInOrder
  <2>2. ASSUME NEW o \in Owners, NEW t \in Tasks, NEW outcome \in OutcomeStates, Ack(o, t, outcome)
        PROVE  InOrder
    BY <1>c, <2>2 DEF Ack
  <2>3. ASSUME NEW o \in Owners, NEW t \in Tasks, NackTransient(o, t) PROVE InOrder
    <3>1. CASE task' = task
      BY <1>d, <3>1
    <3>2. CASE task' # task
      <4>1. /\ \A u \in Tasks \ {t} : task'[u] = task[u]
            /\ task'[t].state \in {"failed", "pending"}
        BY <1>a, <2>3, <3>2, NackTransientFields DEF LeaseInv
      <4> QED
        BY <4>1 DEF InOrder
    <3> QED
      BY <3>1, <3>2
  <2>4. ASSUME NEW o \in Owners, NEW t \in Tasks, NackFatal(o, t) \/ Park(o, t) PROVE InOrder
    BY <1>c, <2>4 DEF NackFatal, Park
  <2>5. ASSUME NEW o \in Owners, NEW rows, Release(o, rows) PROVE InOrder
    BY <1>c, <2>5 DEF Release
  <2>6. CASE ReclaimExpiredLeases
    BY <1>c, <2>6 DEF ReclaimExpiredLeases
  <2>7. ASSUME NEW j \in Jobs, CancelPending(j) PROVE InOrder
    BY <1>c, <2>7 DEF CancelPending
  <2>8. ASSUME NEW j \in Jobs, NEW rows \in SUBSET Tasks, SkipOlder(j, rows) PROVE InOrder
    BY <1>c, <2>8 DEF SkipOlder
  <2>9. ASSUME NEW t \in Tasks, InsertFollowup(t) PROVE InOrder
    BY <1>c, <2>9 DEF InsertFollowup
  <2> QED
    BY <1>1, <2>1, <2>2, <2>3, <2>4, <2>5, <2>6, <2>7, <2>8, <2>9 DEF QueueStatement, ReleaseAll
<1>2. CASE JobStatement
  <2>1. ASSUME NEW j \in Jobs, NEW status \in JobStatuses, NEW rows \in SUBSET Tasks,
               CommitJob(j, status, rows)
        PROVE  InOrder
    BY <1>c, <2>1 DEF CommitJob
  <2>2. (\E j \in Jobs, status \in JobStatuses, rows \in SUBSET Tasks : CommitJob(j, status, rows))
        \/ task' = task
    BY <1>2 DEF JobStatement, RequestCancel, PauseJob, ResumeJob, ParkJobs, UnparkJobs,
         ResumeJobsAfterLogin, FinishJob, RollDeferredBudgetJobs
  <2> QED
    BY <1>d, <2>1, <2>2
<1>3. CASE ReclaimAndRecover
  BY <1>c, <1>3 DEF ReclaimAndRecover
<1>4. ASSUME NEW t \in Tasks, LeaseLapses(t) \/ BackoffEnds(t) PROVE InOrder
  <2>1. \A u \in Tasks : task'[u].state = task[u].state
    BY <1>a, <1>4 DEF LeaseLapses, BackoffEnds, TypeOK, TaskRow
  <2> QED
    BY <2>1 DEF InOrder
<1> QED
  BY <1>1, <1>2, <1>3, <1>4 DEF Next, TimePasses

(* A claim never overtakes: the row it takes is of a live job nobody cancelled, and every
   runnable row ahead of it is taken with it, for any number of rows and owners. *)
THEOREM ClaimsInOrderAlways == Spec => ClaimsInOrder
<1>1. LeaseInv /\ [Next]_tables => [InOrder]_tables
  BY StatementsInOrder
<1>2. Spec => [][InOrder]_tables
  BY <1>1, LeaseInvAlways, PTL DEF Spec
<1> QED
  BY <1>2 DEF ClaimsInOrder, InOrder

=============================================================================
