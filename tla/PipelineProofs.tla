--------------------------- MODULE PipelineProofs ---------------------------
(***************************************************************************)
(* The running pipeline uses the two tables only as LeaseQueue allows, for *)
(* every number of workers, tasks and jobs, every buffer size and every    *)
(* budget of faults.  Through that it inherits what LeaseQueueProofs       *)
(* proves of the tables: lease shape, attempt budget and the ledger.       *)
(*                                                                         *)
(* LeaseQueue lets any existing owner issue any statement, but asks that a *)
(* sweep finds the cancel flag raised, that job rows exist before they are *)
(* updated and that a verdict is a final status.  Those are facts about    *)
(* where the coroutines stand, so they need an invariant, PipeInv.         *)
(*                                                                         *)
(* What the running pipeline promises beyond its use of the tables, for    *)
(* every number of workers, tasks, jobs, logins and faults, and every      *)
(* buffer size.                                                            *)
(*                                                                         *)
(* The invariants, each inductive with the ones before it and PipelineInv: *)
(*   PromptInv    one login prompt per parked generation of the token      *)
(*   DispatchInv  a paused dispatcher holds no buffered row; buffer and    *)
(*                claims in flight fit in the capacity; the small types    *)
(*   HandsInv     the rows in hands, in the buffer and in a claim on its   *)
(*                way are leased to this process, and all different        *)
(*   VerdictInv   the verdicts on the job rows, and those a settling       *)
(*                coroutine is about to write, fit the rows                *)
(* The last two need leases that outlive their holders, "lapse" \notin     *)
(* Faults: a lease given back under a working holder puts the row in two   *)
(* hands, and its first holder can plan on for a job that was settled.     *)
(***************************************************************************)
EXTENDS Pipeline, LeaseQueueProofs, FiniteSetTheorems

-----------------------------------------------------------------------------
(* The tables. *)

(* Job rows are never deleted and the cancel flag is never lowered. *)
JobsGrow ==
  \A j \in Jobs :
    /\ job[j].status # "absent" => job'[j].status # "absent"
    /\ job[j].cancel => job'[j].cancel

(* An UPDATE that sets the status of existing jobs leaves their rows and flags. *)
LEMMA SetJobsGrow ==
  ASSUME TypeOK, NEW S, NEW status \in JobStatuses \ {"absent"}, SetJobs(S, status)
  PROVE  JobsGrow
<1>1. ASSUME NEW j \in Jobs
      PROVE  /\ job'[j].cancel = job[j].cancel
             /\ job'[j].status = IF j \in S THEN status ELSE job[j].status
  BY DEF SetJobs, TypeOK, JobRow
<1> QED
  BY <1>1 DEF JobsGrow

(* Promotion by a claim touches neither flags nor rows that do not exist. *)
LEMMA LeaseGrow ==
  ASSUME TypeOK, NEW owner, NEW limit, Lease(owner, limit)
  PROVE  JobsGrow
<1>1. ASSUME NEW j \in Jobs
      PROVE  /\ job'[j].cancel = job[j].cancel
             /\ job'[j].status \in {"running", job[j].status}
  BY DEF Lease, TypeOK, JobRow
<1> QED
  BY <1>1 DEF JobsGrow

(* No statement on the tables deletes a job or withdraws a cancel. *)
LEMMA StatementsGrow ==
  ASSUME TypeOK, [Next]_tables
  PROVE  JobsGrow
<1>0. ASSUME job' = job PROVE JobsGrow
  BY <1>0 DEF JobsGrow
<1>1. CASE QueueStatement
  BY <1>0, <1>1, LeaseGrow
  DEF QueueStatement, Ack, NackTransient, NackFatal, Park, Release, ReleaseAll,
      ReclaimExpiredLeases, CancelPending, SkipOlder, InsertFollowup
<1>2. CASE JobStatement
  <2>a. LeasableStatuses \cup ResumableStatuses \cup FinalStatuses \subseteq JobStatuses \ {"absent"}
    BY DEF JobStatuses, LeasableStatuses, ResumableStatuses, FinalStatuses
  <2>1. ASSUME NEW j \in Jobs, NEW status \in JobStatuses, NEW rows, CommitJob(j, status, rows)
        PROVE  JobsGrow
    <3>1. status \in JobStatuses \ {"absent"} /\ SetJobs({j}, status)
      BY <2>1 DEF CommitJob
    <3> QED
      BY <3>1, SetJobsGrow
  <2>2. ASSUME NEW j \in Jobs, RequestCancel(j) PROVE JobsGrow
    <3>1. ASSUME NEW i \in Jobs
          PROVE job'[i].status = job[i].status /\ (job[i].cancel => job'[i].cancel)
      BY <2>2 DEF RequestCancel, TypeOK, JobRow
    <3> QED
      BY <3>1 DEF JobsGrow
  <2>3. ASSUME NEW j \in Jobs, PauseJob(j) \/ ResumeJob(j) PROVE JobsGrow
    BY <2>a, <2>3, SetJobsGrow DEF PauseJob, ResumeJob, LeasableStatuses, ResumableStatuses
  <2>4. ASSUME NEW status \in {"blocked_auth", "blocked_rate"}, ParkJobs(status) \/ UnparkJobs(status)
        PROVE  JobsGrow
    BY <2>a, <2>4, SetJobsGrow DEF ParkJobs, UnparkJobs, LeasableStatuses, ResumableStatuses
  <2>5. ASSUME ResumeJobsAfterLogin PROVE JobsGrow
    BY <2>a, <2>5, SetJobsGrow DEF ResumeJobsAfterLogin, LeasableStatuses
  <2>6. ASSUME NEW j \in Jobs, NEW status \in FinalStatuses, FinishJob(j, status) PROVE JobsGrow
    BY <2>a, <2>6, SetJobsGrow DEF FinishJob
  <2>7. ASSUME NEW S, RollDeferredBudgetJobs(S) PROVE JobsGrow
    BY <2>a, <2>7, SetJobsGrow DEF RollDeferredBudgetJobs, LeasableStatuses
  <2> QED
    BY <1>2, <2>1, <2>2, <2>3, <2>4, <2>5, <2>6, <2>7 DEF JobStatement
<1>3. CASE ReclaimAndRecover
  <2>1. SetJobs(JobsIn({"running"}), "paused") /\ "paused" \in JobStatuses \ {"absent"}
    BY <1>3 DEF ReclaimAndRecover, JobStatuses, ResumableStatuses
  <2> QED
    BY <2>1, SetJobsGrow
<1>4. CASE TimePasses
  BY <1>0, <1>4 DEF TimePasses, LeaseLapses, BackoffEnds
<1>5. CASE UNCHANGED tables
  BY <1>0, <1>5 DEF tables
<1> QED
  BY <1>1, <1>2, <1>3, <1>4, <1>5 DEF Next

(* A claim that asks for more rows than there are is a claim for all. *)
LEMMA AnyClaim ==
  ASSUME NEW owner \in Owners, NEW limit \in Nat, Lease(owner, limit)
  PROVE  Next
<1> DEFINE all == Cardinality(Tasks)
<1>0. IsFiniteSet(Tasks) /\ Tasks \subseteq Nat /\ all \in Nat
  BY TasksAssumption, FS_CardinalityType
<1>1. CASE limit <= all
  BY <1>0, <1>1 DEF Next, QueueStatement
<1>2. CASE limit > all
  <2>1. ASSUME NEW S \in SUBSET Tasks, NEW n \in Nat, n >= all
        PROVE  FirstOf(S, n) = S
    <3>1. ASSUME NEW t \in S PROVE Cardinality({u \in S : u < t}) < n
      <4>0. ASSUME NEW u \in S, u < t PROVE u \in Tasks \ {t}
        <5>1. u \in Nat /\ t \in Nat /\ u \in Tasks
          BY <1>0
        <5> QED
          BY <4>0, <5>1
      <4>1. {u \in S : u < t} \subseteq Tasks \ {t}
        BY <4>0
      <4>2. IsFiniteSet(Tasks \ {t}) /\ Cardinality(Tasks \ {t}) = all - 1
        BY <1>0, FS_RemoveElement
      <4>3. Cardinality({u \in S : u < t}) \in Nat /\ Cardinality({u \in S : u < t}) <= all - 1
        BY <4>1, <4>2, FS_Subset, FS_CardinalityType
      <4> QED
        BY <1>0, <2>1, <4>3
    <3> QED
      BY <3>1 DEF FirstOf
  <2>2. LeaseSelection(limit) = LeaseSelection(all)
    BY <1>0, <1>2, <2>1 DEF LeaseSelection
  <2>3. Lease(owner, all)
    BY <2>2 DEF Lease
  <2> QED
    BY <1>0, <2>3 DEF Next, QueueStatement
<1> QED
  BY <1>0, <1>1, <1>2

(* Rows that do not exist make no difference to a release. *)
LEMMA AnyRelease ==
  ASSUME NEW owner \in Owners, NEW rows, Release(owner, rows)
  PROVE  Next
<1>1. SetState({t \in rows \cap Tasks : Holds(owner, t)}, "pending") /\ job' = job
  BY DEF Release, SetState
<1>2. Release(owner, rows \cap Tasks) /\ rows \cap Tasks \in SUBSET Tasks
  BY <1>1 DEF Release
<1> QED
  BY <1>2 DEF Next, QueueStatement

-----------------------------------------------------------------------------
(* Where the coroutines stand. *)

WorkerPCs == HoldingPCs \cup {"settle", "finish"}
CancelPCs == {"idle", "flag", "pause", "drain", "release", "sweep", "restart", "settle", "finish"}
SweepPCs == {"pause", "drain", "release", "sweep"}
ParkPCs == {"lock", "drain", "release", "park"}

(* What a coroutine's local state r says about the job table: a worker's task
   exists, a cancel route's job exists and is flagged before the sweep, a
   verdict about to be written is final and for an existing job, and whoever
   is parking has a blocked status to write. *)
ProcOK(p, r, jobs) ==
  /\ p \in Workers =>
       /\ r.pc \in WorkerPCs => r.t \in Tasks
       /\ r.pc = "finish" => r.note \in FinalStatuses /\ jobs[JobOf[r.t]].status # "absent"
  /\ p \in Jobs =>
       /\ r.pc \in CancelPCs
       /\ r.pc # "idle" => jobs[p].status # "absent"
       /\ r.pc \in SweepPCs => jobs[p].cancel
       /\ r.pc = "finish" => r.note \in FinalStatuses
  /\ p \notin Jobs => (r.pc \in ParkPCs => r.note \in {"blocked_auth", "blocked_rate"})

ProcsInv ==
  /\ proc \in [Procs -> ProcState]
  /\ \A p \in Procs : ProcOK(p, proc[p], job)

DispatcherInv ==
  /\ buffer \in Seq(Tasks)
  /\ disp \in [resumed : BOOLEAN, loop : {"none", "idle", "asked", "got"},
               room : 0 .. Capacity, rows : SUBSET Tasks]
  /\ broker \in [token : BOOLEAN, generation : Nat, parked : Nat]

(* Every restart is paid for by a fault, so there is an owner for every run. *)
RunsCounted ==
  /\ up \in BOOLEAN /\ run \in Nat \ {0} /\ faults \in Nat
  /\ run + faults <= 1 + MaxFaults
  /\ up \/ run + faults <= MaxFaults

ResumingKnown == \A j \in resuming : j \in Jobs /\ job[j].status # "absent"

PipeInv == ProcsInv /\ DispatcherInv /\ RunsCounted /\ ResumingKnown

(* The owner string of the current run is one of the owners the tables know. *)
LEMMA RunIsOwner == RunsCounted => run \in Owners
BY PipelineAssumption DEF RunsCounted

(* What ProcOK says of a coroutine that does not move stays true. *)
LEMMA ProcOKStable ==
  ASSUME JobsGrow, JobOf \in [Tasks -> Jobs], NEW p \in Procs, NEW r, ProcOK(p, r, job)
  PROVE  ProcOK(p, r, job')
BY DEF ProcOK, JobsGrow, WorkerPCs

(* One coroutine moves to local state r, the others stand still. *)
LEMMA OneMoves ==
  ASSUME ProcsInv, JobsGrow, NEW p \in Procs, NEW r \in ProcState,
         ProcOK(p, r, job'), proc' = [proc EXCEPT ![p] = r]
  PROVE  ProcsInv'
<1>1. proc' \in [Procs -> ProcState]
  BY DEF ProcsInv
<1>2. ASSUME NEW q \in Procs PROVE ProcOK(q, proc'[q], job')
  <2>1. CASE q = p
    BY <2>1 DEF ProcsInv
  <2>2. CASE q # p
    <3>1. proc'[q] = proc[q] /\ ProcOK(q, proc[q], job)
      BY <2>2 DEF ProcsInv
    <3> QED
      BY <3>1, JobOfAssumption, ProcOKStable
  <2> QED
    BY <2>1, <2>2
<1> QED
  BY <1>1, <1>2 DEF ProcsInv

(* The tables move on, every coroutine stands still. *)
LEMMA NobodyMoves ==
  ASSUME ProcsInv, JobsGrow, proc' = proc
  PROVE  ProcsInv'
<1>1. ASSUME NEW q \in Procs PROVE ProcOK(q, proc'[q], job')
  BY JobOfAssumption, ProcOKStable DEF ProcsInv
<1> QED
  BY <1>1 DEF ProcsInv

(* Moving to a state that needs nothing of the tables. *)
LEMMA IdleIsOK ==
  ASSUME NEW p \in Procs
  PROVE  Idle \in ProcState /\ ProcOK(p, Idle, job) /\ ProcOK(p, Idle, job')
<1>1. Idle \in ProcState
  BY DEF Idle, ProcState, PCs, Notes
<1>2. Idle.pc = "idle"
  BY DEF Idle
<1>3. ASSUME NEW jobs PROVE ProcOK(p, Idle, jobs)
  BY <1>2 DEF ProcOK, WorkerPCs, HoldingPCs, CancelPCs, SweepPCs, ParkPCs
<1> QED
  BY <1>1, <1>3

(* Spending a fault leaves room under the bound. *)
LEMMA FewerFits ==
  ASSUME NEW a \in Nat, NEW b \in Nat, NEW c \in Nat, NEW m \in Nat, c <= b, a + b <= m
  PROVE  a + c <= m
OBVIOUS

(* The run number is untouched and at most one fault is spent. *)
LEMMA RunsKept ==
  ASSUME RunsCounted, up' = up, run' = run,
         faults' = faults \/ \E kind \in FaultKinds : Fault(kind)
  PROVE  RunsCounted'
<1>1. faults' \in Nat /\ faults' <= faults
  BY DEF RunsCounted, Fault
<1>2. run \in Nat \ {0} /\ faults \in Nat /\ run + faults <= 1 + MaxFaults
  BY DEF RunsCounted
<1>a. run \in Nat /\ MaxFaults \in Nat /\ 1 + MaxFaults \in Nat
  BY <1>2, PipelineAssumption
<1>3. run + faults' <= 1 + MaxFaults
  BY <1>a, <1>1, <1>2, FewerFits
<1>4. ASSUME run + faults <= MaxFaults PROVE run + faults' <= MaxFaults
  BY <1>a, <1>1, <1>2, <1>4, FewerFits
<1> QED
  BY <1>1, <1>2, <1>3, <1>4 DEF RunsCounted

(* The rest of PipeInv when the dispatcher and the broker do not change. *)
LEMMA CalmStep ==
  ASSUME PipeInv, JobsGrow, UNCHANGED <<buffer, disp, broker, up, run, resuming>>,
         faults' = faults \/ \E kind \in FaultKinds : Fault(kind)
  PROVE  DispatcherInv' /\ RunsCounted' /\ ResumingKnown'
<1>1. DispatcherInv'
  BY DEF PipeInv, DispatcherInv
<1>2. RunsCounted'
  BY RunsKept DEF PipeInv
<1>3. ResumingKnown'
  BY DEF PipeInv, ResumingKnown, JobsGrow
<1> QED
  BY <1>1, <1>2, <1>3

-----------------------------------------------------------------------------
(* A worker that holds a task and goes on holding it. *)
LEMMA WorkerHoldsOn ==
  ASSUME NEW w \in Workers, NEW r \in ProcState, r.t \in Tasks, NEW pc \in HoldingPCs, NEW jobs
  PROVE  [r EXCEPT !.pc = pc] \in ProcState /\ ProcOK(w, [r EXCEPT !.pc = pc], jobs)
<1>1. [r EXCEPT !.pc = pc] \in ProcState
      /\ [r EXCEPT !.pc = pc].pc = pc /\ [r EXCEPT !.pc = pc].t = r.t
  BY DEF ProcState, HoldingPCs, PCs
<1>2. w \notin Jobs
  BY PipelineAssumption
<1> QED
  BY <1>1, <1>2 DEF ProcOK, HoldingPCs, ParkPCs

(* The worker's own steps up to its answer: one statement under its run's owner,
   or none. *)
LEMMA WorkerSteps ==
  ASSUME TypeOK, PipeInv, NEW w \in Workers,
         \/ Refuse(w) \/ Prepare(w) \/ Send(w) \/ PlanOlder(w) \/ EndWalk(w)
         \/ Answer(w) \/ NackPark(w)
  PROVE  [Next]_tables /\ PipeInv'
<1>a. w \in Procs /\ w \notin Jobs /\ proc[w] \in ProcState /\ ProcOK(w, proc[w], job)
  BY PipelineAssumption DEF Procs, PipeInv, ProcsInv
<1>b. proc[w].pc \in HoldingPCs => proc[w].t \in Tasks /\ JobOf[proc[w].t] \in Jobs
  BY <1>a, JobOfAssumption DEF ProcOK, WorkerPCs
<1>c. run \in Owners
  BY RunIsOwner DEF PipeInv
<1>1. [Next]_tables
  <2>1. CASE Refuse(w) \/ Raise(w)
    BY <2>1, <1>c, AnyRelease DEF Refuse, Raise
  <2>2. CASE Prepare(w) \/ Send(w) \/ Reject(w) \/ Limit(w)
    BY <2>2 DEF Prepare, Send, Reject, Limit, tables
  <2>3. CASE PlanOlder(w)
    BY <2>3 DEF PlanOlder, TasksOf, Next, QueueStatement
  <2>4. CASE EndWalk(w)
    BY <2>4, <1>b DEF EndWalk, At, HoldingPCs, TasksOf, Next, QueueStatement
  <2>5. CASE Succeed(w) \/ FailTransient(w) \/ FailFatal(w) \/ NoHandler(w) \/ NackPark(w)
    <3>1. proc[w].t \in Tasks
      BY <2>5, <1>b
      DEF Succeed, FailTransient, FailFatal, NoHandler, NackPark, At, HoldingPCs
    <3>2. \/ Ack(run, proc[w].t, "done") \/ NackTransient(run, proc[w].t)
          \/ NackFatal(run, proc[w].t) \/ Park(run, proc[w].t)
      BY <2>5 DEF Succeed, FailTransient, FailFatal, NoHandler, NackPark
    <3> QED
      BY <1>c, <3>1, <3>2 DEF Next, QueueStatement, OutcomeStates
  <2> QED
    BY <2>1, <2>2, <2>3, <2>4, <2>5 DEF Answer
<1>2. JobsGrow
  BY <1>1, StatementsGrow
<1>3. PICK r \in ProcState : ProcOK(w, r, job') /\ proc' = [proc EXCEPT ![w] = r]
  <2>1. CASE Refuse(w) \/ Raise(w) \/ NoHandler(w)
    BY <2>1, <1>a, IdleIsOK DEF Refuse, Raise, NoHandler, Rest
  <2>2. CASE Send(w) \/ PlanOlder(w) \/ EndWalk(w) \/ Reject(w) \/ Limit(w)
    <3>1. PICK pc \in HoldingPCs :
            proc[w].pc \in HoldingPCs /\ proc' = [proc EXCEPT ![w] = [proc[w] EXCEPT !.pc = pc]]
      BY <2>2 DEF Send, PlanOlder, EndWalk, Reject, Limit, Goto, At, HoldingPCs
    <3> QED
      BY <1>a, <1>b, <3>1, WorkerHoldsOn
  <2>5. CASE Prepare(w)
    <3>1. PICK pc \in HoldingPCs, tok \in Nat :
            proc' = [proc EXCEPT ![w] = [proc[w] EXCEPT !.pc = pc, !.tok = tok]]
      <4>1. CASE broker.token
        <5>1. /\ "acquire" \in HoldingPCs /\ broker.generation \in Nat
              /\ proc' = [proc EXCEPT ![w] =
                            [proc[w] EXCEPT !.pc = "acquire", !.tok = broker.generation]]
          BY <2>5, <4>1 DEF Prepare, HoldingPCs, PipeInv, DispatcherInv
        <5> QED
          BY <5>1
      <4>2. CASE ~broker.token
        <5>1. /\ "unauth" \in HoldingPCs
              /\ proc' = [proc EXCEPT ![w] = [proc[w] EXCEPT !.pc = "unauth", !.tok = 0]]
          BY <2>5, <4>2 DEF Prepare, HoldingPCs
        <5> QED
          BY <5>1
      <4> QED
        BY <4>1, <4>2
    <3>2. [proc[w] EXCEPT !.tok = tok] \in ProcState
          /\ [proc[w] EXCEPT !.tok = tok].t \in Tasks
      BY <1>a, <1>b, <2>5 DEF ProcState, Prepare, At, HoldingPCs
    <3>3. [proc[w] EXCEPT !.pc = pc, !.tok = tok] = [[proc[w] EXCEPT !.tok = tok] EXCEPT !.pc = pc]
      BY <1>a DEF ProcState
    <3> QED
      BY <1>a, <3>1, <3>2, <3>3, WorkerHoldsOn
  <2>3. CASE Succeed(w) \/ FailTransient(w) \/ FailFatal(w)
    <3> DEFINE r == [pc |-> "settle", t |-> proc[w].t, gen |-> 0, tok |-> 0, rows |-> {}, note |-> ""]
    <3>1. proc[w].t \in Tasks
      BY <2>3, <1>b DEF Succeed, FailTransient, FailFatal, At, HoldingPCs
    <3>2. proc' = [proc EXCEPT ![w] = r]
      BY <2>3 DEF Succeed, FailTransient, FailFatal, ToSettle, Idle
    <3>3. r \in ProcState
      BY <3>1 DEF ProcState, PCs, Notes
    <3>4. ProcOK(w, r, job')
      BY <1>a, <3>1 DEF ProcOK, ParkPCs
    <3> QED
      BY <3>2, <3>3, <3>4
  <2>4. CASE NackPark(w)
    <3> DEFINE pc == IF proc[w].pc = "unauth" THEN "authfail" ELSE "ratefail"
    <3>0. pc \in {"authfail", "ratefail"}
      OBVIOUS
    <3>1. proc' = [proc EXCEPT ![w] = [Idle EXCEPT !.gen = proc[w].gen, !.pc = pc]]
      BY <2>4 DEF NackPark
    <3> HIDE DEF pc
    <3> DEFINE r == [Idle EXCEPT !.gen = proc[w].gen, !.pc = pc]
    <3>2. proc[w].gen \in Nat /\ pc \in PCs /\ Idle \in ProcState
      BY <1>a, <3>0, IdleIsOK DEF ProcState, PCs
    <3>3. r \in ProcState /\ r.pc = pc
      BY <3>2 DEF ProcState
    <3>4. ProcOK(w, r, job')
      BY <1>a, <3>0, <3>3 DEF ProcOK, ParkPCs, WorkerPCs, HoldingPCs
    <3> QED
      BY <3>1, <3>3, <3>4
  <2> QED
    BY <2>1, <2>2, <2>3, <2>4, <2>5 DEF Answer
<1>4. ProcsInv'
  BY <1>2, <1>3, <1>a, OneMoves DEF PipeInv
<1>5. DispatcherInv' /\ RunsCounted' /\ ResumingKnown'
  <2>1. UNCHANGED <<buffer, disp, broker, up, run, resuming>>
    BY DEF Answer, Refuse, Prepare, Send, PlanOlder, EndWalk, Succeed, FailTransient, FailFatal,
           NoHandler, Raise, Reject, Limit, NackPark, dispVars, authVars, lifeVars
  <2>2. faults' = faults \/ \E kind \in FaultKinds : Fault(kind)
    <3>1. faults' = faults \/ \E kind \in {"transient", "fatal", "nohandler", "raise", "rejected",
                                             "ratelimit"} : Fault(kind)
      BY DEF Answer, Refuse, Prepare, Send, PlanOlder, EndWalk, Succeed, FailTransient, FailFatal,
             NoHandler, Raise, Reject, Limit, NackPark
    <3> QED
      BY <3>1 DEF FaultKinds
  <2> QED
    BY <1>2, <2>1, <2>2, CalmStep
<1> QED
  BY <1>1, <1>4, <1>5 DEF PipeInv

(* A worker takes the head of the buffer and reads the gates. *)
LEMMA TakeStep ==
  ASSUME TypeOK, PipeInv, NEW w \in Workers, Take(w)
  PROVE  [Next]_tables /\ PipeInv'
<1>a. w \in Procs /\ w \notin Jobs
  BY PipelineAssumption DEF Procs
<1>1. UNCHANGED tables
  BY DEF Take, tables
<1>2. JobsGrow
  BY <1>1, StatementsGrow
<1>3. buffer # <<>> /\ buffer \in Seq(Tasks) /\ Head(buffer) \in Tasks /\ Tail(buffer) \in Seq(Tasks)
  BY DEF Take, PipeInv, DispatcherInv
<1>4. PICK r \in ProcState : ProcOK(w, r, job') /\ proc' = [proc EXCEPT ![w] = r]
  <2> DEFINE taken(pc, gen) == [Idle EXCEPT !.t = Head(buffer), !.pc = pc, !.gen = gen]
  <2>1. PICK pc \in {"prepare", "refuse"}, gen \in Nat : proc' = [proc EXCEPT ![w] = taken(pc, gen)]
    <3>1. CASE gates.auth /\ gates.run
      BY <3>1 DEF Take, PipeInv, DispatcherInv
    <3>2. CASE ~(gates.auth /\ gates.run)
      BY <3>2 DEF Take
    <3> QED
      BY <3>1, <3>2
  <2>2. pc \in PCs /\ Idle \in ProcState
    BY <1>a, <2>1, IdleIsOK DEF PCs
  <2>3. taken(pc, gen) \in ProcState /\ taken(pc, gen).pc = pc /\ taken(pc, gen).t = Head(buffer)
    BY <1>3, <2>1, <2>2 DEF ProcState
  <2>4. ProcOK(w, taken(pc, gen), job')
    BY <1>a, <1>3, <2>1, <2>3 DEF ProcOK, ParkPCs
  <2> QED
    BY <2>1, <2>3, <2>4
<1>5. ProcsInv'
  BY <1>a, <1>2, <1>4, OneMoves DEF PipeInv
<1>6. DispatcherInv'
  BY <1>3 DEF Take, PipeInv, DispatcherInv, authVars
<1>7. RunsCounted'
  BY RunsKept DEF Take, PipeInv, lifeVars
<1>8. ResumingKnown'
  BY <1>2 DEF Take, PipeInv, ResumingKnown, JobsGrow
<1> QED
  BY <1>1, <1>5, <1>6, <1>7, <1>8 DEF PipeInv

-----------------------------------------------------------------------------
(* Dispatcher.pause and the parking section around it. *)

BlockedStatuses == {"blocked_auth", "blocked_rate"}

(* Pausing moves p on and leaves a well-formed dispatcher behind. *)
LEMMA PauseMoves ==
  ASSUME PipeInv, NEW p \in Procs, NEW note, PauseDispatcher(p, note)
  PROVE  /\ buffer' = buffer
         /\ disp' \in [resumed : BOOLEAN, loop : {"none", "idle", "asked", "got"},
                       room : 0 .. Capacity, rows : SUBSET Tasks]
         /\ \E pc \in {"drain", AfterPause(p)} :
              proc' = [proc EXCEPT ![p] = [proc[p] EXCEPT !.pc = pc, !.note = note]]
<1>1. disp' \in {disp, StoppedDispatcher}
  BY DEF PauseDispatcher
<1>2. StoppedDispatcher \in [resumed : BOOLEAN, loop : {"none", "idle", "asked", "got"},
                             room : 0 .. Capacity, rows : SUBSET Tasks]
  BY PipelineAssumption DEF StoppedDispatcher
<1>3. \E pc \in {"drain", AfterPause(p)} :
        proc' = [proc EXCEPT ![p] = [proc[p] EXCEPT !.pc = pc, !.note = note]]
  <2>1. CASE disp.resumed
    BY <2>1 DEF PauseDispatcher
  <2>2. CASE ~disp.resumed
    BY <2>2 DEF PauseDispatcher
  <2> QED
    BY <2>1, <2>2
<1> QED
  BY <1>1, <1>2, <1>3 DEF PauseDispatcher, PipeInv, DispatcherInv

(* Whoever parks needs a blocked status and nothing else. *)
LEMMA ParkerIsOK ==
  ASSUME NEW p \in Procs, p \notin Jobs, NEW r \in ProcState, NEW pc \in ParkPCs,
         NEW note \in BlockedStatuses, NEW jobs
  PROVE  [r EXCEPT !.pc = pc, !.note = note] \in ProcState
         /\ ProcOK(p, [r EXCEPT !.pc = pc, !.note = note], jobs)
<1>1. pc \in PCs /\ note \in Notes
  BY DEF ParkPCs, PCs, BlockedStatuses, Notes
<1>2. /\ [r EXCEPT !.pc = pc, !.note = note] \in ProcState
      /\ [r EXCEPT !.pc = pc, !.note = note].pc = pc
      /\ [r EXCEPT !.pc = pc, !.note = note].note = note
  BY <1>1 DEF ProcState
<1>3. pc \notin WorkerPCs
  BY DEF ParkPCs, WorkerPCs, HoldingPCs
<1> QED
  BY <1>2, <1>3 DEF ProcOK, BlockedStatuses, WorkerPCs

(* A worker enters the parking section, or waits for _park_lock. *)
LEMMA ParkingMoves ==
  ASSUME PipeInv, JobsGrow, NEW w \in Workers, NEW note \in BlockedStatuses, EnterParking(w, note)
  PROVE  /\ ProcsInv' /\ buffer' = buffer
         /\ disp' \in [resumed : BOOLEAN, loop : {"none", "idle", "asked", "got"},
                       room : 0 .. Capacity, rows : SUBSET Tasks]
<1>a. w \in Procs /\ w \notin Jobs /\ proc[w] \in ProcState /\ AfterPause(w) = "park"
  BY PipelineAssumption DEF Procs, PipeInv, ProcsInv, AfterPause
<1>1. /\ buffer' = buffer
      /\ disp' \in [resumed : BOOLEAN, loop : {"none", "idle", "asked", "got"},
                    room : 0 .. Capacity, rows : SUBSET Tasks]
      /\ \E pc \in ParkPCs : proc' = [proc EXCEPT ![w] = [proc[w] EXCEPT !.pc = pc, !.note = note]]
  <2>1. CASE parkLock = NoProc
    <3>1. PauseDispatcher(w, note)
      BY <2>1 DEF EnterParking
    <3>2. {"drain", AfterPause(w)} \subseteq ParkPCs
      BY <1>a DEF ParkPCs
    <3> QED
      BY <1>a, <3>1, <3>2, PauseMoves
  <2>2. CASE parkLock # NoProc
    <3>1. "lock" \in ParkPCs
          /\ proc' = [proc EXCEPT ![w] = [proc[w] EXCEPT !.pc = "lock", !.note = note]]
      BY <2>2 DEF EnterParking, ParkPCs
    <3>2. UNCHANGED <<buffer, disp>>
      BY <2>2 DEF EnterParking, dispVars
    <3> QED
      BY <3>1, <3>2 DEF PipeInv, DispatcherInv
  <2> QED
    BY <2>1, <2>2
<1>2. PICK pc \in ParkPCs : proc' = [proc EXCEPT ![w] = [proc[w] EXCEPT !.pc = pc, !.note = note]]
  BY <1>1
<1>3. ProcsInv'
  BY <1>a, <1>2, ParkerIsOK, OneMoves DEF PipeInv
<1> QED
  BY <1>1, <1>3

(* The worker that met a refusal: gates, broker and mode change, the tables
   do not. *)
LEMMA ReactionSteps ==
  ASSUME TypeOK, PipeInv, NEW w \in Workers,
         AuthFail(w) \/ RateFail(w) \/ TakeParkLock(w) \/ Publish(w)
  PROVE  [Next]_tables /\ PipeInv'
<1>a. w \in Procs /\ w \notin Jobs /\ proc[w] \in ProcState /\ ProcOK(w, proc[w], job)
  BY PipelineAssumption DEF Procs, PipeInv, ProcsInv
<1>1. UNCHANGED <<tables, up, run, resuming, faults>>
  BY DEF AuthFail, RateFail, TakeParkLock, Publish, lifeVars
<1>2. JobsGrow
  BY <1>1, StatementsGrow
<1>3. ProcsInv' /\ buffer' = buffer
      /\ disp' \in [resumed : BOOLEAN, loop : {"none", "idle", "asked", "got"},
                    room : 0 .. Capacity, rows : SUBSET Tasks]
  <2>a. UNCHANGED <<buffer, disp>> =>
          buffer' = buffer
          /\ disp' \in [resumed : BOOLEAN, loop : {"none", "idle", "asked", "got"},
                        room : 0 .. Capacity, rows : SUBSET Tasks]
    BY DEF PipeInv, DispatcherInv
  <2>b. Rest(w) => ProcsInv'
    BY <1>a, <1>2, IdleIsOK, OneMoves DEF Rest, PipeInv
  <2>1. CASE AuthFail(w)
    <3>1. CASE ParksNow(proc[w].gen)
      BY <2>1, <3>1, <1>2, ParkingMoves DEF AuthFail, BlockedStatuses
    <3>2. CASE ~ParksNow(proc[w].gen)
      BY <2>1, <3>2, <2>a, <2>b DEF AuthFail, dispVars
    <3> QED
      BY <3>1, <3>2
  <2>2. CASE RateFail(w)
    BY <2>2, <1>2, ParkingMoves DEF RateFail, BlockedStatuses
  <2>3. CASE TakeParkLock(w)
    <3>1. proc[w].note \in BlockedStatuses
      BY <2>3, <1>a DEF TakeParkLock, At, ProcOK, ParkPCs, BlockedStatuses
    <3> QED
      BY <2>3, <3>1, <1>2, ParkingMoves DEF TakeParkLock
  <2>4. CASE Publish(w)
    BY <2>4, <2>a, <2>b DEF Publish, dispVars
  <2> QED
    BY <2>1, <2>2, <2>3, <2>4
<1>4. broker' \in [token : BOOLEAN, generation : Nat, parked : Nat]
  <2>a. broker \in [token : BOOLEAN, generation : Nat, parked : Nat]
    BY DEF PipeInv, DispatcherInv
  <2>1. CASE AuthFail(w)
    <3>1. proc[w].gen \in Nat
      BY <1>a DEF ProcState
    <3>2. broker' = broker \/ broker' = [broker EXCEPT !.token = FALSE, !.parked = proc[w].gen]
      BY <2>1 DEF AuthFail
    <3> QED
      BY <2>a, <3>1, <3>2
  <2>2. CASE RateFail(w) \/ TakeParkLock(w) \/ Publish(w)
    BY <2>a, <2>2 DEF RateFail, TakeParkLock, Publish, authVars
  <2> QED
    BY <2>1, <2>2
<1>5. DispatcherInv'
  BY <1>3, <1>4 DEF PipeInv, DispatcherInv
<1>6. RunsCounted'
  BY <1>1, RunsKept DEF PipeInv
<1>7. ResumingKnown'
  BY <1>1, <1>2 DEF PipeInv, ResumingKnown, JobsGrow
<1> QED
  BY <1>1, <1>3, <1>5, <1>6, <1>7 DEF PipeInv

(* Going on with a pause keeps what the pauser knew when it began. *)
LEMMA PauserIsOK ==
  ASSUME NEW p \in Procs, NEW r \in ProcState, r.pc \in {"drain", "release"}, ProcOK(p, r, job),
         NEW pc \in {"release", AfterPause(p)}, NEW rows \in SUBSET Tasks
  PROVE  [r EXCEPT !.pc = pc, !.rows = rows] \in ProcState
         /\ ProcOK(p, [r EXCEPT !.pc = pc, !.rows = rows], job)
<1>1. pc \in PCs /\ pc \notin WorkerPCs
  BY DEF PCs, AfterPause, WorkerPCs, HoldingPCs
<1>2. /\ [r EXCEPT !.pc = pc, !.rows = rows] \in ProcState
      /\ [r EXCEPT !.pc = pc, !.rows = rows].pc = pc
      /\ [r EXCEPT !.pc = pc, !.rows = rows].note = r.note
      /\ [r EXCEPT !.pc = pc, !.rows = rows].t = r.t
  BY <1>1 DEF ProcState
<1>3. p \in Jobs => pc \in SweepPCs /\ pc \in CancelPCs /\ r.pc \in SweepPCs
                     /\ r.pc # "idle" /\ pc \notin {"idle", "finish"}
  BY DEF SweepPCs, CancelPCs, AfterPause
<1>4. r.pc \in ParkPCs
  BY DEF ParkPCs
<1>5. p \in Workers => pc # "finish"
  BY DEF AfterPause
<1> QED
  BY <1>1, <1>2, <1>3, <1>4, <1>5 DEF ProcOK

(* Dispatcher.pause from its first await to the park it was called for. *)
LEMMA PauseSteps ==
  ASSUME TypeOK, PipeInv, NEW p \in Procs, Pausing(p)
  PROVE  [Next]_tables /\ PipeInv'
<1>a. proc[p] \in ProcState /\ ProcOK(p, proc[p], job) /\ run \in Owners
  BY RunIsOwner DEF PipeInv, ProcsInv
<1>b. ParkSql(p) => p \notin Jobs /\ proc[p].note \in BlockedStatuses
  BY <1>a DEF ParkSql, At, ProcOK, CancelPCs, ParkPCs, BlockedStatuses
<1>1. [Next]_tables
  <2>1. CASE Drain(p)
    BY <2>1 DEF Drain, tables
  <2>2. CASE ReleaseDrained(p)
    BY <2>2, <1>a, AnyRelease DEF ReleaseDrained
  <2>3. CASE ParkSql(p)
    BY <2>3, <1>b DEF ParkSql, BlockedStatuses, Next, JobStatement
  <2> QED
    BY <2>1, <2>2, <2>3 DEF Pausing
<1>2. JobsGrow
  BY <1>1, StatementsGrow
<1>3. ProcsInv'
  <2>1. CASE Drain(p)
    <3> DEFINE pc == IF buffer = <<>> THEN AfterPause(p) ELSE "release"
               r == [proc[p] EXCEPT !.pc = pc, !.rows = ToSet(buffer)]
    <3>1. proc' = [proc EXCEPT ![p] = r] /\ job' = job
      BY <2>1 DEF Drain
    <3>2. ToSet(buffer) \in SUBSET Tasks
      BY DEF ToSet, PipeInv, DispatcherInv
    <3>3. pc \in {"release", AfterPause(p)} /\ proc[p].pc \in {"drain", "release"}
      BY <2>1 DEF Drain, At
    <3>4. r \in ProcState /\ ProcOK(p, r, job)
      BY <1>a, <3>2, <3>3, PauserIsOK
    <3> QED
      BY <1>2, <3>1, <3>4, OneMoves DEF PipeInv
  <2>2. CASE ReleaseDrained(p)
    <3> DEFINE r == [proc[p] EXCEPT !.pc = AfterPause(p), !.rows = {}]
    <3>1. proc' = [proc EXCEPT ![p] = r] /\ job' = job
      BY <2>2 DEF ReleaseDrained, Release
    <3>2. r \in ProcState /\ ProcOK(p, r, job)
      BY <1>a, <2>2, PauserIsOK DEF ReleaseDrained, At
    <3> QED
      BY <1>2, <3>1, <3>2, OneMoves DEF PipeInv
  <2>3. CASE ParkSql(p)
    <3>1. CASE p \in Workers
      <4> DEFINE r == [proc[p] EXCEPT !.pc = "publish"]
      <4>1. proc' = [proc EXCEPT ![p] = r]
        BY <2>3, <3>1 DEF ParkSql, Goto
      <4>2. r \in ProcState /\ r.pc = "publish"
        BY <1>a DEF ProcState, PCs
      <4>3. ProcOK(p, r, job')
        BY <1>b, <2>3, <4>2 DEF ProcOK, WorkerPCs, HoldingPCs, ParkPCs
      <4> QED
        BY <1>2, <4>1, <4>2, <4>3, OneMoves DEF PipeInv
    <3>2. CASE p \notin Workers
      BY <1>2, <2>3, <3>2, IdleIsOK, OneMoves DEF ParkSql, Rest, PipeInv
    <3> QED
      BY <3>1, <3>2
  <2> QED
    BY <2>1, <2>2, <2>3 DEF Pausing
<1>4. UNCHANGED <<disp, broker, up, run, resuming, faults>> /\ (buffer' = buffer \/ buffer' = <<>>)
  <2>1. CASE Drain(p)
    BY <2>1 DEF Drain, authVars, lifeVars
  <2>2. CASE ReleaseDrained(p) \/ ParkSql(p)
    BY <2>2 DEF ReleaseDrained, ParkSql, dispVars, authVars, lifeVars
  <2> QED
    BY <2>1, <2>2 DEF Pausing
<1>5. DispatcherInv'
  <2>1. <<>> \in Seq(Tasks) /\ buffer \in Seq(Tasks)
    BY DEF PipeInv, DispatcherInv
  <2>2. buffer' \in Seq(Tasks)
    BY <1>4, <2>1
  <2> QED
    BY <1>4, <2>2 DEF PipeInv, DispatcherInv
<1>6. RunsCounted'
  BY <1>4, RunsKept DEF PipeInv
<1>7. ResumingKnown'
  BY <1>2, <1>4 DEF PipeInv, ResumingKnown, JobsGrow
<1> QED
  BY <1>1, <1>3, <1>5, <1>6, <1>7 DEF PipeInv

-----------------------------------------------------------------------------
(* Settling and cancelling. *)

(* _settle_job: the verdict that is read is final, and is written to an existing job. *)
LEMMA SettleSteps ==
  ASSUME TypeOK, PipeInv, NEW p \in Workers \cup Jobs, Settling(p)
  PROVE  [Next]_tables /\ PipeInv'
<1>a. p \in Procs /\ proc[p] \in ProcState /\ ProcOK(p, proc[p], job)
  BY DEF Procs, PipeInv, ProcsInv
<1>b. proc[p].pc \in {"settle", "finish"}
  BY DEF Settling, Settle, Finish, At
<1>c. Subject(p) \in Jobs /\ (p \notin Jobs => proc[p].t \in Tasks /\ Subject(p) = JobOf[proc[p].t])
  BY <1>a, <1>b, JobOfAssumption DEF Subject, ProcOK, WorkerPCs
<1>d. p \in Jobs => p \notin Workers /\ Subject(p) = p
  BY PipelineAssumption DEF Subject
<1>1. [Next]_tables
  <2>1. CASE Settle(p)
    BY <2>1 DEF Settle, tables
  <2>2. CASE Finish(p)
    <3>1. proc[p].note \in FinalStatuses
      BY <2>2, <1>a DEF Finish, At, ProcOK
    <3> QED
      BY <2>2, <3>1, <1>c DEF Finish, Next, JobStatement
  <2> QED
    BY <2>1, <2>2 DEF Settling
<1>2. JobsGrow
  BY <1>1, StatementsGrow
<1>3. ProcsInv'
  <2>1. CASE Rest(p)
    BY <1>a, <1>2, <2>1, IdleIsOK, OneMoves DEF Rest, PipeInv
  <2>2. CASE Settle(p) /\ ~Rest(p)
    <3> DEFINE note == TerminalStatus(Subject(p))
               r == [Idle EXCEPT !.pc = "finish", !.t = proc[p].t, !.note = note]
    <3>1. /\ proc' = [proc EXCEPT ![p] = r] /\ job' = job
          /\ job[Subject(p)].status \in {"queued", "running", "paused"}
      BY <2>2 DEF Settle, tables
    <3>2. note \in FinalStatuses
      BY DEF TerminalStatus, FinalStatuses
    <3>3. note \in Notes /\ "finish" \in PCs /\ proc[p].t \in Tasks \cup {0} /\ Idle \in ProcState
      BY <1>a, <3>2, IdleIsOK DEF Notes, PCs, ProcState
    <3> HIDE DEF note
    <3>4. r \in ProcState /\ r.pc = "finish" /\ r.note = note /\ r.t = proc[p].t
      BY <3>3 DEF ProcState
    <3>5. ProcOK(p, r, job)
      <4>1. "finish" \notin SweepPCs /\ "finish" \notin ParkPCs /\ "finish" \in CancelPCs
        BY DEF SweepPCs, ParkPCs, CancelPCs
      <4>2. p \in Jobs => job[p].status # "absent"
        BY <1>d, <3>1
      <4>3. p \in Workers => r.t \in Tasks /\ job[JobOf[r.t]].status # "absent"
        BY <1>c, <1>d, <3>1, <3>4
      <4> QED
        BY <3>2, <3>4, <4>1, <4>2, <4>3 DEF ProcOK
    <3> QED
      BY <1>a, <1>2, <3>1, <3>4, <3>5, OneMoves DEF PipeInv
  <2> QED
    BY <2>1, <2>2 DEF Settling, Finish
<1>4. UNCHANGED <<buffer, disp, broker, up, run, resuming, faults>>
  BY DEF Settling, Settle, Finish, dispVars, authVars, lifeVars
<1> QED
  BY <1>1, <1>2, <1>3, <1>4, CalmStep DEF PipeInv

(* A cancel route at a stage that asks nothing beyond the job and its flag. *)
LEMMA CancelStage ==
  ASSUME NEW j \in Jobs, NEW r \in ProcState, NEW pc \in CancelPCs \ {"idle", "finish"},
         job'[j].status # "absent", pc \in SweepPCs => job'[j].cancel
  PROVE  [r EXCEPT !.pc = pc] \in ProcState /\ ProcOK(j, [r EXCEPT !.pc = pc], job')
<1>1. pc \in PCs
  BY DEF CancelPCs, PCs
<1>2. [r EXCEPT !.pc = pc] \in ProcState /\ [r EXCEPT !.pc = pc].pc = pc
  BY <1>1 DEF ProcState
<1>3. j \notin Workers
  BY PipelineAssumption
<1> QED
  BY <1>2, <1>3 DEF ProcOK

(* cancel_job: the flag is up before the sweep and stays up. *)
LEMMA CancelSteps ==
  ASSUME TypeOK, PipeInv, NEW j \in Jobs,
         CancelCall(j) \/ CancelFlag(j) \/ CancelPause(j) \/ CancelSweep(j) \/ CancelRestart(j)
  PROVE  [Next]_tables /\ PipeInv'
<1>a. j \in Procs /\ j \notin Workers /\ proc[j] \in ProcState /\ ProcOK(j, proc[j], job)
  BY PipelineAssumption DEF Procs, PipeInv, ProcsInv
<1>b. AfterPause(j) = "sweep"
  BY DEF AfterPause
<1>c. proc[j].pc # "idle" => job[j].status # "absent"
  BY <1>a DEF ProcOK
<1>d. proc[j].pc \in SweepPCs => job[j].cancel
  BY <1>a DEF ProcOK
<1>1. [Next]_tables
  <2>1. CASE CancelCall(j) \/ CancelPause(j) \/ CancelRestart(j)
    BY <2>1 DEF CancelCall, CancelPause, CancelRestart, tables
  <2>2. CASE CancelFlag(j)
    BY <2>2 DEF CancelFlag, Next, JobStatement
  <2>3. CASE CancelSweep(j)
    BY <2>3, <1>d DEF CancelSweep, At, SweepPCs, Next, QueueStatement
  <2> QED
    BY <2>1, <2>2, <2>3
<1>2. JobsGrow
  BY <1>1, StatementsGrow
<1>3. job'[j].status # "absent" /\ (job[j].cancel => job'[j].cancel)
  <2>1. job[j].status # "absent"
    BY <1>c DEF CancelCall, CancelFlag, CancelPause, CancelSweep, CancelRestart, At
  <2> QED
    BY <1>2, <2>1 DEF JobsGrow
<1>4. ProcsInv'
  <2>1. CASE CancelCall(j)
    <3>1. "flag" \in CancelPCs \ {"idle", "finish"} /\ "flag" \notin SweepPCs
      BY DEF CancelPCs, SweepPCs
    <3>2. proc' = [proc EXCEPT ![j] = [proc[j] EXCEPT !.pc = "flag"]]
      BY <2>1 DEF CancelCall, Goto
    <3> QED
      BY <1>a, <1>2, <1>3, <3>1, <3>2, CancelStage, OneMoves DEF PipeInv
  <2>2. CASE CancelFlag(j)
    <3>1. "pause" \in CancelPCs \ {"idle", "finish"}
      BY DEF CancelPCs
    <3>2. proc' = [proc EXCEPT ![j] = [proc[j] EXCEPT !.pc = "pause"]] /\ job'[j].cancel
      BY <2>2 DEF CancelFlag, Goto, RequestCancel, TypeOK, JobRow
    <3> QED
      BY <1>a, <1>2, <1>3, <3>1, <3>2, CancelStage, OneMoves DEF PipeInv
  <2>3. CASE CancelPause(j)
    <3> DEFINE note == IF disp.resumed THEN "was running" ELSE "was paused"
    <3>1. note \in Notes
      BY DEF Notes
    <3>2. PauseDispatcher(j, note)
      BY <2>3 DEF CancelPause
    <3> HIDE DEF note
    <3>3. PICK pc \in {"drain", AfterPause(j)} :
            proc' = [proc EXCEPT ![j] = [proc[j] EXCEPT !.pc = pc, !.note = note]]
      BY <1>a, <3>2, PauseMoves
    <3>4. pc \in CancelPCs \ {"idle", "finish"} /\ pc \in SweepPCs
      BY <1>b, <3>3 DEF CancelPCs, SweepPCs
    <3> DEFINE r == [proc[j] EXCEPT !.pc = pc, !.note = note]
    <3>5. r \in ProcState /\ r.pc = pc
      BY <1>a, <3>1, <3>4 DEF ProcState, PCs, SweepPCs
    <3>6. job'[j].cancel
      BY <1>d, <1>3, <2>3 DEF CancelPause, At, SweepPCs
    <3>7. ProcOK(j, r, job')
      BY <1>a, <1>3, <3>4, <3>5, <3>6 DEF ProcOK
    <3> QED
      BY <1>a, <1>2, <3>3, <3>5, <3>7, OneMoves DEF PipeInv
  <2>4. CASE CancelSweep(j)
    <3>1. "restart" \in CancelPCs \ {"idle", "finish"} /\ "restart" \notin SweepPCs
      BY DEF CancelPCs, SweepPCs
    <3>2. proc' = [proc EXCEPT ![j] = [proc[j] EXCEPT !.pc = "restart"]]
      BY <2>4 DEF CancelSweep, Goto
    <3> QED
      BY <1>a, <1>2, <1>3, <3>1, <3>2, CancelStage, OneMoves DEF PipeInv
  <2>5. CASE CancelRestart(j)
    <3>1. "settle" \in CancelPCs \ {"idle", "finish"} /\ "settle" \notin SweepPCs
      BY DEF CancelPCs, SweepPCs
    <3>2. proc' = [proc EXCEPT ![j] = [Idle EXCEPT !.pc = "settle"]] /\ Idle \in ProcState
      BY <1>a, <2>5, IdleIsOK DEF CancelRestart
    <3> QED
      BY <1>a, <1>2, <1>3, <3>1, <3>2, CancelStage, OneMoves DEF PipeInv
  <2> QED
    BY <2>1, <2>2, <2>3, <2>4, <2>5
<1>5. buffer' = buffer /\ disp' \in [resumed : BOOLEAN, loop : {"none", "idle", "asked", "got"},
                                     room : 0 .. Capacity, rows : SUBSET Tasks]
  <2>1. CASE CancelPause(j)
    <3>1. \E note : PauseDispatcher(j, note)
      BY <2>1 DEF CancelPause
    <3> QED
      BY <1>a, <3>1, PauseMoves
  <2>2. CASE CancelRestart(j)
    <3>1. buffer' = buffer /\ (disp' = disp \/ disp' = RunningDispatcher)
      BY <2>2 DEF CancelRestart, Resumed
    <3>2. RunningDispatcher \in [resumed : BOOLEAN, loop : {"none", "idle", "asked", "got"},
                                 room : 0 .. Capacity, rows : SUBSET Tasks]
      BY PipelineAssumption DEF RunningDispatcher
    <3> QED
      BY <3>1, <3>2 DEF PipeInv, DispatcherInv
  <2>3. CASE CancelCall(j) \/ CancelFlag(j) \/ CancelSweep(j)
    BY <2>3 DEF CancelCall, CancelFlag, CancelSweep, dispVars, PipeInv, DispatcherInv
  <2> QED
    BY <2>1, <2>2, <2>3
<1>6. UNCHANGED <<broker, up, run, resuming>>
  BY DEF CancelCall, CancelFlag, CancelPause, CancelSweep, CancelRestart, authVars, lifeVars
<1>7. faults' = faults \/ \E kind \in FaultKinds : Fault(kind)
  BY DEF CancelCall, CancelFlag, CancelPause, CancelSweep, CancelRestart, FaultKinds
<1>8. DispatcherInv'
  BY <1>5, <1>6 DEF PipeInv, DispatcherInv
<1>9. RunsCounted'
  BY <1>6, <1>7, RunsKept DEF PipeInv
<1>10. ResumingKnown'
  BY <1>2, <1>6 DEF PipeInv, ResumingKnown, JobsGrow
<1> QED
  BY <1>1, <1>4, <1>8, <1>9, <1>10 DEF PipeInv

-----------------------------------------------------------------------------
(* The dispatcher's own loop. *)

(* Claims are issued under the owner of this run and delivered in sequence. *)
LEMMA DispatchSteps ==
  ASSUME TypeOK, PipeInv, Dispatching
  PROVE  [Next]_tables /\ PipeInv'
<1>a. /\ run \in Owners /\ buffer \in Seq(Tasks) /\ Len(buffer) \in Nat
      /\ disp \in [resumed : BOOLEAN, loop : {"none", "idle", "asked", "got"},
                   room : 0 .. Capacity, rows : SUBSET Tasks]
  BY RunIsOwner DEF PipeInv, DispatcherInv
<1>b. Capacity \in Nat /\ 0 .. Capacity \subseteq Nat /\ 1 .. Capacity \subseteq Nat
  BY PipelineAssumption
<1>1. [Next]_tables
  <2>1. CASE RefillAsk \/ RefillDeliver
    BY <2>1 DEF RefillAsk, RefillDeliver, tables
  <2>2. CASE RefillCommit
    BY <2>2, <1>a, <1>b, AnyClaim DEF RefillCommit
  <2>3. CASE StrayCommit
    BY <2>3, <1>a, <1>b, AnyClaim DEF StrayCommit
  <2> QED
    BY <2>1, <2>2, <2>3 DEF Dispatching
<1>2. JobsGrow
  BY <1>1, StatementsGrow
<1>3. UNCHANGED <<proc, broker, up, run, resuming, faults>>
  BY DEF Dispatching, RefillAsk, RefillCommit, RefillDeliver, StrayCommit, authVars, lifeVars
<1>4. ProcsInv'
  BY <1>2, <1>3, NobodyMoves DEF PipeInv
<1>5. buffer' \in Seq(Tasks)
  <2>1. CASE RefillDeliver
    <3>1. PICK batch \in [1 .. Cardinality(disp.rows) -> disp.rows] : buffer' = buffer \o batch
      BY <2>1 DEF RefillDeliver
    <3>2. Cardinality(disp.rows) \in Nat
      BY <1>a, TasksAssumption, FS_Subset, FS_CardinalityType
    <3>3. batch \in Seq(Tasks)
      <4>1. batch \in [1 .. Cardinality(disp.rows) -> Tasks]
        BY <1>a, <3>1
      <4> QED
        BY <3>2, <4>1
    <3> QED
      BY <1>a, <3>1, <3>3
  <2>2. CASE RefillAsk \/ RefillCommit \/ StrayCommit
    BY <1>a, <2>2 DEF RefillAsk, RefillCommit, StrayCommit
  <2> QED
    BY <2>1, <2>2 DEF Dispatching
<1>6. disp' \in [resumed : BOOLEAN, loop : {"none", "idle", "asked", "got"},
                room : 0 .. Capacity, rows : SUBSET Tasks]
  <2>1. CASE RefillAsk
    <3>1. Capacity - Len(buffer) \in 0 .. Capacity
      BY <1>a, <1>b, <2>1 DEF RefillAsk
    <3>2. disp' = [disp EXCEPT !.loop = "asked", !.room = Capacity - Len(buffer)]
      BY <2>1 DEF RefillAsk
    <3> HIDE <1>b
    <3> QED
      BY <1>a, <3>1, <3>2
  <2>2. CASE RefillCommit
    <3>1. LeaseSelection(disp.room) \in SUBSET Tasks /\ 0 \in 0 .. Capacity
      BY <1>b DEF LeaseSelection, FirstOf
    <3>2. disp' = [disp EXCEPT !.loop = "got", !.room = 0, !.rows = LeaseSelection(disp.room)]
      BY <2>2 DEF RefillCommit
    <3> QED
      BY <1>a, <3>1, <3>2
  <2>3. CASE RefillDeliver
    <3>1. disp' = [disp EXCEPT !.loop = "idle", !.rows = {}]
      BY <2>3 DEF RefillDeliver
    <3> QED
      BY <1>a, <3>1
  <2>4. CASE StrayCommit
    BY <1>a, <2>4 DEF StrayCommit
  <2> QED
    BY <2>1, <2>2, <2>3, <2>4 DEF Dispatching
<1>7. DispatcherInv'
  BY <1>3, <1>5, <1>6 DEF PipeInv, DispatcherInv
<1>8. RunsCounted'
  BY <1>3, RunsKept DEF PipeInv
<1>9. ResumingKnown'
  BY <1>2, <1>3 DEF PipeInv, ResumingKnown, JobsGrow
<1> QED
  BY <1>1, <1>4, <1>7, <1>8, <1>9 DEF PipeInv

-----------------------------------------------------------------------------
(* The mode loop. *)

(* Any coroutine may stand anywhere no fact is attached to. *)
LEMMA FreeStage ==
  ASSUME NEW p \in Procs, p \notin Jobs, p \notin Workers, NEW r \in ProcState,
         NEW pc \in PCs \ ParkPCs
  PROVE  [r EXCEPT !.pc = pc] \in ProcState /\ ProcOK(p, [r EXCEPT !.pc = pc], job')
<1>1. [r EXCEPT !.pc = pc] \in ProcState /\ [r EXCEPT !.pc = pc].pc = pc
  BY DEF ProcState
<1> QED
  BY <1>1 DEF ProcOK

(* The mode loop parks with a blocked status and requeues what a park stopped. *)
LEMMA ModeSteps ==
  ASSUME TypeOK, PipeInv, mode \in Modes, FollowMode \/ UnparkRate \/ ResumeDispatcher
  PROVE  [Next]_tables /\ PipeInv'
<1> DEFINE p == "modeLoop"
<1>a. p \in Procs /\ p \notin Jobs /\ p \notin Workers /\ proc[p] \in ProcState /\ AfterPause(p) = "park"
  BY PipelineAssumption DEF Procs, PipeInv, ProcsInv, AfterPause
<1>1. [Next]_tables
  <2>1. CASE FollowMode \/ ResumeDispatcher
    BY <2>1 DEF FollowMode, ResumeDispatcher, tables
  <2>2. CASE UnparkRate
    BY <2>2 DEF UnparkRate, Next, JobStatement
  <2> QED
    BY <2>1, <2>2
<1>2. JobsGrow
  BY <1>1, StatementsGrow
<1>3. UNCHANGED <<broker, up, run, resuming, faults>>
  BY DEF FollowMode, UnparkRate, ResumeDispatcher, authVars, lifeVars
<1> HIDE DEF p
<1>4. ASSUME NEW pc \in {"unpark", "resume"}, Goto(p, pc) PROVE ProcsInv'
  <2>1. pc \in PCs \ ParkPCs
    BY <1>4 DEF PCs, ParkPCs
  <2>2. proc' = [proc EXCEPT ![p] = [proc[p] EXCEPT !.pc = pc]]
    BY <1>4 DEF Goto
  <2> QED
    BY <1>a, <1>2, <2>1, <2>2, FreeStage, OneMoves DEF PipeInv
<1>5. /\ ProcsInv' /\ buffer' = buffer
      /\ disp' \in [resumed : BOOLEAN, loop : {"none", "idle", "asked", "got"},
                    room : 0 .. Capacity, rows : SUBSET Tasks]
  <2>1. CASE FollowMode /\ mode = "running"
    <3>1. UNCHANGED proc => ProcsInv'
      BY <1>2, NobodyMoves DEF PipeInv
    <3>2. UNCHANGED dispVars /\ (UNCHANGED proc \/ Goto(p, "unpark"))
      BY <2>1 DEF FollowMode, p
    <3> QED
      BY <1>4, <3>1, <3>2 DEF dispVars, PipeInv, DispatcherInv
  <2>2. CASE FollowMode /\ mode # "running"
    <3> DEFINE note == BlockedStatus[mode]
    <3>1. note \in BlockedStatuses
      BY <2>2 DEF BlockedStatus, BlockedStatuses, Modes
    <3>2. PauseDispatcher(p, note)
      BY <2>2 DEF FollowMode, p
    <3> HIDE DEF note
    <3>3. PICK pc \in {"drain", AfterPause(p)} :
            proc' = [proc EXCEPT ![p] = [proc[p] EXCEPT !.pc = pc, !.note = note]]
      BY <1>a, <3>2, PauseMoves
    <3>4. pc \in ParkPCs
      BY <1>a, <3>3 DEF ParkPCs
    <3>5. ProcsInv'
      BY <1>a, <1>2, <3>1, <3>3, <3>4, ParkerIsOK, OneMoves DEF PipeInv
    <3> QED
      BY <1>a, <3>2, <3>5, PauseMoves
  <2>3. CASE UnparkRate
    BY <1>4, <2>3 DEF UnparkRate, p, dispVars, PipeInv, DispatcherInv
  <2>4. CASE ResumeDispatcher
    <3>1. ProcsInv'
      BY <1>a, <1>2, <2>4, IdleIsOK, OneMoves DEF ResumeDispatcher, Rest, PipeInv, p
    <3>2. buffer' = buffer /\ (disp' = disp \/ disp' = RunningDispatcher)
      BY <2>4 DEF ResumeDispatcher, Resumed
    <3>3. RunningDispatcher \in [resumed : BOOLEAN, loop : {"none", "idle", "asked", "got"},
                                 room : 0 .. Capacity, rows : SUBSET Tasks]
      BY PipelineAssumption DEF RunningDispatcher
    <3> QED
      BY <3>1, <3>2, <3>3 DEF PipeInv, DispatcherInv
  <2> QED
    BY <2>1, <2>2, <2>3, <2>4
<1>6. DispatcherInv'
  BY <1>3, <1>5 DEF PipeInv, DispatcherInv
<1>7. RunsCounted'
  BY <1>3, RunsKept DEF PipeInv
<1>8. ResumingKnown'
  BY <1>2, <1>3 DEF PipeInv, ResumingKnown, JobsGrow
<1> QED
  BY <1>1, <1>5, <1>6, <1>7, <1>8 DEF PipeInv

-----------------------------------------------------------------------------
(* The login callback and the disconnect route. *)

(* Login and disconnect write to the job table once, by the requeue. *)
LEMMA LoginSteps ==
  ASSUME TypeOK, PipeInv, LoggingIn \/ Disconnect
  PROVE  [Next]_tables /\ PipeInv'
<1>a. "login" \in Procs /\ "login" \notin Jobs /\ "login" \notin Workers /\ proc["login"] \in ProcState
  BY PipelineAssumption DEF Procs, PipeInv, ProcsInv
<1>1. [Next]_tables
  <2>1. CASE StoreLogin \/ LiftPausedAuth \/ Disconnect
    BY <2>1 DEF StoreLogin, LiftPausedAuth, Disconnect, tables
  <2>2. CASE RequeueBlockedAuth
    BY <2>2 DEF RequeueBlockedAuth, Next, JobStatement
  <2> QED
    BY <2>1, <2>2 DEF LoggingIn
<1>2. JobsGrow
  BY <1>1, StatementsGrow
<1>3. UNCHANGED <<buffer, disp, up, run, resuming>>
  BY DEF LoggingIn, StoreLogin, LiftPausedAuth, RequeueBlockedAuth, Disconnect, dispVars, lifeVars
<1>4. faults' = faults \/ \E kind \in FaultKinds : Fault(kind)
  BY DEF LoggingIn, StoreLogin, LiftPausedAuth, RequeueBlockedAuth, Disconnect, FaultKinds
<1>5. ProcsInv'
  <2>1. ASSUME NEW pc \in {"lift", "requeue"}, Goto("login", pc) PROVE ProcsInv'
    <3>1. pc \in PCs \ ParkPCs
      BY <2>1 DEF PCs, ParkPCs
    <3>2. proc' = [proc EXCEPT !["login"] = [proc["login"] EXCEPT !.pc = pc]]
      BY <2>1 DEF Goto
    <3> QED
      BY <1>a, <1>2, <3>1, <3>2, FreeStage, OneMoves DEF PipeInv
  <2>2. CASE StoreLogin \/ LiftPausedAuth
    BY <2>1, <2>2 DEF StoreLogin, LiftPausedAuth
  <2>3. CASE RequeueBlockedAuth
    BY <1>a, <1>2, <2>3, IdleIsOK, OneMoves DEF RequeueBlockedAuth, Rest, PipeInv
  <2>4. CASE Disconnect
    BY <1>2, <2>4, NobodyMoves DEF Disconnect, PipeInv
  <2> QED
    BY <2>2, <2>3, <2>4 DEF LoggingIn
<1>6. broker' \in [token : BOOLEAN, generation : Nat, parked : Nat]
  <2>a. broker \in [token : BOOLEAN, generation : Nat, parked : Nat]
    BY DEF PipeInv, DispatcherInv
  <2>1. CASE StoreLogin
    BY <2>a, <2>1 DEF StoreLogin
  <2>2. CASE LiftPausedAuth \/ RequeueBlockedAuth
    BY <2>a, <2>2 DEF LiftPausedAuth, RequeueBlockedAuth, authVars
  <2>3. CASE Disconnect
    BY <2>a, <2>3 DEF Disconnect
  <2> QED
    BY <2>1, <2>2, <2>3 DEF LoggingIn
<1>7. DispatcherInv'
  BY <1>3, <1>6 DEF PipeInv, DispatcherInv
<1>8. RunsCounted'
  BY <1>3, <1>4, RunsKept DEF PipeInv
<1>9. ResumingKnown'
  BY <1>2, <1>3 DEF PipeInv, ResumingKnown, JobsGrow
<1> QED
  BY <1>1, <1>5, <1>7, <1>8, <1>9 DEF PipeInv

-----------------------------------------------------------------------------
(* The job routes and time: no coroutine of the pipeline moves.  Each is one statement on the tables or, for the resume route, the read before it. *)
LEMMA StandingSteps ==
  ASSUME TypeOK, PipeInv,
         \/ Time
         \/ \E j \in Jobs : StartJob(j) \/ PauseRoute(j) \/ ResumeRead(j) \/ ResumeWrite(j)
  PROVE  [Next]_tables /\ PipeInv'
<1>1. [Next]_tables
  <2>1. CASE Time
    BY <2>1 DEF Time, ReclaimLoop, Lapse, EndBackoff, Next, QueueStatement, TimePasses
  <2>2. ASSUME NEW j \in Jobs, StartJob(j) PROVE Next
    <3>1. PICK rows \in SUBSET Tasks : CommitJob(j, "queued", rows)
      BY <2>2 DEF StartJob, TasksOf
    <3>2. "queued" \in JobStatuses
      BY <3>1 DEF JobStatuses, LeasableStatuses
    <3> QED
      BY <3>1, <3>2 DEF Next, JobStatement
  <2>3. ASSUME NEW j \in Jobs, PauseRoute(j) \/ ResumeRead(j) \/ ResumeWrite(j) PROVE [Next]_tables
    BY <2>3 DEF PauseRoute, ResumeRead, ResumeWrite, Next, JobStatement, tables
  <2> QED
    BY <2>1, <2>2, <2>3
<1>2. JobsGrow
  BY <1>1, StatementsGrow
<1>3. UNCHANGED <<proc, buffer, disp, broker, up, run>>
  BY DEF Time, ReclaimLoop, Lapse, EndBackoff, StartJob, PauseRoute, ResumeRead, ResumeWrite,
         dispVars, authVars, lifeVars
<1>4. faults' = faults \/ \E kind \in FaultKinds : Fault(kind)
  BY DEF Time, ReclaimLoop, Lapse, EndBackoff, StartJob, PauseRoute, ResumeRead, ResumeWrite,
         FaultKinds
<1>5. ProcsInv'
  BY <1>2, <1>3, NobodyMoves DEF PipeInv
<1>6. DispatcherInv'
  BY <1>3 DEF PipeInv, DispatcherInv
<1>7. RunsCounted'
  BY <1>3, <1>4, RunsKept DEF PipeInv
<1>8. ResumingKnown'
  <2>1. ASSUME resuming' \subseteq resuming PROVE ResumingKnown'
    BY <1>2, <2>1 DEF PipeInv, ResumingKnown, JobsGrow
  <2>2. ASSUME NEW j \in Jobs, ResumeRead(j) PROVE ResumingKnown'
    <3>1. job' = job /\ resuming' = resuming \cup {j} /\ job[j].status # "absent"
      BY <2>2 DEF ResumeRead, tables, ResumableStatuses
    <3> QED
      BY <3>1 DEF PipeInv, ResumingKnown
  <2>3. CASE Time \/ \E j \in Jobs : StartJob(j) \/ PauseRoute(j) \/ ResumeWrite(j)
    BY <2>1, <2>3 DEF Time, ReclaimLoop, Lapse, EndBackoff, StartJob, PauseRoute, ResumeWrite
  <2> QED
    BY <2>2, <2>3
<1> QED
  BY <1>1, <1>5, <1>6, <1>7, <1>8 DEF PipeInv

-----------------------------------------------------------------------------
(* The process ends and starts again: a restart is paid for by the stop or crash before it. *)
LEMMA LifeSteps ==
  ASSUME TypeOK, PipeInv, Crash \/ Stop \/ Start
  PROVE  [Next]_tables /\ PipeInv'
<1>a. run \in Owners
  BY RunIsOwner DEF PipeInv
<1>1. [Next]_tables
  BY <1>a DEF Crash, Stop, Start, Next, QueueStatement, tables
<1>2. JobsGrow
  BY <1>1, StatementsGrow
<1>3. ProcsInv'
  <2>1. CASE Crash \/ Stop
    <3>1. proc' = [p \in Procs |-> Idle]
      BY <2>1 DEF Crash, Stop, Forget
    <3> QED
      BY <3>1, IdleIsOK DEF ProcsInv
  <2>2. CASE Start
    BY <1>2, <2>2, NobodyMoves DEF Start, PipeInv
  <2> QED
    BY <2>1, <2>2
<1>4. DispatcherInv'
  <2>1. {StoppedDispatcher, RunningDispatcher}
          \subseteq [resumed : BOOLEAN, loop : {"none", "idle", "asked", "got"},
                    room : 0 .. Capacity, rows : SUBSET Tasks]
    BY PipelineAssumption DEF StoppedDispatcher, RunningDispatcher
  <2>2. CASE Crash \/ Stop
    <3>1. buffer' = <<>> /\ disp' = StoppedDispatcher /\ broker' = broker
      BY <2>2 DEF Crash, Stop, Forget
    <3>2. <<>> \in Seq(Tasks)
      OBVIOUS
    <3> QED
      BY <2>1, <3>1, <3>2 DEF PipeInv, DispatcherInv
  <2>3. CASE Start
    <3>1. /\ buffer' = buffer /\ disp' \in {StoppedDispatcher, RunningDispatcher}
          /\ broker' = [broker EXCEPT !.parked = 0]
      <4>1. CASE broker.token
        BY <2>3, <4>1 DEF Start
      <4>2. CASE ~broker.token
        BY <2>3, <4>2 DEF Start
      <4> QED
        BY <4>1, <4>2
    <3>2. broker' \in [token : BOOLEAN, generation : Nat, parked : Nat]
      BY <3>1 DEF PipeInv, DispatcherInv
    <3> QED
      BY <2>1, <3>1, <3>2 DEF PipeInv, DispatcherInv
  <2> QED
    BY <2>2, <2>3
<1>5. RunsCounted'
  <2>a. /\ run \in Nat \ {0} /\ faults \in Nat /\ MaxFaults \in Nat
        /\ run + faults <= 1 + MaxFaults
    BY PipelineAssumption DEF PipeInv, RunsCounted
  <2>1. CASE Crash \/ Stop
    <3>1. up' = FALSE /\ run' = run /\ faults > 0 /\ faults' = faults - 1
      BY <2>1 DEF Crash, Stop, Forget, Fault
    <3>2. faults' \in Nat /\ run + faults' <= MaxFaults /\ run + faults' <= 1 + MaxFaults
      BY <2>a, <3>1
    <3> QED
      BY <2>a, <3>1, <3>2 DEF RunsCounted
  <2>2. CASE Start
    <3>1. ~up /\ up' = TRUE /\ run' = run + 1 /\ faults' = faults
      BY <2>2 DEF Start
    <3>2. run + faults <= MaxFaults
      BY <3>1 DEF PipeInv, RunsCounted
    <3>3. run + 1 \in Nat \ {0} /\ (run + 1) + faults <= 1 + MaxFaults
      BY <2>a, <3>2
    <3> QED
      BY <2>a, <3>1, <3>3 DEF RunsCounted
  <2> QED
    BY <2>1, <2>2
<1>6. ResumingKnown'
  BY <1>2 DEF Crash, Stop, Start, Forget, PipeInv, ResumingKnown, JobsGrow
<1> QED
  BY <1>1, <1>3, <1>4, <1>5, <1>6 DEF PipeInv

-----------------------------------------------------------------------------
(* The invariant and the refinement. *)

(* The governor is in one of the three modes the supervisor acts on. *)
LEMMA ModeKept == mode \in Modes /\ [PipelineNext]_vars => (mode \in Modes)'
<1> SUFFICES ASSUME mode \in Modes, [PipelineNext]_vars PROVE mode' \in Modes
  OBVIOUS
<1>1. CASE Dispatching
  BY <1>1 DEF Dispatching, RefillAsk, RefillCommit, RefillDeliver, StrayCommit, authVars
<1>2. ASSUME NEW p, Pausing(p) \/ Settling(p) PROVE mode' \in Modes
  BY <1>2 DEF Pausing, Drain, ReleaseDrained, ParkSql, Settling, Settle, Finish, authVars
<1>3. ASSUME NEW w \in Workers, Working(w) PROVE mode' \in Modes
  <2>1. CASE \/ Take(w) \/ Refuse(w) \/ Prepare(w) \/ Send(w) \/ PlanOlder(w) \/ EndWalk(w)
             \/ NackPark(w) \/ TakeParkLock(w)
    BY <2>1 DEF Take, Refuse, Prepare, Send, PlanOlder, EndWalk, NackPark, TakeParkLock, authVars
  <2>2. CASE Answer(w)
    BY <2>2 DEF Answer, Succeed, FailTransient, FailFatal, NoHandler, Raise, Reject, Limit,
                authVars, Modes
  <2>3. CASE AuthFail(w) \/ RateFail(w) \/ Publish(w)
    BY <2>3 DEF AuthFail, RateFail, Publish, Modes
  <2> QED
    BY <1>2, <1>3, <2>1, <2>2, <2>3 DEF Working
<1>4. ASSUME NEW j \in Jobs, Cancelling(j) \/ UserOfJob(j) PROVE mode' \in Modes
  BY <1>2, <1>4 DEF Cancelling, CancelFlag, CancelPause, CancelSweep, CancelRestart, UserOfJob,
     StartJob, CancelCall, PauseRoute, ResumeRead, ResumeWrite, authVars
<1>5. CASE FollowingMode
  BY <1>2, <1>5 DEF FollowingMode, FollowMode, UnparkRate, ResumeDispatcher, authVars
<1>6. CASE LoggingIn \/ Disconnect
  BY <1>6 DEF LoggingIn, StoreLogin, LiftPausedAuth, RequeueBlockedAuth, Disconnect, authVars, Modes
<1>7. CASE Time
  BY <1>7 DEF Time, ReclaimLoop, Lapse, EndBackoff, authVars
<1>8. CASE Crash \/ Stop \/ Start
  BY <1>8 DEF Crash, Stop, Start, Forget, Modes
<1>9. CASE UNCHANGED vars
  BY <1>9 DEF vars
<1> QED
  BY <1>1, <1>3, <1>4, <1>5, <1>6, <1>7, <1>8, <1>9 DEF PipelineNext

(* A first start satisfies the invariant. *)
LEMMA PipeInit == PipelineInit => PipeInv /\ mode \in Modes
<1> SUFFICES ASSUME PipelineInit PROVE PipeInv /\ mode \in Modes
  OBVIOUS
<1>1. ProcsInv
  <2>1. proc = [p \in Procs |-> Idle]
    BY DEF PipelineInit
  <2>2. ASSUME NEW p \in Procs PROVE Idle \in ProcState /\ ProcOK(p, Idle, job)
    BY IdleIsOK
  <2> QED
    BY <2>1, <2>2 DEF ProcsInv
<1>2. DispatcherInv
  <2>1. RunningDispatcher \in [resumed : BOOLEAN, loop : {"none", "idle", "asked", "got"},
                               room : 0 .. Capacity, rows : SUBSET Tasks]
    BY PipelineAssumption DEF RunningDispatcher
  <2>2. broker \in [token : BOOLEAN, generation : Nat, parked : Nat]
    BY DEF PipelineInit
  <2>3. buffer \in Seq(Tasks)
    BY DEF PipelineInit
  <2> QED
    BY <2>1, <2>2, <2>3 DEF PipelineInit, DispatcherInv
<1>3. RunsCounted
  <2>1. up = TRUE /\ run = 1 /\ faults = MaxFaults /\ MaxFaults \in Nat
    BY PipelineAssumption DEF PipelineInit
  <2>2. run \in Nat \ {0} /\ faults \in Nat /\ run + faults <= 1 + MaxFaults
    BY <2>1
  <2> QED
    BY <2>1, <2>2 DEF RunsCounted
<1> QED
  BY <1>1, <1>2, <1>3 DEF PipelineInit, PipeInv, ResumingKnown, Modes

(* All steps together: one statement of the tables or none, and the invariant again. *)
LEMMA EveryStep ==
  ASSUME TypeOK, PipeInv, mode \in Modes, [PipelineNext]_vars
  PROVE  [Next]_tables /\ PipeInv'
<1>1. CASE Dispatching
  BY <1>1, DispatchSteps
<1>2. ASSUME NEW w \in Workers, Working(w) PROVE [Next]_tables /\ PipeInv'
  BY <1>2, TakeStep, WorkerSteps, ReactionSteps, PauseSteps, SettleSteps DEF Working, Procs
<1>3. ASSUME NEW j \in Jobs, Cancelling(j) \/ UserOfJob(j) PROVE [Next]_tables /\ PipeInv'
  BY <1>3, CancelSteps, PauseSteps, SettleSteps, StandingSteps DEF Cancelling, UserOfJob, Procs
<1>4. CASE FollowingMode
  BY <1>4, ModeSteps, PauseSteps DEF FollowingMode, Procs
<1>5. CASE LoggingIn \/ Disconnect
  BY <1>5, LoginSteps
<1>6. CASE Time
  BY <1>6, StandingSteps
<1>7. CASE Crash \/ Stop \/ Start
  BY <1>7, LifeSteps
<1>8. CASE UNCHANGED vars
  <2>1. UNCHANGED tables /\ UNCHANGED <<proc, buffer, disp, broker, up, run, resuming, faults>>
    BY <1>8 DEF vars, tables
  <2>2. JobsGrow
    BY <2>1, StatementsGrow
  <2> QED
    BY <2>1, <2>2, NobodyMoves, CalmStep DEF PipeInv
<1> QED
  BY <1>1, <1>2, <1>3, <1>4, <1>5, <1>6, <1>7, <1>8 DEF PipelineNext

(* PipeInv with what it leans on: the tables' own invariant and the mode. *)
PipelineInv == LeaseInv /\ PipeInv /\ mode \in Modes

(* Where the coroutines stand and what the tables hold never drift apart: the
   facts each await point of the pipeline relies on are still true after it. *)
THEOREM PipelineInvAlways == PipelineSpec => []PipelineInv
<1>1. PipelineInit => PipelineInv
  BY PipeInit, InitInv DEF PipelineInit, PipelineInv
<1>2. PipelineInv /\ [PipelineNext]_vars => PipelineInv'
  BY EveryStep, ModeKept, LeaseInvInductive DEF PipelineInv, LeaseInv
<1> QED
  BY <1>1, <1>2, PTL DEF PipelineSpec

(* The pipeline issues no statement that LeaseQueue does not allow, whatever
   the number of workers, tasks, jobs, logins and faults. *)
THEOREM PipelineImplementsQueue == PipelineSpec => ImplementsQueue
<1>1. PipelineInit => Init
  BY DEF PipelineInit
<1>2. PipelineInv /\ [PipelineNext]_vars => [Next]_tables
  BY EveryStep DEF PipelineInv, LeaseInv
<1> QED
  BY <1>1, <1>2, PipelineInvAlways, PTL DEF PipelineSpec, ImplementsQueue, Spec

(* So the running pipeline keeps the promises of the tables: no row carries
   an owner it is not leased to, no open row has used up its attempts, every
   row gets one outcome, and no claim overtakes. *)
THEOREM PipelineKeepsPromises ==
  PipelineSpec => []LeaseShape /\ []AttemptBudget /\ ImplementsLedger /\ ClaimsInOrder
<1>1. PipelineSpec => Spec
  BY PipelineImplementsQueue DEF ImplementsQueue
<1> QED
  BY <1>1, LeaseShapeAlways, AttemptBudgetAlways, TablesImplementLedger, ClaimsInOrderAlways, PTL

-----------------------------------------------------------------------------
(* Attempts. *)

AttemptsKept == \A t \in Tasks : task'[t].attempt = task[t].attempt

(* The statements that charge nothing. *)
Uncharged ==
  \/ task' = task
  \/ \E rows, state : SetState(rows, state)
  \/ \E owner, limit : Lease(owner, limit)
  \/ \E t \in Tasks : LeaseLapses(t) \/ BackoffEnds(t)

(* Setting the state of some rows, claiming, lapsing and ending a back-off charge nothing. *)
LEMMA PlainStatements ==
  ASSUME TypeOK, Uncharged
  PROVE  AttemptsKept
<1>1. ASSUME NEW t \in Tasks PROVE task[t] = [task[t] EXCEPT !.attempt = task[t].attempt]
                                   /\ task[t] \in TaskRow
  BY DEF TypeOK, TaskRow
<1>2. ASSUME NEW rows, NEW state, SetState(rows, state) PROVE AttemptsKept
  BY <1>1, <1>2 DEF SetState, Unleased, AttemptsKept, TaskRow
<1>3. ASSUME NEW owner, NEW limit, Lease(owner, limit) PROVE AttemptsKept
  BY <1>1, <1>3 DEF Lease, AttemptsKept, TaskRow
<1>4. ASSUME NEW t \in Tasks, LeaseLapses(t) \/ BackoffEnds(t) PROVE AttemptsKept
  BY <1>1, <1>4 DEF LeaseLapses, BackoffEnds, AttemptsKept, TaskRow, TypeOK
<1> QED
  BY <1>2, <1>3, <1>4 DEF AttemptsKept, Uncharged

(* Only a transient failure charges an attempt. *)
LEMMA OnlyTransientCharges ==
  ASSUME TypeOK, [PipelineNext]_vars, "transient" \notin Faults
  PROVE  AttemptsKept
<1>1. ASSUME Dispatching PROVE Uncharged
  BY <1>1 DEF Uncharged, Dispatching, RefillAsk, RefillCommit, RefillDeliver, StrayCommit
<1>2. ASSUME NEW p, Pausing(p) \/ Settling(p) PROVE Uncharged
  BY <1>2 DEF Uncharged, Pausing, Drain, ReleaseDrained, ParkSql, Settling, Settle, Finish, FinishJob,
              ParkJobs, Release, tables
<1>3. ASSUME NEW w \in Workers, Working(w) PROVE Uncharged
  <2>1. CASE \/ Take(w) \/ Refuse(w) \/ Prepare(w) \/ Send(w) \/ PlanOlder(w) \/ EndWalk(w)
             \/ NackPark(w)
    BY <2>1 DEF Uncharged, Take, Refuse, Prepare, Send, PlanOlder, EndWalk, NackPark, Release, Park,
                InsertFollowup, SkipOlder, tables
  <2>2. CASE Answer(w)
    BY <2>2 DEF Uncharged, Answer, Succeed, FailTransient, FailFatal, NoHandler, Raise, Reject, Limit,
                Fault, Ack, NackFatal, Release, tables
  <2>3. CASE AuthFail(w) \/ RateFail(w) \/ TakeParkLock(w) \/ Publish(w)
    BY <2>3 DEF Uncharged, AuthFail, RateFail, TakeParkLock, Publish, tables
  <2> QED
    BY <1>2, <1>3, <2>1, <2>2, <2>3 DEF Uncharged, Working
<1>4. ASSUME NEW j \in Jobs, Cancelling(j) \/ UserOfJob(j) PROVE Uncharged
  BY <1>2, <1>4 DEF Uncharged, Cancelling, CancelFlag, CancelPause, CancelSweep, CancelRestart, UserOfJob,
     StartJob, CancelCall, PauseRoute, ResumeRead, ResumeWrite, RequestCancel, CancelPending,
     CommitJob, PauseJob, ResumeJob, tables
<1>5. ASSUME FollowingMode PROVE Uncharged
  BY <1>2, <1>5 DEF Uncharged, FollowingMode, FollowMode, UnparkRate, ResumeDispatcher, UnparkJobs, tables
<1>6. ASSUME LoggingIn \/ Disconnect PROVE Uncharged
  BY <1>6 DEF Uncharged, LoggingIn, StoreLogin, LiftPausedAuth, RequeueBlockedAuth, Disconnect,
              ResumeJobsAfterLogin, tables
<1>7. ASSUME Time PROVE Uncharged
  BY <1>7 DEF Uncharged, Time, ReclaimLoop, Lapse, EndBackoff, ReclaimExpiredLeases
<1>8. ASSUME Crash \/ Stop \/ Start PROVE Uncharged
  BY <1>8 DEF Uncharged, Crash, Stop, Start, ReleaseAll, Release, ReclaimAndRecover, tables
<1>9. ASSUME UNCHANGED vars PROVE Uncharged
  BY <1>9 DEF Uncharged, vars
<1>10. Uncharged
  BY <1>1, <1>3, <1>4, <1>5, <1>6, <1>7, <1>8, <1>9 DEF PipelineNext
<1> QED
  BY <1>10, PlainStatements

(* Auth refusals, rate limits, lost leases, pauses, cancels and restarts cost
   no row an attempt, however many of them a row goes through. *)
THEOREM ParkingIsFreeAlways == PipelineSpec => []ParkingIsFree
<1>1. PipelineInit => ParkingIsFree
  BY DEF PipelineInit, Init, AbsentRow, ParkingIsFree
<1>2. PipelineInv /\ ParkingIsFree /\ [PipelineNext]_vars => ParkingIsFree'
  BY OnlyTransientCharges DEF PipelineInv, LeaseInv, ParkingIsFree, AttemptsKept
<1> QED
  BY <1>1, <1>2, PipelineInvAlways, PTL DEF PipelineSpec

-----------------------------------------------------------------------------
(* A process that is down holds nothing. *)

DownInv ==
  ~up => buffer = <<>> /\ disp = StoppedDispatcher /\ proc = [p \in Procs |-> Idle]

(* A step is one of a running process that keeps running, its end, its start,
   or one that needs no process: time, or a thread the process left behind. *)
LEMMA LifeCases ==
  ASSUME up \in BOOLEAN, [PipelineNext]_vars
  PROVE  \/ up /\ up' /\ run' = run
         \/ Crash \/ Stop \/ Start
         \/ ~up /\ ~up' /\ UNCHANGED <<buffer, disp, proc, broker, run>>
<1> DEFINE goal == \/ up /\ up' /\ run' = run
                   \/ Crash \/ Stop \/ Start
                   \/ ~up /\ ~up' /\ UNCHANGED <<buffer, disp, proc, broker, run>>
<1> SUFFICES goal
  OBVIOUS
<1>1. CASE Dispatching
  BY <1>1 DEF Dispatching, RefillAsk, RefillCommit, RefillDeliver, StrayCommit, lifeVars, authVars
<1>2. ASSUME NEW p, Pausing(p) \/ Settling(p) PROVE goal
  BY <1>2 DEF Pausing, Drain, ReleaseDrained, ParkSql, Settling, Settle, Finish, At, lifeVars
<1>3. ASSUME NEW w \in Workers, Working(w) PROVE goal
  <2>1. CASE \/ Take(w) \/ Refuse(w) \/ Prepare(w) \/ Send(w) \/ PlanOlder(w) \/ EndWalk(w)
             \/ NackPark(w)
    BY <2>1 DEF Take, Refuse, Prepare, Send, PlanOlder, EndWalk, NackPark, At, lifeVars
  <2>2. CASE Answer(w)
    BY <2>2 DEF Answer, Succeed, FailTransient, FailFatal, NoHandler, Raise, Reject, Limit,
                At, lifeVars
  <2>3. CASE AuthFail(w) \/ RateFail(w) \/ TakeParkLock(w) \/ Publish(w)
    BY <2>3 DEF AuthFail, RateFail, TakeParkLock, Publish, At, lifeVars
  <2> QED
    BY <1>2, <1>3, <2>1, <2>2, <2>3 DEF Working
<1>4. ASSUME NEW j \in Jobs, Cancelling(j) \/ UserOfJob(j) PROVE goal
  BY <1>2, <1>4 DEF Cancelling, CancelFlag, CancelPause, CancelSweep, CancelRestart, UserOfJob,
     StartJob, CancelCall, PauseRoute, ResumeRead, ResumeWrite, At, lifeVars
<1>5. CASE FollowingMode
  BY <1>2, <1>5 DEF FollowingMode, FollowMode, UnparkRate, ResumeDispatcher, At, lifeVars
<1>6. CASE LoggingIn \/ Disconnect
  BY <1>6 DEF LoggingIn, StoreLogin, LiftPausedAuth, RequeueBlockedAuth, Disconnect, At, lifeVars
<1>7. CASE Time
  BY <1>7 DEF Time, ReclaimLoop, Lapse, EndBackoff, lifeVars, dispVars, authVars
<1>8. CASE UNCHANGED vars
  BY <1>8 DEF vars
<1> QED
  BY <1>1, <1>3, <1>4, <1>5, <1>6, <1>7, <1>8 DEF PipelineNext

(* So it stays: what Crash and Stop forget is only built up again by a start. *)
LEMMA DownStep ==
  ASSUME up \in BOOLEAN, DownInv, [PipelineNext]_vars
  PROVE  DownInv'
<1>1. CASE Crash \/ Stop
  BY <1>1 DEF Crash, Stop, Forget, DownInv, StoppedDispatcher, Idle
<1>2. CASE Start
  BY <1>2 DEF Start, DownInv
<1> QED
  BY <1>1, <1>2, LifeCases DEF DownInv, StoppedDispatcher, Idle

-----------------------------------------------------------------------------
(* One prompt per generation. *)

Prompting(w) == proc[w].note = "blocked_auth"

(* Workers took their generation from the broker, so none is ahead of it; and
   a worker that prompts for the current generation did so by parking the
   broker for it, which is what stops the next one. *)
PromptInv ==
  /\ broker.generation >= 1
  /\ \A w \in Workers : proc[w].gen <= broker.generation
  /\ \A w \in Workers : Prompting(w) /\ proc[w].gen = broker.generation
                          => broker.parked = broker.generation
  /\ OnePromptPerGeneration

(* No worker starts prompting, and one that prompts keeps its generation. *)
NoNewPrompt ==
  \A v \in Workers :
    /\ proc'[v].gen \in {0, proc[v].gen, broker.generation}
    /\ Prompting(v)' => Prompting(v) /\ proc'[v].gen = proc[v].gen

(* One coroutine moves to local state r without prompting. *)
LEMMA MoveWithoutPrompt ==
  ASSUME ProcsInv, NEW p \in Procs, NEW r, proc' = [proc EXCEPT ![p] = r],
         p \in Workers => /\ r.gen \in {0, proc[p].gen, broker.generation}
                          /\ r.note = "blocked_auth" => Prompting(p) /\ r.gen = proc[p].gen
  PROVE  NoNewPrompt
BY DEF ProcsInv, NoNewPrompt, Prompting

(* Without a new prompt and with the broker as it was the invariant stands. *)
LEMMA QuietKeepsPrompts ==
  ASSUME broker.generation \in Nat, PromptInv, NoNewPrompt, broker' = broker
  PROVE  PromptInv'
BY DEF PromptInv, NoNewPrompt, Prompting, OnePromptPerGeneration

(* Entering the parking section changes w's stage and note and nobody else. *)
LEMMA EnterMoves ==
  ASSUME NEW w, NEW note, EnterParking(w, note)
  PROVE  \E pc : proc' = [proc EXCEPT ![w] = [proc[w] EXCEPT !.pc = pc, !.note = note]]
<1>1. CASE parkLock = NoProc
  <2>1. CASE disp.resumed
    BY <1>1, <2>1 DEF EnterParking, PauseDispatcher
  <2>2. CASE ~disp.resumed
    BY <1>1, <2>2 DEF EnterParking, PauseDispatcher
  <2> QED
    BY <2>1, <2>2
<1>2. CASE parkLock # NoProc
  BY <1>2 DEF EnterParking
<1> QED
  BY <1>1, <1>2

(* Of a worker's steps only a report that parks begins a prompt. *)
LEMMA WorkersPrompt ==
  ASSUME ProcsInv, broker.generation \in Nat, NEW w \in Workers, Working(w),
         ~(AuthFail(w) /\ ParksNow(proc[w].gen))
  PROVE  NoNewPrompt /\ broker' = broker
<1>a. w \in Procs /\ w \notin Jobs /\ proc[w] \in ProcState /\ ProcOK(w, proc[w], job)
  BY PipelineAssumption DEF Procs, ProcsInv
<1>b. ASSUME NEW pc, proc' = [proc EXCEPT ![w] = [proc[w] EXCEPT !.pc = pc]] PROVE NoNewPrompt
  BY <1>a, <1>b, MoveWithoutPrompt DEF ProcState, Prompting
<1>c. ASSUME NEW pc, NEW note, note # "blocked_auth" \/ note = proc[w].note,
             proc' = [proc EXCEPT ![w] = [proc[w] EXCEPT !.pc = pc, !.note = note]]
      PROVE  NoNewPrompt
  BY <1>a, <1>c, MoveWithoutPrompt DEF ProcState, Prompting
<1>d. ASSUME Rest(w) PROVE NoNewPrompt
  BY <1>a, <1>d, MoveWithoutPrompt DEF Rest, Idle
<1>e. ASSUME proc' = proc PROVE NoNewPrompt
  BY <1>e DEF NoNewPrompt, Prompting
<1>1. CASE Take(w)
  <2> DEFINE open == gates.auth /\ gates.run
             r == [Idle EXCEPT !.t = Head(buffer), !.pc = IF open THEN "prepare" ELSE "refuse",
                               !.gen = IF open THEN broker.generation ELSE 0]
  <2>1. proc' = [proc EXCEPT ![w] = r] /\ broker' = broker
    BY <1>1 DEF Take, authVars
  <2>2. r.gen \in {0, broker.generation} /\ r.note = ""
    BY DEF Idle
  <2> QED
    BY <1>a, <2>1, <2>2, MoveWithoutPrompt
<1>2. CASE Refuse(w) \/ Raise(w) \/ NoHandler(w)
  BY <1>2, <1>d DEF Refuse, Raise, NoHandler, authVars
<1>3. CASE Prepare(w)
  <2>1. PICK pc, tok : proc' = [proc EXCEPT ![w] = [proc[w] EXCEPT !.pc = pc, !.tok = tok]]
    BY <1>3 DEF Prepare
  <2> QED
    BY <1>a, <1>3, <2>1, MoveWithoutPrompt DEF Prepare, ProcState, Prompting, authVars
<1>4. CASE Send(w) \/ PlanOlder(w) \/ EndWalk(w) \/ Reject(w) \/ Limit(w)
  BY <1>4, <1>b DEF Send, PlanOlder, EndWalk, Reject, Limit, Goto, authVars
<1>5. CASE Succeed(w) \/ FailTransient(w) \/ FailFatal(w)
  <2>1. proc' = [proc EXCEPT ![w] = [Idle EXCEPT !.pc = "settle", !.t = proc[w].t]] /\ broker' = broker
    BY <1>5 DEF Succeed, FailTransient, FailFatal, ToSettle, authVars
  <2> QED
    BY <1>a, <2>1, MoveWithoutPrompt DEF Idle
<1>6. CASE NackPark(w)
  <2>1. PICK pc : proc' = [proc EXCEPT ![w] = [Idle EXCEPT !.gen = proc[w].gen, !.pc = pc]]
    BY <1>6 DEF NackPark
  <2> QED
    BY <1>a, <1>6, <2>1, MoveWithoutPrompt DEF NackPark, Idle, authVars
<1>7. CASE AuthFail(w)
  BY <1>7, <1>d DEF AuthFail
<1>8. CASE RateFail(w)
  <2>1. EnterParking(w, "blocked_rate") /\ broker' = broker
    BY <1>8 DEF RateFail
  <2>2. PICK pc : proc' = [proc EXCEPT ![w] = [proc[w] EXCEPT !.pc = pc, !.note = "blocked_rate"]]
    BY <2>1, EnterMoves
  <2> QED
    BY <1>c, <2>1, <2>2
<1>9. CASE TakeParkLock(w)
  <2>1. EnterParking(w, proc[w].note) /\ broker' = broker
    BY <1>9 DEF TakeParkLock, authVars
  <2>2. PICK pc : proc' = [proc EXCEPT ![w] = [proc[w] EXCEPT !.pc = pc, !.note = proc[w].note]]
    BY <2>1, EnterMoves
  <2> QED
    BY <1>c, <2>1, <2>2
<1>10. CASE Publish(w)
  BY <1>10, <1>d DEF Publish
<1>11. CASE Pausing(w)
  <2>1. CASE Drain(w) \/ ReleaseDrained(w)
    <3>1. PICK pc, rows : proc' = [proc EXCEPT ![w] = [proc[w] EXCEPT !.pc = pc, !.rows = rows]]
      <4>1. CASE Drain(w)
        BY <4>1 DEF Drain
      <4>2. CASE ReleaseDrained(w)
        BY <4>2 DEF ReleaseDrained
      <4> QED
        BY <2>1, <4>1, <4>2
    <3> QED
      BY <1>a, <2>1, <3>1, MoveWithoutPrompt
      DEF Drain, ReleaseDrained, ProcState, Prompting, authVars
  <2>2. CASE ParkSql(w)
    BY <1>b, <2>2 DEF ParkSql, Goto, authVars
  <2> QED
    BY <1>11, <2>1, <2>2 DEF Pausing
<1>12. CASE Settle(w)
  <2>1. CASE proc' = [proc EXCEPT ![w] = [Idle EXCEPT !.pc = "finish", !.t = proc[w].t,
                                                   !.note = TerminalStatus(Subject(w))]]
    <3>1. TerminalStatus(Subject(w)) # "blocked_auth"
      BY DEF TerminalStatus
    <3> HIDE DEF TerminalStatus
    <3> QED
      BY <1>a, <1>12, <2>1, <3>1, MoveWithoutPrompt DEF Settle, Idle, authVars
  <2>2. CASE Rest(w)
    BY <1>d, <1>12, <2>2 DEF Settle, authVars
  <2> QED
    BY <1>12, <2>1, <2>2 DEF Settle
<1>13. CASE Finish(w)
  BY <1>d, <1>13 DEF Finish, authVars
<1> QED
  BY <1>1, <1>2, <1>3, <1>4, <1>5, <1>6, <1>7, <1>8, <1>9, <1>10, <1>11, <1>12, <1>13
  DEF Working, Answer, Settling

(* A report that parks: its generation is the current one and the broker is
   not parked for it yet, so no other worker prompts for it. *)
LEMMA ParkingReport ==
  ASSUME ProcsInv, DispatcherInv, PromptInv, NEW w \in Workers, AuthFail(w), ParksNow(proc[w].gen)
  PROVE  PromptInv'
<1> DEFINE gen == proc[w].gen
<1>a. w \in Procs /\ proc[w] \in ProcState /\ gen \in Nat
      /\ broker \in [token : BOOLEAN, generation : Nat, parked : Nat]
  BY DEF Procs, ProcsInv, ProcState, DispatcherInv
<1>1. gen = broker.generation /\ broker.parked # broker.generation
  BY <1>a DEF ParksNow, PromptInv
<1>2. broker'.generation = broker.generation /\ broker'.parked = broker.generation
  BY <1>a, <1>1 DEF AuthFail
<1>3. PICK pc : proc' = [proc EXCEPT ![w] = [proc[w] EXCEPT !.pc = pc, !.note = "blocked_auth"]]
  BY EnterMoves DEF AuthFail
<1>4. proc'[w].gen = gen /\ proc'[w].note = "blocked_auth"
  BY <1>a, <1>3 DEF ProcsInv, ProcState
<1>5. ASSUME NEW v \in Workers, v # w PROVE proc'[v] = proc[v]
  BY <1>3, <1>5 DEF ProcsInv, Procs
<1>6. ASSUME NEW v \in Workers, v # w, Prompting(v) PROVE proc[v].gen # gen
  BY <1>1, <1>6 DEF PromptInv
<1> QED
  BY <1>1, <1>2, <1>4, <1>5, <1>6 DEF PromptInv, Prompting, OnePromptPerGeneration

(* Everything that is no worker's step. *)
LEMMA OthersPrompt ==
  ASSUME PipeInv, DownInv, PromptInv, [PipelineNext]_vars,
         ~ \E w \in Workers : Working(w)
  PROVE  PromptInv'
<1>a. /\ proc \in [Procs -> ProcState] /\ ProcsInv
      /\ broker \in [token : BOOLEAN, generation : Nat, parked : Nat]
      /\ Workers \subseteq Procs
  BY DEF PipeInv, ProcsInv, DispatcherInv, Procs
<1>e. ASSUME proc' = proc PROVE NoNewPrompt
  BY <1>e DEF NoNewPrompt, Prompting
<1>f. ASSUME NEW p \in Procs \ Workers, NEW r, proc' = [proc EXCEPT ![p] = r] PROVE NoNewPrompt
  BY <1>a, <1>f, MoveWithoutPrompt
<1>g. ASSUME NoNewPrompt, broker' = broker PROVE PromptInv'
  BY <1>a, <1>g, QuietKeepsPrompts
<1>m. "modeLoop" \in Procs \ Workers /\ "login" \in Procs \ Workers /\ Jobs \subseteq Procs \ Workers
  BY PipelineAssumption DEF Procs
<1>1. CASE Dispatching \/ Time \/ UNCHANGED vars
  BY <1>1, <1>e, <1>g
  DEF Dispatching, RefillAsk, RefillCommit, RefillDeliver, StrayCommit, authVars,
      Time, ReclaimLoop, Lapse, EndBackoff, vars
<1>2. ASSUME NEW p \in Procs \ Workers, Pausing(p) \/ Settling(p) PROVE PromptInv'
  <2>1. PICK r : proc' = [proc EXCEPT ![p] = r]
    BY <1>2 DEF Pausing, Drain, ReleaseDrained, ParkSql, Rest, Settling, Settle, Finish
  <2>2. broker' = broker
    BY <1>2 DEF Pausing, Drain, ReleaseDrained, ParkSql, Settling, Settle, Finish, authVars
  <2> QED
    BY <1>f, <1>g, <2>1, <2>2
<1>p. ASSUME NEW p, NEW note, PauseDispatcher(p, note) PROVE \E r : proc' = [proc EXCEPT ![p] = r]
  BY <1>p DEF PauseDispatcher
<1>3. ASSUME NEW j \in Jobs, Cancelling(j) PROVE PromptInv'
  <2>1. CASE CancelFlag(j) \/ CancelPause(j) \/ CancelSweep(j) \/ CancelRestart(j)
    <3>1. \E r : proc' = [proc EXCEPT ![j] = r]
      BY <1>p, <2>1 DEF CancelFlag, CancelPause, CancelSweep, CancelRestart, Goto
    <3>2. broker' = broker
      BY <2>1 DEF CancelFlag, CancelPause, CancelSweep, CancelRestart, authVars
    <3> QED
      BY <1>f, <1>g, <1>m, <3>1, <3>2
  <2> QED
    BY <1>2, <1>3, <1>m, <2>1 DEF Cancelling
<1>4. ASSUME NEW j \in Jobs, UserOfJob(j) PROVE PromptInv'
  <2>1. broker' = broker
    BY <1>4 DEF UserOfJob, StartJob, CancelCall, PauseRoute, ResumeRead, ResumeWrite, authVars
  <2>2. proc' = proc \/ \E r : proc' = [proc EXCEPT ![j] = r]
    BY <1>4 DEF UserOfJob, StartJob, CancelCall, PauseRoute, ResumeRead, ResumeWrite, Goto
  <2> QED
    BY <1>e, <1>f, <1>g, <1>m, <2>1, <2>2
<1>5. CASE FollowMode \/ UnparkRate \/ ResumeDispatcher
  <2>1. broker' = broker
    BY <1>5 DEF FollowMode, UnparkRate, ResumeDispatcher, authVars
  <2>2. proc' = proc \/ \E r : proc' = [proc EXCEPT !["modeLoop"] = r]
    BY <1>5, <1>p DEF FollowMode, UnparkRate, ResumeDispatcher, Goto, Rest
  <2> QED
    BY <1>e, <1>f, <1>g, <1>m, <2>1, <2>2
<1>6. CASE StoreLogin
  <2>1. NoNewPrompt
    BY <1>6, <1>f, <1>m DEF StoreLogin, Goto
  <2>2. broker'.generation = broker.generation + 1
    BY <1>6 DEF StoreLogin
  <2>3. ASSUME NEW v \in Workers PROVE proc'[v].gen <= broker.generation
    BY <1>a, <2>1, <2>3 DEF NoNewPrompt, PromptInv, ProcState
  <2>4. ASSUME NEW v \in Workers PROVE proc'[v].gen \in Nat
    BY <1>a, <2>1, <2>4 DEF NoNewPrompt, ProcState
  <2> QED
    BY <1>a, <2>1, <2>2, <2>3, <2>4 DEF NoNewPrompt, PromptInv, Prompting, OnePromptPerGeneration
<1>7. CASE LiftPausedAuth \/ RequeueBlockedAuth
  BY <1>7, <1>f, <1>g, <1>m DEF LiftPausedAuth, RequeueBlockedAuth, Goto, Rest, authVars
<1>8. CASE Disconnect
  <2>1. proc' = proc /\ broker'.generation = broker.generation /\ broker'.parked = broker.generation
    BY <1>a, <1>8 DEF Disconnect
  <2> QED
    BY <1>a, <2>1 DEF PromptInv, Prompting, OnePromptPerGeneration
<1>9. CASE Crash \/ Stop \/ Start
  <2>1. proc' = [p \in Procs |-> Idle] /\ broker'.generation = broker.generation
    BY <1>9, <1>a DEF Crash, Stop, Forget, Start, DownInv
  <2>2. ASSUME NEW v \in Workers PROVE proc'[v].gen = 0 /\ ~Prompting(v)'
    BY <1>a, <2>1 DEF Idle, Prompting
  <2> QED
    BY <1>a, <2>1, <2>2 DEF PromptInv, Prompting, OnePromptPerGeneration
<1> QED
  BY <1>1, <1>2, <1>3, <1>4, <1>5, <1>6, <1>7, <1>8, <1>9, <1>m
  DEF PipelineNext, FollowingMode, LoggingIn

(* Eight rejections, one prompt: however the reports of one generation and the
   logins that answer them interleave, no two workers park the pipeline for
   the same generation. *)
THEOREM OnePromptPerGenerationAlways == PipelineSpec => []OnePromptPerGeneration
<1>1. PipelineInit => DownInv /\ PromptInv
  <2> SUFFICES ASSUME PipelineInit PROVE DownInv /\ PromptInv
    OBVIOUS
  <2>1. ASSUME NEW w \in Workers PROVE proc[w].gen = 0 /\ ~Prompting(w)
    BY DEF PipelineInit, Procs, Idle, Prompting
  <2>2. up /\ broker.generation = 1
    BY DEF PipelineInit
  <2> QED
    BY <2>1, <2>2 DEF DownInv, PromptInv, OnePromptPerGeneration, Prompting
<1>2. PipelineInv /\ DownInv /\ PromptInv /\ [PipelineNext]_vars => DownInv' /\ PromptInv'
  <2> SUFFICES ASSUME PipelineInv, DownInv, PromptInv, [PipelineNext]_vars
               PROVE  DownInv' /\ PromptInv'
    OBVIOUS
  <2>a. PipeInv /\ up \in BOOLEAN /\ broker.generation \in Nat
    BY DEF PipelineInv, PipeInv, RunsCounted, DispatcherInv
  <2>1. DownInv'
    BY <2>a, DownStep
  <2>2. ASSUME NEW w \in Workers, Working(w) PROVE PromptInv'
    BY <2>a, <2>2, ParkingReport, WorkersPrompt, QuietKeepsPrompts DEF PipeInv
  <2> QED
    BY <2>a, <2>1, <2>2, OthersPrompt
<1> QED
  BY <1>1, <1>2, PipelineInvAlways, PTL DEF PipelineSpec, PromptInv

-----------------------------------------------------------------------------
(* The dispatcher's room. *)

(* LIMIT n returns at most n rows: each row of the answer has a place of its
   own below n, the number of rows ahead of it. *)
LEMMA FirstOfIsSmall ==
  ASSUME NEW S \in SUBSET Tasks, NEW n \in Nat
  PROVE  IsFiniteSet(FirstOf(S, n)) /\ Cardinality(FirstOf(S, n)) <= n
<1> DEFINE ahead(t) == {u \in S : u < t}
           place == [t \in FirstOf(S, n) |-> Cardinality(ahead(t))]
<1>0. IsFiniteSet(S) /\ S \subseteq Nat
  BY TasksAssumption, FS_Subset
<1>1. ASSUME NEW t \in S PROVE IsFiniteSet(ahead(t)) /\ Cardinality(ahead(t)) \in Nat
  BY <1>0, FS_Subset, FS_CardinalityType
<1>2. ASSUME NEW t \in S, NEW v \in S, t < v PROVE Cardinality(ahead(t)) < Cardinality(ahead(v))
  <2>0. ASSUME NEW u \in S, u < t PROVE u < v
    BY <1>0, <1>2, <2>0
  <2>1. ahead(t) \subseteq ahead(v)
    BY <2>0
  <2>3. t \in ahead(v) /\ t \notin ahead(t)
    BY <1>0, <1>2
  <2>2. Cardinality(ahead(t)) <= Cardinality(ahead(v))
        /\ Cardinality(ahead(v)) # Cardinality(ahead(t))
    BY <1>1, <2>1, <2>3, FS_Subset
  <2> QED
    BY <1>1, <2>2
<1>3. place \in [FirstOf(S, n) -> 0 .. (n - 1)]
  BY <1>1 DEF FirstOf
<1>4. IsInjective(place)
  <2>1. ASSUME NEW t \in FirstOf(S, n), NEW v \in FirstOf(S, n), place[t] = place[v]
        PROVE  t = v
    <3>1. t \in S /\ v \in S /\ t \in Nat /\ v \in Nat
      BY <1>0 DEF FirstOf
    <3>2. ~(t < v) /\ ~(v < t)
      BY <1>1, <1>2, <2>1, <3>1
    <3> QED
      BY <3>1, <3>2
  <2> QED
    BY <2>1 DEF IsInjective
<1>5. place \in Injection(FirstOf(S, n), 0 .. (n - 1))
  BY <1>3, <1>4 DEF Injection
<1>6. IsFiniteSet(0 .. (n - 1)) /\ Cardinality(0 .. (n - 1)) <= n
  <2>1. 0 \in Int /\ n - 1 \in Int
    OBVIOUS
  <2>2. IsFiniteSet(0 .. (n - 1))
        /\ Cardinality(0 .. (n - 1)) = IF 0 > n - 1 THEN 0 ELSE (n - 1) - 0 + 1
    BY <2>1, FS_Interval
  <2> QED
    BY <2>2
<1>7. /\ IsFiniteSet(FirstOf(S, n))
      /\ Cardinality(FirstOf(S, n)) <= Cardinality(0 .. (n - 1))
  BY <1>5, <1>6, FS_Injection
<1>8. Cardinality(FirstOf(S, n)) \in Nat /\ Cardinality(0 .. (n - 1)) \in Nat
  BY <1>6, <1>7, FS_CardinalityType
<1> QED
  BY <1>6, <1>7, <1>8

(* What the refill asked for fits, and so does what it got: the puts never
   block.  A stopped dispatcher has no refill under way, and its buffer is empty
   unless a pause has yet to drain it. *)
RoomInv ==
  /\ disp.loop = "asked" => disp.room >= 1 /\ Len(buffer) + disp.room <= Capacity
  /\ IsFiniteSet(disp.rows) /\ Len(buffer) + Cardinality(disp.rows) <= Capacity
  /\ disp.loop # "got" => disp.rows = {}
  /\ ~disp.resumed => disp = StoppedDispatcher
  /\ PausedBufferEmpty

DrainsGoOn == \A p \in Procs : proc[p].pc = "drain" => proc'[p].pc = "drain"

(* The dispatcher is left alone and no drain ends. *)
LEMMA RoomUndisturbed ==
  ASSUME RoomInv, UNCHANGED <<buffer, disp>>, DrainsGoOn
  PROVE  RoomInv'
BY DEF RoomInv, DrainsGoOn, PausedBufferEmpty

(* A coroutine that is not draining moves. *)
LEMMA OtherDrainsGoOn ==
  ASSUME ProcsInv, NEW p \in Procs, proc[p].pc # "drain", NEW r,
         proc' = [proc EXCEPT ![p] = r]
  PROVE  DrainsGoOn
BY DEF ProcsInv, DrainsGoOn

(* A stopped dispatcher has room for its empty buffer, and a running one only
   starts to fill it. *)
LEMMA FreshRoom ==
  ASSUME DispatcherInv, Len(buffer) <= Capacity, disp' \in {StoppedDispatcher, RunningDispatcher},
         buffer' = buffer, PausedBufferEmpty'
  PROVE  RoomInv'
<1>1. IsFiniteSet({}) /\ Cardinality({}) = 0 /\ Len(buffer) \in Nat
  BY FS_EmptySet DEF DispatcherInv
<1>2. disp'.loop # "asked" /\ disp'.rows = {}
      /\ (disp'.resumed \/ disp' = StoppedDispatcher)
  BY DEF StoppedDispatcher, RunningDispatcher
<1> QED
  BY <1>1, <1>2 DEF RoomInv

(* The buffer never overflows. *)
LEMMA BufferFits ==
  ASSUME DispatcherInv, RoomInv
  PROVE  Len(buffer) <= Capacity
<1>1. Len(buffer) \in Nat /\ Cardinality(disp.rows) \in Nat
  BY FS_CardinalityType DEF DispatcherInv, RoomInv
<1> QED
  BY <1>1, PipelineAssumption DEF RoomInv

(* Pausing: the refill is gone, and either a drain is due or the buffer was
   already empty or being drained. *)
LEMMA RoomAfterPause ==
  ASSUME PipeInv, RoomInv, NEW p \in Procs, proc[p].pc # "drain", NEW note,
         PauseDispatcher(p, note)
  PROVE  RoomInv'
<1>1. CASE disp.resumed
  <2>1. disp' = StoppedDispatcher /\ buffer' = buffer
        /\ proc' = [proc EXCEPT ![p].pc = "drain", ![p].note = note]
    BY <1>1 DEF PauseDispatcher
  <2>2. proc'[p].pc = "drain"
    BY <2>1 DEF PipeInv, ProcsInv, ProcState
  <2>3. PausedBufferEmpty'
    BY <2>2 DEF PausedBufferEmpty
  <2> QED
    BY <2>1, <2>3, FreshRoom, BufferFits DEF PipeInv
<1>2. CASE ~disp.resumed
  <2>1. UNCHANGED <<buffer, disp>> /\ \E r : proc' = [proc EXCEPT ![p] = r]
    BY <1>2 DEF PauseDispatcher
  <2> QED
    BY <2>1, OtherDrainsGoOn, RoomUndisturbed DEF PipeInv
<1> QED
  BY <1>1, <1>2

(* Resuming changes nothing or starts an idle refill. *)
LEMMA RoomAfterResume ==
  ASSUME PipeInv, RoomInv, buffer' = buffer, disp' = Resumed \/ disp' = disp, DrainsGoOn
  PROVE  RoomInv'
<1>1. CASE disp' = disp
  BY <1>1, RoomUndisturbed
<1>2. CASE disp' # disp
  <2>1. disp' = RunningDispatcher
    BY <1>2 DEF Resumed
  <2>2. PausedBufferEmpty'
    BY <2>1 DEF PausedBufferEmpty, RunningDispatcher
  <2> QED
    BY <2>1, <2>2, FreshRoom, BufferFits DEF PipeInv
<1> QED
  BY <1>1, <1>2

(* The refill asks for what is free, gets at most that and delivers what it got. *)
LEMMA RoomOfDispatching ==
  ASSUME PipeInv, RoomInv, Dispatching
  PROVE  RoomInv'
<1>a. /\ buffer \in Seq(Tasks) /\ Len(buffer) \in Nat /\ Capacity \in Nat
      /\ disp \in [resumed : BOOLEAN, loop : {"none", "idle", "asked", "got"},
                   room : 0 .. Capacity, rows : SUBSET Tasks]
      /\ IsFiniteSet(disp.rows) /\ Cardinality(disp.rows) \in Nat
  BY PipelineAssumption, FS_CardinalityType DEF PipeInv, DispatcherInv, RoomInv
<1>b. disp.loop # "none" => disp.resumed
  BY DEF RoomInv, StoppedDispatcher
<1>1. CASE RefillAsk
  <2>1. /\ buffer' = buffer /\ disp.resumed /\ disp.loop = "idle" /\ Len(buffer) < Capacity
        /\ disp' = [disp EXCEPT !.loop = "asked", !.room = Capacity - Len(buffer)]
    BY <1>1 DEF RefillAsk
  <2>2. /\ disp'.loop = "asked" /\ disp'.room = Capacity - Len(buffer) /\ disp'.rows = disp.rows
        /\ disp'.resumed
    BY <1>a, <2>1
  <2> QED
    BY <1>a, <2>1, <2>2 DEF RoomInv, PausedBufferEmpty
<1>2. CASE RefillCommit
  <2>1. /\ buffer' = buffer /\ disp.loop = "asked"
        /\ disp' = [disp EXCEPT !.loop = "got", !.room = 0, !.rows = LeaseSelection(disp.room)]
    BY <1>2 DEF RefillCommit
  <2>2. /\ disp'.loop = "got" /\ disp'.rows = LeaseSelection(disp.room) /\ disp'.resumed
    BY <1>a, <1>b, <2>1
  <2>3. IsFiniteSet(disp'.rows) /\ Cardinality(disp'.rows) <= disp.room
        /\ Cardinality(disp'.rows) \in Nat
    BY <1>a, <2>2, FirstOfIsSmall, FS_CardinalityType DEF LeaseSelection
  <2>4. Len(buffer) + disp.room <= Capacity /\ disp.room \in Nat
    BY <1>a, <2>1 DEF RoomInv
  <2>5. Len(buffer) + Cardinality(disp'.rows) <= Capacity
    BY <1>a, <2>3, <2>4
  <2> QED
    BY <2>1, <2>2, <2>3, <2>5 DEF RoomInv, PausedBufferEmpty
<1>3. CASE RefillDeliver
  <2>1. PICK batch \in [1 .. Cardinality(disp.rows) -> disp.rows] : buffer' = buffer \o batch
    BY <1>3 DEF RefillDeliver
  <2>2. disp.loop = "got" /\ disp' = [disp EXCEPT !.loop = "idle", !.rows = {}]
    BY <1>3 DEF RefillDeliver
  <2>3. batch \in Seq(Tasks) /\ Len(batch) = Cardinality(disp.rows)
    BY <1>a
  <2>4. Len(buffer') = Len(buffer) + Cardinality(disp.rows) /\ Len(buffer') \in Nat
    BY <1>a, <2>1, <2>3
  <2>5. disp'.loop = "idle" /\ disp'.rows = {} /\ disp'.resumed
    BY <1>a, <1>b, <2>2
  <2>6. IsFiniteSet(disp'.rows) /\ Cardinality(disp'.rows) = 0
    BY <2>5, FS_EmptySet
  <2>7. Len(buffer') <= Capacity
    BY <2>4 DEF RoomInv
  <2> QED
    BY <2>4, <2>5, <2>6, <2>7 DEF RoomInv, PausedBufferEmpty
<1>4. CASE StrayCommit
  BY <1>4, RoomUndisturbed DEF StrayCommit, DrainsGoOn
<1> QED
  BY <1>1, <1>2, <1>3, <1>4 DEF Dispatching

(* A pause's later stages: the drain empties the buffer. *)
LEMMA RoomOfPausing ==
  ASSUME PipeInv, RoomInv, NEW p \in Procs, Pausing(p)
  PROVE  RoomInv'
<1>1. CASE Drain(p)
  <2>1. buffer' = <<>> /\ disp' = disp
    BY <1>1 DEF Drain
  <2>2. Len(buffer) \in Nat /\ Len(buffer') = 0 /\ Cardinality(disp.rows) \in Nat
    BY <2>1, FS_CardinalityType DEF PipeInv, DispatcherInv, RoomInv
  <2>3. disp.room \in Nat
    BY DEF PipeInv, DispatcherInv
  <2> QED
    BY <2>1, <2>2, <2>3, PipelineAssumption DEF RoomInv, PausedBufferEmpty
<1>2. CASE ReleaseDrained(p) \/ ParkSql(p)
  <2>1. UNCHANGED <<buffer, disp>> /\ proc[p].pc # "drain" /\ \E r : proc' = [proc EXCEPT ![p] = r]
    BY <1>2 DEF ReleaseDrained, ParkSql, Goto, Rest, At, dispVars
  <2> QED
    BY <2>1, OtherDrainsGoOn, RoomUndisturbed DEF PipeInv
<1> QED
  BY <1>1, <1>2 DEF Pausing

(* A worker takes from the buffer, and pauses the dispatcher when it parks. *)
LEMMA RoomOfWorking ==
  ASSUME PipeInv, RoomInv, NEW w \in Workers, Working(w)
  PROVE  RoomInv'
<1>a. w \in Procs /\ ProcsInv
  BY DEF Procs, PipeInv
<1>b. ASSUME UNCHANGED <<buffer, disp>>, proc[w].pc # "drain", NEW r, proc' = [proc EXCEPT ![w] = r]
      PROVE  RoomInv'
  BY <1>a, <1>b, OtherDrainsGoOn, RoomUndisturbed
<1>c. ASSUME proc[w].pc # "drain", NEW note, EnterParking(w, note) PROVE RoomInv'
  <2>1. CASE parkLock = NoProc
    BY <1>a, <1>c, <2>1, RoomAfterPause DEF EnterParking
  <2>2. CASE parkLock # NoProc
    BY <1>b, <1>c, <2>2 DEF EnterParking, dispVars
  <2> QED
    BY <2>1, <2>2
<1>1. CASE Take(w)
  <2>1. buffer # <<>> /\ buffer' = Tail(buffer) /\ disp' = disp /\ proc[w].pc = "idle"
        /\ \E r : proc' = [proc EXCEPT ![w] = r]
    BY <1>1 DEF Take, At
  <2>2. Len(buffer) \in Nat \ {0} /\ Len(buffer') = Len(buffer) - 1
    BY <2>1 DEF PipeInv, DispatcherInv
  <2>3. DrainsGoOn
    BY <1>a, <2>1, OtherDrainsGoOn
  <2>4. Cardinality(disp.rows) \in Nat /\ disp.room \in Nat /\ Capacity \in Nat
    BY PipelineAssumption, FS_CardinalityType DEF PipeInv, DispatcherInv, RoomInv
  <2> QED
    BY <2>1, <2>2, <2>3, <2>4 DEF RoomInv, PausedBufferEmpty, DrainsGoOn
<1>2. CASE \/ Refuse(w) \/ Prepare(w) \/ Send(w) \/ PlanOlder(w) \/ EndWalk(w) \/ NackPark(w)
           \/ Answer(w) \/ Settling(w)
  <2>1. UNCHANGED <<buffer, disp>> /\ proc[w].pc # "drain" /\ \E r : proc' = [proc EXCEPT ![w] = r]
    BY <1>2
    DEF Refuse, Prepare, Send, PlanOlder, EndWalk, NackPark, Answer, Succeed, FailTransient,
        FailFatal, NoHandler, Raise, Reject, Limit, Settling, Settle, Finish, At, Goto, Rest,
        ToSettle, dispVars
  <2> QED
    BY <1>b, <2>1
<1>3. CASE AuthFail(w) \/ RateFail(w) \/ TakeParkLock(w) \/ Publish(w)
  <2>1. proc[w].pc # "drain"
    BY <1>3 DEF AuthFail, RateFail, TakeParkLock, Publish, At
  <2>2. CASE \E note : EnterParking(w, note)
    BY <1>c, <2>1, <2>2
  <2>3. CASE ~ \E note : EnterParking(w, note)
    <3>1. UNCHANGED <<buffer, disp>> /\ \E r : proc' = [proc EXCEPT ![w] = r]
      BY <1>3, <2>3 DEF AuthFail, RateFail, TakeParkLock, Publish, Rest, dispVars
    <3> QED
      BY <1>b, <2>1, <3>1
  <2> QED
    BY <2>2, <2>3
<1> QED
  BY <1>1, <1>2, <1>3, <1>a, RoomOfPausing DEF Working

(* Whatever the coroutines do the buffer has room for what the refill brings,
   and a paused dispatcher keeps nothing back. *)
LEMMA RoomStep ==
  ASSUME PipeInv, DownInv, RoomInv, [PipelineNext]_vars
  PROVE  RoomInv'
<1>a. ProcsInv /\ "modeLoop" \in Procs /\ "login" \in Procs /\ Jobs \subseteq Procs
  BY DEF Procs, PipeInv
<1>b. ASSUME UNCHANGED <<buffer, disp>>, NEW p \in Procs, proc[p].pc # "drain",
             NEW r, proc' = [proc EXCEPT ![p] = r]
      PROVE  RoomInv'
  BY <1>a, <1>b, OtherDrainsGoOn, RoomUndisturbed
<1>c. ASSUME UNCHANGED <<buffer, disp, proc>> PROVE RoomInv'
  BY <1>c, RoomUndisturbed DEF DrainsGoOn
<1>1. CASE Dispatching
  BY <1>1, RoomOfDispatching
<1>2. ASSUME NEW w \in Workers, Working(w) PROVE RoomInv'
  BY <1>2, RoomOfWorking
<1>3. ASSUME NEW p \in Procs, Settling(p) PROVE RoomInv'
  <2>1. UNCHANGED <<buffer, disp>> /\ proc[p].pc # "drain" /\ \E r : proc' = [proc EXCEPT ![p] = r]
    BY <1>3 DEF Settling, Settle, Finish, At, Rest, dispVars
  <2> QED
    BY <1>b, <1>3, <2>1
<1>4. ASSUME NEW j \in Jobs, Cancelling(j) PROVE RoomInv'
  <2>1. CASE CancelFlag(j) \/ CancelSweep(j)
    <3>1. UNCHANGED <<buffer, disp>> /\ proc[j].pc # "drain" /\ \E r : proc' = [proc EXCEPT ![j] = r]
      BY <2>1 DEF CancelFlag, CancelSweep, At, Goto, dispVars
    <3> QED
      BY <1>a, <1>b, <3>1
  <2>2. CASE CancelPause(j)
    BY <1>a, <2>2, RoomAfterPause DEF CancelPause, At
  <2>3. CASE CancelRestart(j)
    <3>1. DrainsGoOn
      BY <1>a, <2>3, OtherDrainsGoOn DEF CancelRestart, At
    <3> QED
      BY <2>3, <3>1, RoomAfterResume DEF CancelRestart
  <2> QED
    BY <1>3, <1>4, <1>a, <2>1, <2>2, <2>3, RoomOfPausing DEF Cancelling
<1>5. ASSUME NEW j \in Jobs, UserOfJob(j) PROVE RoomInv'
  <2>1. CASE CancelCall(j)
    <3>1. UNCHANGED <<buffer, disp>> /\ proc[j].pc # "drain" /\ \E r : proc' = [proc EXCEPT ![j] = r]
      BY <2>1 DEF CancelCall, At, Goto, dispVars
    <3> QED
      BY <1>a, <1>b, <3>1
  <2>2. CASE StartJob(j) \/ PauseRoute(j) \/ ResumeRead(j) \/ ResumeWrite(j)
    BY <1>c, <2>2 DEF StartJob, PauseRoute, ResumeRead, ResumeWrite, dispVars
  <2> QED
    BY <1>5, <2>1, <2>2 DEF UserOfJob
<1>6. CASE FollowingMode
  <2>1. CASE FollowMode
    <3>1. proc["modeLoop"].pc # "drain"
      BY <2>1 DEF FollowMode, At
    <3>2. CASE mode = "running"
      <4>1. UNCHANGED <<buffer, disp>>
            /\ (UNCHANGED proc \/ \E r : proc' = [proc EXCEPT !["modeLoop"] = r])
        BY <2>1, <3>2 DEF FollowMode, Goto, dispVars
      <4> QED
        BY <1>a, <1>b, <1>c, <3>1, <4>1
    <3>3. CASE mode # "running"
      BY <1>a, <2>1, <3>1, <3>3, RoomAfterPause DEF FollowMode
    <3> QED
      BY <3>2, <3>3
  <2>2. CASE UnparkRate
    <3>1. UNCHANGED <<buffer, disp>> /\ proc["modeLoop"].pc # "drain"
          /\ \E r : proc' = [proc EXCEPT !["modeLoop"] = r]
      BY <2>2 DEF UnparkRate, At, Goto, dispVars
    <3> QED
      BY <1>a, <1>b, <3>1
  <2>3. CASE ResumeDispatcher
    <3>1. DrainsGoOn
      BY <1>a, <2>3, OtherDrainsGoOn DEF ResumeDispatcher, At, Rest
    <3> QED
      BY <2>3, <3>1, RoomAfterResume DEF ResumeDispatcher
  <2> QED
    BY <1>6, <1>a, <2>1, <2>2, <2>3, RoomOfPausing DEF FollowingMode
<1>7. CASE LoggingIn \/ Disconnect
  <2>1. UNCHANGED <<buffer, disp>>
        /\ \/ UNCHANGED proc
           \/ /\ proc["login"].pc # "drain"
              /\ \E r : proc' = [proc EXCEPT !["login"] = r]
    BY <1>7 DEF LoggingIn, StoreLogin, LiftPausedAuth, RequeueBlockedAuth, Disconnect, At, Goto,
                Rest, dispVars
  <2> QED
    BY <1>a, <1>b, <1>c, <2>1
<1>8. CASE Time \/ UNCHANGED vars
  BY <1>8, <1>c DEF Time, ReclaimLoop, Lapse, EndBackoff, dispVars, vars
<1>9. CASE Crash \/ Stop
  <2>1. buffer' = <<>> /\ disp' = StoppedDispatcher
    BY <1>9 DEF Crash, Stop, Forget
  <2>2. Len(buffer') = 0 /\ Capacity \in Nat /\ IsFiniteSet({}) /\ Cardinality({}) = 0
    BY <2>1, PipelineAssumption, FS_EmptySet
  <2> QED
    BY <2>1, <2>2 DEF RoomInv, PausedBufferEmpty, StoppedDispatcher
<1>10. CASE Start
  <2>1. buffer' = <<>> /\ buffer' = buffer /\ disp' \in {StoppedDispatcher, RunningDispatcher}
    <3>1. CASE broker.token
      BY <1>10, <3>1 DEF Start, DownInv
    <3>2. CASE ~broker.token
      BY <1>10, <3>2 DEF Start, DownInv
    <3> QED
      BY <3>1, <3>2
  <2> QED
    BY <2>1, FreshRoom, BufferFits DEF PipeInv, PausedBufferEmpty
<1> QED
  BY <1>1, <1>2, <1>3, <1>4, <1>5, <1>6, <1>7, <1>8, <1>9, <1>10 DEF PipelineNext

-----------------------------------------------------------------------------
(* Buffers. *)

Distinct(s) == \A i, k \in DOMAIN s : i # k => s[i] # s[k]

(* Taking the head of a buffer without duplicates leaves the others. *)
LEMMA TailIsDistinct ==
  ASSUME NEW T, NEW s \in Seq(T), s # <<>>, Distinct(s)
  PROVE  /\ Distinct(Tail(s)) /\ ToSet(Tail(s)) \subseteq ToSet(s)
         /\ Head(s) \in ToSet(s) /\ Head(s) \notin ToSet(Tail(s))
<1>1. Len(s) \in Nat \ {0} /\ DOMAIN s = 1 .. Len(s) /\ DOMAIN Tail(s) = 1 .. (Len(s) - 1)
  OBVIOUS
<1>2. \A i \in DOMAIN Tail(s) : Tail(s)[i] = s[i + 1] /\ i + 1 \in DOMAIN s /\ i + 1 # 1
  OBVIOUS
<1>3. Head(s) = s[1] /\ 1 \in DOMAIN s
  OBVIOUS
<1>4. Distinct(Tail(s))
  BY <1>1, <1>2 DEF Distinct
<1> QED
  BY <1>1, <1>2, <1>3, <1>4 DEF Distinct, ToSet

(* Putting fresh rows behind a buffer. *)
LEMMA ConcatIsDistinct ==
  ASSUME NEW T, NEW s \in Seq(T), NEW b \in Seq(T), Distinct(s), Distinct(b),
         ToSet(s) \cap ToSet(b) = {}
  PROVE  Distinct(s \o b) /\ ToSet(s \o b) \subseteq ToSet(s) \cup ToSet(b)
<1>1. /\ DOMAIN s = 1 .. Len(s) /\ DOMAIN b = 1 .. Len(b) /\ DOMAIN (s \o b) = 1 .. (Len(s) + Len(b))
      /\ Len(s) \in Nat /\ Len(b) \in Nat
  OBVIOUS
<1>2. ASSUME NEW i \in DOMAIN (s \o b)
      PROVE  \/ i \in DOMAIN s /\ (s \o b)[i] = s[i]
             \/ i \notin DOMAIN s /\ i - Len(s) \in DOMAIN b /\ (s \o b)[i] = b[i - Len(s)]
  BY <1>1
<1>3. ASSUME NEW i \in DOMAIN s, NEW k \in DOMAIN b PROVE s[i] # b[k]
  BY DEF ToSet
<1>4. ASSUME NEW i \in DOMAIN (s \o b), NEW k \in DOMAIN (s \o b), i # k
      PROVE  (s \o b)[i] # (s \o b)[k]
  <2>1. CASE i \in DOMAIN s /\ k \in DOMAIN s
    BY <1>2, <1>4, <2>1 DEF Distinct
  <2>2. CASE i \notin DOMAIN s /\ k \notin DOMAIN s
    <3>1. i - Len(s) # k - Len(s)
      BY <1>1, <1>4
    <3> QED
      BY <1>2, <2>2, <3>1 DEF Distinct
  <2>3. CASE (i \in DOMAIN s) # (k \in DOMAIN s)
    BY <1>2, <1>3, <2>3
  <2> QED
    BY <2>1, <2>2, <2>3
<1>5. ASSUME NEW i \in DOMAIN (s \o b) PROVE (s \o b)[i] \in ToSet(s) \cup ToSet(b)
  BY <1>2 DEF ToSet
<1> QED
  BY <1>4, <1>5 DEF Distinct, ToSet

-----------------------------------------------------------------------------
(* Rows in one hand. *)

(* What coroutine p has in its hands: the task it works on, or the rows it
   drained and is about to release. *)
Hand(p) ==
  (IF p \in Workers /\ proc[p].pc \in HoldingPCs THEN {proc[p].t} ELSE {}) \cup proc[p].rows

Hands == ToSet(buffer) \cup disp.rows \cup UNION {Hand(p) : p \in Procs}

HeldFast(t) == Holds(run, t) /\ ~task[t].lapsed

(* Every row in a hand of this process is leased to it, and no two hands share
   one; drained rows are held only up to their release. *)
HandsInv ==
  /\ \A t \in Hands : HeldFast(t)
  /\ Distinct(buffer)
  /\ ToSet(buffer) \cap disp.rows = {}
  /\ \A p \in Procs : Hand(p) \cap (ToSet(buffer) \cup disp.rows) = {}
  /\ \A p, q \in Procs : p # q => Hand(p) \cap Hand(q) = {}
  /\ \A p \in Procs : proc[p].rows # {} => proc[p].pc = "release"

(* The statements that cannot touch a row held under a live lease: claims and
   sweeps look for pending rows, reclaims for lapsed ones, inserts for none. *)
LEMMA FastRowsStay ==
  ASSUME TypeOK, NEW t \in Tasks, HeldFast(t),
         \/ task' = task
         \/ \E owner, limit : Lease(owner, limit)
         \/ ReclaimExpiredLeases
         \/ \E j \in Jobs : CancelPending(j)
         \/ \E j, rows : SkipOlder(j, rows)
         \/ \E u : InsertFollowup(u)
         \/ \E j, status, rows : CommitJob(j, status, rows)
         \/ \E u : BackoffEnds(u)
         \/ \E rows, state : SetState(rows, state) /\ t \notin rows
  PROVE  task'[t] = task[t]
<1>1. task[t].state = "leased" /\ ~task[t].lapsed /\ task \in [Tasks -> TaskRow]
  BY DEF HeldFast, Holds, TypeOK
<1>2. ASSUME NEW rows, NEW state, SetState(rows, state), t \notin rows PROVE task'[t] = task[t]
  BY <1>2 DEF SetState
<1>3. ASSUME NEW owner, NEW limit, Lease(owner, limit) PROVE task'[t] = task[t]
  BY <1>1, <1>3 DEF Lease, LeaseSelection, FirstOf, Leasable
<1>4. ASSUME NEW u, BackoffEnds(u) PROVE task'[t] = task[t]
  BY <1>1, <1>4 DEF BackoffEnds
<1>5. ASSUME ReclaimExpiredLeases PROVE task'[t] = task[t]
  BY <1>1, <1>2, <1>5 DEF ReclaimExpiredLeases
<1>6. ASSUME NEW j \in Jobs, CancelPending(j) PROVE task'[t] = task[t]
  BY <1>1, <1>2, <1>6 DEF CancelPending
<1>7. ASSUME NEW j, NEW rows, SkipOlder(j, rows) PROVE task'[t] = task[t]
  BY <1>1, <1>2, <1>7 DEF SkipOlder
<1>8. ASSUME NEW u, InsertFollowup(u) PROVE task'[t] = task[t]
  BY <1>1, <1>2, <1>8 DEF InsertFollowup
<1>9. ASSUME NEW j, NEW status, NEW rows, CommitJob(j, status, rows) PROVE task'[t] = task[t]
  BY <1>1, <1>2, <1>9 DEF CommitJob
<1> QED
  BY <1>2, <1>3, <1>4, <1>5, <1>6, <1>7, <1>8, <1>9

(* Coroutine p moves to local state r without taking a row: every row that
   stays in a hand is left alone. *)
LEMMA LettingGo ==
  ASSUME ProcsInv, HandsInv, NEW p \in Procs, NEW r, proc' = [proc EXCEPT ![p] = r],
         r.rows = {},
         p \in Workers /\ r.pc \in HoldingPCs => proc[p].pc \in HoldingPCs /\ r.t = proc[p].t,
         UNCHANGED <<buffer, run>>, disp'.rows \subseteq disp.rows,
         \A t \in Hands : (t \in Hand(p) => t \in Hand(p)') => task'[t] = task[t]
  PROVE  HandsInv'
<1>1. proc'[p] = r /\ \A q \in Procs : q # p => proc'[q] = proc[q]
  BY DEF ProcsInv
<1>2. Hand(p)' \subseteq Hand(p)
  BY <1>1 DEF Hand
<1>3. \A q \in Procs : q # p => Hand(q)' = Hand(q)
  BY <1>1 DEF Hand
<1>4. \A q \in Procs : Hand(q)' \subseteq Hand(q) /\ Hand(q) \subseteq Hands
  BY <1>2, <1>3 DEF Hands
<1>5. ASSUME NEW t \in Hands' PROVE HeldFast(t)'
  <2>1. t \in Hands
    BY <1>4, <1>5 DEF Hands
  <2>2. t \in Hand(p) => t \in Hand(p)'
    <3>1. SUFFICES ASSUME t \in Hand(p), t \notin Hand(p)' PROVE FALSE
      OBVIOUS
    <3>2. \A q \in Procs : t \notin Hand(q)'
      BY <1>3, <3>1 DEF HandsInv
    <3>3. t \in ToSet(buffer) \cup disp.rows
      BY <3>2, <1>5 DEF Hands
    <3> QED
      BY <3>1, <3>3 DEF HandsInv
  <2>3. task'[t] = task[t] /\ HeldFast(t)
    BY <2>1, <2>2 DEF HandsInv
  <2> QED
    BY <2>3 DEF HeldFast, Holds
<1>6. \A q \in Procs : proc'[q].rows # {} => proc'[q].pc = "release"
  BY <1>1 DEF HandsInv
<1>7. \A q, v \in Procs : q # v => Hand(q)' \cap Hand(v)' = {}
  BY <1>4 DEF HandsInv
<1>8. ToSet(buffer)' \cap disp'.rows = {} /\ Distinct(buffer)'
      /\ \A q \in Procs : Hand(q)' \cap (ToSet(buffer)' \cup disp'.rows) = {}
  BY <1>4 DEF HandsInv
<1> QED
  BY <1>5, <1>6, <1>7, <1>8 DEF HandsInv

(* No coroutine moves and the rows in hand are left alone. *)
LEMMA NobodyLetsGo ==
  ASSUME HandsInv, UNCHANGED <<proc, buffer, run>>, disp'.rows = disp.rows,
         \A t \in Hands : task'[t] = task[t]
  PROVE  HandsInv'
BY DEF HandsInv, Hands, Hand, HeldFast, Holds

(* Hands hold task rows. *)
LEMMA HandsAreTasks ==
  ASSUME PipeInv
  PROVE  Hands \subseteq Tasks
<1>1. ToSet(buffer) \subseteq Tasks /\ disp.rows \subseteq Tasks
  BY DEF PipeInv, DispatcherInv, ToSet
<1>2. ASSUME NEW p \in Procs PROVE Hand(p) \subseteq Tasks
  BY DEF PipeInv, ProcsInv, ProcOK, WorkerPCs, ProcState, Hand
<1> QED
  BY <1>1, <1>2 DEF Hands

(* A claim: its rows were pending, so in nobody's hand, and are now leased to
   the owner that claimed them. *)
LEMMA ClaimIsFresh ==
  ASSUME TypeOK, PipeInv, HandsInv, NEW limit, Lease(run, limit)
  PROVE  /\ \A t \in Hands : task'[t] = task[t]
         /\ \A t \in LeaseSelection(limit) :
              t \notin Hands /\ task'[t].state = "leased" /\ task'[t].owner = run /\ ~task'[t].lapsed
<1>1. ASSUME NEW t \in Hands PROVE task'[t] = task[t]
  BY HandsAreTasks, FastRowsStay DEF HandsInv
<1>2. ASSUME NEW t \in LeaseSelection(limit)
      PROVE  t \notin Hands /\ task'[t].state = "leased" /\ task'[t].owner = run /\ ~task'[t].lapsed
  <2>1. t \in Tasks /\ task[t].state = "pending"
    BY DEF LeaseSelection, FirstOf, Leasable
  <2>2. t \notin Hands
    BY <2>1 DEF HandsInv, HeldFast, Holds
  <2>3. task'[t] = [task[t] EXCEPT !.state = "leased", !.owner = run, !.lapsed = FALSE]
        /\ task[t] \in TaskRow
    BY <2>1 DEF Lease, TypeOK
  <2> QED
    BY <2>2, <2>3 DEF TaskRow
<1> QED
  BY <1>1, <1>2

(* The refill hands rows from the claim to the buffer; a stray claim hands them
   to nobody. *)
LEMMA HandsOfDispatching ==
  ASSUME TypeOK, PipeInv, RoomInv, HandsInv, Dispatching
  PROVE  HandsInv'
<1>a. /\ disp \in [resumed : BOOLEAN, loop : {"none", "idle", "asked", "got"},
                   room : 0 .. Capacity, rows : SUBSET Tasks]
      /\ buffer \in Seq(Tasks)
  BY DEF PipeInv, DispatcherInv
<1>1. CASE RefillAsk
  <2>1. disp'.rows = disp.rows /\ UNCHANGED <<task, proc, buffer, run>>
    BY <1>a, <1>1 DEF RefillAsk, lifeVars
  <2> QED
    BY <2>1, NobodyLetsGo
<1>2. CASE RefillCommit
  <2>1. /\ disp.rows = {} /\ disp'.rows = LeaseSelection(disp.room)
        /\ Lease(run, disp.room) /\ UNCHANGED <<proc, buffer, run>>
    BY <1>a, <1>2 DEF RefillCommit, RoomInv, lifeVars
  <2>2. \A p \in Procs : Hand(p)' = Hand(p) /\ Hand(p) \subseteq Hands
    BY <2>1 DEF Hand, Hands
  <2>3. Hands' \subseteq Hands \cup LeaseSelection(disp.room)
    BY <2>1, <2>2 DEF Hands
  <2>4. ASSUME NEW t \in Hands' PROVE HeldFast(t)'
    <3>1. CASE t \in Hands
      <4>1. task'[t] = task[t] /\ HeldFast(t)
        BY <2>1, <3>1, ClaimIsFresh DEF HandsInv
      <4> QED
        BY <2>1, <4>1 DEF HeldFast, Holds
    <3>2. CASE t \in LeaseSelection(disp.room)
      BY <2>1, <3>2, ClaimIsFresh DEF HeldFast, Holds
    <3> QED
      BY <2>3, <3>1, <3>2
  <2>5. LeaseSelection(disp.room) \cap Hands = {} /\ ToSet(buffer) \subseteq Hands
    BY <2>1, ClaimIsFresh DEF Hands
  <2> QED
    BY <2>1, <2>2, <2>4, <2>5 DEF HandsInv
<1>3. CASE RefillDeliver
  <2>1. PICK batch \in [1 .. Cardinality(disp.rows) -> disp.rows] :
          /\ \A i, k \in DOMAIN batch : i < k => batch[i] < batch[k]
          /\ buffer' = buffer \o batch
    BY <1>3 DEF RefillDeliver
  <2>2. disp'.rows = {} /\ UNCHANGED <<task, proc, run>>
    BY <1>a, <1>3 DEF RefillDeliver, lifeVars
  <2>3. Cardinality(disp.rows) \in Nat /\ disp.rows \subseteq Tasks /\ disp.rows \subseteq Nat
    BY <1>a, TasksAssumption, FS_CardinalityType DEF RoomInv
  <2>4. batch \in Seq(Tasks) /\ ToSet(batch) \subseteq disp.rows
    BY <2>3 DEF ToSet
  <2>5. Distinct(batch)
    <3>1. ASSUME NEW i \in DOMAIN batch, NEW k \in DOMAIN batch, i # k PROVE batch[i] # batch[k]
      <4>1. i \in Nat /\ k \in Nat /\ batch[i] \in Nat /\ batch[k] \in Nat
        BY <2>3
      <4>2. i < k \/ k < i
        BY <3>1, <4>1
      <4>3. batch[i] < batch[k] \/ batch[k] < batch[i]
        BY <2>1, <4>2
      <4> QED
        BY <4>1, <4>3
    <3> QED
      BY <3>1 DEF Distinct
  <2>6. Distinct(buffer') /\ ToSet(buffer') \subseteq ToSet(buffer) \cup disp.rows
    <3>1. ToSet(buffer) \cap ToSet(batch) = {} /\ Distinct(buffer)
      BY <2>4 DEF HandsInv
    <3> QED
      BY <1>a, <2>1, <2>4, <2>5, <3>1, ConcatIsDistinct
  <2>7. \A p \in Procs : Hand(p)' = Hand(p)
    BY <2>2 DEF Hand
  <2>8. Hands' \subseteq Hands
    BY <2>2, <2>6, <2>7 DEF Hands
  <2>9. \A t \in Hands' : HeldFast(t)'
    BY <2>2, <2>8 DEF HandsInv, HeldFast, Holds
  <2> QED
    BY <2>2, <2>6, <2>7, <2>9 DEF HandsInv
<1>4. CASE StrayCommit
  <2>1. \E n : Lease(run, n)
    BY <1>4 DEF StrayCommit
  <2>2. UNCHANGED <<proc, buffer, disp, run>>
    BY <1>4 DEF StrayCommit, lifeVars
  <2> QED
    BY <2>1, <2>2, ClaimIsFresh, NobodyLetsGo
<1> QED
  BY <1>1, <1>2, <1>3, <1>4 DEF Dispatching

(* Draining moves the buffer into the hands of the one that pauses. *)
LEMMA HandsOfPausing ==
  ASSUME TypeOK, PipeInv, HandsInv, NEW p \in Procs, Pausing(p)
  PROVE  HandsInv'
<1>a. ProcsInv /\ proc[p] \in ProcState /\ {"drain", "release", "park", "sweep"} \cap HoldingPCs = {}
  BY DEF PipeInv, ProcsInv, HoldingPCs
<1>b. buffer \in Seq(Tasks)
  BY DEF PipeInv, DispatcherInv
<1>1. CASE Drain(p)
  <2>1. /\ proc[p].pc = "drain" /\ buffer' = <<>> /\ UNCHANGED <<task, disp, run>>
        /\ proc' = [proc EXCEPT ![p].pc = IF buffer = <<>> THEN AfterPause(p) ELSE "release",
                                ![p].rows = ToSet(buffer)]
    BY <1>1 DEF Drain, At, lifeVars
  <2>2. /\ proc'[p].rows = ToSet(buffer) /\ proc'[p].pc \in {"release", AfterPause(p)}
        /\ buffer # <<>> => proc'[p].pc = "release"
        /\ \A q \in Procs : q # p => proc'[q] = proc[q]
    BY <1>a, <2>1 DEF ProcsInv, ProcState
  <2>3. ToSet(buffer') = {} /\ (buffer = <<>> => ToSet(buffer) = {}) /\ Distinct(buffer')
    BY <2>1 DEF ToSet, Distinct
  <2>4. Hand(p)' = ToSet(buffer)
    BY <1>a, <2>2 DEF Hand, AfterPause
  <2>5. \A q \in Procs : q # p => Hand(q)' = Hand(q)
    BY <2>2 DEF Hand
  <2>6. Hands' \subseteq Hands
    BY <2>1, <2>3, <2>4, <2>5 DEF Hands
  <2>7. \A t \in Hands' : HeldFast(t)'
    BY <2>1, <2>6 DEF HandsInv, HeldFast, Holds
  <2>8. \A q \in Procs : proc'[q].rows # {} => proc'[q].pc = "release"
    BY <2>2, <2>3 DEF HandsInv
  <2>9. \A q, v \in Procs : q # v => Hand(q)' \cap Hand(v)' = {}
    BY <2>4, <2>5 DEF HandsInv
  <2> QED
    BY <2>1, <2>3, <2>4, <2>5, <2>7, <2>8, <2>9 DEF HandsInv
<1>2. CASE ReleaseDrained(p)
  <2>1. /\ proc[p].pc = "release" /\ UNCHANGED <<buffer, disp, run>>
        /\ SetState({t \in proc[p].rows : Holds(run, t)}, "pending")
        /\ proc' = [proc EXCEPT ![p] = [proc[p] EXCEPT !.pc = AfterPause(p), !.rows = {}]]
    BY <1>2 DEF ReleaseDrained, Release, At, lifeVars, dispVars
  <2> DEFINE r == [proc[p] EXCEPT !.pc = AfterPause(p), !.rows = {}]
  <2>2. r.pc = AfterPause(p) /\ r.rows = {} /\ r.pc \notin HoldingPCs
    BY <1>a DEF ProcState, AfterPause
  <2>3. Hand(p)' = {} /\ Hand(p) = proc[p].rows
    BY <1>a, <2>1, <2>2 DEF Hand, ProcsInv
  <2>4. ASSUME NEW t \in Hands, t \in Hand(p) => t \in Hand(p)' PROVE task'[t] = task[t]
    <3>1. t \notin proc[p].rows /\ t \in Tasks /\ HeldFast(t)
      BY <2>3, <2>4, HandsAreTasks DEF HandsInv
    <3> QED
      BY <2>1, <3>1, FastRowsStay
  <2> HIDE DEF r
  <2>5. proc' = [proc EXCEPT ![p] = r]
    BY <2>1 DEF r
  <2> QED
    BY <1>a, <2>1, <2>2, <2>4, <2>5, LettingGo
<1>3. CASE ParkSql(p)
  <2>1. proc[p].pc = "park" /\ UNCHANGED <<task, buffer, disp, run>>
        /\ (proc' = [proc EXCEPT ![p] = Idle] \/ proc' = [proc EXCEPT ![p] = [proc[p] EXCEPT !.pc = "publish"]])
    BY <1>3 DEF ParkSql, ParkJobs, At, Rest, Goto, lifeVars, dispVars
  <2>2. proc[p].rows = {}
    BY <2>1 DEF HandsInv
  <2>3. PICK r : proc' = [proc EXCEPT ![p] = r] /\ r.rows = {} /\ r.pc \notin HoldingPCs
    <3>1. Idle.rows = {} /\ Idle.pc \notin HoldingPCs
      BY DEF Idle, HoldingPCs
    <3>2. [proc[p] EXCEPT !.pc = "publish"].rows = {}
          /\ [proc[p] EXCEPT !.pc = "publish"].pc \notin HoldingPCs
      BY <1>a, <2>2 DEF ProcState, HoldingPCs
    <3> QED
      BY <2>1, <3>1, <3>2
  <2> QED
    BY <1>a, <2>1, <2>3, LettingGo
<1> QED
  BY <1>1, <1>2, <1>3 DEF Pausing

(* Coroutine p, with nothing in its hand before and after, moves on; the rows
   in other hands are left alone. *)
LEMMA EmptyHanded ==
  ASSUME PipeInv, HandsInv, NEW p \in Procs, NEW r, proc' = [proc EXCEPT ![p] = r],
         proc[p].pc \notin HoldingPCs \cup {"release"}, r.rows \in {{}, proc[p].rows},
         r.pc \notin HoldingPCs, UNCHANGED <<buffer, run>>, disp'.rows \subseteq disp.rows,
         \A t \in Hands : task'[t] = task[t]
  PROVE  HandsInv'
<1>1. proc[p].rows = {}
  BY DEF HandsInv
<1> QED
  BY <1>1, LettingGo DEF PipeInv

(* A pause as one step of p: what the refill had claimed is forgotten. *)
LEMMA HandsAtPause ==
  ASSUME PipeInv, HandsInv, NEW p \in Procs, NEW note, PauseDispatcher(p, note),
         proc[p].pc \notin HoldingPCs \cup {"release"}, UNCHANGED <<task, run>>
  PROVE  HandsInv'
<1>1. disp'.rows \subseteq disp.rows
  BY DEF PauseDispatcher, StoppedDispatcher
<1>2. PICK pc \in {"drain", AfterPause(p)} :
        proc' = [proc EXCEPT ![p] = [proc[p] EXCEPT !.pc = pc, !.note = note]]
  BY PauseMoves
<1>3. pc \notin HoldingPCs
  BY DEF AfterPause, HoldingPCs
<1>4. proc[p] \in ProcState
  BY DEF PipeInv, ProcsInv
<1>5. [proc[p] EXCEPT !.pc = pc, !.note = note].pc = pc
      /\ [proc[p] EXCEPT !.pc = pc, !.note = note].rows = proc[p].rows
  BY <1>4 DEF ProcState
<1>6. buffer' = buffer
  BY PauseMoves
<1> QED
  BY <1>1, <1>2, <1>3, <1>5, <1>6, EmptyHanded

(* A worker with a task in hand goes on with it; no row it did not hold changes. *)
LEMMA HandsWhileWorking ==
  ASSUME TypeOK, PipeInv, HandsInv, NEW w \in Workers,
         Prepare(w) \/ Send(w) \/ PlanOlder(w) \/ EndWalk(w) \/ Reject(w) \/ Limit(w)
  PROVE  HandsInv'
<1>a. w \in Procs /\ proc[w] \in ProcState /\ ProcsInv
  BY DEF Procs, PipeInv, ProcsInv
<1>1. proc[w].pc \in HoldingPCs /\ proc[w].rows = {} /\ UNCHANGED <<buffer, disp, run>>
  BY <1>a DEF Prepare, Send, PlanOlder, EndWalk, Reject, Limit, At, HoldingPCs, HandsInv, lifeVars, dispVars
<1>2. PICK r : proc' = [proc EXCEPT ![w] = r] /\ r.t = proc[w].t /\ r.rows = {} /\ r.pc \in HoldingPCs
  <2>1. CASE Send(w) \/ PlanOlder(w) \/ EndWalk(w) \/ Reject(w) \/ Limit(w)
    <3>1. PICK pc \in HoldingPCs : proc' = [proc EXCEPT ![w] = [proc[w] EXCEPT !.pc = pc]]
      BY <2>1 DEF Send, PlanOlder, EndWalk, Reject, Limit, Goto, HoldingPCs
    <3> DEFINE r == [proc[w] EXCEPT !.pc = pc]
    <3>2. r.t = proc[w].t /\ r.rows = {} /\ r.pc \in HoldingPCs
      BY <1>a, <1>1 DEF ProcState
    <3> HIDE DEF r
    <3>3. proc' = [proc EXCEPT ![w] = r]
      BY <3>1 DEF r
    <3> QED
      BY <3>2, <3>3
  <2>2. CASE Prepare(w)
    <3>1. PICK tok : \E pc \in HoldingPCs :
                       proc' = [proc EXCEPT ![w] = [proc[w] EXCEPT !.pc = pc, !.tok = tok]]
      <4>1. CASE broker.token
        BY <2>2, <4>1 DEF Prepare, HoldingPCs
      <4>2. CASE ~broker.token
        BY <2>2, <4>2 DEF Prepare, HoldingPCs
      <4> QED
        BY <4>1, <4>2
    <3> QED
      BY <1>a, <1>1, <3>1 DEF ProcState
  <2> QED
    BY <2>1, <2>2
<1>3. ASSUME NEW t \in Hands PROVE task'[t] = task[t]
  <2>1. t \in Tasks /\ HeldFast(t)
    BY HandsAreTasks DEF HandsInv
  <2>2. task' = task \/ (\E u : InsertFollowup(u)) \/ (\E j, rows : SkipOlder(j, rows))
    BY DEF Prepare, Send, PlanOlder, EndWalk, Reject, Limit, tables
  <2> QED
    BY <2>1, <2>2, FastRowsStay
<1> QED
  BY <1>a, <1>1, <1>2, <1>3, LettingGo

(* A worker answers for its task and lets go of it: the statement is about that
   row alone, and no other hand holds it. *)
LEMMA HandsAtAnswer ==
  ASSUME TypeOK, PipeInv, HandsInv, NEW w \in Workers,
         \/ Refuse(w) \/ Succeed(w) \/ FailTransient(w) \/ FailFatal(w) \/ NoHandler(w)
         \/ Raise(w) \/ NackPark(w)
  PROVE  HandsInv'
<1>a. w \in Procs /\ proc[w] \in ProcState /\ ProcsInv
  BY DEF Procs, PipeInv, ProcsInv
<1>1. proc[w].pc \in HoldingPCs /\ UNCHANGED <<buffer, disp, run>>
  BY DEF Refuse, Succeed, FailTransient, FailFatal, NoHandler, Raise, NackPark, At, HoldingPCs,
         lifeVars, dispVars
<1>2. PICK r : proc' = [proc EXCEPT ![w] = r] /\ r.rows = {} /\ r.pc \notin HoldingPCs
  <2>1. CASE Refuse(w) \/ NoHandler(w) \/ Raise(w)
    <3>1. Idle.rows = {} /\ Idle.pc \notin HoldingPCs
      BY DEF Idle, HoldingPCs
    <3> QED
      BY <2>1, <3>1 DEF Refuse, NoHandler, Raise, Rest
  <2>2. CASE Succeed(w) \/ FailTransient(w) \/ FailFatal(w)
    <3> DEFINE r == [Idle EXCEPT !.pc = "settle", !.t = proc[w].t]
    <3>1. proc' = [proc EXCEPT ![w] = r]
      BY <2>2 DEF Succeed, FailTransient, FailFatal, ToSettle
    <3>2. r.rows = {} /\ r.pc \notin HoldingPCs
      BY DEF Idle, HoldingPCs
    <3> QED
      BY <3>1, <3>2
  <2>3. CASE NackPark(w)
    <3>1. PICK pc \in {"authfail", "ratefail"} :
            proc' = [proc EXCEPT ![w] = [Idle EXCEPT !.gen = proc[w].gen, !.pc = pc]]
      BY <2>3 DEF NackPark
    <3>2. [Idle EXCEPT !.gen = proc[w].gen, !.pc = pc].rows = {}
          /\ [Idle EXCEPT !.gen = proc[w].gen, !.pc = pc].pc \notin HoldingPCs
      BY DEF Idle, HoldingPCs
    <3> QED
      BY <3>1, <3>2
  <2> QED
    BY <2>1, <2>2, <2>3
<1>3. Hand(w)' = {} /\ proc[w].t \in Hand(w)
  BY <1>a, <1>1, <1>2 DEF Hand, ProcsInv
<1>4. ASSUME NEW t \in Hands, t \in Hand(w) => t \in Hand(w)' PROVE task'[t] = task[t]
  <2>1. t \in Tasks /\ HeldFast(t) /\ t # proc[w].t
    BY <1>3, <1>4, HandsAreTasks DEF HandsInv
  <2>2. CASE FailTransient(w)
    BY <2>1, <2>2 DEF FailTransient, NackTransient, TypeOK
  <2>3. CASE ~FailTransient(w)
    <3>1. \E rows, state : SetState(rows, state) /\ t \notin rows
      BY <2>1, <2>3
      DEF Refuse, Succeed, FailFatal, NoHandler, Raise, NackPark, Release, Ack, NackFatal, Park
    <3> QED
      BY <2>1, <3>1, FastRowsStay
  <2> QED
    BY <2>2, <2>3
<1> QED
  BY <1>a, <1>1, <1>2, <1>4, LettingGo

(* A worker takes the head of the buffer. *)
LEMMA HandsAtTake ==
  ASSUME TypeOK, PipeInv, HandsInv, NEW w \in Workers, Take(w)
  PROVE  HandsInv'
<1>a. w \in Procs /\ proc[w] \in ProcState /\ ProcsInv /\ buffer \in Seq(Tasks) /\ buffer # <<>>
      /\ Distinct(buffer)
  BY DEF Procs, PipeInv, ProcsInv, DispatcherInv, Take, HandsInv
<1>1. buffer' = Tail(buffer) /\ UNCHANGED <<task, disp, run>> /\ proc[w].pc = "idle"
  BY DEF Take, At, lifeVars
<1>2. /\ Distinct(buffer') /\ ToSet(buffer') \subseteq ToSet(buffer)
      /\ Head(buffer) \in ToSet(buffer) /\ Head(buffer) \notin ToSet(buffer')
  BY <1>a, <1>1, TailIsDistinct
<1>3. proc'[w].t = Head(buffer) /\ proc'[w].rows = {} /\ \A q \in Procs : q # w => proc'[q] = proc[q]
  BY <1>a DEF Take, ProcsInv, Idle
<1>4. Hand(w)' \subseteq {Head(buffer)} /\ \A q \in Procs : q # w => Hand(q)' = Hand(q)
  BY <1>3 DEF Hand
<1>5. Hands' \subseteq Hands
  BY <1>1, <1>2, <1>4 DEF Hands
<1>6. \A t \in Hands' : HeldFast(t)'
  BY <1>1, <1>5 DEF HandsInv, HeldFast, Holds
<1>7. \A q \in Procs : Hand(q) \cap ToSet(buffer) = {}
  BY DEF HandsInv
<1>8. \A q, v \in Procs : q # v => Hand(q)' \cap Hand(v)' = {}
  BY <1>2, <1>4, <1>7 DEF HandsInv
<1>9. Head(buffer) \notin disp.rows
  BY <1>2 DEF HandsInv
<1>10. \A q \in Procs : Hand(q)' \cap (ToSet(buffer') \cup disp'.rows) = {}
  BY <1>1, <1>2, <1>4, <1>9 DEF HandsInv
<1> QED
  BY <1>1, <1>2, <1>3, <1>6, <1>8, <1>10 DEF HandsInv

(* All steps of a worker. *)
LEMMA HandsOfWorking ==
  ASSUME TypeOK, PipeInv, HandsInv, NEW w \in Workers, Working(w)
  PROVE  HandsInv'
<1>a. w \in Procs /\ proc[w] \in ProcState
  BY DEF Procs, PipeInv, ProcsInv
<1>i. Idle.rows = {} /\ Idle.pc \notin HoldingPCs
  BY DEF Idle, HoldingPCs
<1>1. CASE AuthFail(w) \/ RateFail(w) \/ TakeParkLock(w) \/ Publish(w)
  <2>1. UNCHANGED <<task, run>> /\ proc[w].pc \notin HoldingPCs \cup {"release"}
    BY <1>1 DEF AuthFail, RateFail, TakeParkLock, Publish, At, HoldingPCs, lifeVars, tables
  <2>2. ASSUME NEW note, EnterParking(w, note) PROVE HandsInv'
    <3>1. CASE parkLock = NoProc
      BY <1>a, <2>1, <2>2, <3>1, HandsAtPause DEF EnterParking
    <3>2. CASE parkLock # NoProc
      <4> DEFINE r == [proc[w] EXCEPT !.pc = "lock", !.note = note]
      <4>1. proc' = [proc EXCEPT ![w] = r] /\ UNCHANGED <<buffer, disp>>
        BY <2>2, <3>2 DEF EnterParking, dispVars
      <4>2. r.rows = proc[w].rows /\ r.pc \notin HoldingPCs
        BY <1>a DEF ProcState, HoldingPCs
      <4> HIDE DEF r
      <4> QED
        BY <1>a, <2>1, <4>1, <4>2, EmptyHanded
    <3> QED
      BY <3>1, <3>2
  <2>3. ASSUME Rest(w), UNCHANGED <<buffer, disp>> PROVE HandsInv'
    BY <1>a, <1>i, <2>1, <2>3, EmptyHanded DEF Rest
  <2> QED
    BY <1>1, <2>2, <2>3 DEF AuthFail, RateFail, TakeParkLock, Publish, dispVars
<1>2. CASE Settling(w)
  <2>1. UNCHANGED <<task, run, buffer, disp>> /\ proc[w].pc \notin HoldingPCs \cup {"release"}
    BY <1>2 DEF Settling, Settle, Finish, FinishJob, At, HoldingPCs, lifeVars, dispVars, tables
  <2>2. PICK r : proc' = [proc EXCEPT ![w] = r] /\ r.rows = {} /\ r.pc \notin HoldingPCs
    <3>1. CASE Rest(w)
      BY <1>i, <3>1 DEF Rest
    <3>2. CASE ~Rest(w)
      <4> DEFINE r == [Idle EXCEPT !.pc = "finish", !.t = proc[w].t,
                                   !.note = TerminalStatus(Subject(w))]
      <4>1. proc' = [proc EXCEPT ![w] = r]
        BY <1>2, <3>2 DEF Settling, Settle, Finish
      <4>2. r.rows = {} /\ r.pc \notin HoldingPCs
        BY DEF Idle, HoldingPCs
      <4> QED
        BY <4>1, <4>2
    <3> QED
      BY <3>1, <3>2
  <2> QED
    BY <1>a, <2>1, <2>2, EmptyHanded
<1> QED
  BY <1>1, <1>2, <1>a, HandsAtTake, HandsWhileWorking, HandsAtAnswer, HandsOfPausing
  DEF Working, Answer

(* Settling and the stages of a cancel, a login or the mode loop have no row in
   hand. *)
LEMMA HandsOfOthers ==
  ASSUME TypeOK, PipeInv, HandsInv, NEW p \in Procs \ Workers,
         \/ Settling(p)
         \/ p \in Jobs /\ (\/ CancelFlag(p) \/ CancelPause(p) \/ CancelSweep(p) \/ CancelRestart(p)
                           \/ CancelCall(p))
         \/ p = "modeLoop" /\ (FollowMode \/ UnparkRate \/ ResumeDispatcher)
         \/ p = "login" /\ LoggingIn
  PROVE  HandsInv'
<1>a. proc[p] \in ProcState /\ p \in Procs /\ ProcsInv
  BY DEF PipeInv, ProcsInv
<1>t. ASSUME NEW t \in Hands, task' = task \/ \E j \in Jobs : CancelPending(j) PROVE task'[t] = task[t]
  BY <1>t, HandsAreTasks, FastRowsStay DEF HandsInv
<1>g. ASSUME NEW pc, Goto(p, pc), proc[p].pc # "release", UNCHANGED <<buffer, disp, run>>,
             task' = task \/ \E j \in Jobs : CancelPending(j)
      PROVE  HandsInv'
  <2>1. proc' = [proc EXCEPT ![p] = [proc[p] EXCEPT !.pc = pc]]
    BY <1>g DEF Goto
  <2>2. [proc[p] EXCEPT !.pc = pc].rows = {}
    BY <1>a, <1>g DEF ProcState, HandsInv
  <2> QED
    BY <1>a, <1>g, <1>t, <2>1, <2>2, LettingGo
<1>r. ASSUME NEW r, proc' = [proc EXCEPT ![p] = r], r.rows = {}, disp'.rows \subseteq disp.rows,
             UNCHANGED <<buffer, task, run>>
      PROVE  HandsInv'
  BY <1>a, <1>r, LettingGo
<1>i. Idle.rows = {} /\ [Idle EXCEPT !.pc = "settle"].rows = {}
  BY DEF Idle
<1>d. disp' = Resumed \/ disp' = disp => disp'.rows \subseteq disp.rows
  BY DEF Resumed, RunningDispatcher
<1>1. CASE Settling(p)
  <2>1. UNCHANGED <<task, run, buffer, disp>>
    BY <1>1 DEF Settling, Settle, Finish, FinishJob, lifeVars, dispVars, tables
  <2>2. PICK r : proc' = [proc EXCEPT ![p] = r] /\ r.rows = {}
    <3>1. CASE Rest(p)
      BY <1>i, <3>1 DEF Rest
    <3>2. CASE ~Rest(p)
      <4> DEFINE r == [Idle EXCEPT !.pc = "finish", !.t = proc[p].t,
                                   !.note = TerminalStatus(Subject(p))]
      <4>1. proc' = [proc EXCEPT ![p] = r]
        BY <1>1, <3>2 DEF Settling, Settle, Finish
      <4>2. r.rows = {}
        BY DEF Idle
      <4> QED
        BY <4>1, <4>2
    <3> QED
      BY <3>1, <3>2
  <2> QED
    BY <1>r, <2>1, <2>2
<1>2. CASE p \in Jobs /\ (CancelFlag(p) \/ CancelSweep(p) \/ CancelCall(p))
  <2>1. /\ proc[p].pc # "release" /\ UNCHANGED <<buffer, disp, run>>
        /\ task' = task \/ \E j \in Jobs : CancelPending(j)
    BY <1>2 DEF CancelFlag, CancelSweep, CancelCall, RequestCancel, At, lifeVars, dispVars, tables
  <2>2. \E pc : Goto(p, pc)
    BY <1>2 DEF CancelFlag, CancelSweep, CancelCall
  <2> QED
    BY <1>g, <2>1, <2>2
<1>3. CASE p \in Jobs /\ CancelPause(p)
  <2>1. /\ \E note : PauseDispatcher(p, note)
        /\ proc[p].pc = "pause" /\ UNCHANGED <<task, run>>
    BY <1>3 DEF CancelPause, At, tables, lifeVars
  <2> QED
    BY <1>a, <2>1, HandsAtPause DEF HoldingPCs
<1>4. CASE p \in Jobs /\ CancelRestart(p)
  <2>1. /\ proc' = [proc EXCEPT ![p] = [Idle EXCEPT !.pc = "settle"]]
        /\ UNCHANGED <<buffer, task, run>> /\ (disp' = Resumed \/ disp' = disp)
    BY <1>4 DEF CancelRestart, tables, lifeVars
  <2> QED
    BY <1>d, <1>i, <1>r, <2>1
<1>5. CASE p = "modeLoop" /\ FollowMode
  <2>1. proc[p].pc = "idle" /\ UNCHANGED <<task, run>>
    BY <1>5 DEF FollowMode, At, tables, lifeVars
  <2>2. CASE mode = "running"
    <3>1. UNCHANGED <<buffer, disp>> /\ (UNCHANGED proc \/ Goto(p, "unpark"))
      BY <1>5, <2>2 DEF FollowMode, dispVars
    <3> QED
      BY <1>g, <2>1, <3>1, NobodyLetsGo
  <2>3. CASE mode # "running"
    <3>1. \E note : PauseDispatcher(p, note)
      BY <1>5, <2>3 DEF FollowMode
    <3> QED
      BY <1>a, <2>1, <3>1, HandsAtPause DEF HoldingPCs
  <2> QED
    BY <2>2, <2>3
<1>6. CASE p = "modeLoop" /\ UnparkRate
  <2>1. proc[p].pc # "release" /\ UNCHANGED <<buffer, disp, run, task>> /\ Goto(p, "resume")
    BY <1>6 DEF UnparkRate, UnparkJobs, At, lifeVars, dispVars
  <2> QED
    BY <1>g, <2>1
<1>7. CASE p = "modeLoop" /\ ResumeDispatcher
  <2>1. /\ proc' = [proc EXCEPT ![p] = Idle]
        /\ UNCHANGED <<buffer, task, run>> /\ disp' = Resumed
    BY <1>7 DEF ResumeDispatcher, Rest, tables, lifeVars
  <2> QED
    BY <1>d, <1>i, <1>r, <2>1
<1>8. CASE p = "login" /\ LoggingIn
  <2>1. proc[p].pc # "release" /\ UNCHANGED <<buffer, disp, run, task>>
    BY <1>8 DEF LoggingIn, StoreLogin, LiftPausedAuth, RequeueBlockedAuth, ResumeJobsAfterLogin,
                At, lifeVars, dispVars, tables
  <2>2. Rest(p) \/ \E pc : Goto(p, pc)
    BY <1>8 DEF LoggingIn, StoreLogin, LiftPausedAuth, RequeueBlockedAuth
  <2> QED
    BY <1>g, <1>i, <1>r, <2>1, <2>2 DEF Rest
<1> QED
  BY <1>1, <1>2, <1>3, <1>4, <1>5, <1>6, <1>7, <1>8

(* Every step keeps rows in one hand, as long as no lease runs out under its
   holder. *)
LEMMA HandsStep ==
  ASSUME TypeOK, PipeInv, DownInv, RoomInv, HandsInv, "lapse" \notin Faults, [PipelineNext]_vars
  PROVE  HandsInv'
<1>m. /\ "modeLoop" \in Procs \ Workers /\ "login" \in Procs \ Workers
      /\ Jobs \subseteq Procs \ Workers /\ Workers \subseteq Procs
  BY PipelineAssumption DEF Procs
<1>t. ASSUME NEW t \in Hands PROVE t \in Tasks /\ HeldFast(t)
  BY HandsAreTasks DEF HandsInv
<1>1. CASE Dispatching
  BY <1>1, HandsOfDispatching
<1>2. ASSUME NEW w \in Workers, Working(w) PROVE HandsInv'
  BY <1>2, HandsOfWorking
<1>3. ASSUME NEW j \in Jobs, Cancelling(j) PROVE HandsInv'
  BY <1>3, <1>m, HandsOfOthers, HandsOfPausing DEF Cancelling
<1>4. ASSUME NEW j \in Jobs, UserOfJob(j) PROVE HandsInv'
  <2>1. CASE CancelCall(j)
    BY <1>m, <2>1, HandsOfOthers
  <2>2. CASE StartJob(j) \/ PauseRoute(j) \/ ResumeRead(j) \/ ResumeWrite(j)
    <3>1. UNCHANGED <<proc, buffer, disp, run>>
      BY <2>2 DEF StartJob, PauseRoute, ResumeRead, ResumeWrite, dispVars, lifeVars
    <3>2. task' = task \/ \E i, status, rows : CommitJob(i, status, rows)
      BY <2>2 DEF StartJob, PauseRoute, ResumeRead, ResumeWrite, PauseJob, ResumeJob, tables
    <3>3. \A t \in Hands : task'[t] = task[t]
      BY <1>t, <3>2, FastRowsStay
    <3> QED
      BY <3>1, <3>3, NobodyLetsGo
  <2> QED
    BY <1>4, <2>1, <2>2 DEF UserOfJob
<1>5. CASE FollowingMode \/ LoggingIn
  BY <1>5, <1>m, HandsOfOthers, HandsOfPausing DEF FollowingMode
<1>6. CASE Disconnect \/ UNCHANGED vars
  BY <1>6, NobodyLetsGo DEF Disconnect, dispVars, lifeVars, tables, vars
<1>7. CASE Time
  <2>1. UNCHANGED <<proc, buffer, disp, run>>
    BY <1>7 DEF Time, ReclaimLoop, Lapse, EndBackoff, dispVars, lifeVars
  <2>2. ASSUME NEW u \in Tasks, Lapse(u) PROVE \A t \in Hands : task'[t] = task[t]
    <3>1. u \notin InHand
      BY <2>2 DEF Lapse, Fault
    <3>2. Hands \subseteq InHand
      BY DEF Hands, Hand, InHand, Holding
    <3> QED
      BY <1>t, <2>2, <3>1, <3>2 DEF Lapse, LeaseLapses, TypeOK
  <2>3. ASSUME ReclaimLoop \/ \E u \in Tasks : EndBackoff(u) PROVE \A t \in Hands : task'[t] = task[t]
    BY <1>t, <2>3, FastRowsStay DEF ReclaimLoop, EndBackoff
  <2> QED
    BY <1>7, <2>1, <2>2, <2>3, NobodyLetsGo DEF Time
<1>8. CASE Crash \/ Stop \/ Start
  <2>1. buffer' = <<>> /\ disp'.rows = {} /\ proc' = [p \in Procs |-> Idle]
    <3>1. disp' \in {StoppedDispatcher, RunningDispatcher}
      <4>1. CASE broker.token
        BY <1>8, <4>1 DEF Crash, Stop, Forget, Start
      <4>2. CASE ~broker.token
        BY <1>8, <4>2 DEF Crash, Stop, Forget, Start
      <4> QED
        BY <4>1, <4>2
    <3> QED
      BY <1>8, <3>1 DEF Crash, Stop, Forget, Start, DownInv, StoppedDispatcher, RunningDispatcher
  <2>2. \A p \in Procs : proc'[p].rows = {} /\ Hand(p)' = {}
    BY <2>1 DEF Hand, Idle, HoldingPCs
  <2>3. ToSet(buffer') = {} /\ Distinct(buffer')
    BY <2>1 DEF ToSet, Distinct
  <2> QED
    BY <2>1, <2>2, <2>3 DEF HandsInv, Hands
<1> QED
  BY <1>1, <1>2, <1>3, <1>4, <1>5, <1>6, <1>7, <1>8 DEF PipelineNext

(* What is left of the type invariant: the claims gone astray are counted by
   their limit, and a limit is never zero nor more than the buffer's size. *)
SmallTypes ==
  /\ strays \in [1 .. Capacity -> Nat]
  /\ parkLock \in Workers \cup {NoProc}
  /\ gates \in [auth : BOOLEAN, run : BOOLEAN]
  /\ lastMode \in Modes
  /\ late \subseteq Workers

(* Pausing a refill that waits for its thread leaves one more claim astray. *)
LEMMA StraysCounted ==
  ASSUME DispatcherInv, RoomInv, strays \in [1 .. Capacity -> Nat],
         NEW after, after = strays \/ after \in StrayClaims
  PROVE  after \in [1 .. Capacity -> Nat]
<1>1. CASE disp.loop = "asked"
  <2>1. disp.room \in 1 .. Capacity
    BY <1>1, PipelineAssumption DEF DispatcherInv, RoomInv
  <2>2. [strays EXCEPT ![disp.room] = @ + 1] \in [1 .. Capacity -> Nat]
    BY <2>1
  <2> QED
    BY <1>1, <2>2 DEF StrayClaims
<1> QED
  BY <1>1 DEF StrayClaims

(* Every step keeps them. *)
LEMMA SmallTypesStep ==
  ASSUME PipeInv, RoomInv, SmallTypes, mode \in Modes, mode' \in Modes, [PipelineNext]_vars
  PROVE  SmallTypes'
<1>s. ASSUME NEW after, after = strays \/ after \in StrayClaims
      PROVE  after \in [1 .. Capacity -> Nat]
  BY <1>s, StraysCounted DEF PipeInv, SmallTypes
<1>a. ASSUME strays' = strays \/ strays' \in StrayClaims, parkLock' \in Workers \cup {NoProc},
             gates' \in [auth : BOOLEAN, run : BOOLEAN], lastMode' \in Modes, late' \subseteq Workers
      PROVE  SmallTypes'
  BY <1>a, <1>s DEF SmallTypes
<1>p. ASSUME NEW p, NEW note, PauseDispatcher(p, note) PROVE strays' = strays \/ strays' \in StrayClaims
  BY <1>p DEF PauseDispatcher
<1>1. CASE StrayCommit
  BY <1>1 DEF StrayCommit, SmallTypes, authVars
<1>2. CASE RefillAsk \/ RefillCommit \/ RefillDeliver
  BY <1>2 DEF RefillAsk, RefillCommit, RefillDeliver, SmallTypes, authVars
<1>3. ASSUME NEW p \in Procs, Pausing(p) \/ Settling(p) PROVE SmallTypes'
  BY <1>3 DEF Pausing, Drain, ReleaseDrained, ParkSql, Settling, Settle, Finish, SmallTypes,
              authVars, dispVars
<1>4. ASSUME NEW w \in Workers,
             \/ Take(w) \/ Refuse(w) \/ Prepare(w) \/ Send(w) \/ PlanOlder(w) \/ EndWalk(w)
             \/ Answer(w) \/ NackPark(w)
      PROVE  SmallTypes'
  <2>1. UNCHANGED <<strays, parkLock, gates, lastMode>> /\ (late' = late \/ late' = late \ {w})
    BY <1>4 DEF Take, Refuse, Prepare, Send, PlanOlder, EndWalk, NackPark, Answer, Succeed,
                FailTransient, FailFatal, NoHandler, Raise, Reject, Limit, LetGo, authVars, dispVars
  <2> QED
    BY <2>1 DEF SmallTypes
<1>5. ASSUME NEW w \in Workers, AuthFail(w) \/ RateFail(w) \/ TakeParkLock(w) \/ Publish(w)
      PROVE  SmallTypes'
  <2>1. ASSUME NEW note, EnterParking(w, note)
        PROVE  /\ parkLock' \in Workers \cup {NoProc}
               /\ strays' = strays \/ strays' \in StrayClaims
    BY <1>p, <2>1 DEF EnterParking, SmallTypes, dispVars
  <2>2. CASE AuthFail(w)
    <3>1. gates' \in [auth : BOOLEAN, run : BOOLEAN] /\ lastMode' \in Modes /\ late' \subseteq Workers
      BY <2>2 DEF AuthFail, SmallTypes
    <3> QED
      BY <1>a, <2>1, <2>2, <3>1 DEF AuthFail, SmallTypes, dispVars
  <2>3. CASE RateFail(w)
    <3>1. gates' \in [auth : BOOLEAN, run : BOOLEAN] /\ lastMode' \in Modes /\ late' \subseteq Workers
      BY <2>3 DEF RateFail, SmallTypes
    <3> QED
      BY <1>a, <2>1, <2>3, <3>1 DEF RateFail
  <2>4. CASE TakeParkLock(w)
    <3>1. gates' \in [auth : BOOLEAN, run : BOOLEAN] /\ lastMode' \in Modes /\ late' \subseteq Workers
      BY <2>4 DEF TakeParkLock, SmallTypes, authVars
    <3> QED
      BY <1>a, <2>1, <2>4, <3>1 DEF TakeParkLock
  <2>5. CASE Publish(w)
    BY <2>5 DEF Publish, SmallTypes, dispVars
  <2> QED
    BY <1>5, <2>2, <2>3, <2>4, <2>5
<1>6. ASSUME NEW j \in Jobs, Cancelling(j) PROVE SmallTypes'
  <2>1. CASE CancelPause(j)
    BY <1>a, <1>p, <2>1 DEF CancelPause, SmallTypes, authVars
  <2>2. CASE CancelFlag(j) \/ CancelSweep(j) \/ CancelRestart(j)
    BY <2>2 DEF CancelFlag, CancelSweep, CancelRestart, SmallTypes, authVars, dispVars
  <2> QED
    BY <1>3, <1>6, <2>1, <2>2 DEF Cancelling, Procs
<1>7. ASSUME NEW j \in Jobs, UserOfJob(j) PROVE SmallTypes'
  BY <1>7 DEF UserOfJob, StartJob, CancelCall, PauseRoute, ResumeRead, ResumeWrite, SmallTypes,
              authVars, dispVars
<1>8. CASE FollowMode
  <2>1. strays' = strays \/ strays' \in StrayClaims
    BY <1>8, <1>p DEF FollowMode, dispVars
  <2>2. /\ parkLock' = parkLock /\ late' = late /\ lastMode' = mode
        /\ gates' = [gates EXCEPT !.run = (mode = "running")]
    BY <1>8 DEF FollowMode
  <2>3. gates' \in [auth : BOOLEAN, run : BOOLEAN]
    BY <2>2 DEF SmallTypes
  <2> QED
    BY <1>a, <2>1, <2>2, <2>3 DEF SmallTypes
<1>9. CASE UnparkRate \/ ResumeDispatcher
  BY <1>9 DEF UnparkRate, ResumeDispatcher, SmallTypes, authVars, dispVars
<1>10. CASE LoggingIn \/ Disconnect
  BY <1>10 DEF LoggingIn, StoreLogin, LiftPausedAuth, RequeueBlockedAuth, Disconnect, SmallTypes,
              authVars, dispVars
<1>11. CASE Time
  BY <1>11 DEF Time, ReclaimLoop, Lapse, EndBackoff, Holding, SmallTypes, authVars, dispVars
<1>12. CASE Crash \/ Start
  <2>1. [n \in 1 .. Capacity |-> 0] \in [1 .. Capacity -> Nat]
    OBVIOUS
  <2>2. CASE Crash
    BY <2>1, <2>2 DEF Crash, Forget, SmallTypes
  <2>3. CASE Start
    <3>1. broker.token \in BOOLEAN
      BY DEF PipeInv, DispatcherInv
    <3> QED
      BY <2>1, <2>3, <3>1 DEF Start, SmallTypes, Modes
  <2> QED
    BY <1>12, <2>2, <2>3
<1>13. CASE Stop
  BY <1>13, <1>a DEF Stop, Forget, SmallTypes
<1>14. CASE UNCHANGED vars
  BY <1>14 DEF vars, SmallTypes
<1> QED
  BY <1>1, <1>2, <1>3, <1>4, <1>5, <1>6, <1>7, <1>8, <1>9, <1>10, <1>11, <1>12, <1>13, <1>14
  DEF PipelineNext, Dispatching, Working, FollowingMode, Procs

(* The pieces make up the type invariant of the pipeline. *)
LEMMA TypesTogether ==
  ASSUME PipelineInv, RoomInv, SmallTypes
  PROVE  PipelineTypeOK
<1>1. TypeOK /\ mode \in Modes /\ DispatcherInv /\ \A p \in Procs : proc[p] \in ProcState
  BY DEF PipelineInv, LeaseInv, PipeInv, ProcsInv
<1>2. Len(buffer) <= Capacity
  BY <1>1, BufferFits
<1>3. up \in BOOLEAN /\ run \in Owners
  BY RunIsOwner DEF PipelineInv, PipeInv, RunsCounted
<1>4. faults \in 0 .. MaxFaults
  <2>1. run \in Nat \ {0} /\ faults \in Nat /\ MaxFaults \in Nat /\ run + faults <= 1 + MaxFaults
    BY PipelineAssumption DEF PipelineInv, PipeInv, RunsCounted
  <2> QED
    BY <2>1
<1>5. resuming \subseteq Jobs
  BY DEF PipelineInv, PipeInv, ResumingKnown
<1> QED
  BY <1>1, <1>2, <1>3, <1>4, <1>5 DEF PipelineTypeOK, SmallTypes, DispatcherInv

(* What every reachable state knows of the dispatcher, whether leases hold or not. *)
DispatchInv == DownInv /\ RoomInv /\ SmallTypes

(* It is inductive on top of the pipeline's invariant. *)
LEMMA DispatchInductive ==
  /\ PipelineInit => DispatchInv
  /\ PipelineInv /\ DispatchInv /\ PipelineInv' /\ [PipelineNext]_vars => DispatchInv'
<1>1. ASSUME PipelineInit PROVE DispatchInv
  <2>1. DownInv
    BY <1>1 DEF PipelineInit, DownInv
  <2>2. RoomInv
    <3>1. Len(<<>>) = 0 /\ IsFiniteSet({}) /\ Cardinality({}) = 0 /\ Capacity \in Nat
      BY FS_EmptySet, PipelineAssumption
    <3> QED
      BY <1>1, <3>1 DEF PipelineInit, RoomInv, RunningDispatcher, PausedBufferEmpty
  <2>3. SmallTypes
    BY <1>1 DEF PipelineInit, SmallTypes, Modes
  <2> QED
    BY <2>1, <2>2, <2>3 DEF DispatchInv
<1>2. ASSUME PipelineInv, DispatchInv, PipelineInv', [PipelineNext]_vars PROVE DispatchInv'
  <2>1. PipeInv /\ up \in BOOLEAN /\ mode \in Modes /\ mode' \in Modes
    BY <1>2 DEF PipelineInv, PipeInv, RunsCounted
  <2> QED
    BY <1>2, <2>1, DownStep, RoomStep, SmallTypesStep DEF DispatchInv
<1> QED
  BY <1>1, <1>2

(* The pipeline stays well typed; in particular the buffer never overflows,
   although the refill measures its room before it claims and fills it after. *)
THEOREM PipelineTypeCorrect == PipelineSpec => []PipelineTypeOK
<1>1. PipelineInv /\ DispatchInv => PipelineTypeOK
  BY TypesTogether DEF DispatchInv
<1> QED
  BY <1>1, DispatchInductive, PipelineInvAlways, PTL DEF PipelineSpec

(* A paused dispatcher holds nothing once its drain is over, even when leases
   run out under their holders. *)
THEOREM PausedBufferIsEmpty == PipelineSpec => []PausedBufferEmpty
<1>1. DispatchInv => PausedBufferEmpty
  BY DEF DispatchInv, RoomInv
<1> QED
  BY <1>1, DispatchInductive, PipelineInvAlways, PTL DEF PipelineSpec

(* Hands apart are claims held once. *)
LEMMA HandsAreClaims ==
  ASSUME PipelineInv, HandsInv
  PROVE  ClaimsHeldOnce
<1>1. InHand \subseteq Hands /\ Workers \subseteq Procs
  BY DEF Hands, Hand, InHand, Holding, Procs
<1>2. \A w \in Holding : w \in Procs /\ proc[w].t \in Hand(w) /\ proc[w].rows = {}
  BY DEF Holding, Hand, Procs, HandsInv, HoldingPCs
<1>3. \A p \in Procs : proc[p].rows \subseteq Hand(p)
  BY DEF Hand
<1>4. ASSUME NEW p \in Procs
      PROVE  proc[p].rows \cap (ToSet(buffer) \cup disp.rows \cup {proc[w].t : w \in Holding}) = {}
  <2>1. proc[p].rows \cap (ToSet(buffer) \cup disp.rows) = {}
    BY <1>3 DEF HandsInv
  <2>2. ASSUME NEW w \in Holding PROVE proc[w].t \notin proc[p].rows
    <3>1. CASE w = p
      BY <1>2, <3>1
    <3>2. CASE w # p
      BY <1>2, <1>3, <3>2 DEF HandsInv
    <3> QED
      BY <3>1, <3>2
  <2> QED
    BY <2>1, <2>2
<1>5. \A v, w \in Holding : v # w => proc[v].t # proc[w].t
  BY <1>2 DEF HandsInv
<1>6. \A w \in Holding : proc[w].t \notin ToSet(buffer) \cup disp.rows
  BY <1>2 DEF HandsInv
<1>7. \A t \in InHand : Holds(run, t)
  BY <1>1 DEF HandsInv, HeldFast
<1> QED
  BY <1>4, <1>5, <1>6, <1>7 DEF HandsInv, ClaimsHeldOnce, Distinct

(* The hands come and go together with the dispatcher's invariant. *)
LEMMA HandsInductive ==
  ASSUME "lapse" \notin Faults
  PROVE  /\ PipelineInit => HandsInv
         /\ PipelineInv /\ DispatchInv /\ HandsInv /\ [PipelineNext]_vars => HandsInv'
<1>1. ASSUME PipelineInit PROVE HandsInv
  <2>1. buffer = <<>> /\ disp.rows = {} /\ \A p \in Procs : proc[p] = Idle
    BY <1>1 DEF PipelineInit, RunningDispatcher
  <2>2. \A p \in Procs : proc[p].rows = {} /\ Hand(p) = {}
    <3>1. Idle.rows = {} /\ Idle.pc \notin HoldingPCs
      BY DEF Idle, HoldingPCs
    <3> QED
      BY <2>1, <3>1 DEF Hand
  <2>3. ToSet(buffer) = {} /\ Distinct(buffer)
    BY <2>1 DEF ToSet, Distinct
  <2> QED
    BY <2>1, <2>2, <2>3 DEF HandsInv, Hands
<1>2. ASSUME PipelineInv, DispatchInv, HandsInv, [PipelineNext]_vars PROVE HandsInv'
  BY <1>2, HandsStep DEF PipelineInv, LeaseInv, DispatchInv
<1> QED
  BY <1>1, <1>2

(* As long as no lease outlives its period, a row is in one hand of the process
   at a time, whatever refills, takes, pauses, drains, releases, stray claims,
   stops and restarts overlap. *)
THEOREM RowsInOneHandAlways ==
  ASSUME "lapse" \notin Faults
  PROVE  PipelineSpec => []RowsInOneHand
<1>1. PipelineInv /\ DispatchInv /\ HandsInv => RowsInOneHand
  BY TypesTogether, HandsAreClaims DEF DispatchInv, RoomInv, RowsInOneHand
<1>2. /\ PipelineInit => HandsInv
      /\ PipelineInv /\ DispatchInv /\ HandsInv /\ [PipelineNext]_vars => HandsInv'
  BY HandsInductive
<1> QED
  BY <1>1, <1>2, DispatchInductive, PipelineInvAlways, PTL DEF PipelineSpec

-----------------------------------------------------------------------------
(* Verdicts. *)

(* A cancelled row belongs to a job whose user asked for it, and a job that is
   not committed has no rows. *)
RowsKnowTheirJob ==
  \A t \in Tasks :
    /\ task[t].state = "cancelled" => job[JobOf[t]].cancel
    /\ job[JobOf[t]].status = "absent" => task[t].state = "absent"

(* Setting some rows to a state changes the state of those rows and no other. *)
LEMMA SetStateState ==
  ASSUME TypeOK, NEW rows, NEW state \in TaskStates, SetState(rows, state), NEW t \in Tasks
  PROVE  IF t \in rows THEN task'[t].state = state ELSE task'[t] = task[t]
<1>1. task[t] \in TaskRow
  BY DEF TypeOK
<1> QED
  BY <1>1 DEF SetState, Unleased, TaskRow

(* What a statement can do to one row: leave its state, move an open row, open a
   new row of a committed job, or open the first rows of a job it commits. *)
LEMMA RowFates ==
  ASSUME TypeOK, [Next]_tables, NEW t \in Tasks
  PROVE  \/ task'[t] = task[t]
         \/ /\ task[t].state \in OpenStates /\ task'[t].state # "absent"
            /\ task'[t].state = "cancelled" => job[JobOf[t]].cancel
         \/ task[t].state = "absent" /\ InsertFollowup(t) /\ task'[t].state = "pending"
         \/ /\ task[t].state = "absent" /\ task'[t].state = "pending"
            /\ \E status, rows : CommitJob(JobOf[t], status, rows)
<1> DEFINE moved == /\ task[t].state \in OpenStates /\ task'[t].state # "absent"
                    /\ task'[t].state = "cancelled" => job[JobOf[t]].cancel
           goal == \/ task'[t] = task[t]
                   \/ moved
                   \/ task[t].state = "absent" /\ InsertFollowup(t) /\ task'[t].state = "pending"
                   \/ /\ task[t].state = "absent" /\ task'[t].state = "pending"
                      /\ \E status, rows : CommitJob(JobOf[t], status, rows)
<1> SUFFICES goal
  OBVIOUS
<1>a. task[t] \in TaskRow /\ task \in [Tasks -> TaskRow]
  BY DEF TypeOK
<1>s. ASSUME NEW rows, NEW state \in TaskStates \ {"absent", "cancelled"}, SetState(rows, state),
             t \in rows => task[t].state \in OpenStates
      PROVE  goal
  BY <1>s, SetStateState
<1>o. OpenStates = {"pending", "leased"} /\ TerminalStates \cup OpenStates \cup {"absent"} = TaskStates
      /\ TerminalStates = {"done", "empty", "skipped", "failed", "cancelled"}
  BY DEF OpenStates, TerminalStates, OutcomeStates, TaskStates
<1>1. ASSUME NEW owner, NEW limit, Lease(owner, limit) PROVE goal
  <2>1. task'[t] = task[t] \/ (task[t].state = "pending" /\ task'[t].state = "leased")
    BY <1>1, <1>a DEF Lease, LeaseSelection, FirstOf, Leasable, TaskRow
  <2> QED
    BY <1>o, <2>1
<1>2. ASSUME NEW owner, NEW u, NEW outcome \in OutcomeStates, Ack(owner, u, outcome) PROVE goal
  BY <1>2, <1>s, <1>o DEF Ack, Holds, OutcomeStates
<1>3. ASSUME NEW owner, NEW u, NackTransient(owner, u) PROVE goal
  <2>1. \/ task'[t] = task[t]
        \/ task[t].state = "leased" /\ task'[t].state \in {"failed", "pending"}
    BY <1>3, <1>a DEF NackTransient, Holds, Charged, Unleased, TaskRow
  <2> QED
    BY <1>o, <2>1
<1>4. ASSUME NEW owner, NEW u, NackFatal(owner, u) \/ Park(owner, u) PROVE goal
  BY <1>4, <1>s, <1>o DEF NackFatal, Park, Holds
<1>5. ASSUME NEW owner, NEW rows, Release(owner, rows) PROVE goal
  BY <1>5, <1>s, <1>o DEF Release, Holds
<1>6. ASSUME ReclaimExpiredLeases \/ ReclaimAndRecover PROVE goal
  BY <1>6, <1>s, <1>o DEF ReclaimExpiredLeases, ReclaimAndRecover
<1>7. ASSUME NEW j \in Jobs, job[j].cancel, CancelPending(j) PROVE goal
  <2> DEFINE rows == {u \in TasksOf(j) : task[u].state = "pending"}
  <2>1. SetState(rows, "cancelled") /\ (t \in rows => JobOf[t] = j /\ task[t].state = "pending")
    BY <1>7 DEF CancelPending, TasksOf
  <2> HIDE DEF rows
  <2>2. "cancelled" \in TaskStates
    BY <1>o
  <2>3. IF t \in rows THEN task'[t].state = "cancelled" ELSE task'[t] = task[t]
    BY <2>1, <2>2, SetStateState
  <2> QED
    BY <1>7, <1>o, <2>1, <2>3
<1>8. ASSUME NEW j, NEW rows, SkipOlder(j, rows) PROVE goal
  BY <1>8, <1>s, <1>o DEF SkipOlder
<1>9. ASSUME NEW u \in Tasks, InsertFollowup(u) PROVE goal
  <2>1. IF t \in {u} THEN task'[t].state = "pending" ELSE task'[t] = task[t]
    BY <1>9, <1>o, SetStateState DEF InsertFollowup
  <2> QED
    BY <1>9, <2>1 DEF InsertFollowup
<1>10. ASSUME NEW j \in Jobs, NEW status, NEW rows, CommitJob(j, status, rows) PROVE goal
  <2>1. IF t \in rows THEN task'[t].state = "pending" ELSE task'[t] = task[t]
    BY <1>10, <1>o, SetStateState DEF CommitJob
  <2>2. t \in rows => JobOf[t] = j /\ task[t].state = "absent"
    BY <1>10 DEF CommitJob, TasksOf
  <2> QED
    BY <1>10, <2>1, <2>2
<1>11. ASSUME NEW u \in Tasks, LeaseLapses(u) \/ BackoffEnds(u) PROVE goal
  <2>1. task'[t] = task[t] \/ (task[t].state \in OpenStates /\ task'[t].state = task[t].state)
    BY <1>11, <1>a, <1>o DEF LeaseLapses, BackoffEnds, TaskRow
  <2> QED
    BY <1>o, <2>1
<1>12. ASSUME task' = task PROVE goal
  BY <1>12
<1>q. ASSUME QueueStatement PROVE goal
  BY <1>q, <1>1, <1>2, <1>3, <1>4, <1>5, <1>6, <1>7, <1>8, <1>9 DEF QueueStatement, ReleaseAll
<1>j. ASSUME JobStatement PROVE goal
  <2>1. task' = task \/ \E j \in Jobs, status \in JobStatuses, rows \in SUBSET Tasks : CommitJob(j, status, rows)
    BY <1>j DEF JobStatement, RequestCancel, PauseJob, ResumeJob, ParkJobs, UnparkJobs,
                ResumeJobsAfterLogin, FinishJob, RollDeferredBudgetJobs
  <2> QED
    BY <1>10, <1>12, <2>1
<1> QED
  BY <1>6, <1>11, <1>12, <1>q, <1>j DEF Next, TimePasses, tables

(* No statement breaks what the rows know of their job. *)
LEMMA RowsKnowTheirJobStep ==
  ASSUME TypeOK, RowsKnowTheirJob, [Next]_tables
  PROVE  RowsKnowTheirJob'
<1>1. JobsGrow
  BY StatementsGrow
<1>2. ASSUME NEW t \in Tasks
      PROVE  /\ task'[t].state = "cancelled" => job'[JobOf[t]].cancel
             /\ job'[JobOf[t]].status = "absent" => task'[t].state = "absent"
  <2>0. JobOf[t] \in Jobs
    BY JobOfAssumption
  <2>1. CASE task'[t] = task[t]
    BY <1>1, <2>0, <2>1 DEF RowsKnowTheirJob, JobsGrow
  <2>2. CASE task[t].state \in OpenStates /\ (task'[t].state = "cancelled" => job[JobOf[t]].cancel)
    <3>1. job[JobOf[t]].status # "absent"
      BY <2>2 DEF RowsKnowTheirJob, OpenStates
    <3> QED
      BY <1>1, <2>0, <2>2, <3>1 DEF JobsGrow
  <2>3. CASE InsertFollowup(t) /\ task'[t].state = "pending"
    BY <1>1, <2>0, <2>3 DEF InsertFollowup, JobsGrow
  <2>4. CASE task'[t].state = "pending" /\ \E status, rows : CommitJob(JobOf[t], status, rows)
    <3>1. job'[JobOf[t]].status \in {"queued", "deferred_budget"}
      BY <2>0, <2>4 DEF CommitJob, SetJobs, TypeOK, JobRow
    <3> QED
      BY <2>4, <3>1
  <2> QED
    BY <2>1, <2>2, <2>3, <2>4, RowFates
<1> QED
  BY <1>2 DEF RowsKnowTheirJob

(* The verdict fits the rows. *)
Fits(j, verdict) ==
  /\ IsFinished(j)
  /\ verdict = "completed" => \A t \in TasksOf(j) : task[t].state \notin {"failed", "cancelled"}
  /\ verdict = "completed_with_errors" => \E t \in TasksOf(j) : task[t].state = "failed"
  /\ verdict = "cancelled" => job[j].cancel

(* Verdicts fit, those on the job row and those about to be written. *)
VerdictInv ==
  /\ RowsKnowTheirJob
  /\ \A j \in Jobs : job[j].status \in FinalStatuses => Fits(j, job[j].status)
  /\ \A p \in Workers \cup Jobs : proc[p].pc = "finish" => Fits(Subject(p), proc[p].note)

(* A verdict that fits goes on fitting while the rows stay and flags only rise. *)
LEMMA FitsOn ==
  ASSUME NEW j \in Jobs, NEW verdict, Fits(j, verdict), JobsGrow,
         \A t \in TasksOf(j) : task'[t] = task[t]
  PROVE  Fits(j, verdict)'
BY DEF Fits, IsFinished, TasksOf, JobsGrow

(* Only a worker whose answer brought data opens a new row of a committed job,
   a job of which it holds a row. *)
LEMMA WhoPlans ==
  ASSUME TypeOK, PipeInv, [PipelineNext]_vars, NEW t \in Tasks,
         task[t].state = "absent", job[JobOf[t]].status # "absent"
  PROVE  \/ task'[t] = task[t]
         \/ \E w \in Workers : At(w, "sent") /\ JobOf[proc[w].t] = JobOf[t]
<1> DEFINE planned == \E w \in Workers : At(w, "sent") /\ JobOf[proc[w].t] = JobOf[t]
           goal == task'[t] = task[t] \/ planned
<1> SUFFICES goal
  OBVIOUS
<1> HIDE DEF planned
<1>s. ASSUME NEW rows, NEW state, SetState(rows, state), \A u \in rows : task[u].state # "absent"
      PROVE  goal
  BY <1>s DEF SetState
<1>l. ASSUME NEW owner, NEW limit, Lease(owner, limit) PROVE goal
  BY <1>l DEF Lease, LeaseSelection, FirstOf, Leasable
<1>r. ASSUME NEW rows, Release(run, rows) PROVE goal
  BY <1>r, <1>s DEF Release, Holds
<1>1. CASE Dispatching
  BY <1>1, <1>l DEF Dispatching, RefillAsk, RefillCommit, RefillDeliver, StrayCommit
<1>2. ASSUME NEW p, Pausing(p) \/ Settling(p) PROVE goal
  BY <1>2, <1>r DEF Pausing, Drain, ReleaseDrained, ParkSql, Settling, Settle, Finish, FinishJob,
              ParkJobs, tables
<1>3. ASSUME NEW w \in Workers, Working(w) PROVE goal
  <2>1. CASE Take(w) \/ Refuse(w) \/ Prepare(w) \/ Send(w)
    BY <2>1, <1>r DEF Take, Refuse, Prepare, Send, tables
  <2>2. CASE PlanOlder(w)
    <3>1. PICK u \in TasksOf(JobOf[proc[w].t]) : InsertFollowup(u)
      BY <2>2 DEF PlanOlder
    <3>2. At(w, "sent") /\ JobOf[u] = JobOf[proc[w].t]
      BY <2>2, <3>1 DEF PlanOlder, TasksOf
    <3>3. CASE u = t
      BY <3>2, <3>3 DEF planned
    <3>4. CASE u # t
      BY <3>1, <3>4 DEF InsertFollowup, SetState
    <3> QED
      BY <3>3, <3>4
  <2>3. CASE EndWalk(w) \/ NackPark(w)
    BY <2>3, <1>s DEF EndWalk, SkipOlder, NackPark, Park, Holds
  <2>4. CASE Answer(w)
    BY <2>4, <1>s, <1>r DEF Answer, Succeed, FailTransient, FailFatal, NoHandler, Raise, Reject, Limit,
                NackTransient, Ack, NackFatal, Holds, tables, TypeOK
  <2>5. CASE AuthFail(w) \/ RateFail(w) \/ TakeParkLock(w) \/ Publish(w)
    BY <2>5 DEF AuthFail, RateFail, TakeParkLock, Publish, tables
  <2> QED
    BY <1>2, <1>3, <2>1, <2>2, <2>3, <2>4, <2>5 DEF Working
<1>4. ASSUME NEW j \in Jobs, Cancelling(j) PROVE goal
  <2>1. CASE CancelSweep(j)
    <3>1. SetState({u \in TasksOf(j) : task[u].state = "pending"}, "cancelled")
      BY <2>1 DEF CancelSweep, CancelPending
    <3> QED
      BY <3>1, <1>s
  <2>2. CASE CancelFlag(j) \/ CancelPause(j) \/ CancelRestart(j)
    BY <2>2 DEF CancelFlag, CancelPause, CancelRestart, RequestCancel, tables
  <2> QED
    BY <1>2, <1>4, <2>1, <2>2 DEF Cancelling
<1>5. ASSUME NEW j \in Jobs, UserOfJob(j) PROVE goal
  <2>1. CASE StartJob(j)
    <3>1. PICK rows : job[j].status = "absent" /\ rows \subseteq TasksOf(j) /\ SetState(rows, "pending")
      BY <2>1 DEF StartJob, CommitJob
    <3>2. t \notin rows
      BY <3>1 DEF TasksOf
    <3> QED
      BY <3>1, <3>2 DEF SetState
  <2>2. CASE CancelCall(j) \/ PauseRoute(j) \/ ResumeRead(j) \/ ResumeWrite(j)
    BY <2>2 DEF CancelCall, PauseRoute, ResumeRead, ResumeWrite, PauseJob, ResumeJob, tables
  <2> QED
    BY <1>5, <2>1, <2>2 DEF UserOfJob
<1>6. CASE FollowingMode
  BY <1>2, <1>6 DEF FollowingMode, FollowMode, UnparkRate, ResumeDispatcher, UnparkJobs, tables
<1>7. CASE LoggingIn \/ Disconnect
  BY <1>7 DEF LoggingIn, StoreLogin, LiftPausedAuth, RequeueBlockedAuth, Disconnect,
              ResumeJobsAfterLogin, tables
<1>8. CASE Time
  BY <1>8, <1>s DEF Time, ReclaimLoop, Lapse, EndBackoff, ReclaimExpiredLeases, LeaseLapses,
                    BackoffEnds, TypeOK
<1>9. CASE Crash \/ Stop \/ Start
  BY <1>9, <1>s, <1>r DEF Crash, Stop, Start, ReleaseAll, ReclaimAndRecover, tables
<1>10. CASE UNCHANGED vars
  BY <1>10 DEF vars
<1> QED
  BY <1>1, <1>3, <1>4, <1>5, <1>6, <1>7, <1>8, <1>9, <1>10 DEF PipelineNext

(* The rows of a finished job stay as they are: every open row is gone, and a
   worker that could plan another one would hold an open row of the job. *)
LEMMA FinishedRowsStay ==
  ASSUME TypeOK, PipeInv, HandsInv, mode \in Modes, [PipelineNext]_vars,
         NEW j \in Jobs, job[j].status # "absent", IsFinished(j)
  PROVE  \A t \in TasksOf(j) : task'[t] = task[t]
<1>1. ASSUME NEW t \in TasksOf(j) PROVE task'[t] = task[t]
  <2>0. t \in Tasks /\ JobOf[t] = j /\ task[t].state \notin OpenStates
    BY DEF TasksOf, IsFinished
  <2>1. ~ \E status, rows : CommitJob(j, status, rows)
    BY DEF CommitJob
  <2>2. CASE task[t].state # "absent"
    BY <2>0, <2>1, <2>2, EveryStep, RowFates
  <2>3. CASE task[t].state = "absent"
    <3>1. SUFFICES ASSUME task'[t] # task[t] PROVE FALSE
      OBVIOUS
    <3>2. PICK w \in Workers : At(w, "sent") /\ JobOf[proc[w].t] = j
      BY <2>0, <2>3, <3>1, WhoPlans
    <3>3. proc[w].t \in Hands
      BY <3>2 DEF At, HoldingPCs, Hand, Hands, Procs
    <3>4. proc[w].t \in TasksOf(j) /\ task[proc[w].t].state = "leased"
      BY <3>2, <3>3, HandsAreTasks DEF HandsInv, HeldFast, Holds, TasksOf
    <3> QED
      BY <3>4 DEF IsFinished, OpenStates
  <2> QED
    BY <2>2, <2>3
<1> QED
  BY <1>1

(* Only _settle_job writes a final status: every other statement leaves the
   status of a job or sets it to one that is not final. *)
LEMMA WhoFinishes ==
  ASSUME TypeOK, PipeInv, [PipelineNext]_vars, NEW j \in Jobs, job'[j].status \in FinalStatuses
  PROVE  \/ job'[j].status = job[j].status
         \/ \E p \in Workers \cup Jobs : Finish(p) /\ Subject(p) = j /\ job'[j].status = proc[p].note
<1> DEFINE goal == \/ job'[j].status = job[j].status
                   \/ \E p \in Workers \cup Jobs :
                        Finish(p) /\ Subject(p) = j /\ job'[j].status = proc[p].note
<1> SUFFICES goal
  OBVIOUS
<1>a. job \in [Jobs -> JobRow]
  BY DEF TypeOK
<1>s. ASSUME NEW S, NEW status, status \notin FinalStatuses, SetJobs(S, status) PROVE goal
  BY <1>a, <1>s DEF SetJobs, JobRow
<1>l. ASSUME NEW owner, NEW limit, Lease(owner, limit) PROVE goal
  BY <1>a, <1>l DEF Lease, JobRow, FinalStatuses
<1>f. {"queued", "paused", "blocked_auth", "blocked_rate"} \cap FinalStatuses = {}
  BY DEF FinalStatuses
<1>k. ASSUME UNCHANGED job PROVE goal
  BY <1>k
<1>1. CASE Dispatching
  BY <1>1, <1>l DEF Dispatching, RefillAsk, RefillCommit, RefillDeliver, StrayCommit
<1>2. ASSUME NEW p \in Procs, Pausing(p) PROVE goal
  <2>1. CASE ParkSql(p)
    <3>1. proc[p].note \in {"blocked_auth", "blocked_rate"}
      BY <2>1 DEF ParkSql, At, PipeInv, ProcsInv, ProcOK, CancelPCs, ParkPCs
    <3>2. SetJobs(JobsIn(LeasableStatuses), proc[p].note) /\ proc[p].note \notin FinalStatuses
      BY <2>1, <3>1, <1>f DEF ParkSql, ParkJobs
    <3> QED
      BY <3>2, <1>s
  <2>2. CASE Drain(p) \/ ReleaseDrained(p)
    BY <2>2 DEF Drain, ReleaseDrained, Release
  <2> QED
    BY <1>2, <2>1, <2>2 DEF Pausing
<1>3. ASSUME NEW p \in Workers \cup Jobs, Settling(p) PROVE goal
  <2>1. CASE Finish(p)
    BY <1>a, <2>1 DEF Finish, FinishJob, SetJobs, JobRow
  <2>2. CASE Settle(p)
    BY <2>2 DEF Settle, tables
  <2> QED
    BY <1>3, <2>1, <2>2 DEF Settling
<1>4. ASSUME NEW w \in Workers, Working(w) PROVE goal
  <2>1. CASE \/ Take(w) \/ Refuse(w) \/ Prepare(w) \/ Send(w) \/ PlanOlder(w) \/ EndWalk(w)
             \/ NackPark(w)
    BY <2>1 DEF Take, Refuse, Prepare, Send, PlanOlder, EndWalk, NackPark, Release, Park,
                InsertFollowup, SkipOlder, tables
  <2>2. CASE Answer(w)
    BY <2>2 DEF Answer, Succeed, FailTransient, FailFatal, NoHandler, Raise, Reject, Limit,
                NackTransient, Ack, NackFatal, Release, tables
  <2>3. CASE AuthFail(w) \/ RateFail(w) \/ TakeParkLock(w) \/ Publish(w)
    BY <2>3 DEF AuthFail, RateFail, TakeParkLock, Publish, tables
  <2> QED
    BY <1>2, <1>3, <1>4, <2>1, <2>2, <2>3 DEF Working, Procs
<1>5. ASSUME NEW i \in Jobs, Cancelling(i) PROVE goal
  <2>1. CASE CancelFlag(i)
    BY <1>a, <2>1 DEF CancelFlag, RequestCancel, JobRow
  <2>2. CASE CancelPause(i) \/ CancelSweep(i) \/ CancelRestart(i)
    BY <2>2 DEF CancelPause, CancelSweep, CancelRestart, CancelPending, tables
  <2> QED
    BY <1>2, <1>3, <1>5, <2>1, <2>2 DEF Cancelling, Procs
<1>6. ASSUME NEW i \in Jobs, UserOfJob(i) PROVE goal
  <2>1. CASE StartJob(i)
    <3>1. SetJobs({i}, "queued")
      BY <2>1 DEF StartJob, CommitJob
    <3> QED
      BY <3>1, <1>s, <1>f
  <2>2. CASE PauseRoute(i) \/ ResumeWrite(i)
    <3>1. \/ \E S : SetJobs(S, "queued")
          \/ \E S : SetJobs(S, "paused")
      BY <2>2 DEF PauseRoute, ResumeWrite, PauseJob, ResumeJob
    <3>2. CASE \E S : SetJobs(S, "queued")
      BY <3>2, <1>s, <1>f
    <3>3. CASE \E S : SetJobs(S, "paused")
      BY <3>3, <1>s, <1>f
    <3> QED
      BY <3>1, <3>2, <3>3
  <2>3. CASE CancelCall(i) \/ ResumeRead(i)
    BY <2>3 DEF CancelCall, ResumeRead, tables
  <2> QED
    BY <1>6, <2>1, <2>2, <2>3 DEF UserOfJob
<1>7. CASE FollowingMode
  <2>1. CASE UnparkRate
    <3>1. \E S : SetJobs(S, "queued")
      BY <2>1 DEF UnparkRate, UnparkJobs
    <3> QED
      BY <3>1, <1>s, <1>f
  <2>2. CASE FollowMode \/ ResumeDispatcher
    BY <2>2 DEF FollowMode, ResumeDispatcher, tables
  <2> QED
    BY <1>2, <1>7, <2>1, <2>2 DEF FollowingMode, Procs
<1>8. CASE LoggingIn \/ Disconnect
  <2>1. CASE RequeueBlockedAuth
    <3>1. \E S : SetJobs(S, "queued")
      BY <2>1 DEF RequeueBlockedAuth, ResumeJobsAfterLogin
    <3> QED
      BY <3>1, <1>s, <1>f
  <2>2. CASE StoreLogin \/ LiftPausedAuth \/ Disconnect
    BY <2>2 DEF StoreLogin, LiftPausedAuth, Disconnect, tables
  <2> QED
    BY <1>8, <2>1, <2>2 DEF LoggingIn
<1>9. CASE Time
  BY <1>9 DEF Time, ReclaimLoop, Lapse, EndBackoff, ReclaimExpiredLeases, LeaseLapses, BackoffEnds
<1>10. CASE Start
  <2>1. \E S : SetJobs(S, "paused")
    BY <1>10 DEF Start, ReclaimAndRecover
  <2> QED
    BY <2>1, <1>s, <1>f
<1>11. CASE Crash \/ Stop
  BY <1>11 DEF Crash, Stop, ReleaseAll, Release, tables
<1>12. CASE UNCHANGED vars
  BY <1>12 DEF vars
<1> QED
  BY <1>1, <1>4, <1>5, <1>6, <1>7, <1>8, <1>9, <1>10, <1>11, <1>12 DEF PipelineNext

(* Only the aggregate read of a settle brings a coroutine to its verdict. *)
LEMMA WhoDecides ==
  ASSUME PipeInv, DownInv, [PipelineNext]_vars, NEW p \in Workers \cup Jobs, proc'[p].pc = "finish"
  PROVE  proc'[p] = proc[p] \/ Settle(p)
<1> DEFINE goal == proc'[p] = proc[p] \/ Settle(p)
<1> SUFFICES goal
  OBVIOUS
<1>a. p \in Procs /\ proc \in [Procs -> ProcState]
  BY DEF Procs, PipeInv, ProcsInv
<1>m. ASSUME NEW q \in Procs, NEW r, proc' = [proc EXCEPT ![q] = r], q = p => r.pc # "finish"
      PROVE  goal
  BY <1>a, <1>m
<1>g. ASSUME NEW q \in Procs, NEW pc, pc # "finish", Goto(q, pc) PROVE goal
  BY <1>a, <1>g DEF Goto, ProcState
<1>r. ASSUME NEW q \in Procs, Rest(q) PROVE goal
  BY <1>a, <1>r DEF Rest, Idle
<1>p. ASSUME NEW q \in Procs, NEW note, PauseDispatcher(q, note) PROVE goal
  <2>1. PICK pc \in {"drain", AfterPause(q)} :
          proc' = [proc EXCEPT ![q] = [proc[q] EXCEPT !.pc = pc, !.note = note]]
    BY <1>p, PauseMoves
  <2>2. pc # "finish"
    BY DEF AfterPause
  <2> QED
    BY <1>a, <2>1, <2>2 DEF ProcState
<1>k. ASSUME UNCHANGED proc PROVE goal
  BY <1>k
<1>1. CASE Dispatching
  BY <1>1 DEF Dispatching, RefillAsk, RefillCommit, RefillDeliver, StrayCommit
<1>2. ASSUME NEW q \in Procs, Pausing(q) PROVE goal
  <2>1. CASE Drain(q)
    <3>1. proc'[q].pc \in {"release", AfterPause(q)} /\ \E r : proc' = [proc EXCEPT ![q] = r]
      BY <1>a, <2>1 DEF Drain, ProcState
    <3> QED
      BY <1>a, <3>1, <1>m DEF AfterPause
  <2>2. CASE ReleaseDrained(q)
    <3>1. proc'[q].pc = AfterPause(q) /\ \E r : proc' = [proc EXCEPT ![q] = r]
      BY <1>a, <2>2 DEF ReleaseDrained, ProcState
    <3> QED
      BY <1>a, <3>1, <1>m DEF AfterPause
  <2>3. CASE ParkSql(q)
    BY <2>3, <1>g, <1>r DEF ParkSql
  <2> QED
    BY <1>2, <2>1, <2>2, <2>3 DEF Pausing
<1>3. ASSUME NEW q \in Procs, Settling(q) PROVE goal
  <2>1. CASE Finish(q) \/ Rest(q)
    BY <2>1, <1>r DEF Finish
  <2>2. CASE Settle(q) /\ q # p
    <3>1. \E r : proc' = [proc EXCEPT ![q] = r]
      BY <2>2 DEF Settle, Rest
    <3> QED
      BY <2>2, <3>1, <1>m
  <2> QED
    BY <1>3, <2>1, <2>2 DEF Settling
<1>4. ASSUME NEW w \in Workers, Working(w) PROVE goal
  <2>a. w \in Procs
    BY DEF Procs
  <2>1. CASE Take(w)
    <3>1. proc'[w].pc \in {"prepare", "refuse"} /\ \E r : proc' = [proc EXCEPT ![w] = r]
      BY <1>a, <2>a, <2>1 DEF Take, Idle
    <3> QED
      BY <1>a, <2>a, <3>1, <1>m
  <2>2. CASE Refuse(w) \/ NoHandler(w) \/ Raise(w)
    BY <2>a, <2>2, <1>r DEF Refuse, NoHandler, Raise
  <2>3. CASE Prepare(w)
    <3>1. proc'[w].pc \in {"acquire", "unauth"} /\ \E r : proc' = [proc EXCEPT ![w] = r]
      BY <1>a, <2>a, <2>3 DEF Prepare, ProcState
    <3> QED
      BY <1>a, <2>a, <3>1, <1>m
  <2>4. CASE Send(w) \/ PlanOlder(w) \/ EndWalk(w) \/ Reject(w) \/ Limit(w)
    <3>1. \E pc \in {"sent", "walked", "unauth", "limited"} : Goto(w, pc)
      BY <2>4 DEF Send, PlanOlder, EndWalk, Reject, Limit
    <3> QED
      BY <2>a, <3>1, <1>g
  <2>5. CASE Succeed(w) \/ FailTransient(w) \/ FailFatal(w)
    <3>1. proc' = [proc EXCEPT ![w] = [Idle EXCEPT !.pc = "settle", !.t = proc[w].t]]
      BY <2>5 DEF Succeed, FailTransient, FailFatal, ToSettle
    <3> QED
      BY <1>a, <2>a, <3>1, <1>m DEF Idle
  <2>6. CASE NackPark(w)
    <3>1. proc'[w].pc \in {"authfail", "ratefail"} /\ \E r : proc' = [proc EXCEPT ![w] = r]
      BY <1>a, <2>a, <2>6 DEF NackPark, Idle
    <3> QED
      BY <1>a, <2>a, <3>1, <1>m
  <2>7. ASSUME NEW note, EnterParking(w, note) PROVE goal
    <3>1. CASE parkLock = NoProc
      BY <2>a, <2>7, <3>1, <1>p DEF EnterParking
    <3>2. CASE parkLock # NoProc
      <4>1. proc' = [proc EXCEPT ![w] = [proc[w] EXCEPT !.pc = "lock", !.note = note]]
        BY <2>7, <3>2 DEF EnterParking
      <4> QED
        BY <1>a, <2>a, <4>1 DEF ProcState
    <3> QED
      BY <3>1, <3>2
  <2>8. CASE AuthFail(w) \/ RateFail(w) \/ TakeParkLock(w) \/ Publish(w)
    BY <2>a, <2>7, <2>8, <1>r DEF AuthFail, RateFail, TakeParkLock, Publish
  <2> QED
    BY <1>2, <1>3, <1>4, <2>a, <2>1, <2>2, <2>3, <2>4, <2>5, <2>6, <2>8 DEF Working, Answer
<1>5. ASSUME NEW j \in Jobs, Cancelling(j) \/ UserOfJob(j) PROVE goal
  <2>a. j \in Procs
    BY DEF Procs
  <2>1. CASE CancelFlag(j) \/ CancelSweep(j) \/ CancelCall(j)
    BY <2>a, <2>1, <1>g DEF CancelFlag, CancelSweep, CancelCall
  <2>2. CASE CancelPause(j)
    BY <2>a, <2>2, <1>p DEF CancelPause
  <2>3. CASE CancelRestart(j)
    BY <1>a, <2>a, <2>3 DEF CancelRestart, Idle
  <2>4. CASE StartJob(j) \/ PauseRoute(j) \/ ResumeRead(j) \/ ResumeWrite(j)
    BY <2>4 DEF StartJob, PauseRoute, ResumeRead, ResumeWrite
  <2> QED
    BY <1>2, <1>3, <1>5, <2>a, <2>1, <2>2, <2>3, <2>4 DEF Cancelling, UserOfJob
<1>6. CASE FollowingMode
  <2>a. "modeLoop" \in Procs
    BY DEF Procs
  <2> QED
    BY <1>2, <1>6, <1>g, <1>p, <1>r, <2>a DEF FollowingMode, FollowMode, UnparkRate, ResumeDispatcher
<1>7. CASE LoggingIn \/ Disconnect
  <2>a. "login" \in Procs
    BY DEF Procs
  <2> QED
    BY <1>7, <1>g, <1>r, <2>a
    DEF LoggingIn, StoreLogin, LiftPausedAuth, RequeueBlockedAuth, Disconnect
<1>8. CASE Time \/ UNCHANGED vars \/ Start
  BY <1>8 DEF Time, ReclaimLoop, Lapse, EndBackoff, Start, vars
<1>9. CASE Crash \/ Stop
  <2>1. proc' = [q \in Procs |-> Idle]
    BY <1>9 DEF Crash, Stop, Forget
  <2>2. proc'[p].pc = "idle"
    BY <1>a, <2>1 DEF Idle
  <2> QED
    BY <2>2
<1> QED
  BY <1>1, <1>4, <1>5, <1>6, <1>7, <1>8, <1>9 DEF PipelineNext

(* Every step keeps the verdicts fitting. *)
LEMMA VerdictStep ==
  ASSUME TypeOK, PipeInv, DownInv, HandsInv, mode \in Modes, VerdictInv, [PipelineNext]_vars
  PROVE  VerdictInv'
<1>1. [Next]_tables /\ JobsGrow
  BY EveryStep, StatementsGrow
<1>2. RowsKnowTheirJob'
  BY <1>1, RowsKnowTheirJobStep DEF VerdictInv
<1>f. "absent" \notin FinalStatuses
  BY DEF FinalStatuses
<1>g. ASSUME NEW j \in Jobs, NEW verdict, Fits(j, verdict), job[j].status # "absent"
      PROVE  Fits(j, verdict)'
  BY <1>1, <1>g, FinishedRowsStay, FitsOn DEF Fits
<1>s. ASSUME NEW p \in Workers \cup Jobs, proc[p].pc = "finish"
      PROVE  /\ Subject(p) \in Jobs /\ job[Subject(p)].status # "absent"
             /\ Fits(Subject(p), proc[p].note)
  <2>1. p \in Procs /\ ProcOK(p, proc[p], job)
    BY DEF Procs, PipeInv, ProcsInv
  <2>2. Subject(p) \in Jobs /\ job[Subject(p)].status # "absent"
    BY <1>s, <2>1, JobOfAssumption, PipelineAssumption DEF ProcOK, Subject, WorkerPCs
  <2> QED
    BY <1>s, <2>2 DEF VerdictInv
<1>3. ASSUME NEW j \in Jobs, job'[j].status \in FinalStatuses PROVE Fits(j, job[j].status)'
  <2>1. Fits(j, job'[j].status) /\ job[j].status # "absent"
    <3>1. CASE job'[j].status = job[j].status
      BY <1>3, <1>f, <3>1 DEF VerdictInv
    <3>2. CASE \E p \in Workers \cup Jobs :
                 Finish(p) /\ Subject(p) = j /\ job'[j].status = proc[p].note
      BY <1>s, <3>2 DEF Finish, At
    <3> QED
      BY <1>3, <3>1, <3>2, WhoFinishes
  <2>2. \A t \in TasksOf(j) : task'[t] = task[t]
    BY <2>1, FinishedRowsStay DEF Fits
  <2> QED
    BY <1>1, <2>1, <2>2 DEF Fits, IsFinished, TasksOf, JobsGrow
<1>4. ASSUME NEW p \in Workers \cup Jobs, proc'[p].pc = "finish"
      PROVE  Fits(Subject(p), proc[p].note)'
  <2>1. CASE proc'[p] = proc[p]
    <3>1. Subject(p)' = Subject(p)
      BY <2>1 DEF Subject
    <3>2. Subject(p) \in Jobs /\ job[Subject(p)].status # "absent" /\ Fits(Subject(p), proc[p].note)
      BY <1>4, <1>s, <2>1
    <3>3. \A t \in TasksOf(Subject(p)) : task'[t] = task[t]
      BY <3>2, FinishedRowsStay DEF Fits
    <3> QED
      BY <1>1, <2>1, <3>1, <3>2, <3>3 DEF Fits, IsFinished, TasksOf, JobsGrow
  <2>2. CASE Settle(p)
    <3>0. p \in Procs /\ proc[p] \in ProcState /\ proc[p].pc = "settle" /\ UNCHANGED <<task, job>>
      BY <2>2 DEF Procs, PipeInv, ProcsInv, Settle, At, tables
    <3> DEFINE note == TerminalStatus(Subject(p))
               r == [Idle EXCEPT !.pc = "finish", !.t = proc[p].t, !.note = note]
    <3>a. proc \in [Procs -> ProcState]
      BY DEF PipeInv, ProcsInv
    <3>b. r.t = proc[p].t /\ r.note = note
      BY DEF Idle
    <3>c. ~Rest(p)
      <4>1. Idle.pc # "finish"
        BY DEF Idle
      <4>2. Rest(p) => proc'[p] = Idle
        BY <3>0, <3>a DEF Rest
      <4> QED
        BY <1>4, <4>1, <4>2
    <3>d. IsFinished(Subject(p)) /\ proc' = [proc EXCEPT ![p] = r]
      BY <2>2, <3>c DEF Settle
    <3> HIDE DEF r
    <3>e. proc'[p] = r
      BY <3>0, <3>a, <3>d
    <3>1. /\ IsFinished(Subject(p))
          /\ proc'[p].t = proc[p].t /\ proc'[p].note = TerminalStatus(Subject(p))
      BY <3>b, <3>d, <3>e
    <3>2. Subject(p)' = Subject(p)
      BY <3>1 DEF Subject
    <3>3. Fits(Subject(p), TerminalStatus(Subject(p)))
      BY <3>1 DEF Fits, TerminalStatus, TasksOf, VerdictInv, RowsKnowTheirJob
    <3> QED
      BY <3>0, <3>1, <3>2, <3>3 DEF Fits, IsFinished, TasksOf
  <2> QED
    BY <1>4, <2>1, <2>2, WhoDecides
<1> QED
  BY <1>2, <1>3, <1>4 DEF VerdictInv

(* A first start has passed no verdict. *)
LEMMA VerdictInit == PipelineInit => VerdictInv
<1> SUFFICES ASSUME PipelineInit PROVE VerdictInv
  OBVIOUS
<1>1. \A t \in Tasks : task[t].state = "absent"
  BY DEF PipelineInit, Init, AbsentRow
<1>2. \A j \in Jobs : job[j].status = "absent"
  BY DEF PipelineInit, Init
<1>3. \A p \in Workers \cup Jobs : proc[p].pc = "idle"
  BY DEF PipelineInit, Idle, Procs
<1> QED
  BY <1>1, <1>2, <1>3 DEF VerdictInv, RowsKnowTheirJob, FinalStatuses

(* A job that is declared finished has an outcome for every row, and keeps it:
   the aggregate is read in one transaction and the verdict written in another,
   but by then no worker holds a row of the job and nobody can plan one.  Only a
   lease that lapses under a working holder could break this. *)
THEOREM FinishedMeansDoneAlways ==
  ASSUME "lapse" \notin Faults
  PROVE  PipelineSpec => []FinishedMeansDone
<1>1. PipelineInv /\ DispatchInv /\ HandsInv /\ VerdictInv /\ [PipelineNext]_vars => VerdictInv'
  BY VerdictStep DEF PipelineInv, LeaseInv, DispatchInv
<1>2. /\ PipelineInit => HandsInv
      /\ PipelineInv /\ DispatchInv /\ HandsInv /\ [PipelineNext]_vars => HandsInv'
  BY HandsInductive
<1>3. VerdictInv => FinishedMeansDone
  BY DEF VerdictInv, Fits, FinishedMeansDone
<1> QED
  BY <1>1, <1>2, <1>3, VerdictInit, DispatchInductive, PipelineInvAlways, PTL DEF PipelineSpec

(* The verdict still describes the rows when it lands and ever after. *)
THEOREM HonestVerdictAlways ==
  ASSUME "lapse" \notin Faults
  PROVE  PipelineSpec => []HonestVerdict
<1>1. PipelineInv /\ DispatchInv /\ HandsInv /\ VerdictInv /\ [PipelineNext]_vars => VerdictInv'
  BY VerdictStep DEF PipelineInv, LeaseInv, DispatchInv
<1>2. /\ PipelineInit => HandsInv
      /\ PipelineInv /\ DispatchInv /\ HandsInv /\ [PipelineNext]_vars => HandsInv'
  BY HandsInductive
<1>3. VerdictInv => HonestVerdict
  <2> SUFFICES ASSUME VerdictInv, NEW j \in Jobs
               PROVE  LET states == {task[t].state : t \in TasksOf(j)}
                      IN  /\ job[j].status = "completed" => states \cap {"failed", "cancelled"} = {}
                          /\ job[j].status = "completed_with_errors" => "failed" \in states
                          /\ job[j].status = "cancelled" => job[j].cancel
    BY DEF HonestVerdict
  <2>1. job[j].status \in FinalStatuses => Fits(j, job[j].status)
    BY DEF VerdictInv
  <2> QED
    BY <2>1 DEF Fits, FinalStatuses
<1> QED
  BY <1>1, <1>2, <1>3, VerdictInit, DispatchInductive, PipelineInvAlways, PTL DEF PipelineSpec

=============================================================================
