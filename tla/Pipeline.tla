------------------------------ MODULE Pipeline ------------------------------
(***************************************************************************)
(* The running download pipeline: the dispatcher with its prefetch buffer  *)
(* (pipeline/dispatcher.py), the worker pool (pipeline/worker.py), the     *)
(* supervisor's gates, parking, cancelling and settling                    *)
(* (pipeline/supervisor.py), the job routes (pipeline/jobs.py), the login  *)
(* callback (api/v1/broker.py) and, as far as these components read it,    *)
(* the state of the token broker and of the governor.  The tables and      *)
(* their statements come from LeaseQueue.                                  *)
(*                                                                         *)
(* The program is one asyncio loop plus threads that run the SQL.  An      *)
(* action is what runs between two points where a coroutine can lose the   *)
(* loop: a synchronous stretch, or one SQL transaction in its thread.      *)
(*                                                                         *)
(* Handlers are plugged in by a registry: what one does between taking a   *)
(* task and answering is fetching a token, waiting for the governor and    *)
(* sending a request whose answer is any of the classes of errors.py; the  *)
(* candle handler also plans or skips older rows of its job.               *)
(*                                                                         *)
(* The environment is unreliable within a budget: Faults names the events  *)
(* that may happen and MaxFaults bounds how many happen in a behaviour.    *)
(***************************************************************************)
EXTENDS LeaseQueue, SequencesExt

CONSTANTS
  Workers,         \* the worker coroutines
  Capacity,        \* the buffer's size, 2 * worker_count in the code
  Faults,          \* which environment events may happen
  MaxFaults,       \* how many of them may happen
  MaxLogins        \* how many logins may happen

FaultKinds == {"transient", "fatal", "nohandler", "raise", "rejected", "ratelimit",
               "lapse", "crash", "stop", "disconnect", "relogin", "pause", "cancel"}

ASSUME PipelineAssumption ==
  /\ Capacity \in Nat \ {0}
  /\ Faults \subseteq FaultKinds
  /\ MaxFaults \in Nat /\ MaxLogins \in Nat
  /\ Owners = 1 .. (1 + MaxFaults)
  /\ 0 \notin Tasks
  /\ Workers \cap (Jobs \cup {"modeLoop", "login"}) = {} /\ Jobs \cap {"modeLoop", "login"} = {}

VARIABLES
  buffer,          \* Dispatcher._buffer
  disp,            \* the refill coroutine and the _resumed event
  strays,          \* claims whose coroutine was cancelled while the thread ran
  proc,            \* where each coroutine or request stands
  parkLock,        \* PipelineSupervisor._park_lock
  resuming,        \* resume routes between their read and their write
  gates,           \* auth_gate and run_gate
  broker,          \* TokenBroker: usable token, generation, parked generation
  mode,            \* the governor's mode
  lastMode,        \* PipelineSupervisor._last_mode
  up,              \* whether the process is running
  run,             \* which process run this is; its dispatcher's owner string
  late,            \* history: workers whose lease was reclaimed under them
  faults           \* environment events left

dispVars == <<buffer, disp, strays>>
authVars == <<gates, broker, mode, lastMode>>
lifeVars == <<up, run>>
vars == <<task, job, buffer, disp, strays, proc, parkLock, resuming,
          gates, broker, mode, lastMode, up, run, late, faults>>

Modes == {"running", "paused_auth", "paused_rate"}
BlockedStatus == [paused_auth |-> "blocked_auth", paused_rate |-> "blocked_rate"]

\* Workers, the mode loop, the login callback, and one cancel route per job.
Procs == Workers \cup Jobs \cup {"modeLoop", "login"}
NoProc == "none"

PCs == {"idle",
        "refuse", "prepare", "acquire", "sent", "walked", "unauth", "limited",  \* a worker's task
        "authfail", "ratefail", "lock", "publish",                       \* its reaction
        "drain", "release", "park",                                      \* Dispatcher.pause
        "unpark", "resume",                                              \* the mode loop
        "flag", "pause", "sweep", "restart",                             \* cancel_job
        "settle", "finish",                                              \* _settle_job
        "lift", "requeue"}                                               \* the login callback

Idle == [pc |-> "idle", t |-> 0, gen |-> 0, tok |-> 0, rows |-> {}, note |-> ""]

Notes == {"", "was running", "was paused", "blocked_auth", "blocked_rate"} \cup FinalStatuses

ProcState == [pc : PCs, t : Tasks \cup {0}, gen : Nat, tok : Nat,
              rows : SUBSET Tasks, note : Notes]

PipelineTypeOK ==
  /\ TypeOK
  /\ buffer \in Seq(Tasks) /\ Len(buffer) <= Capacity
  /\ disp \in [resumed : BOOLEAN, loop : {"none", "idle", "asked", "got"},
               room : 0 .. Capacity, rows : SUBSET Tasks]
  /\ strays \in [1 .. Capacity -> Nat]
  /\ \A p \in Procs : proc[p] \in ProcState
  /\ parkLock \in Workers \cup {NoProc}
  /\ resuming \subseteq Jobs
  /\ gates \in [auth : BOOLEAN, run : BOOLEAN]
  /\ broker \in [token : BOOLEAN, generation : Nat, parked : Nat]
  /\ mode \in Modes /\ lastMode \in Modes
  /\ up \in BOOLEAN /\ run \in Owners
  /\ late \subseteq Workers
  /\ faults \in 0 .. MaxFaults

StoppedDispatcher == [resumed |-> FALSE, loop |-> "none", room |-> 0, rows |-> {}]
RunningDispatcher == [resumed |-> TRUE, loop |-> "idle", room |-> 0, rows |-> {}]

\* A first start over an empty database, with a token already stored.
PipelineInit ==
  /\ Init
  /\ buffer = <<>> /\ disp = RunningDispatcher
  /\ strays = [n \in 1 .. Capacity |-> 0]
  /\ proc = [p \in Procs |-> Idle]
  /\ parkLock = NoProc /\ resuming = {}
  /\ gates = [auth |-> TRUE, run |-> TRUE]
  /\ broker = [token |-> TRUE, generation |-> 1, parked |-> 0]
  /\ mode = "running" /\ lastMode = "running"
  /\ up = TRUE /\ run = 1
  /\ late = {} /\ faults = MaxFaults

Fault(kind) == kind \in Faults /\ faults > 0 /\ faults' = faults - 1

At(p, pc) == up /\ proc[p].pc = pc
Goto(p, pc) == proc' = [proc EXCEPT ![p].pc = pc]
Rest(p) == proc' = [proc EXCEPT ![p] = Idle]

-----------------------------------------------------------------------------
(* The dispatcher's refill loop. *)

RefillAsk ==
  /\ up /\ disp.resumed /\ disp.loop = "idle"
  /\ Len(buffer) < Capacity
  /\ disp' = [disp EXCEPT !.loop = "asked", !.room = Capacity - Len(buffer)]
  /\ UNCHANGED <<task, job, buffer, strays, proc, parkLock, resuming, authVars, lifeVars, late, faults>>

RefillCommit ==
  /\ up /\ disp.loop = "asked"
  /\ Lease(run, disp.room)
  /\ disp' = [disp EXCEPT !.loop = "got", !.room = 0, !.rows = LeaseSelection(disp.room)]
  /\ UNCHANGED <<buffer, strays, proc, parkLock, resuming, authVars, lifeVars, late, faults>>

\* The batch goes in dispatch order; the buffer only shrinks meanwhile, so the
\* puts never block.
RefillDeliver ==
  /\ up /\ disp.loop = "got"
  /\ \E batch \in [1 .. Cardinality(disp.rows) -> disp.rows] :
       /\ \A i, k \in DOMAIN batch : i < k => batch[i] < batch[k]
       /\ buffer' = buffer \o batch
  /\ disp' = [disp EXCEPT !.loop = "idle", !.rows = {}]
  /\ UNCHANGED <<task, job, strays, proc, parkLock, resuming, authVars, lifeVars, late, faults>>

\* A thread whose coroutine was cancelled commits a claim nobody will hold.
StrayCommit ==
  \E n \in 1 .. Capacity :
    /\ strays[n] > 0
    /\ strays' = [strays EXCEPT ![n] = @ - 1]
    /\ Lease(run, n)
    /\ UNCHANGED <<buffer, disp, proc, parkLock, resuming, authVars, lifeVars, late, faults>>

\* Dispatcher.pause up to its first await, as one step of p.  A refill that
\* was waiting for its thread is cancelled: the thread may not have begun, or
\* it goes on alone.  Claimed rows not yet delivered are forgotten.
AfterPause(p) == IF p \in Jobs THEN "sweep" ELSE "park"

StrayClaims ==
  IF disp.loop = "asked" THEN {strays, [strays EXCEPT ![disp.room] = @ + 1]} ELSE {strays}

PauseDispatcher(p, note) ==
  /\ proc' = [proc EXCEPT ![p].pc = IF disp.resumed THEN "drain" ELSE AfterPause(p),
                          ![p].note = note]
  /\ IF disp.resumed
       THEN disp' = StoppedDispatcher /\ strays' \in StrayClaims
       ELSE UNCHANGED <<disp, strays>>
  /\ UNCHANGED buffer

DrainCopy(p) ==                          \* mutant: rows listed, not taken out
  /\ At(p, "drain")
  /\ proc' = [proc EXCEPT ![p].pc = IF buffer = <<>> THEN AfterPause(p) ELSE "release",
                          ![p].rows = ToSet(buffer)]
  /\ UNCHANGED <<tables, dispVars, parkLock, resuming, authVars, lifeVars, late, faults>>

Drain(p) ==
  /\ At(p, "drain")
  /\ buffer' = <<>>
  /\ proc' = [proc EXCEPT ![p].pc = IF buffer = <<>> THEN AfterPause(p) ELSE "release",
                          ![p].rows = ToSet(buffer)]
  /\ UNCHANGED <<task, job, disp, strays, parkLock, resuming, authVars, lifeVars, late, faults>>

ReleaseDrained(p) ==
  /\ At(p, "release")
  /\ Release(run, proc[p].rows)
  /\ proc' = [proc EXCEPT ![p].pc = AfterPause(p), ![p].rows = {}]
  /\ UNCHANGED <<dispVars, parkLock, resuming, authVars, lifeVars, late, faults>>

\* Dispatcher.resume has no await.
Resumed == IF disp.resumed THEN disp ELSE RunningDispatcher

-----------------------------------------------------------------------------
(* A worker's task. *)

Take(w) ==
  /\ At(w, "idle") /\ buffer # <<>>
  /\ buffer' = Tail(buffer)
  /\ proc' = [proc EXCEPT ![w] =
                 [Idle EXCEPT !.t = Head(buffer),
                              !.pc = IF gates.auth /\ gates.run THEN "prepare" ELSE "refuse",
                              !.gen = IF gates.auth /\ gates.run THEN broker.generation ELSE 0]]
  /\ UNCHANGED <<task, job, disp, strays, parkLock, resuming, authVars, lifeVars, late, faults>>

\* A worker lets go of its task.
LetGo(w) == late' = late \ {w}
ToSettle(w) == proc' = [proc EXCEPT ![w] = [Idle EXCEPT !.pc = "settle", !.t = proc[w].t]]

Refuse(w) ==
  /\ At(w, "refuse")
  /\ Release(run, {proc[w].t})
  /\ Rest(w) /\ LetGo(w)
  /\ UNCHANGED <<dispVars, parkLock, resuming, authVars, lifeVars, faults>>

\* The client asks the broker for the token of this request, then waits for
\* the governor: the token can be superseded while the request waits.
Prepare(w) ==
  /\ At(w, "prepare")
  /\ proc' = [proc EXCEPT ![w].pc = IF broker.token THEN "acquire" ELSE "unauth",
                          ![w].tok = IF broker.token THEN broker.generation ELSE 0]
  /\ UNCHANGED <<tables, dispVars, parkLock, resuming, authVars, lifeVars, late, faults>>

Send(w) ==
  /\ At(w, "acquire") /\ mode = "running"
  /\ Goto(w, "sent")
  /\ UNCHANGED <<tables, dispVars, parkLock, resuming, authVars, lifeVars, late, faults>>

\* The candle handler looks further back before its chunk is acknowledged: data
\* plans one older chunk, an empty window ends the walk and skips what is older.
\* Neither statement reads the job row.
PlanOlder(w) ==
  /\ At(w, "sent")
  /\ \E t \in TasksOf(JobOf[proc[w].t]) : t > proc[w].t /\ InsertFollowup(t)
  /\ Goto(w, "walked")
  /\ UNCHANGED <<dispVars, parkLock, resuming, authVars, lifeVars, late, faults>>

EndWalk(w) ==
  /\ At(w, "sent")
  /\ \E rows \in SUBSET {t \in TasksOf(JobOf[proc[w].t]) : t > proc[w].t} :
       rows # {} /\ SkipOlder(JobOf[proc[w].t], rows)
  /\ Goto(w, "walked")
  /\ UNCHANGED <<dispVars, parkLock, resuming, authVars, lifeVars, late, faults>>

Succeed(w) ==
  /\ At(w, "sent") \/ At(w, "walked")
  /\ Ack(run, proc[w].t, "done")
  /\ ToSettle(w) /\ LetGo(w)
  /\ UNCHANGED <<dispVars, parkLock, resuming, authVars, lifeVars, faults>>

FailTransient(w) ==
  /\ At(w, "sent") /\ Fault("transient")
  /\ NackTransient(run, proc[w].t)
  /\ ToSettle(w) /\ LetGo(w)
  /\ UNCHANGED <<dispVars, parkLock, resuming, authVars, lifeVars>>

FailFatal(w) ==
  /\ At(w, "sent") /\ Fault("fatal")
  /\ NackFatal(run, proc[w].t)
  /\ ToSettle(w) /\ LetGo(w)
  /\ UNCHANGED <<dispVars, parkLock, resuming, authVars, lifeVars>>

\* No handler is registered for the task's kind: failed without a settle.
NoHandler(w) ==
  /\ At(w, "prepare") /\ Fault("nohandler")
  /\ NackFatal(run, proc[w].t)
  /\ Rest(w) /\ LetGo(w)
  /\ UNCHANGED <<dispVars, parkLock, resuming, authVars, lifeVars>>

\* An exception outside the handler (an answer that is no TaskOutcome, an ack
\* that raises): the pool survives, the row is given back uncharged.
Raise(w) ==
  /\ At(w, "sent") \/ At(w, "walked")
  /\ Fault("raise")
  /\ Release(run, {proc[w].t})
  /\ Rest(w) /\ LetGo(w)
  /\ UNCHANGED <<dispVars, parkLock, resuming, authVars, lifeVars>>

\* The broker may refuse a token that was replaced or destroyed at no cost to
\* the fault budget; refusing a current one is a fault.
Superseded(w) == proc[w].tok < broker.generation \/ ~broker.token

Reject(w) ==
  /\ At(w, "sent")
  /\ IF Superseded(w) THEN UNCHANGED faults ELSE Fault("rejected")
  /\ Goto(w, "unauth")
  /\ UNCHANGED <<tables, dispVars, parkLock, resuming, authVars, lifeVars, late>>

\* FyersClient records the strike before the handler sees the error.
Limit(w) ==
  /\ At(w, "sent") /\ Fault("ratelimit")
  /\ mode' = "paused_rate"
  /\ Goto(w, "limited")
  /\ UNCHANGED <<tables, dispVars, parkLock, resuming, gates, broker, lastMode, lifeVars, late>>

NackPark(w) ==
  /\ At(w, "unauth") \/ At(w, "limited")
  /\ Park(run, proc[w].t)
  /\ proc' = [proc EXCEPT ![w] = [Idle EXCEPT !.gen = proc[w].gen,
                 !.pc = IF proc[w].pc = "unauth" THEN "authfail" ELSE "ratefail"]]
  /\ LetGo(w)
  /\ UNCHANGED <<dispVars, parkLock, resuming, authVars, lifeVars, faults>>

-----------------------------------------------------------------------------
(* The supervisor's reactions, run by the worker that met the refusal. *)

\* The parking section holds _park_lock; taking it when it is free does not
\* yield, so the dispatcher's pause begins in the same step.
EnterParking(w, note) ==
  IF parkLock = NoProc
    THEN parkLock' = w /\ PauseDispatcher(w, note)
    ELSE /\ proc' = [proc EXCEPT ![w].pc = "lock", ![w].note = note]
         /\ UNCHANGED <<parkLock, dispVars>>

\* on_auth_failure clears the gate first and asks the broker second: only the
\* first report of the current generation goes on to park.
ParksAgain(gen) == ~(gen < broker.generation)        \* mutant: parked generation unread

ParksNow(gen) == ~(gen < broker.generation) /\ ~(broker.parked # 0 /\ gen <= broker.parked)

AuthFail(w) ==
  /\ At(w, "authfail")
  /\ gates' = [gates EXCEPT !.auth = FALSE]
  /\ IF ParksNow(proc[w].gen)
       THEN /\ broker' = [broker EXCEPT !.token = FALSE, !.parked = proc[w].gen]
            /\ mode' = "paused_auth"
            /\ EnterParking(w, "blocked_auth")
       ELSE Rest(w) /\ UNCHANGED <<broker, mode, parkLock, dispVars>>
  /\ UNCHANGED <<tables, resuming, lastMode, lifeVars, late, faults>>

RateFail(w) ==
  /\ At(w, "ratefail")
  /\ gates' = [gates EXCEPT !.run = FALSE]
  /\ EnterParking(w, "blocked_rate")
  /\ UNCHANGED <<tables, resuming, broker, mode, lastMode, lifeVars, late, faults>>

TakeParkLock(w) ==
  /\ At(w, "lock") /\ parkLock = NoProc
  /\ EnterParking(w, proc[w].note)
  /\ UNCHANGED <<tables, resuming, authVars, lifeVars, late, faults>>

ParkSql(p) ==
  /\ At(p, "park")
  /\ ParkJobs(proc[p].note)
  /\ IF p \in Workers THEN Goto(p, "publish") /\ parkLock' = NoProc
                       ELSE Rest(p) /\ UNCHANGED parkLock
  /\ UNCHANGED <<dispVars, resuming, authVars, lifeVars, late, faults>>

\* _ensure_paused_rate, then _publish_mode re-anchors the mode loop.
Publish(w) ==
  /\ At(w, "publish")
  /\ mode' = IF proc[w].note = "blocked_rate" /\ mode = "running" THEN "paused_rate" ELSE mode
  /\ lastMode' = mode'
  /\ Rest(w)
  /\ UNCHANGED <<tables, dispVars, parkLock, resuming, gates, broker, lifeVars, late, faults>>

-----------------------------------------------------------------------------
(* Settling a job: the aggregate is read in one transaction and the verdict
   written in another. *)

Subject(p) == IF p \in Jobs THEN p ELSE JobOf[proc[p].t]

SettleQueuedOnly(p) ==                         \* mutant: a promoted job is not recognised
  /\ At(p, "settle")
  /\ IF /\ IsFinished(Subject(p))
        /\ job[Subject(p)].status = "queued"
       THEN proc' = [proc EXCEPT ![p] = [Idle EXCEPT !.pc = "finish", !.t = proc[p].t,
                                                     !.note = TerminalStatus(Subject(p))]]
       ELSE Rest(p)
  /\ UNCHANGED <<tables, dispVars, parkLock, resuming, authVars, lifeVars, late, faults>>

Settle(p) ==
  /\ At(p, "settle")
  /\ IF /\ IsFinished(Subject(p))
        /\ job[Subject(p)].status \in {"queued", "running", "paused"}
       THEN proc' = [proc EXCEPT ![p] = [Idle EXCEPT !.pc = "finish", !.t = proc[p].t,
                                                     !.note = TerminalStatus(Subject(p))]]
       ELSE Rest(p)
  /\ UNCHANGED <<tables, dispVars, parkLock, resuming, authVars, lifeVars, late, faults>>

Finish(p) ==
  /\ At(p, "finish")
  /\ FinishJob(Subject(p), proc[p].note)
  /\ Rest(p)
  /\ UNCHANGED <<dispVars, parkLock, resuming, authVars, lifeVars, late, faults>>

-----------------------------------------------------------------------------
(* cancel_job, one route per job. *)

CancelCallUnflagged(j) ==                \* mutant: the sweep comes before the flag
  /\ At(j, "idle") /\ job[j].status \notin FinalStatuses \cup {"absent"}
  /\ Fault("cancel")
  /\ Goto(j, "pause")
  /\ UNCHANGED <<tables, dispVars, parkLock, resuming, authVars, lifeVars, late>>

CancelCall(j) ==
  /\ At(j, "idle") /\ job[j].status \notin FinalStatuses \cup {"absent"}
  /\ Fault("cancel")
  /\ Goto(j, "flag")
  /\ UNCHANGED <<tables, dispVars, parkLock, resuming, authVars, lifeVars, late>>

CancelFlag(j) ==
  /\ At(j, "flag")
  /\ RequestCancel(j)
  /\ Goto(j, "pause")
  /\ UNCHANGED <<dispVars, parkLock, resuming, authVars, lifeVars, late, faults>>

CancelPause(j) ==
  /\ At(j, "pause")
  /\ PauseDispatcher(j, IF disp.resumed THEN "was running" ELSE "was paused")
  /\ UNCHANGED <<tables, parkLock, resuming, authVars, lifeVars, late, faults>>

CancelSweep(j) ==
  /\ At(j, "sweep")
  /\ CancelPending(j)
  /\ Goto(j, "restart")
  /\ UNCHANGED <<dispVars, parkLock, resuming, authVars, lifeVars, late, faults>>

CancelRestart(j) ==
  /\ At(j, "restart")
  /\ disp' = IF proc[j].note = "was running" THEN Resumed ELSE disp
  /\ proc' = [proc EXCEPT ![j] = [Idle EXCEPT !.pc = "settle"]]
  /\ UNCHANGED <<tables, buffer, strays, parkLock, resuming, authVars, lifeVars, late, faults>>

-----------------------------------------------------------------------------
(* The mode loop follows the governor by polling. *)

FollowMode ==
  /\ At("modeLoop", "idle") /\ mode # lastMode
  /\ lastMode' = mode
  /\ gates' = [gates EXCEPT !.run = (mode = "running")]
  /\ IF mode = "running"
       THEN /\ IF gates.auth THEN Goto("modeLoop", "unpark") ELSE UNCHANGED proc
            /\ UNCHANGED dispVars
       ELSE PauseDispatcher("modeLoop", BlockedStatus[mode])
  /\ UNCHANGED <<tables, parkLock, resuming, broker, mode, lifeVars, late, faults>>

UnparkRate ==
  /\ At("modeLoop", "unpark")
  /\ UnparkJobs("blocked_rate")
  /\ Goto("modeLoop", "resume")
  /\ UNCHANGED <<dispVars, parkLock, resuming, authVars, lifeVars, late, faults>>

ResumeDispatcher ==
  /\ At("modeLoop", "resume")
  /\ disp' = Resumed
  /\ Rest("modeLoop")
  /\ UNCHANGED <<tables, buffer, strays, parkLock, resuming, authVars, lifeVars, late, faults>>

-----------------------------------------------------------------------------
(* The login callback: TokenBroker.store_login, _unpark_after_login, then
   resume_jobs_after_login.  The user logs in when there is no usable token,
   and may also log in over one. *)

StoreLogin ==
  /\ At("login", "idle") /\ broker.generation <= MaxLogins
  /\ IF broker.token THEN Fault("relogin") ELSE UNCHANGED faults
  /\ broker' = [token |-> TRUE, generation |-> broker.generation + 1, parked |-> 0]
  /\ gates' = [gates EXCEPT !.auth = TRUE]
  /\ Goto("login", "lift")
  /\ UNCHANGED <<tables, dispVars, parkLock, resuming, mode, lastMode, lifeVars, late>>

LiftPausedAuth ==
  /\ At("login", "lift")
  /\ mode' = IF mode = "paused_auth" THEN "running" ELSE mode
  /\ Goto("login", "requeue")
  /\ UNCHANGED <<tables, dispVars, parkLock, resuming, gates, broker, lastMode, lifeVars, late, faults>>

RequeueBlockedAuth ==
  /\ At("login", "requeue")
  /\ ResumeJobsAfterLogin
  /\ Rest("login")
  /\ UNCHANGED <<dispVars, parkLock, resuming, authVars, lifeVars, late, faults>>

\* TokenBroker.clear, from the disconnect route.
Disconnect ==
  /\ up /\ Fault("disconnect")
  /\ broker' = [broker EXCEPT !.token = FALSE, !.parked = broker.generation]
  /\ gates' = [gates EXCEPT !.auth = FALSE]
  /\ mode' = "paused_auth"
  /\ UNCHANGED <<tables, dispVars, proc, parkLock, resuming, lastMode, lifeVars, late>>

-----------------------------------------------------------------------------
(* The user's jobs.  The resume route runs in a thread: it reads the status
   in one transaction and writes in another. *)

StartJob(j) ==
  /\ up /\ \E last \in TasksOf(j) : CommitJob(j, "queued", {t \in TasksOf(j) : t <= last})
  /\ UNCHANGED <<dispVars, proc, parkLock, resuming, authVars, lifeVars, late, faults>>

PauseRoute(j) ==
  /\ up /\ job[j].status \in LeasableStatuses /\ Fault("pause")
  /\ PauseJob(j)
  /\ UNCHANGED <<dispVars, proc, parkLock, resuming, authVars, lifeVars, late>>

ResumeRead(j) ==
  /\ up /\ job[j].status \in ResumableStatuses
  /\ resuming' = resuming \cup {j}
  /\ UNCHANGED <<tables, dispVars, proc, parkLock, authVars, lifeVars, late, faults>>

ResumeWrite(j) ==
  /\ up /\ j \in resuming
  /\ ResumeJob(j)
  /\ resuming' = resuming \ {j}
  /\ UNCHANGED <<dispVars, proc, parkLock, authVars, lifeVars, late, faults>>

-----------------------------------------------------------------------------
(* Time.  A lease nobody in this process holds always lapses in the end; one
   that is held lapses only when its holder is delayed beyond the lease. *)

HoldingPCs == {"refuse", "prepare", "acquire", "sent", "walked", "unauth", "limited"}
Holding == {w \in Workers : proc[w].pc \in HoldingPCs}

InHand ==
  ToSet(buffer) \cup disp.rows \cup {proc[w].t : w \in Holding}
    \cup UNION {proc[p].rows : p \in Procs}

Lapse(t) ==
  /\ LeaseLapses(t)
  /\ IF t \in InHand THEN Fault("lapse") ELSE UNCHANGED faults
  /\ UNCHANGED <<dispVars, proc, parkLock, resuming, authVars, lifeVars, late>>

EndBackoff(t) ==
  /\ BackoffEnds(t)
  /\ UNCHANGED <<dispVars, proc, parkLock, resuming, authVars, lifeVars, late, faults>>

ReclaimLoop ==
  /\ up /\ \E t \in Tasks : task[t].lapsed
  /\ ReclaimExpiredLeases
  /\ late' = late \cup {w \in Holding : task[proc[w].t].lapsed}
  /\ UNCHANGED <<dispVars, proc, parkLock, resuming, authVars, lifeVars, faults>>

-----------------------------------------------------------------------------
(* The process ends and starts again. *)

Forget ==
  /\ up' = FALSE
  /\ buffer' = <<>> /\ disp' = StoppedDispatcher
  /\ proc' = [p \in Procs |-> Idle]
  /\ parkLock' = NoProc /\ resuming' = {} /\ late' = {}
  /\ UNCHANGED <<gates, broker, mode, lastMode, run>>

Crash ==
  /\ up /\ Fault("crash")
  /\ Forget
  /\ strays' = [n \in 1 .. Capacity |-> 0]
  /\ UNCHANGED tables

\* PipelineSupervisor.stop: every lease of this run is handed back last, but
\* a claim still in its thread can outlive even that.
Stop ==
  /\ up /\ Fault("stop")
  /\ Forget
  /\ strays' \in StrayClaims
  /\ ReleaseAll(run)

\* A new TokenBroker and a new governor; the tables recover; the gates are
\* synchronised and the dispatcher starts, parked if a gate is closed.
Start ==
  /\ ~up /\ up' = TRUE /\ run' = run + 1
  /\ ReclaimAndRecover
  /\ strays' = [n \in 1 .. Capacity |-> 0]
  /\ broker' = [broker EXCEPT !.parked = 0]
  /\ gates' = [auth |-> broker.token, run |-> TRUE]
  /\ mode' = "running" /\ lastMode' = "running"
  /\ disp' = IF broker.token THEN RunningDispatcher ELSE StoppedDispatcher
  /\ UNCHANGED <<buffer, proc, parkLock, resuming, late, faults>>

-----------------------------------------------------------------------------
Dispatching == RefillAsk \/ RefillCommit \/ RefillDeliver \/ StrayCommit

Pausing(p) == Drain(p) \/ ReleaseDrained(p) \/ ParkSql(p)

Settling(p) == Settle(p) \/ Finish(p)

Answer(w) ==
  \/ Succeed(w) \/ FailTransient(w) \/ FailFatal(w) \/ NoHandler(w) \/ Raise(w)
  \/ Reject(w) \/ Limit(w)

Working(w) ==
  \/ Take(w) \/ Refuse(w) \/ Prepare(w) \/ Send(w) \/ PlanOlder(w) \/ EndWalk(w)
  \/ Answer(w) \/ NackPark(w)
  \/ AuthFail(w) \/ RateFail(w) \/ TakeParkLock(w) \/ Publish(w)
  \/ Pausing(w) \/ Settling(w)

Cancelling(j) ==
  \/ CancelFlag(j) \/ CancelPause(j) \/ CancelSweep(j) \/ CancelRestart(j)
  \/ Pausing(j) \/ Settling(j)

FollowingMode == FollowMode \/ UnparkRate \/ ResumeDispatcher \/ Pausing("modeLoop")

LoggingIn == StoreLogin \/ LiftPausedAuth \/ RequeueBlockedAuth

UserOfJob(j) ==
  StartJob(j) \/ CancelCall(j) \/ PauseRoute(j) \/ ResumeRead(j) \/ ResumeWrite(j)

Time == ReclaimLoop \/ \E t \in Tasks : Lapse(t) \/ EndBackoff(t)

PipelineNext ==
  \/ Dispatching
  \/ \E w \in Workers : Working(w)
  \/ \E j \in Jobs : Cancelling(j) \/ UserOfJob(j)
  \/ FollowingMode \/ LoggingIn \/ Disconnect
  \/ Time
  \/ Crash \/ Stop \/ Start

PipelineSpec == PipelineInit /\ [][PipelineNext]_vars

-----------------------------------------------------------------------------
(* Properties. *)

(* Whatever the coroutines do, the tables only change as LeaseQueue allows:
   each step of the running pipeline is one statement of the queue or none,
   issued by an owner that exists, with the job row's flag raised before its
   rows are swept.  What LeaseQueue promises is inherited through this. *)
ImplementsQueue == Spec

(* A job is declared finished only when every one of its rows has its
   outcome, although the aggregate is read in one transaction and the verdict
   written in another, with workers, cancels and reclaims in between. *)
FinishedMeansDone ==
  \A j \in Jobs : job[j].status \in FinalStatuses => IsFinished(j)

(* The verdict still describes the rows when it lands: a completed job has no
   failed and no cancelled row, one completed with errors has a failed one,
   and a job is cancelled only if the user asked for it. *)
HonestVerdict ==
  \A j \in Jobs :
    LET states == {task[t].state : t \in TasksOf(j)}
    IN  /\ job[j].status = "completed" => states \cap {"failed", "cancelled"} = {}
        /\ job[j].status = "completed_with_errors" => "failed" \in states
        /\ job[j].status = "cancelled" => job[j].cancel

(* While no lease outlives its period, a row in the hands of this process (in
   the buffer, in a claim under way, with a worker, or drained and about to be
   released) is leased to this run and is in exactly one of those places. *)
ClaimsHeldOnce ==
  /\ \A t \in InHand : Holds(run, t)
  /\ \A i, k \in DOMAIN buffer : i # k => buffer[i] # buffer[k]
  /\ \A v, w \in Holding : v # w => proc[v].t # proc[w].t
  /\ \A w \in Holding : proc[w].t \notin ToSet(buffer) \cup disp.rows
  /\ ToSet(buffer) \cap disp.rows = {}
  /\ \A p \in Procs :
       proc[p].rows \cap (ToSet(buffer) \cup disp.rows \cup {proc[w].t : w \in Holding}) = {}

(* A paused dispatcher holds nothing: once every pause under way has drained,
   the buffer is empty and stays empty until resume, because the refill was
   cancelled before the drain and not signalled. *)
PausedBufferEmpty ==
  ~disp.resumed /\ (\A p \in Procs : proc[p].pc # "drain") => buffer = <<>>

(* A row is in one place of this process at a time, and a paused dispatcher is
   not one of them, whatever refills, pauses and drains overlap. *)
RowsInOneHand == PipelineTypeOK /\ ClaimsHeldOnce /\ PausedBufferEmpty

(* Nothing is under way in the supervisor, the login callback or a worker. *)
Quiescent == up /\ mode = lastMode /\ \A p \in Procs : proc[p].pc = "idle"

(* Eight rejections, one login prompt: of the workers whose token was refused,
   no two are parking the pipeline for the same generation. *)
OnePromptPerGeneration ==
  \A v, w \in Workers :
    /\ v # w
    /\ proc[v].note = "blocked_auth" /\ proc[w].note = "blocked_auth"
    => proc[v].gen # proc[w].gen

(* Auth refusals, rate limits, lost leases, pauses, cancels and restarts are
   never charged to a task: without a transient failure no row has used an
   attempt. *)
ParkingIsFree == "transient" \notin Faults => \A t \in Tasks : task[t].attempt = 0

(* A worker whose lease was reclaimed writes nothing when it answers
   (the third design rule at the head of queue.py). *)
\* It does not hold: see "Stated in the modules" in the README.
FencedCompletion ==
  [][\A w \in late : w \notin late' => task' = task]_vars

(* A usable token and a running governor mean the pipeline runs: a login opens
   the one gate of the process and nothing closes it behind the login. *)
OpenForBusiness ==
  Quiescent /\ broker.token /\ mode = "running" =>
    gates.auth /\ gates.run /\ disp.resumed

(* A job without open rows is terminal, whenever nothing is still settling it
   (the comment on OPEN_STATES in queue.py). *)
\* It does not hold: see "Stated in the modules" in the README.
NoOpenTaskMeansFinal ==
  \A j \in Jobs : Quiescent /\ job[j].status # "absent" /\ IsFinished(j)
                  => job[j].status \in FinalStatuses

(* A cancelled job keeps no pending row once its cancel has returned: in-flight
   rows finish, everything pending was cancelled at once. *)
\* It does not hold: see "Stated in the modules" in the README.
CancelLeavesNothingPending ==
  \A j \in Jobs : Quiescent /\ job[j].cancel => \A t \in TasksOf(j) : task[t].state # "pending"

(* A pause on a rate limit is lifted by the user alone: whenever the mode loop
   is about to requeue on its own, no job is waiting for that decision. *)
\* It does not hold: see "Stated in the modules" in the README.
RateStopWaitsForUser ==
  At("modeLoop", "unpark") => JobsIn({"blocked_rate"}) = {}

-----------------------------------------------------------------------------
(* Progress.  The loop is fair to every coroutine, threads end, leases nobody
   holds run out and back-offs end. *)
Fairness ==
  /\ WF_vars(RefillAsk \/ RefillCommit \/ RefillDeliver)
  /\ WF_vars(StrayCommit)
  /\ \A w \in Workers : WF_vars(Working(w))
  /\ \A j \in Jobs : WF_vars(Cancelling(j))
  /\ WF_vars(FollowingMode)
  /\ WF_vars(LiftPausedAuth \/ RequeueBlockedAuth)
  /\ WF_vars(ReclaimLoop)
  /\ WF_vars(Start)
  /\ \A t \in Tasks : WF_vars(EndBackoff(t)) /\ WF_vars(t \notin InHand /\ Lapse(t))

FairPipelineSpec == PipelineSpec /\ Fairness

(* The failures after which the row is ended, or given back, with a settle to
   come.  Not among them are a missing handler, an exception outside the handler
   and a park: see NoOpenTaskMeansFinal. *)
SettledFaults == {"transient", "fatal", "lapse", "crash"}

(* Rows that are charged, fail for good, or lose their lease and are run twice do
   not keep a job from ending: whichever worker ends the last open row, one settle
   sees it.  A restart leaves the job to the user. *)
EveryJobEnds ==
  Faults \subseteq SettledFaults =>
    \A j \in Jobs : job[j].status # "absent" ~> job[j].status \in FinalStatuses \/ run # 1

(* No lease is held for ever: every claimed row leaves the leased state, even
   when the process that claimed it died and a restart does not know of it. *)
EveryLeaseEnds == \A t \in Tasks : task[t].state = "leased" ~> task[t].state # "leased"

=============================================================================
