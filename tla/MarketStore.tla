----------------------------- MODULE MarketStore -----------------------------
(***************************************************************************)
(* The market database: the single writer task of db/writer.py, the        *)
(* connection and the writer object that db/duck.py hands out, and the two *)
(* routes of api/v1/system.py that close the file underneath them, optimise*)
(* (db/maintenance.py, compact) and backup.                                *)
(*                                                                         *)
(* A file is known by the order of its creation, so a rename moves a file  *)
(* between paths and an open connection keeps the file it was opened on.   *)
(* Writer objects, writer tasks and connections are numbered the same way; *)
(* 0 is None.  What a file holds is the set of writes committed to it.     *)
(***************************************************************************)
EXTENDS Naturals, SequencesExt

CONSTANTS
  Writers,      \* coroutines that submit: workers, routes, schedules
  Maintainers,  \* calls of the two maintenance routes
  QueueSize,    \* WRITE_QUEUE_MAXSIZE
  MaxWrites,    \* bound: writes a coroutine sees committed
  MaxRuns,      \* bound: maintenance operations
  MaxFaults,    \* bound: a full disk, a copy or a rename that fails
  MaxCrashes    \* bound: kills of the process

\* With fewer submitters than the queue has places no put ever waits.  No coroutine is
\* taken for the sentinel that ends the task or for having no item in hand.
ASSUME StoreAssumption ==
  /\ {QueueSize, MaxWrites, MaxRuns, MaxFaults, MaxCrashes} \subseteq Nat
  /\ IsFiniteSet(Writers) /\ Cardinality(Writers) < QueueSize
  /\ "end" \notin Writers /\ "none" \notin Writers

VARIABLES
  disk,         \* what each database file holds
  path,         \* the file at market.duckdb, at .compact and at .before-compaction
  opens, con,   \* the file of each connection; DuckStore._con
  attached,     \* the file attached to con as compacted
  duck, handle, \* the DuckWriter objects; DuckStore._writer
  loops,        \* the writer tasks, each with the queue it was started on
  at, held,     \* where a writer stands and the DuckWriter it picked up
  acked,        \* how many of its writes a writer saw committed
  work,         \* the maintenance operations under way
  paused,       \* the dispatcher was paused for maintenance
  runs, faults, crashes

store == <<disk, path, opens, con, attached>>
writing == <<duck, handle, loops>>
callers == <<at, held, acked>>
bounds == <<runs, faults, crashes>>
vars == <<store, writing, callers, work, paused, bounds>>

Op(w) == <<w, acked[w] + 1>>
Acked == UNION {{w} \X (1 .. acked[w]) : w \in Writers}

Steps == {"idle", "accepted", "draining", "quiet", "built", "attached", "copied",
          "closed", "moved", "swapped", "copying", "restart"}
Idle == [step |-> "idle", kind |-> "optimise", on |-> 0]

DuckWriter(loop, cursor) == [running |-> TRUE, queue |-> loop, task |-> loop, cursor |-> cursor]
NewWriter == [running |-> FALSE, queue |-> 0, task |-> 0, cursor |-> 0]
NewLoop(owner) == [owner |-> owner, queue |-> <<>>, op |-> "none", cursor |-> 0, done |-> FALSE]

TypeOK ==
  /\ disk \in Seq(SUBSET (Writers \X (1 .. MaxWrites)))
  /\ path \in [{"live", "compact", "before"} -> 0 .. Len(disk)]
  /\ opens \in Seq(1 .. Len(disk)) /\ con \in 0 .. Len(opens)
  /\ attached \in 0 .. Len(disk) /\ (attached # 0 => con # 0)
  /\ duck \in Seq([running : BOOLEAN, queue : 0 .. Len(loops), task : 0 .. Len(loops),
                   cursor : 0 .. Len(opens)])
  /\ handle \in 0 .. Len(duck)
  /\ loops \in Seq([owner : 1 .. Len(duck), queue : Seq(Writers \cup {"end"}),
                    op : Writers \cup {"none"}, cursor : 0 .. Len(opens), done : BOOLEAN])
  /\ \A l \in DOMAIN loops : Len(loops[l].queue) <= QueueSize
  /\ at \in [Writers -> {"idle", "begun", "waiting"}]
  /\ held \in [Writers -> 0 .. Len(duck)]
  /\ acked \in [Writers -> 0 .. MaxWrites]
  /\ work \in [Maintainers -> [step : Steps, kind : {"optimise", "backup"}, on : Nat]]
  /\ paused \in BOOLEAN
  /\ runs \in 0 .. MaxRuns /\ faults \in 0 .. MaxFaults /\ crashes \in 0 .. MaxCrashes

Init ==
  /\ disk = <<{}>> /\ path = [live |-> 1, compact |-> 0, before |-> 0]
  /\ opens = <<1>> /\ con = 1 /\ attached = 0
  /\ duck = <<DuckWriter(1, 1)>> /\ handle = 1 /\ loops = <<NewLoop(1)>>
  /\ at = [w \in Writers |-> "idle"] /\ held = [w \in Writers |-> 0]
  /\ acked = [w \in Writers |-> 0]
  /\ work = [m \in Maintainers |-> Idle]
  /\ paused = FALSE
  /\ runs = 0 /\ faults = 0 /\ crashes = 0

-----------------------------------------------------------------------------
(* The writer. *)

\* DuckStore.writer: the DuckWriter in use, made on first use.
TheDuck == IF handle = 0 THEN Append(duck, NewWriter) ELSE duck
TheHandle == IF handle = 0 THEN Len(duck) + 1 ELSE handle

\* A caller picks up the writer object; a worker does so before its request.
Begin(w) ==
  /\ at[w] = "idle" /\ acked[w] < MaxWrites
  /\ duck' = TheDuck /\ handle' = TheHandle
  /\ held' = [held EXCEPT ![w] = TheHandle]
  /\ at' = [at EXCEPT ![w] = "begun"]
  /\ UNCHANGED <<store, loops, acked, work, paused, bounds>>

\* submit: refused by a writer that is not running, else queued.
Submit(w) ==
  /\ at[w] = "begun"
  /\ LET d == duck[held[w]]
     IN  IF d.running /\ d.queue # 0
           THEN /\ at' = [at EXCEPT ![w] = "waiting"]
                /\ loops' = [loops EXCEPT ![d.queue].queue = Append(@, w)]
           ELSE at' = [at EXCEPT ![w] = "idle"] /\ UNCHANGED loops
  /\ held' = [held EXCEPT ![w] = 0]
  /\ UNCHANGED <<store, duck, handle, acked, work, paused, bounds>>

\* _loop: the next item of the queue; the sentinel ends the task.
Take(l) ==
  /\ ~loops[l].done /\ loops[l].op = "none" /\ loops[l].queue # <<>>
  /\ LET item == Head(loops[l].queue)
         rest == Tail(loops[l].queue)
     IN  loops' = [loops EXCEPT ![l] =
           IF item = "end"
             THEN [loops[l] EXCEPT !.queue = rest, !.done = TRUE]
             ELSE [loops[l] EXCEPT !.queue = rest, !.op = item, !.cursor = duck[loops[l].owner].cursor]]
  /\ UNCHANGED <<store, duck, handle, callers, work, paused, bounds>>

\* apply: one transaction, on the cursor the task took; its caller is answered.
Answer(l) ==
  /\ loops[l].op # "none"
  /\ loops' = [loops EXCEPT ![l].op = "none", ![l].cursor = 0]
  /\ at' = [at EXCEPT ![loops[l].op] = "idle"]

Commit(l) ==
  /\ Answer(l)
  /\ con # 0 /\ loops[l].cursor = con
  /\ disk' = [disk EXCEPT ![opens[con]] = @ \cup {Op(loops[l].op)}]
  /\ acked' = [acked EXCEPT ![loops[l].op] = @ + 1]
  /\ UNCHANGED <<path, opens, con, attached, duck, handle, held, work, paused, bounds>>

\* A write that fails is rolled back, the caller told, and the task goes on.
Rollback(l) ==
  /\ Answer(l)
  /\ UNCHANGED <<store, duck, handle, acked, held, work, paused, bounds>>

-----------------------------------------------------------------------------
(* The connection and the files. *)

Fault == faults < MaxFaults /\ faults' = faults + 1

\* open: nothing when a connection is open; an absent file is created empty.  It may
\* fail to connect, or to bring the schema up to date: then no connection is left.
Create ==
  IF path.live = 0
    THEN disk' = Append(disk, {}) /\ path' = [path EXCEPT !.live = Len(disk')]
    ELSE UNCHANGED <<disk, path>>
Open ==
  IF con # 0 THEN UNCHANGED <<disk, path, opens, con>>
  ELSE Create /\ opens' = Append(opens, path'.live) /\ con' = Len(opens')
OpenFails ==
  /\ con = 0 /\ Fault /\ UNCHANGED <<opens, con>>
  /\ Create \/ UNCHANGED <<disk, path>>

\* close: the connection goes, with its cursors and what it had attached, and the store
\* forgets its writer, whether or not the checkpoint before it fails.
Close ==
  IF con = 0 THEN UNCHANGED <<con, attached, handle>>
  ELSE con' = 0 /\ attached' = 0 /\ handle' = 0

-----------------------------------------------------------------------------
(* Maintenance. *)

Go(m, step, on) == work' = [work EXCEPT ![m].step = step, ![m].on = on]
Fails(m) == Go(m, "restart", 0)
\* The route: refused while the writer has queued work; the rest runs later. It
\* looks for live jobs too, but a job or a route that begins later it cannot see.
Request(m) ==
  /\ work[m].step = "idle" /\ runs < MaxRuns
  /\ duck' = TheDuck /\ handle' = TheHandle
  /\ LET q == TheDuck[TheHandle].queue IN q # 0 => loops[q].queue = <<>>
  /\ \E kind \in {"optimise", "backup"} :
       work' = [work EXCEPT ![m] = [step |-> "accepted", kind |-> kind, on |-> 0]]
  /\ runs' = runs + 1
  /\ UNCHANGED <<store, loops, callers, paused, faults, crashes>>

\* A backup's checkpoint needs an open database.  The dispatcher is paused and the
\* writer asked to stop; one that is not running, or stopping already, is not
\* waited for.
Quiesce(m) ==
  /\ work[m].step = "accepted"
  /\ IF work[m].kind = "backup" /\ con = 0
       THEN work' = [work EXCEPT ![m] = Idle] /\ UNCHANGED <<writing, paused>>
       ELSE LET d == TheDuck[TheHandle]
                awaited == d.running /\ d.queue # 0
            IN  /\ paused' = TRUE /\ handle' = TheHandle
                /\ duck' = IF awaited THEN [TheDuck EXCEPT ![TheHandle].running = FALSE] ELSE TheDuck
                /\ loops' = IF awaited THEN [loops EXCEPT ![d.queue].queue = Append(@, "end")] ELSE loops
                /\ IF awaited THEN Go(m, "draining", d.task) ELSE Go(m, "quiet", 0)
  /\ UNCHANGED <<store, callers, bounds>>

\* The task has ended; what the writer object holds now is cleared.
Drained(m) ==
  /\ work[m].step = "draining" /\ loops[work[m].on].done
  /\ duck' = [duck EXCEPT ![loops[work[m].on].owner] = [@ EXCEPT !.task = 0, !.queue = 0, !.cursor = 0]]
  /\ Go(m, "quiet", 0)
  /\ UNCHANGED <<store, handle, loops, callers, paused, bounds>>

\* compact, up to the attach: the last target is removed and an empty one made.
\* A file attached by somebody else may refuse to be opened a second time.
Build(m) ==
  /\ work[m].step = "quiet" /\ work[m].kind = "optimise"
  /\ \/ Fault /\ Fails(m) /\ path' \in {path, [path EXCEPT !.compact = 0]} /\ UNCHANGED disk
     \/ (con = 0 \/ attached # 0) /\ Fails(m)
        /\ path' = [path EXCEPT !.compact = 0] /\ UNCHANGED <<disk, faults>>
     \/ con # 0 /\ Go(m, "built", con)
        /\ disk' = Append(disk, {}) /\ path' = [path EXCEPT !.compact = Len(disk')]
        /\ UNCHANGED faults
  /\ UNCHANGED <<opens, con, attached, writing, callers, paused, runs, crashes>>

Attach(m) ==
  /\ work[m].step = "built"
  /\ IF con = work[m].on /\ attached = 0 /\ path.compact # 0
       THEN attached' = path.compact /\ Go(m, "attached", con)
       ELSE UNCHANGED attached /\ Fails(m)
  /\ UNCHANGED <<disk, path, opens, con, writing, callers, paused, bounds>>

\* The rows as they are now; a copy that fails detaches.
CopyRows(m) ==
  /\ work[m].step = "attached"
  /\ \/ con # work[m].on /\ Fails(m) /\ UNCHANGED <<disk, attached, faults>>
     \/ con = work[m].on /\ Fault /\ Fails(m) /\ attached' = 0 /\ UNCHANGED disk
     \/ con = work[m].on /\ Go(m, "copied", con)
        /\ disk' = [disk EXCEPT ![attached] = disk[opens[con]]]
        /\ UNCHANGED <<attached, faults>>
  /\ UNCHANGED <<path, opens, con, writing, callers, paused, runs, crashes>>

\* The store is closed, by a compaction once it has detached.  A checkpoint that fails
\* raises after the connection is gone, and nothing opens the store again.
CloseStore(m) ==
  /\ \/ work[m].step = "copied" /\ con # work[m].on /\ Fails(m)
        /\ UNCHANGED <<con, attached, handle, faults>>
     \/ /\ \/ work[m].step = "copied" /\ con = work[m].on
           \/ work[m].step = "quiet" /\ work[m].kind = "backup"
        /\ Close
        /\ \/ con # 0 /\ Fault /\ Fails(m)
           \/ UNCHANGED faults /\ Go(m, IF work[m].step = "copied" THEN "closed" ELSE "copying", 0)
  /\ UNCHANGED <<disk, path, opens, duck, loops, callers, paused, runs, crashes>>

MoveAwayKeepingNothing(m) ==             \* mutant: the old file is not kept
  /\ work[m].step = "closed" /\ path.live # 0
  /\ path' = [path EXCEPT !.before = 0, !.live = 0] /\ Go(m, "moved", 0)
  /\ UNCHANGED <<disk, opens, con, attached, writing, callers, paused, bounds>>

\* The first rename, after the previous backup was removed.
MoveAway(m) ==
  /\ work[m].step = "closed"
  /\ \/ path.live = 0 /\ Fails(m) /\ path' = [path EXCEPT !.before = 0] /\ UNCHANGED faults
     \/ Fault /\ Fails(m) /\ path' = [path EXCEPT !.before = 0]
     \/ path.live # 0 /\ Go(m, "moved", 0)
        /\ path' = [path EXCEPT !.before = path.live, !.live = 0] /\ UNCHANGED faults
  /\ UNCHANGED <<disk, opens, con, attached, writing, callers, paused, runs, crashes>>

\* The second rename.
MoveIn(m) ==
  /\ work[m].step = "moved"
  /\ \/ path.compact = 0 /\ Fails(m) /\ UNCHANGED <<path, faults>>
     \/ Fault /\ Fails(m) /\ UNCHANGED path
     \/ path.compact # 0 /\ Go(m, "swapped", 0)
        /\ path' = [path EXCEPT !.live = path.compact, !.compact = 0] /\ UNCHANGED faults
  /\ UNCHANGED <<disk, opens, con, attached, writing, callers, paused, runs, crashes>>

Reopen(m) ==
  /\ work[m].step \in {"swapped", "copying"}
  /\ OpenFails \/ (Open /\ UNCHANGED faults)
  /\ Fails(m)
  /\ UNCHANGED <<attached, writing, callers, paused, runs, crashes>>

RestartPaused(m) ==                      \* mutant: resumes only what it started
  /\ work[m].step = "restart"
  /\ work' = [work EXCEPT ![m] = Idle] /\ handle' = TheHandle
  /\ IF con # 0 /\ ~TheDuck[TheHandle].running
       THEN /\ loops' = Append(loops, NewLoop(TheHandle))
            /\ duck' = [TheDuck EXCEPT ![TheHandle] = DuckWriter(Len(loops'), con)]
       ELSE duck' = TheDuck /\ UNCHANGED loops
  /\ UNCHANGED <<store, callers, paused, bounds>>

\* The writer is started, then the dispatcher resumed; without a connection the
\* start raises and the resume is never reached.
Restart(m) ==
  /\ work[m].step = "restart"
  /\ work' = [work EXCEPT ![m] = Idle] /\ handle' = TheHandle
  /\ LET running == TheDuck[TheHandle].running
     IN  /\ IF con # 0 /\ ~running
              THEN /\ loops' = Append(loops, NewLoop(TheHandle))
                   /\ duck' = [TheDuck EXCEPT ![TheHandle] = DuckWriter(Len(loops'), con)]
              ELSE duck' = TheDuck /\ UNCHANGED loops
         /\ paused' = (paused /\ con = 0 /\ ~running)
  /\ UNCHANGED <<store, callers, bounds>>

\* The process is killed and started again.
Crash ==
  /\ crashes < MaxCrashes /\ crashes' = crashes + 1
  /\ Create
  /\ opens' = <<path'.live>> /\ con' = 1 /\ attached' = 0
  /\ duck' = <<DuckWriter(1, 1)>> /\ handle' = 1 /\ loops' = <<NewLoop(1)>>
  /\ at' = [w \in Writers |-> "idle"] /\ held' = [w \in Writers |-> 0]
  /\ work' = [m \in Maintainers |-> Idle] /\ paused' = FALSE
  /\ UNCHANGED <<acked, runs, faults>>

Maintain(m) ==
  \/ Quiesce(m) \/ Drained(m)
  \/ Build(m) \/ Attach(m) \/ CopyRows(m) \/ CloseStore(m)
  \/ MoveAway(m) \/ MoveIn(m) \/ Reopen(m) \/ Restart(m)

Next ==
  \/ \E w \in Writers : Begin(w) \/ Submit(w)
  \/ \E l \in DOMAIN loops : Take(l) \/ Commit(l) \/ Rollback(l)
  \/ \E m \in Maintainers : Request(m) \/ Maintain(m)
  \/ Crash

\* A loop thread or a writer task that can go on does.
LoopStep(l) == l \in DOMAIN loops /\ (Take(l) \/ Commit(l) \/ Rollback(l))
MaxLoops == MaxRuns + 1
Fairness ==
  /\ \A l \in 1 .. MaxLoops : WF_vars(LoopStep(l))
  /\ \A m \in Maintainers : WF_vars(Maintain(m))

Spec == Init /\ [][Next]_vars /\ Fairness

-----------------------------------------------------------------------------
(* Properties. *)

Held(file) == IF file = 0 THEN {} ELSE disk[file]

(* A write whose caller was told it committed is in the file at market.duckdb
   or, when a kill or a failure cut the two renames apart, in the file at
   .compact that was to take its place.  That one nothing opens: the next start
   makes an empty market.duckdb, and the rows wait to be put back by hand.
   Draining, copying, swapping, reopening and restarting lose none. *)
AckedIsDurable ==
  Acked \subseteq Held(path.live) \cup (IF path.before # 0 THEN Held(path.compact) ELSE {})

(* compact and the backup's copy require a quiesced writer: none takes work and
   no transaction is open while rows are copied or the file is closed. *)
QuietDuringRewrite ==
  (\E m \in Maintainers : work[m].step \in {"attached", "copied", "closed", "moved", "swapped", "copying"})
    => /\ \A d \in DOMAIN duck : ~duck[d].running
       /\ \A l \in DOMAIN loops : loops[l].op = "none"

(* Exactly one thing in the process writes: no two writer tasks have a
   transaction open at once, whatever starts and stops them. *)
SingleWriter ==
  \A k, l \in DOMAIN loops : loops[k].op # "none" /\ loops[l].op # "none" => k = l

(* Whoever has queued a write is answered: neither a stop, a restart of the
   writer on another connection nor a failing write leaves a caller waiting. *)
EverySubmitAnswered == \A w \in Writers : at[w] = "waiting" ~> at[w] # "waiting"

(* Maintenance ends and gives the dispatcher back, whichever step failed, unless
   a close, a rename or an open that failed has left the database closed. *)
LeftClosed == con = 0 /\ \A m \in Maintainers : work[m].step = "idle"
DispatcherResumes == paused ~> (~paused \/ LeftClosed)

\* One task writes, nothing is written while the files are copied or swapped, and what was
\* acknowledged is at market.duckdb or, once the renames were cut apart, at .compact.
StoreSound == TypeOK /\ AckedIsDurable /\ QuietDuringRewrite /\ SingleWriter

(* db/maintenance.py, compact: "The previous file is kept beside the new one by
   default. [...] a rename is cheap insurance against it going wrong": what was
   acknowledged is on one of the three files.
   It does not hold: after a kill between the renames the next optimise, of the
   empty file the start made, removes first .compact, then .before-compaction. *)
KeptSomewhere == Acked \subseteq UNION {Held(path[p]) : p \in DOMAIN path}

\* Every submit is answered, and the dispatcher an operation paused goes on.
StoreGoesOn == EverySubmitAnswered /\ DispatcherResumes
=============================================================================
