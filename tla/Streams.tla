------------------------------- MODULE Streams -------------------------------
(***************************************************************************)
(* The event bus and its readers (pipeline/events.py, pipeline/progress.py, *)
(* api/v1/events.py, the slots of security/ratelimit.py): frames with ids  *)
(* that start at 1 in every process, a ring for readers that come back, a  *)
(* queue per stream that loses its oldest frame when it is full, and the   *)
(* progress of jobs published as differences to what was published before. *)
(*                                                                         *)
(* Several coroutines flush progress: the loop, whose place the last flush *)
(* of a stop takes, and each that settles a job.  A flush takes a job's    *)
(* mark, reads its counters in a thread, and only then compares and        *)
(* publishes.                                                              *)
(***************************************************************************)
EXTENDS Naturals, SequencesExt

CONSTANTS
  Jobs, Tasks,        \* a job is finished when Tasks of its rows are
  Readers,            \* the streams one session may try to open
  Slots,              \* SSE_CONCURRENCY_LIMIT
  RingCapacity, QueueSize,
  MaxRestarts,        \* bound
  Freedoms            \* what may happen besides, of AllFreedoms

\* Two flushes of one job at once, or a flush of it while it is being settled; stopping in
\* the middle of a flush or a settle; a client that goes away before its stream has begun.
AllFreedoms == {"flushes_overlap", "stop_midway", "gone_before_start"}
Allowed(what) == what \in Freedoms

Flushers == {"loop"} \cup Jobs      \* the loop and, by its job, each settling
NoJob == "no job"
Idle == [todo |-> {}, job |-> NoJob, seen |-> <<>>]

VARIABLES
  table,      \* the job rows: counters and status
  moved,      \* the jobs that changed in the life of this process
  settling,   \* where the settling of a job stands
  dirty, last, flush,     \* the aggregator
  shown,      \* what the frames of this process add up to, by job
  ring, nextId,           \* the bus
  stream,     \* by reader
  lastId,     \* the id a reader's client saw last, 0 for none
  stale,      \* the readers whose lastId is from an earlier process
  held,       \* the slots of the session
  stopping, restarts

progressVars == <<table, moved, settling, dirty, last, flush, shown>>
busVars == <<ring, nextId>>
readerVars == <<stream, lastId, stale, held>>
lifeVars == <<stopping, restarts>>
vars == <<progressVars, busVars, readerVars, lifeVars>>

NoStream == [at |-> "off", replay |-> <<>>, queue |-> <<>>, first |-> 0, got |-> 0, dropped |-> 0]
Waiting(r) == stream[r].replay \o stream[r].queue

TypeOK ==
  /\ \A j \in Jobs : table[j].done \in 0 .. Tasks /\ table[j].status \in {"running", "completed"}
  /\ moved \subseteq Jobs /\ dirty \subseteq moved
  /\ settling \in [Jobs -> {"no", "finished", "flushing"}]
  /\ \A f \in Flushers : flush[f].todo \subseteq Jobs /\ flush[f].job \in Jobs \cup {NoJob}
  /\ \A j \in Jobs : DOMAIN last[j] \in {{}, {"done", "status"}}
  /\ Len(ring) <= RingCapacity /\ nextId \in Nat \ {0}
  /\ \A k \in 1 .. Len(ring) : ring[k] = nextId - Len(ring) - 1 + k
  /\ \A r \in Readers : /\ Len(stream[r].queue) <= QueueSize
                        /\ stream[r].at # "on" => Waiting(r) = <<>>
  /\ lastId \in [Readers -> Nat] /\ stale \subseteq Readers /\ held \in 0 .. Slots
  /\ stopping \in BOOLEAN /\ restarts \in 0 .. MaxRestarts

Init ==
  /\ table = [j \in Jobs |-> [done |-> 0, status |-> "running"]] /\ moved = {}
  /\ settling = [j \in Jobs |-> "no"] /\ dirty = {} /\ last = [j \in Jobs |-> <<>>]
  /\ flush = [f \in Flushers |-> Idle] /\ shown = [j \in Jobs |-> <<>>]
  /\ ring = <<>> /\ nextId = 1
  /\ stream = [r \in Readers |-> NoStream] /\ lastId = [r \in Readers |-> 0]
  /\ stale = {} /\ held = 0 /\ stopping = FALSE /\ restarts = 0

-----------------------------------------------------------------------------
(* EventBus.  A frame is its id here; what it says goes into shown. *)

Offer(s, id) ==
  IF Len(s.queue) < QueueSize THEN [s EXCEPT !.queue = Append(@, id)]
  ELSE [s EXCEPT !.queue = Append(Tail(@), id), !.dropped = @ + 1]

\* What a reader has of a job once these fields have come.  (TLC's @@ written out: the provers
\* do not know it.)
Merge(fields, was) ==
  [k \in DOMAIN fields \cup DOMAIN was |-> IF k \in DOMAIN fields THEN fields[k] ELSE was[k]]

Publish(j, fields) ==
  /\ ring' = LET all == Append(ring, nextId) IN
             IF Len(all) > RingCapacity THEN Tail(all) ELSE all
  /\ nextId' = nextId + 1
  /\ stream' = [r \in Readers |->
                  IF stream[r].at = "on" THEN Offer(stream[r], nextId) ELSE stream[r]]
  /\ shown' = [shown EXCEPT ![j] = Merge(fields, @)]

ReplayTooFar(after) ==       \* mutant: one frame too few
  LET kept == {k \in DOMAIN ring : ring[k] > after + 1} IN
  IF after = 0 \/ kept = {} THEN <<>> ELSE SubSeq(ring, Min(kept), Len(ring))
\* The frames after an id: the ids of the ring ascend, so they are the end of it.
Replay(after) ==
  LET kept == {k \in DOMAIN ring : ring[k] > after} IN
  IF after = 0 \/ kept = {} THEN <<>> ELSE SubSeq(ring, Min(kept), Len(ring))

-----------------------------------------------------------------------------
(* Progress. *)

\* A flush has taken the job's mark and not yet published.
Flushed(j) == \E f \in Flushers : flush[f].job = j

\* A worker's task settles: the row is written, then the mark set.
Ack(j) ==
  /\ ~stopping /\ table[j].done < Tasks
  /\ table' = [table EXCEPT ![j].done = @ + 1]
  /\ moved' = moved \cup {j} /\ dirty' = dirty \cup {j}
  /\ UNCHANGED <<settling, last, flush, shown, busVars, readerVars, lifeVars>>

\* _settle_job: the verdict is written ...
FinishJob(j) ==
  /\ ~stopping /\ j \in moved /\ table[j] = [done |-> Tasks, status |-> "running"]
  /\ table' = [table EXCEPT ![j].status = "completed"]
  /\ settling' = [settling EXCEPT ![j] = "finished"]
  /\ UNCHANGED <<moved, dirty, last, flush, shown, busVars, readerVars, lifeVars>>
\* ... announced, and a flush of everything that is marked begins ...
PublishFinished(j) ==
  /\ settling[j] = "finished" /\ (~Allowed("flushes_overlap") => ~Flushed(j))
  /\ Publish(j, [status |-> table[j].status])
  /\ flush' = [flush EXCEPT ![j].todo = dirty]
  /\ settling' = [settling EXCEPT ![j] = "flushing"]
  /\ UNCHANGED <<table, moved, dirty, last, lastId, stale, held, lifeVars>>
\* ... after which the job's base is dropped.
Forget(j) ==
  /\ settling[j] = "flushing" /\ flush[j] = Idle
  /\ settling' = [settling EXCEPT ![j] = "no"]
  /\ dirty' = dirty \ {j} /\ last' = [last EXCEPT ![j] = <<>>]
  /\ UNCHANGED <<table, moved, flush, shown, busVars, readerVars, lifeVars>>

\* The loop flushes the marked jobs whose second is over.
FlushDue ==
  \E due \in (SUBSET dirty) \ {{}} :
    /\ ~stopping /\ flush["loop"] = Idle /\ flush' = [flush EXCEPT !["loop"].todo = due]
    /\ UNCHANGED <<table, moved, settling, dirty, last, shown, busVars, readerVars, lifeVars>>

TakeMark(f) ==
  /\ flush[f].job = NoJob
  /\ \E j \in flush[f].todo :
       /\ ~Allowed("flushes_overlap") => ~Flushed(j)
       /\ flush' = [flush EXCEPT ![f].todo = @ \ {j}, ![f].job = j]
       /\ dirty' = dirty \ {j}
  /\ UNCHANGED <<table, moved, settling, last, shown, busVars, readerVars, lifeVars>>
\* The thread: the aggregate, also written back to the row.
ReadAggregate(f) ==
  /\ flush[f].job # NoJob /\ flush[f].seen = <<>>
  /\ flush' = [flush EXCEPT ![f].seen = table[flush[f].job]]
  /\ UNCHANGED <<table, moved, settling, dirty, last, shown, busVars, readerVars, lifeVars>>

Diff(was, now) ==
  IF was = <<>> THEN now ELSE [k \in {x \in DOMAIN now : was[x] # now[x]} |-> now[k]]

PublishLateUnmark(f) ==       \* mutant: the mark is cleared after the read
  LET j == flush[f].job  diff == Diff(last[j], flush[f].seen) IN
  /\ flush[f].seen # <<>>
  /\ flush' = [flush EXCEPT ![f].job = NoJob, ![f].seen = <<>>]
  /\ last' = [last EXCEPT ![j] = flush[f].seen] /\ dirty' = dirty \ {j}
  /\ IF DOMAIN diff = {} THEN UNCHANGED <<shown, busVars, stream>> ELSE Publish(j, diff)
  /\ UNCHANGED <<table, moved, settling, lastId, stale, held, lifeVars>>
PublishDiff(f) ==
  LET j == flush[f].job  diff == Diff(last[j], flush[f].seen) IN
  /\ flush[f].seen # <<>>
  /\ flush' = [flush EXCEPT ![f].job = NoJob, ![f].seen = <<>>]
  /\ last' = [last EXCEPT ![j] = flush[f].seen]
  /\ IF DOMAIN diff = {} THEN UNCHANGED <<shown, busVars, stream>> ELSE Publish(j, diff)
  /\ UNCHANGED <<table, moved, settling, dirty, lastId, stale, held, lifeVars>>
FlushStep(f) == TakeMark(f) \/ ReadAggregate(f) \/ PublishDiff(f)

-----------------------------------------------------------------------------
(* GET /events/stream. *)

\* A slot is taken before the response exists; without one the answer is 429.
Connect(r) ==
  /\ stream[r].at = "off" /\ held < Slots
  /\ stream' = [stream EXCEPT ![r].at = "accepted"] /\ held' = held + 1
  /\ UNCHANGED <<progressVars, busVars, lastId, stale, lifeVars>>
\* The generator begins: it subscribes and reads the ring without a wait in between.
Begin(r) ==
  LET missed == Replay(lastId[r]) IN
  /\ stream[r].at = "accepted"
  /\ stream' = [stream EXCEPT ![r].at = "on", ![r].replay = missed,
                              ![r].first = IF missed = <<>> THEN nextId ELSE Head(missed)]
  /\ UNCHANGED <<progressVars, busVars, lastId, stale, held, lifeVars>>
Deliver(r) ==
  /\ stream[r].at = "on" /\ Waiting(r) # <<>>
  /\ stream' = [stream EXCEPT ![r].got = @ + 1,
                  ![r].queue = IF stream[r].replay = <<>> THEN Tail(@) ELSE @,
                  ![r].replay = IF @ = <<>> THEN <<>> ELSE Tail(@)]
  /\ lastId' = [lastId EXCEPT ![r] = Head(Waiting(r))] /\ stale' = stale \ {r}
  /\ UNCHANGED <<progressVars, busVars, held, lifeVars>>
\* The client goes.  The generator's finally gives the slot back, if it ever ran.
Leave(r) ==
  /\ stream[r].at # "off"
  /\ ~Allowed("gone_before_start") => stream[r].at = "on"
  /\ stream' = [stream EXCEPT ![r] = NoStream]
  /\ held' = IF stream[r].at = "on" THEN held - 1 ELSE held
  /\ UNCHANGED <<progressVars, busVars, lastId, stale, lifeVars>>

-----------------------------------------------------------------------------
(* The process. *)

\* Supervisor.stop and ProgressAggregator.stop: workers and loop are cancelled, what is
\* still marked is flushed once more.
StopProgress ==
  /\ ~stopping /\ restarts < MaxRestarts /\ stopping' = TRUE
  /\ ~Allowed("stop_midway") =>
       /\ \A f \in Flushers : flush[f].job = NoJob
       /\ \A j \in Jobs : settling[j] = "no"
  /\ flush' = [f \in Flushers |-> IF f = "loop" THEN [Idle EXCEPT !.todo = dirty] ELSE Idle]
  /\ settling' = [j \in Jobs |-> "no"]
  /\ UNCHANGED <<table, moved, dirty, last, shown, busVars, readerVars, restarts>>
\* A stop or a kill, and the next process.
NewProcess ==
  /\ restarts < MaxRestarts /\ restarts' = restarts + 1 /\ stopping' = FALSE
  /\ moved' = {} /\ settling' = [j \in Jobs |-> "no"] /\ dirty' = {}
  /\ last' = [j \in Jobs |-> <<>>] /\ flush' = [f \in Flushers |-> Idle]
  /\ shown' = [j \in Jobs |-> <<>>] /\ ring' = <<>> /\ nextId' = 1
  /\ stream' = [r \in Readers |-> NoStream] /\ held' = 0
  /\ stale' = {r \in Readers : lastId[r] > 0}
  /\ UNCHANGED <<table, lastId>>

Next ==
  \/ \E j \in Jobs : Ack(j) \/ FinishJob(j) \/ PublishFinished(j) \/ Forget(j)
  \/ FlushDue
  \/ \E f \in Flushers : FlushStep(f)
  \/ \E r \in Readers : Connect(r) \/ Begin(r) \/ Deliver(r) \/ Leave(r)
  \/ StopProgress \/ NewProcess

Spec == Init /\ [][Next]_vars
\* The event loop runs the progress loop, every flush and every settling on.
Fairness ==
  /\ WF_vars(FlushDue)
  /\ \A f \in Flushers : WF_vars(FlushStep(f))
  /\ \A j \in Jobs : WF_vars(FinishJob(j)) /\ WF_vars(PublishFinished(j)) /\ WF_vars(Forget(j))
FairSpec == Spec /\ Fairness

-----------------------------------------------------------------------------
(* What the stream promises. *)

\* "Iterating it yields frames in publication order": what waits for a reader is in
\* publication order and newer than what its client saw last, on this connection or an
\* earlier one to the same process.
DeliveredInOrder ==
  \A r \in Readers : stream[r].at = "on" =>
    LET ids == (IF r \in stale \/ lastId[r] = 0 THEN <<>> ELSE <<lastId[r]>>) \o Waiting(r) IN
    \A k \in 1 .. Len(ids) - 1 : ids[k] < ids[k + 1]

\* From the first frame of a connection on, every frame was delivered, waits, or is
\* counted as dropped, however slow the reader.
NoSilentGap ==
  \A r \in Readers : stream[r].at = "on" =>
    stream[r].first + stream[r].got + Len(Waiting(r)) + stream[r].dropped = nextId

\* "A browser that reconnects with Last-Event-ID gets the frames it missed": within one
\* process a stream begins right after what its client saw last, as far as the ring goes.
ResumesWhereItLeft ==
  [][\A r \in Readers :
       stream[r].at = "accepted" /\ stream'[r].at = "on" /\ lastId[r] > 0 /\ r \notin stale =>
         \/ stream'[r].first = lastId[r] + 1
         \/ ring # <<>> /\ stream'[r].first = Head(ring) /\ lastId[r] < Head(ring)]_vars

\* A session's slots are the streams it has open, whichever way streams end.
SlotsMatchStreams == held = Cardinality({r \in Readers : stream[r].at # "off"})

\* When no mark is set and no flush or settling of the job is under way, the frames of
\* this process add up to the job's row: no change is lost between a mark and a read,
\* between two flushes, or by the last flush of a stop.
FramesConverge ==
  \A j \in moved :
    /\ j \notin dirty /\ settling[j] # "finished" /\ ~Flushed(j)
    => shown[j] = table[j]

\* The frames catch up with every job that changed, again and again.
EveryChangeShows == \A j \in Jobs : []<>(j \in moved => shown[j] = table[j] \/ stopping)

\* Frame: "a client holding a pre-restart id gets the whole ring".
\* It does not hold: see "Stated in the modules" in the README.
ReconnectGetsRing ==
  [][\A r \in stale :
       stream[r].at = "accepted" /\ stream'[r].at = "on" => stream'[r].replay = ring]_vars
=============================================================================
