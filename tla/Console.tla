------------------------------ MODULE Console -------------------------------
(* What must come to an end by itself: the market store, the exports, the event        *)
(* streams, and the process's start and stop.  They share no state; here each has its  *)
(* names and its properties.                                                           *)
EXTENDS MarketStore, Integers

CONSTANTS
  \* of the exports
  Exports, MaxKills,
  \* of the event streams
  Jobs, Tasks, Readers, Slots, RingCapacity, StreamQueue, MaxRestarts,
  \* of the process
  Files, MaxStarts,
  \* what may happen besides
  Freedoms

VARIABLES
  job, row, exportDisk, manifest, frames, run, deletion, asked, answered, mishaps, kills,
  table, moved, settling, dirty, last, flush, shown, ring, nextId,
  stream, lastId, stale, streamHeld, stopping, restarts,
  phase, running, started, adrift, ready, schema, ledger, starts

Export == INSTANCE Exports WITH disk <- exportDisk
Events == INSTANCE Streams WITH held <- streamHeld, QueueSize <- StreamQueue
Process == INSTANCE Lifecycle
-----------------------------------------------------------------------------
\* The exports: one that reads ready has its file, whole, and its sidecar; the job's verdict
\* is the export's; one deleted when its work was over has neither file nor a row that
\* offers one.
ExportsSound == Export!ExportsSound
\* An accepted export ends, with its job, unless the process is killed under it or a
\* resume is written over the end.
EveryExportEnds == Export!EveryExportEnds

\* The event streams: frames come in order and none twice, one that will never come was
\* counted as dropped or told by the resync frame, the limiter counts the open streams,
\* and a job nothing is left to be told of has shown its last state.
StreamsSound ==
  /\ Events!TypeOK /\ Events!DeliveredInOrder /\ Events!NoSilentGap
  /\ Events!SlotsMatchStreams /\ Events!FramesConverge
\* A reader that reconnects gets what followed and only that, and a job that changed has
\* its change published.
StreamsCatchUp == Events!ResumesWhereItLeft /\ Events!EveryChangeShows

\* The process: what runs has what it needs, a shutdown that is through leaves only what
\* raised itself, and the migration ledger says what the schema holds.
ProcessSound == Process!ProcessSound
\* A start ends in a process that serves or that is torn down (`lifespan_context`).
StartsOrStops == Process!StartsOrStops
=============================================================================
