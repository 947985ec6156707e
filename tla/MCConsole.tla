----------------------------- MODULE MCConsole ------------------------------
(* Small instances of what must come to an end by itself.  The components share no     *)
(* state: one of them moves in a behaviour, the others keep their initial state.       *)
EXTENDS Console
VARIABLE part

exportVars == <<job, row, exportDisk, manifest, frames, run, deletion, asked, answered, mishaps, kills>>
eventVars == <<table, moved, settling, dirty, last, flush, shown, ring, nextId,
               stream, lastId, stale, streamHeld, stopping, restarts>>
processVars == <<phase, running, started, adrift, ready, schema, ledger, starts>>

\* Of the event streams, the readers with one job that moves, and two jobs without readers.
Parts == {"store", "export", "readers", "jobs", "process"}
ConsoleInit ==
  /\ part \in Parts
  /\ Init /\ Process!Init /\ Export!Init /\ Events!Init
Only(p) ==
  /\ part = p /\ part' = part
  /\ p # "store" => UNCHANGED vars
  /\ p # "export" => UNCHANGED exportVars
  /\ p \notin {"readers", "jobs"} => UNCHANGED eventVars
  /\ p # "process" => UNCHANGED processVars
ConsoleNext ==
  \/ Only("store") /\ Next
  \/ Only("export") /\ Export!Next
  \/ Only("readers") /\ Events!Next /\ table'["j2"] = table["j2"]
  \/ Only("jobs") /\ Events!Next /\ stream' = stream
  \/ Only("process") /\ Process!Next
allVars == <<part, vars, exportVars, eventVars, processVars>>
ConsoleSpec ==
  /\ ConsoleInit /\ [][ConsoleNext]_allVars
  /\ Fairness /\ Export!Fairness /\ Events!Fairness /\ Process!Fairness
=============================================================================
