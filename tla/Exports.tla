------------------------------- MODULE Exports -------------------------------
(***************************************************************************)
(* One export from the request to the download (api/v1/exports.py,         *)
(* pipeline/handlers/export.py, db/exports.py): a row in export_job, a row *)
(* in job, a file that is staged and renamed, a row of the manifest in     *)
(* DuckDB and a frame on the event bus.  Nothing but the order of the      *)
(* steps ties the five together.                                           *)
(*                                                                         *)
(* The work is a background task of the server; a deletion, a              *)
(* cancellation, a pause and a resume come in beside it at any time, and   *)
(* the process may be killed between any two steps.                        *)
(***************************************************************************)
EXTENDS Naturals, FiniteSets

CONSTANTS
  Exports,
  MaxKills      \* bound: the process is killed at most this often

Layouts == {"single", "hive"}
Finished == {"completed", "failed", "cancelled"}

VARIABLES
  job,        \* job.status, or "none"
  row,        \* export_job
  disk,       \* the files of an export: staging, final, sidecar
  manifest,   \* the exports listed in DuckDB
  frames,     \* the exports announced on the bus
  run,        \* where the background task stands
  deletion,   \* where a DELETE stands
  asked,      \* what the jobs screen has asked and has still to write
  answered,   \* the exports a DELETE was answered for with 204
  mishaps,    \* what went wrong with an export, of Mishaps
  kills

vars == <<job, row, disk, manifest, frames, run, deletion, asked, answered, mishaps, kills>>

\* The manifest could not be written; the job was cancelled; the file landed and the row
\* stopped short of naming it; a kill in the middle of a deletion; a deletion that began
\* while the work was under way; a resume written over a finished job.
Mishaps == {"unlisted", "cancelled", "stranded", "torn", "early", "requeued"}
Befalls(e, what) == mishaps' = [mishaps EXCEPT ![e] = @ \cup what]

NoRow == [status |-> "none", path |-> FALSE, layout |-> "single"]
Working == {"queued", "began", "marked", "copied", "landed", "listed", "written", "announced", "failing"}

TypeOK ==
  /\ job \in [Exports -> Finished \cup {"none", "queued", "running", "paused"}]
  /\ \A e \in Exports :
       /\ row[e].status \in {"none", "queued", "running", "ready", "failed", "deleted"}
       /\ row[e].path \in BOOLEAN /\ row[e].layout \in Layouts
       /\ row[e].path <=> row[e].status = "ready"
  /\ disk \in [Exports -> SUBSET {"staging", "final", "sidecar"}]
  /\ manifest \subseteq Exports /\ frames \subseteq Exports /\ answered \subseteq Exports
  /\ mishaps \in [Exports -> SUBSET Mishaps] /\ asked \in [Exports -> SUBSET {"resume", "cancel"}]
  /\ run \in [Exports -> Working \cup {"none", "accepted", "over"}]
  /\ deletion \in [Exports -> {"none", "read", "unlinked", "cleared"}]
  /\ kills \in 0 .. MaxKills

Init ==
  /\ job = [e \in Exports |-> "none"] /\ row = [e \in Exports |-> NoRow]
  /\ disk = [e \in Exports |-> {}] /\ manifest = {} /\ frames = {}
  /\ run = [e \in Exports |-> "none"] /\ deletion = [e \in Exports |-> "none"]
  /\ asked = [e \in Exports |-> {}] /\ answered = {}
  /\ mishaps = [e \in Exports |-> {}] /\ kills = 0

Step(e, from, to) == run[e] = from /\ run' = [run EXCEPT ![e] = to]

-----------------------------------------------------------------------------
(* POST /exports. *)

\* The job row is committed first, then the row of the export.
CreateJobRow(e) ==
  /\ Step(e, "none", "accepted") /\ job' = [job EXCEPT ![e] = "queued"]
  /\ UNCHANGED <<row, disk, manifest, frames, deletion, asked, answered, mishaps, kills>>
CreateExportRow(e, layout) ==
  /\ Step(e, "accepted", "queued")
  /\ row' = [row EXCEPT ![e] = [status |-> "queued", path |-> FALSE, layout |-> layout]]
  /\ UNCHANGED <<job, disk, manifest, frames, deletion, asked, answered, mishaps, kills>>

-----------------------------------------------------------------------------
(* The background task: _run_and_settle around run_export_job. *)

MarkJobRunning(e) ==
  /\ Step(e, "queued", "began") /\ job' = [job EXCEPT ![e] = "running"]
  /\ UNCHANGED <<row, disk, manifest, frames, deletion, asked, answered, mishaps, kills>>
SetStatusRunning(e) ==
  /\ Step(e, "began", "marked") /\ row' = [row EXCEPT ![e].status = "running"]
  /\ UNCHANGED <<job, disk, manifest, frames, deletion, asked, answered, mishaps, kills>>

\* COPY to the staging name.  A full disk is noticed before, an error in the middle
\* leaves what was written.
Copy(e) ==
  /\ Step(e, "marked", "copied") /\ disk' = [disk EXCEPT ![e] = @ \cup {"staging"}]
  /\ UNCHANGED <<job, row, manifest, frames, deletion, asked, answered, mishaps, kills>>
CopyFails(e) ==
  /\ Step(e, "marked", "failing")
  /\ \E left \in SUBSET {"staging"} : disk' = [disk EXCEPT ![e] = @ \cup left]
  /\ row' = [row EXCEPT ![e].status = "failed"]
  /\ UNCHANGED <<job, manifest, frames, deletion, asked, answered, mishaps, kills>>

\* os.replace, and for a lone file the schema beside it: until the row points at the
\* file nobody looks for either.
Landed(e) == {"final"} \cup (IF row[e].layout = "single" THEN {"sidecar"} ELSE {})
Replace(e) ==
  /\ Step(e, "copied", "landed") /\ disk' = [disk EXCEPT ![e] = (@ \ {"staging"}) \cup Landed(e)]
  /\ UNCHANGED <<job, row, manifest, frames, deletion, asked, answered, mishaps, kills>>
\* It fails before the rename, or after it: the file has landed, the schema perhaps, and
\* the row says that the export failed.
ReplaceFails(e) ==
  /\ Step(e, "copied", "failing") /\ row' = [row EXCEPT ![e].status = "failed"]
  /\ \/ UNCHANGED <<disk, mishaps>>
     \/ /\ \E there \in SUBSET Landed(e) :
             disk' = [disk EXCEPT ![e] = (@ \ {"staging"}) \cup {"final"} \cup there]
        /\ Befalls(e, {"stranded"})
  /\ UNCHANGED <<job, manifest, frames, deletion, asked, answered, kills>>

\* record_export: a write of the writer.  When it fails nothing in run_export_job
\* catches it; the wrapper marks the job.
RecordExport(e) ==
  /\ Step(e, "landed", "listed") /\ manifest' = manifest \cup {e}
  /\ UNCHANGED <<job, row, disk, frames, deletion, asked, answered, mishaps, kills>>
RecordFails(e) ==
  /\ Step(e, "landed", "over") /\ job' = [job EXCEPT ![e] = "failed"]
  /\ Befalls(e, {"unlisted", "stranded"})
  /\ UNCHANGED <<row, disk, manifest, frames, deletion, asked, answered, kills>>

WriteReadyEarly(e) ==       \* mutant: the row is written before the manifest
  /\ Step(e, "landed", "written")
  /\ row' = [row EXCEPT ![e].status = "ready", ![e].path = TRUE]
  /\ UNCHANGED <<job, disk, manifest, frames, deletion, asked, answered, mishaps, kills>>
\* The row becomes ready, whatever it says by now.
WriteReady(e) ==
  /\ Step(e, "listed", "written")
  /\ row' = [row EXCEPT ![e].status = "ready", ![e].path = TRUE]
  /\ UNCHANGED <<job, disk, manifest, frames, deletion, asked, answered, mishaps, kills>>
PublishReady(e) ==
  /\ Step(e, "written", "announced") /\ frames' = frames \cup {e}
  /\ UNCHANGED <<job, row, disk, manifest, deletion, asked, answered, mishaps, kills>>

SettleSuccessOnly(e) ==       \* mutant: a failure leaves the job row alone
  /\ run[e] \in {"announced", "failing"} /\ run' = [run EXCEPT ![e] = "over"]
  /\ job' = [job EXCEPT ![e] = IF run[e] = "announced" THEN "completed" ELSE @]
  /\ UNCHANGED <<row, disk, manifest, frames, deletion, asked, answered, mishaps, kills>>
\* _mark_job at the end, whatever the job row says by now.
SettleJob(e) ==
  /\ run[e] \in {"announced", "failing"} /\ run' = [run EXCEPT ![e] = "over"]
  /\ job' = [job EXCEPT ![e] = IF run[e] = "announced" THEN "completed" ELSE "failed"]
  /\ UNCHANGED <<row, disk, manifest, frames, deletion, asked, answered, mishaps, kills>>

-----------------------------------------------------------------------------
(* DELETE /exports/{id}. *)

\* The row is read, whatever it says: no other status is refused.
ReadForDelete(e) ==
  /\ row[e].status # "none" /\ deletion[e] = "none"
  /\ deletion' = [deletion EXCEPT ![e] = IF row[e].path THEN "read" ELSE "cleared"]
  /\ Befalls(e, IF run[e] \in Working THEN {"early"} ELSE {})
  /\ UNCHANGED <<job, row, disk, manifest, frames, run, asked, answered, kills>>
RemoveFile(e) ==
  /\ deletion[e] = "read" /\ disk' = [disk EXCEPT ![e] = @ \ {"final"}]
  /\ deletion' = [deletion EXCEPT ![e] = "unlinked"]
  /\ UNCHANGED <<job, row, manifest, frames, run, asked, answered, mishaps, kills>>
RemoveSidecar(e) ==
  /\ deletion[e] = "unlinked" /\ disk' = [disk EXCEPT ![e] = @ \ {"sidecar"}]
  /\ deletion' = [deletion EXCEPT ![e] = "cleared"]
  /\ UNCHANGED <<job, row, manifest, frames, run, asked, answered, mishaps, kills>>
MarkDeleted(e) ==
  /\ deletion[e] = "cleared"
  /\ row' = [row EXCEPT ![e].status = "deleted", ![e].path = FALSE]
  /\ deletion' = [deletion EXCEPT ![e] = "none"] /\ answered' = answered \cup {e}
  /\ UNCHANGED <<job, disk, manifest, frames, run, asked, mishaps, kills>>
DeleteExport(e) == ReadForDelete(e) \/ RemoveFile(e) \/ RemoveSidecar(e) \/ MarkDeleted(e)

\* The jobs screen and the exports screen say the same.
Agree(e) ==
  /\ job[e] = "completed" => row[e].status \in {"ready", "deleted"}
  /\ job[e] \in {"failed", "cancelled"} => row[e].status \in {"failed", "deleted"}
\* GET /exports/{id}/file answers with a file.
Downloadable(e) ==
  row[e].status = "ready" /\ row[e].path /\ "final" \in disk[e] /\ row[e].layout = "single"

-----------------------------------------------------------------------------
(* The jobs screen and the process. *)

PauseJob(e) ==
  /\ job[e] \in {"queued", "running"} /\ job' = [job EXCEPT ![e] = "paused"]
  /\ UNCHANGED <<row, disk, manifest, frames, run, deletion, asked, answered, mishaps, kills>>

\* A resume and a cancellation read the status in one transaction and write theirs in
\* another, whatever it says by then.  An export has no task rows: a cancelled one is
\* settled at once.
Ask(e, what, from) ==
  /\ job[e] \in from /\ what \notin asked[e]
  /\ asked' = [asked EXCEPT ![e] = @ \cup {what}]
  /\ UNCHANGED <<job, row, disk, manifest, frames, run, deletion, answered, mishaps, kills>>
Answer(e, what, status) ==
  /\ what \in asked[e] /\ asked' = [asked EXCEPT ![e] = @ \ {what}]
  /\ job' = [job EXCEPT ![e] = status]
  /\ UNCHANGED <<row, disk, manifest, frames, run, deletion, answered, kills>>
ResumeRead(e) == Ask(e, "resume", {"paused"})
ResumeWrite(e) ==
  /\ Answer(e, "resume", "queued") /\ Befalls(e, IF job[e] \in Finished THEN {"requeued"} ELSE {})
CancelRead(e) == Ask(e, "cancel", {"queued", "running", "paused"})
CancelWrite(e) == Answer(e, "cancel", "cancelled") /\ Befalls(e, {"cancelled"})

\* A kill and the next start: the jobs that were running are paused, the background
\* tasks and the requests are gone.
Left(e) ==
  (IF run[e] \in {"landed", "listed"} THEN {"stranded"} ELSE {}) \cup
  (IF deletion[e] \in {"unlinked", "cleared"} THEN {"torn"} ELSE {})
Killed ==
  /\ kills < MaxKills /\ kills' = kills + 1
  /\ job' = [e \in Exports |-> IF job[e] = "running" THEN "paused" ELSE job[e]]
  /\ run' = [e \in Exports |-> IF run[e] = "none" THEN "none" ELSE "over"]
  /\ deletion' = [e \in Exports |-> "none"] /\ asked' = [e \in Exports |-> {}]
  /\ mishaps' = [e \in Exports |-> mishaps[e] \cup Left(e)]
  /\ UNCHANGED <<row, disk, manifest, frames, answered>>

RunExport(e) ==
  \/ \E layout \in Layouts : CreateExportRow(e, layout)
  \/ MarkJobRunning(e) \/ SetStatusRunning(e) \/ Copy(e) \/ CopyFails(e)
  \/ Replace(e) \/ ReplaceFails(e)
  \/ RecordExport(e) \/ RecordFails(e) \/ WriteReady(e) \/ PublishReady(e) \/ SettleJob(e)

Next ==
  \/ \E e \in Exports :
       \/ CreateJobRow(e) \/ RunExport(e) \/ DeleteExport(e)
       \/ PauseJob(e) \/ ResumeRead(e) \/ ResumeWrite(e) \/ CancelRead(e) \/ CancelWrite(e)
  \/ Killed

Spec == Init /\ [][Next]_vars
\* The background task and a deletion under way go on.
Fairness == \A e \in Exports : WF_vars(RunExport(e)) /\
              WF_vars(RemoveFile(e) \/ RemoveSidecar(e) \/ MarkDeleted(e))
FairSpec == Spec /\ Fairness

-----------------------------------------------------------------------------
(* What an export promises. *)

\* "Nothing ever points at a staging file", and "each step is only announced once the
\* one it describes is durable": a ready row that no deletion has touched has its
\* whole file and its line in the manifest, and what was announced had them.
ReadyIsWhole ==
  \A e \in Exports :
    /\ row[e].status = "ready" /\ deletion[e] \notin {"unlinked", "cleared"} /\ "torn" \notin mishaps[e] =>
         /\ "final" \in disk[e] /\ e \in manifest
         /\ row[e].layout = "single" => Downloadable(e) /\ "sidecar" \in disk[e]
    /\ e \in frames => e \in manifest /\ row[e].status \in {"ready", "deleted"}

\* "A failed export never leaves a sidecar describing a file that does not exist":
\* the schema of a file is there only beside it, deletions and kills included.
SidecarHasItsFile ==
  \A e \in Exports :
    "sidecar" \in disk[e] /\ deletion[e] # "unlinked" /\ "torn" \notin mishaps[e] => "final" \in disk[e]

\* "The jobs screen and the exports screen never disagree about whether it finished":
\* while the manifest can be written and nobody cancels the job, a finished job says
\* what its export says, kills, pauses, resumes and deletions in between.
LedgersAgree == \A e \in Exports : mishaps[e] \cap {"unlisted", "cancelled"} = {} => Agree(e)
\* The same of every export.
\* It does not hold: see "Stated in the modules" in the README.
LedgersNeverDisagree == \A e \in Exports : Agree(e)

\* A deletion that begins when the work is over is final: once it was answered the row
\* stays deleted, after kills and further deletions, and no file of the export is left
\* unless the row never named it.
DeletedStaysDeleted ==
  \A e \in answered : "early" \notin mishaps[e] =>
    /\ row[e].status = "deleted"
    /\ "stranded" \notin mishaps[e] => {"final", "sidecar"} \cap disk[e] = {}

\* The four, with the types.
ExportsSound ==
  TypeOK /\ ReadyIsWhole /\ SidecarHasItsFile /\ LedgersAgree /\ DeletedStaysDeleted

\* Without a kill every accepted export ends: its job does, unless a resume was written
\* over its end, and so does its row unless the manifest could not be written.
EveryExportEnds ==
  \A e \in Exports :
    run[e] # "none" ~>
      \/ kills > 0
      \/ /\ job[e] \in Finished \/ "requeued" \in mishaps[e]
         /\ row[e].status \in {"ready", "failed", "deleted"} \/ "unlisted" \in mishaps[e]

\* docs/API.md, of DELETE /exports/{id}: "Response `204`. Deletes the file and marks the
\* row `deleted`": what was deleted is not offered again, whenever the deletion came.
\* It does not hold: the work that is under way writes `ready` over it, with the file it
\* landed.
DeletionIsFinal == \A e \in answered : ~Downloadable(e)

\* docs/API.md, of pause, resume and cancel: "All three refuse a job in a terminal
\* status".
\* It does not hold: a resume that read `paused` before the work ended writes `queued`
\* after it, and nothing settles the job again.
ResumeRefusesFinished == [][\A e \in Exports : job[e] \in Finished => job'[e] # "queued"]_vars

\* db/exports.py: "an interrupted export leaves a partial temp file that the next run
\* cleans up".
\* It does not hold: see "Stated in the modules" in the README.
PartialsAreCleaned ==
  [][\A e, f \in Exports :
       run[f] = "marked" /\ run'[f] = "copied" /\ run[e] = "over" => "staging" \notin disk'[e]]_vars
=============================================================================
