---------------------------- MODULE ConsoleProofs ---------------------------
(***************************************************************************)
(* What must come to an end by itself: the process's start and stop with   *)
(* the migrations it runs, the exports, the market database with its       *)
(* writer and the operations that rewrite it, and the event streams, for   *)
(* every number of migration files, starts, exports, writers, failing      *)
(* steps, kills, jobs, readers and slots and all capacities.               *)
(*                                                                         *)
(* ProcessInv says that what runs and what is recorded are the first k     *)
(* steps of the sequence, and that the files applied are the first of the  *)
(* installed ones.  ExportsInv says, for one export at a time, what each   *)
(* place of the background task and of a deletion leaves in the row, on    *)
(* the disk, in the manifest and on the bus; a step touches one export and *)
(* leaves the others as they are.  StoreInv says of the writer objects and *)
(* tasks which of them may be alive, of a queue that nobody stands in it   *)
(* twice, and of each step of an operation what is acknowledged and where. *)
(* FramesInv says of each stream that its replay and its queue are frames  *)
(* that follow one another, that the queue ends with the last one, and     *)
(* that all of it is newer than what its client saw; ProgressInv says of   *)
(* each job what its mark, its flush, the base of its differences and its  *)
(* settling leave to be told.  Neither needs the other.                    *)
(*                                                                         *)
(* Of the market database two things are assumed, of which the runs show   *)
(* that neither can be dropped: an operation is asked for while no other   *)
(* is under way and while what was acknowledged is in the file at          *)
(* market.duckdb.  Excluded of the streams are two flushes at one job, of  *)
(* which the one that read last may publish first; a stop that cuts a      *)
(* flush off after it took a mark; a client gone before its stream began,  *)
(* whose slot nobody gives back.                                           *)
(***************************************************************************)
EXTENDS Console, FiniteSetTheorems, SequenceTheorems, WellFoundedInduction, TLAPS
-----------------------------------------------------------------------------
(* The process. *)

ProcessAssumption == Files \in Nat /\ MaxStarts \in Nat

\* The first k steps of the start.
FirstSteps(k) == {Process!Sequence[i] : i \in 1 .. k}

\* What runs is the first steps of the start, and what raised further on.
ProcessInv ==
  /\ phase \in {"off", "starting", "serving", "stopping"} /\ ready \in BOOLEAN
  /\ starts \in 0 .. MaxStarts
  /\ adrift \subseteq Process!Names /\ (phase # "stopping" => adrift = {})
  /\ \E k \in 0 .. Len(Process!Sequence) :
       /\ started = SubSeq(Process!Sequence, 1, k) /\ running = FirstSteps(k) \cup adrift
       /\ adrift \cap FirstSteps(k) = {}
       /\ phase = "off" => k = 0
  /\ ledger = schema /\ \E k \in 0 .. Files : schema = 1 .. k

\* The steps of a start are ten, all different.
LEMMA TheSequence ==
  /\ Len(Process!Sequence) = 10
  /\ \A i, j \in 1 .. 10 : Process!Sequence[i] = Process!Sequence[j] => i = j
  /\ \A i \in 1 .. 10 : Process!Sequence[i] \in Process!Names
<1>1. Len(Process!Sequence) = 10 BY DEF Process!Sequence
<1>2. \A i, j \in 1 .. 10 : Process!Sequence[i] = Process!Sequence[j] => i = j BY
    DEF Process!Sequence
<1>3. DOMAIN Process!Sequence = 1 .. 10 BY DEF Process!Sequence
<1>4. \A i \in 1 .. 10 : Process!Sequence[i] \in Process!Names BY <1>3
    DEF Process!Names, Process!ToSet
<1> QED BY <1>1, <1>2, <1>4

\* What a step needs was started before it.
LEMMA NeedsBefore ==
  \A i \in 1 .. 10 : \A m \in Process!Needs[Process!Sequence[i]] : \E j \in 1 .. 10 : j < i /\ Process!Sequence[j] = m
<1>1. \A n \in Process!Names :
        Process!Needs[n] = CASE n = "sqlite" -> {}
    [] n \in {"migrations", "settings", "keys", "http_security"} -> {"sqlite"}
    [] n = "duckdb" -> {"sqlite"}
    [] n = "fyers" -> {"sqlite", "settings", "keys"}
    [] n = "pipeline_supervisor" -> {"sqlite", "settings", "duckdb", "fyers"}
    [] n \in {"job_recovery", "scheduler"} -> {"sqlite", "pipeline_supervisor"}
  BY DEF Process!Needs
<1>2. /\ Process!Sequence[1] = "sqlite" /\ Process!Sequence[2] = "migrations" /\ Process!Sequence[3] = "settings"
      /\ Process!Sequence[4] = "keys" /\ Process!Sequence[5] = "duckdb" /\ Process!Sequence[6] = "http_security"
      /\ Process!Sequence[7] = "fyers" /\ Process!Sequence[8] = "pipeline_supervisor"
      /\ Process!Sequence[9] = "job_recovery" /\ Process!Sequence[10] = "scheduler"
  BY DEF Process!Sequence
<1> SUFFICES ASSUME NEW i \in 1 .. 10, NEW m \in Process!Needs[Process!Sequence[i]]
             PROVE  \E j \in 1 .. 10 : j < i /\ Process!Sequence[j] = m
  OBVIOUS
<1>3. Process!Sequence[i] \in Process!Names BY TheSequence
<1>4. CASE i = 1 BY <1>1, <1>2, <1>3, <1>4
<1>5. CASE i \in {2, 3, 4, 5, 6} BY <1>1, <1>2, <1>3, <1>5
<1>6. CASE i = 7 BY <1>1, <1>2, <1>3, <1>6
<1>7. CASE i = 8 BY <1>1, <1>2, <1>3, <1>7
<1>8. CASE i \in {9, 10} BY <1>1, <1>2, <1>3, <1>8
<1> QED BY <1>4, <1>5, <1>6, <1>7, <1>8

\* The record after k steps holds the first k of them.
LEMMA Prefix ==
  ASSUME NEW k \in 0 .. 10
  PROVE  /\ SubSeq(Process!Sequence, 1, k) \in Seq(Process!Names) /\ Len(SubSeq(Process!Sequence, 1, k)) = k
         /\ \A i \in 1 .. k : SubSeq(Process!Sequence, 1, k)[i] = Process!Sequence[i]
BY TheSequence, SubSeqProperties

\* Before the first step nothing is recorded and nothing runs.
LEMMA NoSteps == SubSeq(Process!Sequence, 1, 0) = <<>> /\ FirstSteps(0) = {}
BY SubSeqEmpty DEF FirstSteps

\* Before the first start nothing runs and no file is applied.
LEMMA ProcessStart == ASSUME ProcessAssumption, Process!Init PROVE ProcessInv
<1>1. started = SubSeq(Process!Sequence, 1, 0) /\ running = FirstSteps(0)
  BY NoSteps DEF Process!Init
<1>2. schema = 1 .. 0 BY DEF Process!Init
<1>3. 0 \in 0 .. Len(Process!Sequence) /\ 0 \in 0 .. Files /\ 0 \in 0 .. MaxStarts
  BY TheSequence DEF ProcessAssumption
<1>4. phase = "off" /\ ready = FALSE /\ starts = 0 /\ ledger = schema /\ adrift = {}
  BY DEF Process!Init
<1> QED BY <1>1, <1>2, <1>3, <1>4 DEF ProcessInv

\* A step of a start is the next one, and runs after the ones it needs.
LEMMA StartMoves == ASSUME ProcessAssumption, ProcessInv, Process!StartStep PROVE ProcessInv'
<1>0. adrift = {} BY DEF ProcessInv, Process!StartStep, Process!Starting
<1>1. PICK k \in 0 .. 10 : started = SubSeq(Process!Sequence, 1, k) /\ running = FirstSteps(k)
  BY <1>0, TheSequence DEF ProcessInv
<1>2. Len(started) = k /\ k < 10 /\ phase = "starting"
  BY <1>1, Prefix, TheSequence DEF Process!StartStep, Process!Starting
<1>3. started' = Append(started, Process!Sequence[k + 1]) /\ running' = FirstSteps(k) \cup {Process!Sequence[k + 1]}
  BY <1>1, <1>2 DEF Process!StartStep, Process!Step
<1>4. started' = SubSeq(Process!Sequence, 1, k + 1)
  <2>1. k + 1 \in 0 .. 10 BY <1>2
  <2>2. /\ SubSeq(Process!Sequence, 1, k + 1) \in Seq(Process!Names) /\ Len(SubSeq(Process!Sequence, 1, k + 1)) = k + 1
        /\ \A i \in 1 .. k + 1 : SubSeq(Process!Sequence, 1, k + 1)[i] = Process!Sequence[i]
    BY <2>1, Prefix
  <2>3. /\ started \in Seq(Process!Names) /\ Len(started) = k /\ Process!Sequence[k + 1] \in Process!Names
        /\ \A i \in 1 .. k : started[i] = Process!Sequence[i]
    BY <1>1, <1>2, Prefix, TheSequence
  <2>4. /\ started' \in Seq(Process!Names) /\ Len(started') = k + 1 /\ started'[k + 1] = Process!Sequence[k + 1]
        /\ \A i \in 1 .. k : started'[i] = started[i]
    BY <1>3, <2>3, AppendProperties
  <2> DEFINE s == SubSeq(Process!Sequence, 1, k + 1)
  <2> HIDE DEF s
  <2>5. \A i \in 1 .. k + 1 : started'[i] = s[i]
    BY <2>2, <2>3, <2>4 DEF s
  <2>6. started' = s BY <2>2, <2>4, <2>5, SeqEqual DEF s
  <2> QED BY <2>6 DEF s
<1>5. running' = FirstSteps(k + 1) BY <1>2, <1>3 DEF FirstSteps
<1>6. k + 1 \in 0 .. Len(Process!Sequence) BY <1>2, TheSequence
<1>7. phase' = "starting" /\ adrift' = {} /\ UNCHANGED <<ready, schema, ledger, starts>>
  BY <1>2 DEF Process!StartStep, ProcessInv
<1> QED BY <1>4, <1>5, <1>6, <1>7 DEF ProcessInv

\* A teardown takes the last one of the record.
LEMMA StopMoves ==
  ASSUME ProcessAssumption, ProcessInv, NEW raises \in BOOLEAN, Process!StopStep(raises) PROVE ProcessInv'
<1>1. PICK k \in 0 .. 10 : started = SubSeq(Process!Sequence, 1, k)
                           /\ running = FirstSteps(k) \cup adrift /\ adrift \cap FirstSteps(k) = {}
  BY TheSequence DEF ProcessInv
<1>2. /\ Len(started) = k /\ started \in Seq(Process!Names) /\ \A i \in 1 .. k : started[i] = Process!Sequence[i]
      /\ phase = "stopping" /\ started # <<>>
  BY <1>1, Prefix DEF Process!StopStep
<1>3. k \in 1 .. 10 BY <1>2
<1>4. started' = SubSeq(Process!Sequence, 1, k - 1)
  <2> DEFINE a == SubSeq(started, 1, k - 1)
             b == SubSeq(started, k + 1, k)
             s == SubSeq(Process!Sequence, 1, k - 1)
  <2>1. started' = a \o b BY <1>2
      DEF Process!StopStep, Process!Without, Process!RemoveAt, Process!LastStarted
  <2>2. a \in Seq(Process!Names) /\ Len(a) = k - 1 /\ \A i \in 1 .. k - 1 : a[i] = started[i]
    BY <1>2, <1>3, SubSeqProperties
  <2>3. b \in Seq(Process!Names) /\ Len(b) = 0
    BY <1>2, <1>3, SubSeqProperties
  <2>4. /\ s \in Seq(Process!Names) /\ Len(s) = k - 1 /\ \A i \in 1 .. k - 1 : s[i] = Process!Sequence[i]
    <3>1. k - 1 \in 0 .. 10 BY <1>3
    <3> QED BY <3>1, Prefix
  <2> HIDE DEF a, b, s
  <2>5. b = <<>> BY <2>3
  <2>6. a \o b = a BY <2>2, <2>5
  <2>7. Len(a) = Len(s) /\ \A i \in 1 .. Len(a) : a[i] = s[i] BY <1>2, <1>3, <2>2, <2>4
  <2>8. a = s BY <2>2, <2>4, <2>7, SeqEqual
  <2> QED BY <2>1, <2>6, <2>8 DEF s
<1>5. FirstSteps(k) = FirstSteps(k - 1) \cup {Process!Sequence[k]} /\ Process!Sequence[k] \notin FirstSteps(k - 1)
  BY <1>3, TheSequence DEF FirstSteps
<1>7. /\ running' = FirstSteps(k - 1) \cup adrift' /\ adrift' \cap FirstSteps(k - 1) = {}
      /\ adrift' \subseteq Process!Names
  <2>0. started[Len(started)] = Process!Sequence[k] BY <1>2, <1>3
  <2>1. /\ running' = IF raises THEN running ELSE running \ {Process!Sequence[k]}
        /\ adrift' = IF raises THEN adrift \cup {Process!Sequence[k]} ELSE adrift
    BY <2>0 DEF Process!StopStep, Process!LastStarted
  <2>2. adrift \subseteq Process!Names /\ Process!Sequence[k] \in Process!Names
    BY <1>3, TheSequence DEF ProcessInv
  <2> QED BY <1>1, <1>5, <2>1, <2>2
<1>6. k - 1 \in 0 .. Len(Process!Sequence) BY <1>3, TheSequence
<1> QED BY <1>2, <1>4, <1>6, <1>7 DEF ProcessInv, Process!StopStep

\* A file is applied with its ledger row, the least one pending, or neither is.
LEMMA MigrateMoves ==
  ASSUME ProcessAssumption, ProcessInv, NEW ok \in BOOLEAN, Process!Migrate(ok) PROVE ProcessInv'
<1>1. PICK k \in 0 .. Files : schema = 1 .. k BY DEF ProcessInv
<1> DEFINE n == CHOOSE m \in Process!Pending : \A other \in Process!Pending : m <= other
<1>2. Process!Pending = k + 1 .. Files /\ ledger = schema
  BY <1>1 DEF ProcessAssumption, ProcessInv, Process!Pending
<1>3. k + 1 \in Process!Pending /\ \A other \in Process!Pending : k + 1 <= other
  BY <1>2 DEF Process!Migrate, ProcessAssumption
<1>4. n \in Process!Pending /\ \A other \in Process!Pending : n <= other BY <1>3
<1>5. n = k + 1 BY <1>2, <1>3, <1>4 DEF ProcessAssumption
<1>6. schema' = (IF ok THEN schema \cup {n} ELSE schema) /\ ledger' = schema'
  BY <1>2 DEF Process!Migrate, Process!RolledBack
<1> HIDE DEF n
<1>7. ledger' = schema' /\ \E j \in 0 .. Files : schema' = 1 .. j
  <2>1. CASE ok
    <3>1. schema' = 1 .. k + 1 BY <1>1, <1>5, <1>6, <2>1
    <3>2. k + 1 \in 0 .. Files BY <1>2, <1>3 DEF ProcessAssumption
    <3> QED BY <1>6, <3>1, <3>2
  <2>2. CASE ~ok BY <1>1, <1>6, <2>2
  <2> QED BY <2>1, <2>2
<1> QED BY <1>7 DEF Process!Migrate, Process!Starting, ProcessInv

\* Every step of the process.
LEMMA ProcessStep == ASSUME ProcessAssumption, ProcessInv, [Process!Next]_Process!vars PROVE ProcessInv'
<1>1. CASE Process!Boot BY <1>1 DEF Process!Boot, ProcessInv, ProcessAssumption
<1>2. CASE Process!Serve \/ Process!Leave BY <1>2 DEF Process!Serve, Process!Leave, ProcessInv
<1>3. ASSUME NEW half \in BOOLEAN, Process!StartFails(half) PROVE ProcessInv'
  <2>0. adrift = {} BY <1>3 DEF ProcessInv, Process!StartFails, Process!Starting
  <2>s. Len(Process!Sequence) = 10 BY TheSequence
  <2>k. PICK k \in 0 .. Len(Process!Sequence) :
          started = SubSeq(Process!Sequence, 1, k) /\ running = FirstSteps(k) \cup adrift
    BY DEF ProcessInv
  <2>1. k \in 0 .. 10 /\ started = SubSeq(Process!Sequence, 1, k) /\ running = FirstSteps(k)
    BY <2>0, <2>s, <2>k
  <2>f. Len(started) < 10
    BY <1>3, <2>s DEF Process!StartFails, Process!Starting
  <2>2. Len(started) = k /\ k < 10
    <3>1. Len(SubSeq(Process!Sequence, 1, k)) = k BY <2>1, Prefix
    <3> QED BY <2>1, <2>f, <3>1
  <2>3. /\ started' = started /\ phase' = "stopping" /\ UNCHANGED <<ready, schema, ledger, starts>>
        /\ running' = IF half THEN running \cup {Process!Sequence[k + 1]} ELSE running
        /\ adrift' = IF half THEN {Process!Sequence[k + 1]} ELSE {}
    BY <1>3, <2>0, <2>2 DEF Process!StartFails, Process!Step, Process!Recorded
  <2>4. Process!Sequence[k + 1] \in Process!Names /\ Process!Sequence[k + 1] \notin FirstSteps(k)
    <3>1. k + 1 \in 1 .. 10 /\ \A i \in 1 .. k : i \in 1 .. 10 /\ i # k + 1 BY <2>1, <2>2
    <3> QED BY <3>1, TheSequence DEF FirstSteps
  <2>5. k \in 0 .. Len(Process!Sequence) BY <2>k
  <2>6. /\ running' = FirstSteps(k) \cup adrift' /\ adrift' \cap FirstSteps(k) = {}
        /\ adrift' \subseteq Process!Names
    BY <2>1, <2>3, <2>4
  <2> QED BY <2>1, <2>3, <2>5, <2>6 DEF ProcessInv
<1>4. CASE Process!Stopped \/ Process!Kill
  <2>1. started' = SubSeq(Process!Sequence, 1, 0) /\ running' = FirstSteps(0) BY <1>4, NoSteps
      DEF Process!Stopped, Process!Kill, Process!Off
  <2>2. phase' = "off" /\ ready' = FALSE /\ adrift' = {} /\ UNCHANGED <<schema, ledger, starts>>
    BY <1>4 DEF Process!Stopped, Process!Kill, Process!Off
  <2>3. 0 \in 0 .. Len(Process!Sequence) BY TheSequence
  <2> QED BY <2>1, <2>2, <2>3 DEF ProcessInv
<1>5. CASE UNCHANGED Process!vars BY <1>5 DEF Process!vars, ProcessInv
<1> QED BY <1>1, <1>2, <1>3, <1>4, <1>5, StartMoves, StopMoves, MigrateMoves DEF Process!Next

\* The process (`run_startup`, `run_shutdown`, `migrate`), whatever step of a start raises,
\* before it runs anything or half way, whichever teardowns raise and wherever it is killed:
\* what runs has what it needs and a shutdown stops it, but for what raised itself; and the
\* migration ledger says what the schema holds, without a gap.
THEOREM ProcessSoundAlways ==
  ASSUME ProcessAssumption PROVE Process!Spec => []ProcessSound
<1>1. Process!Init => ProcessInv BY ProcessStart
<1>2. ProcessInv /\ [Process!Next]_Process!vars => ProcessInv' BY ProcessStep
<1>3. ProcessInv => Process!ProcessSound
  <2> SUFFICES ASSUME ProcessInv PROVE Process!ProcessSound OBVIOUS
  <2>1. PICK k \in 0 .. 10 : started = SubSeq(Process!Sequence, 1, k)
                             /\ running = FirstSteps(k) \cup adrift
    BY TheSequence DEF ProcessInv
  <2>2. started \in Seq(Process!Names) /\ Len(started) = k BY <2>1, Prefix
  <2>3. PICK j \in 0 .. Files : schema = 1 .. j BY DEF ProcessInv
  <2>4. Process!Cardinality(schema) = j
    <3>1. j \in Nat /\ Cardinality(1 .. j) = j
      BY FS_Interval DEF ProcessAssumption
    <3>2. Process!Cardinality(1 .. j) = Cardinality(1 .. j)
      BY DEF Process!Cardinality, Cardinality
    <3> QED BY <2>3, <3>1, <3>2
  <2>5. Process!TypeOK
    <3>0. \A i \in 1 .. k : i \in 1 .. 10 BY <2>1
    <3>1. running \subseteq Process!Names
      BY <2>1, <3>0, TheSequence DEF FirstSteps, ProcessInv
    <3>2. started = SubSeq(Process!Sequence, 1, Len(started)) BY <2>1, <2>2
    <3>3. schema \subseteq 1 .. Files /\ ledger \subseteq 1 .. Files BY <2>3 DEF ProcessInv, ProcessAssumption
    <3> QED BY <2>2, <3>1, <3>2, <3>3 DEF ProcessInv, Process!TypeOK
  <2>6. Process!NeedsRun
    <3> SUFFICES ASSUME NEW n \in running \ adrift, NEW m \in Process!Needs[n] PROVE m \in running
      BY DEF Process!NeedsRun
    <3>1. PICK i \in 1 .. k : n = Process!Sequence[i] BY <2>1 DEF FirstSteps
    <3>2. PICK l \in 1 .. 10 : l < i /\ Process!Sequence[l] = m BY <3>1, NeedsBefore
    <3> QED BY <2>1, <3>1, <3>2 DEF FirstSteps
  <2>7. Process!AllTornDown BY <2>1, <2>2 DEF Process!AllTornDown, ProcessInv, FirstSteps
  <2>8. Process!LedgerIsSchema BY <2>3, <2>4 DEF Process!LedgerIsSchema, ProcessInv
  <2> QED BY <2>5, <2>6, <2>7, <2>8 DEF Process!ProcessSound
<1> QED BY <1>1, <1>2, <1>3, PTL DEF Process!Spec, ProcessSound
-----------------------------------------------------------------------------
(* The exports. *)

ExportsAssumption == MaxKills \in Nat

ExportRows == [status : {"none", "queued", "running", "ready", "failed", "deleted"},
               path : BOOLEAN, layout : Export!Layouts]
ExportsShape ==
  /\ job \in [Exports -> Export!Finished \cup {"none", "queued", "running", "paused"}]
  /\ row \in [Exports -> ExportRows]
  /\ exportDisk \in [Exports -> SUBSET {"staging", "final", "sidecar"}]
  /\ manifest \subseteq Exports /\ frames \subseteq Exports /\ answered \subseteq Exports
  /\ mishaps \in [Exports -> SUBSET Export!Mishaps]
  /\ asked \in [Exports -> SUBSET {"resume", "cancel"}]
  /\ run \in [Exports -> Export!Working \cup {"none", "accepted", "over"}]
  /\ deletion \in [Exports -> {"none", "read", "unlinked", "cleared"}]
  /\ kills \in 0 .. MaxKills

FilesLanded(e) == "final" \in exportDisk[e] /\ (row[e].layout = "single" => "sidecar" \in exportDisk[e])
NoFiles(e) == {"final", "sidecar"} \cap exportDisk[e] = {}
\* Nobody asked for the file or the row to go: no deletion has touched them.
Untouched(e) == deletion[e] \notin {"unlinked", "cleared"} /\ "torn" \notin mishaps[e]

\* Where the work stands says what the row, the disk and the manifest hold; a deletion that
\* was early may have written `deleted` in between.
WorkFits(e) ==
  /\ run[e] \in {"none", "accepted"} => row[e].status = "none" /\ exportDisk[e] = {}
  /\ run[e] \in {"queued", "began"} => row[e].status \in {"queued", "deleted"} /\ exportDisk[e] = {}
  /\ run[e] = "marked" => row[e].status \in {"running", "deleted"} /\ exportDisk[e] = {}
  /\ run[e] = "copied" => row[e].status \in {"running", "deleted"} /\ NoFiles(e)
  /\ run[e] \in {"landed", "listed"} => row[e].status \in {"running", "deleted"} /\ FilesLanded(e)
  /\ run[e] \in {"written", "announced"} => row[e].status \in {"ready", "deleted"}
  /\ run[e] \in {"listed", "written", "announced"} => e \in manifest
  /\ run[e] = "failing" =>
       /\ row[e].status \in {"failed", "deleted"} /\ ("stranded" \in mishaps[e] \/ NoFiles(e))
       /\ "sidecar" \in exportDisk[e] => "final" \in exportDisk[e]
\* One that begins when the work is over takes the files before the row.
DeletionFits(e) ==
  /\ row[e].path <=> row[e].status = "ready"
  /\ row[e].path => run[e] \in {"written", "announced", "over"}
  /\ run[e] \in {"none", "accepted"} => deletion[e] = "none" /\ e \notin answered
  /\ run[e] # "over" => "torn" \notin mishaps[e]
  /\ run[e] # "over" /\ (deletion[e] # "none" \/ e \in answered) => "early" \in mishaps[e]
  /\ deletion[e] \in {"read", "unlinked"} => row[e].path
  /\ deletion[e] = "unlinked" => "final" \notin exportDisk[e]
  /\ deletion[e] = "cleared" \/ (run[e] = "over" /\ ~row[e].path) =>
       mishaps[e] \cap {"early", "stranded"} # {} \/ NoFiles(e)
  /\ row[e].status = "deleted" => e \in answered
  /\ e \in answered /\ "early" \notin mishaps[e] => row[e].status = "deleted"
Promised(e) ==
  /\ row[e].status = "ready" /\ Untouched(e) => FilesLanded(e) /\ e \in manifest
  /\ e \in frames => e \in manifest /\ row[e].status \in {"ready", "deleted"}
                       /\ run[e] \in {"announced", "over"}
  /\ "sidecar" \in exportDisk[e] /\ deletion[e] # "unlinked" /\ "torn" \notin mishaps[e] =>
       "final" \in exportDisk[e]
  /\ job[e] \in Export!Finished /\ mishaps[e] \cap {"unlisted", "cancelled"} = {} =>
       run[e] = "over" /\ Export!Agree(e)
ExportFits(e) == WorkFits(e) /\ DeletionFits(e) /\ Promised(e)
ExportsInv == ExportsShape /\ \A e \in Exports : ExportFits(e)

\* No export was asked for.
LEMMA ExportsStart == ASSUME ExportsAssumption, Export!Init PROVE ExportsInv
BY DEF ExportsAssumption, Export!Init, ExportsInv, ExportsShape, ExportRows, ExportFits, WorkFits,
       DeletionFits, Promised, FilesLanded, NoFiles, Export!NoRow, Export!Layouts, Export!Finished,
       Export!Agree

\* A step that touches one export leaves the others as they are.
Touches(e) ==
  \A f \in Exports \ {e} :
    /\ job'[f] = job[f] /\ row'[f] = row[f] /\ exportDisk'[f] = exportDisk[f] /\ run'[f] = run[f]
    /\ deletion'[f] = deletion[f] /\ (f \in manifest' <=> f \in manifest)
    /\ (f \in frames' <=> f \in frames) /\ (f \in answered' <=> f \in answered)
    /\ mishaps'[f] = mishaps[f]

\* The exports a step leaves alone fit as before.
LEMMA OthersFit ==
  ASSUME ExportsInv, NEW e \in Exports, Touches(e) PROVE \A f \in Exports \ {e} : ExportFits(f)'
BY DEF ExportsInv, Touches, ExportFits, WorkFits, DeletionFits, Promised, Untouched, FilesLanded,
       NoFiles, Export!Agree

\* The steps of the work that leave the row alone.
LEMMA WorkStep ==
  ASSUME ExportsAssumption, ExportsInv, NEW e \in Exports,
         Export!CreateJobRow(e) \/ Export!MarkJobRunning(e) \/ Export!Copy(e)
         \/ Export!Replace(e) \/ Export!RecordExport(e)
         \/ Export!RecordFails(e) \/ Export!PublishReady(e) \/ Export!SettleJob(e)
  PROVE  ExportsInv'
<1>1. UNCHANGED <<row, deletion, asked, answered, kills>>
  BY DEF Export!CreateJobRow, Export!MarkJobRunning, Export!Copy, Export!Replace,
         Export!RecordExport, Export!RecordFails, Export!PublishReady, Export!SettleJob
<1>2. Touches(e) /\ ExportsShape'
  BY <1>1 DEF Touches, ExportsInv, ExportsShape, Export!Step, Export!Finished, Export!Working,
     Export!CreateJobRow, Export!MarkJobRunning, Export!Copy, Export!Replace, Export!Landed,
     Export!RecordExport, Export!RecordFails, Export!PublishReady, Export!SettleJob,
     Export!Befalls, Export!Mishaps
<1>3. WorkFits(e) /\ DeletionFits(e) /\ Promised(e) /\ ExportsShape BY DEF ExportsInv, ExportFits
<1>4. WorkFits(e)'
  BY <1>1, <1>3 DEF ExportsShape, Export!Step, WorkFits, FilesLanded, NoFiles, Export!Befalls,
     Export!CreateJobRow, Export!MarkJobRunning, Export!Copy, Export!Replace, Export!Landed,
     Export!RecordExport, Export!RecordFails, Export!PublishReady, Export!SettleJob
<1>5. DeletionFits(e)'
  BY <1>1, <1>3 DEF ExportsShape, Export!Step, WorkFits, DeletionFits, NoFiles, Export!Befalls,
     Export!CreateJobRow, Export!MarkJobRunning, Export!Copy, Export!Replace, Export!Landed,
     Export!RecordExport, Export!RecordFails, Export!PublishReady, Export!SettleJob
<1>6. Promised(e)'
  BY <1>1, <1>3 DEF ExportsShape, Export!Step, Export!Finished, WorkFits, DeletionFits, Promised,
     Untouched, FilesLanded, NoFiles, Export!Agree, Export!Befalls,
     Export!CreateJobRow, Export!MarkJobRunning, Export!Copy, Export!Replace, Export!Landed,
     Export!RecordExport, Export!RecordFails, Export!PublishReady, Export!SettleJob
<1> QED BY <1>2, <1>4, <1>5, <1>6, OthersFit DEF ExportsInv, ExportFits

\* A step of the work that writes the row: the row, the files and the mishaps it leaves.
RowMove(e, r, d, m) ==
  /\ row' = [row EXCEPT ![e] = r] /\ exportDisk' = [exportDisk EXCEPT ![e] = d]
  /\ mishaps' = [mishaps EXCEPT ![e] = m]
  /\ job' = job /\ manifest' = manifest /\ frames' = frames /\ deletion' = deletion
  /\ asked' = asked /\ answered' = answered /\ kills' = kills
RowWritten(e, r, d, m) ==
  \/ Export!Step(e, "accepted", "queued") /\ r.status = "queued" /\ ~r.path /\ d = exportDisk[e]
  \/ Export!Step(e, "began", "marked") /\ r.status = "running" /\ ~r.path /\ d = exportDisk[e]
  \/ Export!Step(e, "marked", "failing") /\ r.status = "failed" /\ ~r.path
     /\ {"final", "sidecar"} \cap d = {"final", "sidecar"} \cap exportDisk[e]
  \/ Export!Step(e, "copied", "failing") /\ r.status = "failed" /\ ~r.path
     /\ (d = exportDisk[e] \/ ("final" \in d /\ "stranded" \in m))
  \/ Export!Step(e, "listed", "written") /\ r.status = "ready" /\ r.path
     /\ r.layout = row[e].layout /\ d = exportDisk[e]

LEMMA RowStep ==
  ASSUME ExportsAssumption, ExportsInv, NEW e \in Exports, NEW r \in ExportRows,
         NEW d \in SUBSET {"staging", "final", "sidecar"}, NEW m \in SUBSET Export!Mishaps,
         m = mishaps[e] \/ m = mishaps[e] \cup {"stranded"},
         RowMove(e, r, d, m), RowWritten(e, r, d, m)
  PROVE  ExportsInv'
<1>0. ExportsShape /\ ExportFits(e) BY DEF ExportsInv
<1>1. /\ row' \in [Exports -> ExportRows] /\ row'[e] = r
      /\ exportDisk' \in [Exports -> SUBSET {"staging", "final", "sidecar"}] /\ exportDisk'[e] = d
      /\ mishaps' \in [Exports -> SUBSET Export!Mishaps] /\ mishaps'[e] = m
      /\ \A f \in Exports \ {e} :
           row'[f] = row[f] /\ exportDisk'[f] = exportDisk[f] /\ mishaps'[f] = mishaps[f]
  BY <1>0 DEF ExportsShape, RowMove
<1>2. run' \in [Exports -> Export!Working \cup {"none", "accepted", "over"}]
      /\ \A f \in Exports \ {e} : run'[f] = run[f]
  BY <1>0 DEF ExportsShape, RowWritten, Export!Step, Export!Working
<1>3. Touches(e) /\ ExportsShape' BY <1>0, <1>1, <1>2 DEF RowMove, Touches, ExportsShape
<1>4. /\ job' = job /\ manifest' = manifest /\ frames' = frames /\ deletion' = deletion
      /\ answered' = answered
  BY DEF RowMove
<1>5. \/ (run[e] = "accepted" /\ run'[e] = "queued" /\ r.status = "queued" /\ ~r.path /\ d = exportDisk[e])
      \/ (run[e] = "began" /\ run'[e] = "marked" /\ r.status = "running" /\ ~r.path /\ d = exportDisk[e])
      \/ (run[e] = "marked" /\ run'[e] = "failing" /\ r.status = "failed" /\ ~r.path
          /\ {"final", "sidecar"} \cap d = {"final", "sidecar"} \cap exportDisk[e])
      \/ (run[e] = "copied" /\ run'[e] = "failing" /\ r.status = "failed" /\ ~r.path
          /\ (d = exportDisk[e] \/ ("final" \in d /\ "stranded" \in m)))
      \/ (run[e] = "listed" /\ run'[e] = "written" /\ r.status = "ready" /\ r.path
          /\ r.layout = row[e].layout /\ d = exportDisk[e])
  BY <1>0 DEF ExportsShape, RowWritten, Export!Step
<1>6. WorkFits(e) /\ DeletionFits(e) /\ Promised(e) /\ mishaps[e] \subseteq m
      /\ m \subseteq mishaps[e] \cup {"stranded"}
  BY <1>0 DEF ExportFits
<1>7. WorkFits(e)'
  BY <1>1, <1>4, <1>5, <1>6 DEF WorkFits, FilesLanded, NoFiles
<1>8. DeletionFits(e)'
  <2>1. run[e] \notin {"none", "over"} /\ run'[e] \notin {"none", "accepted", "over"} BY <1>5
  <2>2. ~r.path \/ run'[e] = "written" BY <1>5
  <2>3. r.path <=> r.status = "ready" BY <1>5
  <2>4. row[e].path = FALSE BY <1>5, <1>6 DEF DeletionFits
  <2>5. r.status # "deleted" BY <1>5
  <2> QED BY <1>1, <1>4, <1>6, <2>1, <2>2, <2>3, <2>4, <2>5 DEF DeletionFits, NoFiles
<1>9. Promised(e)'
  <2>1. e \notin frames /\ job[e] \in Export!Finished =>
          mishaps[e] \cap {"unlisted", "cancelled"} # {}
    BY <1>5, <1>6 DEF Promised
  <2>2. e \notin frames BY <1>5, <1>6 DEF Promised
  <2>3. "torn" \notin mishaps[e] /\ deletion[e] # "unlinked" BY <1>5, <1>6 DEF DeletionFits
  <2>4. "sidecar" \in d => "final" \in d BY <1>5, <1>6 DEF WorkFits, NoFiles, FilesLanded
  <2>5. r.status = "ready" => FilesLanded(e)' /\ e \in manifest
    BY <1>1, <1>5, <1>6 DEF WorkFits, FilesLanded
  <2> QED BY <1>1, <1>4, <1>6, <2>1, <2>2, <2>3, <2>4, <2>5 DEF Promised, Untouched
<1> QED BY <1>3, <1>7, <1>8, <1>9, OthersFit DEF ExportsInv, ExportFits

\* The steps of the work that write the row: queued, running, failed, ready.
LEMMA RowSteps ==
  ASSUME ExportsAssumption, ExportsInv, NEW e \in Exports,
         \/ \E layout \in Export!Layouts : Export!CreateExportRow(e, layout)
         \/ Export!SetStatusRunning(e) \/ Export!CopyFails(e) \/ Export!ReplaceFails(e)
         \/ Export!WriteReady(e)
  PROVE  ExportsInv'
<1> DEFINE Disks == SUBSET {"staging", "final", "sidecar"}
<1>0. /\ row[e] \in ExportRows /\ row \in [Exports -> ExportRows]
      /\ exportDisk \in [Exports -> Disks] /\ exportDisk[e] \in Disks
      /\ mishaps \in [Exports -> SUBSET Export!Mishaps] /\ mishaps[e] \in SUBSET Export!Mishaps
  BY DEF ExportsInv, ExportsShape
<1>s. exportDisk = [exportDisk EXCEPT ![e] = exportDisk[e]] /\ mishaps = [mishaps EXCEPT ![e] = mishaps[e]]
  BY <1>0
<1>p. run[e] \in {"began", "marked", "copied"} => ~row[e].path
  BY DEF ExportsInv, ExportFits, DeletionFits
<1> DEFINE failed == [row[e] EXCEPT !.status = "failed"]
<1>f. failed \in ExportRows /\ failed.status = "failed" /\ failed.path = row[e].path
  BY <1>0 DEF ExportRows
<1>1. ASSUME NEW layout \in Export!Layouts, Export!CreateExportRow(e, layout) PROVE ExportsInv'
  <2> DEFINE r == [status |-> "queued", path |-> FALSE, layout |-> layout]
  <2>1. r \in ExportRows /\ r.status = "queued" /\ ~r.path BY DEF ExportRows
  <2>2. row' = [row EXCEPT ![e] = r] BY <1>1 DEF Export!CreateExportRow
  <2> HIDE DEF r
  <2>3. RowMove(e, r, exportDisk[e], mishaps[e]) BY <1>1, <1>s, <2>2 DEF RowMove, Export!CreateExportRow
  <2>4. RowWritten(e, r, exportDisk[e], mishaps[e])
    BY <1>1, <2>1 DEF RowWritten, Export!CreateExportRow
  <2> QED BY <1>0, <2>1, <2>3, <2>4, RowStep
<1>2. CASE Export!SetStatusRunning(e)
  <2> DEFINE r == [row[e] EXCEPT !.status = "running"]
  <2>1. run[e] = "began" BY <1>2 DEF Export!SetStatusRunning, Export!Step
  <2>2. r \in ExportRows /\ r.status = "running" /\ r.path = row[e].path BY <1>0 DEF ExportRows
  <2>3. row' = [row EXCEPT ![e] = r] BY <1>2 DEF Export!SetStatusRunning
  <2> HIDE DEF r
  <2>4. RowMove(e, r, exportDisk[e], mishaps[e]) BY <1>2, <1>s, <2>3 DEF RowMove, Export!SetStatusRunning
  <2>5. RowWritten(e, r, exportDisk[e], mishaps[e])
    BY <1>2, <1>p, <2>1, <2>2 DEF RowWritten, Export!SetStatusRunning
  <2> QED BY <1>0, <2>2, <2>4, <2>5, RowStep
<1>3. CASE Export!CopyFails(e)
  <2>1. run[e] = "marked" BY <1>3 DEF Export!CopyFails, Export!Step
  <2>2. PICK rest \in SUBSET {"staging"} : exportDisk' = [exportDisk EXCEPT ![e] = @ \cup rest]
    BY <1>3 DEF Export!CopyFails
  <2> DEFINE d == exportDisk[e] \cup rest
  <2>3. d \in Disks /\ {"final", "sidecar"} \cap d = {"final", "sidecar"} \cap exportDisk[e] BY <1>0
  <2>4. exportDisk' = [exportDisk EXCEPT ![e] = d] BY <2>2
  <2>5. row' = [row EXCEPT ![e] = failed] BY <1>3 DEF Export!CopyFails
  <2> HIDE DEF d, failed
  <2>6. RowMove(e, failed, d, mishaps[e]) BY <1>3, <1>s, <2>4, <2>5 DEF RowMove, Export!CopyFails
  <2>7. RowWritten(e, failed, d, mishaps[e])
    BY <1>3, <1>f, <1>p, <2>1, <2>3 DEF RowWritten, Export!CopyFails
  <2> QED BY <1>0, <1>f, <2>3, <2>6, <2>7, RowStep
<1>4. CASE Export!ReplaceFails(e)
  <2>1. run[e] = "copied" /\ Export!Step(e, "copied", "failing")
    BY <1>4 DEF Export!ReplaceFails, Export!Step
  <2>2. row' = [row EXCEPT ![e] = failed] /\ UNCHANGED <<job, manifest, frames, deletion, asked, answered, kills>>
    BY <1>4 DEF Export!ReplaceFails
  <2>3. CASE UNCHANGED <<exportDisk, mishaps>>
    <3> HIDE DEF failed
    <3>1. RowMove(e, failed, exportDisk[e], mishaps[e]) BY <1>s, <2>2, <2>3 DEF RowMove
    <3>2. RowWritten(e, failed, exportDisk[e], mishaps[e]) BY <1>f, <1>p, <2>1 DEF RowWritten
    <3> QED BY <1>0, <1>f, <3>1, <3>2, RowStep
  <2>4. ASSUME NEW there \in SUBSET Export!Landed(e),
               exportDisk' = [exportDisk EXCEPT ![e] = (@ \ {"staging"}) \cup {"final"} \cup there],
               Export!Befalls(e, {"stranded"})
        PROVE  ExportsInv'
    <3> DEFINE d == (exportDisk[e] \ {"staging"}) \cup {"final"} \cup there
               m == mishaps[e] \cup {"stranded"}
    <3>1. d \in Disks /\ "final" \in d BY <1>0 DEF Export!Landed
    <3>2. m \in SUBSET Export!Mishaps /\ "stranded" \in m BY <1>0 DEF Export!Mishaps
    <3>3. mishaps' = [mishaps EXCEPT ![e] = m] BY <2>4 DEF Export!Befalls
    <3>4. exportDisk' = [exportDisk EXCEPT ![e] = d] BY <2>4
    <3>5. m = mishaps[e] \cup {"stranded"} OBVIOUS
    <3> HIDE DEF d, m, failed
    <3>6. RowMove(e, failed, d, m) BY <2>2, <3>3, <3>4 DEF RowMove
    <3>7. RowWritten(e, failed, d, m) BY <1>f, <1>p, <2>1, <3>1, <3>2 DEF RowWritten
    <3> QED BY <1>f, <3>1, <3>2, <3>5, <3>6, <3>7, RowStep
  <2> QED BY <1>4, <2>3, <2>4 DEF Export!ReplaceFails
<1>5. CASE Export!WriteReady(e)
  <2> DEFINE r == [row[e] EXCEPT !.status = "ready", !.path = TRUE]
  <2>1. r \in ExportRows /\ r.status = "ready" /\ r.path /\ r.layout = row[e].layout
    BY <1>0 DEF ExportRows
  <2>2. row' = [row EXCEPT ![e] = r] BY <1>5 DEF Export!WriteReady
  <2> HIDE DEF r
  <2>3. RowMove(e, r, exportDisk[e], mishaps[e]) BY <1>5, <1>s, <2>2 DEF RowMove, Export!WriteReady
  <2>4. RowWritten(e, r, exportDisk[e], mishaps[e])
    BY <1>5, <2>1 DEF RowWritten, Export!WriteReady
  <2> QED BY <1>0, <2>1, <2>3, <2>4, RowStep
<1> QED BY <1>1, <1>2, <1>3, <1>4, <1>5

\* The steps of a deletion: the row is read, then file, sidecar, row.
LEMMA DeleteStep ==
  ASSUME ExportsAssumption, ExportsInv, NEW e \in Exports, Export!DeleteExport(e)
  PROVE  ExportsInv'
<1>0. /\ row[e] \in ExportRows /\ row \in [Exports -> ExportRows]
      /\ ExportsShape /\ ExportFits(e)
  BY DEF ExportsInv, ExportsShape
<1>1. CASE Export!ReadForDelete(e)
  <2>1. /\ row[e].status # "none" /\ deletion[e] = "none"
        /\ deletion' = [deletion EXCEPT ![e] = IF row[e].path THEN "read" ELSE "cleared"]
        /\ mishaps' = [mishaps EXCEPT ![e] = @ \cup IF run[e] \in Export!Working THEN {"early"} ELSE {}]
        /\ UNCHANGED <<job, row, exportDisk, manifest, frames, run, asked, answered, kills>>
    BY <1>1 DEF Export!ReadForDelete, Export!Befalls
  <2>2. Touches(e) /\ ExportsShape' BY <1>0, <2>1 DEF Touches, ExportsShape, Export!Mishaps
  <2>3. run[e] = "over" \/ (run[e] \in Export!Working /\ "early" \in mishaps'[e])
    BY <1>0, <2>1 DEF ExportsShape, ExportFits, WorkFits
  <2>4. mishaps[e] \subseteq mishaps'[e] /\ mishaps'[e] \subseteq mishaps[e] \cup {"early"}
        /\ deletion'[e] = (IF row[e].path THEN "read" ELSE "cleared")
    BY <1>0, <2>1 DEF ExportsShape
  <2>5. ExportFits(e)'
    BY <1>0, <2>1, <2>3, <2>4 DEF ExportFits, WorkFits, DeletionFits, Promised, Untouched,
       FilesLanded, NoFiles, Export!Agree, Export!Working
  <2> QED BY <2>2, <2>5, OthersFit DEF ExportsInv
<1>2. CASE Export!RemoveFile(e) \/ Export!RemoveSidecar(e)
  <2>1. Touches(e) /\ ExportsShape'
    BY <1>0, <1>2 DEF Touches, ExportsShape, Export!RemoveFile, Export!RemoveSidecar
  <2>2. ExportFits(e)'
    BY <1>0, <1>2 DEF ExportsShape, ExportFits, WorkFits, DeletionFits, Promised, Untouched,
       FilesLanded, NoFiles, Export!Agree, Export!RemoveFile, Export!RemoveSidecar
  <2> QED BY <2>1, <2>2, OthersFit DEF ExportsInv
<1>3. CASE Export!MarkDeleted(e)
  <2> DEFINE r == [row[e] EXCEPT !.status = "deleted", !.path = FALSE]
  <2>1. r \in ExportRows /\ r.status = "deleted" /\ ~r.path /\ r.layout = row[e].layout
    BY <1>0 DEF ExportRows
  <2>2. row' = [row EXCEPT ![e] = r] BY <1>3 DEF Export!MarkDeleted
  <2> HIDE DEF r
  <2>3. row'[e] = r BY <1>0, <2>2
  <2>4. Touches(e) /\ ExportsShape'
    <3>1. row' \in [Exports -> ExportRows] /\ \A f \in Exports \ {e} : row'[f] = row[f]
      BY <1>0, <2>1, <2>2
    <3>2. deletion' = [deletion EXCEPT ![e] = "none"] /\ answered' = answered \cup {e}
          /\ UNCHANGED <<job, exportDisk, manifest, frames, run, asked, mishaps, kills>>
      BY <1>3 DEF Export!MarkDeleted
    <3> QED BY <1>0, <3>1, <3>2 DEF Touches, ExportsShape
  <2>5. ExportFits(e)'
    BY <1>0, <1>3, <2>1, <2>3 DEF ExportsShape, Export!Working, ExportFits, WorkFits,
       DeletionFits, Promised, Untouched, FilesLanded, NoFiles, Export!Agree, Export!MarkDeleted
  <2> QED BY <2>4, <2>5, OthersFit DEF ExportsInv
<1> QED BY <1>1, <1>2, <1>3 DEF Export!DeleteExport

\* What the jobs screen asks for touches the job row only.
LEMMA ScreenStep ==
  ASSUME ExportsAssumption, ExportsInv, NEW e \in Exports,
         \/ Export!PauseJob(e) \/ Export!ResumeRead(e) \/ Export!ResumeWrite(e)
         \/ Export!CancelRead(e) \/ Export!CancelWrite(e)
  PROVE  ExportsInv'
<1> USE DEF Export!PauseJob, Export!ResumeRead, Export!ResumeWrite, Export!CancelRead,
            Export!CancelWrite, Export!Ask, Export!Answer, Export!Befalls
<1>0. ExportsShape /\ ExportFits(e) BY DEF ExportsInv
<1>1. /\ UNCHANGED <<row, exportDisk, manifest, frames, run, deletion, answered, kills>>
      /\ mishaps[e] \subseteq mishaps'[e] /\ mishaps'[e] \subseteq mishaps[e] \cup {"requeued", "cancelled"}
      /\ job'[e] = job[e] \/ job'[e] \in {"paused", "queued"} \/ "cancelled" \in mishaps'[e]
  BY <1>0 DEF ExportsShape
<1>2. Touches(e) /\ ExportsShape'
  BY <1>0 DEF Touches, ExportsShape, Export!Finished, Export!Mishaps
<1>3. WorkFits(e)' /\ DeletionFits(e)'
  BY <1>0, <1>1 DEF ExportFits, WorkFits, DeletionFits, FilesLanded, NoFiles
<1>4. Promised(e)'
  BY <1>0, <1>1 DEF ExportFits, Promised, Untouched, FilesLanded, Export!Agree, Export!Finished
<1> QED BY <1>2, <1>3, <1>4, OthersFit DEF ExportsInv, ExportFits

\* A kill: work and deletions under way are gone, and leave what they had written.
LEMMA KilledStep ==
  ASSUME ExportsAssumption, ExportsInv, Export!Killed PROVE ExportsInv'
<1>1. ExportsShape'
  BY DEF ExportsAssumption, ExportsInv, ExportsShape, Export!Finished, Export!Working,
         Export!Killed, Export!Left, Export!Mishaps
<1>2. ASSUME NEW e \in Exports PROVE ExportFits(e)'
  <2>1. /\ row'[e] = row[e] /\ exportDisk'[e] = exportDisk[e] /\ deletion'[e] = "none"
        /\ job'[e] = (IF job[e] = "running" THEN "paused" ELSE job[e])
        /\ run'[e] = (IF run[e] = "none" THEN "none" ELSE "over")
        /\ mishaps'[e] = mishaps[e] \cup Export!Left(e)
        /\ UNCHANGED <<manifest, frames, answered>>
    BY DEF ExportsInv, ExportsShape, Export!Killed
  <2>2. /\ mishaps[e] \subseteq mishaps'[e] /\ mishaps'[e] \subseteq mishaps[e] \cup {"stranded", "torn"}
        /\ ("torn" \in mishaps'[e] <=> "torn" \in mishaps[e] \/ deletion[e] \in {"unlinked", "cleared"})
        /\ run[e] \in {"landed", "listed"} => "stranded" \in mishaps'[e]
    BY <2>1 DEF Export!Left
  <2>3. ExportFits(e) /\ ExportsShape BY DEF ExportsInv
  <2>4. WorkFits(e)' BY <2>1, <2>3 DEF ExportFits, WorkFits, NoFiles, FilesLanded
  <2>5. DeletionFits(e)'
    BY <2>1, <2>2, <2>3 DEF ExportsShape, Export!Working, ExportFits, WorkFits, DeletionFits, NoFiles
  <2>6. Promised(e)'
    BY <2>1, <2>2, <2>3 DEF ExportsShape, Export!Finished, ExportFits, WorkFits, DeletionFits,
       Promised, Untouched, FilesLanded, Export!Agree
  <2> QED BY <2>4, <2>5, <2>6 DEF ExportFits
<1> QED BY <1>1, <1>2 DEF ExportsInv

\* The exports (`run_export_job`, `delete_export`), whatever comes beside the work and
\* wherever it is killed: one that reads ready has its file, whole, its sidecar and its line
\* in the manifest; a finished job says what its export says; one deleted when its work was
\* over has neither file nor a row that offers one.
THEOREM ExportsSoundAlways ==
  ASSUME ExportsAssumption PROVE Export!Spec => []ExportsSound
<1>1. Export!Init => ExportsInv BY ExportsStart
<1>2. ExportsInv /\ [Export!Next]_Export!vars => ExportsInv'
  <2>1. ASSUME ExportsInv, UNCHANGED Export!vars PROVE ExportsInv'
    BY <2>1 DEF Export!vars, ExportsInv, ExportsShape, ExportFits, WorkFits, DeletionFits,
       Promised, Untouched, FilesLanded, NoFiles, Export!Agree
  <2> QED BY <2>1, WorkStep, RowSteps, DeleteStep, ScreenStep, KilledStep
          DEF Export!Next, Export!RunExport
<1>3. ExportsInv => Export!ExportsSound
  <2> SUFFICES ASSUME ExportsInv PROVE Export!ExportsSound OBVIOUS
  <2>1. Export!TypeOK
    BY DEF ExportsInv, ExportsShape, ExportRows, ExportFits, DeletionFits, Export!TypeOK
  <2>2. Export!ReadyIsWhole /\ Export!SidecarHasItsFile /\ Export!LedgersAgree
    BY DEF ExportsInv, ExportsShape, ExportRows, ExportFits, DeletionFits, Promised, Untouched,
       FilesLanded, Export!ReadyIsWhole, Export!SidecarHasItsFile, Export!LedgersAgree,
       Export!Downloadable, Export!Agree, Export!Finished
  <2>3. Export!DeletedStaysDeleted
    <3> SUFFICES ASSUME NEW e \in answered, "early" \notin mishaps[e]
                 PROVE  /\ row[e].status = "deleted"
                        /\ "stranded" \notin mishaps[e] => NoFiles(e)
      BY DEF Export!DeletedStaysDeleted, NoFiles
    <3>1. e \in Exports /\ ExportFits(e) BY DEF ExportsInv, ExportsShape
    <3> QED BY <3>1 DEF ExportFits, DeletionFits
  <2> QED BY <2>1, <2>2, <2>3 DEF Export!ExportsSound
<1> QED BY <1>1, <1>2, <1>3, PTL DEF Export!Spec, ExportsSound

-----------------------------------------------------------------------------
(* The market database. *)

Busy(m) == work[m].step # "idle"
Rewriting == {"quiet", "built", "attached", "copied", "closed", "moved", "swapped", "copying",
              "restart"}

\* Maintenance is asked for when none is under way and the last one, whatever failed in it,
\* left what was acknowledged at market.duckdb.
AllAtLive == Acked \subseteq Held(path.live)
OneByOne ==
  \A m \in Maintainers : Request(m) => AllAtLive /\ \A n \in Maintainers : ~Busy(n)

DuckRows == [running : BOOLEAN, queue : Nat, task : Nat, cursor : Nat]
LoopRows == [owner : Nat, queue : Seq(Writers \cup {"end"}), op : Writers \cup {"none"},
             cursor : Nat, done : BOOLEAN]
WorkRows == [step : Steps, kind : {"optimise", "backup"}, on : Nat]
Writes == SUBSET (Writers \X (1 .. MaxWrites))

\* A queue: nobody is in it twice, and the sentinel is its end.
QueueFits(q) ==
  /\ \A i, j \in 1 .. Len(q) : q[i] = q[j] => i = j
  /\ \A i \in 1 .. Len(q) : q[i] = "end" => i = Len(q)

\* A writer task, the l-th of so many, when the writers stand where `where` says: who is in
\* its queue or its transaction waits, and it is the last one started or it has ended.
LoopFits(loop, l, n, where) ==
  /\ QueueFits(loop.queue)
  /\ loop.done => loop.queue = <<>> /\ loop.op = "none"
  /\ ~loop.done => l = n
  /\ \A i \in 1 .. Len(loop.queue) :
       loop.queue[i] # "end" => where[loop.queue[i]] = "waiting" /\ loop.queue[i] # loop.op
  /\ loop.op # "none" => where[loop.op] = "waiting"

\* The d-th writer object: one that runs is the one handed out, on the last task, which
\* nobody has stopped.
DuckFits(writer, d, of, tasks) ==
  writer.running =>
    /\ of = d /\ writer.queue = Len(tasks) /\ writer.task = Len(tasks) /\ Len(tasks) # 0
    /\ tasks[Len(tasks)].owner = d /\ ~tasks[Len(tasks)].done
    /\ \A i \in 1 .. Len(tasks[Len(tasks)].queue) : tasks[Len(tasks)].queue[i] # "end"

WriterShape ==
  /\ duck \in Seq(DuckRows) /\ handle \in 0 .. Len(duck)
  /\ loops \in Seq(LoopRows)
  /\ at \in [Writers -> {"idle", "begun", "waiting"}]
  /\ held \in [Writers -> 0 .. Len(duck)] /\ acked \in [Writers -> 0 .. MaxWrites]
  /\ \A d \in 1 .. Len(duck) : /\ duck[d].queue <= Len(loops) /\ duck[d].task <= Len(loops)
                               /\ duck[d].cursor <= Len(opens)
  /\ \A l \in 1 .. Len(loops) : /\ loops[l].owner \in 1 .. Len(duck)
                                /\ loops[l].cursor <= Len(opens)

CallersFit ==
  \A w \in Writers : /\ at[w] # "idle" => acked[w] < MaxWrites
                     /\ at[w] = "begun" => held[w] # 0

Stopped == \A d \in 1 .. Len(duck) : ~duck[d].running
Ended == \A l \in 1 .. Len(loops) : loops[l].done

\* A task that has not ended belongs to a writer object that runs, or is being waited for.
TasksOwned ==
  \/ \E m \in Maintainers : work[m].step = "draining"
  \/ \A l \in 1 .. Len(loops) : ~loops[l].done => duck[loops[l].owner].running

\* Who drains waits for the last task; who rewrites has the writer at rest.
AtRest(m) ==
  /\ work[m].step = "draining" => Stopped /\ work[m].on = Len(loops) /\ Len(loops) # 0
  /\ work[m].step \in Rewriting => Stopped /\ Ended

WriterInv ==
  /\ WriterShape /\ CallersFit /\ TasksOwned
  /\ \A l \in 1 .. Len(loops) : LoopFits(loops[l], l, Len(loops), at)
  /\ \A d \in 1 .. Len(duck) : DuckFits(duck[d], d, handle, loops)
  /\ \A m \in Maintainers : AtRest(m)

FilesShape ==
  /\ disk \in Seq(Writes)
  /\ path \in [{"live", "compact", "before"} -> 0 .. Len(disk)]
  /\ opens \in Seq(Nat) /\ \A c \in 1 .. Len(opens) : opens[c] \in 1 .. Len(disk)
  /\ con \in 0 .. Len(opens)
  /\ attached \in 0 .. Len(disk) /\ (attached # 0 => con # 0)

\* What each step of an operation leaves in the files.
FilesFit(m) ==
  /\ work[m].step \in {"accepted", "draining", "quiet", "copying"} => AllAtLive
  /\ work[m].step \in {"built", "attached", "copied"} =>
       con # 0 /\ work[m].on = con /\ path.compact # 0
  /\ work[m].step \in {"built", "attached", "copied", "closed"} => Acked \subseteq Held(path.live)
  /\ work[m].step \in {"attached", "copied"} => attached = path.compact
  /\ work[m].step \in {"copied", "closed", "moved"} =>
       path.compact # 0 /\ Acked \subseteq Held(path.compact)
  /\ work[m].step \in {"closed", "moved", "swapped", "copying"} => con = 0
  /\ work[m].step = "moved" => path.before # 0

FilesInv ==
  /\ FilesShape /\ AckedIsDurable
  /\ con # 0 => opens[con] = path.live
  /\ \A m \in Maintainers : FilesFit(m)

WorkInv ==
  /\ work \in [Maintainers -> WorkRows] /\ paused \in BOOLEAN
  /\ runs \in 0 .. MaxRuns /\ faults \in 0 .. MaxFaults /\ crashes \in 0 .. MaxCrashes
  /\ \A m, n \in Maintainers : Busy(m) /\ Busy(n) => m = n
  /\ runs = 0 => path.compact = 0 /\ \A m \in Maintainers : ~Busy(m)

StoreInv == WriterInv /\ FilesInv /\ WorkInv

LEMMA SizeOfInterval == \A n \in Nat : Cardinality(1 .. n) = n
<1>1. \A a, b \in Int : Cardinality(a .. b) = IF a > b THEN 0 ELSE b - a + 1
  BY ONLY FS_Interval, Zenon
<1> QED BY ONLY <1>1

\* A queue holds nobody twice, so there is room for every writer and the sentinel.
LEMMA QueueShort ==
  ASSUME NEW q \in Seq(Writers \cup {"end"}), QueueFits(q)
  PROVE  Len(q) <= QueueSize
<1>1. IsFiniteSet(Writers) /\ Cardinality(Writers) < QueueSize /\ QueueSize \in Nat
      /\ "end" \notin Writers
  BY StoreAssumption
<1>2. IsFiniteSet(Writers \cup {"end"})
      /\ Cardinality(Writers \cup {"end"}) = Cardinality(Writers) + 1
  BY <1>1, FS_AddElement
<1>3. q \in Injection(1 .. Len(q), Writers \cup {"end"})
  <2>1. q \in [1 .. Len(q) -> Writers \cup {"end"}] OBVIOUS
  <2>2. \A i, j \in 1 .. Len(q) : q[i] = q[j] => i = j BY DEF QueueFits
  <2> QED BY <2>1, <2>2 DEF Injection, IsInjective
<1>4. Cardinality(1 .. Len(q)) <= Cardinality(Writers \cup {"end"})
  BY <1>2, <1>3, FS_Injection
<1>5. Cardinality(1 .. Len(q)) = Len(q)
  <2>1. Len(q) \in Nat OBVIOUS
  <2> QED BY <2>1, SizeOfInterval
<1>6. Cardinality(Writers) \in Nat BY <1>1, FS_CardinalityType
<1> QED BY <1>1, <1>2, <1>4, <1>5, <1>6

\* Who joins a queue nobody has stopped is its new end.
LEMMA QueueGrows ==
  ASSUME NEW q \in Seq(Writers \cup {"end"}), QueueFits(q), NEW e \in Writers \cup {"end"},
         \A i \in 1 .. Len(q) : q[i] # "end" /\ q[i] # e
  PROVE  /\ Append(q, e) \in Seq(Writers \cup {"end"}) /\ QueueFits(Append(q, e))
         /\ Len(Append(q, e)) = Len(q) + 1 /\ Append(q, e)[Len(q) + 1] = e
         /\ \A i \in 1 .. Len(q) : Append(q, e)[i] = q[i]
<1>1. /\ Append(q, e) \in Seq(Writers \cup {"end"}) /\ Len(Append(q, e)) = Len(q) + 1
      /\ \A i \in 1 .. Len(q) : Append(q, e)[i] = q[i]
      /\ Append(q, e)[Len(q) + 1] = e
  BY AppendProperties
<1> DEFINE p == Append(q, e)
<1> HIDE DEF p
<1>2. Len(q) \in Nat OBVIOUS
<1>3. /\ Len(p) = Len(q) + 1 /\ p[Len(q) + 1] = e /\ \A i \in 1 .. Len(q) : p[i] = q[i]
  BY <1>1 DEF p
<1>4. \A i \in 1 .. Len(p) : i \in 1 .. Len(q) \/ i = Len(q) + 1 BY <1>2, <1>3
<1>5. QueueFits(p)
  <2>1. \A i, j \in 1 .. Len(p) : p[i] = p[j] => i = j BY <1>3, <1>4 DEF QueueFits
  <2>2. \A i \in 1 .. Len(p) : p[i] = "end" => i = Len(p) BY <1>3, <1>4
  <2> QED BY <2>1, <2>2 DEF QueueFits
<1> QED BY <1>1, <1>5 DEF p

\* Who leaves a queue first is not in it any more, and nobody stands behind the sentinel.
LEMMA QueueShrinks ==
  ASSUME NEW q \in Seq(Writers \cup {"end"}), QueueFits(q), q # <<>>
  PROVE  /\ Head(q) = q[1] /\ Head(q) \in Writers \cup {"end"} /\ Len(q) # 0
         /\ Tail(q) \in Seq(Writers \cup {"end"}) /\ QueueFits(Tail(q))
         /\ Len(Tail(q)) = Len(q) - 1
         /\ \A i \in 1 .. Len(Tail(q)) : Tail(q)[i] = q[i + 1] /\ i + 1 \in 1 .. Len(q)
                                         /\ Tail(q)[i] # Head(q)
         /\ Head(q) = "end" => Tail(q) = <<>>
<1>1. /\ Head(q) \in Writers \cup {"end"} /\ Tail(q) \in Seq(Writers \cup {"end"})
      /\ Len(Tail(q)) = Len(q) - 1
      /\ \A i \in 1 .. Len(Tail(q)) : Tail(q)[i] = q[i + 1]
  BY HeadTailProperties
<1> DEFINE p == Tail(q)
<1>2. Head(q) = q[1] /\ Len(q) \in Nat /\ Len(q) # 0 OBVIOUS
<1> HIDE DEF p
<1>3. Len(p) = Len(q) - 1 /\ \A i \in 1 .. Len(p) : p[i] = q[i + 1] /\ i + 1 \in 1 .. Len(q)
  BY <1>1, <1>2 DEF p
<1>4. QueueFits(p)
  <2>1. \A i, j \in 1 .. Len(p) : p[i] = p[j] => i = j
    <3>1. SUFFICES ASSUME NEW i \in 1 .. Len(p), NEW j \in 1 .. Len(p), p[i] = p[j] PROVE i = j
      OBVIOUS
    <3>2. q[i + 1] = q[j + 1] /\ i + 1 \in 1 .. Len(q) /\ j + 1 \in 1 .. Len(q)
      BY <1>3, <3>1
    <3>3. i + 1 = j + 1 BY <3>2 DEF QueueFits
    <3> QED BY <3>3
  <2>2. \A i \in 1 .. Len(p) : p[i] = "end" => i = Len(p)
    <3>1. SUFFICES ASSUME NEW i \in 1 .. Len(p), p[i] = "end" PROVE i = Len(p) OBVIOUS
    <3>2. q[i + 1] = "end" /\ i + 1 \in 1 .. Len(q) BY <1>3, <3>1
    <3>3. i + 1 = Len(q) BY <3>2 DEF QueueFits
    <3> QED BY <1>2, <1>3, <3>3
  <2> QED BY <2>1, <2>2 DEF QueueFits
<1>5. \A i \in 1 .. Len(p) : p[i] # Head(q)
  <2>1. SUFFICES ASSUME NEW i \in 1 .. Len(p), p[i] = q[1] PROVE FALSE BY <1>2
  <2>2. q[i + 1] = q[1] /\ i + 1 \in 1 .. Len(q) /\ 1 \in 1 .. Len(q) BY <1>2, <1>3, <2>1
  <2>3. i + 1 = 1 BY <2>2 DEF QueueFits
  <2> QED BY <2>3
<1>6. Head(q) = "end" => p = <<>>
  <2>1. SUFFICES ASSUME q[1] = "end" PROVE p = <<>> BY <1>2
  <2>2. 1 \in 1 .. Len(q) BY <1>2
  <2>3. 1 = Len(q) BY <2>1, <2>2 DEF QueueFits
  <2>4. Len(p) = 0
    <3>1. Len(p) = Len(q) - 1 BY <1>3
    <3> HIDE DEF p
    <3> QED BY <2>3, <3>1
  <2>5. p \in Seq(Writers \cup {"end"}) BY <1>1 DEF p
  <2> QED BY <2>4, <2>5, EmptySeq
<1>7. QueueFits(Tail(q)) /\ (Head(q) = "end" => Tail(q) = <<>>)
      /\ \A i \in 1 .. Len(Tail(q)) : Tail(q)[i] = q[i + 1] /\ i + 1 \in 1 .. Len(q)
                                      /\ Tail(q)[i] # Head(q)
  BY <1>3, <1>4, <1>5, <1>6 DEF p
<1> QED BY <1>1, <1>2, <1>7

\* A writer task stays well while nobody in it stops waiting.
LEMMA LoopStays ==
  ASSUME NEW loop \in LoopRows, NEW l, NEW n, NEW where, NEW there,
         LoopFits(loop, l, n, where),
         \A w \in Writers : w = loop.op \/ (\E i \in 1 .. Len(loop.queue) : loop.queue[i] = w)
           => (where[w] = "waiting" => there[w] = "waiting")
  PROVE  LoopFits(loop, l, n, there)
<1>1. loop.op \in Writers \cup {"none"} /\ loop.queue \in Seq(Writers \cup {"end"})
  BY DEF LoopRows
<1>2. \A i \in 1 .. Len(loop.queue) : loop.queue[i] \in Writers \cup {"end"} BY <1>1
<1> QED BY <1>1, <1>2 DEF LoopFits

\* The writer object handed out is the one in use, or a new one that does not run.
LEMMA HandedOut ==
  ASSUME WriterShape
  PROVE  /\ TheDuck \in Seq(DuckRows) /\ TheHandle \in 1 .. Len(TheDuck)
         /\ Len(duck) <= Len(TheDuck)
         /\ \A d \in 1 .. Len(duck) : TheDuck[d] = duck[d]
         /\ \A d \in 1 .. Len(TheDuck) : d \notin 1 .. Len(duck) =>
              TheDuck[d] = NewWriter /\ handle = 0
         /\ handle # 0 => TheHandle = handle /\ TheDuck = duck
<1>1. duck \in Seq(DuckRows) /\ handle \in 0 .. Len(duck) /\ Len(duck) \in Nat
  BY DEF WriterShape
<1>2. NewWriter \in DuckRows BY DEF NewWriter, DuckRows
<1>3. CASE handle # 0
  <2>1. TheDuck = duck /\ TheHandle = handle BY <1>3 DEF TheDuck, TheHandle
  <2> QED BY <1>1, <1>3, <2>1
<1>4. CASE handle = 0
  <2>1. TheDuck = Append(duck, NewWriter) /\ TheHandle = Len(duck) + 1
    BY <1>4 DEF TheDuck, TheHandle
  <2>2. /\ TheDuck \in Seq(DuckRows) /\ Len(TheDuck) = Len(duck) + 1
        /\ \A d \in 1 .. Len(duck) : TheDuck[d] = duck[d]
        /\ TheDuck[Len(duck) + 1] = NewWriter
    BY <1>1, <1>2, <2>1, AppendProperties
  <2>3. \A d \in 1 .. Len(TheDuck) : d \notin 1 .. Len(duck) => d = Len(duck) + 1
    BY <1>1, <2>2
  <2> QED BY <1>1, <1>4, <2>1, <2>2, <2>3
<1> QED BY <1>3, <1>4

\* Handing the writer object out, made on first use, disturbs no task and stops or starts none.
LEMMA HandingOut ==
  ASSUME WriterInv, duck' = TheDuck, handle' = TheHandle, loops' = loops, opens' = opens,
         acked' = acked, at' \in [Writers -> {"idle", "begun", "waiting"}],
         held' \in [Writers -> 0 .. Len(TheDuck)],
         \A w \in Writers : at[w] = "waiting" => at'[w] = "waiting"
  PROVE  /\ WriterShape'
         /\ \A l \in 1 .. Len(loops') : LoopFits(loops'[l], l, Len(loops'), at')
         /\ \A d \in 1 .. Len(duck') : DuckFits(duck'[d], d, handle', loops')
         /\ Stopped <=> Stopped'
         /\ \A l \in 1 .. Len(loops) :
              duck'[loops[l].owner].running = duck[loops[l].owner].running
<1>1. /\ TheDuck \in Seq(DuckRows) /\ TheHandle \in 1 .. Len(TheDuck)
      /\ Len(duck) <= Len(TheDuck)
      /\ \A d \in 1 .. Len(duck) : TheDuck[d] = duck[d]
      /\ \A d \in 1 .. Len(TheDuck) : d \notin 1 .. Len(duck) =>
           TheDuck[d] = NewWriter /\ handle = 0
      /\ handle # 0 => TheHandle = handle /\ TheDuck = duck
  BY HandedOut DEF WriterInv
<1>2. /\ duck \in Seq(DuckRows) /\ handle \in 0 .. Len(duck) /\ loops \in Seq(LoopRows)
      /\ acked \in [Writers -> 0 .. MaxWrites]
      /\ \A d \in 1 .. Len(duck) : /\ duck[d].queue <= Len(loops) /\ duck[d].task <= Len(loops)
                                   /\ duck[d].cursor <= Len(opens)
      /\ \A l \in 1 .. Len(loops) : /\ loops[l].owner \in 1 .. Len(duck)
                                    /\ loops[l].cursor <= Len(opens)
      /\ Len(duck) \in Nat /\ Len(loops) \in Nat
      /\ \A l \in 1 .. Len(loops) : LoopFits(loops[l], l, Len(loops), at)
      /\ \A d \in 1 .. Len(duck) : DuckFits(duck[d], d, handle, loops)
  BY DEF WriterInv, WriterShape
<1> HIDE DEF TheDuck, TheHandle, DuckRows, LoopRows
<1>3. /\ NewWriter.running = FALSE /\ NewWriter.queue = 0 /\ NewWriter.task = 0
      /\ NewWriter.cursor = 0
  BY DEF NewWriter
<1>4. \A d \in 1 .. Len(TheDuck) :
        \/ TheDuck[d] = NewWriter /\ handle = 0
        \/ d \in 1 .. Len(duck) /\ TheDuck[d] = duck[d]
  BY <1>1
<1>5. WriterShape'
  <2>1. \A d \in 1 .. Len(duck') : /\ duck'[d].queue <= Len(loops')
                                   /\ duck'[d].task <= Len(loops')
                                   /\ duck'[d].cursor <= Len(opens')
    <3>1. SUFFICES ASSUME NEW d \in 1 .. Len(TheDuck)
                   PROVE  /\ TheDuck[d].queue <= Len(loops) /\ TheDuck[d].task <= Len(loops)
                          /\ TheDuck[d].cursor <= Len(opens)
      OBVIOUS
    <3>2. CASE d \in 1 .. Len(duck) /\ TheDuck[d] = duck[d] BY <1>2, <3>2
    <3>3. CASE TheDuck[d] = NewWriter
      <4>1. Len(opens) \in Nat
        <5>1. d \in 1 .. Len(TheDuck) /\ opens = opens OBVIOUS
        <5> QED BY <1>2
      <4> QED BY <1>2, <1>3, <3>3, <4>1
    <3> QED BY <1>4, <3>2, <3>3
  <2>2. \A l \in 1 .. Len(loops') : /\ loops'[l].owner \in 1 .. Len(duck')
                                    /\ loops'[l].cursor <= Len(opens')
    BY <1>1, <1>2
  <2>3. handle' \in 0 .. Len(duck') BY <1>1
  <2> QED BY <1>1, <1>2, <2>1, <2>2, <2>3 DEF WriterShape
<1>6. \A l \in 1 .. Len(loops') : LoopFits(loops'[l], l, Len(loops'), at')
  <2>1. SUFFICES ASSUME NEW l \in 1 .. Len(loops) PROVE LoopFits(loops[l], l, Len(loops), at')
    OBVIOUS
  <2>2. loops[l] \in LoopRows /\ LoopFits(loops[l], l, Len(loops), at) BY <1>2
  <2> QED BY <2>2, LoopStays
<1>7. \A d \in 1 .. Len(duck') : DuckFits(duck'[d], d, handle', loops')
  <2>1. SUFFICES ASSUME NEW d \in 1 .. Len(TheDuck)
                 PROVE  DuckFits(TheDuck[d], d, TheHandle, loops)
    OBVIOUS
  <2>2. CASE d \in 1 .. Len(duck) /\ TheDuck[d] = duck[d]
    <3>1. CASE handle # 0 BY <1>1, <1>2, <2>2, <3>1
    <3>2. CASE handle = 0 BY <1>2, <2>2, <3>2 DEF DuckFits
    <3> QED BY <3>1, <3>2
  <2>3. CASE TheDuck[d] = NewWriter BY <1>3, <2>3 DEF DuckFits
  <2> QED BY <1>4, <2>2, <2>3
<1>8. Stopped <=> Stopped'
  <2>1. Stopped' <=> \A d \in 1 .. Len(TheDuck) : ~TheDuck[d].running BY DEF Stopped
  <2>2. \A d \in 1 .. Len(duck) : d \in 1 .. Len(TheDuck) BY <1>1, <1>2
  <2> QED BY <1>1, <1>3, <1>4, <2>1, <2>2 DEF Stopped
<1>9. \A l \in 1 .. Len(loops) : duck'[loops[l].owner].running = duck[loops[l].owner].running
  BY <1>1, <1>2
<1> QED BY <1>5, <1>6, <1>7, <1>8, <1>9

\* A change to one task: no writer object is started or stopped by it.
LEMMA OneTaskMoves ==
  ASSUME WriterInv, NEW l \in 1 .. Len(loops), NEW e \in LoopRows,
         loops' = [loops EXCEPT ![l] = e], UNCHANGED <<duck, handle, work, opens>>,
         e.owner = loops[l].owner, e.cursor <= Len(opens), loops[l].done => e.done,
         LoopFits(e, l, Len(loops), at'),
         \A k \in 1 .. Len(loops) : k # l => LoopFits(loops[k], k, Len(loops), at'),
         \A d \in 1 .. Len(duck) : duck[d].running /\ l = Len(loops) =>
           ~e.done /\ \A i \in 1 .. Len(e.queue) : e.queue[i] # "end",
         at' \in [Writers -> {"idle", "begun", "waiting"}],
         held' \in [Writers -> 0 .. Len(duck)], acked' \in [Writers -> 0 .. MaxWrites],
         CallersFit'
  PROVE  WriterInv'
<1>1. /\ duck \in Seq(DuckRows) /\ handle \in 0 .. Len(duck) /\ loops \in Seq(LoopRows)
      /\ \A d \in 1 .. Len(duck) : /\ duck[d].queue <= Len(loops) /\ duck[d].task <= Len(loops)
                                   /\ duck[d].cursor <= Len(opens)
      /\ \A k \in 1 .. Len(loops) : /\ loops[k].owner \in 1 .. Len(duck)
                                    /\ loops[k].cursor <= Len(opens)
      /\ Len(duck) \in Nat /\ Len(loops) \in Nat
      /\ \A d \in 1 .. Len(duck) : DuckFits(duck[d], d, handle, loops)
      /\ TasksOwned /\ \A m \in Maintainers : AtRest(m)
  BY DEF WriterInv, WriterShape
<1> HIDE DEF DuckRows, LoopRows
<1>2. /\ loops' \in Seq(LoopRows) /\ Len(loops') = Len(loops)
      /\ \A k \in 1 .. Len(loops) : loops'[k] = IF k = l THEN e ELSE loops[k]
  BY <1>1, ExceptSeq
<1>3. duck' = duck /\ handle' = handle /\ work' = work /\ opens' = opens OBVIOUS
<1>4. WriterShape'
  <2>1. \A k \in 1 .. Len(loops') : /\ loops'[k].owner \in 1 .. Len(duck)
                                    /\ loops'[k].cursor <= Len(opens)
    BY <1>1, <1>2
  <2> QED BY <1>1, <1>2, <1>3, <2>1 DEF WriterShape
<1>5. \A k \in 1 .. Len(loops') : LoopFits(loops'[k], k, Len(loops'), at') BY <1>2
<1>6. \A d \in 1 .. Len(duck') : DuckFits(duck'[d], d, handle', loops')
  <2>1. SUFFICES ASSUME NEW d \in 1 .. Len(duck), duck[d].running
                 PROVE  DuckFits(duck[d], d, handle, loops')
    BY <1>3 DEF DuckFits
  <2> DEFINE N == Len(loops)
             top == loops'[N]
  <2>2. /\ handle = d /\ duck[d].queue = N /\ duck[d].task = N /\ N # 0
        /\ loops[N].owner = d /\ ~loops[N].done
        /\ \A i \in 1 .. Len(loops[N].queue) : loops[N].queue[i] # "end"
    BY <1>1, <2>1 DEF DuckFits
  <2>3. N \in 1 .. N
    <3>1. N \in Nat BY <1>1
    <3> HIDE DEF N
    <3> QED BY <2>2, <3>1
  <2>4. top = IF N = l THEN e ELSE loops[N] BY <1>2, <2>3
  <2>5. e.owner = loops[l].owner OBVIOUS
  <2>6. N = l => ~e.done /\ \A i \in 1 .. Len(e.queue) : e.queue[i] # "end" BY <2>1
  <2>7. Len(loops') = N BY <1>2, Zenon
  <2> HIDE DEF N
  <2>8. /\ top.owner = d /\ ~top.done
        /\ \A i \in 1 .. Len(top.queue) : top.queue[i] # "end"
    <3> HIDE DEF top
    <3>1. CASE N = l BY <2>2, <2>4, <2>5, <2>6, <3>1
    <3>2. CASE N # l BY <2>2, <2>4, <3>2
    <3> QED BY <3>1, <3>2
  <2> QED BY <2>2, <2>7, <2>8 DEF DuckFits
<1>7. TasksOwned'
  <2>1. CASE \E m \in Maintainers : work[m].step = "draining" BY <1>3, <2>1 DEF TasksOwned
  <2>2. CASE \A k \in 1 .. Len(loops) : ~loops[k].done => duck[loops[k].owner].running
    <3>1. ASSUME NEW k \in 1 .. Len(loops'), ~loops'[k].done
          PROVE  duck'[loops'[k].owner].running
      <4>1. k \in 1 .. Len(loops) /\ loops'[k].owner = loops[k].owner /\ ~loops[k].done
        BY <1>2, <3>1
      <4> QED BY <1>3, <2>2, <4>1
    <3> QED BY <3>1 DEF TasksOwned
  <2> QED BY <1>1, <2>1, <2>2 DEF TasksOwned
<1>8. \A m \in Maintainers : AtRest(m)'
  <2>1. Stopped => Stopped' BY <1>3 DEF Stopped
  <2>2. Ended => Ended' BY <1>2 DEF Ended
  <2> QED BY <1>1, <1>2, <1>3, <2>1, <2>2 DEF AtRest
<1> QED BY <1>4, <1>5, <1>6, <1>7, <1>8 DEF WriterInv

\* A step of an operation on the files: the store may forget its writer, which is at rest.
LEMMA OnlyFilesMove ==
  ASSUME WriterInv, UNCHANGED <<duck, loops, at, held, acked>>, handle' \in {handle, 0},
         handle' # handle => Stopped, Len(opens) \in Nat, Len(opens') \in Nat,
         Len(opens) <= Len(opens'),
         \A m \in Maintainers :
           \/ work'[m] = work[m]
           \/ work[m].step \in Rewriting /\ work'[m].step \in Rewriting \cup {"idle"}
  PROVE  WriterInv'
<1>1. duck' = duck /\ loops' = loops /\ at' = at /\ held' = held /\ acked' = acked OBVIOUS
<1>2. WriterShape'
  <2>1. /\ duck \in Seq(DuckRows) /\ handle \in 0 .. Len(duck) /\ loops \in Seq(LoopRows)
        /\ \A d \in 1 .. Len(duck) : duck[d].cursor <= Len(opens) /\ duck[d] \in DuckRows
        /\ \A k \in 1 .. Len(loops) : loops[k].cursor <= Len(opens) /\ loops[k] \in LoopRows
    BY DEF WriterInv, WriterShape
  <2>2. /\ \A d \in 1 .. Len(duck) : duck[d].cursor <= Len(opens')
        /\ \A k \in 1 .. Len(loops) : loops[k].cursor <= Len(opens')
    <3>1. \A d \in 1 .. Len(duck) : duck[d].cursor \in Nat BY <2>1 DEF DuckRows
    <3>2. \A k \in 1 .. Len(loops) : loops[k].cursor \in Nat BY <2>1 DEF LoopRows
    <3> QED BY <2>1, <3>1, <3>2
  <2>3. handle' \in 0 .. Len(duck) BY <2>1
  <2> QED BY <1>1, <2>2, <2>3 DEF WriterInv, WriterShape
<1>3. Stopped' = Stopped /\ Ended' = Ended BY <1>1 DEF Stopped, Ended
<1>4. \A d \in 1 .. Len(duck') : DuckFits(duck'[d], d, handle', loops')
  <2>1. CASE handle' = handle BY <1>1, <2>1 DEF WriterInv
  <2>2. CASE handle' # handle BY <1>1, <2>2 DEF Stopped, DuckFits
  <2> QED BY <2>1, <2>2
<1>5. \A m \in Maintainers : AtRest(m)'
  <2>1. SUFFICES ASSUME NEW m \in Maintainers PROVE AtRest(m)' OBVIOUS
  <2>2. CASE work'[m] = work[m] BY <1>1, <1>3, <2>2 DEF WriterInv, AtRest
  <2>3. CASE work[m].step \in Rewriting /\ work'[m].step \in Rewriting \cup {"idle"}
    <3>1. Stopped /\ Ended BY <2>3 DEF WriterInv, AtRest
    <3>2. work'[m].step # "draining" BY <2>3 DEF Rewriting
    <3> QED BY <1>3, <3>1, <3>2 DEF AtRest
  <2> QED BY <2>2, <2>3
<1>6. TasksOwned'
  <2>1. CASE \E m \in Maintainers : work[m].step = "draining"
    <3>1. PICK m \in Maintainers : work[m].step = "draining" BY <2>1
    <3>2. work'[m] = work[m] BY <3>1 DEF Rewriting
    <3> QED BY <3>1, <3>2 DEF TasksOwned
  <2>2. CASE \A l \in 1 .. Len(loops) : ~loops[l].done => duck[loops[l].owner].running
    BY <1>1, <2>2 DEF TasksOwned
  <2> QED BY <2>1, <2>2 DEF WriterInv, TasksOwned
<1>7. CallersFit' BY <1>1 DEF WriterInv, CallersFit
<1>8. \A l \in 1 .. Len(loops') : LoopFits(loops'[l], l, Len(loops'), at')
  BY <1>1 DEF WriterInv
<1> QED BY <1>2, <1>4, <1>5, <1>6, <1>7, <1>8 DEF WriterInv

\* A caller picks up the writer object.
LEMMA BeginKeepsWriter ==
  ASSUME WriterInv, NEW w \in Writers, Begin(w) PROVE WriterInv'
<1>1. /\ at[w] = "idle" /\ acked[w] < MaxWrites /\ duck' = TheDuck /\ handle' = TheHandle
      /\ held' = [held EXCEPT ![w] = TheHandle] /\ at' = [at EXCEPT ![w] = "begun"]
      /\ opens' = opens /\ loops' = loops /\ acked' = acked /\ work' = work
  BY DEF Begin, store
<1>2. /\ TheDuck \in Seq(DuckRows) /\ TheHandle \in 1 .. Len(TheDuck)
      /\ Len(duck) <= Len(TheDuck)
      /\ \A d \in 1 .. Len(duck) : TheDuck[d] = duck[d]
      /\ \A d \in 1 .. Len(TheDuck) : d \notin 1 .. Len(duck) =>
           TheDuck[d] = NewWriter /\ handle = 0
      /\ handle # 0 => TheHandle = handle /\ TheDuck = duck
  BY HandedOut DEF WriterInv
<1>3. /\ at \in [Writers -> {"idle", "begun", "waiting"}]
      /\ held \in [Writers -> 0 .. Len(duck)] /\ Len(duck) \in Nat /\ Len(loops) \in Nat
      /\ \A v \in Writers : /\ at[v] # "idle" => acked[v] < MaxWrites
                            /\ at[v] = "begun" => held[v] # 0
  BY DEF WriterInv, WriterShape, CallersFit
<1> HIDE DEF TheDuck, TheHandle, DuckRows
<1>4. Len(TheDuck) \in Nat BY <1>2
<1>5. at' \in [Writers -> {"idle", "begun", "waiting"}]
      /\ \A v \in Writers : at[v] = "waiting" => at'[v] = "waiting"
  BY <1>1, <1>3
<1>6. held' \in [Writers -> 0 .. Len(TheDuck)]
  <2>1. \A v \in Writers : held[v] \in 0 .. Len(TheDuck) BY <1>2, <1>3, <1>4
  <2>2. TheHandle \in 0 .. Len(TheDuck) BY <1>2, <1>4
  <2> QED BY <1>1, <1>3, <2>1, <2>2
<1>7. /\ WriterShape'
      /\ \A l \in 1 .. Len(loops') : LoopFits(loops'[l], l, Len(loops'), at')
      /\ \A d \in 1 .. Len(duck') : DuckFits(duck'[d], d, handle', loops')
      /\ Stopped <=> Stopped'
      /\ \A l \in 1 .. Len(loops) :
           duck'[loops[l].owner].running = duck[loops[l].owner].running
  BY <1>1, <1>5, <1>6, HandingOut
<1>8. CallersFit'
  <2>1. TheHandle # 0 BY <1>2, <1>4
  <2>2. ASSUME NEW v \in Writers
        PROVE  (at'[v] # "idle" => acked[v] < MaxWrites) /\ (at'[v] = "begun" => held'[v] # 0)
    <3>1. CASE v = w BY <1>1, <1>3, <2>1, <3>1
    <3>2. CASE v # w BY <1>1, <1>3, <3>2
    <3> QED BY <3>1, <3>2
  <2> QED BY <1>1, <2>2 DEF CallersFit
<1>9. TasksOwned'
  <2>1. CASE \E m \in Maintainers : work[m].step = "draining"
    BY <1>1, <2>1 DEF TasksOwned
  <2>2. CASE \A l \in 1 .. Len(loops) : ~loops[l].done => duck[loops[l].owner].running
    <3>1. \A l \in 1 .. Len(loops) : ~loops[l].done => duck'[loops[l].owner].running
      BY <1>7, <2>2
    <3> QED BY <1>1, <3>1 DEF TasksOwned
  <2> QED BY <2>1, <2>2 DEF WriterInv, TasksOwned
<1>10. \A m \in Maintainers : AtRest(m)'
  BY <1>1, <1>7 DEF WriterInv, AtRest, Ended
<1> QED BY <1>7, <1>8, <1>9, <1>10 DEF WriterInv

\* A submit joins the queue of the task that runs, or is refused.
LEMMA SubmitKeepsWriter ==
  ASSUME WriterInv, NEW w \in Writers, Submit(w) PROVE WriterInv'
<1> DEFINE d == held[w]
           n == Len(loops)
<1>1. /\ at[w] = "begun" /\ held' = [held EXCEPT ![w] = 0]
      /\ duck' = duck /\ handle' = handle /\ opens' = opens /\ acked' = acked /\ work' = work
      /\ IF duck[d].running /\ duck[d].queue # 0
           THEN /\ at' = [at EXCEPT ![w] = "waiting"]
                /\ loops' = [loops EXCEPT ![duck[d].queue].queue = Append(@, w)]
           ELSE at' = [at EXCEPT ![w] = "idle"] /\ UNCHANGED loops
  BY DEF Submit, store
<1>2. /\ at \in [Writers -> {"idle", "begun", "waiting"}] /\ d \in 1 .. Len(duck)
      /\ held \in [Writers -> 0 .. Len(duck)] /\ acked \in [Writers -> 0 .. MaxWrites]
      /\ loops \in Seq(LoopRows) /\ Len(duck) \in Nat /\ n \in Nat
      /\ \A v \in Writers : /\ at[v] # "idle" => acked[v] < MaxWrites
                            /\ at[v] = "begun" => held[v] # 0
      /\ \A l \in 1 .. n : LoopFits(loops[l], l, n, at) /\ loops[l] \in LoopRows
                           /\ loops[l].cursor <= Len(opens)
      /\ DuckFits(duck[d], d, handle, loops)
  <2>1. /\ at \in [Writers -> {"idle", "begun", "waiting"}]
        /\ held \in [Writers -> 0 .. Len(duck)] /\ acked \in [Writers -> 0 .. MaxWrites]
        /\ loops \in Seq(LoopRows) /\ Len(duck) \in Nat /\ n \in Nat
        /\ \A v \in Writers : /\ at[v] # "idle" => acked[v] < MaxWrites
                              /\ at[v] = "begun" => held[v] # 0
        /\ \A l \in 1 .. n : LoopFits(loops[l], l, n, at) /\ loops[l].cursor <= Len(opens)
        /\ \A k \in 1 .. Len(duck) : DuckFits(duck[k], k, handle, loops)
    BY DEF WriterInv, WriterShape, CallersFit
  <2>2. d \in 1 .. Len(duck) BY <1>1, <2>1
  <2> QED BY <2>1, <2>2
<1>3. /\ held' \in [Writers -> 0 .. Len(duck)]
      /\ \A v \in Writers : v # w => held'[v] = held[v] /\ at'[v] = at[v]
      /\ at' \in [Writers -> {"idle", "begun", "waiting"}] /\ at'[w] # "begun"
  <2>1. held' \in [Writers -> 0 .. Len(duck)] /\ \A v \in Writers : v # w => held'[v] = held[v]
    <3> DEFINE range == 0 .. Len(duck)
    <3>1. 0 \in range BY <1>2
    <3> HIDE DEF range
    <3>2. held \in [Writers -> range] BY <1>2 DEF range
    <3>3. held' \in [Writers -> range] /\ \A v \in Writers : v # w => held'[v] = held[v]
      BY <1>1, <3>1, <3>2
    <3> QED BY <3>3 DEF range
  <2>2. \E place \in {"idle", "waiting"} : at' = [at EXCEPT ![w] = place] BY <1>1
  <2> QED BY <1>2, <2>1, <2>2
<1>4. CallersFit' BY <1>1, <1>2, <1>3 DEF CallersFit
<1>5. CASE duck[d].running /\ duck[d].queue # 0
  <2> DEFINE q == loops[n].queue
             e == [loops[n] EXCEPT !.queue = Append(q, w)]
  <2>1. /\ duck[d].queue = n /\ ~loops[n].done /\ n \in 1 .. n
        /\ \A i \in 1 .. Len(q) : q[i] # "end"
    BY <1>2, <1>5 DEF DuckFits
  <2>2. loops[n] \in LoopRows /\ LoopFits(loops[n], n, n, at) BY <1>2, <2>1
  <2>3. q \in Seq(Writers \cup {"end"}) /\ QueueFits(q) /\ loops[n].op \in Writers \cup {"none"}
    BY <2>2 DEF LoopFits, LoopRows
  <2>4. \A i \in 1 .. Len(q) : q[i] # w BY <1>1, <2>1, <2>2 DEF LoopFits
  <2>5. /\ Append(q, w) \in Seq(Writers \cup {"end"}) /\ QueueFits(Append(q, w))
        /\ Len(Append(q, w)) = Len(q) + 1 /\ Append(q, w)[Len(q) + 1] = w
        /\ \A i \in 1 .. Len(q) : Append(q, w)[i] = q[i]
    BY <2>1, <2>3, <2>4, QueueGrows
  <2>6. /\ e \in LoopRows /\ e.queue = Append(q, w) /\ e.owner = loops[n].owner
        /\ e.cursor = loops[n].cursor /\ e.op = loops[n].op /\ e.done = loops[n].done
    BY <2>2, <2>5 DEF LoopRows
  <2>7. loops' = [loops EXCEPT ![n] = e] BY <1>1, <1>5, <2>1
  <2>8. at'[w] = "waiting" /\ \A v \in Writers : at[v] = "waiting" => at'[v] = "waiting"
    BY <1>1, <1>2, <1>3, <1>5
  <2> DEFINE p == Append(q, w)
  <2>9. \A i \in 1 .. Len(p) : i \in 1 .. Len(q) \/ p[i] = w
    <3>1. Len(q) \in Nat BY <2>3
    <3> HIDE DEF q
    <3> QED BY <2>5, <3>1
  <2>10. loops[n].op # w
    <3>1. w # "none" BY StoreAssumption
    <3> QED BY <1>1, <2>2, <3>1 DEF LoopFits
  <2>11. "end" \notin Writers BY StoreAssumption
  <2>12. \A i \in 1 .. Len(q) : q[i] \in Writers /\ at[q[i]] = "waiting" /\ q[i] # loops[n].op
    BY <2>1, <2>2, <2>3 DEF LoopFits
  <2>13. loops[n].op # "none" => at[loops[n].op] = "waiting" BY <2>2 DEF LoopFits
  <2> HIDE DEF e, q, p
  <2>14. \A i \in 1 .. Len(p) : p[i] # "end" /\ at'[p[i]] = "waiting" /\ p[i] # loops[n].op
    BY <2>5, <2>8, <2>9, <2>10, <2>11, <2>12 DEF p
  <2>15. LoopFits(e, n, n, at')
    BY <2>1, <2>3, <2>5, <2>6, <2>8, <2>13, <2>14 DEF LoopFits, p
  <2>16. \A k \in 1 .. n : k # n => LoopFits(loops[k], k, n, at')
    BY <1>2, <2>8, LoopStays
  <2>17. e.cursor <= Len(opens) BY <1>2, <2>1, <2>6
  <2>18. \A i \in 1 .. Len(e.queue) : e.queue[i] # "end" BY <2>6, <2>14 DEF p
  <2>19. acked' \in [Writers -> 0 .. MaxWrites] BY <1>1, <1>2
  <2> HIDE DEF n
  <2> QED
    BY <1>1, <1>3, <1>4, <2>1, <2>6, <2>7, <2>15, <2>16, <2>17, <2>18, <2>19, OneTaskMoves
       DEF n
<1>6. CASE ~(duck[d].running /\ duck[d].queue # 0)
  <2>1. loops' = loops /\ \A v \in Writers : at[v] = "waiting" => at'[v] = "waiting"
    BY <1>1, <1>2, <1>3, <1>6
  <2>2. \A l \in 1 .. n : LoopFits(loops[l], l, n, at') BY <1>2, <2>1, LoopStays
  <2>3. WriterShape' BY <1>1, <1>2, <1>3, <2>1 DEF WriterInv, WriterShape
  <2>4. TasksOwned' /\ \A m \in Maintainers : AtRest(m)'
    BY <1>1, <2>1 DEF WriterInv, TasksOwned, AtRest, Stopped, Ended
  <2> QED BY <1>1, <1>4, <2>1, <2>2, <2>3, <2>4 DEF WriterInv
<1> QED BY <1>5, <1>6

\* The task takes its next item; the sentinel ends it.
LEMMA TakeKeepsWriter ==
  ASSUME WriterInv, NEW l \in 1 .. Len(loops), Take(l) PROVE WriterInv'
<1> DEFINE n == Len(loops)
           q == loops[l].queue
           item == Head(q)
           e == IF item = "end"
                  THEN [loops[l] EXCEPT !.queue = Tail(q), !.done = TRUE]
                  ELSE [loops[l] EXCEPT !.queue = Tail(q), !.op = item,
                                        !.cursor = duck[loops[l].owner].cursor]
<1>1. /\ ~loops[l].done /\ loops[l].op = "none" /\ q # <<>>
      /\ loops' = [loops EXCEPT ![l] = e]
      /\ duck' = duck /\ handle' = handle /\ opens' = opens /\ at' = at /\ held' = held
      /\ acked' = acked /\ work' = work
  <2>1. /\ ~loops[l].done /\ loops[l].op = "none" /\ q # <<>>
        /\ duck' = duck /\ handle' = handle /\ opens' = opens /\ at' = at /\ held' = held
        /\ acked' = acked /\ work' = work
    BY DEF Take, store, callers
  <2>2. loops' = [loops EXCEPT ![l] = e]
    <3>1. CASE item = "end" BY <3>1 DEF Take
    <3>2. CASE item # "end" BY <3>2 DEF Take
    <3> QED BY <3>1, <3>2
  <2> QED BY <2>1, <2>2
<1>2. /\ loops[l] \in LoopRows /\ LoopFits(loops[l], l, n, at) /\ n \in Nat
      /\ loops[l].cursor <= Len(opens) /\ loops[l].owner \in 1 .. Len(duck)
      /\ duck \in Seq(DuckRows)
      /\ \A d \in 1 .. Len(duck) : duck[d].cursor <= Len(opens)
      /\ \A d \in 1 .. Len(duck) : DuckFits(duck[d], d, handle, loops)
      /\ \A k \in 1 .. n : LoopFits(loops[k], k, n, at)
      /\ at \in [Writers -> {"idle", "begun", "waiting"}]
      /\ held \in [Writers -> 0 .. Len(duck)] /\ acked \in [Writers -> 0 .. MaxWrites]
      /\ CallersFit
  BY DEF WriterInv, WriterShape
<1>3. q \in Seq(Writers \cup {"end"}) /\ QueueFits(q) /\ l = n
  BY <1>1, <1>2 DEF LoopFits, LoopRows
<1>4. /\ Head(q) = q[1] /\ Head(q) \in Writers \cup {"end"} /\ Len(q) # 0
      /\ Tail(q) \in Seq(Writers \cup {"end"}) /\ QueueFits(Tail(q))
      /\ Len(Tail(q)) = Len(q) - 1
      /\ \A i \in 1 .. Len(Tail(q)) : Tail(q)[i] = q[i + 1] /\ i + 1 \in 1 .. Len(q)
                                      /\ Tail(q)[i] # Head(q)
      /\ Head(q) = "end" => Tail(q) = <<>>
  BY <1>1, <1>3, QueueShrinks
<1>5. duck[loops[l].owner].cursor \in Nat /\ duck[loops[l].owner].cursor <= Len(opens)
  <2>1. duck[loops[l].owner] \in DuckRows BY <1>2
  <2> QED BY <1>2, <2>1 DEF DuckRows
<1>6. /\ e \in LoopRows /\ e.owner = loops[l].owner /\ e.queue = Tail(q)
      /\ e.cursor <= Len(opens) /\ (e.done <=> item = "end")
      /\ e.op = IF item = "end" THEN "none" ELSE item
  BY <1>1, <1>2, <1>4, <1>5 DEF LoopRows
<1>7. 1 \in 1 .. Len(q)
  <2>1. Len(q) \in Nat BY <1>3
  <2> QED BY <1>4, <2>1
<1>8. item # "end" => item \in Writers /\ at[item] = "waiting"
  BY <1>2, <1>4, <1>7 DEF LoopFits
<1>9. \A i \in 1 .. Len(q) : q[i] # "end" => at[q[i]] = "waiting" BY <1>2 DEF LoopFits
<1> DEFINE p == Tail(q)
<1>10. \A i \in 1 .. Len(p) : /\ p[i] # "end" => at[p[i]] = "waiting" /\ p[i] # item
                              /\ p[i] = "end" => \E j \in 1 .. Len(q) : q[j] = "end"
  BY <1>4, <1>9
<1>11. "none" \notin Writers BY StoreAssumption
<1>12. LoopFits(e, l, n, at)
  <2>1. item = "end" => p = <<>> BY <1>4
  <2>2. QueueFits(p) /\ p \in Seq(Writers \cup {"end"}) BY <1>4
  <2>3. e.queue = p /\ Len(<<>>) = 0 BY <1>6, EmptySeq
  <2> HIDE DEF e, p, item
  <2>4. CASE item = "end"
    <3>1. Len(p) = 0 BY <2>1, <2>3, <2>4
    <3>2. e.done /\ e.op = "none" /\ p = <<>> BY <1>6, <2>1, <2>4
    <3> QED BY <2>2, <2>3, <3>1, <3>2 DEF LoopFits
  <2>5. CASE item # "end"
    <3>1. /\ ~e.done /\ e.op = item /\ item # "none" /\ at[item] = "waiting"
      BY <1>6, <1>8, <1>11, <2>5
    <3> QED BY <1>3, <1>10, <2>2, <2>3, <3>1 DEF LoopFits
  <2> QED BY <2>4, <2>5
<1>13. \A d \in 1 .. Len(duck) : duck[d].running =>
         ~e.done /\ \A i \in 1 .. Len(e.queue) : e.queue[i] # "end"
  <2>1. SUFFICES ASSUME NEW d \in 1 .. Len(duck), duck[d].running
                 PROVE  ~e.done /\ \A i \in 1 .. Len(e.queue) : e.queue[i] # "end"
    OBVIOUS
  <2>2. \A i \in 1 .. Len(q) : q[i] # "end" BY <1>2, <1>3, <2>1 DEF DuckFits
  <2>3. item # "end" BY <1>4, <1>7, <2>2
  <2> HIDE DEF e, item, q
  <2> QED BY <1>6, <1>10, <2>2, <2>3
<1> HIDE DEF e, q, n, item, p
<1>14. UNCHANGED <<duck, handle, work, opens>> BY <1>1
<1>15. LoopFits(e, l, Len(loops), at')
       /\ \A k \in 1 .. Len(loops) : k # l => LoopFits(loops[k], k, Len(loops), at')
  BY <1>1, <1>2, <1>12 DEF n
<1>16. /\ at' \in [Writers -> {"idle", "begun", "waiting"}]
       /\ held' \in [Writers -> 0 .. Len(duck)] /\ acked' \in [Writers -> 0 .. MaxWrites]
       /\ CallersFit'
  BY <1>1, <1>2 DEF CallersFit
<1> QED BY <1>1, <1>6, <1>13, <1>14, <1>15, <1>16, OneTaskMoves

\* The transaction ends, committed or not, and its caller is answered.
LEMMA AnswerKeepsWriter ==
  ASSUME WriterInv, NEW l \in 1 .. Len(loops), Answer(l),
         acked' \in {acked, [acked EXCEPT ![loops[l].op] = @ + 1]},
         UNCHANGED <<duck, handle, held, opens, work>>
  PROVE  WriterInv'
<1> DEFINE n == Len(loops)
           w == loops[l].op
           e == [loops[l] EXCEPT !.op = "none", !.cursor = 0]
<1>1. /\ w # "none" /\ loops' = [loops EXCEPT ![l] = e] /\ at' = [at EXCEPT ![w] = "idle"]
  BY DEF Answer
<1>2. /\ loops[l] \in LoopRows /\ LoopFits(loops[l], l, n, at) /\ n \in Nat
      /\ \A k \in 1 .. n : LoopFits(loops[k], k, n, at)
      /\ \A d \in 1 .. Len(duck) : DuckFits(duck[d], d, handle, loops)
      /\ at \in [Writers -> {"idle", "begun", "waiting"}]
      /\ held \in [Writers -> 0 .. Len(duck)] /\ acked \in [Writers -> 0 .. MaxWrites]
      /\ \A v \in Writers : /\ at[v] # "idle" => acked[v] < MaxWrites
                            /\ at[v] = "begun" => held[v] # 0
      /\ loops[l].cursor <= Len(opens)
  <2> HIDE DEF LoopRows, DuckRows
  <2> QED BY DEF WriterInv, WriterShape, CallersFit
<1>3. /\ w \in Writers /\ loops[l].queue \in Seq(Writers \cup {"end"})
      /\ loops[l].cursor \in Nat /\ MaxWrites \in Nat
  BY <1>1, <1>2, StoreAssumption DEF LoopRows
<1>4. /\ ~loops[l].done /\ l = n /\ at[w] = "waiting" BY <1>1, <1>2 DEF LoopFits
<1>5. /\ e \in LoopRows /\ e.op = "none" /\ e.queue = loops[l].queue /\ e.cursor = 0
      /\ e.owner = loops[l].owner /\ e.done = loops[l].done
  BY <1>2 DEF LoopRows
<1>6. at' \in [Writers -> {"idle", "begun", "waiting"}] /\ at'[w] = "idle"
      /\ \A v \in Writers : v # w => at'[v] = at[v]
  BY <1>1, <1>2, <1>3
<1>7. /\ acked' \in [Writers -> 0 .. MaxWrites]
      /\ \A v \in Writers : v # w => acked'[v] = acked[v]
  <2>1. acked[w] < MaxWrites /\ acked[w] \in 0 .. MaxWrites BY <1>2, <1>3, <1>4
  <2>2. acked[w] + 1 \in 0 .. MaxWrites BY <1>3, <2>1
  <2> QED BY <1>2, <1>3, <2>2
<1>8. CallersFit' BY <1>2, <1>6, <1>7 DEF CallersFit
<1>9. LoopFits(e, l, n, at')
  <2>1. \A i \in 1 .. Len(loops[l].queue) : loops[l].queue[i] # "end" =>
          /\ loops[l].queue[i] \in Writers
          /\ at[loops[l].queue[i]] = "waiting" /\ loops[l].queue[i] # w
          /\ loops[l].queue[i] # "none"
    <3>1. \A i \in 1 .. Len(loops[l].queue) : loops[l].queue[i] \in Writers \cup {"end"}
      BY <1>3
    <3>2. "none" \notin Writers BY StoreAssumption
    <3> QED BY <1>2, <3>1, <3>2 DEF LoopFits
  <2>2. QueueFits(loops[l].queue) BY <1>2 DEF LoopFits
  <2> HIDE DEF e, w
  <2> QED BY <1>4, <1>5, <1>6, <2>1, <2>2 DEF LoopFits
<1>10. \A k \in 1 .. n : k # l => LoopFits(loops[k], k, n, at')
  <2>1. SUFFICES ASSUME NEW k \in 1 .. n, k # l PROVE LoopFits(loops[k], k, n, at') OBVIOUS
  <2>2. loops[k].done BY <1>2, <1>4, <2>1 DEF LoopFits
  <2>3. loops[k].queue = <<>> /\ loops[k].op = "none" /\ LoopFits(loops[k], k, n, at)
    BY <1>2, <2>2 DEF LoopFits
  <2>4. \A i \in 1 .. Len(loops[k].queue) : FALSE BY <2>3
  <2> QED BY <2>2, <2>3, <2>4 DEF LoopFits
<1>11. \A d \in 1 .. Len(duck) : duck[d].running =>
         ~e.done /\ \A i \in 1 .. Len(e.queue) : e.queue[i] # "end"
  BY <1>2, <1>4, <1>5 DEF DuckFits
<1>12. e.cursor <= Len(opens) BY <1>2, <1>3, <1>5
<1>13. held' \in [Writers -> 0 .. Len(duck)] BY <1>2
<1> HIDE DEF e, w
<1> QED BY <1>1, <1>5, <1>6, <1>7, <1>8, <1>9, <1>10, <1>11, <1>12, <1>13, OneTaskMoves DEF n

\* A maintenance operation is accepted: nobody else's is under way.
LEMMA RequestKeepsWriter ==
  ASSUME WriterInv, WorkInv, NEW m \in Maintainers, Request(m) PROVE WriterInv'
<1>1. /\ work[m].step = "idle" /\ duck' = TheDuck /\ handle' = TheHandle
      /\ \E kind \in {"optimise", "backup"} :
           work' = [work EXCEPT ![m] = [step |-> "accepted", kind |-> kind, on |-> 0]]
      /\ opens' = opens /\ loops' = loops /\ acked' = acked /\ at' = at /\ held' = held
  BY DEF Request, store, callers
<1>2. /\ at \in [Writers -> {"idle", "begun", "waiting"}] /\ Len(duck) <= Len(TheDuck)
      /\ held \in [Writers -> 0 .. Len(duck)] /\ Len(duck) \in Nat /\ Len(TheDuck) \in Nat
  <2> HIDE DEF DuckRows, TheDuck, TheHandle
  <2>1. TheDuck \in Seq(DuckRows) /\ Len(duck) <= Len(TheDuck) BY HandedOut DEF WriterInv
  <2> QED BY <2>1 DEF WriterInv, WriterShape
<1> HIDE DEF TheDuck, TheHandle
<1>3. held' \in [Writers -> 0 .. Len(TheDuck)]
  <2>1. \A v \in Writers : held[v] \in 0 .. Len(TheDuck) BY <1>2
  <2> QED BY <1>1, <1>2, <2>1
<1>4. at' \in [Writers -> {"idle", "begun", "waiting"}]
      /\ \A w \in Writers : at[w] = "waiting" => at'[w] = "waiting"
  BY <1>1, <1>2
<1>5. /\ WriterShape'
      /\ \A l \in 1 .. Len(loops') : LoopFits(loops'[l], l, Len(loops'), at')
      /\ \A d \in 1 .. Len(duck') : DuckFits(duck'[d], d, handle', loops')
      /\ Stopped <=> Stopped'
      /\ \A l \in 1 .. Len(loops) :
           duck'[loops[l].owner].running = duck[loops[l].owner].running
  BY <1>1, <1>3, <1>4, HandingOut
<1>6. /\ work'[m].step = "accepted"
      /\ \A n \in Maintainers : n # m => work'[n] = work[n]
  BY <1>1 DEF WorkInv
<1>7. CallersFit' BY <1>1 DEF WriterInv, CallersFit
<1>8. TasksOwned'
  <2>1. CASE \E n \in Maintainers : work[n].step = "draining"
    BY <1>1, <1>6, <2>1 DEF TasksOwned
  <2>2. CASE \A l \in 1 .. Len(loops) : ~loops[l].done => duck[loops[l].owner].running
    <3>1. \A l \in 1 .. Len(loops) : ~loops[l].done => duck'[loops[l].owner].running
      BY <1>5, <2>2
    <3> QED BY <1>1, <3>1 DEF TasksOwned
  <2> QED BY <2>1, <2>2 DEF WriterInv, TasksOwned
<1>9. \A n \in Maintainers : AtRest(n)'
  <2>1. AtRest(m)' BY <1>6 DEF AtRest, Rewriting
  <2>2. \A n \in Maintainers : n # m => AtRest(n)'
    BY <1>1, <1>5, <1>6 DEF WriterInv, AtRest, Ended
  <2> QED BY <2>1, <2>2
<1> QED BY <1>5, <1>7, <1>8, <1>9 DEF WriterInv

\* While one operation is under way the others are idle.
LEMMA OthersIdle ==
  ASSUME WorkInv, NEW m \in Maintainers, work[m].step # "idle"
  PROVE  \A n \in Maintainers : n # m => work[n].step = "idle"
BY DEF WorkInv, Busy

\* The writer is asked to stop, or found not to run.
LEMMA QuiesceKeepsWriter ==
  ASSUME WriterInv, WorkInv, NEW m \in Maintainers, Quiesce(m) PROVE WriterInv'
<1> DEFINE d == TheDuck[TheHandle]
           awaited == d.running /\ d.queue # 0
           n == Len(loops)
<1>1. /\ work[m].step = "accepted" /\ opens' = opens /\ acked' = acked /\ at' = at
      /\ held' = held
  BY DEF Quiesce, store, callers
<1>2. \A k \in Maintainers : k # m => work[k].step = "idle" BY <1>1, OthersIdle
<1>3. /\ at \in [Writers -> {"idle", "begun", "waiting"}]
      /\ held \in [Writers -> 0 .. Len(duck)] /\ acked \in [Writers -> 0 .. MaxWrites]
      /\ duck \in Seq(DuckRows) /\ loops \in Seq(LoopRows) /\ handle \in 0 .. Len(duck)
      /\ Len(duck) \in Nat /\ n \in Nat
      /\ \A c \in 1 .. Len(duck) : /\ duck[c].queue <= Len(loops) /\ duck[c].task <= Len(loops)
                                   /\ duck[c].cursor <= Len(opens)
      /\ \A l \in 1 .. n : /\ loops[l].owner \in 1 .. Len(duck)
                           /\ loops[l].cursor <= Len(opens)
      /\ \A c \in 1 .. Len(duck) : DuckFits(duck[c], c, handle, loops)
      /\ \A l \in 1 .. n : LoopFits(loops[l], l, n, at)
      /\ CallersFit /\ work \in [Maintainers -> WorkRows]
      /\ \A l \in 1 .. n : ~loops[l].done => duck[loops[l].owner].running
  <2> HIDE DEF DuckRows, LoopRows
  <2>1. ~\E k \in Maintainers : work[k].step = "draining" BY <1>1, <1>2
  <2> QED BY <2>1 DEF WriterInv, WriterShape, TasksOwned, WorkInv
<1>4. /\ TheDuck \in Seq(DuckRows) /\ TheHandle \in 1 .. Len(TheDuck)
      /\ Len(duck) <= Len(TheDuck)
      /\ \A c \in 1 .. Len(duck) : TheDuck[c] = duck[c]
      /\ \A c \in 1 .. Len(TheDuck) : c \notin 1 .. Len(duck) =>
           TheDuck[c] = NewWriter /\ handle = 0
      /\ handle # 0 => TheHandle = handle /\ TheDuck = duck
  BY HandedOut DEF WriterInv
<1>5. CallersFit' BY <1>1, <1>3 DEF CallersFit
<1> HIDE DEF TheDuck, TheHandle, DuckRows, LoopRows
<1>6. CASE work[m].kind = "backup" /\ con = 0
  <2>1. work' = [work EXCEPT ![m] = Idle] /\ UNCHANGED <<duck, handle, loops>>
    BY <1>6 DEF Quiesce, writing
  <2>2. /\ work'[m].step = "idle" /\ \A k \in Maintainers : k # m => work'[k] = work[k]
    BY <1>3, <2>1 DEF Idle
  <2>3. WriterShape' BY <1>1, <1>3, <2>1 DEF WriterInv, WriterShape
  <2>4. \A k \in Maintainers : AtRest(k)' BY <1>2, <2>2 DEF AtRest, Rewriting
  <2>5. TasksOwned' BY <1>3, <2>1 DEF TasksOwned
  <2> QED BY <1>1, <1>3, <1>5, <2>1, <2>3, <2>4, <2>5 DEF WriterInv
<1>7. CASE ~(work[m].kind = "backup" /\ con = 0) /\ awaited
  <2>1. /\ handle' = TheHandle /\ duck' = [TheDuck EXCEPT ![TheHandle].running = FALSE]
        /\ loops' = [loops EXCEPT ![d.queue].queue = Append(@, "end")]
        /\ work' = [work EXCEPT ![m].step = "draining", ![m].on = d.task]
    BY <1>7 DEF Quiesce, Go
  <2>2. handle # 0
    <3>1. SUFFICES ASSUME handle = 0 PROVE FALSE OBVIOUS
    <3>2. TheHandle = Len(duck) + 1 /\ TheDuck = Append(duck, NewWriter)
      BY <3>1 DEF TheDuck, TheHandle
    <3>3. TheHandle \in 1 .. Len(TheDuck) /\ TheHandle \notin 1 .. Len(duck)
      BY <1>3, <1>4, <3>2
    <3>4. d = NewWriter BY <1>4, <3>3
    <3> QED BY <1>7, <3>4 DEF NewWriter
  <2>3. TheHandle = handle /\ TheDuck = duck /\ handle \in 1 .. Len(duck) /\ d = duck[handle]
    BY <1>3, <1>4, <2>2
  <2>4. /\ duck[handle].running /\ duck[handle].queue = n /\ duck[handle].task = n /\ n # 0
        /\ loops[n].owner = handle /\ ~loops[n].done
        /\ \A i \in 1 .. Len(loops[n].queue) : loops[n].queue[i] # "end"
    <3>1. DuckFits(duck[handle], handle, handle, loops) BY <1>3, <2>3
    <3> QED BY <1>7, <2>3, <3>1 DEF DuckFits
  <2> DEFINE q == loops[n].queue
             e == [loops[n] EXCEPT !.queue = Append(q, "end")]
             writer == [duck[handle] EXCEPT !.running = FALSE]
  <2>5. n \in 1 .. n /\ loops[n] \in LoopRows /\ LoopFits(loops[n], n, n, at)
    BY <1>3, <2>4
  <2>6. q \in Seq(Writers \cup {"end"}) /\ QueueFits(q) BY <2>5 DEF LoopFits, LoopRows
  <2>7. /\ Append(q, "end") \in Seq(Writers \cup {"end"}) /\ QueueFits(Append(q, "end"))
        /\ Len(Append(q, "end")) = Len(q) + 1 /\ Append(q, "end")[Len(q) + 1] = "end"
        /\ \A i \in 1 .. Len(q) : Append(q, "end")[i] = q[i]
    BY <2>4, <2>6, QueueGrows
  <2>8. /\ e \in LoopRows /\ e.queue = Append(q, "end") /\ e.owner = loops[n].owner
        /\ e.cursor = loops[n].cursor /\ e.op = loops[n].op /\ e.done = loops[n].done
    BY <2>5, <2>7 DEF LoopRows
  <2>9. loops' = [loops EXCEPT ![n] = e] BY <2>1, <2>3, <2>4
  <2>10. duck' = [duck EXCEPT ![handle] = writer] BY <2>1, <2>3
  <2>11. /\ writer \in DuckRows /\ ~writer.running /\ writer.queue = duck[handle].queue
         /\ writer.task = duck[handle].task /\ writer.cursor = duck[handle].cursor
    <3>1. duck[handle] \in DuckRows BY <1>3, <2>3
    <3> QED BY <3>1 DEF DuckRows
  <2> HIDE DEF writer
  <2>12. /\ duck' \in Seq(DuckRows) /\ Len(duck') = Len(duck)
         /\ \A c \in 1 .. Len(duck) : duck'[c] = IF c = handle THEN writer ELSE duck[c]
    BY <1>3, <2>3, <2>10, <2>11, ExceptSeq
  <2> DEFINE p == Append(q, "end")
  <2>13. \A i \in 1 .. Len(p) : i \in 1 .. Len(q) \/ p[i] = "end"
    <3>1. Len(q) \in Nat BY <2>6
    <3> HIDE DEF q
    <3> QED BY <2>7, <3>1
  <2>14. \A i \in 1 .. Len(q) : q[i] # "end" => at[q[i]] = "waiting" /\ q[i] # loops[n].op
    BY <2>5 DEF LoopFits
  <2>15. loops[n].op # "none" => at[loops[n].op] = "waiting" BY <2>5 DEF LoopFits
  <2> HIDE DEF e, q, p
  <2>16. LoopFits(e, n, n, at)
    BY <2>4, <2>7, <2>8, <2>13, <2>14, <2>15 DEF LoopFits, p
  <2>17. /\ loops' \in Seq(LoopRows) /\ Len(loops') = n
         /\ \A k \in 1 .. n : loops'[k] = IF k = n THEN e ELSE loops[k]
    BY <1>3, <2>5, <2>8, <2>9, ExceptSeq
  <2>18. /\ work'[m].step = "draining" /\ work'[m].on = n
         /\ \A k \in Maintainers : k # m => work'[k] = work[k]
    <3>1. d.task = n BY <2>3, <2>4
    <3>2. work[m] \in WorkRows BY <1>3
    <3> QED BY <1>3, <2>1, <3>1, <3>2 DEF WorkRows
  <2>19. Stopped'
    <3>1. ASSUME NEW c \in 1 .. Len(duck'), duck'[c].running PROVE FALSE
      <4>1. c \in 1 .. Len(duck) /\ c # handle /\ duck[c].running BY <2>11, <2>12, <3>1
      <4> QED BY <1>3, <4>1 DEF DuckFits
    <3> QED BY <3>1 DEF Stopped
  <2>20. WriterShape'
    <3>1. \A c \in 1 .. Len(duck') : /\ duck'[c].queue <= Len(loops')
                                     /\ duck'[c].task <= Len(loops')
                                     /\ duck'[c].cursor <= Len(opens')
      BY <1>1, <1>3, <2>3, <2>11, <2>12, <2>17
    <3>2. \A k \in 1 .. Len(loops') : /\ loops'[k].owner \in 1 .. Len(duck')
                                      /\ loops'[k].cursor <= Len(opens')
      BY <1>1, <1>3, <2>5, <2>8, <2>12, <2>17
    <3> QED BY <1>1, <1>3, <2>1, <2>3, <2>12, <2>17, <3>1, <3>2 DEF WriterShape
  <2>21. \A c \in 1 .. Len(duck') : DuckFits(duck'[c], c, handle', loops')
    BY <2>19 DEF Stopped, DuckFits
  <2>22. \A k \in 1 .. Len(loops') : LoopFits(loops'[k], k, Len(loops'), at')
    BY <1>1, <1>3, <2>16, <2>17
  <2>23. \A k \in Maintainers : AtRest(k)'
    <3>1. AtRest(m)' BY <2>4, <2>17, <2>18, <2>19 DEF AtRest, Rewriting
    <3>2. \A k \in Maintainers : k # m => AtRest(k)' BY <1>2, <2>18 DEF AtRest, Rewriting
    <3> QED BY <3>1, <3>2
  <2>24. TasksOwned' BY <2>18 DEF TasksOwned
  <2> QED BY <1>5, <2>20, <2>21, <2>22, <2>23, <2>24 DEF WriterInv
<1>8. CASE ~(work[m].kind = "backup" /\ con = 0) /\ ~awaited
  <2>1. /\ handle' = TheHandle /\ duck' = TheDuck /\ loops' = loops
        /\ work' = [work EXCEPT ![m].step = "quiet", ![m].on = 0]
    BY <1>8 DEF Quiesce, Go
  <2>2. held' \in [Writers -> 0 .. Len(TheDuck)]
    <3>1. Len(TheDuck) \in Nat BY <1>4
    <3>2. \A v \in Writers : held[v] \in 0 .. Len(TheDuck) BY <1>3, <1>4, <3>1
    <3> QED BY <1>1, <1>3, <3>2
  <2>3. at' \in [Writers -> {"idle", "begun", "waiting"}]
        /\ \A w \in Writers : at[w] = "waiting" => at'[w] = "waiting"
    BY <1>1, <1>3
  <2>4. /\ WriterShape'
        /\ \A l \in 1 .. Len(loops') : LoopFits(loops'[l], l, Len(loops'), at')
        /\ \A c \in 1 .. Len(duck') : DuckFits(duck'[c], c, handle', loops')
        /\ Stopped <=> Stopped'
        /\ \A l \in 1 .. Len(loops) :
             duck'[loops[l].owner].running = duck[loops[l].owner].running
    BY <1>1, <2>1, <2>2, <2>3, HandingOut
  <2>5. Stopped
    <3>1. ASSUME NEW c \in 1 .. Len(duck), duck[c].running PROVE FALSE
      <4>1. handle = c /\ duck[c].queue = n /\ n # 0 BY <1>3, <3>1 DEF DuckFits
      <4>2. TheHandle = c /\ TheDuck = duck BY <1>3, <1>4, <3>1, <4>1
      <4> QED BY <1>8, <3>1, <4>1, <4>2
    <3> QED BY <3>1 DEF Stopped
  <2>6. Ended BY <1>3, <2>5 DEF Stopped, Ended
  <2>7. Ended' BY <2>1, <2>6 DEF Ended
  <2>8. /\ work'[m].step = "quiet" /\ \A k \in Maintainers : k # m => work'[k] = work[k]
    <3>1. work[m] \in WorkRows BY <1>3
    <3> QED BY <1>3, <2>1, <3>1 DEF WorkRows
  <2>9. \A k \in Maintainers : AtRest(k)'
    <3>1. AtRest(m)' BY <2>4, <2>5, <2>7, <2>8 DEF AtRest
    <3>2. \A k \in Maintainers : k # m => AtRest(k)' BY <1>2, <2>8 DEF AtRest, Rewriting
    <3> QED BY <3>1, <3>2
  <2>10. TasksOwned' BY <2>1, <2>6 DEF TasksOwned, Ended
  <2> QED BY <1>5, <2>4, <2>9, <2>10 DEF WriterInv
<1> QED BY <1>6, <1>7, <1>8

\* The task has ended: the writer object is at rest.
LEMMA DrainedKeepsWriter ==
  ASSUME WriterInv, WorkInv, NEW m \in Maintainers, Drained(m) PROVE WriterInv'
<1> DEFINE n == Len(loops)
           o == loops[work[m].on].owner
           writer == [duck[o] EXCEPT !.task = 0, !.queue = 0, !.cursor = 0]
<1>1. /\ work[m].step = "draining" /\ loops[work[m].on].done
      /\ duck' = [duck EXCEPT ![o] = writer]
      /\ work' = [work EXCEPT ![m].step = "quiet", ![m].on = 0]
      /\ handle' = handle /\ loops' = loops /\ opens' = opens
      /\ at' = at /\ held' = held /\ acked' = acked
  BY DEF Drained, Go, store, callers
<1>2. \A k \in Maintainers : k # m => work[k].step = "idle" BY <1>1, OthersIdle
<1>3. /\ Stopped /\ work[m].on = n /\ n # 0 /\ n \in Nat
      /\ duck \in Seq(DuckRows) /\ loops \in Seq(LoopRows) /\ handle \in 0 .. Len(duck)
      /\ Len(duck) \in Nat
      /\ \A c \in 1 .. Len(duck) : /\ duck[c].queue <= Len(loops) /\ duck[c].task <= Len(loops)
                                   /\ duck[c].cursor <= Len(opens)
      /\ \A l \in 1 .. n : /\ loops[l].owner \in 1 .. Len(duck)
                           /\ loops[l].cursor <= Len(opens)
      /\ \A l \in 1 .. n : LoopFits(loops[l], l, n, at)
      /\ CallersFit /\ work \in [Maintainers -> WorkRows]
  <2> HIDE DEF DuckRows, LoopRows
  <2> QED BY <1>1 DEF WriterInv, WriterShape, AtRest, WorkInv
<1>4. o \in 1 .. Len(duck)
  <2>1. n \in 1 .. n BY <1>3
  <2> QED BY <1>3, <2>1
<1>5. writer \in DuckRows /\ writer.running = duck[o].running /\ writer.queue = 0 /\ writer.task = 0
      /\ writer.cursor = 0 /\ duck[o].cursor \in Nat /\ duck[o].cursor <= Len(opens)
  <2>1. duck[o] \in DuckRows BY <1>3, <1>4
  <2>2. duck[o].cursor <= Len(opens) BY <1>3, <1>4
  <2> QED BY <2>1, <2>2 DEF DuckRows
<1> HIDE DEF writer, o, DuckRows, LoopRows
<1>6. /\ duck' \in Seq(DuckRows) /\ Len(duck') = Len(duck)
      /\ \A c \in 1 .. Len(duck) : duck'[c] = IF c = o THEN writer ELSE duck[c]
  BY <1>1, <1>3, <1>4, <1>5, ExceptSeq
<1>7. Stopped' BY <1>3, <1>4, <1>5, <1>6 DEF Stopped
<1>8. Ended'
  <2>1. ASSUME NEW l \in 1 .. n, ~loops[l].done PROVE FALSE
    <3>1. l = n BY <1>3, <2>1 DEF LoopFits
    <3> QED BY <1>1, <1>3, <2>1, <3>1
  <2> QED BY <1>1, <2>1 DEF Ended
<1>9. WriterShape'
  <2>1. \A c \in 1 .. Len(duck') : /\ duck'[c].queue <= n /\ duck'[c].task <= n
                                   /\ duck'[c].cursor <= Len(opens)
    <3>1. SUFFICES ASSUME NEW c \in 1 .. Len(duck)
                   PROVE  /\ duck'[c].queue <= n /\ duck'[c].task <= n
                          /\ duck'[c].cursor <= Len(opens)
      BY <1>6
    <3>2. CASE c = o
      <4>1. Len(opens) \in Nat BY DEF WriterInv, WriterShape
      <4> QED BY <1>3, <1>5, <1>6, <3>2, <4>1
    <3>3. CASE c # o BY <1>3, <1>6, <3>3
    <3> QED BY <3>2, <3>3
  <2> QED BY <1>1, <1>3, <1>6, <2>1 DEF WriterInv, WriterShape
<1>10. \A c \in 1 .. Len(duck') : DuckFits(duck'[c], c, handle', loops')
  BY <1>7 DEF Stopped, DuckFits
<1>11. /\ work'[m].step = "quiet" /\ \A k \in Maintainers : k # m => work'[k] = work[k]
  <2>1. work[m] \in WorkRows BY <1>3
  <2> QED BY <1>1, <1>3, <2>1 DEF WorkRows
<1>12. \A k \in Maintainers : AtRest(k)'
  <2>1. AtRest(m)' BY <1>7, <1>8, <1>11 DEF AtRest
  <2>2. \A k \in Maintainers : k # m => AtRest(k)' BY <1>2, <1>11 DEF AtRest, Rewriting
  <2> QED BY <2>1, <2>2
<1>13. TasksOwned' BY <1>8 DEF TasksOwned, Ended
<1>14. CallersFit' BY <1>1, <1>3 DEF CallersFit
<1> QED BY <1>1, <1>3, <1>9, <1>10, <1>12, <1>13, <1>14 DEF WriterInv

\* The writer is started again on the open connection, if there is one.
LEMMA RestartKeepsWriter ==
  ASSUME WriterInv, WorkInv, con \in Nat, con <= Len(opens),
         NEW m \in Maintainers, Restart(m)
  PROVE  WriterInv'
<1> DEFINE n == Len(loops)
           h == TheHandle
<1>1. /\ work[m].step = "restart" /\ work' = [work EXCEPT ![m] = Idle] /\ handle' = h
      /\ IF con # 0 /\ ~TheDuck[h].running
           THEN /\ loops' = Append(loops, NewLoop(h))
                /\ duck' = [TheDuck EXCEPT ![h] = DuckWriter(Len(loops'), con)]
           ELSE duck' = TheDuck /\ loops' = loops
      /\ opens' = opens /\ at' = at /\ held' = held /\ acked' = acked
  BY DEF Restart, store, callers
<1>2. \A k \in Maintainers : k # m => work[k].step = "idle" BY <1>1, OthersIdle
<1>3. /\ Stopped /\ Ended /\ n \in Nat
      /\ at \in [Writers -> {"idle", "begun", "waiting"}]
      /\ held \in [Writers -> 0 .. Len(duck)] /\ acked \in [Writers -> 0 .. MaxWrites]
      /\ duck \in Seq(DuckRows) /\ loops \in Seq(LoopRows) /\ handle \in 0 .. Len(duck)
      /\ Len(duck) \in Nat
      /\ \A c \in 1 .. Len(duck) : /\ duck[c].queue <= n /\ duck[c].task <= n
                                   /\ duck[c].cursor <= Len(opens)
      /\ \A l \in 1 .. n : /\ loops[l].owner \in 1 .. Len(duck)
                           /\ loops[l].cursor <= Len(opens)
      /\ \A l \in 1 .. n : LoopFits(loops[l], l, n, at)
      /\ CallersFit /\ work \in [Maintainers -> WorkRows]
  <2> HIDE DEF DuckRows, LoopRows
  <2> QED BY <1>1 DEF WriterInv, WriterShape, AtRest, WorkInv, Rewriting
<1>4. /\ TheDuck \in Seq(DuckRows) /\ h \in 1 .. Len(TheDuck)
      /\ Len(duck) <= Len(TheDuck)
      /\ \A c \in 1 .. Len(duck) : TheDuck[c] = duck[c]
      /\ \A c \in 1 .. Len(TheDuck) : c \notin 1 .. Len(duck) =>
           TheDuck[c] = NewWriter /\ handle = 0
      /\ handle # 0 => TheHandle = handle /\ TheDuck = duck
  BY HandedOut DEF WriterInv
<1>5. CallersFit' BY <1>1, <1>3 DEF CallersFit
<1> HIDE DEF TheDuck, TheHandle, DuckRows, LoopRows
<1>6. held' \in [Writers -> 0 .. Len(TheDuck)]
  <2>1. Len(TheDuck) \in Nat BY <1>4
  <2>2. \A v \in Writers : held[v] \in 0 .. Len(TheDuck) BY <1>3, <1>4, <2>1
  <2> QED BY <1>1, <1>3, <2>2
<1>7. \A k \in Maintainers : work'[k].step = "idle"
  <2>1. work'[m].step = "idle" BY <1>1, <1>3 DEF Idle
  <2>2. \A k \in Maintainers : k # m => work'[k].step = "idle" BY <1>1, <1>2, <1>3
  <2> QED BY <2>1, <2>2
<1>8. \A k \in Maintainers : AtRest(k)' BY <1>7 DEF AtRest, Rewriting
<1>9. \A c \in 1 .. Len(TheDuck) :
        ~TheDuck[c].running /\ TheDuck[c].queue <= n /\ TheDuck[c].task <= n
          /\ TheDuck[c].cursor <= Len(opens)
  <2>1. SUFFICES ASSUME NEW c \in 1 .. Len(TheDuck)
                 PROVE  ~TheDuck[c].running /\ TheDuck[c].queue <= n /\ TheDuck[c].task <= n
                          /\ TheDuck[c].cursor <= Len(opens)
    OBVIOUS
  <2>2. CASE c \in 1 .. Len(duck) BY <1>3, <1>4, <2>2 DEF Stopped
  <2>3. CASE c \notin 1 .. Len(duck)
    <3>1. TheDuck[c] = NewWriter BY <1>4, <2>3
    <3>2. Len(opens) \in Nat BY DEF WriterInv, WriterShape
    <3> QED BY <1>3, <3>1, <3>2 DEF NewWriter
  <2> QED BY <2>2, <2>3
<1>10. CASE con # 0 /\ ~TheDuck[h].running
  <2> DEFINE task == NewLoop(h)
             writer == DuckWriter(n + 1, con)
  <2>1. /\ task \in LoopRows /\ task.owner = h /\ task.queue = <<>> /\ task.op = "none"
        /\ task.cursor = 0 /\ ~task.done
    <3>1. h \in Nat /\ <<>> \in Seq(Writers \cup {"end"}) BY <1>4, EmptySeq
    <3> QED BY <3>1 DEF NewLoop, LoopRows
  <2>2. /\ writer \in DuckRows /\ writer.running /\ writer.queue = n + 1 /\ writer.task = n + 1
        /\ writer.cursor = con
    BY <1>3 DEF DuckWriter, DuckRows
  <2> HIDE DEF task, writer
  <2>3. /\ loops' \in Seq(LoopRows) /\ Len(loops') = n + 1
        /\ \A l \in 1 .. n : loops'[l] = loops[l]
        /\ loops'[n + 1] = task
    <3>1. loops' = Append(loops, task) BY <1>1, <1>10 DEF task
    <3> QED BY <1>3, <2>1, <3>1, AppendProperties
  <2>4. /\ duck' \in Seq(DuckRows) /\ Len(duck') = Len(TheDuck)
        /\ \A c \in 1 .. Len(TheDuck) : duck'[c] = IF c = h THEN writer ELSE TheDuck[c]
    <3>1. duck' = [TheDuck EXCEPT ![h] = writer] BY <1>1, <1>10, <2>3 DEF writer
    <3> QED BY <1>4, <2>2, <3>1, ExceptSeq
  <2>5. \A l \in 1 .. Len(loops') : l \in 1 .. n \/ l = n + 1 BY <1>3, <2>3
  <2>6. WriterShape'
    <3>1. \A c \in 1 .. Len(duck') : /\ duck'[c].queue <= Len(loops')
                                     /\ duck'[c].task <= Len(loops')
                                     /\ duck'[c].cursor <= Len(opens')
      <4>1. SUFFICES ASSUME NEW c \in 1 .. Len(TheDuck)
                     PROVE  /\ duck'[c].queue <= n + 1 /\ duck'[c].task <= n + 1
                            /\ duck'[c].cursor <= Len(opens)
        BY <1>1, <2>3, <2>4
      <4>2. CASE c = h BY <1>3, <2>2, <2>4, <4>2
      <4>3. CASE c # h
        <5>1. duck'[c] = TheDuck[c] /\ TheDuck[c] \in DuckRows BY <1>4, <2>4, <4>3
        <5>2. TheDuck[c].queue \in Nat /\ TheDuck[c].task \in Nat BY <5>1 DEF DuckRows
        <5> QED BY <1>3, <1>9, <5>1, <5>2
      <4> QED BY <4>2, <4>3
    <3>2. \A l \in 1 .. Len(loops') : /\ loops'[l].owner \in 1 .. Len(duck')
                                      /\ loops'[l].cursor <= Len(opens')
      <4>1. SUFFICES ASSUME NEW l \in 1 .. Len(loops')
                     PROVE  loops'[l].owner \in 1 .. Len(TheDuck) /\ loops'[l].cursor <= Len(opens)
        BY <1>1, <2>4
      <4>2. CASE l \in 1 .. n
        <5>1. loops'[l] = loops[l] /\ loops[l].owner \in 1 .. Len(duck)
              /\ loops[l].cursor <= Len(opens)
          BY <1>3, <2>3, <4>2
        <5>2. 1 .. Len(duck) \subseteq 1 .. Len(TheDuck) BY <1>3, <1>4
        <5> QED BY <5>1, <5>2
      <4>3. CASE l = n + 1
        <5>1. Len(opens) \in Nat BY DEF WriterInv, WriterShape
        <5> QED BY <1>4, <2>1, <2>3, <4>3, <5>1
      <4> QED BY <2>5, <4>2, <4>3
    <3>3. handle' \in 0 .. Len(duck') BY <1>1, <1>4, <2>4
    <3> QED BY <1>1, <1>3, <1>6, <2>3, <2>4, <3>1, <3>2, <3>3 DEF WriterShape
  <2>7. \A l \in 1 .. Len(loops') : LoopFits(loops'[l], l, Len(loops'), at')
    <3>1. ASSUME NEW l \in 1 .. n PROVE LoopFits(loops[l], l, n + 1, at)
      BY <1>3, <3>1 DEF LoopFits, Ended
    <3>2. LoopFits(task, n + 1, n + 1, at)
      <4>1. Len(task.queue) = 0 BY <2>1, EmptySeq
      <4> QED BY <2>1, <4>1 DEF LoopFits, QueueFits
    <3> QED BY <1>1, <2>3, <2>5, <3>1, <3>2
  <2>8. \A c \in 1 .. Len(duck') : DuckFits(duck'[c], c, handle', loops')
    <3>1. \A c \in 1 .. Len(TheDuck) : c # h => ~duck'[c].running BY <1>9, <2>4
    <3>2. DuckFits(writer, h, h, loops')
      <4>1. Len(task.queue) = 0 BY <2>1, EmptySeq
      <4>2. n + 1 # 0 BY <1>3
      <4> QED BY <2>1, <2>2, <2>3, <4>1, <4>2 DEF DuckFits
    <3>3. duck'[h] = writer /\ Len(duck') = Len(TheDuck) BY <1>4, <2>4
    <3>4. \A c \in 1 .. Len(TheDuck) : c # h => DuckFits(duck'[c], c, handle', loops')
      BY <3>1 DEF DuckFits
    <3> QED BY <1>1, <3>2, <3>3, <3>4
  <2>9. TasksOwned'
    <3>1. ASSUME NEW l \in 1 .. Len(loops'), ~loops'[l].done
          PROVE  duck'[loops'[l].owner].running
      <4>1. l = n + 1 BY <1>3, <2>3, <2>5, <3>1 DEF Ended
      <4>2. loops'[l].owner = h BY <2>1, <2>3, <4>1
      <4> QED BY <1>4, <2>2, <2>4, <4>2
    <3> QED BY <3>1 DEF TasksOwned
  <2> QED BY <1>5, <1>8, <2>6, <2>7, <2>8, <2>9 DEF WriterInv
<1>11. CASE ~(con # 0 /\ ~TheDuck[h].running)
  <2>1. duck' = TheDuck /\ loops' = loops BY <1>1, <1>11
  <2>2. at' \in [Writers -> {"idle", "begun", "waiting"}]
        /\ \A w \in Writers : at[w] = "waiting" => at'[w] = "waiting"
    BY <1>1, <1>3
  <2>3. /\ WriterShape'
        /\ \A l \in 1 .. Len(loops') : LoopFits(loops'[l], l, Len(loops'), at')
        /\ \A c \in 1 .. Len(duck') : DuckFits(duck'[c], c, handle', loops')
        /\ Stopped <=> Stopped'
        /\ \A l \in 1 .. Len(loops) :
             duck'[loops[l].owner].running = duck[loops[l].owner].running
    BY <1>1, <1>6, <2>1, <2>2, HandingOut
  <2>4. TasksOwned' BY <1>3, <2>1 DEF TasksOwned, Ended
  <2> QED BY <1>5, <1>8, <2>3, <2>4 DEF WriterInv
<1> QED BY <1>10, <1>11

\* Initially, and after a kill: one task, one writer object, nobody waits.
LEMMA FreshWriter ==
  ASSUME duck = <<DuckWriter(1, 1)>>, handle = 1, loops = <<NewLoop(1)>>,
         at = [w \in Writers |-> "idle"], held = [w \in Writers |-> 0],
         acked \in [Writers -> 0 .. MaxWrites], work = [m \in Maintainers |-> Idle],
         Len(opens) = 1
  PROVE  WriterInv
<1>1. /\ DuckWriter(1, 1) \in DuckRows /\ DuckWriter(1, 1).running /\ DuckWriter(1, 1).queue = 1
      /\ DuckWriter(1, 1).task = 1 /\ DuckWriter(1, 1).cursor = 1
  BY DEF DuckWriter, DuckRows
<1>2. /\ NewLoop(1) \in LoopRows /\ NewLoop(1).owner = 1 /\ NewLoop(1).queue = <<>>
      /\ NewLoop(1).op = "none" /\ NewLoop(1).cursor = 0 /\ ~NewLoop(1).done
  <2>1. <<>> \in Seq(Writers \cup {"end"}) BY EmptySeq
  <2> QED BY <2>1 DEF NewLoop, LoopRows
<1> HIDE DEF DuckRows, LoopRows, DuckWriter, NewLoop
<1>3. /\ duck \in Seq(DuckRows) /\ Len(duck) = 1 /\ duck[1] = DuckWriter(1, 1)
      /\ loops \in Seq(LoopRows) /\ Len(loops) = 1 /\ loops[1] = NewLoop(1)
  BY <1>1, <1>2
<1>4. \A i \in 1 .. 1 : i = 1 OBVIOUS
<1>5. WriterShape BY <1>1, <1>2, <1>3, <1>4 DEF WriterShape
<1>6. Len(<<>>) = 0 /\ Len(NewLoop(1).queue) = 0 BY <1>2, EmptySeq
<1>7. \A l \in 1 .. Len(loops) : LoopFits(loops[l], l, Len(loops), at)
  BY <1>2, <1>3, <1>4, <1>6 DEF LoopFits, QueueFits
<1>8. \A d \in 1 .. Len(duck) : DuckFits(duck[d], d, handle, loops)
  BY <1>1, <1>2, <1>3, <1>4, <1>6 DEF DuckFits
<1>9. TasksOwned BY <1>1, <1>2, <1>3, <1>4 DEF TasksOwned
<1>10. \A m \in Maintainers : AtRest(m) BY DEF AtRest, Idle, Rewriting
<1>11. CallersFit BY DEF CallersFit
<1> QED BY <1>5, <1>7, <1>8, <1>9, <1>10, <1>11 DEF WriterInv

\* What a path names is a file, or nothing.
LEMMA PathNames ==
  ASSUME FilesShape
  PROVE  /\ Len(disk) \in Nat
         /\ path.live \in 0 .. Len(disk) /\ path.compact \in 0 .. Len(disk)
         /\ path.before \in 0 .. Len(disk)
         /\ DOMAIN path = {"live", "compact", "before"}
BY DEF FilesShape

\* A file that is created is empty and changes none that is there.
LEMMA FileCreated ==
  ASSUME FilesShape
  PROVE  /\ Append(disk, {}) \in Seq(Writes) /\ Len(Append(disk, {})) = Len(disk) + 1
         /\ \A f \in 1 .. Len(disk) : Append(disk, {})[f] = disk[f]
         /\ Append(disk, {})[Len(disk) + 1] = {}
<1>1. {} \in Writes BY DEF Writes
<1>2. disk \in Seq(Writes) BY DEF FilesShape
<1> HIDE DEF Writes
<1> QED BY <1>1, <1>2, AppendProperties

\* The files stay; the operations move on to where they ask little of them.
LEMMA FilesStay ==
  ASSUME FilesInv, UNCHANGED <<disk, path, opens, con, attached, acked>>,
         \A k \in Maintainers :
           \/ work'[k] = work[k]
           \/ work'[k].step \in {"idle", "restart"}
           \/ work'[k].step \in {"accepted", "draining", "quiet"} /\ AllAtLive
  PROVE  FilesInv'
<1>1. FilesShape' BY DEF FilesInv, FilesShape
<1>2. AckedIsDurable' BY DEF FilesInv, AckedIsDurable, Acked, Held
<1>3. \A k \in Maintainers : FilesFit(k)' BY DEF FilesInv, FilesFit, AllAtLive, Acked, Held
<1> QED BY <1>1, <1>2, <1>3 DEF FilesInv

\* The operation under way moves, the others are idle.
LEMMA OneMovesOn ==
  ASSUME WorkInv, NEW m \in Maintainers, work[m].step # "idle", NEW s \in Steps, NEW o \in Nat,
         Go(m, s, o)
  PROVE  /\ work'[m].step = s /\ work'[m].on = o /\ work'[m].kind = work[m].kind
         /\ work' \in [Maintainers -> WorkRows]
         /\ \A k \in Maintainers : k # m => work'[k] = work[k] /\ work[k].step = "idle"
                                            /\ FilesFit(k)'
<1>1. work \in [Maintainers -> WorkRows] BY DEF WorkInv
<1>2. work[m] \in WorkRows BY <1>1
<1> HIDE DEF WorkRows
<1>3. [[work[m] EXCEPT !.step = s] EXCEPT !.on = o] \in WorkRows
  BY <1>2 DEF WorkRows
<1>4. work' = [work EXCEPT ![m] = [[work[m] EXCEPT !.step = s] EXCEPT !.on = o]]
  BY <1>1 DEF Go
<1>5. /\ work'[m].step = s /\ work'[m].on = o /\ work'[m].kind = work[m].kind
  BY <1>1, <1>2, <1>4 DEF WorkRows
<1>6. \A k \in Maintainers : k # m => work'[k] = work[k] /\ work[k].step = "idle"
  BY <1>1, <1>4, OthersIdle
<1>7. \A k \in Maintainers : k # m => FilesFit(k)'
  <2>1. SUFFICES ASSUME NEW k \in Maintainers, k # m PROVE FilesFit(k)' OBVIOUS
  <2>2. work'[k].step = "idle" BY <1>6, <2>1
  <2> QED BY <2>2 DEF FilesFit
<1> QED BY <1>1, <1>3, <1>4, <1>5, <1>6, <1>7

\* An operation that moves keeps the account of the operations.
LEMMA WorkKept ==
  ASSUME WorkInv, NEW m \in Maintainers, work[m].step # "idle", NEW s \in Steps, NEW o \in Nat,
         Go(m, s, o), paused' \in BOOLEAN, runs' = runs, crashes' = crashes,
         faults' = faults \/ Fault
  PROVE  WorkInv'
<1>1. /\ work'[m].step = s /\ work'[m].on = o /\ work'[m].kind = work[m].kind
      /\ work' \in [Maintainers -> WorkRows]
      /\ \A k \in Maintainers : k # m => work'[k] = work[k] /\ work[k].step = "idle"
                                         /\ FilesFit(k)'
  BY OneMovesOn
<1>2. runs # 0 BY DEF WorkInv, Busy
<1>3. faults' \in 0 .. MaxFaults
  <2>1. MaxFaults \in Nat /\ faults \in 0 .. MaxFaults BY StoreAssumption DEF WorkInv
  <2> QED BY <2>1 DEF Fault
<1>4. \A k, n \in Maintainers : Busy(k)' /\ Busy(n)' => k = n BY <1>1 DEF Busy
<1> QED BY <1>1, <1>2, <1>3, <1>4 DEF WorkInv

\* An operation that ends does.
LEMMA WorkOver ==
  ASSUME WorkInv, NEW m \in Maintainers, work[m].step # "idle",
         work' = [work EXCEPT ![m] = Idle], paused' \in BOOLEAN, UNCHANGED bounds
  PROVE  WorkInv' /\ \A k \in Maintainers : work'[k].step = "idle"
<1>1. work \in [Maintainers -> WorkRows] /\ Idle \in WorkRows /\ Idle.step = "idle"
  BY DEF WorkInv, WorkRows, Idle, Steps
<1>2. \A k \in Maintainers : k # m => work[k].step = "idle" BY OthersIdle
<1> HIDE DEF WorkRows, Idle
<1>3. work' \in [Maintainers -> WorkRows] /\ \A k \in Maintainers : work'[k].step = "idle"
  BY <1>1, <1>2
<1>4. runs # 0 BY DEF WorkInv, Busy
<1>5. runs' = runs /\ faults' = faults /\ crashes' = crashes BY DEF bounds
<1> QED BY <1>3, <1>4, <1>5 DEF WorkInv, Busy

\* The commit: the file at market.duckdb is the one the connection is open on.
LEMMA CommitKeepsFiles ==
  ASSUME WriterInv, FilesInv, NEW l \in 1 .. Len(loops), Commit(l) PROVE FilesInv'
<1> DEFINE w == loops[l].op
           f == opens[con]
<1>1. /\ w # "none" /\ con # 0 /\ disk' = [disk EXCEPT ![f] = @ \cup {Op(w)}]
      /\ acked' = [acked EXCEPT ![w] = @ + 1]
      /\ UNCHANGED <<path, opens, con, attached, work>>
  BY DEF Commit, Answer
<1>2. /\ LoopFits(loops[l], l, Len(loops), at) /\ loops[l] \in LoopRows
      /\ acked \in [Writers -> 0 .. MaxWrites]
      /\ \A v \in Writers : at[v] # "idle" => acked[v] < MaxWrites
  BY DEF WriterInv, WriterShape, CallersFit
<1>3. w \in Writers /\ at[w] = "waiting" /\ ~loops[l].done
  BY <1>1, <1>2 DEF LoopFits, LoopRows
<1>4. acked[w] \in Nat /\ acked[w] + 1 \in 1 .. MaxWrites
  <2>1. MaxWrites \in Nat BY StoreAssumption
  <2>2. acked[w] < MaxWrites /\ acked[w] \in 0 .. MaxWrites BY <1>2, <1>3
  <2> QED BY <2>1, <2>2
<1>5. f = path.live /\ f \in 1 .. Len(disk) /\ disk \in Seq(Writes) /\ Len(disk) \in Nat
      /\ con \in 1 .. Len(opens)
  <2> HIDE DEF Writes
  <2>1. con \in 0 .. Len(opens) /\ f = path.live BY <1>1 DEF FilesInv, FilesShape
  <2> QED BY <1>1, <2>1 DEF FilesInv, FilesShape
<1>6. disk[f] \in Writes /\ disk[f] \cup {Op(w)} \in Writes
  <2>1. Op(w) \in Writers \X (1 .. MaxWrites) BY <1>3, <1>4 DEF Op
  <2>2. disk[f] \in Writes BY <1>5
  <2> QED BY <2>1, <2>2 DEF Writes
<1> HIDE DEF Writes
<1>7. /\ disk' \in Seq(Writes) /\ Len(disk') = Len(disk)
      /\ \A g \in 1 .. Len(disk) : disk'[g] = IF g = f THEN disk[f] \cup {Op(w)} ELSE disk[g]
  BY <1>1, <1>5, <1>6, ExceptSeq
<1>8. FilesShape' BY <1>1, <1>7 DEF FilesInv, FilesShape
<1>9. \A v \in Writers : acked'[v] = IF v = w THEN acked[w] + 1 ELSE acked[v]
  BY <1>1, <1>2, <1>3
<1>10. Acked' \subseteq Acked \cup {Op(w)}
  <2>1. SUFFICES ASSUME NEW v \in Writers, NEW i \in 1 .. acked'[v], i \notin 1 .. acked[v]
                 PROVE  v = w /\ i = acked[w] + 1
    BY DEF Acked, Op
  <2>2. v = w BY <1>9, <2>1
  <2>3. i \in 1 .. (acked[w] + 1) /\ i \notin 1 .. acked[w] BY <1>9, <2>1, <2>2
  <2> QED BY <1>4, <2>2, <2>3
<1> HIDE DEF f, w
<1>11. \A g \in 0 .. Len(disk) : Held(g) \subseteq Held(g)'
  <2>1. SUFFICES ASSUME NEW g \in 1 .. Len(disk) PROVE disk[g] \subseteq disk'[g]
    BY <1>5 DEF Held
  <2> QED BY <1>7, <2>1
<1>12. Held(path.live)' = Held(path.live) \cup {Op(w)}
  <2>1. path.live \in 1 .. Len(disk) /\ path'.live = path.live /\ path.live # 0 BY <1>1, <1>5
  <2>2. disk'[path.live] = disk[path.live] \cup {Op(w)} BY <1>5, <1>7, <2>1
  <2> QED BY <2>1, <2>2 DEF Held
<1>13. AckedIsDurable'
  <2>1. path.compact \in 0 .. Len(disk) /\ path' = path BY <1>1, PathNames DEF FilesInv
  <2>2. Held(path.compact) \subseteq Held(path.compact)' BY <1>11, <2>1 DEF Held
  <2>3. Acked \subseteq Held(path.live)
          \cup (IF path.before # 0 THEN Held(path.compact) ELSE {})
    BY DEF FilesInv, AckedIsDurable
  <2> QED BY <1>10, <1>12, <2>1, <2>2, <2>3 DEF AckedIsDurable
<1>14. \A m \in Maintainers : FilesFit(m)'
  <2>1. SUFFICES ASSUME NEW m \in Maintainers PROVE FilesFit(m)' OBVIOUS
  <2>2. work[m].step \notin Rewriting BY <1>3 DEF WriterInv, AtRest, Ended
  <2>3. FilesFit(m) /\ work'[m] = work[m] /\ path' = path BY <1>1 DEF FilesInv
  <2>4. AllAtLive => AllAtLive' BY <1>10, <1>12 DEF AllAtLive
  <2> QED BY <2>2, <2>3, <2>4 DEF FilesFit, Rewriting
<1> QED BY <1>1, <1>5, <1>8, <1>13, <1>14 DEF FilesInv, f

\* compact, up to the empty target.
LEMMA BuildKeepsFiles ==
  ASSUME FilesInv, WorkInv, NEW m \in Maintainers, Build(m) PROVE FilesInv'
<1>1. /\ work[m].step = "quiet" /\ work[m].step # "idle"
      /\ UNCHANGED <<opens, con, attached, acked>>
  BY DEF Build, callers
<1>2. FilesFit(m) /\ AllAtLive BY <1>1 DEF FilesInv, FilesFit
<1>3. /\ Len(disk) \in Nat
      /\ path.live \in 0 .. Len(disk) /\ path.compact \in 0 .. Len(disk)
      /\ path.before \in 0 .. Len(disk)
      /\ DOMAIN path = {"live", "compact", "before"}
  BY PathNames DEF FilesInv
<1>4. path \in [{"live", "compact", "before"} -> 0 .. Len(disk)] BY DEF FilesInv, FilesShape
<1>5. CASE Fails(m) /\ path' \in {path, [path EXCEPT !.compact = 0]} /\ disk' = disk
  <2>1. path' \in [{"live", "compact", "before"} -> 0 .. Len(disk)] /\ path'.live = path.live
    BY <1>3, <1>4, <1>5
  <2>2. Go(m, "restart", 0) /\ "restart" \in Steps /\ 0 \in Nat BY <1>5 DEF Fails, Steps
  <2>3. /\ work'[m].step = "restart" /\ work'[m].on = 0 /\ work'[m].kind = work[m].kind
        /\ work' \in [Maintainers -> WorkRows]
        /\ \A k \in Maintainers : k # m => work'[k] = work[k] /\ work[k].step = "idle"
                                           /\ FilesFit(k)'
    BY <1>1, <2>2, OneMovesOn
  <2>4. FilesShape' BY <1>1, <1>5, <2>1 DEF FilesInv, FilesShape
  <2>5. AckedIsDurable' BY <1>1, <1>2, <1>5, <2>1 DEF AckedIsDurable, AllAtLive, Held, Acked
  <2>6. FilesFit(m)' BY <2>3 DEF FilesFit
  <2>7. con' # 0 => opens'[con'] = path'.live BY <1>1, <2>1 DEF FilesInv
  <2> QED BY <2>3, <2>4, <2>5, <2>6, <2>7 DEF FilesInv
<1>6. CASE /\ con # 0 /\ Go(m, "built", con)
           /\ disk' = Append(disk, {}) /\ path' = [path EXCEPT !.compact = Len(disk')]
  <2>1. con \in Nat /\ "built" \in Steps
    <3>1. con \in 0 .. Len(opens) BY DEF FilesInv, FilesShape
    <3> QED BY <3>1 DEF Steps
  <2>2. /\ work'[m].step = "built" /\ work'[m].on = con /\ work'[m].kind = work[m].kind
        /\ work' \in [Maintainers -> WorkRows]
        /\ \A k \in Maintainers : k # m => work'[k] = work[k] /\ work[k].step = "idle"
                                           /\ FilesFit(k)'
    BY <1>1, <1>6, <2>1, OneMovesOn
  <2>3. /\ disk' \in Seq(Writes) /\ Len(disk') = Len(disk) + 1
        /\ \A f \in 1 .. Len(disk) : disk'[f] = disk[f]
    BY <1>6, FileCreated DEF FilesInv
  <2>4. /\ path' \in [{"live", "compact", "before"} -> 0 .. Len(disk')]
        /\ path'.live = path.live /\ path'.before = path.before
        /\ path'.compact = Len(disk) + 1
    <3> DEFINE more == 0 .. Len(disk')
    <3>1. path \in [{"live", "compact", "before"} -> more] /\ Len(disk') \in more
      BY <1>3, <1>4, <2>3
    <3> HIDE DEF more
    <3>2. path' \in [{"live", "compact", "before"} -> more] BY <1>6, <3>1
    <3> QED BY <1>4, <1>6, <2>3, <3>2 DEF more
  <2>5. FilesShape'
    <3>1. \A c \in 1 .. Len(opens) : opens[c] \in 1 .. Len(disk')
      BY <1>3, <2>3 DEF FilesInv, FilesShape
    <3>2. attached \in 0 .. Len(disk') BY <1>3, <2>3 DEF FilesInv, FilesShape
    <3> HIDE DEF Writes
    <3> QED BY <1>1, <2>3, <2>4, <3>1, <3>2 DEF FilesInv, FilesShape
  <2>6. Acked \subseteq Held(path.live) /\ Acked' = Acked
    BY <1>1, <1>2 DEF AllAtLive, Acked
  <2>7. Held(path.live)' = Held(path.live)
    <3>1. path.live # 0 => path.live \in 1 .. Len(disk) BY <1>3
    <3> QED BY <2>3, <2>4, <3>1 DEF Held
  <2>8. AckedIsDurable' BY <2>6, <2>7 DEF AckedIsDurable
  <2>9. FilesFit(m)'
    <3>1. path'.compact # 0 BY <1>3, <2>4
    <3> QED BY <1>1, <1>6, <2>2, <2>6, <2>7, <3>1 DEF FilesFit
  <2>10. con' # 0 => opens'[con'] = path'.live BY <1>1, <2>4 DEF FilesInv
  <2> QED BY <2>2, <2>5, <2>8, <2>9, <2>10 DEF FilesInv
<1> QED BY <1>5, <1>6 DEF Build

\* The target is attached.
LEMMA AttachKeepsFiles ==
  ASSUME FilesInv, WorkInv, NEW m \in Maintainers, Attach(m) PROVE FilesInv'
<1>1. /\ work[m].step = "built" /\ work[m].step # "idle"
      /\ UNCHANGED <<disk, path, opens, con, acked>>
  BY DEF Attach, callers
<1>2. /\ con # 0 /\ work[m].on = con /\ path.compact # 0 /\ Acked \subseteq Held(path.live)
  BY <1>1 DEF FilesInv, FilesFit
<1>3. CASE Fails(m) /\ attached' = attached
  <2>1. Go(m, "restart", 0) /\ "restart" \in Steps /\ 0 \in Nat BY <1>3 DEF Fails, Steps
  <2>2. /\ work'[m].step = "restart" /\ work'[m].on = 0 /\ work'[m].kind = work[m].kind
        /\ work' \in [Maintainers -> WorkRows]
        /\ \A k \in Maintainers : k # m => work'[k] = work[k] /\ work[k].step = "idle"
                                           /\ FilesFit(k)'
    BY <1>1, <2>1, OneMovesOn
  <2> QED BY <1>1, <1>3, <2>2, FilesStay
<1>4. CASE attached' = path.compact /\ Go(m, "attached", con)
  <2>1. con \in Nat /\ "attached" \in Steps
    <3>1. con \in 0 .. Len(opens) BY DEF FilesInv, FilesShape
    <3> QED BY <3>1 DEF Steps
  <2>2. /\ work'[m].step = "attached" /\ work'[m].on = con /\ work'[m].kind = work[m].kind
        /\ work' \in [Maintainers -> WorkRows]
        /\ \A k \in Maintainers : k # m => work'[k] = work[k] /\ work[k].step = "idle"
                                           /\ FilesFit(k)'
    BY <1>1, <1>4, <2>1, OneMovesOn
  <2>3. FilesShape'
    <3>1. path.compact \in 0 .. Len(disk) BY PathNames DEF FilesInv
    <3>2. attached' \in 0 .. Len(disk) /\ con # 0 BY <1>2, <1>4, <3>1
    <3> HIDE DEF Writes
    <3> QED BY <1>1, <3>2 DEF FilesInv, FilesShape
  <2>4. AckedIsDurable' BY <1>1 DEF FilesInv, AckedIsDurable, Held, Acked
  <2>5. FilesFit(m)' BY <1>1, <1>2, <1>4, <2>2 DEF FilesFit, Held, Acked
  <2> QED BY <1>1, <2>2, <2>3, <2>4, <2>5 DEF FilesInv
<1> QED BY <1>3, <1>4 DEF Attach

\* The rows are copied.
LEMMA CopyKeepsFiles ==
  ASSUME FilesInv, WorkInv, NEW m \in Maintainers, CopyRows(m) PROVE FilesInv'
<1>1. /\ work[m].step = "attached" /\ work[m].step # "idle"
      /\ UNCHANGED <<path, opens, con, acked>>
  BY DEF CopyRows, callers
<1>2. /\ con # 0 /\ work[m].on = con /\ path.compact # 0 /\ Acked \subseteq Held(path.live)
      /\ attached = path.compact /\ opens[con] = path.live
  BY <1>1 DEF FilesInv, FilesFit
<1>3. /\ Len(disk) \in Nat
      /\ path.live \in 0 .. Len(disk) /\ path.compact \in 0 .. Len(disk)
      /\ path.before \in 0 .. Len(disk)
      /\ DOMAIN path = {"live", "compact", "before"}
  BY PathNames DEF FilesInv
<1>4. CASE Fails(m) /\ attached' \in {attached, 0} /\ disk' = disk
  <2>1. Go(m, "restart", 0) /\ "restart" \in Steps /\ 0 \in Nat BY <1>4 DEF Fails, Steps
  <2>2. /\ work'[m].step = "restart" /\ work'[m].on = 0 /\ work'[m].kind = work[m].kind
        /\ work' \in [Maintainers -> WorkRows]
        /\ \A k \in Maintainers : k # m => work'[k] = work[k] /\ work[k].step = "idle"
                                           /\ FilesFit(k)'
    BY <1>1, <2>1, OneMovesOn
  <2>3. FilesShape'
    <3>1. FilesShape /\ attached \in 0 .. Len(disk) BY DEF FilesInv, FilesShape
    <3>2. attached' \in 0 .. Len(disk) /\ (attached' # 0 => con' # 0)
      BY <1>1, <1>2, <1>3, <1>4, <3>1
    <3> HIDE DEF Writes
    <3> QED BY <1>1, <1>4, <3>1, <3>2 DEF FilesShape
  <2>4. AckedIsDurable' BY <1>1, <1>4 DEF FilesInv, AckedIsDurable, Held, Acked
  <2>5. FilesFit(m)' BY <2>2 DEF FilesFit
  <2> QED BY <1>1, <2>2, <2>3, <2>4, <2>5 DEF FilesInv
<1>5. CASE /\ Go(m, "copied", con) /\ disk' = [disk EXCEPT ![attached] = disk[opens[con]]]
           /\ attached' = attached
  <2>1. con \in Nat /\ "copied" \in Steps
    <3>1. con \in 0 .. Len(opens) BY DEF FilesInv, FilesShape
    <3> QED BY <3>1 DEF Steps
  <2>2. /\ work'[m].step = "copied" /\ work'[m].on = con /\ work'[m].kind = work[m].kind
        /\ work' \in [Maintainers -> WorkRows]
        /\ \A k \in Maintainers : k # m => work'[k] = work[k] /\ work[k].step = "idle"
                                           /\ FilesFit(k)'
    BY <1>1, <1>5, <2>1, OneMovesOn
  <2>3. path.live \in 1 .. Len(disk) /\ path.compact \in 1 .. Len(disk)
    <3>1. con \in 1 .. Len(opens) BY <1>2 DEF FilesInv, FilesShape
    <3>2. opens[con] \in 1 .. Len(disk) BY <3>1 DEF FilesInv, FilesShape
    <3> QED BY <1>2, <1>3, <3>2
  <2>4. disk \in Seq(Writes) /\ disk[path.live] \in Writes
    <3> HIDE DEF Writes
    <3> QED BY <2>3 DEF FilesInv, FilesShape
  <2> HIDE DEF Writes
  <2>5. /\ disk' \in Seq(Writes) /\ Len(disk') = Len(disk)
        /\ \A f \in 1 .. Len(disk) :
             disk'[f] = IF f = path.compact THEN disk[path.live] ELSE disk[f]
    <3>1. disk' = [disk EXCEPT ![path.compact] = disk[path.live]] BY <1>2, <1>5
    <3> QED BY <2>3, <2>4, <3>1, ExceptSeq
  <2>6. Held(path.live)' = Held(path.live) /\ Held(path.compact)' = Held(path.live)
    BY <1>1, <1>3, <2>3, <2>5 DEF Held
  <2>7. Acked' = Acked BY <1>1 DEF Acked
  <2>8. FilesShape' BY <1>1, <1>5, <2>5 DEF FilesInv, FilesShape
  <2>9. AckedIsDurable' BY <1>2, <2>6, <2>7 DEF AckedIsDurable
  <2>10. FilesFit(m)' BY <1>1, <1>2, <1>5, <2>2, <2>6, <2>7 DEF FilesFit
  <2> QED BY <1>1, <2>2, <2>8, <2>9, <2>10 DEF FilesInv
<1> QED BY <1>4, <1>5 DEF CopyRows

\* The store is closed.
LEMMA CloseKeepsFiles ==
  ASSUME FilesInv, WorkInv, NEW m \in Maintainers, CloseStore(m) PROVE FilesInv'
<1>1. /\ work[m].step \in {"copied", "quiet"} /\ work[m].step # "idle"
      /\ UNCHANGED <<disk, path, opens, acked>>
  BY DEF CloseStore, callers
<1>2. CASE work[m].step = "copied" /\ con # work[m].on
  BY <1>2 DEF FilesInv, FilesFit
<1>3. ASSUME NEW s \in {"closed", "copying", "restart"}, Go(m, s, 0), Close,
             s = "closed" => work[m].step = "copied", s = "copying" => work[m].step = "quiet"
      PROVE  FilesInv'
  <2>1. s \in Steps /\ 0 \in Nat BY DEF Steps
  <2>2. /\ work'[m].step = s /\ work'[m].on = 0 /\ work'[m].kind = work[m].kind
        /\ work' \in [Maintainers -> WorkRows]
        /\ \A k \in Maintainers : k # m => work'[k] = work[k] /\ work[k].step = "idle"
                                           /\ FilesFit(k)'
    BY <1>1, <1>3, <2>1, OneMovesOn
  <2>3. con' = 0 /\ attached' \in {attached, 0} /\ (attached' # 0 => con # 0 /\ con = 0)
    BY <1>3 DEF Close, FilesInv, FilesShape
  <2>4. FilesShape' BY <1>1, <2>3 DEF FilesInv, FilesShape
  <2>5. AckedIsDurable' BY <1>1 DEF FilesInv, AckedIsDurable, Held, Acked
  <2>6. FilesFit(m)'
    <3>1. FilesFit(m) BY DEF FilesInv
    <3>2. Acked' = Acked /\ path' = path /\ disk' = disk BY <1>1 DEF Acked
    <3>3. CASE s = "closed" BY <1>3, <2>2, <2>3, <3>1, <3>2, <3>3 DEF FilesFit, Held
    <3>4. CASE s = "copying"
      <4>1. AllAtLive BY <1>3, <3>1, <3>4 DEF FilesFit
      <4>2. AllAtLive' BY <3>2, <4>1 DEF AllAtLive, Held
      <4> QED BY <2>2, <2>3, <3>4, <4>2 DEF FilesFit
    <3>5. CASE s = "restart" BY <2>2, <3>5 DEF FilesFit
    <3> QED BY <3>3, <3>4, <3>5
  <2> QED BY <2>2, <2>3, <2>4, <2>5, <2>6 DEF FilesInv
<1>4. CASE Close /\ Fails(m) BY <1>3, <1>4 DEF Fails
<1>5. CASE work[m].step = "copied" /\ Close /\ Go(m, "closed", 0) BY <1>3, <1>5
<1>6. CASE work[m].step = "quiet" /\ Close /\ Go(m, "copying", 0) BY <1>3, <1>6
<1>7. \/ work[m].step = "copied" /\ con # work[m].on
      \/ Close /\ Fails(m)
      \/ work[m].step = "copied" /\ Close /\ Go(m, "closed", 0)
      \/ work[m].step = "quiet" /\ Close /\ Go(m, "copying", 0)
  BY <1>1 DEF CloseStore
<1> QED BY <1>2, <1>4, <1>5, <1>6, <1>7

\* The first rename.
LEMMA MoveAwayKeepsFiles ==
  ASSUME FilesInv, WorkInv, NEW m \in Maintainers, MoveAway(m) PROVE FilesInv'
<1>1. /\ work[m].step = "closed" /\ work[m].step # "idle"
      /\ UNCHANGED <<disk, opens, con, attached, acked>>
  BY DEF MoveAway, callers
<1>2. /\ con = 0 /\ path.compact # 0 /\ Acked \subseteq Held(path.live)
      /\ Acked \subseteq Held(path.compact)
  BY <1>1 DEF FilesInv, FilesFit
<1>3. /\ Len(disk) \in Nat
      /\ path.live \in 0 .. Len(disk) /\ path.compact \in 0 .. Len(disk)
      /\ path.before \in 0 .. Len(disk)
      /\ DOMAIN path = {"live", "compact", "before"}
  BY PathNames DEF FilesInv
<1>4. path \in [{"live", "compact", "before"} -> 0 .. Len(disk)] BY DEF FilesInv, FilesShape
<1>5. Acked' = Acked BY <1>1 DEF Acked
<1>6. CASE Fails(m) /\ path' = [path EXCEPT !.before = 0]
  <2>1. Go(m, "restart", 0) /\ "restart" \in Steps /\ 0 \in Nat BY <1>6 DEF Fails, Steps
  <2>2. /\ work'[m].step = "restart" /\ work'[m].on = 0 /\ work'[m].kind = work[m].kind
        /\ work' \in [Maintainers -> WorkRows]
        /\ \A k \in Maintainers : k # m => work'[k] = work[k] /\ work[k].step = "idle"
                                           /\ FilesFit(k)'
    BY <1>1, <2>1, OneMovesOn
  <2>3. path' \in [{"live", "compact", "before"} -> 0 .. Len(disk)] /\ path'.live = path.live
    BY <1>3, <1>4, <1>6
  <2>4. FilesShape' BY <1>1, <2>3 DEF FilesInv, FilesShape
  <2>5. AckedIsDurable' BY <1>1, <1>2, <1>5, <2>3 DEF AckedIsDurable, Held
  <2>6. FilesFit(m)' BY <2>2 DEF FilesFit
  <2> QED BY <1>1, <1>2, <2>2, <2>4, <2>5, <2>6 DEF FilesInv
<1>7. CASE /\ path.live # 0 /\ Go(m, "moved", 0)
           /\ path' = [path EXCEPT !.before = path.live, !.live = 0]
  <2>1. "moved" \in Steps /\ 0 \in Nat BY DEF Steps
  <2>2. /\ work'[m].step = "moved" /\ work'[m].on = 0 /\ work'[m].kind = work[m].kind
        /\ work' \in [Maintainers -> WorkRows]
        /\ \A k \in Maintainers : k # m => work'[k] = work[k] /\ work[k].step = "idle"
                                           /\ FilesFit(k)'
    BY <1>1, <1>7, <2>1, OneMovesOn
  <2>3. path' \in [{"live", "compact", "before"} -> 0 .. Len(disk)]
        /\ path'.live = 0 /\ path'.before = path.live /\ path'.compact = path.compact
    <3> DEFINE files == 0 .. Len(disk)
    <3>1. path \in [{"live", "compact", "before"} -> files] /\ 0 \in files /\ path.live \in files
      BY <1>3, <1>4
    <3> HIDE DEF files
    <3>2. path' \in [{"live", "compact", "before"} -> files] BY <1>7, <3>1
    <3> QED BY <1>4, <1>7, <3>2 DEF files
  <2>4. FilesShape' BY <1>1, <2>3 DEF FilesInv, FilesShape
  <2>5. Held(path.compact)' = Held(path.compact) BY <1>1, <2>3 DEF Held
  <2>6. AckedIsDurable' BY <1>2, <1>5, <1>7, <2>3, <2>5 DEF AckedIsDurable
  <2>7. FilesFit(m)' BY <1>1, <1>2, <1>5, <1>7, <2>2, <2>3, <2>5 DEF FilesFit
  <2> QED BY <1>1, <1>2, <2>2, <2>4, <2>6, <2>7 DEF FilesInv
<1> QED BY <1>6, <1>7 DEF MoveAway

\* The second rename.
LEMMA MoveInKeepsFiles ==
  ASSUME FilesInv, WorkInv, NEW m \in Maintainers, MoveIn(m) PROVE FilesInv'
<1>1. /\ work[m].step = "moved" /\ work[m].step # "idle"
      /\ UNCHANGED <<disk, opens, con, attached, acked>>
  BY DEF MoveIn, callers
<1>2. con = 0 /\ path.compact # 0 /\ Acked \subseteq Held(path.compact)
  BY <1>1 DEF FilesInv, FilesFit
<1>3. /\ Len(disk) \in Nat
      /\ path.live \in 0 .. Len(disk) /\ path.compact \in 0 .. Len(disk)
      /\ path.before \in 0 .. Len(disk)
      /\ DOMAIN path = {"live", "compact", "before"}
  BY PathNames DEF FilesInv
<1>4. path \in [{"live", "compact", "before"} -> 0 .. Len(disk)] BY DEF FilesInv, FilesShape
<1>5. Acked' = Acked BY <1>1 DEF Acked
<1>6. CASE Fails(m) /\ path' = path
  <2>1. Go(m, "restart", 0) /\ "restart" \in Steps /\ 0 \in Nat BY <1>6 DEF Fails, Steps
  <2>2. /\ work'[m].step = "restart" /\ work'[m].on = 0 /\ work'[m].kind = work[m].kind
        /\ work' \in [Maintainers -> WorkRows]
        /\ \A k \in Maintainers : k # m => work'[k] = work[k] /\ work[k].step = "idle"
                                           /\ FilesFit(k)'
    BY <1>1, <2>1, OneMovesOn
  <2> QED BY <1>1, <1>6, <2>2, FilesStay
<1>7. CASE Go(m, "swapped", 0) /\ path' = [path EXCEPT !.live = path.compact, !.compact = 0]
  <2>1. "swapped" \in Steps /\ 0 \in Nat BY DEF Steps
  <2>2. /\ work'[m].step = "swapped" /\ work'[m].on = 0 /\ work'[m].kind = work[m].kind
        /\ work' \in [Maintainers -> WorkRows]
        /\ \A k \in Maintainers : k # m => work'[k] = work[k] /\ work[k].step = "idle"
                                           /\ FilesFit(k)'
    BY <1>1, <1>7, <2>1, OneMovesOn
  <2>3. path' \in [{"live", "compact", "before"} -> 0 .. Len(disk)]
        /\ path'.live = path.compact
    <3> DEFINE files == 0 .. Len(disk)
    <3>1. path \in [{"live", "compact", "before"} -> files] /\ 0 \in files /\ path.compact \in files
      BY <1>3, <1>4
    <3> HIDE DEF files
    <3>2. path' \in [{"live", "compact", "before"} -> files] BY <1>7, <3>1
    <3> QED BY <1>4, <1>7, <3>2 DEF files
  <2>4. FilesShape' BY <1>1, <2>3 DEF FilesInv, FilesShape
  <2>5. AckedIsDurable' BY <1>1, <1>2, <1>5, <2>3 DEF AckedIsDurable, Held
  <2>6. FilesFit(m)' BY <1>1, <1>2, <2>2 DEF FilesFit
  <2> QED BY <1>1, <1>2, <2>2, <2>4, <2>5, <2>6 DEF FilesInv
<1> QED BY <1>2, <1>6, <1>7 DEF MoveIn

\* The live file, made if there is none, holds what was durable before.
LEMMA LiveOrMade ==
  ASSUME FilesInv, acked' = acked,
         \/ path.live # 0 /\ disk' = disk /\ path' = path
         \/ path.live = 0 /\ disk' = Append(disk, {}) /\ path' = [path EXCEPT !.live = Len(disk')]
  PROVE  /\ disk' \in Seq(Writes) /\ Len(disk') \in Nat /\ Len(disk) <= Len(disk')
         /\ path' \in [{"live", "compact", "before"} -> 0 .. Len(disk')]
         /\ path'.live \in 1 .. Len(disk') /\ path'.compact = path.compact
         /\ AckedIsDurable'
<1>1. /\ Len(disk) \in Nat
      /\ path.live \in 0 .. Len(disk) /\ path.compact \in 0 .. Len(disk)
      /\ path.before \in 0 .. Len(disk)
      /\ DOMAIN path = {"live", "compact", "before"}
  BY PathNames DEF FilesInv
<1>2. path \in [{"live", "compact", "before"} -> 0 .. Len(disk)] /\ disk \in Seq(Writes)
  BY DEF FilesInv, FilesShape
<1>3. Acked' = Acked BY DEF Acked
<1> HIDE DEF Writes
<1>4. CASE path.live # 0 /\ disk' = disk /\ path' = path
  <2>1. AckedIsDurable' BY <1>3, <1>4 DEF FilesInv, AckedIsDurable, Held
  <2> QED BY <1>1, <1>2, <1>4, <2>1
<1>5. CASE path.live = 0 /\ disk' = Append(disk, {}) /\ path' = [path EXCEPT !.live = Len(disk')]
  <2>1. /\ disk' \in Seq(Writes) /\ Len(disk') = Len(disk) + 1
        /\ \A f \in 1 .. Len(disk) : disk'[f] = disk[f]
    BY <1>5, FileCreated DEF FilesInv
  <2>2. path' \in [{"live", "compact", "before"} -> 0 .. Len(disk')]
        /\ path'.live = Len(disk') /\ path'.compact = path.compact
        /\ path'.before = path.before
    <3> DEFINE files == 0 .. Len(disk')
    <3>1. path \in [{"live", "compact", "before"} -> files] /\ Len(disk') \in files
      BY <1>1, <1>2, <2>1
    <3> HIDE DEF files
    <3>2. path' \in [{"live", "compact", "before"} -> files] BY <1>5, <3>1
    <3> QED BY <1>2, <1>5, <3>2 DEF files
  <2>3. Held(path.compact)' = Held(path.compact)
    <3>1. path.compact # 0 => path.compact \in 1 .. Len(disk) BY <1>1
    <3> QED BY <2>1, <2>2, <3>1 DEF Held
  <2>4. Held(path.live) = {} BY <1>5 DEF Held
  <2>5. AckedIsDurable' BY <1>3, <2>2, <2>3, <2>4 DEF FilesInv, AckedIsDurable
  <2>6. path'.live \in 1 .. Len(disk') BY <1>1, <2>1, <2>2
  <2> QED BY <1>1, <2>1, <2>2, <2>5, <2>6
<1> QED BY <1>4, <1>5

\* The database is opened again.
LEMMA ReopenKeepsFiles ==
  ASSUME FilesInv, WorkInv, NEW m \in Maintainers, Reopen(m) PROVE FilesInv'
<1>1. /\ work[m].step \in {"swapped", "copying"} /\ work[m].step # "idle"
      /\ attached' = attached /\ acked' = acked /\ Go(m, "restart", 0) /\ (Open \/ OpenFails)
  BY DEF Reopen, callers, Fails
<1>2. con = 0 BY <1>1 DEF FilesInv, FilesFit
<1>3. "restart" \in Steps /\ 0 \in Nat BY DEF Steps
<1>4. /\ work'[m].step = "restart" /\ work'[m].on = 0 /\ work'[m].kind = work[m].kind
      /\ work' \in [Maintainers -> WorkRows]
      /\ \A k \in Maintainers : k # m => work'[k] = work[k] /\ work[k].step = "idle"
                                         /\ FilesFit(k)'
  BY <1>1, <1>3, OneMovesOn
<1>f. FilesFit(m)' BY <1>4 DEF FilesFit
<1>u. CASE UNCHANGED <<disk, path, opens, con>>
  <2>1. \A k \in Maintainers : work'[k] = work[k] \/ work'[k].step = "restart" BY <1>4
  <2> QED BY <1>1, <1>u, <2>1, FilesStay
<1>5. CASE Create /\ UNCHANGED <<opens, con>>
  <2>1. /\ disk' \in Seq(Writes) /\ Len(disk') \in Nat /\ Len(disk) <= Len(disk')
        /\ path' \in [{"live", "compact", "before"} -> 0 .. Len(disk')]
        /\ AckedIsDurable'
    BY <1>1, <1>5, LiveOrMade DEF Create
  <2>2. /\ opens \in Seq(Nat) /\ Len(disk) \in Nat /\ attached = 0
        /\ \A c \in 1 .. Len(opens) : opens[c] \in 1 .. Len(disk)
    BY <1>2 DEF FilesInv, FilesShape
  <2> HIDE DEF Writes
  <2>3. con' \in 0 .. Len(opens') /\ con' = 0 /\ opens' = opens /\ attached' = 0
    BY <1>1, <1>2, <1>5, <2>2 DEF FilesInv, FilesShape
  <2>4. \A c \in 1 .. Len(opens') : opens'[c] \in 1 .. Len(disk')
    <3>1. SUFFICES ASSUME NEW c \in 1 .. Len(opens) PROVE opens[c] \in 1 .. Len(disk')
      BY <2>3
    <3>2. opens[c] \in 1 .. Len(disk) BY <2>2
    <3> QED BY <2>1, <2>2, <3>2
  <2>5. FilesShape' BY <2>1, <2>2, <2>3, <2>4 DEF FilesShape
  <2> QED BY <1>4, <1>f, <2>1, <2>3, <2>5 DEF FilesInv
<1>6. CASE Create /\ opens' = Append(opens, path'.live) /\ con' = Len(opens')
  <2>1. /\ disk' \in Seq(Writes) /\ Len(disk') \in Nat /\ Len(disk) <= Len(disk')
        /\ path' \in [{"live", "compact", "before"} -> 0 .. Len(disk')]
        /\ path'.live \in 1 .. Len(disk') /\ path'.compact = path.compact
        /\ AckedIsDurable'
    BY <1>1, <1>6, LiveOrMade DEF Create
  <2>2. /\ opens \in Seq(Nat) /\ attached = 0 /\ Len(opens) \in Nat /\ Len(disk) \in Nat
        /\ \A c \in 1 .. Len(opens) : opens[c] \in 1 .. Len(disk)
    BY <1>2 DEF FilesInv, FilesShape
  <2>3. path'.live \in Nat BY <2>1
  <2>4. /\ opens' \in Seq(Nat) /\ Len(opens') = Len(opens) + 1
        /\ \A c \in 1 .. Len(opens) : opens'[c] = opens[c]
        /\ opens'[Len(opens) + 1] = path'.live
    BY <1>6, <2>2, <2>3, AppendProperties
  <2>5. \A c \in 1 .. Len(opens') : opens'[c] \in 1 .. Len(disk')
    <3>1. SUFFICES ASSUME NEW c \in 1 .. Len(opens') PROVE opens'[c] \in 1 .. Len(disk') OBVIOUS
    <3>2. c \in 1 .. Len(opens) \/ c = Len(opens) + 1 BY <2>2, <2>4
    <3>3. CASE c \in 1 .. Len(opens)
      <4>1. opens'[c] = opens[c] /\ opens[c] \in 1 .. Len(disk) BY <2>2, <2>4, <3>3
      <4> QED BY <2>1, <2>2, <4>1
    <3>4. CASE c = Len(opens) + 1 BY <2>1, <2>4, <3>4
    <3> QED BY <3>2, <3>3, <3>4
  <2> HIDE DEF Writes
  <2>6. FilesShape'
    <3>1. con' \in 0 .. Len(opens') BY <1>6, <2>2, <2>4
    <3> QED BY <1>1, <2>1, <2>2, <2>4, <2>5, <3>1 DEF FilesShape
  <2>7. opens'[con'] = path'.live BY <1>6, <2>4
  <2> QED BY <1>4, <1>f, <2>1, <2>6, <2>7 DEF FilesInv
<1> QED BY <1>1, <1>2, <1>u, <1>5, <1>6 DEF Open, OpenFails

\* A kill, and the start after it.
LEMMA CrashKeepsStore ==
  ASSUME StoreInv, Crash PROVE StoreInv'
<1>1. /\ crashes < MaxCrashes /\ crashes' = crashes + 1
      /\ IF path.live = 0
           THEN disk' = Append(disk, {}) /\ path' = [path EXCEPT !.live = Len(disk')]
           ELSE UNCHANGED <<disk, path>>
      /\ opens' = <<path'.live>> /\ con' = 1 /\ attached' = 0
      /\ duck' = <<DuckWriter(1, 1)>> /\ handle' = 1 /\ loops' = <<NewLoop(1)>>
      /\ at' = [w \in Writers |-> "idle"] /\ held' = [w \in Writers |-> 0]
      /\ work' = [m \in Maintainers |-> Idle] /\ paused' = FALSE
      /\ acked' = acked /\ runs' = runs /\ faults' = faults
  BY DEF Crash, Create
<1>2. /\ disk' \in Seq(Writes) /\ Len(disk') \in Nat /\ Len(disk) <= Len(disk')
      /\ path' \in [{"live", "compact", "before"} -> 0 .. Len(disk')]
      /\ path'.live \in 1 .. Len(disk') /\ path'.compact = path.compact
      /\ AckedIsDurable'
  BY <1>1, LiveOrMade DEF StoreInv, Create
<1>3. opens' \in Seq(Nat) /\ Len(opens') = 1 /\ opens'[1] = path'.live BY <1>1, <1>2
<1>4. WriterInv'
  <2>1. acked' \in [Writers -> 0 .. MaxWrites] BY <1>1 DEF StoreInv, WriterInv, WriterShape
  <2>2. /\ DuckWriter(1, 1) \in DuckRows /\ DuckWriter(1, 1).running
        /\ DuckWriter(1, 1).queue = 1 /\ DuckWriter(1, 1).task = 1 /\ DuckWriter(1, 1).cursor = 1
    BY DEF DuckWriter, DuckRows
  <2>3. /\ NewLoop(1) \in LoopRows /\ NewLoop(1).owner = 1 /\ NewLoop(1).queue = <<>>
        /\ NewLoop(1).op = "none" /\ NewLoop(1).cursor = 0 /\ ~NewLoop(1).done
    <3>1. <<>> \in Seq(Writers \cup {"end"}) BY EmptySeq
    <3> QED BY <3>1 DEF NewLoop, LoopRows
  <2> HIDE DEF DuckRows, LoopRows, DuckWriter, NewLoop
  <2>4. /\ duck' \in Seq(DuckRows) /\ Len(duck') = 1 /\ duck'[1] = DuckWriter(1, 1)
        /\ loops' \in Seq(LoopRows) /\ Len(loops') = 1 /\ loops'[1] = NewLoop(1)
    BY <1>1, <2>2, <2>3
  <2>5. \A i \in 1 .. 1 : i = 1 OBVIOUS
  <2>6. WriterShape' BY <1>1, <1>3, <2>1, <2>2, <2>3, <2>4, <2>5 DEF WriterShape
  <2>7. Len(<<>>) = 0 /\ Len(NewLoop(1).queue) = 0 BY <2>3, EmptySeq
  <2>8. \A l \in 1 .. Len(loops') : LoopFits(loops'[l], l, Len(loops'), at')
    BY <2>3, <2>4, <2>5, <2>7 DEF LoopFits, QueueFits
  <2>9. \A d \in 1 .. Len(duck') : DuckFits(duck'[d], d, handle', loops')
    BY <1>1, <2>2, <2>3, <2>4, <2>5, <2>7 DEF DuckFits
  <2>10. TasksOwned' BY <2>2, <2>3, <2>4, <2>5 DEF TasksOwned
  <2>11. \A m \in Maintainers : AtRest(m)' BY <1>1 DEF AtRest, Idle, Rewriting
  <2>12. CallersFit' BY <1>1 DEF CallersFit
  <2> QED BY <2>6, <2>8, <2>9, <2>10, <2>11, <2>12 DEF WriterInv
<1>5. FilesInv'
  <2>1. \A c \in 1 .. Len(opens') : opens'[c] \in 1 .. Len(disk') BY <1>2, <1>3
  <2> HIDE DEF Writes
  <2>2. FilesShape' BY <1>1, <1>2, <1>3, <2>1 DEF FilesShape
  <2>3. \A m \in Maintainers : FilesFit(m)' BY <1>1 DEF FilesFit, Idle
  <2> QED BY <1>1, <1>2, <1>3, <2>2, <2>3 DEF FilesInv
<1>6. WorkInv'
  <2>1. Idle \in WorkRows /\ Idle.step = "idle" BY DEF Idle, WorkRows, Steps
  <2>2. crashes' \in 0 .. MaxCrashes
    <3>1. MaxCrashes \in Nat BY StoreAssumption
    <3> QED BY <1>1, <3>1 DEF StoreInv, WorkInv
  <2> HIDE DEF WorkRows, Idle
  <2> QED BY <1>1, <1>2, <2>1, <2>2 DEF StoreInv, WorkInv, Busy
<1> QED BY <1>4, <1>5, <1>6 DEF StoreInv

\* The store as it is opened first.
LEMMA StoreStarts == Init => StoreInv
<1>1. SUFFICES ASSUME Init PROVE StoreInv OBVIOUS
<1>2. {QueueSize, MaxWrites, MaxRuns, MaxFaults, MaxCrashes} \subseteq Nat BY StoreAssumption
<1>3. WriterInv
  <2>1. acked \in [Writers -> 0 .. MaxWrites] /\ Len(opens) = 1 BY <1>1, <1>2 DEF Init
  <2> QED BY <1>1, <2>1, FreshWriter DEF Init
<1>4. /\ disk = <<{}>> /\ Len(disk) = 1 /\ disk[1] = {}
      /\ opens = <<1>> /\ Len(opens) = 1 /\ opens[1] = 1
      /\ con = 1 /\ path = [live |-> 1, compact |-> 0, before |-> 0] /\ attached = 0
  BY <1>1 DEF Init
<1>5. \A m \in Maintainers : work[m].step = "idle"
  BY <1>1 DEF Init, Idle
<1>6. FilesInv
  <2>1. Acked = {}
    <3>1. \A w \in Writers : acked[w] = 0 BY <1>1 DEF Init
    <3>2. \A w \in Writers : {w} \X (1 .. acked[w]) = {} BY <3>1
    <3> QED BY <3>2 DEF Acked
  <2>2. AckedIsDurable BY <2>1 DEF AckedIsDurable
  <2>3. FilesShape
    <3>1. {} \in Writes BY DEF Writes
    <3>2. disk \in Seq(Writes)
      <4> HIDE DEF Writes
      <4> QED BY <1>4, <3>1
    <3>3. path \in [{"live", "compact", "before"} -> 0 .. Len(disk)] BY <1>4
    <3>4. opens \in Seq(Nat) /\ \A c \in 1 .. Len(opens) : opens[c] \in 1 .. Len(disk) BY <1>4
    <3>5. con \in 0 .. Len(opens) /\ attached \in 0 .. Len(disk) BY <1>4
    <3> HIDE DEF Writes
    <3> QED BY <1>4, <3>2, <3>3, <3>4, <3>5 DEF FilesShape
  <2>4. \A m \in Maintainers : FilesFit(m) BY <1>5 DEF FilesFit
  <2> QED BY <1>4, <2>2, <2>3, <2>4 DEF FilesInv
<1>7. WorkInv
  <2>1. work \in [Maintainers -> WorkRows] BY <1>1 DEF Init, Idle, WorkRows, Steps
  <2>2. runs \in 0 .. MaxRuns /\ faults \in 0 .. MaxFaults /\ crashes \in 0 .. MaxCrashes
    BY <1>1, <1>2 DEF Init
  <2>3. paused \in BOOLEAN BY <1>1 DEF Init
  <2> HIDE DEF WorkRows
  <2> QED BY <1>4, <1>5, <2>1, <2>2, <2>3 DEF WorkInv, Busy
<1> QED BY <1>3, <1>6, <1>7 DEF StoreInv

\* A submitter's step and a task's keep the invariant.
LEMMA CallerKeepsStore ==
  ASSUME StoreInv,
         \/ \E w \in Writers : Begin(w) \/ Submit(w)
         \/ \E l \in DOMAIN loops : Take(l) \/ Commit(l) \/ Rollback(l)
  PROVE  StoreInv'
<1>1. WriterInv /\ FilesInv /\ WorkInv BY DEF StoreInv
<1>2. DOMAIN loops = 1 .. Len(loops) BY <1>1 DEF WriterInv, WriterShape
<1>3. ASSUME UNCHANGED <<path, work, paused, bounds>> PROVE WorkInv'
  BY <1>1, <1>3 DEF WorkInv, Busy, bounds
<1>4. ASSUME UNCHANGED <<disk, path, opens, con, attached, acked, work>> PROVE FilesInv'
  <2>1. \A k \in Maintainers :
           \/ work'[k] = work[k]
           \/ work'[k].step \in {"idle", "restart"}
           \/ work'[k].step \in {"accepted", "draining", "quiet"} /\ AllAtLive
    BY <1>4
  <2>2. UNCHANGED <<disk, path, opens, con, attached, acked>> BY <1>4
  <2> QED BY <1>1, <2>1, <2>2, FilesStay
<1>5. ASSUME NEW w \in Writers, Begin(w) \/ Submit(w) PROVE StoreInv'
  <2>1. WriterInv' BY <1>1, <1>5, BeginKeepsWriter, SubmitKeepsWriter
  <2>2. UNCHANGED <<disk, path, opens, con, attached, acked, work>>
        /\ UNCHANGED <<path, work, paused, bounds>>
    BY <1>5 DEF Begin, Submit, store
  <2> QED BY <1>3, <1>4, <2>1, <2>2 DEF StoreInv
<1>6. ASSUME NEW l \in 1 .. Len(loops), Take(l) PROVE StoreInv'
  <2>1. WriterInv' BY <1>1, <1>6, TakeKeepsWriter
  <2>2. UNCHANGED <<disk, path, opens, con, attached, acked, work>>
        /\ UNCHANGED <<path, work, paused, bounds>>
    BY <1>6 DEF Take, store, callers
  <2> QED BY <1>3, <1>4, <2>1, <2>2 DEF StoreInv
<1>7. ASSUME NEW l \in 1 .. Len(loops), Rollback(l) PROVE StoreInv'
  <2>1. /\ Answer(l) /\ acked' \in {acked, [acked EXCEPT ![loops[l].op] = @ + 1]}
        /\ UNCHANGED <<duck, handle, held, opens, work>>
    BY <1>7 DEF Rollback, store
  <2>2. WriterInv' BY <1>1, <2>1, AnswerKeepsWriter
  <2>3. UNCHANGED <<disk, path, opens, con, attached, acked, work>>
        /\ UNCHANGED <<path, work, paused, bounds>>
    BY <1>7 DEF Rollback, store
  <2> QED BY <1>3, <1>4, <2>2, <2>3 DEF StoreInv
<1>8. ASSUME NEW l \in 1 .. Len(loops), Commit(l) PROVE StoreInv'
  <2>1. /\ Answer(l) /\ acked' \in {acked, [acked EXCEPT ![loops[l].op] = @ + 1]}
        /\ UNCHANGED <<duck, handle, held, opens, work>>
        /\ UNCHANGED <<path, work, paused, bounds>>
    BY <1>8 DEF Commit
  <2>2. WriterInv' BY <1>1, <2>1, AnswerKeepsWriter
  <2>3. FilesInv' BY <1>1, <1>8, CommitKeepsFiles
  <2> QED BY <1>3, <2>1, <2>2, <2>3 DEF StoreInv
<1> QED BY <1>2, <1>5, <1>6, <1>7, <1>8

\* An operation that is asked for when it has the files and the route to itself.
LEMMA RequestKeepsStore ==
  ASSUME StoreInv, OneByOne, NEW m \in Maintainers, Request(m) PROVE StoreInv'
<1>1. WriterInv /\ FilesInv /\ WorkInv BY DEF StoreInv
<1>2. AllAtLive /\ \A n \in Maintainers : work[n].step = "idle" BY DEF OneByOne, Busy
<1>3. WriterInv' BY <1>1, RequestKeepsWriter
<1>4. PICK kind \in {"optimise", "backup"} :
        work' = [work EXCEPT ![m] = [step |-> "accepted", kind |-> kind, on |-> 0]]
  BY DEF Request
<1>5. /\ work \in [Maintainers -> WorkRows] /\ runs \in 0 .. MaxRuns /\ MaxRuns \in Nat
      /\ faults \in 0 .. MaxFaults /\ crashes \in 0 .. MaxCrashes /\ paused \in BOOLEAN
  BY <1>1, StoreAssumption DEF WorkInv
<1>6. [step |-> "accepted", kind |-> kind, on |-> 0] \in WorkRows BY DEF WorkRows, Steps
<1>7. /\ work' \in [Maintainers -> WorkRows] /\ work'[m].step = "accepted"
      /\ \A k \in Maintainers : k # m => work'[k] = work[k]
  <2> HIDE DEF WorkRows
  <2> QED BY <1>4, <1>5, <1>6
<1>8. UNCHANGED <<disk, path, opens, con, attached, acked, paused, faults, crashes>>
      /\ runs' = runs + 1 /\ runs < MaxRuns
  BY DEF Request, store, callers
<1>9. FilesInv'
  <2>1. \A k \in Maintainers :
           \/ work'[k] = work[k]
           \/ work'[k].step \in {"idle", "restart"}
           \/ work'[k].step \in {"accepted", "draining", "quiet"} /\ AllAtLive
    BY <1>2, <1>7
  <2>2. UNCHANGED <<disk, path, opens, con, attached, acked>> BY <1>8
  <2> QED BY <1>1, <2>1, <2>2, FilesStay
<1>10. WorkInv'
  <2>1. runs' \in 0 .. MaxRuns /\ runs' # 0 BY <1>5, <1>8
  <2>2. \A k, n \in Maintainers : work'[k].step # "idle" /\ work'[n].step # "idle" => k = n
    BY <1>2, <1>7
  <2> HIDE DEF WorkRows
  <2> QED BY <1>5, <1>7, <1>8, <2>1, <2>2 DEF WorkInv, Busy
<1> QED BY <1>3, <1>9, <1>10 DEF StoreInv

\* Stopping the writer, waiting for it and starting it again leave the files alone.
LEMMA StopKeepsStore ==
  ASSUME StoreInv, NEW m \in Maintainers, Quiesce(m) \/ Drained(m) \/ Restart(m)
  PROVE  StoreInv'
<1>1. WriterInv /\ FilesInv /\ WorkInv BY DEF StoreInv
<1>2. con \in Nat /\ con <= Len(opens)
  <2>1. con \in 0 .. Len(opens) /\ Len(opens) \in Nat BY <1>1 DEF FilesInv, FilesShape
  <2> QED BY <2>1
<1>3. WriterInv' BY <1>1, <1>2, QuiesceKeepsWriter, DrainedKeepsWriter, RestartKeepsWriter
<1>4. UNCHANGED <<disk, path, opens, con, attached, acked>> /\ UNCHANGED bounds
      /\ work[m].step # "idle"
  BY DEF Quiesce, Drained, Restart, store, callers
<1>5. work \in [Maintainers -> WorkRows] /\ paused \in BOOLEAN BY <1>1 DEF WorkInv
<1>6. runs' = runs /\ crashes' = crashes /\ faults' = faults BY <1>4 DEF bounds
<1>7. ASSUME NEW s \in {"draining", "quiet"}, NEW o \in Nat, Go(m, s, o), paused' \in BOOLEAN,
             AllAtLive
      PROVE  FilesInv' /\ WorkInv'
  <2>1. s \in Steps BY DEF Steps
  <2>2. work'[m].step = s /\ \A k \in Maintainers : k # m => work'[k] = work[k]
    BY <1>1, <1>4, <1>7, <2>1, OneMovesOn
  <2>3. \A k \in Maintainers :
           \/ work'[k] = work[k]
           \/ work'[k].step \in {"idle", "restart"}
           \/ work'[k].step \in {"accepted", "draining", "quiet"} /\ AllAtLive
    BY <1>7, <2>2
  <2>4. FilesInv' BY <1>1, <1>4, <2>3, FilesStay
  <2>5. WorkInv' BY <1>1, <1>4, <1>6, <1>7, <2>1, WorkKept
  <2> QED BY <2>4, <2>5
<1>8. ASSUME work' = [work EXCEPT ![m] = Idle], paused' \in BOOLEAN PROVE FilesInv' /\ WorkInv'
  <2>1. WorkInv' /\ \A k \in Maintainers : work'[k].step = "idle"
    BY <1>1, <1>4, <1>8, WorkOver
  <2>2. \A k \in Maintainers :
           \/ work'[k] = work[k]
           \/ work'[k].step \in {"idle", "restart"}
           \/ work'[k].step \in {"accepted", "draining", "quiet"} /\ AllAtLive
    BY <2>1
  <2>3. FilesInv' BY <1>1, <1>4, <2>2, FilesStay
  <2> QED BY <2>1, <2>3
<1>9. CASE Restart(m)
  <2>1. work' = [work EXCEPT ![m] = Idle] BY <1>9 DEF Restart
  <2>2. paused' \in BOOLEAN BY <1>9 DEF Restart
  <2> QED BY <1>3, <1>8, <2>1, <2>2 DEF StoreInv
<1>10. CASE Drained(m)
  <2>1. AllAtLive BY <1>1, <1>10 DEF Drained, FilesInv, FilesFit
  <2>2. Go(m, "quiet", 0) /\ paused' = paused /\ 0 \in Nat BY <1>10 DEF Drained
  <2> QED BY <1>3, <1>5, <1>7, <2>1, <2>2 DEF StoreInv
<1>11. CASE Quiesce(m)
  <2>1. AllAtLive BY <1>1, <1>11 DEF Quiesce, FilesInv, FilesFit
  <2>2. CASE work' = [work EXCEPT ![m] = Idle] /\ paused' = paused
    BY <1>3, <1>5, <1>8, <2>2 DEF StoreInv
  <2>3. CASE paused' = TRUE /\ (Go(m, "draining", TheDuck[TheHandle].task) \/ Go(m, "quiet", 0))
    <3>1. TheDuck \in Seq(DuckRows) /\ TheHandle \in 1 .. Len(TheDuck)
      BY <1>1, HandedOut DEF WriterInv
    <3>2. TheDuck[TheHandle].task \in Nat
      <4>1. TheDuck[TheHandle] \in DuckRows
        <5> HIDE DEF DuckRows, TheDuck, TheHandle
        <5> QED BY <3>1
      <4> QED BY <4>1 DEF DuckRows
    <3>3. paused' \in BOOLEAN /\ 0 \in Nat BY <2>3
    <3> QED BY <1>3, <1>7, <2>1, <2>3, <3>2, <3>3 DEF StoreInv
  <2> QED BY <1>11, <2>2, <2>3 DEF Quiesce, writing
<1> QED BY <1>9, <1>10, <1>11

\* Rewriting and copying the files leave the writer at rest.
LEMMA RewriteKeepsStore ==
  ASSUME StoreInv, NEW m \in Maintainers,
         \/ Build(m) \/ Attach(m) \/ CopyRows(m) \/ CloseStore(m)
         \/ MoveAway(m) \/ MoveIn(m) \/ Reopen(m)
  PROVE  StoreInv'
<1>1. WriterInv /\ FilesInv /\ WorkInv BY DEF StoreInv
<1>2. FilesInv'
  BY <1>1, BuildKeepsFiles, AttachKeepsFiles, CopyKeepsFiles, CloseKeepsFiles,
     MoveAwayKeepsFiles, MoveInKeepsFiles, ReopenKeepsFiles
<1>3. /\ work[m].step \in Rewriting /\ work[m].step # "idle"
      /\ UNCHANGED <<duck, loops, at, held, acked, paused, runs, crashes>>
      /\ handle' \in {handle, 0} /\ (faults' = faults \/ Fault)
  BY DEF Build, Attach, CopyRows, CloseStore, MoveAway, MoveIn, Reopen, Rewriting, Close, Fault,
         OpenFails, writing, callers, bounds
<1>4. con \in 0 .. Len(opens) /\ Len(opens) \in Nat BY <1>1 DEF FilesInv, FilesShape
<1>5. \E s \in Rewriting : \E o \in Nat : Go(m, s, o)
  <2>1. con \in Nat /\ 0 \in Nat BY <1>4
  <2> QED BY <2>1
          DEF Build, Attach, CopyRows, CloseStore, MoveAway, MoveIn, Reopen, Fails, Rewriting
<1>6. PICK s \in Rewriting, o \in Nat : Go(m, s, o) BY <1>5
<1>7. s \in Steps BY <1>6 DEF Rewriting, Steps
<1>8. WorkInv'
  <2>1. paused' \in BOOLEAN BY <1>1, <1>3 DEF WorkInv
  <2> QED BY <1>1, <1>3, <1>6, <1>7, <2>1, WorkKept
<1>9. WriterInv'
  <2>1. work'[m].step = s /\ \A k \in Maintainers : k # m => work'[k] = work[k]
    BY <1>1, <1>3, <1>6, <1>7, OneMovesOn
  <2>2. \A k \in Maintainers :
         \/ work'[k] = work[k]
         \/ work[k].step \in Rewriting /\ work'[k].step \in Rewriting \cup {"idle"}
    BY <1>3, <1>6, <2>1
  <2>3. handle' # handle => Stopped BY <1>1, <1>3 DEF WriterInv, AtRest
  <2>4. Len(opens') \in Nat /\ Len(opens) <= Len(opens')
    <3>1. opens' = opens \/ opens' = Append(opens, path'.live)
      BY DEF Build, Attach, CopyRows, CloseStore, MoveAway, MoveIn, Reopen, Open, OpenFails
    <3>2. opens' = opens \/ Len(opens') = Len(opens) + 1
      <4>1. CASE opens' = Append(opens, path'.live)
        <5>1. opens \in Seq(Nat) /\ opens' \in Seq(Nat)
          BY <1>1, <1>2 DEF FilesInv, FilesShape
        <5>2. path'.live \in Nat
          <6>1. /\ path' \in [{"live", "compact", "before"} -> 0 .. Len(disk')]
                /\ Len(disk') \in Nat
            BY <1>2 DEF FilesInv, FilesShape
          <6> QED BY <6>1
        <5> QED BY <4>1, <5>1, <5>2, AppendProperties
      <4> QED BY <3>1, <4>1
    <3> QED BY <1>4, <3>2
  <2> QED BY <1>1, <1>3, <1>4, <2>2, <2>3, <2>4, OnlyFilesMove
<1> QED BY <1>2, <1>8, <1>9 DEF StoreInv

\* A step that changes nothing.
LEMMA StoreStutters == StoreInv /\ UNCHANGED vars => StoreInv'
<1>1. SUFFICES ASSUME StoreInv, UNCHANGED vars PROVE StoreInv' OBVIOUS
<1>2. /\ WriterShape' /\ CallersFit' /\ TasksOwned'
      /\ \A l \in 1 .. Len(loops') : LoopFits(loops'[l], l, Len(loops'), at')
      /\ \A d \in 1 .. Len(duck') : DuckFits(duck'[d], d, handle', loops')
      /\ \A m \in Maintainers : AtRest(m)'
  BY <1>1 DEF StoreInv, WriterInv, WriterShape, CallersFit, TasksOwned, AtRest, Stopped,
                    Ended, vars, store, writing, callers
<1>3. WriterInv' BY <1>2 DEF WriterInv
<1>4. FilesInv'
  BY <1>1 DEF StoreInv, FilesInv, FilesShape, AckedIsDurable, AllAtLive, Acked, Held, FilesFit,
                    vars, store, callers
<1>5. WorkInv' BY <1>1 DEF StoreInv, WorkInv, Busy, vars, store, bounds
<1> QED BY <1>3, <1>4, <1>5 DEF StoreInv

\* Every step keeps the invariant, as long as operations are asked for one by one.
LEMMA StoreStep == StoreInv /\ OneByOne /\ Next => StoreInv'
<1>1. SUFFICES ASSUME StoreInv, OneByOne, Next PROVE StoreInv' OBVIOUS
<1>2. CASE \/ \E w \in Writers : Begin(w) \/ Submit(w)
           \/ \E l \in DOMAIN loops : Take(l) \/ Commit(l) \/ Rollback(l)
  BY <1>1, <1>2, CallerKeepsStore
<1>3. CASE \E m \in Maintainers : Request(m) BY <1>1, <1>3, RequestKeepsStore
<1>4. CASE \E m \in Maintainers : Quiesce(m) \/ Drained(m) \/ Restart(m)
  BY <1>1, <1>4, StopKeepsStore
<1>5. CASE \E m \in Maintainers : \/ Build(m) \/ Attach(m) \/ CopyRows(m) \/ CloseStore(m)
                                  \/ MoveAway(m) \/ MoveIn(m) \/ Reopen(m)
  BY <1>1, <1>5, RewriteKeepsStore
<1>6. CASE Crash BY <1>1, <1>6, CrashKeepsStore
<1> QED BY <1>1, <1>2, <1>3, <1>4, <1>5, <1>6 DEF Next, Maintain

\* What the invariant says of the sequences is what the type invariant asks of them.
LEMMA StoreTyped == StoreInv => TypeOK
<1>1. SUFFICES ASSUME StoreInv PROVE TypeOK OBVIOUS
<1>2. /\ duck \in Seq(DuckRows) /\ loops \in Seq(LoopRows) /\ handle \in 0 .. Len(duck)
      /\ at \in [Writers -> {"idle", "begun", "waiting"}]
      /\ held \in [Writers -> 0 .. Len(duck)] /\ acked \in [Writers -> 0 .. MaxWrites]
      /\ \A d \in 1 .. Len(duck) : /\ duck[d].queue <= Len(loops) /\ duck[d].task <= Len(loops)
                                   /\ duck[d].cursor <= Len(opens)
      /\ \A l \in 1 .. Len(loops) : /\ loops[l].owner \in 1 .. Len(duck)
                                    /\ loops[l].cursor <= Len(opens)
  BY <1>1 DEF StoreInv, WriterInv, WriterShape
<1>3. /\ disk \in Seq(Writes) /\ path \in [{"live", "compact", "before"} -> 0 .. Len(disk)]
      /\ opens \in Seq(Nat) /\ \A c \in 1 .. Len(opens) : opens[c] \in 1 .. Len(disk)
      /\ con \in 0 .. Len(opens) /\ attached \in 0 .. Len(disk) /\ (attached # 0 => con # 0)
      /\ Len(opens) \in Nat
  BY <1>1 DEF StoreInv, FilesInv, FilesShape
<1> DEFINE D == [running : BOOLEAN, queue : 0 .. Len(loops), task : 0 .. Len(loops),
                 cursor : 0 .. Len(opens)]
           L == [owner : 1 .. Len(duck), queue : Seq(Writers \cup {"end"}),
                 op : Writers \cup {"none"}, cursor : 0 .. Len(opens), done : BOOLEAN]
<1>4. duck \in Seq(D)
  <2>1. \A d \in 1 .. Len(duck) : duck[d] \in D
    <3>1. SUFFICES ASSUME NEW d \in 1 .. Len(duck) PROVE duck[d] \in D OBVIOUS
    <3>2. duck[d] \in DuckRows
      <4> HIDE DEF DuckRows
      <4> QED BY <1>2
    <3>3. Len(loops) \in Nat BY <1>2
    <3>4. /\ duck[d].queue \in 0 .. Len(loops) /\ duck[d].task \in 0 .. Len(loops)
          /\ duck[d].cursor \in 0 .. Len(opens)
      <4>1. duck[d].queue \in Nat /\ duck[d].task \in Nat /\ duck[d].cursor \in Nat
        BY <3>2 DEF DuckRows
      <4> HIDE DEF DuckRows
      <4>2. /\ duck[d].queue <= Len(loops) /\ duck[d].task <= Len(loops)
            /\ duck[d].cursor <= Len(opens)
        BY <1>2
      <4>3. Len(opens) \in Nat BY <1>3
      <4> QED BY <3>3, <4>1, <4>2, <4>3
    <3> QED BY <3>2, <3>4 DEF DuckRows
  <2> HIDE DEF D, DuckRows
  <2>2. Len(duck) \in Nat /\ duck = [d \in 1 .. Len(duck) |-> duck[d]] BY <1>2
  <2> QED BY <2>1, <2>2
<1>5. loops \in Seq(L)
  <2>1. \A l \in 1 .. Len(loops) : loops[l] \in L
    <3>1. SUFFICES ASSUME NEW l \in 1 .. Len(loops) PROVE loops[l] \in L OBVIOUS
    <3>2. loops[l] \in LoopRows BY <1>2
    <3>3. loops[l].owner \in 1 .. Len(duck)
      <4> HIDE DEF LoopRows
      <4> QED BY <1>2
    <3>4. loops[l].cursor \in 0 .. Len(opens)
      <4>1. loops[l].cursor \in Nat BY <3>2 DEF LoopRows
      <4> HIDE DEF LoopRows
      <4>2. loops[l].cursor <= Len(opens) BY <1>2
      <4>3. Len(opens) \in Nat BY <1>3
      <4> QED BY <4>1, <4>2, <4>3
    <3> QED BY <3>2, <3>3, <3>4 DEF LoopRows
  <2> HIDE DEF L, LoopRows
  <2>2. Len(loops) \in Nat /\ loops = [l \in 1 .. Len(loops) |-> loops[l]] BY <1>2
  <2> QED BY <2>1, <2>2
<1>6. opens \in Seq(1 .. Len(disk))
  <2>1. Len(opens) \in Nat /\ opens = [c \in 1 .. Len(opens) |-> opens[c]] BY <1>3
  <2> DEFINE R == 1 .. Len(disk)
  <2>2. \A c \in 1 .. Len(opens) : opens[c] \in R BY <1>3
  <2> HIDE DEF R
  <2>3. opens \in Seq(R) BY <2>1, <2>2
  <2> QED BY <2>3 DEF R
<1>7. \A l \in DOMAIN loops : Len(loops[l].queue) <= QueueSize
  <2>1. SUFFICES ASSUME NEW l \in 1 .. Len(loops) PROVE Len(loops[l].queue) <= QueueSize
    BY <1>2
  <2>2. loops[l] \in LoopRows BY <1>2
  <2>3. loops[l].queue \in Seq(Writers \cup {"end"}) /\ QueueFits(loops[l].queue)
    BY <1>1, <2>2 DEF StoreInv, WriterInv, LoopFits, LoopRows
  <2> QED BY <2>3, QueueShort
<1>8. /\ work \in [Maintainers -> [step : Steps, kind : {"optimise", "backup"}, on : Nat]]
      /\ paused \in BOOLEAN
      /\ runs \in 0 .. MaxRuns /\ faults \in 0 .. MaxFaults /\ crashes \in 0 .. MaxCrashes
  BY <1>1 DEF StoreInv, WorkInv, WorkRows
<1> HIDE DEF D, L
<1>9. disk \in Seq(SUBSET (Writers \X (1 .. MaxWrites))) BY <1>3 DEF Writes
<1> QED BY <1>2, <1>3, <1>4, <1>5, <1>6, <1>7, <1>8, <1>9 DEF TypeOK, D, L

\* What the invariant promises.
LEMMA StorePromises == StoreInv => StoreSound
<1>1. SUFFICES ASSUME StoreInv PROVE StoreSound OBVIOUS
<1>2. /\ DOMAIN loops = 1 .. Len(loops) /\ DOMAIN duck = 1 .. Len(duck)
      /\ \A l \in 1 .. Len(loops) : LoopFits(loops[l], l, Len(loops), at)
      /\ \A m \in Maintainers : AtRest(m)
  BY <1>1 DEF StoreInv, WriterInv, WriterShape
<1>3. QuietDuringRewrite
  <2>1. SUFFICES ASSUME NEW m \in Maintainers, work[m].step \in Rewriting
                 PROVE  /\ \A d \in DOMAIN duck : ~duck[d].running
                        /\ \A l \in DOMAIN loops : loops[l].op = "none"
    BY DEF QuietDuringRewrite, Rewriting
  <2>2. Stopped /\ Ended BY <1>2, <2>1 DEF AtRest
  <2> QED BY <1>2, <2>2 DEF Stopped, Ended, LoopFits
<1>4. SingleWriter BY <1>2 DEF SingleWriter, LoopFits
<1> QED BY <1>1, <1>3, <1>4, StoreTyped DEF StoreSound, StoreInv, FilesInv

\* With at most one operation there is nothing it could be asked for beside.
LEMMA FirstIsAlone == ASSUME MaxRuns <= 1 PROVE StoreInv => OneByOne
<1>1. SUFFICES ASSUME StoreInv, NEW m \in Maintainers, Request(m)
               PROVE  AllAtLive /\ \A n \in Maintainers : ~Busy(n)
  BY DEF OneByOne
<1>2. runs \in 0 .. MaxRuns /\ runs < MaxRuns /\ MaxRuns \in Nat
  BY <1>1, StoreAssumption DEF StoreInv, WorkInv, Request
<1>3. runs = 0 BY <1>2
<1>4. AllAtLive
  <2>1. path.compact = 0 BY <1>1, <1>3 DEF StoreInv, WorkInv
  <2> QED BY <1>1, <2>1 DEF StoreInv, FilesInv, AckedIsDurable, AllAtLive, Held
<1> QED BY <1>1, <1>3, <1>4 DEF StoreInv, WorkInv

\* The market database (`DuckWriter`, `compact` and the routes that quiesce the writer), through
\* any number of kills and failing steps: while each operation is asked for after the last one is
\* over and has left what was acknowledged at market.duckdb, one task writes, none while the
\* files are copied or swapped, and a write that was acknowledged is at market.duckdb or, once
\* the renames were cut apart, at .compact.  The code asks for neither half of the hypothesis,
\* and the promise breaks without either: `SingleWriter` under two operations at once,
\* `KeptSomewhere` under one that follows a swap cut apart.
THEOREM StoreSoundOneByOne == Spec /\ [][OneByOne]_vars => []StoreSound
<1>1. Init => StoreInv BY StoreStarts
<1>2. StoreInv /\ [Next]_vars /\ [OneByOne]_vars => StoreInv' BY StoreStep, StoreStutters
<1>3. StoreInv => StoreSound BY StorePromises
<1> QED BY <1>1, <1>2, <1>3, PTL DEF Spec

\* The same of the first operation, which nothing has to be assumed of.
THEOREM StoreSoundAlways == ASSUME MaxRuns <= 1 PROVE Spec => []StoreSound
<1>1. Init => StoreInv BY StoreStarts
<1>2. StoreInv /\ [Next]_vars => StoreInv' BY StoreStep, StoreStutters, FirstIsAlone
<1>3. StoreInv => StoreSound BY StorePromises
<1> QED BY <1>1, <1>2, <1>3, PTL DEF Spec
-----------------------------------------------------------------------------
(* The event streams: the frames. *)

StreamsAssumption ==
  /\ IsFiniteSet(Readers) /\ Slots \in Nat /\ Tasks \in Nat /\ MaxRestarts \in Nat
  /\ RingCapacity \in Nat \ {0} /\ StreamQueue \in Nat \ {0}
  /\ "loop" \notin Jobs /\ Events!NoJob \notin Jobs
  /\ {"flushes_overlap", "stop_midway", "gone_before_start"} \cap Freedoms = {}

StreamRows == [at : {"off", "accepted", "on"}, replay : Seq(Nat), queue : Seq(Nat),
               first : Nat, got : Nat, dropped : Nat]

\* Frames that follow one another, from a on.
Follows(s, a) == s \in Seq(Nat) /\ \A k \in 1 .. Len(s) : s[k] = a + k - 1

\* A stream when n is the next frame: its queue ends with the last one, and its replay goes on
\* after what was delivered.
StreamFits(s, n) ==
  /\ s.at # "on" => s.replay = <<>> /\ s.queue = <<>> /\ s.got = 0 /\ s.dropped = 0
  /\ s.at = "on" =>
       /\ Follows(s.queue, n - Len(s.queue)) /\ Len(s.queue) <= StreamQueue /\ Len(s.queue) < n
       /\ Follows(s.replay, s.first + s.got)
       /\ s.first + s.got + Len(s.replay) + Len(s.queue) + s.dropped = n
\* What waits in it follows the frame its client saw last.
WaitsAfter(s, n, id) ==
  /\ id < n
  /\ s.at = "on" /\ s.replay # <<>> => id < s.first + s.got
  /\ s.at = "on" /\ s.replay = <<>> => id < n - Len(s.queue)

OpenStreams == {r \in Readers : stream[r].at # "off"}

FramesInv ==
  /\ nextId \in Nat \ {0}
  /\ Follows(ring, nextId - Len(ring)) /\ Len(ring) <= RingCapacity /\ Len(ring) < nextId
  /\ Len(ring) = 0 => nextId = 1
  /\ stream \in [Readers -> StreamRows] /\ lastId \in [Readers -> Nat] /\ stale \subseteq Readers
  /\ \A r \in Readers : StreamFits(stream[r], nextId)
  /\ \A r \in Readers \ stale : WaitsAfter(stream[r], nextId, lastId[r])
  /\ streamHeld \in 0 .. Slots /\ streamHeld = Cardinality(OpenStreams)

\* What a stream accounts for, with one frame more.
LEMMA OneMore ==
  ASSUME NEW a \in Nat, NEW b \in Nat, NEW c \in Nat, NEW d \in Nat, NEW e \in Nat, NEW n \in Nat,
         a + b + c + d + e = n
  PROVE  a + b + c + (d + 1) + e = n + 1 /\ a + b + c + d + (e + 1) = n + 1
OBVIOUS

\* One frame more at the end, and one fewer at the start.
LEMMA FollowsAppend ==
  ASSUME NEW s, NEW a \in Nat, Follows(s, a)
  PROVE  /\ Follows(Append(s, a + Len(s)), a) /\ Len(Append(s, a + Len(s))) = Len(s) + 1
         /\ Len(s) \in Nat
<1>1. s \in Seq(Nat) /\ Len(s) \in Nat BY LenProperties DEF Follows
<1> DEFINE x == a + Len(s)
           t == Append(s, x)
<1>2. x \in Nat BY <1>1
<1>3. /\ t \in Seq(Nat) /\ Len(t) = Len(s) + 1
      /\ \A i \in 1 .. Len(s) : t[i] = s[i]
      /\ t[Len(s) + 1] = x
  BY <1>1, <1>2, AppendProperties
<1>4. x = a + (Len(s) + 1) - 1 BY <1>1
<1> HIDE DEF t, x
<1>5. \A k \in 1 .. Len(t) : t[k] = a + k - 1
  <2>1. SUFFICES ASSUME NEW k \in 1 .. Len(t) PROVE t[k] = a + k - 1 OBVIOUS
  <2>2. CASE k \in 1 .. Len(s) BY <1>3, <2>2 DEF Follows
  <2>3. CASE k = Len(s) + 1 BY <1>3, <1>4, <2>3
  <2> QED BY <1>1, <1>3, <2>1, <2>2, <2>3
<1>6. Follows(t, a) BY <1>3, <1>5 DEF Follows
<1> QED BY <1>1, <1>3, <1>6 DEF t, x

\* One fewer at the start.
LEMMA FollowsTail ==
  ASSUME NEW s, NEW a \in Nat, Follows(s, a), s # <<>>
  PROVE  /\ Follows(Tail(s), a + 1) /\ Len(Tail(s)) = Len(s) - 1 /\ Len(s) \in Nat \ {0}
         /\ Head(s) = a
<1>1. s \in Seq(Nat) /\ Len(s) \in Nat \ {0} BY EmptySeq DEF Follows
<1>2. /\ Tail(s) \in Seq(Nat) /\ Len(Tail(s)) = Len(s) - 1
      /\ \A i \in 1 .. Len(Tail(s)) : Tail(s)[i] = s[i + 1]
  BY <1>1, HeadTailProperties
<1>3. Head(s) = s[1] BY <1>1
<1>4. s[1] = a BY <1>1 DEF Follows
<1>5. \A k \in 1 .. Len(Tail(s)) : Tail(s)[k] = (a + 1) + k - 1
  <2>1. SUFFICES ASSUME NEW k \in 1 .. Len(Tail(s)) PROVE Tail(s)[k] = (a + 1) + k - 1 OBVIOUS
  <2>2. k + 1 \in 1 .. Len(s) /\ k \in Nat BY <1>1, <1>2
  <2>3. s[k + 1] = a + (k + 1) - 1 BY <2>2 DEF Follows
  <2> QED BY <1>2, <2>2, <2>3
<1> QED BY <1>1, <1>2, <1>3, <1>4, <1>5 DEF Follows

\* No frames follow from anywhere.
LEMMA NothingFollows == \A a : Follows(<<>>, a) /\ Len(<<>>) = 0
BY EmptySeq DEF Follows

\* A frame offered to a stream is waiting there, if need be in place of its oldest.
LEMMA OfferFits ==
  ASSUME StreamsAssumption, NEW s \in StreamRows, s.at = "on", NEW n \in Nat \ {0},
         StreamFits(s, n)
  PROVE  /\ Events!Offer(s, n) \in StreamRows /\ Events!Offer(s, n).at = "on"
         /\ StreamFits(Events!Offer(s, n), n + 1)
         /\ \A id \in Nat : WaitsAfter(s, n, id) => WaitsAfter(Events!Offer(s, n), n + 1, id)
<1> DEFINE o == Events!Offer(s, n)
           q == s.queue
<1>1. /\ Follows(q, n - Len(q)) /\ Len(q) <= StreamQueue /\ Len(q) < n
      /\ Follows(s.replay, s.first + s.got)
      /\ s.first + s.got + Len(s.replay) + Len(q) + s.dropped = n
  BY DEF StreamFits
<1>2. /\ s.first \in Nat /\ s.got \in Nat /\ s.dropped \in Nat
      /\ s.replay \in Seq(Nat) /\ q \in Seq(Nat)
  BY DEF StreamRows
<1>3. Len(q) \in Nat /\ Len(s.replay) \in Nat BY <1>2, LenProperties
<1>4. StreamQueue \in Nat \ {0} BY DEF StreamsAssumption
<1>9. /\ s.first + s.got + Len(s.replay) + (Len(q) + 1) + s.dropped = n + 1
      /\ s.first + s.got + Len(s.replay) + Len(q) + (s.dropped + 1) = n + 1
  <2> DEFINE a == s.first
             b == s.got
             c == Len(s.replay)
             d == Len(q)
             e == s.dropped
  <2>1. a \in Nat /\ b \in Nat /\ c \in Nat /\ d \in Nat /\ e \in Nat BY <1>2, <1>3
  <2>2. a + b + c + d + e = n BY <1>1
  <2> HIDE DEF a, b, c, d, e
  <2>3. a + b + c + (d + 1) + e = n + 1 /\ a + b + c + d + (e + 1) = n + 1
    BY <2>1, <2>2, OneMore
  <2> QED BY <2>3 DEF a, b, c, d, e
<1> DEFINE h == n - Len(q)
           t == Tail(q)
<1>5. h \in Nat /\ n = h + Len(q) /\ h + 1 \in Nat BY <1>1, <1>3
<1>6. Follows(q, h) BY <1>1
<1>7. CASE Len(q) < StreamQueue
  <2> DEFINE p == Append(q, n)
  <2>1. o = [s EXCEPT !.queue = p] BY <1>7 DEF Events!Offer
  <2>2. Follows(p, h) /\ Len(p) = Len(q) + 1
    <3> HIDE DEF q, h
    <3>1. Follows(Append(q, h + Len(q)), h) /\ Len(Append(q, h + Len(q))) = Len(q) + 1
      BY <1>5, <1>6, FollowsAppend
    <3> QED BY <1>5, <3>1
  <2> HIDE DEF p, o
  <2>3. p \in Seq(Nat) BY <2>2 DEF Follows
  <2>4. /\ o \in StreamRows /\ o.at = "on" /\ o.queue = p /\ o.replay = s.replay
        /\ o.first = s.first /\ o.got = s.got /\ o.dropped = s.dropped
    BY <2>1, <2>3 DEF StreamRows
  <2>5. (n + 1) - Len(p) = h /\ Len(p) <= StreamQueue /\ Len(p) < n + 1
    BY <1>1, <1>3, <1>4, <1>7, <2>2
  <2>6. Follows(p, (n + 1) - Len(p)) BY <2>2, <2>5
  <2>7. s.first + s.got + Len(s.replay) + Len(p) + s.dropped = n + 1
    BY <1>9, <2>2
  <2>8. StreamFits(o, n + 1) BY <1>1, <2>4, <2>5, <2>6, <2>7 DEF StreamFits
  <2>9. \A id \in Nat : WaitsAfter(s, n, id) => WaitsAfter(o, n + 1, id)
    BY <2>4, <2>5 DEF WaitsAfter
  <2> QED BY <2>4, <2>8, <2>9 DEF o
<1>8. CASE ~(Len(q) < StreamQueue)
  <2> DEFINE p == Append(t, n)
  <2>1. o = [s EXCEPT !.queue = p, !.dropped = s.dropped + 1] BY <1>8 DEF Events!Offer
  <2>2. Len(q) = StreamQueue /\ q # <<>> BY <1>1, <1>2, <1>3, <1>4, <1>8, EmptySeq
  <2>3. Follows(t, h + 1) /\ Len(t) = Len(q) - 1 /\ Len(t) \in Nat
    <3> HIDE DEF q, h
    <3>1. Follows(Tail(q), h + 1) /\ Len(Tail(q)) = Len(q) - 1 /\ Len(q) \in Nat \ {0}
      BY <1>5, <1>6, <2>2, FollowsTail
    <3> QED BY <3>1
  <2>4. Follows(p, h + 1) /\ Len(p) = Len(t) + 1
    <3> HIDE DEF q, h, t
    <3>1. /\ Follows(Append(t, (h + 1) + Len(t)), h + 1)
          /\ Len(Append(t, (h + 1) + Len(t))) = Len(t) + 1
      BY <1>5, <2>3, FollowsAppend
    <3>2. n = (h + 1) + Len(t) BY <1>3, <1>5, <2>3
    <3> QED BY <3>1, <3>2
  <2> HIDE DEF p, o, t
  <2>5. p \in Seq(Nat) BY <2>4 DEF Follows
  <2>6. /\ o \in StreamRows /\ o.at = "on" /\ o.queue = p /\ o.replay = s.replay
        /\ o.first = s.first /\ o.got = s.got /\ o.dropped = s.dropped + 1
    <3> DEFINE d == s.dropped + 1
    <3>1. d \in Nat /\ o = [s EXCEPT !.queue = p, !.dropped = d] BY <1>2, <2>1
    <3> HIDE DEF d
    <3>2. /\ o \in StreamRows /\ o.at = "on" /\ o.queue = p /\ o.replay = s.replay
          /\ o.first = s.first /\ o.got = s.got /\ o.dropped = d
      BY <2>5, <3>1 DEF StreamRows
    <3> QED BY <3>2 DEF d
  <2>7. Len(p) = Len(q) /\ (n + 1) - Len(p) = h + 1 /\ Len(p) < n + 1
    BY <1>1, <1>3, <2>3, <2>4
  <2>8. Follows(p, (n + 1) - Len(p)) BY <2>4, <2>7
  <2>9. s.first + s.got + Len(s.replay) + Len(p) + (s.dropped + 1) = n + 1
    BY <1>9, <2>7
  <2>10. StreamFits(o, n + 1) BY <1>1, <2>6, <2>7, <2>8, <2>9 DEF StreamFits
  <2>11. \A id \in Nat : WaitsAfter(s, n, id) => WaitsAfter(o, n + 1, id)
    BY <1>3, <2>6, <2>7 DEF WaitsAfter
  <2> QED BY <2>6, <2>10, <2>11 DEF o
<1> QED BY <1>7, <1>8

\* A frame passes a stream that is not on.
LEMMA NotOnFits ==
  ASSUME NEW s, s.at # "on", NEW n \in Nat
  PROVE  /\ StreamFits(s, n) => StreamFits(s, n + 1)
         /\ \A id \in Nat : WaitsAfter(s, n, id) => WaitsAfter(s, n + 1, id)
<1>1. StreamFits(s, n) => StreamFits(s, n + 1) BY Zenon DEF StreamFits
<1>2. \A id \in Nat : id < n => id < n + 1 OBVIOUS
<1>3. \A id \in Nat : WaitsAfter(s, n, id) => WaitsAfter(s, n + 1, id)
  BY <1>2, Zenon DEF WaitsAfter
<1> QED BY <1>1, <1>3
\* The ring keeps its capacity of the newest frames.
LEMMA RingKeeps ==
  ASSUME StreamsAssumption, FramesInv, NEW j, NEW fields, Events!Publish(j, fields)
  PROVE  /\ Follows(ring', nextId' - Len(ring')) /\ Len(ring') <= RingCapacity
         /\ Len(ring') < nextId' /\ Len(ring') # 0
<1> DEFINE all == Append(ring, nextId)
           h == nextId - Len(ring)
<1>1. /\ nextId \in Nat /\ RingCapacity \in Nat \ {0} /\ Len(ring) <= RingCapacity
      /\ Follows(ring, h) /\ Len(ring) < nextId
  BY DEF FramesInv, StreamsAssumption
<1>2. Len(ring) \in Nat BY <1>1, LenProperties DEF Follows
<1>3. h \in Nat /\ h # 0 /\ nextId = h + Len(ring) /\ h + 1 \in Nat BY <1>1, <1>2
<1>4. ring' = (IF Len(all) > RingCapacity THEN Tail(all) ELSE all) /\ nextId' = nextId + 1
  BY DEF Events!Publish
<1>5. Follows(all, h) /\ Len(all) = Len(ring) + 1
  <2> HIDE DEF h
  <2>1. Follows(Append(ring, h + Len(ring)), h) /\ Len(Append(ring, h + Len(ring))) = Len(ring) + 1
    BY <1>1, <1>3, FollowsAppend
  <2> QED BY <1>3, <2>1
<1>6. all # <<>>
  <2> HIDE DEF all, h
  <2>1. Len(all) # 0 BY <1>2, <1>5
  <2> QED BY <2>1, NothingFollows
<1>7. /\ Follows(Tail(all), h + 1) /\ Len(Tail(all)) = Len(all) - 1
  <2> HIDE DEF h, all
  <2>1. /\ Follows(Tail(all), h + 1) /\ Len(Tail(all)) = Len(all) - 1
        /\ Len(all) \in Nat \ {0} /\ Head(all) = h
    BY <1>3, <1>5, <1>6, FollowsTail
  <2> QED BY <2>1
<1> DEFINE n == Len(ring)
<1>8. /\ n \in Nat /\ n < nextId /\ n <= RingCapacity /\ nextId = h + n
      /\ Len(all) = n + 1 /\ Len(Tail(all)) = n
  BY <1>1, <1>2, <1>3, <1>5, <1>7
<1>9. CASE Len(all) > RingCapacity
  <2>1. ring' = Tail(all) BY <1>4, <1>9
  <2>2. Len(ring') = n /\ Follows(ring', h + 1) BY <1>7, <1>8, <2>1
  <2> HIDE DEF all, h, n
  <2>3. nextId' - n = h + 1 /\ n < nextId' /\ n # 0 BY <1>1, <1>3, <1>4, <1>8, <1>9
  <2> QED BY <1>8, <2>2, <2>3
<1>10. CASE ~(Len(all) > RingCapacity)
  <2>1. ring' = all BY <1>4, <1>10
  <2>2. Len(ring') = n + 1 /\ Follows(ring', h) BY <1>5, <1>8, <2>1
  <2> HIDE DEF all, h, n
  <2>3. nextId' - (n + 1) = h /\ n + 1 < nextId' /\ n + 1 <= RingCapacity /\ n + 1 # 0
    BY <1>1, <1>3, <1>4, <1>8, <1>10
  <2> QED BY <2>2, <2>3
<1> QED BY <1>9, <1>10

\* A frame published: it ends the ring and every queue.
LEMMA FramesPublish ==
  ASSUME StreamsAssumption, FramesInv, NEW j, NEW fields, Events!Publish(j, fields),
         UNCHANGED <<lastId, stale, streamHeld>>
  PROVE  FramesInv'
<1>1. /\ Follows(ring', nextId' - Len(ring')) /\ Len(ring') <= RingCapacity
      /\ Len(ring') < nextId' /\ Len(ring') # 0
  BY RingKeeps
<1>2. /\ nextId \in Nat \ {0} /\ nextId' = nextId + 1 /\ nextId' \in Nat \ {0}
      /\ stream \in [Readers -> StreamRows]
  BY DEF FramesInv, Events!Publish
<1>3. stream' = [r \in Readers |->
                   IF stream[r].at = "on" THEN Events!Offer(stream[r], nextId) ELSE stream[r]]
  BY DEF Events!Publish
<1>4. \A r \in Readers : /\ stream'[r] \in StreamRows /\ stream'[r].at = stream[r].at
                         /\ StreamFits(stream'[r], nextId')
                         /\ \A id \in Nat : WaitsAfter(stream[r], nextId, id)
                                              => WaitsAfter(stream'[r], nextId', id)
  <2>1. SUFFICES ASSUME NEW r \in Readers
                 PROVE  /\ stream'[r] \in StreamRows /\ stream'[r].at = stream[r].at
                        /\ StreamFits(stream'[r], nextId')
                        /\ \A id \in Nat : WaitsAfter(stream[r], nextId, id)
                                             => WaitsAfter(stream'[r], nextId', id)
    OBVIOUS
  <2> DEFINE s == stream[r]
  <2>2. s \in StreamRows /\ StreamFits(s, nextId) BY <1>2 DEF FramesInv
  <2>3. stream'[r] = IF s.at = "on" THEN Events!Offer(s, nextId) ELSE s BY <1>3
  <2> HIDE DEF s
  <2>4. CASE s.at = "on"
    <3>1. /\ Events!Offer(s, nextId) \in StreamRows /\ Events!Offer(s, nextId).at = "on"
          /\ StreamFits(Events!Offer(s, nextId), nextId + 1)
          /\ \A id \in Nat : WaitsAfter(s, nextId, id)
                               => WaitsAfter(Events!Offer(s, nextId), nextId + 1, id)
      BY <1>2, <2>2, <2>4, OfferFits
    <3>2. stream'[r] = Events!Offer(s, nextId) BY <2>3, <2>4
    <3> QED BY <1>2, <2>4, <3>1, <3>2 DEF s
  <2>5. CASE s.at # "on"
    <3>1. /\ StreamFits(s, nextId) => StreamFits(s, nextId + 1)
          /\ \A id \in Nat : WaitsAfter(s, nextId, id) => WaitsAfter(s, nextId + 1, id)
      BY <1>2, <2>5, NotOnFits
    <3>2. stream'[r] = s BY <2>3, <2>5
    <3> QED BY <1>2, <2>2, <3>1, <3>2 DEF s
  <2> QED BY <2>4, <2>5
<1>5. stream' \in [Readers -> StreamRows] BY <1>3, <1>4
<1>6. OpenStreams' = OpenStreams BY <1>4 DEF OpenStreams
<1>7. \A r \in Readers \ stale : WaitsAfter(stream'[r], nextId', lastId[r])
  BY <1>4 DEF FramesInv
<1>8. /\ lastId' = lastId /\ stale' = stale /\ streamHeld' = streamHeld
      /\ lastId \in [Readers -> Nat] /\ stale \subseteq Readers
      /\ streamHeld \in 0 .. Slots /\ streamHeld = Cardinality(OpenStreams)
  BY DEF FramesInv
<1> QED BY <1>1, <1>2, <1>4, <1>5, <1>6, <1>7, <1>8 DEF FramesInv

\* A slot taken.
LEMMA FramesConnect ==
  ASSUME StreamsAssumption, FramesInv, NEW r \in Readers, Events!Connect(r)
  PROVE  FramesInv'
<1> DEFINE s == [stream[r] EXCEPT !.at = "accepted"]
<1>1. /\ stream' = [stream EXCEPT ![r] = s] /\ stream[r].at = "off"
      /\ streamHeld' = streamHeld + 1 /\ streamHeld < Slots
      /\ UNCHANGED <<ring, nextId, lastId, stale>>
  BY DEF Events!Connect, Events!busVars
<1>2. stream \in [Readers -> StreamRows] /\ StreamFits(stream[r], nextId) BY DEF FramesInv
<1>3. stream[r] \in StreamRows BY <1>2
<1>4. /\ s \in StreamRows /\ s.at = "accepted" /\ s.replay = stream[r].replay
      /\ s.queue = stream[r].queue /\ s.got = stream[r].got /\ s.dropped = stream[r].dropped
  BY <1>3 DEF StreamRows
<1> HIDE DEF s
<1>5. StreamFits(s, nextId) BY <1>1, <1>2, <1>4, Zenon DEF StreamFits
<1>6. \A id \in Nat : id < nextId => WaitsAfter(s, nextId, id) BY <1>4, Zenon DEF WaitsAfter
<1>7. stream' \in [Readers -> StreamRows] /\ stream'[r] = s
      /\ \A x \in Readers \ {r} : stream'[x] = stream[x]
  BY <1>1, <1>2, <1>4
<1>8. OpenStreams' = OpenStreams \cup {r} /\ r \notin OpenStreams
  BY <1>1, <1>4, <1>7 DEF OpenStreams
<1>9. Cardinality(OpenStreams') = Cardinality(OpenStreams) + 1
  <2>1. IsFiniteSet(OpenStreams) BY FS_Subset DEF StreamsAssumption, OpenStreams
  <2> QED BY <1>8, <2>1, FS_AddElement
<1>10. \A x \in Readers : StreamFits(stream'[x], nextId)
  BY <1>5, <1>7 DEF FramesInv
<1>11. \A x \in Readers \ stale : WaitsAfter(stream'[x], nextId, lastId[x])
  <2>1. \A x \in Readers \ stale : WaitsAfter(stream[x], nextId, lastId[x]) /\ lastId[x] \in Nat
    BY DEF FramesInv
  <2>2. \A x \in Readers \ stale : lastId[x] < nextId BY <2>1 DEF WaitsAfter
  <2> QED BY <1>6, <1>7, <2>1, <2>2
<1>12. streamHeld' \in 0 .. Slots /\ streamHeld' = Cardinality(OpenStreams')
  BY <1>1, <1>9 DEF FramesInv, StreamsAssumption
<1> QED BY <1>1, <1>7, <1>10, <1>11, <1>12 DEF FramesInv

\* A client gone gives its slot back.
LEMMA FramesLeave ==
  ASSUME StreamsAssumption, FramesInv, NEW r \in Readers, Events!Leave(r)
  PROVE  FramesInv'
<1> DEFINE s == Events!NoStream
<1>1. /\ stream' = [stream EXCEPT ![r] = s] /\ stream[r].at = "on"
      /\ streamHeld' = streamHeld - 1
      /\ UNCHANGED <<ring, nextId, lastId, stale>>
  BY DEF Events!Leave, Events!busVars, StreamsAssumption, Events!Allowed
<1>2. stream \in [Readers -> StreamRows] BY DEF FramesInv
<1>3. /\ s \in StreamRows /\ s.at = "off" /\ s.replay = <<>>
      /\ s.queue = <<>> /\ s.got = 0 /\ s.dropped = 0
  BY EmptySeq DEF StreamRows, Events!NoStream
<1> HIDE DEF s
<1>5. StreamFits(s, nextId) BY <1>3, Zenon DEF StreamFits
<1>6. \A id \in Nat : id < nextId => WaitsAfter(s, nextId, id) BY <1>3, Zenon DEF WaitsAfter
<1>7. stream' \in [Readers -> StreamRows] /\ stream'[r] = s
      /\ \A x \in Readers \ {r} : stream'[x] = stream[x]
  BY <1>1, <1>2, <1>3
<1>8. OpenStreams' = OpenStreams \ {r} /\ r \in OpenStreams
  BY <1>1, <1>3, <1>7 DEF OpenStreams
<1>9. Cardinality(OpenStreams') = Cardinality(OpenStreams) - 1 /\ Cardinality(OpenStreams') \in Nat
  <2>1. IsFiniteSet(OpenStreams) BY FS_Subset DEF StreamsAssumption, OpenStreams
  <2>2. IsFiniteSet(OpenStreams \ {r})
        /\ Cardinality(OpenStreams \ {r}) = Cardinality(OpenStreams) - 1
    BY <1>8, <2>1, FS_RemoveElement
  <2> QED BY <1>8, <2>2, FS_CardinalityType
<1>10. \A x \in Readers : StreamFits(stream'[x], nextId)
  BY <1>5, <1>7 DEF FramesInv
<1>11. \A x \in Readers \ stale : WaitsAfter(stream'[x], nextId, lastId[x])
  <2>1. \A x \in Readers \ stale : WaitsAfter(stream[x], nextId, lastId[x]) /\ lastId[x] \in Nat
    BY DEF FramesInv
  <2>2. \A x \in Readers \ stale : lastId[x] < nextId BY <2>1 DEF WaitsAfter
  <2> QED BY <1>6, <1>7, <2>1, <2>2
<1>12. streamHeld' \in 0 .. Slots /\ streamHeld' = Cardinality(OpenStreams')
  BY <1>1, <1>9 DEF FramesInv, StreamsAssumption
<1> QED BY <1>1, <1>7, <1>10, <1>11, <1>12 DEF FramesInv

\* The frame a stream delivers next is the one after those it delivered; what stays fits.
LEMMA DeliverFits ==
  ASSUME StreamsAssumption, NEW s \in StreamRows, s.at = "on", NEW n \in Nat \ {0}, StreamFits(s, n),
         s.replay \o s.queue # <<>>,
         NEW d, d = [s EXCEPT !.got = s.got + 1,
                              !.queue = IF s.replay = <<>> THEN Tail(s.queue) ELSE s.queue,
                              !.replay = IF s.replay = <<>> THEN <<>> ELSE Tail(s.replay)]
  PROVE  /\ d \in StreamRows /\ d.at = "on" /\ StreamFits(d, n)
         /\ Head(s.replay \o s.queue) \in Nat
         /\ WaitsAfter(d, n, Head(s.replay \o s.queue))
<1> DEFINE q == s.queue
           p == s.replay
           a == s.first + s.got
           b == n - Len(q)
           id == Head(p \o q)
<1>1. /\ Follows(q, b) /\ Len(q) <= StreamQueue /\ Len(q) < n /\ Follows(p, a)
      /\ s.first + s.got + Len(p) + Len(q) + s.dropped = n
  BY DEF StreamFits
<1>2. /\ s.first \in Nat /\ s.got \in Nat /\ s.dropped \in Nat /\ p \in Seq(Nat) /\ q \in Seq(Nat)
  BY DEF StreamRows
<1>3. Len(q) \in Nat /\ Len(p) \in Nat BY <1>2, LenProperties
<1>4. /\ a \in Nat /\ b \in Nat /\ a + 1 = s.first + (s.got + 1) /\ b + 1 = n - (Len(q) - 1)
      /\ s.first + (s.got + 1) + (Len(p) - 1) + Len(q) + s.dropped = n
      /\ s.first + (s.got + 1) + Len(p) + (Len(q) - 1) + s.dropped = n
      /\ Len(p) # 0 => a < n /\ a < n - Len(q) /\ a < s.first + (s.got + 1)
      /\ Len(q) # 0 => b < n
  <2> DEFINE f == s.first
             g == s.got
             m == Len(p)
             k == Len(q)
             e == s.dropped
  <2>0. f \in Nat /\ g \in Nat /\ m \in Nat /\ k \in Nat /\ e \in Nat /\ n \in Nat
    BY <1>2, <1>3
  <2>1. f + g + m + k + e = n BY <1>1
  <2> HIDE DEF f, g, m, k, e
  <2>2. f + g \in Nat /\ n - k \in Nat BY <2>0, <2>1
  <2>3. (f + g) + 1 = f + (g + 1) /\ (n - k) + 1 = n - (k - 1) BY <2>0
  <2>4. f + (g + 1) + (m - 1) + k + e = n BY <2>0, <2>1
  <2>5. f + (g + 1) + m + (k - 1) + e = n BY <2>0, <2>1
  <2>6. m # 0 => f + g < n /\ f + g < n - k /\ f + g < f + (g + 1)
    <3>1. m # 0 => m > 0 BY <2>0
    <3>2. f + g + m + k <= n BY <2>0, <2>1
    <3>3. f + g + k <= n - m BY <2>0, <3>2
    <3> QED BY <2>0, <3>1, <3>3
  <2>7. k # 0 => n - k < n BY <2>0
  <2> QED BY <2>2, <2>3, <2>4, <2>5, <2>6, <2>7 DEF f, g, m, k, e
<1>5. p \o q # <<>> OBVIOUS
<1> DEFINE k == Len(q)
           m == Len(p)
<1>6. a + m + k + s.dropped = n /\ b = n - k /\ k \in Nat /\ m \in Nat /\ k < n /\ k <= StreamQueue
  BY <1>1, <1>2, <1>3
<1>7. CASE p = <<>>
  <2> DEFINE t == Tail(q)
             g == s.got + 1
  <2>1. q # <<>> BY <1>2, <1>5, <1>7, ConcatEmptySeq
  <2>2. id = Head(q) BY <1>2, <1>7, ConcatEmptySeq
  <2>3. Follows(t, b + 1) /\ Len(t) = k - 1 /\ k \in Nat \ {0} /\ Head(q) = b
    <3> HIDE DEF q, b
    <3>1. /\ Follows(Tail(q), b + 1) /\ Len(Tail(q)) = Len(q) - 1 /\ Len(q) \in Nat \ {0}
          /\ Head(q) = b
      BY <1>1, <1>4, <2>1, FollowsTail
    <3> QED BY <3>1
  <2>4. t \in Seq(Nat) /\ g \in Nat BY <1>2, <2>3 DEF Follows
  <2>5. d = [s EXCEPT !.got = g, !.queue = t, !.replay = <<>>] BY <1>7
  <2>6. <<>> \in Seq(Nat) BY EmptySeq
  <2>7. m = 0 BY <1>7, NothingFollows
  <2> HIDE DEF t, g, p, q, id
  <2>8. /\ d \in StreamRows /\ d.at = "on" /\ d.got = g /\ d.queue = t /\ d.replay = <<>>
        /\ d.first = s.first /\ d.dropped = s.dropped
    BY <2>4, <2>5, <2>6 DEF StreamRows
  <2>9. n - Len(t) = b + 1
    <3> HIDE DEF k, b
    <3> QED BY <1>6, <2>3
  <2>10. Len(t) <= StreamQueue /\ Len(t) < n
    <3>1. k \in Nat /\ k <= StreamQueue /\ k < n /\ StreamQueue \in Nat
      BY <1>6 DEF StreamsAssumption
    <3> HIDE DEF k
    <3> QED BY <2>3, <3>1
  <2>11. s.first + g + 0 + Len(t) + s.dropped = n
    <3>1. s.first + (s.got + 1) + m + (k - 1) + s.dropped = n BY <1>4 DEF p, q
    <3> QED BY <2>3, <2>7, <3>1 DEF g
  <2>12. StreamFits(d, n)
    <3>1. Len(<<>>) = 0 /\ Follows(<<>>, d.first + d.got) BY NothingFollows
    <3>2. Follows(t, n - Len(t)) BY <2>3, <2>9
    <3> QED BY <2>8, <2>10, <2>11, <3>1, <3>2 DEF StreamFits
  <2>13. id = b /\ id \in Nat /\ id < n BY <1>4, <1>6, <2>2, <2>3
  <2>14. WaitsAfter(d, n, id) BY <2>8, <2>9, <2>13 DEF WaitsAfter
  <2> QED BY <2>8, <2>12, <2>13, <2>14 DEF id, p, q
<1>8. CASE p # <<>>
  <2> DEFINE t == Tail(p)
             g == s.got + 1
  <2>1. Follows(t, a + 1) /\ Len(t) = m - 1 /\ m \in Nat \ {0} /\ Head(p) = a
    <3> HIDE DEF p, a
    <3>1. /\ Follows(Tail(p), a + 1) /\ Len(Tail(p)) = Len(p) - 1 /\ Len(p) \in Nat \ {0}
          /\ Head(p) = a
      BY <1>1, <1>4, <1>8, FollowsTail
    <3> QED BY <3>1
  <2>2. id = Head(p)
    <3> HIDE DEF p, q
    <3>1. /\ p \o q \in Seq(Nat) /\ Len(p \o q) = Len(p) + Len(q)
          /\ \A i \in 1 .. Len(p) + Len(q) :
               (p \o q)[i] = IF i <= Len(p) THEN p[i] ELSE q[i - Len(p)]
      BY <1>2, ConcatProperties
    <3>2. 1 \in 1 .. Len(p) + Len(q) /\ 1 <= Len(p) BY <1>3, <2>1
    <3>3. (p \o q)[1] = p[1] BY <3>1, <3>2
    <3>4. Head(p \o q) = (p \o q)[1] /\ Head(p) = p[1] BY <1>2, <1>5, <1>8, <3>1
    <3> QED BY <3>3, <3>4
  <2>4. t \in Seq(Nat) /\ g \in Nat BY <1>2, <2>1 DEF Follows
  <2>5. d = [s EXCEPT !.got = g, !.queue = q, !.replay = t] BY <1>8
  <2> HIDE DEF t, g, p, q, id
  <2>8. /\ d \in StreamRows /\ d.at = "on" /\ d.got = g /\ d.queue = q /\ d.replay = t
        /\ d.first = s.first /\ d.dropped = s.dropped
    BY <1>2, <2>4, <2>5 DEF StreamRows
  <2>9. s.first + g = a + 1 BY <1>4 DEF g
  <2>11. s.first + g + Len(t) + k + s.dropped = n
    <3>1. s.first + (s.got + 1) + (m - 1) + k + s.dropped = n BY <1>4 DEF p, q
    <3> QED BY <2>1, <3>1 DEF g
  <2>12. StreamFits(d, n)
    <3>1. Follows(t, s.first + g) BY <2>1, <2>9
    <3>2. Follows(q, n - Len(q)) /\ Len(q) <= StreamQueue /\ Len(q) < n BY <1>1
    <3> QED BY <2>8, <2>11, <3>1, <3>2 DEF StreamFits
  <2>13. id = a /\ id \in Nat BY <1>4, <2>1, <2>2
  <2>14. id < n /\ id < s.first + g /\ id < n - Len(q)
    <3>1. m # 0 BY <2>1
    <3> QED BY <1>4, <2>13, <3>1 DEF g
  <2>15. WaitsAfter(d, n, id) BY <2>8, <2>14 DEF WaitsAfter
  <2> QED BY <2>8, <2>12, <2>13, <2>15 DEF id, p, q
<1> QED BY <1>7, <1>8

\* A frame delivered.
LEMMA FramesDeliver ==
  ASSUME StreamsAssumption, FramesInv, NEW r \in Readers, Events!Deliver(r)
  PROVE  FramesInv'
<1> DEFINE s == stream[r]
           d == [s EXCEPT !.got = s.got + 1,
                          !.queue = IF s.replay = <<>> THEN Tail(s.queue) ELSE s.queue,
                          !.replay = IF s.replay = <<>> THEN <<>> ELSE Tail(s.replay)]
           id == Head(s.replay \o s.queue)
<1>1. /\ s.at = "on" /\ s.replay \o s.queue # <<>>
      /\ lastId' = [lastId EXCEPT ![r] = id] /\ stale' = stale \ {r}
      /\ UNCHANGED <<ring, nextId, streamHeld>>
  BY DEF Events!Deliver, Events!busVars, Events!Waiting
<1>2. /\ stream \in [Readers -> StreamRows] /\ lastId \in [Readers -> Nat] /\ stale \subseteq Readers
      /\ nextId \in Nat \ {0} /\ s \in StreamRows /\ StreamFits(s, nextId)
  BY DEF FramesInv
<1>3. stream' = [stream EXCEPT ![r] = d]
  BY <1>2 DEF Events!Deliver
<1>4. d \in StreamRows /\ d.at = "on" /\ StreamFits(d, nextId) /\ id \in Nat /\ WaitsAfter(d, nextId, id)
  <2> HIDE DEF s
  <2>1. /\ d \in StreamRows /\ d.at = "on" /\ StreamFits(d, nextId)
        /\ Head(s.replay \o s.queue) \in Nat
        /\ WaitsAfter(d, nextId, Head(s.replay \o s.queue))
    BY <1>1, <1>2, DeliverFits
  <2> QED BY <2>1
<1> HIDE DEF s, d, id
<1>5. stream' \in [Readers -> StreamRows] /\ stream'[r] = d
      /\ \A x \in Readers \ {r} : stream'[x] = stream[x]
  BY <1>2, <1>3, <1>4
<1>6. lastId' \in [Readers -> Nat] /\ lastId'[r] = id
      /\ \A x \in Readers \ {r} : lastId'[x] = lastId[x]
  BY <1>1, <1>2, <1>4
<1>7. OpenStreams' = OpenStreams BY <1>1, <1>4, <1>5 DEF OpenStreams, s
<1>8. \A x \in Readers : StreamFits(stream'[x], nextId) BY <1>4, <1>5 DEF FramesInv
<1>9. \A x \in Readers \ (stale \ {r}) : WaitsAfter(stream'[x], nextId, lastId'[x])
  BY <1>4, <1>5, <1>6 DEF FramesInv
<1> QED BY <1>1, <1>2, <1>5, <1>6, <1>7, <1>8, <1>9 DEF FramesInv

\* Of some frames there is a first.
LEMMA LeastFrame ==
  ASSUME NEW S \in SUBSET Nat, S # {}
  PROVE  \E x \in S : \A y \in S : x <= y
<1> DEFINE R == OpToRel(<, Nat)
<1>1. IsWellFoundedOn(R, Nat) BY NatLessThanWellFounded
<1>2. \A x, y \in Nat : x < y => <<x, y>> \in R BY DEF OpToRel
<1> HIDE DEF R
<1>3. PICK x \in S : \A y \in S : ~(<<y, x>> \in R) BY <1>1, WFMin
<1>4. x \in Nat /\ \A y \in S : y \in Nat /\ ~(y < x) BY <1>2, <1>3
<1> QED BY <1>4

\* What a stream begins with: the end of the ring from the first frame after the id it came
\* back with, or nothing.
LEMMA ReplayFits ==
  ASSUME FramesInv, NEW id \in Nat
  PROVE  \/ /\ Events!Replay(id) = <<>>
            /\ id # 0 /\ id < nextId => id + 1 = nextId
         \/ \E a \in Nat : /\ Events!Replay(id) \in Seq(Nat) /\ Events!Replay(id) # <<>>
                           /\ Follows(Events!Replay(id), a) /\ Head(Events!Replay(id)) = a
                           /\ id < a /\ a + Len(Events!Replay(id)) = nextId
                           /\ a = id + 1 \/ (ring # <<>> /\ a = Head(ring))
<1> DEFINE kept == {k \in DOMAIN ring : ring[k] > id}
           h == nextId - Len(ring)
           L == Len(ring)
           m == Events!Min(kept)
           t == SubSeq(ring, m, L)
<1>1. Events!Replay(id) = IF id = 0 \/ kept = {} THEN <<>> ELSE t BY DEF Events!Replay
<1>4. /\ ring \in Seq(Nat) /\ DOMAIN ring = 1 .. L /\ L \in Nat /\ h \in Nat
      /\ nextId \in Nat /\ nextId = h + L
      /\ \A k \in 1 .. L : ring[k] = h + k - 1
      /\ L = 0 => nextId = 1
  <2>1. Follows(ring, h) /\ nextId \in Nat /\ L < nextId BY DEF FramesInv
  <2>2. ring \in Seq(Nat) /\ DOMAIN ring = 1 .. L /\ L \in Nat BY <2>1, LenProperties DEF Follows
  <2> QED BY <2>1, <2>2 DEF Follows, FramesInv
<1> HIDE DEF L, h
<1>2. CASE id = 0 \/ kept = {}
  <2>1. ASSUME id # 0, id < nextId PROVE id + 1 = nextId
    <3>1. L # 0 BY <1>4, <2>1
    <3>2. L \in 1 .. L /\ L \notin kept BY <1>2, <1>4, <2>1, <3>1
    <3>3. ring[L] = h + L - 1 /\ ~(ring[L] > id) BY <1>4, <3>2
    <3> QED BY <1>4, <2>1, <3>3
  <2> QED BY <1>1, <1>2, <2>1
<1>3. CASE ~(id = 0 \/ kept = {})
  <2>1. /\ ring \in Seq(Nat) /\ DOMAIN ring = 1 .. L /\ L \in Nat /\ h \in Nat
        /\ nextId \in Nat /\ nextId = h + L
        /\ \A k \in 1 .. L : ring[k] = h + k - 1
    BY <1>4
  <2>2. kept # {} /\ kept \subseteq Nat BY <1>3, <2>1
  <2>3. \E x \in kept : \A y \in kept : x <= y
    <3> HIDE DEF kept
    <3> QED BY <2>2, LeastFrame
  <2>4. m \in kept
    <3> HIDE DEF kept
    <3> QED BY <2>3 DEF Events!Min
  <2>5. m \in 1 .. L /\ ring[m] > id BY <2>1, <2>4
  <2>14. m # 1 => ring[m - 1] <= id
    <3>1. SUFFICES ASSUME m # 1 PROVE ring[m - 1] <= id OBVIOUS
    <3>2. m - 1 \in 1 .. L BY <2>1, <2>5, <3>1
    <3>3. m - 1 \notin kept
      <4>1. \A y \in kept : m <= y
        <5> HIDE DEF kept
        <5> QED BY <2>3 DEF Events!Min
      <4> HIDE DEF kept, m
      <4> QED BY <2>5, <3>2, <4>1
    <3>4. ~(ring[m - 1] > id) /\ ring[m - 1] \in Nat
      <4> HIDE DEF m
      <4>1. m - 1 \in DOMAIN ring BY <2>1, <3>2
      <4>2. ring[m - 1] = h + (m - 1) - 1 BY <2>1, <3>2
      <4> QED BY <2>1, <3>2, <3>3, <4>1, <4>2
    <3> HIDE DEF m
    <3> QED BY <3>4
  <2> HIDE DEF m, kept
  <2>6. \A i \in m .. L : ring[i] \in Nat BY <2>1, <2>5, ElementOfSeq DEF L
  <2>7. /\ t \in Seq(Nat) /\ Len(t) = (IF m <= L THEN L - m + 1 ELSE 0)
        /\ \A i \in 1 .. L - m + 1 : t[i] = ring[m + i - 1]
    <3>1. m \in Int /\ L \in Int BY <2>1, <2>5
    <3> QED BY <2>6, <3>1, SubSeqProperties
  <2> DEFINE a == h + m - 1
  <2> HIDE DEF t
  <2>8. Len(t) = L - m + 1 /\ Len(t) \in Nat \ {0} /\ a \in Nat /\ a + Len(t) = nextId
    <3>1. m \in Nat /\ m >= 1 /\ m <= L BY <2>1, <2>5
    <3>2. Len(t) = L - m + 1 BY <2>7, <3>1
    <3> DEFINE n == Len(t)
    <3>3. n = L - m + 1 BY <3>2
    <3> HIDE DEF n
    <3>4. n \in Nat \ {0} /\ a \in Nat /\ a + n = nextId BY <2>1, <3>1, <3>3
    <3> QED BY <3>2, <3>4 DEF n
  <2>9. \A i \in 1 .. Len(t) : t[i] = a + i - 1
    <3>1. SUFFICES ASSUME NEW i \in 1 .. Len(t) PROVE t[i] = a + i - 1 OBVIOUS
    <3>2. t[i] = ring[m + i - 1] /\ m + i - 1 \in 1 .. L BY <2>1, <2>5, <2>7, <2>8
    <3>3. ring[m + i - 1] = h + (m + i - 1) - 1 BY <2>1, <3>2
    <3> QED BY <2>1, <2>5, <3>2, <3>3
  <2>10. t # <<>> BY <2>8, NothingFollows
  <2>11. Follows(t, a) BY <2>7, <2>9 DEF Follows
  <2>12. Head(t) = a
    <3>1. Head(t) = t[1] BY <2>7, <2>10
    <3>2. t[1] = a + 1 - 1 BY <2>8, <2>9
    <3> QED BY <2>8, <3>1, <3>2
  <2>13. id < a
    <3>1. ring[m] = h + m - 1 BY <2>1, <2>5
    <3> QED BY <2>5, <2>8, <3>1
  <2>15. a = id + 1 \/ (ring # <<>> /\ a = Head(ring))
    <3>1. CASE m = 1
      <4>1. ring # <<>> BY <2>1, <2>5
      <4>2. Head(ring) = ring[1] BY <2>1, <4>1
      <4> QED BY <2>1, <2>5, <3>1, <4>1, <4>2
    <3>2. CASE m # 1
      <4>1. m - 1 \in 1 .. L BY <2>1, <2>5, <3>2
      <4>2. ring[m - 1] = h + (m - 1) - 1 BY <2>1, <4>1
      <4> QED BY <2>1, <2>5, <2>8, <2>13, <2>14, <3>2, <4>2
    <3> QED BY <3>1, <3>2
  <2> HIDE DEF a
  <2> QED BY <1>1, <1>3, <2>7, <2>8, <2>10, <2>11, <2>12, <2>13, <2>15
<1> QED BY <1>2, <1>3

\* A stream begins with what it missed.
LEMMA FramesBegin ==
  ASSUME StreamsAssumption, FramesInv, NEW r \in Readers, Events!Begin(r)
  PROVE  FramesInv'
<1> DEFINE s == stream[r]
           missed == Events!Replay(lastId[r])
           f == IF missed = <<>> THEN nextId ELSE Head(missed)
           d == [s EXCEPT !.at = "on", !.replay = missed, !.first = f]
<1>1. /\ s.at = "accepted" /\ UNCHANGED <<ring, nextId, lastId, stale, streamHeld>>
  BY DEF Events!Begin, Events!busVars
<1>2. /\ stream \in [Readers -> StreamRows] /\ lastId \in [Readers -> Nat] /\ stale \subseteq Readers
      /\ nextId \in Nat \ {0} /\ s \in StreamRows /\ StreamFits(s, nextId)
      /\ r \notin stale => WaitsAfter(s, nextId, lastId[r])
  BY DEF FramesInv
<1>3. stream' = [stream EXCEPT ![r] = d] BY <1>2 DEF Events!Begin
<1>4. lastId[r] \in Nat BY <1>2
<1>5. /\ missed \in Seq(Nat) /\ f \in Nat /\ Follows(missed, f) /\ f + Len(missed) = nextId
      /\ Len(missed) \in Nat
      /\ missed # <<>> => lastId[r] < f
  <2> DEFINE id == lastId[r]
  <2> HIDE DEF id
  <2>1. \/ missed = <<>>
        \/ \E a \in Nat : /\ missed \in Seq(Nat) /\ missed # <<>>
                          /\ Follows(missed, a) /\ Head(missed) = a
                          /\ id < a /\ a + Len(missed) = nextId
    BY <1>4, ReplayFits DEF id
  <2> HIDE DEF missed
  <2>2. CASE missed = <<>>
    <3>1. /\ Len(<<>>) = 0 /\ Follows(<<>>, nextId) /\ <<>> \in Seq(Nat)
      BY NothingFollows, EmptySeq
    <3> QED BY <1>2, <2>2, <3>1
  <2>3. CASE missed # <<>>
    <3>1. /\ missed \in Seq(Nat) /\ Head(missed) \in Nat /\ Follows(missed, Head(missed))
          /\ id < Head(missed) /\ Head(missed) + Len(missed) = nextId
      BY <2>1, <2>3
    <3>2. Len(missed) \in Nat BY <3>1, LenProperties
    <3> QED BY <2>3, <3>1, <3>2 DEF id
  <2> QED BY <2>2, <2>3
<1>6. s.queue = <<>> /\ s.got = 0 /\ s.dropped = 0 BY <1>1, <1>2 DEF StreamFits
<1> HIDE DEF missed, f
<1>7. /\ d \in StreamRows /\ d.at = "on" /\ d.replay = missed /\ d.first = f
      /\ d.queue = <<>> /\ d.got = 0 /\ d.dropped = 0
  <2> HIDE DEF s
  <2> QED BY <1>2, <1>5, <1>6 DEF StreamRows
<1> HIDE DEF d
<1>8. StreamFits(d, nextId)
  <2>1. Len(<<>>) = 0 /\ Follows(<<>>, nextId - 0) BY NothingFollows
  <2>2. f + 0 = f /\ f + 0 + Len(missed) + 0 + 0 = nextId /\ 0 < nextId /\ 0 <= StreamQueue
    BY <1>2, <1>5 DEF StreamsAssumption
  <2>3. Follows(missed, f + 0) BY <1>5, <2>2
  <2> QED BY <1>7, <2>1, <2>2, <2>3 DEF StreamFits
<1>9. r \notin stale => WaitsAfter(d, nextId, lastId[r])
  <2>1. SUFFICES ASSUME r \notin stale PROVE WaitsAfter(d, nextId, lastId[r]) OBVIOUS
  <2>2. lastId[r] < nextId BY <1>2, <2>1 DEF WaitsAfter
  <2>3. Len(<<>>) = 0 /\ nextId - 0 = nextId /\ f + 0 = f BY <1>2, <1>5, NothingFollows
  <2> QED BY <1>5, <1>7, <2>2, <2>3 DEF WaitsAfter
<1>10. stream' \in [Readers -> StreamRows] /\ stream'[r] = d
      /\ \A x \in Readers \ {r} : stream'[x] = stream[x]
  BY <1>2, <1>3, <1>7
<1>11. OpenStreams' = OpenStreams BY <1>1, <1>7, <1>10 DEF OpenStreams
<1>12. \A x \in Readers : StreamFits(stream'[x], nextId) BY <1>8, <1>10 DEF FramesInv
<1>13. \A x \in Readers \ stale : WaitsAfter(stream'[x], nextId, lastId[x])
  BY <1>9, <1>10 DEF FramesInv
<1> QED BY <1>1, <1>2, <1>10, <1>11, <1>12, <1>13 DEF FramesInv

\* An empty bus, as a process begins.
LEMMA FramesEmpty ==
  ASSUME StreamsAssumption
  PROVE  /\ Events!NoStream \in StreamRows /\ StreamFits(Events!NoStream, 1)
         /\ \A id \in Nat : id = 0 => WaitsAfter(Events!NoStream, 1, id)
         /\ Follows(<<>>, 1 - 0) /\ Len(<<>>) = 0 /\ Cardinality({}) = 0
<1> DEFINE s == Events!NoStream
<1>1. /\ s \in StreamRows /\ s.at = "off" /\ s.replay = <<>>
      /\ s.queue = <<>> /\ s.got = 0 /\ s.dropped = 0
  BY EmptySeq DEF StreamRows, Events!NoStream
<1> HIDE DEF s
<1>2. StreamFits(s, 1) BY <1>1, Zenon DEF StreamFits
<1>3. \A id \in Nat : id = 0 => WaitsAfter(s, 1, id) BY <1>1 DEF WaitsAfter
<1> QED BY <1>1, <1>2, <1>3, NothingFollows, FS_EmptySet DEF s

\* The first process has an empty bus.
LEMMA FramesStart == ASSUME StreamsAssumption PROVE Events!Init => FramesInv
<1> SUFFICES ASSUME Events!Init PROVE FramesInv OBVIOUS
<1> DEFINE s == Events!NoStream
<1>1. /\ ring = <<>> /\ nextId = 1 /\ stream = [r \in Readers |-> s]
      /\ lastId = [r \in Readers |-> 0] /\ stale = {} /\ streamHeld = 0
  BY DEF Events!Init
<1>2. /\ s \in StreamRows /\ StreamFits(s, 1) /\ (\A id \in Nat : id = 0 => WaitsAfter(s, 1, id))
      /\ Follows(<<>>, 1 - 0) /\ Len(<<>>) = 0 /\ Cardinality({}) = 0 /\ s.at = "off"
  BY FramesEmpty DEF Events!NoStream
<1> HIDE DEF s
<1>3. OpenStreams = {} BY <1>1, <1>2 DEF OpenStreams
<1> QED BY <1>1, <1>2, <1>3 DEF FramesInv, StreamsAssumption

\* So has every later one.
LEMMA FramesNew ==
  ASSUME StreamsAssumption, FramesInv, Events!NewProcess
  PROVE  FramesInv'
<1> DEFINE s == Events!NoStream
<1>1. /\ ring' = <<>> /\ nextId' = 1 /\ stream' = [r \in Readers |-> s]
      /\ stale' = {r \in Readers : lastId[r] > 0} /\ streamHeld' = 0 /\ lastId' = lastId
  BY DEF Events!NewProcess
<1>2. /\ s \in StreamRows /\ StreamFits(s, 1) /\ (\A id \in Nat : id = 0 => WaitsAfter(s, 1, id))
      /\ Follows(<<>>, 1 - 0) /\ Len(<<>>) = 0 /\ Cardinality({}) = 0 /\ s.at = "off"
  BY FramesEmpty DEF Events!NoStream
<1> HIDE DEF s
<1>3. OpenStreams' = {} BY <1>1, <1>2 DEF OpenStreams
<1>4. lastId \in [Readers -> Nat] BY DEF FramesInv
<1>5. \A r \in Readers \ stale' : lastId[r] = 0 /\ lastId[r] \in Nat BY <1>1, <1>4
<1>6. \A r \in Readers \ stale' : WaitsAfter(stream'[r], nextId', lastId'[r])
  BY <1>1, <1>2, <1>5
<1> QED BY <1>1, <1>2, <1>3, <1>4, <1>6 DEF FramesInv, StreamsAssumption

\* A step that leaves the bus and the streams alone.
LEMMA FramesStand ==
  ASSUME FramesInv, UNCHANGED <<ring, nextId, stream, lastId, stale, streamHeld>>
  PROVE  FramesInv'
BY DEF FramesInv, OpenStreams

\* No step disturbs the frames.
LEMMA FramesStep ==
  ASSUME StreamsAssumption, FramesInv, [Events!Next]_(Events!vars)
  PROVE  FramesInv'
<1> USE DEF Events!busVars, Events!readerVars
<1>1. ASSUME NEW j \in Jobs, Events!Ack(j) PROVE FramesInv' BY <1>1, FramesStand DEF Events!Ack
<1>2. ASSUME NEW j \in Jobs, Events!FinishJob(j) PROVE FramesInv'
  BY <1>2, FramesStand DEF Events!FinishJob
<1>3. ASSUME NEW j \in Jobs, Events!PublishFinished(j) PROVE FramesInv'
  BY <1>3, FramesPublish DEF Events!PublishFinished
<1>4. ASSUME NEW j \in Jobs, Events!Forget(j) PROVE FramesInv' BY <1>4, FramesStand DEF Events!Forget
<1>5. CASE Events!FlushDue BY <1>5, FramesStand DEF Events!FlushDue
<1>6. ASSUME NEW f \in Events!Flushers, Events!FlushStep(f) PROVE FramesInv'
  <2>1. CASE Events!TakeMark(f) BY <2>1, FramesStand DEF Events!TakeMark
  <2>2. CASE Events!ReadAggregate(f) BY <2>2, FramesStand DEF Events!ReadAggregate
  <2>3. CASE Events!PublishDiff(f)
    <3> DEFINE j == flush[f].job
               diff == Events!Diff(last[j], flush[f].seen)
    <3>1. (IF DOMAIN diff = {} THEN UNCHANGED <<shown, ring, nextId, stream>>
           ELSE Events!Publish(j, diff)) /\ UNCHANGED <<lastId, stale, streamHeld>>
      BY <2>3 DEF Events!PublishDiff
    <3> HIDE DEF diff, j
    <3>2. CASE DOMAIN diff = {} BY <3>1, <3>2, FramesStand
    <3>3. CASE DOMAIN diff # {} BY <3>1, <3>3, FramesPublish
    <3> QED BY <3>2, <3>3
  <2> QED BY <1>6, <2>1, <2>2, <2>3 DEF Events!FlushStep
<1>7. ASSUME NEW r \in Readers, Events!Connect(r) PROVE FramesInv' BY <1>7, FramesConnect
<1>8. ASSUME NEW r \in Readers, Events!Begin(r) PROVE FramesInv' BY <1>8, FramesBegin
<1>9. ASSUME NEW r \in Readers, Events!Deliver(r) PROVE FramesInv' BY <1>9, FramesDeliver
<1>10. ASSUME NEW r \in Readers, Events!Leave(r) PROVE FramesInv' BY <1>10, FramesLeave
<1>11. CASE Events!StopProgress BY <1>11, FramesStand DEF Events!StopProgress
<1>12. CASE Events!NewProcess BY <1>12, FramesNew
<1>13. CASE UNCHANGED Events!vars BY <1>13, FramesStand DEF Events!vars
<1> QED BY <1>1, <1>2, <1>3, <1>4, <1>5, <1>6, <1>7, <1>8, <1>9, <1>10, <1>11, <1>12, <1>13
        DEF Events!Next

-----------------------------------------------------------------------------
(* The event streams: the progress of jobs. *)

Rows == [done : 0 .. Tasks, status : {"running", "completed"}]
Fields == {"done", "status"}
Values == (0 .. Tasks) \cup {"running", "completed"}
\* What frames may add up to: some of the fields.
Partials == UNION {[D -> Values] : D \in SUBSET Fields}

ProgressShape ==
  /\ table \in [Jobs -> Rows] /\ moved \subseteq Jobs /\ dirty \subseteq moved
  /\ settling \in [Jobs -> {"no", "finished", "flushing"}]
  /\ last \in [Jobs -> Rows \cup {<<>>}] /\ shown \in [Jobs -> Partials]
  /\ flush \in [Events!Flushers -> [todo : SUBSET Jobs, job : Jobs \cup {Events!NoJob},
                                    seen : Rows \cup {<<>>}]]
  /\ stopping \in BOOLEAN /\ restarts \in 0 .. MaxRestarts

\* A job is completed when all of its rows are, and settled when it is completed.
Verdicts ==
  \A j \in Jobs : /\ table[j].status = "completed" => table[j].done = Tasks
                  /\ settling[j] # "no" => table[j].status = "completed"
\* A flush reads for the job it has taken; no two have taken one.
OneFlush ==
  /\ \A f \in Events!Flushers : flush[f].seen # <<>> => flush[f].job # Events!NoJob
  /\ \A f, g \in Events!Flushers :
       flush[f].job = flush[g].job /\ flush[f].job # Events!NoJob => f = g
\* Nobody has seen a running job completed.
NoneAhead ==
  /\ \A j \in Jobs : table[j].status = "running" =>
       /\ last[j] # <<>> => last[j].status = "running"
       /\ "status" \in DOMAIN shown[j] => shown[j]["status"] = "running"
  /\ \A f \in Events!Flushers : flush[f].seen # <<>> /\ table[flush[f].job].status = "running"
       => flush[f].seen.status = "running"
\* What was published last is what the frames add up to, but for a verdict announced since.
LastIsShown ==
  \A j \in Jobs : last[j] # <<>> =>
    /\ DOMAIN shown[j] = Fields /\ shown[j]["done"] = last[j].done
    /\ shown[j]["status"] \in {last[j].status, table[j].status}
\* A flush that has read a job whose mark was not set again has read what the row says, but
\* for a verdict that is still to be announced.
ReadIsCurrent ==
  \A f \in Events!Flushers : flush[f].seen # <<>> /\ flush[f].job \notin dirty =>
    /\ flush[f].seen.done = table[flush[f].job].done
    /\ settling[flush[f].job] # "finished" => flush[f].seen.status = table[flush[f].job].status
\* A job that nothing is left to be told of shows what its row says, but for such a verdict.
Converged ==
  \A j \in moved : j \notin dirty /\ ~Events!Flushed(j) =>
    /\ DOMAIN shown[j] = Fields /\ shown[j]["done"] = table[j].done
    /\ settling[j] # "finished" => shown[j]["status"] = table[j].status
\* The flush of a settling has yet to take the job's own mark.
MarkIsTaken ==
  \A j \in Jobs : settling[j] = "flushing" /\ j \in dirty => j \in flush[j].todo

ProgressInv ==
  /\ ProgressShape /\ Verdicts /\ OneFlush /\ NoneAhead /\ LastIsShown /\ ReadIsCurrent
  /\ Converged /\ MarkIsTaken

\* A row as a function of its fields; no row is empty.
LEMMA RowFacts ==
  ASSUME NEW x \in Rows
  PROVE  /\ DOMAIN x = Fields /\ x["done"] = x.done /\ x["status"] = x.status
         /\ x.done \in Values /\ x.status \in Values /\ x # <<>>
         /\ x = [k \in Fields |-> x[k]]
<1>1. DOMAIN x = Fields /\ x["done"] = x.done /\ x["status"] = x.status
      /\ x.done \in Values /\ x.status \in Values
  BY DEF Rows, Fields, Values
<1>2. x # <<>>
  <2>1. DOMAIN <<>> = {} OBVIOUS
  <2>2. "done" \in DOMAIN x BY <1>1 DEF Fields
  <2> QED BY <2>1, <2>2
<1>3. x = [k \in Fields |-> x[k]] BY DEF Rows, Fields
<1> QED BY <1>1, <1>2, <1>3

\* What frames may add up to, as a function of some of the fields.
LEMMA PartialFacts ==
  ASSUME NEW x
  PROVE  x \in Partials <=> /\ DOMAIN x \subseteq Fields /\ x = [k \in DOMAIN x |-> x[k]]
                            /\ \A k \in DOMAIN x : x[k] \in Values
<1>1. ASSUME x \in Partials
      PROVE  /\ DOMAIN x \subseteq Fields /\ x = [k \in DOMAIN x |-> x[k]]
             /\ \A k \in DOMAIN x : x[k] \in Values
  <2>1. PICK D \in SUBSET Fields : x \in [D -> Values] BY <1>1 DEF Partials
  <2> QED BY <2>1
<1>2. ASSUME DOMAIN x \subseteq Fields, x = [k \in DOMAIN x |-> x[k]],
             \A k \in DOMAIN x : x[k] \in Values
      PROVE  x \in Partials
  <2>1. x \in [DOMAIN x -> Values] BY <1>2
  <2> QED BY <1>2, <2>1 DEF Partials
<1> QED BY <1>1, <1>2

\* What frames add up to with some fields more.
LEMMA MergeFacts ==
  ASSUME NEW f \in Partials, NEW x \in Partials
  PROVE  /\ Events!Merge(f, x) \in Partials
         /\ DOMAIN Events!Merge(f, x) = DOMAIN f \cup DOMAIN x
         /\ \A k \in DOMAIN f \cup DOMAIN x :
              Events!Merge(f, x)[k] = IF k \in DOMAIN f THEN f[k] ELSE x[k]
<1> DEFINE m == Events!Merge(f, x)
<1>1. m = [k \in DOMAIN f \cup DOMAIN x |-> IF k \in DOMAIN f THEN f[k] ELSE x[k]]
  BY DEF Events!Merge
<1> HIDE DEF m
<1>2. /\ DOMAIN m = DOMAIN f \cup DOMAIN x
      /\ \A k \in DOMAIN f \cup DOMAIN x : m[k] = IF k \in DOMAIN f THEN f[k] ELSE x[k]
      /\ m = [k \in DOMAIN m |-> m[k]]
  BY <1>1
<1>3. m \in Partials BY <1>2, PartialFacts
<1> QED BY <1>2, <1>3 DEF m

\* A flush that has read now shows it, if what it published last was shown.
Flushing(was, now, x) ==
  IF DOMAIN Events!Diff(was, now) = {} THEN x ELSE Events!Merge(Events!Diff(was, now), x)

\* Every field it adds is the one read; every field it leaves was shown already.
LEMMA FlushShows ==
  ASSUME NEW now \in Rows, NEW x \in Partials,
         NEW was, was = <<>> \/ (was \in Rows /\ DOMAIN x = Fields)
  PROVE  /\ Flushing(was, now, x) \in Partials /\ DOMAIN Flushing(was, now, x) = Fields
         /\ Flushing(was, now, x)["done"]
              = IF was # <<>> /\ was.done = now.done THEN x["done"] ELSE now.done
         /\ Flushing(was, now, x)["status"]
              = IF was # <<>> /\ was.status = now.status THEN x["status"] ELSE now.status
<1> DEFINE diff == Events!Diff(was, now)
           m == Flushing(was, now, x)
<1>1. /\ DOMAIN now = Fields /\ now["done"] = now.done /\ now["status"] = now.status
      /\ now.done \in Values /\ now.status \in Values /\ now = [k \in Fields |-> now[k]]
  BY RowFacts
<1>2. CASE was = <<>>
  <2>1. diff = now BY <1>2 DEF Events!Diff
  <2>2. now \in Partials BY <1>1, PartialFacts DEF Fields
  <2>3. DOMAIN diff # {} BY <1>1, <2>1 DEF Fields
  <2>4. m = Events!Merge(now, x) BY <2>1, <2>3 DEF Flushing
  <2>5. DOMAIN x \subseteq Fields BY PartialFacts
  <2>6. /\ Events!Merge(now, x) \in Partials
        /\ DOMAIN Events!Merge(now, x) = DOMAIN now \cup DOMAIN x
        /\ \A k \in DOMAIN now \cup DOMAIN x :
             Events!Merge(now, x)[k] = IF k \in DOMAIN now THEN now[k] ELSE x[k]
    BY <2>2, MergeFacts
  <2> HIDE DEF m, diff
  <2>7. m \in Partials /\ DOMAIN m = Fields /\ \A k \in Fields : m[k] = now[k]
    BY <1>1, <2>4, <2>5, <2>6
  <2> QED BY <1>1, <1>2, <2>7 DEF m, Fields
<1>3. CASE was # <<>>
  <2>1. was \in Rows /\ DOMAIN x = Fields BY <1>3
  <2>2. /\ was["done"] = was.done /\ was["status"] = was.status BY <2>1, RowFacts
  <2>3. diff = [k \in {y \in Fields : was[y] # now[y]} |-> now[k]]
    BY <1>1, <1>3 DEF Events!Diff
  <2> HIDE DEF diff
  <2>4. /\ DOMAIN diff = {y \in Fields : was[y] # now[y]}
        /\ diff = [k \in DOMAIN diff |-> diff[k]] /\ \A k \in DOMAIN diff : diff[k] = now[k]
    BY <2>3
  <2>5. \A k \in Fields : now[k] \in Values BY <1>1 DEF Fields
  <2>6. diff \in Partials BY <2>4, <2>5, PartialFacts
  <2>7. m \in Partials /\ DOMAIN m = Fields
        /\ \A k \in Fields : m[k] = IF was[k] # now[k] THEN now[k] ELSE x[k]
    <3>1. m = IF DOMAIN diff = {} THEN x ELSE Events!Merge(diff, x) BY DEF Flushing, diff
    <3>2. /\ Events!Merge(diff, x) \in Partials
          /\ DOMAIN Events!Merge(diff, x) = DOMAIN diff \cup DOMAIN x
          /\ \A k \in DOMAIN diff \cup DOMAIN x :
               Events!Merge(diff, x)[k] = IF k \in DOMAIN diff THEN diff[k] ELSE x[k]
      BY <2>6, MergeFacts
    <3> HIDE DEF m
    <3>3. CASE DOMAIN diff = {} BY <2>1, <2>4, <3>1, <3>3
    <3>4. CASE DOMAIN diff # {} BY <2>1, <2>4, <3>1, <3>2, <3>4
    <3> QED BY <3>3, <3>4
  <2> HIDE DEF m
  <2> QED BY <1>1, <1>3, <2>2, <2>7 DEF m, Fields
<1> QED BY <1>2, <1>3

\* A verdict announced.
LEMMA VerdictShows ==
  ASSUME NEW v \in {"running", "completed"}, NEW x \in Partials
  PROVE  /\ Events!Merge([status |-> v], x) \in Partials
         /\ DOMAIN Events!Merge([status |-> v], x) = DOMAIN x \cup {"status"}
         /\ Events!Merge([status |-> v], x)["status"] = v
         /\ "done" \in DOMAIN x => Events!Merge([status |-> v], x)["done"] = x["done"]
<1> DEFINE f == [status |-> v]
<1>1. DOMAIN f = {"status"} /\ f["status"] = v /\ f = [k \in DOMAIN f |-> f[k]] OBVIOUS
<1>2. f \in Partials BY <1>1, PartialFacts DEF Fields, Values
<1> HIDE DEF f
<1>3. /\ Events!Merge(f, x) \in Partials
      /\ DOMAIN Events!Merge(f, x) = DOMAIN f \cup DOMAIN x
      /\ \A k \in DOMAIN f \cup DOMAIN x :
           Events!Merge(f, x)[k] = IF k \in DOMAIN f THEN f[k] ELSE x[k]
  BY <1>2, MergeFacts
<1> QED BY <1>1, <1>3 DEF f

\* Nothing has moved at first.
LEMMA ProgressStart == ASSUME StreamsAssumption PROVE Events!Init => ProgressInv
<1> SUFFICES ASSUME Events!Init PROVE ProgressInv OBVIOUS
<1>1. /\ table = [j \in Jobs |-> [done |-> 0, status |-> "running"]] /\ moved = {}
      /\ settling = [j \in Jobs |-> "no"] /\ dirty = {} /\ last = [j \in Jobs |-> <<>>]
      /\ flush = [f \in Events!Flushers |-> Events!Idle] /\ shown = [j \in Jobs |-> <<>>]
      /\ stopping = FALSE /\ restarts = 0
  BY DEF Events!Init
<1>2. [done |-> 0, status |-> "running"] \in Rows BY DEF Rows, StreamsAssumption
<1>3. <<>> \in Partials /\ DOMAIN <<>> = {}
  <2>1. DOMAIN <<>> = {} /\ <<>> = [k \in DOMAIN <<>> |-> <<>>[k]] OBVIOUS
  <2> QED BY <2>1, PartialFacts
<1>4. Events!Idle.todo = {} /\ Events!Idle.job = Events!NoJob /\ Events!Idle.seen = <<>>
      /\ Events!Idle \in [todo : SUBSET Jobs, job : Jobs \cup {Events!NoJob},
                          seen : Rows \cup {<<>>}]
  BY DEF Events!Idle
<1>5. ProgressShape
  <2> DEFINE W == [todo : SUBSET Jobs, job : Jobs \cup {Events!NoJob}, seen : Rows \cup {<<>>}]
             R == [done |-> 0, status |-> "running"]
  <2>1. R \in Rows /\ Events!Idle \in W BY <1>2, <1>4
  <2> HIDE DEF R, W
  <2>2. table \in [Jobs -> Rows] BY <1>1, <2>1 DEF R
  <2>3. flush \in [Events!Flushers -> W] BY <1>1, <2>1
  <2>4. shown \in [Jobs -> Partials] /\ last \in [Jobs -> Rows \cup {<<>>}] BY <1>1, <1>3
  <2>5. restarts \in 0 .. MaxRestarts BY <1>1 DEF StreamsAssumption
  <2> QED BY <1>1, <2>2, <2>3, <2>4, <2>5 DEF ProgressShape, W
<1>6. Verdicts /\ MarkIsTaken /\ Converged BY <1>1 DEF Verdicts, MarkIsTaken, Converged
<1>7. OneFlush /\ ReadIsCurrent BY <1>1, <1>4 DEF OneFlush, ReadIsCurrent
<1>8. NoneAhead /\ LastIsShown BY <1>1, <1>3, <1>4 DEF NoneAhead, LastIsShown
<1> QED BY <1>5, <1>6, <1>7, <1>8 DEF ProgressInv

\* A row that ends marks its job.
LEMMA ProgressAck ==
  ASSUME StreamsAssumption, ProgressInv, NEW j \in Jobs, Events!Ack(j)
  PROVE  ProgressInv'
<1> USE DEF ProgressInv
<1>1. /\ table' = [table EXCEPT ![j] = [table[j] EXCEPT !.done = table[j].done + 1]]
      /\ table[j].done < Tasks /\ moved' = moved \cup {j} /\ dirty' = dirty \cup {j}
      /\ UNCHANGED <<settling, last, flush, shown, stopping, restarts>>
  BY DEF Events!Ack, Events!lifeVars, ProgressShape
<1> DEFINE t == [table[j] EXCEPT !.done = table[j].done + 1]
<1>2. table[j] \in Rows /\ table[j].done \in 0 .. Tasks /\ Tasks \in Nat
  BY DEF ProgressShape, Rows, StreamsAssumption
<1>3. t \in Rows /\ t.status = table[j].status
  BY <1>1, <1>2 DEF Rows
<1>4. table[j].status = "running"
  <2>1. table[j].status \in {"running", "completed"} BY <1>2 DEF Rows
  <2> QED BY <1>1, <1>2, <2>1 DEF Verdicts
<1> HIDE DEF t
<1>5. /\ table' \in [Jobs -> Rows] /\ table'[j] = t
      /\ \A x \in Jobs \ {j} : table'[x] = table[x]
      /\ \A x \in Jobs : table'[x].status = table[x].status
  BY <1>1, <1>3 DEF ProgressShape, t
<1>6. ProgressShape' BY <1>1, <1>5 DEF ProgressShape
<1>7. Verdicts' BY <1>1, <1>4, <1>5 DEF Verdicts
<1>8. OneFlush' BY <1>1 DEF OneFlush
<1>9. \A f \in Events!Flushers : flush[f].seen # <<>> => flush[f].job \in Jobs
  BY DEF OneFlush, ProgressShape
<1>10. NoneAhead' BY <1>1, <1>5, <1>9 DEF NoneAhead
<1>11. LastIsShown' BY <1>1, <1>5 DEF LastIsShown
<1>12. ReadIsCurrent' BY <1>1, <1>5, <1>9 DEF ReadIsCurrent
<1>13. Converged'
  <2>1. moved \subseteq Jobs BY DEF ProgressShape
  <2> QED BY <1>1, <1>5, <2>1 DEF Converged, Events!Flushed
<1>14. MarkIsTaken'
  <2>1. settling[j] # "flushing" BY <1>4 DEF Verdicts
  <2> QED BY <1>1, <2>1 DEF MarkIsTaken
<1> QED BY <1>6, <1>7, <1>8, <1>10, <1>11, <1>12, <1>13, <1>14

\* A verdict written.
LEMMA ProgressFinish ==
  ASSUME StreamsAssumption, ProgressInv, NEW j \in Jobs, Events!FinishJob(j)
  PROVE  ProgressInv'
<1> USE DEF ProgressInv
<1> DEFINE t == [table[j] EXCEPT !.status = "completed"]
<1>1. /\ table' = [table EXCEPT ![j] = t]
      /\ table[j] = [done |-> Tasks, status |-> "running"]
      /\ settling' = [settling EXCEPT ![j] = "finished"]
      /\ UNCHANGED <<moved, dirty, last, flush, shown, stopping, restarts>>
  BY DEF Events!FinishJob, Events!lifeVars, ProgressShape
<1>2. table[j] \in Rows BY DEF ProgressShape
<1>3. t \in Rows /\ t.status = "completed" /\ t.done = Tasks /\ t.done = table[j].done
      /\ table[j].status = "running"
  BY <1>1, <1>2 DEF Rows
<1> HIDE DEF t
<1>5. /\ table' \in [Jobs -> Rows] /\ table'[j] = t
      /\ \A x \in Jobs \ {j} : table'[x] = table[x]
      /\ \A x \in Jobs : table'[x].done = table[x].done
      /\ settling' \in [Jobs -> {"no", "finished", "flushing"}] /\ settling'[j] = "finished"
      /\ \A x \in Jobs \ {j} : settling'[x] = settling[x]
  BY <1>1, <1>3 DEF ProgressShape, t
<1>6. ProgressShape' BY <1>1, <1>5 DEF ProgressShape
<1>7. Verdicts' BY <1>1, <1>3, <1>5 DEF Verdicts
<1>8. OneFlush' BY <1>1 DEF OneFlush
<1>9. \A f \in Events!Flushers : flush[f].seen # <<>> => flush[f].job \in Jobs
  BY DEF OneFlush, ProgressShape
<1>10. NoneAhead' BY <1>1, <1>3, <1>5, <1>9 DEF NoneAhead
<1>11. LastIsShown'
  <2>1. ASSUME NEW x \in Jobs, last[x] # <<>>
        PROVE  /\ DOMAIN shown[x] = Fields /\ shown[x]["done"] = last[x].done
               /\ shown[x]["status"] \in {last[x].status, table'[x].status}
    <3>1. /\ DOMAIN shown[x] = Fields /\ shown[x]["done"] = last[x].done
          /\ shown[x]["status"] \in {last[x].status, table[x].status}
      BY <2>1 DEF LastIsShown
    <3>2. CASE x = j
      <4>1. last[j].status = "running" BY <1>3, <2>1, <3>2 DEF NoneAhead
      <4> QED BY <1>3, <3>1, <3>2, <4>1
    <3>3. CASE x # j BY <1>5, <3>1, <3>3
    <3> QED BY <3>2, <3>3
  <2> QED BY <1>1, <2>1 DEF LastIsShown
<1>12. ReadIsCurrent' BY <1>1, <1>5, <1>9 DEF ReadIsCurrent
<1>13. Converged'
  <2>1. moved \subseteq Jobs BY DEF ProgressShape
  <2> QED BY <1>1, <1>5, <2>1 DEF Converged, Events!Flushed
<1>14. MarkIsTaken' BY <1>1, <1>5 DEF MarkIsTaken
<1> QED BY <1>6, <1>7, <1>8, <1>10, <1>11, <1>12, <1>13, <1>14

\* A verdict announced, and the flush of its settling begun.
LEMMA ProgressFinished ==
  ASSUME StreamsAssumption, ProgressInv, NEW j \in Jobs, Events!PublishFinished(j)
  PROVE  ProgressInv'
<1> USE DEF ProgressInv
<1> DEFINE v == table[j].status
           m == Events!Merge([status |-> v], shown[j])
           w == [flush[j] EXCEPT !.todo = dirty]
<1>1. /\ settling[j] = "finished" /\ ~Events!Flushed(j)
      /\ shown' = [shown EXCEPT ![j] = m] /\ flush' = [flush EXCEPT ![j] = w]
      /\ settling' = [settling EXCEPT ![j] = "flushing"]
      /\ UNCHANGED <<table, moved, dirty, last, stopping, restarts>>
  BY DEF Events!PublishFinished, Events!Publish, Events!lifeVars, Events!Allowed, StreamsAssumption
<1>2. v = "completed" BY <1>1 DEF Verdicts
<1>3. shown[j] \in Partials BY DEF ProgressShape
<1>4. /\ m \in Partials /\ DOMAIN m = DOMAIN shown[j] \cup {"status"} /\ m["status"] = v
      /\ "done" \in DOMAIN shown[j] => m["done"] = shown[j]["done"]
  <2> HIDE DEF v
  <2> QED BY <1>2, <1>3, VerdictShows
<1> HIDE DEF m, v
<1>5. /\ shown' \in [Jobs -> Partials] /\ shown'[j] = m
      /\ \A x \in Jobs \ {j} : shown'[x] = shown[x]
      /\ settling' \in [Jobs -> {"no", "finished", "flushing"}] /\ settling'[j] = "flushing"
      /\ \A x \in Jobs \ {j} : settling'[x] = settling[x]
  BY <1>1, <1>4 DEF ProgressShape
<1>6. /\ w \in [todo : SUBSET Jobs, job : Jobs \cup {Events!NoJob}, seen : Rows \cup {<<>>}]
      /\ w.todo = dirty /\ w.job = flush[j].job /\ w.seen = flush[j].seen
  <2>1. dirty \subseteq Jobs BY DEF ProgressShape
  <2>2. flush[j] \in [todo : SUBSET Jobs, job : Jobs \cup {Events!NoJob}, seen : Rows \cup {<<>>}]
    BY DEF ProgressShape, Events!Flushers
  <2> QED BY <2>1, <2>2
<1> HIDE DEF w
<1>7. /\ flush' \in [Events!Flushers -> [todo : SUBSET Jobs, job : Jobs \cup {Events!NoJob},
                                         seen : Rows \cup {<<>>}]]
      /\ flush'[j].todo = dirty
      /\ \A f \in Events!Flushers : /\ flush'[f].job = flush[f].job /\ flush'[f].seen = flush[f].seen
                                    /\ f # j => flush'[f] = flush[f]
  BY <1>1, <1>6 DEF ProgressShape, Events!Flushers
<1>8. ProgressShape' BY <1>1, <1>5, <1>7 DEF ProgressShape
<1>9. Verdicts' BY <1>1, <1>2, <1>5 DEF Verdicts, v
<1>10. OneFlush' BY <1>7 DEF OneFlush
<1>11. \A f \in Events!Flushers : flush[f].seen # <<>> => flush[f].job \in Jobs /\ flush[f].job # j
  BY <1>1 DEF OneFlush, ProgressShape, Events!Flushed
<1>12. NoneAhead' BY <1>1, <1>2, <1>5, <1>7, <1>11 DEF NoneAhead, v
<1>13. LastIsShown'
  <2>1. ASSUME NEW x \in Jobs, last[x] # <<>>
        PROVE  /\ DOMAIN shown'[x] = Fields /\ shown'[x]["done"] = last[x].done
               /\ shown'[x]["status"] \in {last[x].status, table[x].status}
    <3>1. /\ DOMAIN shown[x] = Fields /\ shown[x]["done"] = last[x].done
          /\ shown[x]["status"] \in {last[x].status, table[x].status}
      BY <2>1 DEF LastIsShown
    <3>2. CASE x = j BY <1>4, <1>5, <3>1, <3>2 DEF Fields, v
    <3>3. CASE x # j BY <1>5, <3>1, <3>3
    <3> QED BY <3>2, <3>3
  <2> QED BY <1>1, <2>1 DEF LastIsShown
<1>14. ReadIsCurrent' BY <1>1, <1>5, <1>7, <1>11 DEF ReadIsCurrent
<1>15. Converged'
  <2>1. ASSUME NEW x \in moved, x \notin dirty, ~Events!Flushed(x)
        PROVE  /\ DOMAIN shown'[x] = Fields /\ shown'[x]["done"] = table[x].done
               /\ settling'[x] # "finished" => shown'[x]["status"] = table[x].status
    <3>1. /\ DOMAIN shown[x] = Fields /\ shown[x]["done"] = table[x].done
          /\ settling[x] # "finished" => shown[x]["status"] = table[x].status
      BY <2>1 DEF Converged
    <3>2. x \in Jobs BY DEF ProgressShape
    <3>3. CASE x = j BY <1>4, <1>5, <3>1, <3>3 DEF Fields, v
    <3>4. CASE x # j BY <1>5, <3>1, <3>2, <3>4
    <3> QED BY <3>3, <3>4
  <2>2. \A x : Events!Flushed(x)' <=> Events!Flushed(x) BY <1>7 DEF Events!Flushed
  <2> QED BY <1>1, <2>1, <2>2 DEF Converged
<1>16. MarkIsTaken'
  <2>1. ASSUME NEW x \in Jobs, settling'[x] = "flushing", x \in dirty PROVE x \in flush'[x].todo
    <3>1. CASE x = j BY <1>7, <2>1, <3>1
    <3>2. CASE x # j BY <1>5, <1>7, <2>1, <3>2 DEF MarkIsTaken, Events!Flushers
    <3> QED BY <3>1, <3>2
  <2> QED BY <1>1, <2>1 DEF MarkIsTaken
<1> QED BY <1>8, <1>9, <1>10, <1>12, <1>13, <1>14, <1>15, <1>16

\* A settling ended: the job's mark is gone by then.
LEMMA ProgressForget ==
  ASSUME StreamsAssumption, ProgressInv, NEW j \in Jobs, Events!Forget(j)
  PROVE  ProgressInv'
<1> USE DEF ProgressInv
<1>1. /\ settling[j] = "flushing" /\ flush[j] = Events!Idle
      /\ settling' = [settling EXCEPT ![j] = "no"]
      /\ dirty' = dirty \ {j} /\ last' = [last EXCEPT ![j] = <<>>]
      /\ UNCHANGED <<table, moved, flush, shown, stopping, restarts>>
  BY DEF Events!Forget, Events!lifeVars
<1>2. j \notin dirty BY <1>1 DEF MarkIsTaken, Events!Idle
<1>3. /\ settling' \in [Jobs -> {"no", "finished", "flushing"}] /\ settling'[j] = "no"
      /\ \A x \in Jobs \ {j} : settling'[x] = settling[x]
      /\ last' \in [Jobs -> Rows \cup {<<>>}] /\ last'[j] = <<>>
      /\ \A x \in Jobs \ {j} : last'[x] = last[x]
      /\ dirty' = dirty
  BY <1>1, <1>2 DEF ProgressShape
<1>4. ProgressShape' BY <1>1, <1>3 DEF ProgressShape
<1>5. Verdicts' BY <1>1, <1>3 DEF Verdicts
<1>6. OneFlush' BY <1>1 DEF OneFlush
<1>7. NoneAhead' BY <1>1, <1>3 DEF NoneAhead
<1>8. LastIsShown' BY <1>1, <1>3 DEF LastIsShown
<1>9. \A f \in Events!Flushers : flush[f].seen # <<>> => flush[f].job \in Jobs
  BY DEF OneFlush, ProgressShape
<1>10. ReadIsCurrent' BY <1>1, <1>3, <1>9 DEF ReadIsCurrent
<1>11. Converged'
  <2>1. moved \subseteq Jobs BY DEF ProgressShape
  <2> QED BY <1>1, <1>3, <2>1 DEF Converged, Events!Flushed
<1>12. MarkIsTaken' BY <1>1, <1>3 DEF MarkIsTaken
<1> QED BY <1>4, <1>5, <1>6, <1>7, <1>8, <1>10, <1>11, <1>12

\* A mark taken, of a job no other flush is at.
LEMMA ProgressTake ==
  ASSUME StreamsAssumption, ProgressInv, NEW f \in Events!Flushers, Events!TakeMark(f)
  PROVE  ProgressInv'
<1> USE DEF ProgressInv
<1> DEFINE W == [todo : SUBSET Jobs, job : Jobs \cup {Events!NoJob}, seen : Rows \cup {<<>>}]
<1>1. PICK j \in flush[f].todo :
        /\ ~Events!Flushed(j) /\ dirty' = dirty \ {j}
        /\ flush' = [flush EXCEPT ![f].todo = flush[f].todo \ {j}, ![f].job = j]
  BY DEF Events!TakeMark, Events!Allowed, StreamsAssumption, ProgressShape
<1>2. /\ flush[f].job = Events!NoJob
      /\ UNCHANGED <<table, moved, settling, last, shown, stopping, restarts>>
  BY DEF Events!TakeMark, Events!lifeVars
<1>3. flush \in [Events!Flushers -> W] BY DEF ProgressShape
<1>4. flush[f] \in W BY <1>3
<1>5. j \in Jobs /\ flush[f].seen = <<>> /\ j # Events!NoJob
  BY <1>2, <1>4 DEF OneFlush, StreamsAssumption
<1> DEFINE w == [flush[f] EXCEPT !.todo = flush[f].todo \ {j}, !.job = j]
<1>6. /\ w \in W /\ w.todo = flush[f].todo \ {j} /\ w.job = j /\ w.seen = <<>>
  BY <1>4, <1>5
<1>7. flush' = [flush EXCEPT ![f] = w] BY <1>1, <1>3
<1> HIDE DEF w, W
<1>8. /\ flush' \in [Events!Flushers -> W] /\ flush'[f] = w
      /\ \A g \in Events!Flushers \ {f} : flush'[g] = flush[g]
  BY <1>3, <1>6, <1>7
<1>9. ProgressShape' BY <1>1, <1>2, <1>8 DEF ProgressShape, W
<1>10. Verdicts' BY <1>2 DEF Verdicts
<1>11. OneFlush'
  <2>1. \A g \in Events!Flushers : flush[g].job # j BY <1>1 DEF Events!Flushed
  <2> QED BY <1>5, <1>6, <1>8, <2>1 DEF OneFlush
<1>12. NoneAhead' BY <1>2, <1>6, <1>8 DEF NoneAhead
<1>13. LastIsShown' BY <1>2 DEF LastIsShown
<1>14. ReadIsCurrent'
  <2>1. \A g \in Events!Flushers : flush[g].job # j BY <1>1 DEF Events!Flushed
  <2> QED BY <1>1, <1>2, <1>6, <1>8, <2>1 DEF ReadIsCurrent
<1>15. Converged'
  <2>1. ASSUME NEW x \in moved, x \notin dirty', ~Events!Flushed(x)'
        PROVE  x \notin dirty /\ ~Events!Flushed(x)
    <3>1. \A g \in Events!Flushers : flush'[g].job # x BY <2>1 DEF Events!Flushed
    <3>2. x # j BY <1>6, <1>8, <3>1
    <3>3. \A g \in Events!Flushers \ {f} : flush[g].job # x BY <1>8, <3>1
    <3>4. x # Events!NoJob BY DEF ProgressShape, StreamsAssumption
    <3> QED BY <1>1, <1>2, <2>1, <3>2, <3>3, <3>4 DEF Events!Flushed
  <2> QED BY <1>2, <2>1 DEF Converged
<1>16. MarkIsTaken'
  <2>1. ASSUME NEW x \in Jobs, settling[x] = "flushing", x \in dirty' PROVE x \in flush'[x].todo
    <3>1. x \in dirty /\ x # j /\ x \in flush[x].todo /\ x \in Events!Flushers
      BY <1>1, <2>1 DEF MarkIsTaken, Events!Flushers
    <3> QED BY <1>6, <1>8, <3>1
  <2> QED BY <1>2, <2>1 DEF MarkIsTaken
<1> QED BY <1>9, <1>10, <1>11, <1>12, <1>13, <1>14, <1>15, <1>16

\* The counters read.
LEMMA ProgressRead ==
  ASSUME StreamsAssumption, ProgressInv, NEW f \in Events!Flushers, Events!ReadAggregate(f)
  PROVE  ProgressInv'
<1> USE DEF ProgressInv
<1> DEFINE W == [todo : SUBSET Jobs, job : Jobs \cup {Events!NoJob}, seen : Rows \cup {<<>>}]
           j == flush[f].job
           w == [flush[f] EXCEPT !.seen = table[j]]
<1>1. /\ j # Events!NoJob /\ flush' = [flush EXCEPT ![f] = w]
      /\ UNCHANGED <<table, moved, settling, dirty, last, shown, stopping, restarts>>
  BY DEF Events!ReadAggregate, Events!lifeVars
<1>2. flush \in [Events!Flushers -> W] BY DEF ProgressShape
<1>3. flush[f] \in W BY <1>2
<1>4. j \in Jobs /\ table[j] \in Rows BY <1>1, <1>3 DEF ProgressShape
<1>5. w \in W /\ w.todo = flush[f].todo /\ w.job = j /\ w.seen = table[j]
  BY <1>3, <1>4
<1> HIDE DEF w, W, j
<1>6. /\ flush' \in [Events!Flushers -> W] /\ flush'[f] = w
      /\ \A g \in Events!Flushers \ {f} : flush'[g] = flush[g]
      /\ \A g \in Events!Flushers : flush'[g].job = flush[g].job /\ flush'[g].todo = flush[g].todo
  BY <1>1, <1>2, <1>5 DEF j
<1>7. ProgressShape' BY <1>1, <1>6 DEF ProgressShape, W
<1>8. Verdicts' BY <1>1 DEF Verdicts
<1>9. OneFlush' BY <1>1, <1>5, <1>6 DEF OneFlush
<1>10. NoneAhead' BY <1>1, <1>5, <1>6 DEF NoneAhead
<1>11. LastIsShown' BY <1>1 DEF LastIsShown
<1>12. ReadIsCurrent' BY <1>1, <1>5, <1>6 DEF ReadIsCurrent
<1>13. Converged'
  <2>1. \A x : Events!Flushed(x)' <=> Events!Flushed(x) BY <1>6 DEF Events!Flushed
  <2> QED BY <1>1, <2>1 DEF Converged
<1>14. MarkIsTaken' BY <1>1, <1>6 DEF MarkIsTaken, Events!Flushers
<1> QED BY <1>7, <1>8, <1>9, <1>10, <1>11, <1>12, <1>13, <1>14

\* What was read is published and remembered.
LEMMA ProgressPublish ==
  ASSUME StreamsAssumption, ProgressInv, NEW f \in Events!Flushers, Events!PublishDiff(f)
  PROVE  ProgressInv'
<1> USE DEF ProgressInv
<1> DEFINE W == [todo : SUBSET Jobs, job : Jobs \cup {Events!NoJob}, seen : Rows \cup {<<>>}]
           j == flush[f].job
           now == flush[f].seen
           m == Flushing(last[j], now, shown[j])
           w == [flush[f] EXCEPT !.job = Events!NoJob, !.seen = <<>>]
<1>1. /\ now # <<>> /\ last' = [last EXCEPT ![j] = now]
      /\ UNCHANGED <<table, moved, settling, dirty, stopping, restarts>>
  BY DEF Events!PublishDiff, Events!lifeVars
<1>2. flush \in [Events!Flushers -> W] BY DEF ProgressShape
<1>3. flush[f] \in W BY <1>2
<1>4. j \in Jobs /\ j # Events!NoJob /\ now \in Rows
  BY <1>1, <1>3 DEF OneFlush
<1>5. w \in W /\ w.todo = flush[f].todo /\ w.job = Events!NoJob /\ w.seen = <<>>
  BY <1>3
<1>6. flush' = [flush EXCEPT ![f] = w] BY <1>2 DEF Events!PublishDiff
<1>7. shown' = [shown EXCEPT ![j] = m]
  <2> DEFINE diff == Events!Diff(last[j], now)
  <2>1. IF DOMAIN diff = {} THEN shown' = shown ELSE Events!Publish(j, diff)
    BY DEF Events!PublishDiff
  <2>2. CASE DOMAIN diff = {}
    <3>1. shown' = shown /\ m = shown[j] BY <2>1, <2>2 DEF Flushing
    <3>2. shown \in [Jobs -> Partials] BY DEF ProgressShape
    <3> HIDE DEF m, j
    <3> QED BY <3>1, <3>2
  <2>3. CASE DOMAIN diff # {}
    <3>1. Events!Publish(j, diff) /\ m = Events!Merge(diff, shown[j]) BY <2>1, <2>3 DEF Flushing
    <3> HIDE DEF diff, m, j
    <3> QED BY <3>1 DEF Events!Publish
  <2> QED BY <2>2, <2>3
<1>8. shown[j] \in Partials /\ last[j] \in Rows \cup {<<>>} /\ table[j] \in Rows
  BY <1>4 DEF ProgressShape
<1>9. last[j] # <<>> => /\ last[j] \in Rows /\ DOMAIN shown[j] = Fields
                        /\ shown[j]["done"] = last[j].done
                        /\ shown[j]["status"] \in {last[j].status, table[j].status}
  BY <1>4, <1>8 DEF LastIsShown
<1>10. /\ m \in Partials /\ DOMAIN m = Fields
       /\ m["done"] = (IF last[j] # <<>> /\ last[j].done = now.done THEN shown[j]["done"]
                       ELSE now.done)
       /\ m["status"] = (IF last[j] # <<>> /\ last[j].status = now.status THEN shown[j]["status"]
                         ELSE now.status)
  <2> DEFINE was == last[j]
             x == shown[j]
  <2>1. was = <<>> \/ (was \in Rows /\ DOMAIN x = Fields) BY <1>8, <1>9
  <2>2. now \in Rows /\ x \in Partials BY <1>4, <1>8
  <2> HIDE DEF now, was, x, j
  <2>3. /\ Flushing(was, now, x) \in Partials /\ DOMAIN Flushing(was, now, x) = Fields
        /\ Flushing(was, now, x)["done"]
             = IF was # <<>> /\ was.done = now.done THEN x["done"] ELSE now.done
        /\ Flushing(was, now, x)["status"]
             = IF was # <<>> /\ was.status = now.status THEN x["status"] ELSE now.status
    BY <2>1, <2>2, FlushShows
  <2> QED BY <2>3 DEF was, x
<1> HIDE DEF w, W, j, now, m
<1>11. m["done"] = now.done /\ m["status"] \in {now.status, table[j].status} BY <1>9, <1>10
<1>12. /\ flush' \in [Events!Flushers -> W] /\ flush'[f] = w
       /\ \A g \in Events!Flushers \ {f} : flush'[g] = flush[g]
       /\ last' \in [Jobs -> Rows \cup {<<>>}] /\ last'[j] = now
       /\ \A x \in Jobs \ {j} : last'[x] = last[x]
       /\ shown' \in [Jobs -> Partials] /\ shown'[j] = m
       /\ \A x \in Jobs \ {j} : shown'[x] = shown[x]
  BY <1>1, <1>2, <1>4, <1>5, <1>6, <1>7, <1>10 DEF ProgressShape
<1>13. ProgressShape' BY <1>1, <1>12 DEF ProgressShape, W
<1>14. Verdicts' BY <1>1 DEF Verdicts
<1>15. OneFlush' BY <1>5, <1>12 DEF OneFlush
<1>16. NoneAhead'
  <2>1. table[j].status = "running" => now.status = "running" BY <1>1 DEF NoneAhead, now, j
  <2>2. \A x \in Jobs : table[x].status = "running" =>
          /\ last'[x] # <<>> => last'[x].status = "running"
          /\ "status" \in DOMAIN shown'[x] => shown'[x]["status"] = "running"
    BY <1>11, <1>12, <2>1 DEF NoneAhead
  <2>3. \A g \in Events!Flushers : flush'[g].seen # <<>> /\ table[flush'[g].job].status = "running"
          => flush'[g].seen.status = "running"
    BY <1>5, <1>12 DEF NoneAhead
  <2> QED BY <1>1, <2>2, <2>3 DEF NoneAhead
<1>17. LastIsShown' BY <1>1, <1>10, <1>11, <1>12 DEF LastIsShown
<1>18. ReadIsCurrent' BY <1>1, <1>5, <1>12 DEF ReadIsCurrent
<1>19. Converged'
  <2>1. ASSUME NEW x \in moved, x \notin dirty, ~Events!Flushed(x)'
        PROVE  /\ DOMAIN shown'[x] = Fields /\ shown'[x]["done"] = table[x].done
               /\ settling[x] # "finished" => shown'[x]["status"] = table[x].status
    <3>1. CASE x = j
      <4>1. now.done = table[j].done /\ (settling[j] # "finished" => now.status = table[j].status)
        BY <1>1, <2>1, <3>1 DEF ReadIsCurrent, now, j
      <4> QED BY <1>10, <1>11, <1>12, <3>1, <4>1
    <3>2. CASE x # j
      <4>1. ~Events!Flushed(x)
        <5>1. \A g \in Events!Flushers : flush'[g].job # x BY <2>1 DEF Events!Flushed
        <5> QED BY <1>12, <3>2, <5>1 DEF Events!Flushed, j
      <4>2. x \in Jobs BY DEF ProgressShape
      <4> QED BY <1>12, <2>1, <3>2, <4>1, <4>2 DEF Converged
    <3> QED BY <3>1, <3>2
  <2> QED BY <1>1, <2>1 DEF Converged
<1>20. MarkIsTaken'
  <2>1. \A g \in Events!Flushers : flush'[g].todo = flush[g].todo BY <1>5, <1>12
  <2> QED BY <1>1, <2>1 DEF MarkIsTaken, Events!Flushers
<1> QED BY <1>13, <1>14, <1>15, <1>16, <1>17, <1>18, <1>19, <1>20

\* A flush of the loop begins.
LEMMA ProgressDue ==
  ASSUME StreamsAssumption, ProgressInv, Events!FlushDue
  PROVE  ProgressInv'
<1> USE DEF ProgressInv
<1> DEFINE W == [todo : SUBSET Jobs, job : Jobs \cup {Events!NoJob}, seen : Rows \cup {<<>>}]
<1>1. PICK due \in SUBSET dirty :
        /\ flush["loop"] = Events!Idle /\ flush' = [flush EXCEPT !["loop"].todo = due]
        /\ UNCHANGED <<table, moved, settling, dirty, last, shown, stopping, restarts>>
  BY DEF Events!FlushDue, Events!lifeVars
<1> DEFINE w == [flush["loop"] EXCEPT !.todo = due]
<1>2. flush \in [Events!Flushers -> W] /\ dirty \subseteq Jobs /\ "loop" \in Events!Flushers
  BY DEF ProgressShape, Events!Flushers
<1>3. w \in W /\ w.job = flush["loop"].job /\ w.seen = flush["loop"].seen BY <1>2
<1>4. flush' = [flush EXCEPT !["loop"] = w] BY <1>1
<1> HIDE DEF w, W
<1>5. /\ flush' \in [Events!Flushers -> W]
      /\ \A g \in Events!Flushers : flush'[g].job = flush[g].job /\ flush'[g].seen = flush[g].seen
      /\ \A j \in Jobs : flush'[j] = flush[j]
  BY <1>2, <1>3, <1>4 DEF StreamsAssumption, Events!Flushers
<1>6. ProgressShape' BY <1>1, <1>5 DEF ProgressShape, W
<1>7. Verdicts' /\ LastIsShown' BY <1>1 DEF Verdicts, LastIsShown
<1>8. OneFlush' BY <1>5 DEF OneFlush
<1>9. NoneAhead' BY <1>1, <1>5 DEF NoneAhead
<1>10. ReadIsCurrent' BY <1>1, <1>5 DEF ReadIsCurrent
<1>11. Converged'
  <2>1. \A x : Events!Flushed(x)' <=> Events!Flushed(x) BY <1>5 DEF Events!Flushed
  <2> QED BY <1>1, <2>1 DEF Converged
<1>12. MarkIsTaken' BY <1>1, <1>5 DEF MarkIsTaken
<1> QED BY <1>6, <1>7, <1>8, <1>9, <1>10, <1>11, <1>12

\* A stop begins its last flush.
LEMMA ProgressStop ==
  ASSUME StreamsAssumption, ProgressInv, Events!StopProgress
  PROVE  ProgressInv'
<1> USE DEF ProgressInv
<1> DEFINE W == [todo : SUBSET Jobs, job : Jobs \cup {Events!NoJob}, seen : Rows \cup {<<>>}]
           last1 == [Events!Idle EXCEPT !.todo = dirty]
<1>1. /\ \A f \in Events!Flushers : flush[f].job = Events!NoJob
      /\ flush' = [f \in Events!Flushers |-> IF f = "loop" THEN last1 ELSE Events!Idle]
      /\ settling' = [j \in Jobs |-> "no"] /\ stopping' = TRUE
      /\ \A j \in Jobs : settling[j] = "no"
      /\ UNCHANGED <<table, moved, dirty, last, shown, restarts>>
  BY DEF Events!StopProgress, Events!Allowed, StreamsAssumption
<1>2. /\ Events!Idle \in W /\ Events!Idle.job = Events!NoJob /\ Events!Idle.seen = <<>>
      /\ last1 \in W /\ last1.job = Events!NoJob /\ last1.seen = <<>>
  <2>1. dirty \subseteq Jobs BY DEF ProgressShape
  <2> QED BY <2>1 DEF Events!Idle
<1> HIDE DEF W, last1
<1>3. /\ flush' \in [Events!Flushers -> W]
      /\ \A f \in Events!Flushers : flush'[f].job = Events!NoJob /\ flush'[f].seen = <<>>
  BY <1>1, <1>2
<1>4. ProgressShape' BY <1>1, <1>3 DEF ProgressShape, W
<1>5. Verdicts' /\ MarkIsTaken' BY <1>1 DEF Verdicts, MarkIsTaken
<1>6. OneFlush' BY <1>3 DEF OneFlush
<1>7. NoneAhead' BY <1>1, <1>3 DEF NoneAhead
<1>8. LastIsShown' BY <1>1 DEF LastIsShown
<1>9. ReadIsCurrent' BY <1>3 DEF ReadIsCurrent
<1>10. Converged'
  <2>1. moved \subseteq Jobs BY DEF ProgressShape
  <2>2. \A x \in Jobs : ~Events!Flushed(x) BY <1>1 DEF Events!Flushed, StreamsAssumption
  <2> QED BY <1>1, <2>1, <2>2 DEF Converged
<1> QED BY <1>4, <1>5, <1>6, <1>7, <1>8, <1>9, <1>10

\* A process begins.
LEMMA ProgressNew ==
  ASSUME StreamsAssumption, ProgressInv, Events!NewProcess
  PROVE  ProgressInv'
<1> USE DEF ProgressInv
<1> DEFINE W == [todo : SUBSET Jobs, job : Jobs \cup {Events!NoJob}, seen : Rows \cup {<<>>}]
<1>1. /\ table' = table /\ moved' = {} /\ settling' = [j \in Jobs |-> "no"] /\ dirty' = {}
      /\ last' = [j \in Jobs |-> <<>>] /\ flush' = [f \in Events!Flushers |-> Events!Idle]
      /\ shown' = [j \in Jobs |-> <<>>] /\ restarts < MaxRestarts /\ restarts' = restarts + 1
      /\ stopping' = FALSE
  BY DEF Events!NewProcess
<1>2. <<>> \in Partials /\ DOMAIN <<>> = {}
  <2>1. DOMAIN <<>> = {} /\ <<>> = [k \in DOMAIN <<>> |-> <<>>[k]] OBVIOUS
  <2> QED BY <2>1, PartialFacts
<1>3. Events!Idle \in W /\ Events!Idle.job = Events!NoJob /\ Events!Idle.seen = <<>>
  BY DEF Events!Idle
<1>4. restarts' \in 0 .. MaxRestarts BY <1>1 DEF ProgressShape, StreamsAssumption
<1> HIDE DEF W
<1>5. ProgressShape'
  <2>1. flush' \in [Events!Flushers -> W] BY <1>1, <1>3
  <2>2. shown' \in [Jobs -> Partials] /\ last' \in [Jobs -> Rows \cup {<<>>}] BY <1>1, <1>2
  <2> QED BY <1>1, <1>4, <2>1, <2>2 DEF ProgressShape, W
<1>6. Verdicts' /\ MarkIsTaken' /\ Converged' BY <1>1 DEF Verdicts, MarkIsTaken, Converged
<1>7. OneFlush' /\ ReadIsCurrent' BY <1>1, <1>3 DEF OneFlush, ReadIsCurrent
<1>8. NoneAhead' /\ LastIsShown' BY <1>1, <1>2, <1>3 DEF NoneAhead, LastIsShown
<1> QED BY <1>5, <1>6, <1>7, <1>8

\* A step of the readers.
LEMMA ProgressStand ==
  ASSUME ProgressInv,
         UNCHANGED <<table, moved, settling, dirty, last, flush, shown, stopping, restarts>>
  PROVE  ProgressInv'
BY DEF ProgressInv, ProgressShape, Verdicts, OneFlush, NoneAhead, LastIsShown, ReadIsCurrent,
       Converged, MarkIsTaken, Events!Flushed

\* No step disturbs what the progress of the jobs rests on.
LEMMA ProgressStep ==
  ASSUME StreamsAssumption, ProgressInv, [Events!Next]_(Events!vars)
  PROVE  ProgressInv'
<1> USE DEF Events!progressVars, Events!lifeVars
<1>1. ASSUME NEW j \in Jobs, Events!Ack(j) PROVE ProgressInv' BY <1>1, ProgressAck
<1>2. ASSUME NEW j \in Jobs, Events!FinishJob(j) PROVE ProgressInv' BY <1>2, ProgressFinish
<1>3. ASSUME NEW j \in Jobs, Events!PublishFinished(j) PROVE ProgressInv' BY <1>3, ProgressFinished
<1>4. ASSUME NEW j \in Jobs, Events!Forget(j) PROVE ProgressInv' BY <1>4, ProgressForget
<1>5. CASE Events!FlushDue BY <1>5, ProgressDue
<1>6. ASSUME NEW f \in Events!Flushers, Events!FlushStep(f) PROVE ProgressInv'
  BY <1>6, ProgressTake, ProgressRead, ProgressPublish DEF Events!FlushStep
<1>7. ASSUME NEW r \in Readers, Events!Connect(r) PROVE ProgressInv'
  BY <1>7, ProgressStand DEF Events!Connect
<1>8. ASSUME NEW r \in Readers, Events!Begin(r) PROVE ProgressInv'
  BY <1>8, ProgressStand DEF Events!Begin
<1>9. ASSUME NEW r \in Readers, Events!Deliver(r) PROVE ProgressInv'
  BY <1>9, ProgressStand DEF Events!Deliver
<1>10. ASSUME NEW r \in Readers, Events!Leave(r) PROVE ProgressInv'
  BY <1>10, ProgressStand DEF Events!Leave
<1>11. CASE Events!StopProgress BY <1>11, ProgressStop
<1>12. CASE Events!NewProcess BY <1>12, ProgressNew
<1>13. CASE UNCHANGED Events!vars BY <1>13, ProgressStand DEF Events!vars
<1> QED BY <1>1, <1>2, <1>3, <1>4, <1>5, <1>6, <1>7, <1>8, <1>9, <1>10, <1>11, <1>12, <1>13
        DEF Events!Next

-----------------------------------------------------------------------------
(* The event streams: what they promise. *)

Ascends(s) == \A k \in 1 .. Len(s) - 1 : s[k] < s[k + 1]

\* One sequence of frames after another.
LEMMA AscendsConcat ==
  ASSUME NEW s \in Seq(Nat), NEW t \in Seq(Nat), Ascends(s), Ascends(t),
         s # <<>> /\ t # <<>> => s[Len(s)] < t[1]
  PROVE  Ascends(s \o t)
<1> DEFINE u == s \o t
           m == Len(s)
           n == Len(t)
<1>1. /\ Len(u) = m + n /\ \A i \in 1 .. m + n : u[i] = IF i <= m THEN s[i] ELSE t[i - m]
  BY ConcatProperties
<1>2. m \in Nat /\ n \in Nat BY LenProperties
<1>3. m # 0 => s # <<>> BY NothingFollows
<1>4. n # 0 => t # <<>> BY NothingFollows
<1>5. /\ \A k \in 1 .. m - 1 : s[k] < s[k + 1]
      /\ \A k \in 1 .. n - 1 : t[k] < t[k + 1]
      /\ m # 0 /\ n # 0 => s[m] < t[1]
  BY <1>3, <1>4 DEF Ascends
<1> HIDE DEF u, m, n
<1>6. ASSUME NEW k \in 1 .. (m + n) - 1 PROVE u[k] < u[k + 1]
  <2>1. k \in 1 .. m + n /\ k + 1 \in 1 .. m + n BY <1>2, <1>6
  <2>2. CASE k + 1 <= m
    <3>1. u[k] = s[k] /\ u[k + 1] = s[k + 1] /\ k \in 1 .. m - 1 BY <1>1, <1>2, <2>1, <2>2
    <3> QED BY <1>5, <3>1
  <2>3. CASE k = m
    <3>1. u[k] = s[m] /\ u[k + 1] = t[(m + 1) - m] /\ m # 0 /\ n # 0 BY <1>1, <1>2, <2>1, <2>3
    <3>2. (m + 1) - m = 1 BY <1>2
    <3> QED BY <1>5, <3>1, <3>2
  <2>4. CASE k > m
    <3>1. u[k] = t[k - m] /\ u[k + 1] = t[(k + 1) - m] BY <1>1, <1>2, <2>1, <2>4
    <3>2. (k + 1) - m = (k - m) + 1 /\ k - m \in 1 .. n - 1 BY <1>2, <2>1, <2>4
    <3> QED BY <1>5, <3>1, <3>2
  <2> QED BY <1>2, <2>2, <2>3, <2>4
<1>7. \A k \in 1 .. Len(u) - 1 : u[k] < u[k + 1] BY <1>1, <1>6
<1> QED BY <1>7 DEF u, Ascends

\* Frames that follow one another ascend.
LEMMA FollowsAscends == ASSUME NEW s, NEW a \in Nat, Follows(s, a) PROVE Ascends(s)
<1>1. s \in Seq(Nat) /\ Len(s) \in Nat BY LenProperties DEF Follows
<1>2. ASSUME NEW k \in 1 .. Len(s) - 1 PROVE s[k] < s[k + 1]
  <2>1. k \in 1 .. Len(s) /\ k + 1 \in 1 .. Len(s) BY <1>1, <1>2
  <2>2. s[k] = a + k - 1 /\ s[k + 1] = a + (k + 1) - 1 BY <2>1 DEF Follows
  <2> QED BY <1>1, <1>2, <2>2
<1> QED BY <1>2 DEF Ascends

\* What waits in a stream ascends, and is newer than what its client saw last.
LEMMA WaitingAscends ==
  ASSUME NEW s \in StreamRows, s.at = "on", NEW n \in Nat \ {0}, StreamFits(s, n)
  PROVE  /\ s.replay \o s.queue \in Seq(Nat) /\ Ascends(s.replay \o s.queue)
         /\ s.first + s.got + Len(s.replay \o s.queue) + s.dropped = n
         /\ \A id \in Nat : WaitsAfter(s, n, id) /\ s.replay \o s.queue # <<>>
              => id < (s.replay \o s.queue)[1]
<1> DEFINE p == s.replay
           q == s.queue
           a == s.first + s.got
           b == n - Len(q)
<1>1. /\ Follows(q, b) /\ Len(q) < n /\ Follows(p, a)
      /\ s.first + s.got + Len(p) + Len(q) + s.dropped = n
  BY DEF StreamFits
<1>2. /\ s.first \in Nat /\ s.got \in Nat /\ s.dropped \in Nat /\ p \in Seq(Nat) /\ q \in Seq(Nat)
  BY DEF StreamRows
<1>3. Len(q) \in Nat /\ Len(p) \in Nat BY <1>2, LenProperties
<1>4. a \in Nat /\ b \in Nat BY <1>1, <1>2, <1>3
<1>5. /\ p \o q \in Seq(Nat) /\ Len(p \o q) = Len(p) + Len(q)
      /\ \A i \in 1 .. Len(p) + Len(q) : (p \o q)[i] = IF i <= Len(p) THEN p[i] ELSE q[i - Len(p)]
  BY <1>2, ConcatProperties
<1>6. Ascends(p) /\ Ascends(q)
  <2> HIDE DEF a, b, p, q
  <2> QED BY <1>1, <1>4, FollowsAscends
<1>7. a + Len(p) <= b
  <2> DEFINE m == Len(p)
             k == Len(q)
             e == s.dropped
  <2>1. a + m + k + e = n /\ m \in Nat /\ k \in Nat /\ e \in Nat /\ b = n - k BY <1>1, <1>2, <1>3
  <2> HIDE DEF a, b, m, k, e
  <2>2. a + m <= b BY <1>4, <2>1
  <2> QED BY <2>2 DEF m
<1>8. /\ \A i \in 1 .. Len(p) : p[i] = a + i - 1
      /\ \A i \in 1 .. Len(q) : q[i] = b + i - 1
  BY <1>1 DEF Follows
<1>9. /\ p # <<>> => Len(p) # 0
      /\ q # <<>> => Len(q) # 0
  BY <1>2, EmptySeq
<1>14. /\ p # <<>> => p[1] = a /\ p[Len(p)] = a + Len(p) - 1
       /\ q # <<>> => q[1] = b
  <2> DEFINE m == Len(p)
             k == Len(q)
  <2>1. /\ m \in Nat /\ k \in Nat /\ (p # <<>> => m # 0) /\ (q # <<>> => k # 0)
        /\ \A i \in 1 .. m : p[i] = a + i - 1
        /\ \A i \in 1 .. k : q[i] = b + i - 1
    BY <1>3, <1>8, <1>9
  <2> HIDE DEF a, b, p, q, m, k
  <2>2. p # <<>> => 1 \in 1 .. m /\ m \in 1 .. m BY <2>1
  <2>3. q # <<>> => 1 \in 1 .. k BY <2>1
  <2>4. a + 1 - 1 = a /\ b + 1 - 1 = b BY <1>4
  <2>5. p # <<>> => p[1] = a + 1 - 1 /\ p[m] = a + m - 1 BY <2>1, <2>2
  <2>6. q # <<>> => q[1] = b + 1 - 1 BY <2>1, <2>3
  <2> QED BY <2>4, <2>5, <2>6 DEF m
<1>10. p # <<>> /\ q # <<>> => p[Len(p)] < q[1]
  <2>1. SUFFICES ASSUME p # <<>>, q # <<>> PROVE p[Len(p)] < q[1] OBVIOUS
  <2>2. p[Len(p)] = a + Len(p) - 1 /\ q[1] = b BY <1>14, <2>1
  <2> HIDE DEF a, b, p, q
  <2> QED BY <1>3, <1>4, <1>7, <2>2
<1>11. Ascends(p \o q)
  <2> HIDE DEF a, b, p, q
  <2> QED BY <1>2, <1>6, <1>10, AscendsConcat
<1>12. s.first + s.got + Len(p \o q) + s.dropped = n
  <2>1. s.first + s.got + (Len(p) + Len(q)) + s.dropped = n
    <3> DEFINE f == s.first
               g == s.got
               m == Len(p)
               k == Len(q)
               e == s.dropped
    <3>1. f + g + m + k + e = n /\ f \in Nat /\ g \in Nat BY <1>1, <1>2
    <3>2. m \in Nat /\ k \in Nat /\ e \in Nat BY <1>2, <1>3
    <3> HIDE DEF f, g, m, k, e
    <3>3. f + g + (m + k) + e = n BY <3>1, <3>2
    <3> QED BY <3>3 DEF f, g, m, k, e
  <2> QED BY <1>5, <2>1
<1>13. ASSUME NEW id \in Nat, WaitsAfter(s, n, id), p \o q # <<>> PROVE id < (p \o q)[1]
  <2>1. CASE p = <<>>
    <3>1. p \o q = q /\ q # <<>> BY <1>2, <1>13, <2>1, ConcatEmptySeq
    <3>2. q[1] = b BY <1>14, <3>1
    <3>3. id < b BY <1>13, <2>1 DEF WaitsAfter
    <3> QED BY <3>1, <3>2, <3>3
  <2>2. CASE p # <<>>
    <3>1. Len(p) # 0 BY <1>9, <2>2
    <3>2. p[1] = a BY <1>14, <2>2
    <3>3. id < a BY <1>13, <2>2 DEF WaitsAfter
    <3>4. (p \o q)[1] = p[1]
      <4> HIDE DEF p, q
      <4> QED BY <1>3, <1>5, <3>1
    <3> QED BY <3>2, <3>3, <3>4
  <2> QED BY <2>1, <2>2
<1> QED BY <1>5, <1>11, <1>12, <1>13 DEF p, q

\* The two invariants are what the streams promise.
LEMMA StreamsPromised ==
  ASSUME StreamsAssumption, FramesInv, ProgressInv
  PROVE  StreamsSound
<1>1. Events!DeliveredInOrder
  <2>1. SUFFICES ASSUME NEW r \in Readers, stream[r].at = "on"
                 PROVE  Ascends((IF r \in stale \/ lastId[r] = 0 THEN <<>> ELSE <<lastId[r]>>)
                                  \o Events!Waiting(r))
    BY DEF Events!DeliveredInOrder, Ascends
  <2> DEFINE w == stream[r].replay \o stream[r].queue
             s == stream[r]
             id == lastId[r]
  <2>2. /\ s \in StreamRows /\ s.at = "on" /\ nextId \in Nat \ {0} /\ StreamFits(s, nextId)
        /\ id \in Nat /\ (r \notin stale => WaitsAfter(s, nextId, id))
    BY <2>1 DEF FramesInv
  <2>3. w \in Seq(Nat) /\ Ascends(w) /\ (r \notin stale /\ w # <<>> => id < w[1])
    <3> HIDE DEF s, id
    <3>1. /\ s.replay \o s.queue \in Seq(Nat) /\ Ascends(s.replay \o s.queue)
          /\ s.first + s.got + Len(s.replay \o s.queue) + s.dropped = nextId
          /\ \A x \in Nat : WaitsAfter(s, nextId, x) /\ s.replay \o s.queue # <<>>
               => x < (s.replay \o s.queue)[1]
      BY <2>2, WaitingAscends
    <3> QED BY <2>2, <3>1 DEF s
  <2>4. Events!Waiting(r) = w BY DEF Events!Waiting
  <2> HIDE DEF w, s, id
  <2>5. CASE r \in stale \/ id = 0
    <3>1. <<>> \o w = w BY <2>3, ConcatEmptySeq
    <3> QED BY <2>3, <2>4, <2>5, <3>1 DEF id
  <2>6. CASE ~(r \in stale \/ id = 0)
    <3>1. <<id>> \in Seq(Nat) /\ Len(<<id>>) = 1 /\ <<id>>[1] = id BY <2>2
    <3>2. Ascends(<<id>>) BY <3>1 DEF Ascends
    <3>3. <<id>> # <<>> /\ w # <<>> => <<id>>[Len(<<id>>)] < w[1] BY <2>3, <2>6, <3>1
    <3> DEFINE o == <<id>>
    <3> HIDE DEF o
    <3>4. Ascends(o \o w) BY <2>3, <3>1, <3>2, <3>3, AscendsConcat DEF o
    <3> QED BY <2>4, <2>6, <3>4 DEF id, o
  <2> QED BY <2>5, <2>6
<1>2. Events!NoSilentGap
  <2>1. SUFFICES ASSUME NEW r \in Readers, stream[r].at = "on"
                 PROVE  stream[r].first + stream[r].got + Len(Events!Waiting(r))
                          + stream[r].dropped = nextId
    BY DEF Events!NoSilentGap
  <2> DEFINE s == stream[r]
  <2>2. /\ s \in StreamRows /\ s.at = "on" /\ nextId \in Nat \ {0} /\ StreamFits(s, nextId)
    BY <2>1 DEF FramesInv
  <2> HIDE DEF s
  <2>3. /\ s.replay \o s.queue \in Seq(Nat) /\ Ascends(s.replay \o s.queue)
        /\ s.first + s.got + Len(s.replay \o s.queue) + s.dropped = nextId
        /\ \A x \in Nat : WaitsAfter(s, nextId, x) /\ s.replay \o s.queue # <<>>
             => x < (s.replay \o s.queue)[1]
    BY <2>2, WaitingAscends
  <2> QED BY <2>3 DEF s, Events!Waiting
<1>3. Events!SlotsMatchStreams
  <2>1. \A S : Events!Cardinality(S) = Cardinality(S) BY DEF Events!Cardinality, Cardinality
  <2>2. streamHeld = Cardinality(OpenStreams) BY DEF FramesInv
  <2> QED BY <2>1, <2>2 DEF Events!SlotsMatchStreams, OpenStreams
<1>4. Events!FramesConverge
  <2>1. SUFFICES ASSUME NEW j \in moved, j \notin dirty, settling[j] # "finished",
                        ~Events!Flushed(j)
                 PROVE  shown[j] = table[j]
    BY DEF Events!FramesConverge
  <2>2. /\ DOMAIN shown[j] = Fields /\ shown[j]["done"] = table[j].done
        /\ shown[j]["status"] = table[j].status
    BY <2>1 DEF ProgressInv, Converged
  <2>3. j \in Jobs /\ table[j] \in Rows /\ shown[j] \in Partials
    BY DEF ProgressInv, ProgressShape
  <2> DEFINE x == shown[j]
             t == table[j]
  <2>4. t = [k \in Fields |-> t[k]] /\ t["done"] = t.done /\ t["status"] = t.status
    <3> HIDE DEF t
    <3> QED BY <2>3, RowFacts DEF t
  <2>5. x = [k \in DOMAIN x |-> x[k]] BY <2>3, PartialFacts
  <2> HIDE DEF x, t
  <2>6. \A k \in Fields : x[k] = t[k] BY <2>2, <2>4 DEF Fields, x, t
  <2>7. x = [k \in Fields |-> x[k]] BY <2>2, <2>5 DEF x
  <2>8. x = t BY <2>4, <2>6, <2>7
  <2> QED BY <2>8 DEF x, t
<1>5. Events!TypeOK
  <2>1. /\ \A j \in Jobs : table[j].done \in 0 .. Tasks /\ table[j].status \in {"running", "completed"}
        /\ moved \subseteq Jobs /\ dirty \subseteq moved
        /\ settling \in [Jobs -> {"no", "finished", "flushing"}]
        /\ stopping \in BOOLEAN /\ restarts \in 0 .. MaxRestarts
    BY DEF ProgressInv, ProgressShape, Rows
  <2>2. \A f \in Events!Flushers : flush[f].todo \subseteq Jobs
                                   /\ flush[f].job \in Jobs \cup {Events!NoJob}
    BY DEF ProgressInv, ProgressShape
  <2>3. \A j \in Jobs : DOMAIN last[j] \in {{}, {"done", "status"}}
    <3>1. SUFFICES ASSUME NEW j \in Jobs PROVE DOMAIN last[j] \in {{}, {"done", "status"}} OBVIOUS
    <3> DEFINE x == last[j]
    <3>2. x \in Rows \cup {<<>>} BY DEF ProgressInv, ProgressShape
    <3> HIDE DEF x
    <3>3. CASE x \in Rows
      <4>1. DOMAIN x = Fields BY <3>3, RowFacts
      <4> QED BY <4>1 DEF Fields, x
    <3>4. CASE x = <<>>
      <4>1. DOMAIN <<>> = {} OBVIOUS
      <4> QED BY <3>4, <4>1 DEF x
    <3> QED BY <3>2, <3>3, <3>4
  <2>4. Len(ring) <= RingCapacity /\ nextId \in Nat \ {0} BY DEF FramesInv
  <2>5. \A k \in 1 .. Len(ring) : ring[k] = nextId - Len(ring) - 1 + k
    <3>1. Follows(ring, nextId - Len(ring)) BY DEF FramesInv
    <3>2. ring \in Seq(Nat) /\ Len(ring) \in Nat BY <3>1, LenProperties DEF Follows
    <3>3. \A k \in 1 .. Len(ring) : ring[k] = (nextId - Len(ring)) + k - 1 BY <3>1 DEF Follows
    <3> QED BY <2>4, <3>2, <3>3
  <2>6. \A r \in Readers : /\ Len(stream[r].queue) <= StreamQueue
                           /\ stream[r].at # "on" => Events!Waiting(r) = <<>>
    <3>1. SUFFICES ASSUME NEW r \in Readers
                   PROVE  /\ Len(stream[r].queue) <= StreamQueue
                          /\ stream[r].at # "on" => Events!Waiting(r) = <<>>
      OBVIOUS
    <3>2. StreamFits(stream[r], nextId) BY DEF FramesInv
    <3>3. CASE stream[r].at = "on" BY <3>2, <3>3 DEF StreamFits
    <3>4. CASE stream[r].at # "on"
      <4>1. stream[r].replay = <<>> /\ stream[r].queue = <<>> BY <3>2, <3>4 DEF StreamFits
      <4>2. <<>> \o <<>> = <<>> /\ Len(<<>>) = 0 /\ <<>> \in Seq(Nat)
        BY EmptySeq, ConcatEmptySeq
      <4>3. 0 <= StreamQueue BY DEF StreamsAssumption
      <4> QED BY <4>1, <4>2, <4>3 DEF Events!Waiting
    <3> QED BY <3>3, <3>4
  <2>7. lastId \in [Readers -> Nat] /\ stale \subseteq Readers /\ streamHeld \in 0 .. Slots
    BY DEF FramesInv
  <2> QED BY <2>1, <2>2, <2>3, <2>4, <2>5, <2>6, <2>7 DEF Events!TypeOK
<1> QED BY <1>1, <1>2, <1>3, <1>4, <1>5 DEF StreamsSound

\* Frames come in order and none twice, one that will never come was counted as dropped, the
\* limiter counts the open streams, and a job nothing is left to be told of has shown its last
\* state (pipeline/events.py, pipeline/progress.py, api/v1/events.py), as long as no two flushes
\* are at one job, a stop waits for the flushes under way and no client goes before its stream
\* has begun.
THEOREM StreamsSoundAlways == ASSUME StreamsAssumption PROVE Events!Spec => []StreamsSound
<1>1. Events!Init => FramesInv /\ ProgressInv BY FramesStart, ProgressStart
<1>2. FramesInv /\ ProgressInv /\ [Events!Next]_(Events!vars) => FramesInv' /\ ProgressInv'
  BY FramesStep, ProgressStep
<1>3. FramesInv /\ ProgressInv => StreamsSound BY StreamsPromised
<1> QED BY <1>1, <1>2, <1>3, PTL DEF Events!Spec

\* Which frame a stream begins with.
LEMMA BeginsAfter ==
  ASSUME StreamsAssumption, FramesInv, NEW r \in Readers, stream[r].at = "accepted",
         [Events!Next]_(Events!vars), stream'[r].at = "on", lastId[r] > 0, r \notin stale
  PROVE  \/ stream'[r].first = lastId[r] + 1
         \/ ring # <<>> /\ stream'[r].first = Head(ring) /\ lastId[r] < Head(ring)
<1> USE DEF Events!readerVars
<1>1. stream \in [Readers -> StreamRows] /\ lastId[r] \in Nat /\ WaitsAfter(stream[r], nextId, lastId[r])
  BY DEF FramesInv
<1>2. lastId[r] < nextId /\ lastId[r] # 0 BY <1>1 DEF WaitsAfter
<1>3. stream' # stream BY <1>1
<1>4. \A j, fields : ~Events!Publish(j, fields) BY DEF Events!Publish
<1>5. ~Events!FlushDue BY <1>3 DEF Events!FlushDue
<1>6. ASSUME NEW j \in Jobs, Events!Ack(j) \/ Events!FinishJob(j) \/ Events!PublishFinished(j)
                              \/ Events!Forget(j)
      PROVE  FALSE
  BY <1>3, <1>4, <1>6 DEF Events!Ack, Events!FinishJob, Events!PublishFinished, Events!Forget
<1>7. ASSUME NEW f \in Events!Flushers, Events!FlushStep(f) PROVE FALSE
  <2>1. ~Events!TakeMark(f) /\ ~Events!ReadAggregate(f)
    BY <1>3 DEF Events!TakeMark, Events!ReadAggregate
  <2>2. ~Events!PublishDiff(f) BY <1>3, <1>4 DEF Events!PublishDiff
  <2> QED BY <1>7, <2>1, <2>2 DEF Events!FlushStep
<1>8. ~Events!StopProgress BY <1>3 DEF Events!StopProgress
<1>9. ~Events!NewProcess BY DEF Events!NewProcess, Events!NoStream
<1>10. ~(UNCHANGED Events!vars) BY <1>3 DEF Events!vars
<1>11. ASSUME NEW x \in Readers, Events!Connect(x) \/ Events!Deliver(x) \/ Events!Leave(x)
       PROVE  FALSE
  <2>1. CASE x = r BY <1>1, <1>11, <2>1 DEF Events!Connect, Events!Deliver, Events!Leave, Events!NoStream
  <2>2. CASE x # r
    <3>1. stream'[r] = stream[r]
      BY <1>1, <1>11, <2>2 DEF Events!Connect, Events!Deliver, Events!Leave
    <3> QED BY <3>1
  <2> QED BY <2>1, <2>2
<1>12. PICK x \in Readers : Events!Begin(x)
  BY <1>5, <1>6, <1>7, <1>8, <1>9, <1>10, <1>11 DEF Events!Next
<1>13. x = r
  <2>1. ASSUME x # r PROVE stream'[r] = stream[r] BY <1>1, <1>12, <2>1 DEF Events!Begin
  <2> QED BY <2>1
<1> DEFINE missed == Events!Replay(lastId[r])
<1>14. stream'[r].first = IF missed = <<>> THEN nextId ELSE Head(missed)
  <2> DEFINE f == IF missed = <<>> THEN nextId ELSE Head(missed)
             d == [stream[r] EXCEPT !.at = "on", !.replay = missed, !.first = f]
  <2>1. stream' = [stream EXCEPT ![r] = d] BY <1>1, <1>12, <1>13 DEF Events!Begin
  <2>2. stream'[r] = d BY <1>1, <2>1
  <2>3. stream[r] \in StreamRows BY <1>1
  <2> HIDE DEF f, missed
  <2>4. d.first = f BY <2>3 DEF StreamRows
  <2> QED BY <2>2, <2>4 DEF f
<1>15. \/ missed = <<>> /\ lastId[r] + 1 = nextId
       \/ \E a \in Nat : /\ missed # <<>> /\ Head(missed) = a /\ lastId[r] < a
                         /\ a = lastId[r] + 1 \/ (ring # <<>> /\ a = Head(ring))
  <2> DEFINE id == lastId[r]
  <2> HIDE DEF id
  <2>1. \/ /\ Events!Replay(id) = <<>>
           /\ id # 0 /\ id < nextId => id + 1 = nextId
        \/ \E a \in Nat : /\ Events!Replay(id) \in Seq(Nat) /\ Events!Replay(id) # <<>>
                          /\ Follows(Events!Replay(id), a) /\ Head(Events!Replay(id)) = a
                          /\ id < a /\ a + Len(Events!Replay(id)) = nextId
                          /\ a = id + 1 \/ (ring # <<>> /\ a = Head(ring))
    BY <1>1, ReplayFits DEF id
  <2> QED BY <1>2, <2>1 DEF id
<1> HIDE DEF missed
<1> QED BY <1>14, <1>15

\* Within one process a stream that comes back begins right after what its client saw last, as
\* far as the ring goes.
THEOREM ResumesAlways == ASSUME StreamsAssumption PROVE Events!Spec => Events!ResumesWhereItLeft
<1>1. Events!Init => FramesInv BY FramesStart
<1>2. FramesInv /\ [Events!Next]_(Events!vars) => FramesInv' BY FramesStep
<1>3. FramesInv /\ [Events!Next]_(Events!vars) =>
        [\A r \in Readers :
           stream[r].at = "accepted" /\ stream'[r].at = "on" /\ lastId[r] > 0 /\ r \notin stale =>
             \/ stream'[r].first = lastId[r] + 1
             \/ ring # <<>> /\ stream'[r].first = Head(ring) /\ lastId[r] < Head(ring)]_(Events!vars)
  BY BeginsAfter
<1> QED BY <1>1, <1>2, <1>3, PTL DEF Events!Spec, Events!ResumesWhereItLeft
=============================================================================
