---------------------------- MODULE SymbolMaster ----------------------------
(***************************************************************************)
(* The daily snapshot of the broker's symbol files and the type 2          *)
(* dimension behind it (brokers/fyers/symbol_master.py), run as a task     *)
(* (pipeline/handlers/symbol_master.py).  Lot sizes are knowable only while*)
(* a contract is listed, so a version keeps the days on which it was true. *)
(*                                                                         *)
(* A file's content is a function from the instruments it lists to the     *)
(* attributes that are hashed; it stands for its own sha256.  Two tasks may*)
(* be in hand at once, on two workers: they share the working directory.   *)
(***************************************************************************)
EXTENDS Integers, FiniteSetsExt, Functions, SequencesExt

CONSTANTS
  Runs,            \* the workers a snapshot task may be in the hands of
  Order,           \* the files, in the order of a run
  Slice,           \* the instruments each file owns
  Contents,        \* what each file may say
  Derivatives,     \* the file of the derivatives; the cash file is any other
  Under,           \* the cash instrument an instrument of Derivatives hangs on
  LastDay,         \* bound: days
  Freedoms,        \* what may happen besides, of AllFreedoms
  MaxRuns,         \* bound: tasks taken
  MaxFaults        \* bound: failed downloads and kills

\* The broker may publish, or midnight may pass, while a run is under way.
AllFreedoms == {"published_meanwhile", "midnight_meanwhile"}
Files == ToSet(Order)
Tokens == UNION {Slice[f] : f \in Files}

VARIABLES
  today,
  published,   \* what the broker serves
  versions,    \* dim_instrument_master; to = 0: the current version
  snapshots,   \* symbol_master_snapshot
  roots,       \* the roots of the registry a run rebuilt last
  part,        \* the file being downloaded, for each of the files
  target,      \* the downloaded one
  run,         \* where each run stands
  spent

paths == <<part, target>>
tables == <<versions, snapshots>>
vars == <<today, published, tables, roots, paths, run, spent>>

NoFile == [there |-> FALSE]
Resting == [step |-> "idle"]
Days == 1 .. LastDay

TypeOK ==
  /\ today \in Days /\ \A f \in Files : published[f] \in Contents[f]
  /\ \A v \in versions : v.tok \in Tokens /\ v.from \in Days /\ v.to \in Days \cup {0}
  /\ \A v, w \in versions : v.tok = w.tok /\ v.from = w.from => v = w
  /\ \A x \in snapshots : x.file \in Files /\ x.day \in Days /\ x.rows \in Nat
  /\ \A x, y \in snapshots : x.file = y.file /\ x.day = y.day => x = y
  /\ roots \subseteq Tokens
  /\ \A r \in Runs : run[r].step \in {"idle", "fetch", "loading", "loaded", "skip", "diff", "rebuild"}

Init ==
  /\ today = 1 /\ published \in [Files -> UNION {Contents[f] : f \in Files}]
  /\ \A f \in Files : published[f] \in Contents[f]
  /\ versions = {} /\ snapshots = {} /\ roots = {}
  /\ part = [f \in Files |-> NoFile] /\ target = [f \in Files |-> NoFile]
  /\ run = [r \in Runs |-> Resting] /\ spent = [runs |-> 0, faults |-> 0]

-----------------------------------------------------------------------------
(* The dimension. *)

\* point_in_time_sql: the versions that answer for a day; valid_to is exclusive.
FactOn(tok, day) ==
  {v.attr : v \in {x \in versions : x.tok = tok /\ x.from <= day /\ (x.to = 0 \/ x.to > day)}}

Open(rows) == {v \in rows : v.to = 0}

\* last_snapshot: of the latest day, as a set.
LastSnapshot(f) ==
  {x \in snapshots : x.file = f /\ \A y \in snapshots : y.file = f => y.day <= x.day}

\* A version opened today is corrected in place.
Amend(rows, s, day) ==
  {IF v.to = 0 /\ v.from = day /\ v.tok \in DOMAIN s THEN [v EXCEPT !.attr = s[v.tok]] ELSE v :
     v \in rows}

\* row_hash: the tracked attributes of the row differ.
Changed(v, s) == v.tok \in DOMAIN s /\ v.attr # s[v.tok]
\* An earlier one that says otherwise ends today.
CloseChanged(rows, s, day) ==
  {IF v.to = 0 /\ v.from < day /\ Changed(v, s)
     THEN [v EXCEPT !.to = day] ELSE v : v \in rows}

CloseAnyGone(rows, f, s, day) ==       \* mutant: also a version that began today
  {IF v.to = 0 /\ s # <<>> /\ v.tok \in Slice[f] \ DOMAIN s THEN [v EXCEPT !.to = day] ELSE v :
     v \in rows}
\* So does one the file no longer lists; an empty file has no scope.
CloseGone(rows, f, s, day) ==
  {IF v.to = 0 /\ v.from < day /\ s # <<>> /\ v.tok \in Slice[f] \ DOMAIN s
     THEN [v EXCEPT !.to = day] ELSE v : v \in rows}

\* What is listed and has no current version gets one from today; a version that
\* began and ended today makes way.
OpenNew(rows, s, day) ==
  LET new == DOMAIN s \ {v.tok : v \in Open(rows)}
  IN  {v \in rows : ~(v.tok \in new /\ v.from = day)}
        \cup {[tok |-> t, attr |-> s[t], from |-> day, to |-> 0] : t \in new}

Apply(f, s, day) ==
  OpenNew(CloseGone(CloseChanged(Amend(versions, s, day), s, day), f, s, day), s, day)

TruncatedOnce(f, s) ==       \* mutant: compared with the first snapshot ever taken
  \E x \in {x \in snapshots : x.file = f /\ \A y \in snapshots : y.file = f => x.day <= y.day} :
    2 * Cardinality(DOMAIN s) < x.rows
\* MasterFileTruncated: fewer than half of the rows of the last snapshot.
Truncated(f, s) == \E x \in LastSnapshot(f) : 2 * Cardinality(DOMAIN s) < x.rows

Snapshot(f, day, sha, rows) ==
  snapshots' = {x \in snapshots : ~(x.file = f /\ x.day = day)}
                 \cup {[file |-> f, day |-> day, sha |-> sha, rows |-> rows]}

\* build_root_candidates: the roots of the current derivatives whose cash
\* instrument is current.
Candidates(r) ==
  {Under[t] : t \in {v.tok : v \in Open(versions)} \cap Slice[Derivatives]}
    \cap {v.tok : v \in Open(versions)}

-----------------------------------------------------------------------------
(* A run. *)

File(r) == Order[run[r].k]
At(r, step) == run[r].step = step
GoTo(r, step) == run' = [run EXCEPT ![r].step = step]
\* The next file, or the roots after the last one.
NextFile(r) ==
  run' = [run EXCEPT ![r] = [step |-> IF @.k = Len(Order) THEN "rebuild" ELSE "fetch",
                             day |-> @.day, k |-> @.k + 1]]
Busy == {r \in Runs : ~At(r, "idle")}

Publish(f, c) ==
  /\ "published_meanwhile" \notin Freedoms => Busy = {}
  /\ c # published[f] /\ published' = [published EXCEPT ![f] = c]
  /\ UNCHANGED <<today, tables, roots, paths, run, spent>>

Midnight ==
  /\ "midnight_meanwhile" \notin Freedoms => Busy = {}
  /\ today < LastDay /\ today' = today + 1
  /\ UNCHANGED <<published, tables, roots, paths, run, spent>>

\* handle_symbol_master: the day is read once, before the first file.
HandleSymbolMaster(r) ==
  /\ At(r, "idle") /\ spent.runs < MaxRuns
  /\ run' = [run EXCEPT ![r] = [step |-> "fetch", day |-> today, k |-> 1]]
  /\ spent' = [spent EXCEPT !.runs = @ + 1]
  /\ UNCHANGED <<today, published, tables, roots, paths>>

\* fetch_master, the open: an unfinished download is truncated, whoever writes it.
FetchMaster(r) ==
  /\ At(r, "fetch")
  /\ LET f == File(r)
         sharing == IF part[f].there THEN part[f].by ELSE {}
     IN  /\ part' = [part EXCEPT ![f] = [there |-> TRUE, by |-> sharing \cup {r},
                                         says |-> published[f], whole |-> FALSE]]
         /\ run' = [run EXCEPT ![r] = [step |-> "loading", day |-> @.day, k |-> @.k,
                                       got |-> published[f]]]
  /\ UNCHANGED <<today, published, tables, roots, target, spent>>

\* The file once r has written to its end: whole, unless another still writes it.
Written(x, r) ==
  IF x.there /\ r \in x.by
    THEN IF x.by = {r} THEN {[x EXCEPT !.by = {}, !.whole = TRUE]}
         ELSE {[x EXCEPT !.by = @ \ {r}, !.whole = w] : w \in BOOLEAN}
    ELSE {x}
\* The file of a writer that gave up.
Abandoned(x, gone) == IF x.there THEN [x EXCEPT !.by = @ \ gone] ELSE x

\* fetch_master, the end: what stands at the .part path is renamed; it may be gone.
Downloaded(r) ==
  /\ At(r, "loading")
  /\ LET f == File(r)
     IN  \E p \in Written(part[f], r), t \in Written(target[f], r) :
           IF p.there
             THEN /\ part' = [part EXCEPT ![f] = NoFile]
                  /\ target' = [target EXCEPT ![f] = p] /\ GoTo(r, "loaded")
             ELSE /\ target' = [target EXCEPT ![f] = t] /\ UNCHANGED part /\ NextFile(r)
  /\ UNCHANGED <<today, published, tables, roots, spent>>

DownloadFails(r) ==
  /\ At(r, "loading") /\ spent.faults < MaxFaults
  /\ spent' = [spent EXCEPT !.faults = @ + 1]
  /\ part' = [part EXCEPT ![File(r)] = Abandoned(@, {r})]
  /\ target' = [target EXCEPT ![File(r)] = Abandoned(@, {r})]
  /\ NextFile(r)
  /\ UNCHANGED <<today, published, tables, roots>>

\* The last snapshot is read, and decides whether there is anything to apply.
ReadLast(r) ==
  /\ At(r, "loaded")
  /\ LET last == {x \in LastSnapshot(File(r)) : x.sha = run[r].got}
     IN  run' = [run EXCEPT ![r] =
           [step |-> IF last # {} THEN "skip" ELSE "diff", day |-> @.day, k |-> @.k, got |-> @.got,
            rows |-> IF last # {} THEN (CHOOSE x \in last : TRUE).rows ELSE 0]]
  /\ UNCHANGED <<today, published, tables, roots, paths, spent>>

Unlink(r) == target' = [target EXCEPT ![File(r)] = NoFile] /\ UNCHANGED part

\* SnapshotWrite: seen today, though its content had not moved.
SkipUnchanged(r) ==
  /\ At(r, "skip")
  /\ Snapshot(File(r), run[r].day, run[r].got, run[r].rows)
  /\ Unlink(r) /\ NextFile(r)
  /\ UNCHANGED <<today, published, versions, roots, spent>>

\* SymbolMasterDiffWrite: one transaction, over what the path holds by now.  A file
\* that is missing, cut short or too small changes nothing.
ApplyMasterFile(r) ==
  /\ At(r, "diff")
  /\ LET f == File(r)
         x == target[f]
     IN  IF x.there => ~x.whole \/ Truncated(f, x.says)
           THEN UNCHANGED tables
           ELSE /\ versions' = Apply(f, x.says, run[r].day)
                /\ Snapshot(f, run[r].day, run[r].got, Cardinality(DOMAIN x.says))
  /\ Unlink(r) /\ NextFile(r)
  /\ UNCHANGED <<today, published, roots, spent>>

\* rebuild_root_registry, and the task is done.
RebuildRootRegistry(r) ==
  /\ At(r, "rebuild")
  /\ roots' = Candidates(r) /\ run' = [run EXCEPT ![r] = Resting]
  /\ UNCHANGED <<today, published, tables, paths, spent>>

\* The process dies.  The tasks are taken again by HandleSymbolMaster.
Crash ==
  /\ spent.faults < MaxFaults /\ Busy # {}
  /\ spent' = [spent EXCEPT !.faults = @ + 1]
  /\ run' = [r \in Runs |-> Resting]
  /\ part' = [f \in Files |-> Abandoned(part[f], Runs)]
  /\ target' = [f \in Files |-> Abandoned(target[f], Runs)]
  /\ UNCHANGED <<today, published, tables, roots>>

Next ==
  \/ \E f \in Files : \E c \in Contents[f] : Publish(f, c)
  \/ Midnight
  \/ \E r \in Runs : \/ HandleSymbolMaster(r) \/ FetchMaster(r) \/ Downloaded(r)
                     \/ DownloadFails(r) \/ ReadLast(r) \/ SkipUnchanged(r)
                     \/ ApplyMasterFile(r) \/ RebuildRootRegistry(r)
  \/ Crash

Spec == Init /\ [][Next]_vars

-----------------------------------------------------------------------------
(* What the dimension promises. *)

\* A question about a day has at most one answer: the versions of an instrument
\* follow one another, none is empty and one at most is current, whatever runs
\* overlapped, failed or were repeated within the day.
OneAnswerPerDay ==
  /\ \A v \in versions : v.to = 0 \/ v.from < v.to
  /\ \A tok \in Tokens, day \in Days : Cardinality(FactOn(tok, day)) <= 1
  /\ \A v, w \in Open(versions) : v.tok = w.tok => v = w

\* What a snapshot listed is what the dimension answers for its day, also after a
\* later run of the same day and after every run since.
ListedIsAnswered ==
  \A x \in snapshots : \A tok \in DOMAIN x.sha : FactOn(tok, x.day) = {x.sha[tok]}

\* The past is not rewritten: no step changes what is answered for a day before
\* today.  (a contract that expired under the old lot size reports the old one)
PastIsFixed ==
  [][\A tok \in Tokens : \A day \in 1 .. today - 1 : FactOn(tok, day) = FactOn(tok, day)']_vars

\* A file cut short does not delist: of the instruments the last snapshot of the
\* file listed, no step ends more than half.
NoMassClosing ==
  [][\A f \in Files : \A x \in LastSnapshot(f) :
       2 * Cardinality({t \in DOMAIN x.sha : \A v \in Open(versions') : v.tok # t}) <= x.rows]_vars

\* A rebuilt registry has every root the last snapshots know of, whichever files
\* this run could not fetch, skipped or refused.
RootsSurviveFailures ==
  [][roots' # roots =>
       \A x \in LastSnapshot(Derivatives) : \A t \in DOMAIN x.sha :
         (\E f \in Files : \E y \in LastSnapshot(f) : Under[t] \in DOMAIN y.sha)
           => Under[t] \in roots']_vars

\* symbol_master.py on the expiry path: a row "must stop being current on the day it
\* left rather than staying open forever".  Read weakly: once a snapshot of a later
\* day than a version began on does not list its instrument, it is not current.
\* It does not hold: see "Stated in the modules" in the README.
GoneMeansClosed ==
  \A f \in Files : \A x \in LastSnapshot(f) : \A v \in Open(versions) :
    v.tok \in Slice[f] \ DOMAIN x.sha => v.from >= x.day
=============================================================================
