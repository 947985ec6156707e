------------------------------ MODULE Lifecycle -----------------------------
(* Start-up and shutdown (lifespan.py) and the migrations it runs (db/migrate.py): an *)
(* ordered list of steps walked forward, and what started torn down in reverse, after *)
(* a failed start and after a served life alike.                                      *)
EXTENDS Naturals, Sequences, FiniteSets, SequencesExt

CONSTANTS
  Files,          \* migration files of the installed build: 1..Files
  MaxStarts

\* STARTUP_SEQUENCE.
Sequence == <<"sqlite", "migrations", "settings", "keys", "duckdb", "http_security", "fyers",
              "pipeline_supervisor", "job_recovery", "scheduler">>
Names == ToSet(Sequence)

\* What each of them holds for as long as it runs (`_require`, and the factories).
Needs == [n \in Names |->
  CASE n = "sqlite" -> {}
    [] n \in {"migrations", "settings", "keys", "http_security"} -> {"sqlite"}
    [] n = "duckdb" -> {"sqlite"}
    [] n = "fyers" -> {"sqlite", "settings", "keys"}
    [] n = "pipeline_supervisor" -> {"sqlite", "settings", "duckdb", "fyers"}
    [] n \in {"job_recovery", "scheduler"} -> {"sqlite", "pipeline_supervisor"}]

\* The steps with a teardown.  The others hold what the state drops with them.
HasStop == {"sqlite", "keys", "duckdb", "fyers", "pipeline_supervisor", "job_recovery", "scheduler"}

VARIABLES
  phase,          \* "off", "starting", "serving", "stopping"
  running,        \* what runs
  started,        \* the steps `run_startup` has recorded
  adrift,         \* what runs although its start raised, or its teardown
  ready,          \* AppState.ready
  schema,         \* migrations whose statements the database holds
  ledger,         \* schema_version
  starts

vars == <<phase, running, started, adrift, ready, schema, ledger, starts>>

TypeOK ==
  /\ phase \in {"off", "starting", "serving", "stopping"}
  /\ running \subseteq Names /\ started \in Seq(Names) /\ adrift \subseteq Names
  /\ ready \in BOOLEAN
  /\ schema \subseteq 1..Files /\ ledger \subseteq 1..Files /\ starts \in 0..MaxStarts
  /\ started = SubSeq(Sequence, 1, Len(started))

Init ==
  /\ phase = "off" /\ running = {} /\ started = <<>> /\ adrift = {} /\ ready = FALSE
  /\ schema = {} /\ ledger = {} /\ starts = 0

Boot ==
  /\ phase = "off" /\ starts < MaxStarts
  /\ phase' = "starting" /\ starts' = starts + 1
  /\ UNCHANGED <<running, started, adrift, ready, schema, ledger>>

Step == Sequence[Len(started) + 1]
Pending == (1..Files) \ ledger
Starting == phase = "starting" /\ Len(started) < Len(Sequence)

\* One file of `migrate`: its statements and its ledger row are one transaction, and
\* the first file that fails ends the start with that file rolled back.
RolledBack(n) == schema

Migrate(ok) ==
  /\ Starting /\ Step = "migrations" /\ Pending # {}
  /\ LET n == CHOOSE m \in Pending : \A other \in Pending : m <= other IN
       /\ schema' = IF ok THEN schema \cup {n} ELSE RolledBack(n)
       /\ ledger' = IF ok THEN ledger \cup {n} ELSE ledger
  /\ phase' = IF ok THEN phase ELSE "stopping"
  /\ UNCHANGED <<running, started, adrift, ready, starts>>

StartStep ==
  /\ Starting /\ (Step = "migrations" => Pending = {})
  /\ running' = running \cup {Step} /\ started' = Append(started, Step)
  /\ UNCHANGED <<phase, adrift, ready, schema, ledger, starts>>

\* A step raises, before it runs anything or half way through - a supervisor whose
\* dispatcher goes already: `run_startup` unwinds the ones recorded before it.
Recorded(steps) == steps

StartFails(half) ==
  /\ Starting /\ Step # "migrations"
  /\ half => Step \in HasStop
  /\ running' = IF half THEN running \cup {Step} ELSE running
  /\ adrift' = IF half THEN adrift \cup {Step} ELSE adrift
  /\ phase' = "stopping" /\ started' = Recorded(started)
  /\ UNCHANGED <<ready, schema, ledger, starts>>

Serve ==
  /\ phase = "starting" /\ Len(started) = Len(Sequence)
  /\ phase' = "serving" /\ ready' = TRUE
  /\ UNCHANGED <<running, started, adrift, schema, ledger, starts>>

\* The server leaves the lifespan.
Leave ==
  /\ phase = "serving"
  /\ phase' = "stopping" /\ ready' = FALSE
  /\ UNCHANGED <<running, started, adrift, schema, ledger, starts>>

\* Where the walk back over the record is.
FirstStarted == 1
LastStarted == Len(started)
StillThere(i) == started
Without(i) == RemoveAt(started, i)

\* `run_shutdown`: the last that started goes first; a teardown that raises is logged
\* and the next one runs all the same.
StopStep(raises) ==
  /\ phase = "stopping" /\ started # <<>>
  /\ raises => started[LastStarted] \in HasStop
  /\ running' = IF raises THEN running ELSE running \ {started[LastStarted]}
  /\ adrift' = IF raises THEN adrift \cup {started[LastStarted]} ELSE adrift
  /\ started' = Without(LastStarted)
  /\ UNCHANGED <<phase, ready, schema, ledger, starts>>

\* The process ends: by itself when the teardown is through, or killed.
Off ==
  /\ phase' = "off" /\ running' = {} /\ started' = <<>> /\ adrift' = {} /\ ready' = FALSE
  /\ UNCHANGED <<schema, ledger, starts>>
Stopped == phase = "stopping" /\ started = <<>> /\ Off
Kill == phase \in {"starting", "serving", "stopping"} /\ Off

Next ==
  \/ Boot \/ StartStep \/ Serve \/ Leave \/ Stopped \/ Kill
  \/ \E ok \in BOOLEAN : Migrate(ok)
  \/ \E half \in BOOLEAN : StartFails(half)
  \/ \E raises \in BOOLEAN : StopStep(raises)

\* The event loop runs the steps of a start and of a shutdown; each returns.
Fairness == WF_vars(StartStep) /\ WF_vars(Migrate(TRUE)) /\ WF_vars(Serve)
            /\ WF_vars(StopStep(FALSE)) /\ WF_vars(Stopped)
Spec == Init /\ [][Next]_vars /\ Fairness

\* What something that runs holds runs too, on the way up, while it serves and on the
\* way down: the workers stop before the database and the client under them close,
\* whatever step of the start and whatever teardowns raise.  Only what raised itself may
\* outlive what it holds.
NeedsRun == \A n \in running \ adrift : Needs[n] \subseteq running

\* "Every teardown runs even if one of them raises": when a shutdown is through, after a
\* failed start included, only what raised itself is left; nothing is while it serves.
AllTornDown ==
  /\ phase = "stopping" /\ started = <<>> => running = adrift
  /\ phase # "stopping" => adrift = {}

\* The ledger says what the schema holds, and the files are applied without a gap,
\* whatever fails or is killed between two of them.
LedgerIsSchema == ledger = schema /\ schema = 1..Cardinality(schema)

\* The three, with the types.
ProcessSound == TypeOK /\ NeedsRun /\ AllTornDown /\ LedgerIsSchema

\* It serves, or its teardown ends: no start hangs between the two.
StartsOrStops == phase = "starting" ~> phase \in {"serving", "off"}
=============================================================================
