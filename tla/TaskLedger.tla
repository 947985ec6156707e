----------------------------- MODULE TaskLedger -----------------------------
(***************************************************************************)
(* What the durable task table promises, without leases, owners or jobs.   *)
(* A task row is written once, stays open while attempts are charged to it *)
(* and receives one outcome that nothing rewrites.  A task whose attempts  *)
(* run out fails in the same step as its last charge, and a task is only   *)
(* ever cancelled when its job was asked to stop.                          *)
(*                                                                         *)
(* LeaseQueue implements this specification; the detailed pipeline         *)
(* inherits it because it changes the table through LeaseQueue's actions.  *)
(***************************************************************************)
EXTENDS Naturals

CONSTANTS
  Tasks,          \* task identifiers
  Jobs,           \* job identifiers
  JobOf,          \* the job each task belongs to
  MaxAttempts     \* errors.MAX_ATTEMPTS, the retry budget of one row

VARIABLES
  fate,           \* fate[t]: not written yet, open, or the outcome of task t
  charged,        \* charged[t]: attempts charged to task t
  stopping        \* the jobs whose cancellation was requested

ledgerVars == <<fate, charged, stopping>>

Recorded == {"done", "empty", "skipped", "failed"}
Fates == {"absent", "open", "cancelled"} \cup Recorded

LedgerTypeOK ==
  /\ fate \in [Tasks -> Fates]
  /\ charged \in [Tasks -> 0 .. MaxAttempts]
  /\ stopping \subseteq Jobs

LedgerInit ==
  /\ fate = [t \in Tasks |-> "absent"]
  /\ charged = [t \in Tasks |-> 0]
  /\ stopping = {}

(* A job is committed, or a handler adds a follow-up: rows appear open. *)
Open(S) ==
  /\ \A t \in S : fate[t] = "absent"
  /\ fate' = [t \in Tasks |-> IF t \in S THEN "open" ELSE fate[t]]
  /\ UNCHANGED <<charged, stopping>>

(* Open rows receive one and the same outcome. *)
Record(S, outcome) ==
  /\ \A t \in S : fate[t] = "open"
  /\ fate' = [t \in Tasks |-> IF t \in S THEN outcome ELSE fate[t]]
  /\ UNCHANGED <<charged, stopping>>

(* A retryable failure: one attempt is charged, and the last one fails the row. *)
Charge(t) ==
  /\ fate[t] = "open"
  /\ charged[t] < MaxAttempts
  /\ charged' = [charged EXCEPT ![t] = @ + 1]
  /\ fate' = [fate EXCEPT ![t] =
                IF charged[t] + 1 = MaxAttempts THEN "failed" ELSE "open"]
  /\ UNCHANGED stopping

RequestStop(j) ==
  /\ stopping' = stopping \cup {j}
  /\ UNCHANGED <<fate, charged>>

LedgerNext ==
  \/ \E S \in SUBSET Tasks : Open(S)
  \/ \E S \in SUBSET Tasks, outcome \in Recorded : Record(S, outcome)
  \/ \E t \in Tasks : Charge(t)
  \/ \E j \in Jobs : RequestStop(j)
  \/ \E j \in stopping : \E S \in SUBSET {t \in Tasks : JobOf[t] = j} :
        Record(S, "cancelled")

LedgerSpec == LedgerInit /\ [][LedgerNext]_ledgerVars

=============================================================================
