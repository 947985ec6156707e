------------------------------ MODULE Governor ------------------------------
(***************************************************************************)
(* The process-wide outbound limiter, brokers/fyers/throttle.py (class     *)
(* FyersGovernor with its two SlidingWindowLimiters), and the request path *)
(* of FyersClient that goes through it: acquire, send, release, and the    *)
(* report of a rate limit answer after the slot was given back.            *)
(*                                                                         *)
(* Sections under _state_lock do not await, so each is one step; between   *)
(* two steps of acquire a caller can wait for the in-flight semaphore, for *)
(* the minute window or for the second window, and anything may happen.    *)
(*                                                                         *)
(* Time is a Tick.  A window is the sequence of the ages of its grants; an *)
(* age that reaches the window's length leaves it, as _prune does.  Two    *)
(* minutes never overlap in age, so no clock value is kept.  The wall date *)
(* is separate: it only decides which api_budget row is current.           *)
(***************************************************************************)
EXTENDS Naturals, SequencesExt

CONSTANTS
  Callers,         \* coroutines that send requests: workers and the others
  InFlight,        \* throttle_in_flight, the semaphore
  PerSecond,       \* throttle_per_second
  PerMinute,       \* throttle_per_minute
  Second, Minute,  \* the two window lengths, in ticks
  DailyBudget,     \* daily_budget
  MaxViolations,   \* MAX_MINUTE_VIOLATIONS
  FlushInterval,   \* BUDGET_FLUSH_INTERVAL
  LastDay          \* bound: IST dates 1 .. LastDay

ASSUME GovernorAssumption ==
  /\ {InFlight, PerSecond, PerMinute, Second, Minute,
      DailyBudget, MaxViolations, FlushInterval, LastDay} \subseteq Nat \ {0}
  /\ Second <= Minute
  /\ IsFiniteSet(Callers)

VARIABLES
  at,              \* where each caller stands in acquire .. release
  slots,           \* free slots of the _in_flight semaphore
  secondBucket, minuteBucket,   \* [grants: ages of the grants, queue: waiters in order]
  mode,            \* _mode
  row,             \* _row: the budget row in memory
  unflushed,       \* _unflushed
  api_budget,      \* the durable rows, by date
  today,           \* the wall date in IST
  sends            \* history: ages of what this process sent within the last minute

vars == <<at, slots, secondBucket, minuteBucket, mode, row, unflushed, api_budget, today, sends>>

Modes == {"running", "paused_auth", "paused_rate", "paused_user", "stopped_budget", "stopped_fatal"}
Places == {"idle", "gate", "slot", "minute", "count", "second", "sent", "limited"}

\* blocked: blocked_until is set; it always names the midnight that ends date.
BudgetRow == [date : 1 .. LastDay, used : Nat, strikes : Nat, blocked : BOOLEAN]
FreshRow(d) == [date |-> d, used |-> 0, strikes |-> 0, blocked |-> FALSE]
LoadRow(d) == IF d \in DOMAIN api_budget THEN api_budget[d] ELSE FreshRow(d)

Bucket(length) == [grants : Seq(0 .. length - 1), queue : Seq(Callers)]

TypeOK ==
  /\ at \in [Callers -> Places]
  /\ slots \in 0 .. InFlight
  /\ secondBucket \in Bucket(Second) /\ Len(secondBucket.grants) <= PerSecond
  /\ minuteBucket \in Bucket(Minute) /\ Len(minuteBucket.grants) <= PerMinute
  /\ mode \in Modes
  /\ row \in BudgetRow
  /\ unflushed \in 0 .. FlushInterval - 1
  /\ DOMAIN api_budget \subseteq 1 .. LastDay
  /\ \A d \in DOMAIN api_budget : api_budget[d] \in BudgetRow /\ api_budget[d].date = d
  /\ today \in 1 .. LastDay
  /\ sends \in Seq(0 .. Minute - 1)

Init ==
  /\ at = [c \in Callers |-> "idle"]
  /\ slots = InFlight
  /\ secondBucket = [grants |-> <<>>, queue |-> <<>>]
  /\ minuteBucket = [grants |-> <<>>, queue |-> <<>>]
  /\ mode = "running"
  /\ today = 1
  /\ row = FreshRow(1) /\ api_budget = [d \in {1} |-> FreshRow(1)]
  /\ unflushed = 0
  /\ sends = <<>>

\* BudgetStore.save: the row of its date is written or overwritten.
Written(disk, r) == [d \in DOMAIN disk \cup {r.date} |-> IF d = r.date THEN r ELSE disk[d]]
Save(r) == api_budget' = Written(api_budget, r)

Move(c, place) == at' = [at EXCEPT ![c] = place]

\* _roll_day_if_needed, then what follows it under the same lock: the row and
\* the mode that the rest of the section sees, and the rows on disk.
RolledRow == IF today = row.date THEN row ELSE LoadRow(today)
RolledMode == IF today # row.date /\ mode = "stopped_budget" THEN "running" ELSE mode
RolledDisk ==
  IF today = row.date THEN api_budget
  ELSE Written(IF unflushed > 0 THEN Written(api_budget, row) ELSE api_budget, LoadRow(today))
RolledUnflushed == IF today = row.date THEN unflushed ELSE 0

-----------------------------------------------------------------------------
(* acquire, step by step. *)

Call(c) ==
  /\ at[c] = "idle"
  /\ Move(c, "gate")
  /\ UNCHANGED <<slots, secondBucket, minuteBucket, mode, row, unflushed, api_budget, today, sends>>

\* The mode gate.  A waiter that is woken and finds a new pause just waits again,
\* so only a running pipeline is let through.  A blocked or spent day stops the pipeline and the caller
\* goes back to waiting; every change of mode persists the row.
Gate(c) ==
  /\ at[c] = "gate" /\ mode = "running"
  /\ row' = RolledRow
  /\ IF row'.blocked \/ row'.used >= DailyBudget
       THEN /\ mode' = IF row'.blocked THEN "stopped_fatal" ELSE "stopped_budget"
            /\ api_budget' = Written(RolledDisk, row')
            /\ unflushed' = 0
            /\ UNCHANGED at
       ELSE /\ Move(c, "slot")
            /\ api_budget' = RolledDisk /\ unflushed' = RolledUnflushed
            /\ UNCHANGED mode
  /\ UNCHANGED <<slots, secondBucket, minuteBucket, today, sends>>

TakeSlotLate(c) ==                       \* mutant: the semaphore does not hold callers back
  /\ at[c] = "slot"
  /\ slots' = IF slots > 0 THEN slots - 1 ELSE 0
  /\ Move(c, "minute")
  /\ minuteBucket' = [minuteBucket EXCEPT !.queue = Append(@, c)]
  /\ UNCHANGED <<secondBucket, mode, row, unflushed, api_budget, today, sends>>

TakeSlot(c) ==
  /\ at[c] = "slot" /\ slots > 0
  /\ slots' = slots - 1
  /\ Move(c, "minute")
  /\ minuteBucket' = [minuteBucket EXCEPT !.queue = Append(@, c)]
  /\ UNCHANGED <<secondBucket, mode, row, unflushed, api_budget, today, sends>>

\* SlidingWindowLimiter.take: in arrival order, when the window has room.
Granted(bucket, limit, c) ==
  /\ bucket.queue # <<>> /\ Head(bucket.queue) = c
  /\ Len(bucket.grants) < limit

Take(bucket) == [grants |-> Append(bucket.grants, 0), queue |-> Tail(bucket.queue)]

TakeMinute(c) ==
  /\ at[c] = "minute" /\ Granted(minuteBucket, PerMinute, c)
  /\ minuteBucket' = Take(minuteBucket)
  /\ Move(c, "count")
  /\ UNCHANGED <<slots, secondBucket, mode, row, unflushed, api_budget, today, sends>>

\* The recheck after the wait: a paused pipeline gets the slot back, a running
\* one counts the request and flushes every FlushInterval-th.
CountWhilePausedKeepingSlot(c) ==        \* mutant: the slot is not given back
  /\ Move(c, "gate")
  /\ UNCHANGED <<slots, secondBucket, minuteBucket, mode, row, unflushed, api_budget, today, sends>>

CountWhilePaused(c) ==
  /\ Move(c, "gate")
  /\ slots' = slots + 1
  /\ UNCHANGED <<secondBucket, minuteBucket, mode, row, unflushed, api_budget, today, sends>>

CountRequest(c) ==
  /\ row' = [row EXCEPT !.used = @ + 1]
  /\ IF unflushed + 1 >= FlushInterval
       THEN unflushed' = 0 /\ Save(row')
       ELSE unflushed' = unflushed + 1 /\ UNCHANGED api_budget
  /\ Move(c, "second")
  /\ secondBucket' = [secondBucket EXCEPT !.queue = Append(@, c)]
  /\ UNCHANGED <<slots, minuteBucket, mode, today, sends>>

Count(c) ==
  /\ at[c] = "count"
  /\ IF mode = "running" THEN CountRequest(c) ELSE CountWhilePaused(c)

\* The last wait: its grant is the moment the request leaves.
TakeSecond(c) ==
  /\ at[c] = "second" /\ Granted(secondBucket, PerSecond, c)
  /\ secondBucket' = Take(secondBucket)
  /\ sends' = Append(sends, 0)
  /\ Move(c, "sent")
  /\ UNCHANGED <<slots, minuteBucket, mode, row, unflushed, api_budget, today>>

\* The answer arrives: release comes before anything is made of it.
Answer(c) ==
  /\ at[c] = "sent"
  /\ slots' = slots + 1
  /\ Move(c, "idle") \/ Move(c, "limited")
  /\ UNCHANGED <<secondBucket, minuteBucket, mode, row, unflushed, api_budget, today, sends>>

\* A waiter that is cancelled leaves the queue of its lock; it stands in it once.
Without(queue, c) ==
  IF \E i \in DOMAIN queue : queue[i] = c
    THEN RemoveAt(queue, CHOOSE i \in DOMAIN queue : queue[i] = c)
    ELSE queue

\* A caller is cancelled while it waits or while its request is out.
Cancelled(c) ==
  /\ at[c] \in {"gate", "slot", "minute", "second", "sent"}
  /\ slots' = IF at[c] \in {"minute", "second", "sent"} THEN slots + 1 ELSE slots
  /\ minuteBucket' = [minuteBucket EXCEPT !.queue = Without(@, c)]
  /\ secondBucket' = [secondBucket EXCEPT !.queue = Without(@, c)]
  /\ Move(c, "idle")
  /\ UNCHANGED <<mode, row, unflushed, api_budget, today, sends>>

-----------------------------------------------------------------------------
(* The mode machine. *)

\* note_rate_limited: every answer is a strike, one too many blocks the day.
NoteRateLimited(c) ==
  /\ at[c] = "limited"
  /\ Move(c, "idle")
  /\ LET r == RolledRow
         fatal == r.strikes + 1 > MaxViolations
     IN  /\ row' = [r EXCEPT !.strikes = @ + 1, !.blocked = fatal \/ @]
         /\ mode' = IF fatal THEN "stopped_fatal" ELSE "paused_rate"
         /\ api_budget' = Written(RolledDisk, row')
         /\ unflushed' = 0
  /\ UNCHANGED <<slots, secondBucket, minuteBucket, today, sends>>

\* set_mode: a rejected token, a logout, a rate limit met outside the client,
\* a user's pause, a fatal stop.
Pause(m) ==
  /\ m \in Modes \ {"running", "stopped_budget"}
  /\ mode' = m
  /\ Save(row) /\ unflushed' = 0
  /\ UNCHANGED <<at, slots, secondBucket, minuteBucket, row, today, sends>>

ResumeUnreviewed ==                      \* mutant: blocked_until is cleared, not respected
  /\ mode # "running"
  /\ row' = [RolledRow EXCEPT !.blocked = FALSE]
  /\ api_budget' = Written(RolledDisk, row')
  /\ unflushed' = 0 /\ mode' = "running"
  /\ UNCHANGED <<at, slots, secondBucket, minuteBucket, today, sends>>

\* resume refuses while the block is in force.
Resume ==
  /\ mode # "running"
  /\ row' = RolledRow
  /\ IF row'.blocked
       THEN api_budget' = RolledDisk /\ unflushed' = RolledUnflushed /\ mode' = RolledMode
       ELSE api_budget' = Written(RolledDisk, row') /\ unflushed' = 0 /\ mode' = "running"
  /\ UNCHANGED <<at, slots, secondBucket, minuteBucket, today, sends>>

\* refresh_day, from the 00:01 schedule.
RefreshDay ==
  /\ today # row.date
  /\ row' = RolledRow /\ mode' = RolledMode
  /\ api_budget' = RolledDisk /\ unflushed' = 0
  /\ UNCHANGED <<at, slots, secondBucket, minuteBucket, today, sends>>

-----------------------------------------------------------------------------
(* The environment. *)

\* _prune takes the grants that have aged out from the left: the oldest stand first.
Older(ages, length) ==
  LET gone == Cardinality({i \in DOMAIN ages : ages[i] + 1 >= length})
  IN  [i \in 1 .. Len(ages) - gone |-> ages[gone + i] + 1]

Tick ==
  /\ secondBucket' = [secondBucket EXCEPT !.grants = Older(@, Second)]
  /\ minuteBucket' = [minuteBucket EXCEPT !.grants = Older(@, Minute)]
  /\ sends' = Older(sends, Minute)
  /\ UNCHANGED <<at, slots, mode, row, unflushed, api_budget, today>>

Midnight ==
  /\ today < LastDay
  /\ today' = today + 1
  /\ UNCHANGED <<at, slots, secondBucket, minuteBucket, mode, row, unflushed, api_budget, sends>>

\* The process is killed and started again: the windows and the mode are new,
\* the row comes from disk.  What the earlier process sent is forgotten with it.
Restart ==
  /\ at' = [c \in Callers |-> "idle"]
  /\ slots' = InFlight
  /\ secondBucket' = [grants |-> <<>>, queue |-> <<>>]
  /\ minuteBucket' = [grants |-> <<>>, queue |-> <<>>]
  /\ mode' = "running"
  /\ row' = LoadRow(today) /\ Save(row') /\ unflushed' = 0
  /\ sends' = <<>>
  /\ UNCHANGED today

Acquiring(c) ==
  \/ Gate(c) \/ TakeSlot(c) \/ TakeMinute(c) \/ Count(c) \/ TakeSecond(c)

ModeChange == (\E m \in Modes : Pause(m)) \/ Resume \/ RefreshDay

Next ==
  \/ \E c \in Callers :
       Call(c) \/ Acquiring(c) \/ Answer(c) \/ Cancelled(c) \/ NoteRateLimited(c)
  \/ ModeChange
  \/ Tick \/ Midnight \/ Restart

Spec == Init /\ [][Next]_vars

-----------------------------------------------------------------------------
(* Properties. *)

HoldsSlot == {c \in Callers : at[c] \in {"minute", "count", "second", "sent"}}

(* No slot of the in-flight semaphore leaks or is returned twice, whichever of
   the waits inside acquire a caller is cancelled in, and when a pause sends it
   back: a leak of six slots would stop every download for good. *)
SlotsConserved == slots + Cardinality(HoldsSlot) = InFlight

(* The minute window meters grants, but a granted caller may still wait for
   the lock, the flush and the second window.  Because the semaphore is taken
   before the windows, what leaves in any minute exceeds the limit by at most
   the callers in flight: 176 for 170, below the 200 the plan allows. *)
SendsPerMinute == Len(sends) <= PerMinute + InFlight

(* The daily budget is checked at the gate and counted after two waits, so it
   can be overshot, but only by the callers that were past the gate. *)
OvershootBounded == row.used < DailyBudget + Cardinality(Callers)

(* The row on disk is never behind by a strike or a block, and is behind by
   fewer requests than one flush interval: what a kill can lose. *)
DurableBudget ==
  LET disk == api_budget[row.date]
  IN  /\ disk.strikes = row.strikes /\ disk.blocked = row.blocked
      /\ row.used - disk.used < FlushInterval

(* A day the broker has blocked is charged no further request: not by a caller
   that was waiting in a window, not after a pause rewrote the mode, a resume
   was asked for, or the process was restarted. *)
BlockedDaySpendsNothing ==
  [][row.blocked /\ row'.date = row.date => row'.blocked /\ row'.used = row.used]_vars

-----------------------------------------------------------------------------
(* The strengthened invariant: with what the callers on their way will still add,
   the promises above hold of every next step too. *)

(* The callers that stand at one of the places. *)
Standing(places) == {c \in Callers : at[c] \in places}

(* Past the gate and not yet counted. *)
Uncounted == Standing({"slot", "minute", "count"})

Placed ==
  /\ at \in [Callers -> Places]
  /\ slots \in Nat
  /\ mode \in Modes

(* The rows, in memory and on disk: the newest on disk is the one in memory,
   short of what the last flush has not seen yet. *)
Books(r, pending, disk) ==
  /\ r \in BudgetRow /\ r.date <= today
  /\ pending \in Nat /\ pending < FlushInterval
  /\ disk \in [DOMAIN disk -> BudgetRow]
  /\ \A d \in DOMAIN disk : d \in Nat /\ d <= r.date
  /\ r.date \in DOMAIN disk
  /\ disk[r.date].strikes = r.strikes /\ disk[r.date].blocked = r.blocked
  /\ disk[r.date].date = r.date /\ disk[r.date].used + pending = r.used

Booked == today \in 1 .. LastDay /\ Books(row, unflushed, api_budget)

(* A blocked day is on disk as it is in memory, and with the mode running (after
   a restart) it has nobody past the gate; the gate closes at the first caller. *)
BlockedHolds == row.blocked => unflushed = 0 /\ (mode = "running" => Uncounted = {})

(* Whoever passed the gate is already provided for in the overshoot. *)
Provided == row.used + Cardinality(Uncounted) < DailyBudget + Cardinality(Callers)

(* What every section under the lock finds and leaves: no in-flight slot is lost or
   returned twice, the row on disk lags by requests only, a blocked day has nobody on
   the way, and the overshoot is provided for.  Inductive. *)
GovernorInv == Placed /\ SlotsConserved /\ Booked /\ BlockedHolds /\ Provided

(* The windows are what the limiter keeps, and what leaves in a minute stays within
   the limit and the callers in flight. *)
RateKept == TypeOK /\ SendsPerMinute
=============================================================================
