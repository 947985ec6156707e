---------------------------- MODULE GovernorProofs ----------------------------
(***************************************************************************)
(* The governor's promises for every number of callers, every limit and    *)
(* every number of days: no in-flight slot leaks, the daily budget is      *)
(* overshot only by callers already past the gate, the row on disk lags by *)
(* requests only, a blocked day spends nothing, and no minute sees more    *)
(* requests than its limit and the callers in flight.                      *)
(*                                                                         *)
(* Callers are counted by where they stand, so each promise is about how   *)
(* one move changes a count (Moves) and what the section it belongs to     *)
(* writes to the budget row (the Books lemmas).  The rate needs the two    *)
(* windows too: WindowInv matches all but Slack of the last minute's sends *)
(* with grants that are no older, the newest with the newest, so that what *)
(* a tick drops from the window has no younger send behind it.             *)
(***************************************************************************)
EXTENDS Governor, FiniteSetTheorems, SequenceTheorems, TLAPS

-----------------------------------------------------------------------------
(* Counting callers. *)

(* The callers that stand somewhere are finitely many. *)
LEMMA StandingFinite ==
  ASSUME NEW places
  PROVE  /\ IsFiniteSet(Standing(places)) /\ Cardinality(Standing(places)) \in Nat
         /\ Cardinality(Standing(places)) <= Cardinality(Callers) /\ Cardinality(Callers) \in Nat
<1>1. Standing(places) \subseteq Callers /\ IsFiniteSet(Callers)
  BY GovernorAssumption DEF Standing
<1> QED
  BY <1>1, FS_Subset, FS_CardinalityType

(* One caller moves: it enters the places, leaves them, or neither. *)
LEMMA Moves ==
  ASSUME at \in [Callers -> Places], NEW c \in Callers, NEW place \in Places, Move(c, place),
         NEW places
  PROVE  /\ at' \in [Callers -> Places]
         /\ at[c] \in places /\ place \notin places =>
              Cardinality(Standing(places)') = Cardinality(Standing(places)) - 1
         /\ at[c] \notin places /\ place \in places =>
              Cardinality(Standing(places)') = Cardinality(Standing(places)) + 1
         /\ (at[c] \in places <=> place \in places) => Standing(places)' = Standing(places)
<1>1. at' = [at EXCEPT ![c] = place]
  BY DEF Move
<1>2. Standing(places)' = {d \in Callers : at'[d] \in places}
  BY DEF Standing
<1>3. ASSUME at[c] \in places, place \notin places
      PROVE  Cardinality(Standing(places)') = Cardinality(Standing(places)) - 1
  <2>1. Standing(places)' = Standing(places) \ {c} /\ c \in Standing(places)
    BY <1>1, <1>2, <1>3 DEF Standing
  <2> QED
    BY <2>1, StandingFinite, FS_RemoveElement
<1>4. ASSUME at[c] \notin places, place \in places
      PROVE  Cardinality(Standing(places)') = Cardinality(Standing(places)) + 1
  <2>1. Standing(places)' = Standing(places) \cup {c} /\ c \notin Standing(places)
    BY <1>1, <1>2, <1>4 DEF Standing
  <2> QED
    BY <2>1, StandingFinite, FS_AddElement
<1>5. ASSUME at[c] \in places <=> place \in places
      PROVE  Standing(places)' = Standing(places)
  BY <1>1, <1>2, <1>5 DEF Standing
<1> QED
  BY <1>1, <1>3, <1>4, <1>5

(* The semaphore's holders are counted like any other callers. *)
LEMMA HoldsSlotIsStanding == HoldsSlot = Standing({"minute", "count", "second", "sent"})
BY DEF HoldsSlot, Standing

-----------------------------------------------------------------------------
(* The budget row. *)

(* Saving a row of the same date brings the disk up to date. *)
LEMMA SavedBooks ==
  ASSUME NEW r, NEW pending, NEW disk, Books(r, pending, disk),
         NEW new \in BudgetRow, new.date = r.date
  PROVE  Books(new, 0, Written(disk, new))
<1>1. /\ Written(disk, new) = [d \in DOMAIN disk |-> IF d = r.date THEN new ELSE disk[d]]
      /\ r.date \in DOMAIN disk
  BY DEF Written, Books
<1>2. DOMAIN Written(disk, new) = DOMAIN disk /\ Written(disk, new)[r.date] = new
  BY <1>1
<1>3. Written(disk, new) \in [DOMAIN Written(disk, new) -> BudgetRow]
  BY <1>1 DEF Books
<1>4. 0 < FlushInterval /\ new.used \in Nat /\ new.used + 0 = new.used
  BY GovernorAssumption DEF BudgetRow
<1> QED
  BY <1>2, <1>3, <1>4 DEF Books

(* A row for a day nobody has used yet, written next to those already there. *)
LEMMA FreshBooks ==
  ASSUME Booked, today # row.date, NEW pending, NEW disk, Books(row, pending, disk)
  PROVE  Books(FreshRow(today), 0, Written(disk, FreshRow(today)))
<1> DEFINE fresh == FreshRow(today)
<1>1. row.date \in Nat /\ row.date <= today /\ today \in Nat /\ today \in 1 .. LastDay
  BY GovernorAssumption DEF Booked, Books, BudgetRow
<1>2. fresh \in BudgetRow /\ fresh.date = today /\ fresh.used = 0
  BY <1>1 DEF FreshRow, BudgetRow
<1> HIDE DEF fresh
<1>3. disk \in [DOMAIN disk -> BudgetRow] /\ \A d \in DOMAIN disk : d \in Nat /\ d <= row.date
  BY DEF Books
<1>4. Written(disk, fresh) = [d \in DOMAIN disk \cup {today} |->
                                IF d = today THEN fresh ELSE disk[d]]
  BY <1>2 DEF Written
<1>5. DOMAIN Written(disk, fresh) = DOMAIN disk \cup {today} /\ Written(disk, fresh)[today] = fresh
  BY <1>4
<1>6. Written(disk, fresh) \in [DOMAIN Written(disk, fresh) -> BudgetRow]
  BY <1>2, <1>3, <1>4
<1>7. \A d \in DOMAIN Written(disk, fresh) : d \in Nat /\ d <= today
  BY <1>1, <1>3, <1>5
<1>8. 0 < FlushInterval
  BY GovernorAssumption
<1>9. Books(fresh, 0, Written(disk, fresh))
  BY <1>1, <1>2, <1>5, <1>6, <1>7, <1>8 DEF Books
<1> QED
  BY <1>9 DEF fresh

(* Rolling the day: the row of today, which is the row in memory or, after
   midnight, one nobody has used; the old row is flushed before it is left. *)
LEMMA RolledBooks ==
  ASSUME Booked
  PROVE  /\ Books(RolledRow, RolledUnflushed, RolledDisk) /\ RolledRow.date = today
         /\ today = row.date => RolledRow = row /\ RolledUnflushed = unflushed
         /\ today # row.date => RolledRow = FreshRow(today) /\ RolledUnflushed = 0
<1>a. row \in BudgetRow /\ row.date \in Nat /\ row.date <= today /\ today \in Nat
  BY GovernorAssumption DEF Booked, Books, BudgetRow
<1>1. CASE today = row.date
  BY <1>1 DEF RolledRow, RolledUnflushed, RolledDisk, Booked
<1>2. CASE today # row.date
  <2>1. today \notin DOMAIN api_budget
    BY <1>a, <1>2 DEF Booked, Books
  <2>2. RolledRow = FreshRow(today) /\ RolledUnflushed = 0
    BY <1>2, <2>1 DEF RolledRow, RolledUnflushed, LoadRow
  <2> DEFINE flushed == IF unflushed > 0 THEN Written(api_budget, row) ELSE api_budget
  <2>3. PICK pending : Books(row, pending, flushed)
    <3>1. Books(row, 0, Written(api_budget, row))
      BY <1>a, SavedBooks DEF Booked
    <3> QED
      BY <3>1 DEF Booked
  <2>4. RolledDisk = Written(flushed, FreshRow(today))
    BY <1>2, <2>1 DEF RolledDisk, LoadRow
  <2>5. Books(FreshRow(today), 0, Written(flushed, FreshRow(today)))
    BY <1>2, <2>3, FreshBooks
  <2>6. RolledRow.date = today
    BY <2>2 DEF FreshRow
  <2> QED
    BY <1>2, <2>2, <2>4, <2>5, <2>6
<1> QED
  BY <1>1, <1>2

(* The budget that is provided for, and a block that is in force, survive the
   roll: a new day starts unused and unblocked. *)
LEMMA RolledRest ==
  ASSUME GovernorInv
  PROVE  /\ RolledRow \in BudgetRow
         /\ RolledRow.used + Cardinality(Uncounted) < DailyBudget + Cardinality(Callers)
         /\ RolledRow.blocked => row.blocked /\ today = row.date /\ RolledUnflushed = 0
<1>1. RolledRow \in BudgetRow
  BY RolledBooks DEF Books, GovernorInv
<1>2. CASE today = row.date
  BY <1>1, <1>2, RolledBooks DEF GovernorInv, Provided, BlockedHolds
<1>3. CASE today # row.date
  <2>1. RolledRow.used = 0 /\ ~RolledRow.blocked
    BY <1>3, RolledBooks DEF GovernorInv, FreshRow
  <2>2. 0 + Cardinality(Uncounted) < DailyBudget + Cardinality(Callers)
    <3>1. DailyBudget \in Nat \ {0}
      BY GovernorAssumption
    <3> QED
      BY <3>1, StandingFinite DEF Uncounted
  <2> QED
    BY <1>1, <2>1, <2>2
<1> QED
  BY <1>2, <1>3

(* What a section leaves in the row's three places is what Booked asks for. *)
LEMMA BooksKept ==
  ASSUME Booked, today' = today, Books(row', unflushed', api_budget')
  PROVE  Booked'
BY DEF Booked, Books

-----------------------------------------------------------------------------
(* One step keeps the invariant, and a blocked day spends nothing in it. *)

Spends == row.blocked /\ row'.date = row.date => row'.blocked /\ row'.used = row.used

(* A move that enters neither stretch from outside leaves no more callers
   between the gate and the count than there were. *)
LEMMA UncountedShrinks ==
  ASSUME at \in [Callers -> Places], NEW c \in Callers, NEW place \in Places, Move(c, place),
         place \in {"slot", "minute", "count"} => at[c] \in {"slot", "minute", "count"}
  PROVE  Uncounted' \subseteq Uncounted /\ Cardinality(Uncounted') <= Cardinality(Uncounted)
         /\ Cardinality(Uncounted') \in Nat /\ Cardinality(Uncounted) \in Nat
<1>0. Uncounted' = {d \in Callers : at'[d] \in {"slot", "minute", "count"}}
  BY DEF Uncounted, Standing
<1>1. Uncounted' \subseteq Uncounted
  <2>1. ASSUME NEW d \in Callers, at'[d] \in {"slot", "minute", "count"}
        PROVE  at[d] \in {"slot", "minute", "count"}
    BY <2>1 DEF Move
  <2> QED
    BY <1>0, <2>1 DEF Uncounted, Standing
<1>2. IsFiniteSet(Uncounted)
  BY StandingFinite DEF Uncounted
<1> QED
  BY <1>1, <1>2, FS_Subset, FS_CardinalityType

(* The steps of a caller that leave the budget row and the mode alone. *)
LEMMA CallerSteps ==
  ASSUME GovernorInv, NEW c \in Callers,
         \/ Call(c) \/ TakeSlot(c) \/ TakeMinute(c) \/ TakeSecond(c) \/ Answer(c) \/ Cancelled(c)
         \/ at[c] = "count" /\ CountWhilePaused(c)
  PROVE  GovernorInv' /\ Spends
<1> DEFINE holding == {"minute", "count", "second", "sent"}
<1>a. /\ at \in [Callers -> Places] /\ at[c] \in Places /\ slots \in Nat /\ InFlight \in Nat
      /\ Cardinality(Standing(holding)) \in Nat
      /\ slots + Cardinality(Standing(holding)) = InFlight
  BY GovernorAssumption, StandingFinite, HoldsSlotIsStanding DEF GovernorInv, Placed, SlotsConserved
<1>b. UNCHANGED <<mode, row, unflushed, api_budget, today>>
  BY DEF Call, TakeSlot, TakeMinute, TakeSecond, Answer, Cancelled, CountWhilePaused
<1>1. \E place \in Places :
        /\ Move(c, place)
        /\ place \in {"slot", "minute", "count"} => at[c] \in {"slot", "minute", "count"}
        /\ \/ at[c] \notin holding /\ place \in holding /\ slots > 0 /\ slots' = slots - 1
           \/ at[c] \in holding /\ place \notin holding /\ slots' = slots + 1
           \/ (at[c] \in holding <=> place \in holding) /\ slots' = slots
  <2>1. CASE Call(c)
    BY <2>1 DEF Call, Places
  <2>2. CASE TakeSlot(c)
    BY <2>2 DEF TakeSlot, Places
  <2>3. CASE TakeMinute(c)
    BY <2>3 DEF TakeMinute, Places
  <2>4. CASE TakeSecond(c)
    BY <2>4 DEF TakeSecond, Places
  <2>5. CASE Answer(c)
    BY <2>5 DEF Answer, Places
  <2>6. CASE Cancelled(c)
    <3>1. CASE at[c] \in holding
      BY <2>6, <3>1 DEF Cancelled, Places
    <3>2. CASE at[c] \notin holding
      BY <2>6, <3>2 DEF Cancelled, Places
    <3> QED
      BY <3>1, <3>2
  <2>7. CASE at[c] = "count" /\ CountWhilePaused(c)
    BY <2>7 DEF CountWhilePaused, Places
  <2> QED
    BY <2>1, <2>2, <2>3, <2>4, <2>5, <2>6, <2>7
<1>2. PICK place \in Places :
        /\ Move(c, place)
        /\ place \in {"slot", "minute", "count"} => at[c] \in {"slot", "minute", "count"}
        /\ \/ at[c] \notin holding /\ place \in holding /\ slots > 0 /\ slots' = slots - 1
           \/ at[c] \in holding /\ place \notin holding /\ slots' = slots + 1
           \/ (at[c] \in holding <=> place \in holding) /\ slots' = slots
  BY <1>1
<1>3. /\ at' \in [Callers -> Places] /\ slots' \in Nat
      /\ slots' + Cardinality(Standing(holding)') = InFlight
  <2> HIDE DEF holding
  <2>1. /\ at' \in [Callers -> Places]
        /\ at[c] \in holding /\ place \notin holding =>
             Cardinality(Standing(holding)') = Cardinality(Standing(holding)) - 1
        /\ at[c] \notin holding /\ place \in holding =>
             Cardinality(Standing(holding)') = Cardinality(Standing(holding)) + 1
        /\ (at[c] \in holding <=> place \in holding) => Standing(holding)' = Standing(holding)
    BY <1>a, <1>2, Moves
  <2>2. CASE at[c] \notin holding /\ place \in holding /\ slots > 0 /\ slots' = slots - 1
    BY <1>a, <2>1, <2>2
  <2>3. CASE at[c] \in holding /\ place \notin holding /\ slots' = slots + 1
    BY <1>a, <2>1, <2>3
  <2>4. CASE (at[c] \in holding <=> place \in holding) /\ slots' = slots
    BY <1>a, <2>1, <2>4
  <2> QED
    BY <1>2, <2>2, <2>3, <2>4
<1>4. Placed' /\ SlotsConserved'
  BY <1>3, <1>b, HoldsSlotIsStanding DEF GovernorInv, Placed, SlotsConserved, HoldsSlot, Standing
<1>5. Booked'
  BY <1>b DEF GovernorInv, Booked, Books
<1>6. Uncounted' \subseteq Uncounted /\ Cardinality(Uncounted') <= Cardinality(Uncounted)
      /\ Cardinality(Uncounted') \in Nat /\ Cardinality(Uncounted) \in Nat
  BY <1>a, <1>2, UncountedShrinks
<1>7. BlockedHolds'
  BY <1>6, <1>b DEF GovernorInv, BlockedHolds
<1>8. Provided'
  <2>1. row.used \in Nat /\ DailyBudget + Cardinality(Callers) \in Nat
    BY GovernorAssumption, StandingFinite DEF GovernorInv, Booked, Books, BudgetRow
  <2>2. row.used + Cardinality(Uncounted) < DailyBudget + Cardinality(Callers)
    BY DEF GovernorInv, Provided
  <2>3. row.used + Cardinality(Uncounted') < DailyBudget + Cardinality(Callers)
    BY <1>6, <2>1, <2>2
  <2> QED
    BY <1>b, <2>3 DEF Provided
<1> QED
  BY <1>4, <1>5, <1>7, <1>8, <1>b DEF GovernorInv, Spends

(* A running pipeline counts a request: nobody counts on a blocked day, and the
   caller that is counted leaves the stretch it was provided for. *)
LEMMA CountStep ==
  ASSUME GovernorInv, NEW c \in Callers, at[c] = "count", mode = "running", CountRequest(c)
  PROVE  GovernorInv' /\ Spends
<1> DEFINE holding == {"minute", "count", "second", "sent"}
           waiting == {"slot", "minute", "count"}
<1>a. at \in [Callers -> Places] /\ "second" \in Places /\ Move(c, "second")
  BY DEF GovernorInv, Placed, Places, CountRequest
<1>b. UNCHANGED <<slots, mode, today>> /\ row' = [row EXCEPT !.used = @ + 1]
  BY DEF CountRequest
<1>1. /\ at' \in [Callers -> Places]
      /\ Standing(holding)' = Standing(holding)
      /\ Cardinality(Standing(waiting)') = Cardinality(Standing(waiting)) - 1
  <2>1. at[c] \in holding /\ "second" \in holding /\ at[c] \in waiting /\ "second" \notin waiting
    OBVIOUS
  <2> HIDE DEF holding, waiting
  <2> QED
    BY <1>a, <2>1, Moves
<1>2. Placed' /\ SlotsConserved'
  <2>1. HoldsSlot' = HoldsSlot
    BY <1>1 DEF HoldsSlot, Standing
  <2> QED
    BY <1>1, <1>b, <2>1 DEF GovernorInv, Placed, SlotsConserved
<1>3. ~row.blocked
  BY DEF GovernorInv, BlockedHolds, Uncounted, Standing
<1>4. /\ row' \in BudgetRow /\ row'.date = row.date /\ row'.blocked = row.blocked
      /\ row'.strikes = row.strikes /\ row'.used = row.used + 1 /\ row.used \in Nat
  BY <1>b DEF GovernorInv, Booked, Books, BudgetRow
<1>5. Booked'
  <2>1. CASE unflushed + 1 >= FlushInterval
    <3>1. unflushed' = 0 /\ api_budget' = Written(api_budget, row')
      BY <2>1 DEF CountRequest, Save
    <3>2. Books(row', 0, Written(api_budget, row'))
      BY <1>4, SavedBooks DEF GovernorInv, Booked
    <3> QED
      BY <1>b, <3>1, <3>2, BooksKept DEF GovernorInv
  <2>2. CASE ~(unflushed + 1 >= FlushInterval)
    <3>1. unflushed' = unflushed + 1 /\ api_budget' = api_budget
      BY <2>2 DEF CountRequest
    <3>2. /\ unflushed \in Nat /\ unflushed + 1 \in Nat /\ unflushed + 1 < FlushInterval
          /\ api_budget[row.date].used \in Nat
          /\ api_budget[row.date].used + (unflushed + 1) = row.used + 1
      <4>1. unflushed \in Nat /\ FlushInterval \in Nat
        BY GovernorAssumption DEF GovernorInv, Booked, Books
      <4>2. api_budget[row.date].used \in Nat /\ api_budget[row.date].used + unflushed = row.used
        BY DEF GovernorInv, Booked, Books, BudgetRow
      <4> QED
        BY <1>4, <2>2, <4>1, <4>2
    <3>3. Books(row', unflushed', api_budget')
      BY <1>4, <3>1, <3>2 DEF GovernorInv, Booked, Books
    <3> QED
      BY <1>b, <3>3, BooksKept DEF GovernorInv
  <2> QED
    BY <2>1, <2>2
<1>6. Provided'
  <2>1. Cardinality(Uncounted') = Cardinality(Uncounted) - 1
    BY <1>1 DEF Uncounted
  <2>2. /\ Cardinality(Uncounted) \in Nat /\ DailyBudget + Cardinality(Callers) \in Nat
        /\ row.used + Cardinality(Uncounted) < DailyBudget + Cardinality(Callers)
    BY GovernorAssumption, StandingFinite DEF GovernorInv, Provided, Uncounted
  <2>3. row'.used + Cardinality(Uncounted') < DailyBudget + Cardinality(Callers)
    BY <1>4, <2>1, <2>2
  <2> QED
    BY <2>3 DEF Provided
<1>7. BlockedHolds'
  BY <1>3, <1>4 DEF BlockedHolds
<1> QED
  BY <1>2, <1>3, <1>5, <1>6, <1>7 DEF GovernorInv, Spends

(* At the gate the day is rolled; it opens only on an unblocked day with
   budget left, so the caller it admits is provided for. *)
LEMMA GateStep ==
  ASSUME GovernorInv, NEW c \in Callers, Gate(c)
  PROVE  GovernorInv' /\ Spends
<1> DEFINE holding == {"minute", "count", "second", "sent"}
<1>a. /\ row' = RolledRow /\ row' \in BudgetRow /\ UNCHANGED <<slots, today>>
      /\ row'.blocked => row.blocked /\ RolledUnflushed = 0
      /\ row.blocked /\ row'.date = row.date => row' = row
  BY RolledBooks, RolledRest DEF Gate, GovernorInv
<1>b. Books(row', RolledUnflushed, RolledDisk) /\ Books(row', 0, Written(RolledDisk, row'))
  BY <1>a, RolledBooks, SavedBooks DEF GovernorInv
<1>1. CASE row'.blocked \/ row'.used >= DailyBudget
  <2>1. /\ UNCHANGED at /\ unflushed' = 0 /\ api_budget' = Written(RolledDisk, row')
        /\ mode' \in Modes \ {"running"}
    BY <1>1 DEF Gate, Modes
  <2>2. UNCHANGED <<Uncounted, HoldsSlot>>
    BY <2>1 DEF Uncounted, Standing, HoldsSlot
  <2>3. Booked'
    BY <1>a, <1>b, <2>1, BooksKept DEF GovernorInv
  <2>4. Placed' /\ SlotsConserved' /\ BlockedHolds'
    BY <1>a, <2>1, <2>2 DEF GovernorInv, Placed, SlotsConserved, BlockedHolds
  <2>5. Provided'
    BY <1>a, <2>2, RolledRest DEF Provided
  <2> QED
    BY <1>a, <2>3, <2>4, <2>5 DEF GovernorInv, Spends
<1>2. CASE ~(row'.blocked \/ row'.used >= DailyBudget)
  <2>1. /\ Move(c, "slot") /\ mode' = mode
        /\ unflushed' = RolledUnflushed /\ api_budget' = RolledDisk
    BY <1>2 DEF Gate
  <2>2. at' \in [Callers -> Places] /\ Standing(holding)' = Standing(holding)
    <3>1. at[c] \notin holding /\ "slot" \notin holding /\ "slot" \in Places
      BY DEF Gate, Places
    <3> HIDE DEF holding
    <3> QED
      BY <2>1, <3>1, Moves DEF GovernorInv, Placed
  <2>3. HoldsSlot' = HoldsSlot
    BY <2>2 DEF HoldsSlot, Standing
  <2>4. Placed' /\ SlotsConserved' /\ BlockedHolds'
    BY <1>a, <1>2, <2>1, <2>2, <2>3 DEF GovernorInv, Placed, SlotsConserved, BlockedHolds
  <2>5. Booked'
    BY <1>a, <1>b, <2>1, BooksKept DEF GovernorInv
  <2>6. Provided'
    <3>1. /\ Cardinality(Uncounted') \in Nat /\ Cardinality(Uncounted') <= Cardinality(Callers)
          /\ Cardinality(Callers) \in Nat
      <4>1. Uncounted' \subseteq Callers /\ IsFiniteSet(Callers)
        BY GovernorAssumption DEF Uncounted, Standing
      <4> QED
        BY <4>1, FS_Subset, FS_CardinalityType
    <3>2. row'.used \in Nat /\ DailyBudget \in Nat /\ row'.used < DailyBudget
      BY <1>a, <1>2, GovernorAssumption DEF BudgetRow
    <3>3. row'.used + Cardinality(Uncounted') < DailyBudget + Cardinality(Callers)
      BY <3>1, <3>2
    <3> QED
      BY <3>3 DEF Provided
  <2> QED
    BY <1>a, <2>4, <2>5, <2>6 DEF GovernorInv, Spends
<1> QED
  BY <1>1, <1>2

(* Steps that move nobody past the gate and leave the mode stopped, or that
   touch neither the callers nor the mode, keep what a written row provides. *)
LEMMA StoppedSteps ==
  ASSUME GovernorInv, mode' \in Modes \ {"running"}, UNCHANGED <<slots, today>>, unflushed' = 0,
         \/ UNCHANGED at
         \/ \E c \in Callers : at[c] = "limited" /\ Move(c, "idle"),
         Books(row', 0, api_budget'),
         row'.used + Cardinality(Uncounted) < DailyBudget + Cardinality(Callers),
         row.blocked /\ row'.date = row.date => row'.blocked /\ row'.used = row.used
  PROVE  GovernorInv' /\ Spends
<1> DEFINE holding == {"minute", "count", "second", "sent"}
           waiting == {"slot", "minute", "count"}
<1>1. at' \in [Callers -> Places] /\ UNCHANGED <<Standing(holding), Standing(waiting)>>
  <2>1. CASE UNCHANGED at
    BY <2>1 DEF GovernorInv, Placed, Standing
  <2>2. ASSUME NEW c \in Callers, at[c] = "limited", Move(c, "idle")
        PROVE  at' \in [Callers -> Places] /\ UNCHANGED <<Standing(holding), Standing(waiting)>>
    <3>1. /\ "idle" \in Places /\ at[c] \notin holding /\ "idle" \notin holding
          /\ at[c] \notin waiting /\ "idle" \notin waiting
      BY <2>2 DEF Places
    <3> HIDE DEF holding, waiting
    <3> QED
      BY <2>2, <3>1, Moves DEF GovernorInv, Placed
  <2> QED
    BY <2>1, <2>2
<1>2. UNCHANGED <<HoldsSlot, Uncounted>>
  BY <1>1 DEF HoldsSlot, Uncounted, Standing
<1>3. Placed' /\ SlotsConserved' /\ BlockedHolds' /\ Provided'
  BY <1>1, <1>2 DEF GovernorInv, Placed, SlotsConserved, BlockedHolds, Provided
<1>4. Booked'
  BY BooksKept DEF GovernorInv
<1> QED
  BY <1>3, <1>4 DEF GovernorInv, Spends

(* A rate limit answer is a strike on today's row, written at once. *)
LEMMA NoteRateLimitedStep ==
  ASSUME GovernorInv, NEW c \in Callers, NoteRateLimited(c)
  PROVE  GovernorInv' /\ Spends
<1> DEFINE fatal == RolledRow.strikes + 1 > MaxViolations
<1>1. /\ row' = [RolledRow EXCEPT !.strikes = @ + 1, !.blocked = fatal \/ @]
      /\ mode' \in Modes \ {"running"} /\ unflushed' = 0 /\ UNCHANGED <<slots, today>>
      /\ api_budget' = Written(RolledDisk, row') /\ at[c] = "limited" /\ Move(c, "idle")
  BY DEF NoteRateLimited, Modes
<1>2. RolledRow \in BudgetRow
  BY RolledRest
<1>3. /\ row' \in BudgetRow /\ row'.date = RolledRow.date /\ row'.used = RolledRow.used
      /\ RolledRow.blocked => row'.blocked
  <2> DEFINE blocked == fatal \/ RolledRow.blocked
  <2>1. blocked \in BOOLEAN /\ (RolledRow.blocked => blocked)
    OBVIOUS
  <2>2. row' = [RolledRow EXCEPT !.strikes = RolledRow.strikes + 1, !.blocked = blocked]
    BY <1>1, Zenon
  <2> HIDE DEF fatal, blocked
  <2>3. PICK b \in BOOLEAN : b = blocked
    BY <2>1
  <2>4. row' = [RolledRow EXCEPT !.strikes = RolledRow.strikes + 1, !.blocked = b]
    BY <2>2, <2>3
  <2> DEFINE r == RolledRow
  <2>5. /\ r = [date |-> r.date, used |-> r.used, strikes |-> r.strikes, blocked |-> r.blocked]
        /\ r.date \in 1 .. LastDay /\ r.used \in Nat /\ r.strikes + 1 \in Nat
    BY <1>2 DEF BudgetRow
  <2>6. row' = [date |-> r.date, used |-> r.used, strikes |-> r.strikes + 1, blocked |-> b]
    BY <2>4, <2>5
  <2>7. row' \in BudgetRow /\ row'.date = r.date /\ row'.used = r.used /\ row'.blocked = b
    BY <2>5, <2>6, Zenon DEF BudgetRow
  <2> QED
    BY <2>1, <2>3, <2>7
<1>4. Books(row', 0, api_budget')
  BY <1>1, <1>3, RolledBooks, SavedBooks DEF GovernorInv
<1>5. row.blocked /\ row'.date = row.date => row'.blocked /\ row'.used = row.used
  BY <1>3, RolledBooks DEF GovernorInv
<1>6. row'.used + Cardinality(Uncounted) < DailyBudget + Cardinality(Callers)
  BY <1>3, RolledRest
<1> QED
  BY <1>1, <1>4, <1>5, <1>6, StoppedSteps

(* A pause writes the row as it is. *)
LEMMA PauseStep ==
  ASSUME GovernorInv, NEW m \in Modes, Pause(m)
  PROVE  GovernorInv' /\ Spends
<1>1. /\ mode' \in Modes \ {"running"} /\ unflushed' = 0 /\ UNCHANGED <<at, slots, today, row>>
      /\ api_budget' = Written(api_budget, row)
  BY DEF Pause, Save
<1>2. row \in BudgetRow
  BY DEF GovernorInv, Booked, Books
<1>3. Books(row', 0, api_budget')
  BY <1>1, <1>2, SavedBooks DEF GovernorInv, Booked
<1> QED
  BY <1>1, <1>3, StoppedSteps DEF GovernorInv, Provided

(* A resume refused changes nothing but the day; one granted found the day
   unblocked, so whoever was past the gate may still be counted. *)
LEMMA ResumeStep ==
  ASSUME GovernorInv, Resume
  PROVE  GovernorInv' /\ Spends
<1>1. row' = RolledRow /\ row' \in BudgetRow /\ UNCHANGED <<at, slots, today>>
  BY RolledRest DEF Resume
<1>2. UNCHANGED <<HoldsSlot, Uncounted>>
  BY <1>1 DEF HoldsSlot, Uncounted, Standing
<1>3. row'.used + Cardinality(Uncounted) < DailyBudget + Cardinality(Callers)
  BY <1>1, RolledRest
<1>4. CASE row'.blocked
  <2>1. today = row.date
    BY <1>1, <1>4, RolledRest
  <2>2. UNCHANGED vars
    BY <1>4, <1>1, <2>1, RolledBooks
       DEF Resume, RolledRow, RolledMode, RolledDisk, RolledUnflushed, vars
  <2>3. UNCHANGED <<row, unflushed, api_budget, mode>>
    BY <2>2 DEF vars
  <2>4. Booked'
    BY <1>1, <2>3 DEF GovernorInv, Booked, Books
  <2>5. Placed' /\ SlotsConserved' /\ BlockedHolds' /\ Provided'
    BY <1>1, <1>2, <2>3 DEF GovernorInv, Placed, SlotsConserved, BlockedHolds, Provided
  <2> QED
    BY <2>3, <2>4, <2>5 DEF GovernorInv, Spends
<1>5. CASE ~row'.blocked
  <2>1. api_budget' = Written(RolledDisk, row') /\ unflushed' = 0 /\ mode' = "running"
    BY <1>5 DEF Resume
  <2>2. Booked'
    BY <1>1, <2>1, RolledBooks, SavedBooks, BooksKept DEF GovernorInv
  <2>3. Placed' /\ SlotsConserved' /\ BlockedHolds' /\ Provided'
    BY <1>1, <1>2, <1>3, <1>5, <2>1
       DEF GovernorInv, Placed, Modes, SlotsConserved, BlockedHolds, Provided
  <2>4. Spends
    BY <1>1, <1>5, RolledBooks DEF Spends, GovernorInv
  <2> QED
    BY <2>2, <2>3, <2>4 DEF GovernorInv
<1> QED
  BY <1>4, <1>5

(* The 00:01 schedule rolls the day. *)
LEMMA RefreshDayStep ==
  ASSUME GovernorInv, RefreshDay
  PROVE  GovernorInv' /\ Spends
<1>1. /\ today # row.date /\ row' = RolledRow /\ mode' = RolledMode /\ unflushed' = 0
      /\ api_budget' = RolledDisk /\ UNCHANGED <<at, slots, today>>
  BY DEF RefreshDay
<1>2. UNCHANGED <<HoldsSlot, Uncounted>>
  BY <1>1 DEF HoldsSlot, Uncounted, Standing
<1>3. Booked' /\ row'.date # row.date /\ ~row'.blocked
  <2>1. Books(row', 0, api_budget') /\ row'.date = today /\ ~row'.blocked
    BY <1>1, RolledBooks, RolledRest DEF GovernorInv
  <2> QED
    BY <1>1, <2>1, BooksKept DEF GovernorInv
<1>4. mode' \in Modes
  BY <1>1 DEF RolledMode, GovernorInv, Placed, Modes
<1>5. Placed' /\ SlotsConserved' /\ BlockedHolds' /\ Provided'
  BY <1>1, <1>2, <1>3, <1>4, RolledRest
     DEF GovernorInv, Placed, SlotsConserved, BlockedHolds, Provided
<1> QED
  BY <1>3, <1>5 DEF GovernorInv, Spends

(* Time passes: the windows age, or the wall date moves on. *)
LEMMA TimeStep ==
  ASSUME GovernorInv, Tick \/ Midnight \/ UNCHANGED vars
  PROVE  GovernorInv' /\ Spends
<1>1. /\ UNCHANGED <<at, slots, mode, row, unflushed, api_budget>>
      /\ today' \in 1 .. LastDay /\ row.date <= today'
  <2>1. today \in 1 .. LastDay /\ row.date \in 1 .. LastDay /\ row.date <= today
    BY DEF GovernorInv, Booked, Books, BudgetRow
  <2>2. LastDay \in Nat
    BY GovernorAssumption
  <2>3. CASE Tick
    BY <2>1, <2>3 DEF Tick
  <2>4. CASE Midnight
    <3>1. today' = today + 1 /\ today < LastDay
      BY <2>4 DEF Midnight
    <3>2. UNCHANGED <<at, slots, mode, row, unflushed, api_budget>>
      BY <2>4 DEF Midnight
    <3> QED
      BY <2>1, <2>2, <3>1, <3>2
  <2>5. CASE UNCHANGED vars
    BY <2>1, <2>5 DEF vars
  <2> QED
    BY <2>3, <2>4, <2>5
<1>2. Booked'
  BY <1>1 DEF GovernorInv, Booked, Books
<1>3. UNCHANGED <<HoldsSlot, Uncounted>>
  BY <1>1 DEF HoldsSlot, Uncounted, Standing
<1>4. Placed' /\ SlotsConserved' /\ BlockedHolds' /\ Provided'
  BY <1>1, <1>3 DEF GovernorInv, Placed, SlotsConserved, BlockedHolds, Provided
<1> QED
  BY <1>1, <1>2, <1>4 DEF GovernorInv, Spends

(* With every caller idle nobody holds a slot or is uncounted. *)
LEMMA IdleCallers ==
  ASSUME at = [c \in Callers |-> "idle"]
  PROVE  HoldsSlot = {} /\ Uncounted = {} /\ at \in [Callers -> Places]
BY DEF HoldsSlot, Uncounted, Standing, Places

(* A new process counts on from what the disk remembers of today: a blocked
   day as it was, since its row was flushed when it was blocked. *)
LEMMA RestartStep ==
  ASSUME GovernorInv, Restart
  PROVE  GovernorInv' /\ Spends
<1>1. /\ at' = [c \in Callers |-> "idle"] /\ slots' = InFlight /\ mode' = "running"
      /\ row' = LoadRow(today) /\ api_budget' = Written(api_budget, row') /\ unflushed' = 0
      /\ today' = today
  BY DEF Restart, Save
<1>2. HoldsSlot' = {} /\ Uncounted' = {} /\ at' \in [Callers -> Places]
  BY <1>1 DEF HoldsSlot, Uncounted, Standing, Places
<1>3. Cardinality({}) = 0 /\ InFlight \in Nat /\ DailyBudget \in Nat /\ 0 < DailyBudget
      /\ Cardinality(Callers) \in Nat
  BY FS_EmptySet, FS_CardinalityType, GovernorAssumption
<1>4. Placed' /\ SlotsConserved' /\ BlockedHolds'
  BY <1>1, <1>2, <1>3 DEF Placed, Modes, SlotsConserved, BlockedHolds
<1>5. row.used \in Nat /\ row.used < DailyBudget + Cardinality(Callers)
  <2>1. row.used \in Nat
    BY DEF GovernorInv, Booked, Books, BudgetRow
  <2>2. Cardinality(Uncounted) \in Nat
    BY StandingFinite DEF Uncounted
  <2>3. row.used + Cardinality(Uncounted) < DailyBudget + Cardinality(Callers)
    BY DEF GovernorInv, Provided
  <2> QED
    BY <1>3, <2>1, <2>2, <2>3
<1>6. CASE today = row.date
  <2>1. /\ row' = api_budget[row.date] /\ row' \in BudgetRow /\ row'.date = row.date
        /\ row'.blocked = row.blocked /\ row'.used + unflushed = row.used
        /\ unflushed \in Nat /\ row'.used \in Nat
    BY <1>1, <1>6 DEF LoadRow, GovernorInv, Booked, Books, BudgetRow
  <2>2. Booked'
    BY <1>1, <2>1, SavedBooks, BooksKept DEF GovernorInv, Booked
  <2>3. row'.used <= row.used /\ (unflushed = 0 => row'.used = row.used)
    BY <1>5, <2>1
  <2>4. Spends
    BY <2>1, <2>3 DEF Spends, GovernorInv, BlockedHolds
  <2>5. Provided'
    <3>1. row'.used + Cardinality(Uncounted') < DailyBudget + Cardinality(Callers)
      BY <1>2, <1>3, <1>5, <2>1, <2>3
    <3> QED
      BY <3>1 DEF Provided
  <2> QED
    BY <1>4, <2>2, <2>4, <2>5 DEF GovernorInv
<1>7. CASE today # row.date
  <2>1. today \notin DOMAIN api_budget
    <3>1. row.date \in Nat /\ row.date <= today /\ today \in Nat
      BY GovernorAssumption DEF GovernorInv, Booked, Books, BudgetRow
    <3> QED
      BY <1>7, <3>1 DEF GovernorInv, Booked, Books
  <2>2. row' = FreshRow(today) /\ row'.date = today /\ row'.used = 0 /\ ~row'.blocked
    BY <1>1, <2>1 DEF LoadRow, FreshRow
  <2>3. Books(row', 0, api_budget')
    BY <1>1, <1>7, <2>2, FreshBooks DEF GovernorInv, Booked
  <2>4. Booked'
    BY <1>1, <2>3, BooksKept DEF GovernorInv
  <2>5. Provided'
    BY <1>2, <1>3, <2>2 DEF Provided
  <2> QED
    BY <1>4, <1>7, <2>2, <2>4, <2>5 DEF GovernorInv, Spends
<1> QED
  BY <1>6, <1>7

(* A new installation. *)
LEMMA InitKeeps == Init => GovernorInv
<1> SUFFICES ASSUME Init PROVE GovernorInv
  OBVIOUS
<1>1. HoldsSlot = {} /\ Uncounted = {} /\ at \in [Callers -> Places]
  BY IdleCallers DEF Init
<1>2. Cardinality({}) = 0 /\ InFlight \in Nat /\ DailyBudget \in Nat /\ 0 < DailyBudget
      /\ Cardinality(Callers) \in Nat /\ 1 \in 1 .. LastDay /\ 0 < FlushInterval
  BY FS_EmptySet, FS_CardinalityType, GovernorAssumption
<1>3. FreshRow(1) \in BudgetRow /\ FreshRow(1).date = 1 /\ FreshRow(1).used = 0 /\ ~FreshRow(1).blocked
  BY <1>2 DEF FreshRow, BudgetRow
<1>4. Placed /\ SlotsConserved /\ BlockedHolds /\ Provided
  BY <1>1, <1>2, <1>3 DEF Init, Placed, Modes, SlotsConserved, BlockedHolds, Provided
<1>5. Booked
  <2>1. /\ today = 1 /\ row = FreshRow(1) /\ unflushed = 0
        /\ api_budget = [d \in {1} |-> FreshRow(1)]
    BY DEF Init
  <2>2. DOMAIN api_budget = {1} /\ api_budget[1] = row
    BY <2>1
  <2>3. api_budget \in [DOMAIN api_budget -> BudgetRow]
    BY <1>3, <2>1
  <2> HIDE DEF FreshRow
  <2>4. row \in BudgetRow /\ row.date = 1 /\ row.used = 0 /\ row.used + 0 = row.used
    BY <1>3, <2>1
  <2> QED
    BY <1>2, <2>1, <2>2, <2>3, <2>4 DEF Booked, Books
<1> QED
  BY <1>4, <1>5 DEF GovernorInv

(* Every step of the specification. *)
LEMMA NextKeeps == GovernorInv /\ [Next]_vars => GovernorInv' /\ Spends
<1> SUFFICES ASSUME GovernorInv, [Next]_vars PROVE GovernorInv' /\ Spends
  OBVIOUS
<1>1. ASSUME NEW c \in Callers,
             Call(c) \/ Acquiring(c) \/ Answer(c) \/ Cancelled(c) \/ NoteRateLimited(c)
      PROVE  GovernorInv' /\ Spends
  <2>1. CASE Gate(c)
    BY <2>1, GateStep
  <2>2. CASE Count(c)
    BY <2>2, CountStep, CallerSteps DEF Count
  <2>3. CASE NoteRateLimited(c)
    BY <2>3, NoteRateLimitedStep
  <2>4. CASE Call(c) \/ TakeSlot(c) \/ TakeMinute(c) \/ TakeSecond(c) \/ Answer(c) \/ Cancelled(c)
    BY <2>4, CallerSteps
  <2> QED
    BY <1>1, <2>1, <2>2, <2>3, <2>4 DEF Acquiring
<1>2. CASE ModeChange
  BY <1>2, PauseStep, ResumeStep, RefreshDayStep DEF ModeChange
<1>3. CASE Tick \/ Midnight \/ UNCHANGED vars
  BY <1>3, TimeStep
<1>4. CASE Restart
  BY <1>4, RestartStep
<1> QED
  BY <1>1, <1>2, <1>3, <1>4 DEF Next

-----------------------------------------------------------------------------
(* The theorems. *)

(* The governor's books and counts stay consistent: where callers stand, the
   free slots, the two copies of the budget row, and the overshoot. *)
THEOREM GovernorInvAlways == Spec => []GovernorInv
<1>1. GovernorInv /\ [Next]_vars => GovernorInv'
  BY NextKeeps
<1> QED
  BY <1>1, InitKeeps, PTL DEF Spec

(* No slot leaks or is returned twice, whatever wait a caller is cancelled in. *)
THEOREM SlotsConservedAlways == Spec => []SlotsConserved
<1>1. GovernorInv => SlotsConserved
  BY DEF GovernorInv
<1> QED
  BY <1>1, GovernorInvAlways, PTL

(* acquire checks the budget before its waits and counts after them; what it
   overshoots by is less than the number of callers, however the waits end. *)
THEOREM OvershootBoundedAlways == Spec => []OvershootBounded
<1>1. GovernorInv => OvershootBounded
  <2> SUFFICES ASSUME GovernorInv PROVE OvershootBounded
    OBVIOUS
  <2>1. row.used \in Nat
    BY DEF GovernorInv, Booked, Books, BudgetRow
  <2>2. /\ Cardinality(Uncounted) \in Nat /\ Cardinality(Callers) \in Nat /\ DailyBudget \in Nat
        /\ row.used + Cardinality(Uncounted) < DailyBudget + Cardinality(Callers)
    BY GovernorAssumption, StandingFinite DEF GovernorInv, Provided, Uncounted
  <2>3. row.used < DailyBudget + Cardinality(Callers)
    BY <2>1, <2>2
  <2> QED
    BY <2>3 DEF OvershootBounded
<1> QED
  BY <1>1, GovernorInvAlways, PTL

(* Strikes and blocks are on disk when they are in memory, and a kill loses
   fewer requests than one flush interval. *)
THEOREM DurableBudgetAlways == Spec => []DurableBudget
<1>1. GovernorInv => DurableBudget
  <2> SUFFICES ASSUME GovernorInv PROVE DurableBudget
    OBVIOUS
  <2>1. /\ api_budget[row.date].strikes = row.strikes /\ api_budget[row.date].blocked = row.blocked
        /\ api_budget[row.date].used \in Nat /\ row.used \in Nat
        /\ unflushed \in Nat /\ unflushed < FlushInterval
        /\ api_budget[row.date].used + unflushed = row.used
    BY DEF GovernorInv, Booked, Books, BudgetRow
  <2>2. FlushInterval \in Nat
    BY GovernorAssumption
  <2>3. row.used - api_budget[row.date].used < FlushInterval
    BY <2>1, <2>2
  <2> QED
    BY <2>1, <2>3 DEF DurableBudget
<1> QED
  BY <1>1, GovernorInvAlways, PTL

(* No step, a restart included, charges a request to a blocked day or lifts
   the block before the day is over. *)
THEOREM BlockedDaySpendsNothingAlways == Spec => BlockedDaySpendsNothing
<1>1. GovernorInv /\ [Next]_vars =>
        [row.blocked /\ row'.date = row.date => row'.blocked /\ row'.used = row.used]_vars
  BY NextKeeps DEF Spends
<1> QED
  BY <1>1, GovernorInvAlways, PTL DEF Spec, BlockedDaySpendsNothing

-----------------------------------------------------------------------------
(* The rate. *)

(* Grants and sends are appended as they happen, so the oldest stand first. *)
OldestFirst(ages) == \A i, j \in 1 .. Len(ages) : i <= j => ages[j] <= ages[i]

(* Counting up to n. *)
LEMMA UpTo ==
  ASSUME NEW n \in Nat
  PROVE  IsFiniteSet(1 .. n) /\ Cardinality(1 .. n) = n
<1>1. IsFiniteSet(1 .. n) /\ Cardinality(1 .. n) = IF 1 > n THEN 0 ELSE n - 1 + 1
  BY FS_Interval
<1> QED
  BY <1>1

(* What a tick does to a window whose oldest stand first: the aged-out front goes,
   the rest stays in order and grows one tick older. *)
LEMMA OlderDropsFront ==
  ASSUME NEW length \in Nat \ {0}, NEW ages \in Seq(0 .. length - 1), OldestFirst(ages)
  PROVE  \E gone \in 0 .. Len(ages) :
           /\ \A i \in 1 .. gone : ages[i] + 1 >= length
           /\ \A i \in gone + 1 .. Len(ages) : ages[i] + 1 < length
           /\ Older(ages, length) = [i \in 1 .. Len(ages) - gone |-> ages[gone + i] + 1]
<1> DEFINE out == {i \in DOMAIN ages : ages[i] + 1 >= length}
           gone == Cardinality(out)
           n == Len(ages)
<1>1. n \in Nat /\ DOMAIN ages = 1 .. n /\ \A i \in 1 .. n : ages[i] \in 0 .. length - 1
  OBVIOUS
<1>2. IsFiniteSet(1 .. n) /\ Cardinality(1 .. n) = n
  <2> HIDE DEF n
  <2> QED
    BY <1>1, UpTo
<1>3. out \subseteq 1 .. n
  BY <1>1
<1>4. IsFiniteSet(out) /\ gone \in Nat /\ gone <= n
  BY <1>2, <1>3, FS_Subset, FS_CardinalityType
<1>5. ASSUME NEW j \in out, NEW i \in 1 .. j PROVE i \in out
  BY <1>1, <1>5 DEF OldestFirst
<1>6. out \subseteq 1 .. gone
  <2> HIDE DEF gone
  <2> SUFFICES ASSUME NEW j \in out, j > gone PROVE FALSE
    BY <1>1, <1>4
  <2>1. j \in Nat /\ 1 .. j \subseteq out
    BY <1>1, <1>5
  <2> HIDE DEF out
  <2>2. Cardinality(1 .. j) = j
    BY <2>1, UpTo
  <2>3. Cardinality(1 .. j) <= gone
    BY <1>4, <2>1, FS_Subset DEF gone
  <2> QED
    BY <1>4, <2>1, <2>2, <2>3
<1>7. out = 1 .. gone
  <2> HIDE DEF out
  <2>1. IsFiniteSet(1 .. gone) /\ Cardinality(1 .. gone) = gone
    BY <1>4, UpTo
  <2> QED
    BY <1>6, <2>1, FS_Subset
<1>8. \A i \in 1 .. gone : ages[i] + 1 >= length
  BY <1>7
<1>9. \A i \in gone + 1 .. n : ages[i] + 1 < length
  <2> SUFFICES ASSUME NEW i \in gone + 1 .. n PROVE ages[i] + 1 < length
    OBVIOUS
  <2>1. i \in 1 .. n /\ i \notin 1 .. gone
    BY <1>1, <1>4
  <2>2. ~(ages[i] + 1 >= length)
    BY <1>1, <1>7, <2>1
  <2> QED
    BY <1>1, <2>1, <2>2
<1>10. Older(ages, length) = [i \in 1 .. n - gone |-> ages[gone + i] + 1]
  BY DEF Older
<1>11. gone \in 0 .. Len(ages)
  BY <1>1, <1>4
<1> HIDE DEF gone, out
<1> QED
  BY <1>8, <1>9, <1>10, <1>11, Zenon

(* A tick keeps a window a window. *)
LEMMA OlderWindow ==
  ASSUME NEW length \in Nat \ {0}, NEW ages \in Seq(0 .. length - 1), OldestFirst(ages)
  PROVE  /\ Older(ages, length) \in Seq(0 .. length - 1)
         /\ OldestFirst(Older(ages, length))
         /\ Len(Older(ages, length)) <= Len(ages)
<1>1. PICK gone \in 0 .. Len(ages) :
        /\ \A i \in 1 .. gone : ages[i] + 1 >= length
        /\ \A i \in gone + 1 .. Len(ages) : ages[i] + 1 < length
        /\ Older(ages, length) = [i \in 1 .. Len(ages) - gone |-> ages[gone + i] + 1]
  BY OlderDropsFront
<1> DEFINE left == [i \in 1 .. Len(ages) - gone |-> ages[gone + i] + 1]
<1>2. Len(ages) - gone \in Nat /\ Len(ages) \in Nat /\ Len(ages) - gone <= Len(ages)
  OBVIOUS
<1>3. ASSUME NEW i \in 1 .. Len(ages) - gone PROVE left[i] \in 0 .. length - 1
  <2>1. gone + i \in gone + 1 .. Len(ages) /\ gone + i \in 1 .. Len(ages)
    BY <1>2
  <2>2. ages[gone + i] \in 0 .. length - 1 /\ ages[gone + i] + 1 < length
    BY <1>1, <2>1
  <2> QED
    BY <2>2
<1>4. left \in Seq(0 .. length - 1) /\ Len(left) = Len(ages) - gone
  BY <1>2, <1>3
<1>5. OldestFirst(left)
  <2> SUFFICES ASSUME NEW i \in 1 .. Len(left), NEW j \in 1 .. Len(left), i <= j
               PROVE  left[j] <= left[i]
    BY DEF OldestFirst
  <2>1. /\ gone + i \in 1 .. Len(ages) /\ gone + j \in 1 .. Len(ages) /\ gone + i <= gone + j
        /\ left[i] = ages[gone + i] + 1 /\ left[j] = ages[gone + j] + 1
    BY <1>2, <1>4
  <2>2. ages[gone + j] <= ages[gone + i]
    BY <2>1 DEF OldestFirst
  <2>3. ages[gone + i] \in Int /\ ages[gone + j] \in Int
    BY <2>1
  <2> QED
    BY <2>1, <2>2, <2>3
<1> QED
  BY <1>1, <1>2, <1>4, <1>5

(* A grant enters a window at its end, with age zero. *)
LEMMA GrantWindow ==
  ASSUME NEW length \in Nat \ {0}, NEW ages \in Seq(0 .. length - 1), OldestFirst(ages)
  PROVE  /\ Append(ages, 0) \in Seq(0 .. length - 1) /\ Len(Append(ages, 0)) = Len(ages) + 1
         /\ OldestFirst(Append(ages, 0))
BY DEF OldestFirst

(* Leaving a queue leaves a queue. *)
LEMMA WithoutIsQueue ==
  ASSUME NEW queue \in Seq(Callers), NEW c
  PROVE  Without(queue, c) \in Seq(Callers)
<1>1. CASE ~ \E i \in DOMAIN queue : queue[i] = c
  BY <1>1 DEF Without
<1>2. CASE \E i \in DOMAIN queue : queue[i] = c
  <2> DEFINE i == CHOOSE i \in DOMAIN queue : queue[i] = c
  <2>1. i \in 1 .. Len(queue) /\ Len(queue) \in Nat
    BY <1>2
  <2>2. Without(queue, c) = SubSeq(queue, 1, i - 1) \o SubSeq(queue, i + 1, Len(queue))
    BY <1>2 DEF Without, RemoveAt
  <2> HIDE DEF i
  <2>3. SubSeq(queue, 1, i - 1) \in Seq(Callers) /\ SubSeq(queue, i + 1, Len(queue)) \in Seq(Callers)
    BY <2>1, SubSeqProperties
  <2> QED
    BY <2>2, <2>3
<1> QED
  BY <1>1, <1>2

-----------------------------------------------------------------------------
(* Sends against grants. *)

(* Behind the newest k of them, the sends are matched one by one, newest with
   newest, by grants that are no older. *)
Matched(sent, granted, k) ==
  \A j \in 1 .. Len(sent) :
    j > k => /\ j - k <= Len(granted)
             /\ granted[Len(granted) - (j - k) + 1] <= sent[Len(sent) - j + 1]

(* So there are at most k more sends than grants. *)
LEMMA MatchedBounds ==
  ASSUME NEW sent \in Seq(Nat), NEW granted \in Seq(Nat), NEW k \in Nat, Matched(sent, granted, k)
  PROVE  Len(sent) <= Len(granted) + k
BY DEF Matched

(* A request that leaves makes one more that needs no partner. *)
LEMMA MatchedSend ==
  ASSUME NEW sent \in Seq(Nat), NEW granted \in Seq(Nat), NEW k \in Nat, Matched(sent, granted, k)
  PROVE  Matched(Append(sent, 0), granted, k + 1)
<1> DEFINE more == Append(sent, 0)
<1>1. /\ Len(more) = Len(sent) + 1 /\ Len(sent) \in Nat /\ Len(granted) \in Nat
      /\ \A i \in 1 .. Len(sent) : more[i] = sent[i]
  OBVIOUS
<1> HIDE DEF more
<1> SUFFICES ASSUME NEW j \in 1 .. Len(more), j > k + 1
             PROVE  /\ j - (k + 1) <= Len(granted)
                    /\ granted[Len(granted) - (j - (k + 1)) + 1] <= more[Len(more) - j + 1]
  BY DEF Matched, more
<1>2. j - 1 \in 1 .. Len(sent) /\ j - 1 > k /\ (j - 1) - k = j - (k + 1)
  BY <1>1
<1>3. Len(more) - j + 1 = Len(sent) - (j - 1) + 1 /\ Len(sent) - (j - 1) + 1 \in 1 .. Len(sent)
  BY <1>1, <1>2
<1> QED
  BY <1>1, <1>2, <1>3 DEF Matched

(* A grant is a partner for one that had none. *)
LEMMA MatchedGrant ==
  ASSUME NEW sent \in Seq(Nat), NEW granted \in Seq(Nat), NEW k \in Nat,
         Matched(sent, granted, k + 1)
  PROVE  Matched(sent, Append(granted, 0), k)
<1> DEFINE more == Append(granted, 0)
<1>1. /\ Len(more) = Len(granted) + 1 /\ Len(granted) \in Nat /\ Len(sent) \in Nat
      /\ \A i \in 1 .. Len(granted) : more[i] = granted[i]
      /\ more[Len(more)] = 0
      /\ \A i \in 1 .. Len(sent) : sent[i] \in Nat
  OBVIOUS
<1> HIDE DEF more
<1> SUFFICES ASSUME NEW j \in 1 .. Len(sent), j > k
             PROVE  /\ j - k <= Len(more)
                    /\ more[Len(more) - (j - k) + 1] <= sent[Len(sent) - j + 1]
  BY DEF Matched, more
<1>2. Len(sent) - j + 1 \in 1 .. Len(sent)
  BY <1>1
<1>3. CASE j = k + 1
  BY <1>1, <1>2, <1>3
<1>4. CASE j > k + 1
  <2>1. /\ j - (k + 1) <= Len(granted)
        /\ granted[Len(granted) - (j - (k + 1)) + 1] <= sent[Len(sent) - j + 1]
    BY <1>4 DEF Matched
  <2>2. /\ Len(more) - (j - k) + 1 = Len(granted) - (j - (k + 1)) + 1
        /\ Len(more) - (j - k) + 1 \in 1 .. Len(granted)
    BY <1>1, <1>4, <2>1
  <2> DEFINE i == Len(more) - (j - k) + 1
  <2>3. i = Len(granted) - (j - (k + 1)) + 1 /\ i \in 1 .. Len(granted) /\ j - k <= Len(more)
    BY <1>1, <1>4, <2>1, <2>2
  <2>4. more[i] = granted[i]
    BY <1>1, <2>3
  <2>5. more[i] <= sent[Len(sent) - j + 1]
    BY <2>1, <2>3, <2>4
  <2> QED
    BY <2>3, <2>5
<1> QED
  BY <1>3, <1>4

(* A caller that gives up leaves more sends without need of a partner. *)
LEMMA MatchedMore ==
  ASSUME NEW sent \in Seq(Nat), NEW granted \in Seq(Nat), NEW k \in Nat, NEW l \in Nat, k <= l,
         Matched(sent, granted, k), OldestFirst(granted)
  PROVE  Matched(sent, granted, l)
<1>1. /\ Len(granted) \in Nat /\ Len(sent) \in Nat
      /\ \A i \in 1 .. Len(granted) : granted[i] \in Nat
      /\ \A i \in 1 .. Len(sent) : sent[i] \in Nat
  OBVIOUS
<1> SUFFICES ASSUME NEW j \in 1 .. Len(sent), j > l
             PROVE  /\ j - l <= Len(granted)
                    /\ granted[Len(granted) - (j - l) + 1] <= sent[Len(sent) - j + 1]
  BY DEF Matched
<1> DEFINE a == Len(granted) - (j - k) + 1
           b == Len(granted) - (j - l) + 1
<1>2. j - k <= Len(granted) /\ granted[a] <= sent[Len(sent) - j + 1]
  BY DEF Matched
<1>3. a \in 1 .. Len(granted) /\ b \in 1 .. Len(granted) /\ a <= b /\ j - l <= Len(granted)
  <2> DEFINE n == Len(granted)
  <2>1. n \in Nat /\ j \in Nat /\ k <= l /\ l < j /\ j - k <= n
    BY <1>1, <1>2
  <2> HIDE DEF n
  <2>2. /\ n - (j - k) + 1 \in 1 .. n /\ n - (j - l) + 1 \in 1 .. n
        /\ n - (j - k) + 1 <= n - (j - l) + 1 /\ j - l <= n
    BY <2>1
  <2> QED
    BY <2>2 DEF n
<1>4. Len(sent) - j + 1 \in 1 .. Len(sent)
  BY <1>1
<1> HIDE DEF a, b
<1>5. granted[b] <= granted[a]
  BY <1>3 DEF OldestFirst
<1>6. granted[b] <= sent[Len(sent) - j + 1]
  <2> DEFINE u == granted[b]
             v == granted[a]
             y == sent[Len(sent) - j + 1]
  <2>1. u \in Nat /\ v \in Nat /\ y \in Nat
    BY <1>1, <1>3, <1>4
  <2>2. u <= v /\ v <= y
    BY <1>2, <1>5
  <2> HIDE DEF u, v, y
  <2>3. u <= y
    BY <2>1, <2>2
  <2> QED
    BY <2>3 DEF u, y
<1> QED
  BY <1>3, <1>6 DEF b

(* A tick drops no partner of a send that it keeps. *)
LEMMA MatchedTick ==
  ASSUME NEW length \in Nat \ {0}, NEW k \in Nat,
         NEW sent \in Seq(0 .. length - 1), NEW granted \in Seq(0 .. length - 1),
         OldestFirst(sent), OldestFirst(granted), Matched(sent, granted, k)
  PROVE  Matched(Older(sent, length), Older(granted, length), k)
<1>1. PICK p \in 0 .. Len(sent) :
        /\ \A i \in 1 .. p : sent[i] + 1 >= length
        /\ \A i \in p + 1 .. Len(sent) : sent[i] + 1 < length
        /\ Older(sent, length) = [i \in 1 .. Len(sent) - p |-> sent[p + i] + 1]
  BY OlderDropsFront
<1>2. PICK q \in 0 .. Len(granted) :
        /\ \A i \in 1 .. q : granted[i] + 1 >= length
        /\ \A i \in q + 1 .. Len(granted) : granted[i] + 1 < length
        /\ Older(granted, length) = [i \in 1 .. Len(granted) - q |-> granted[q + i] + 1]
  BY OlderDropsFront
<1> DEFINE s == Older(sent, length)
           g == Older(granted, length)
<1>3. /\ Len(sent) \in Nat /\ Len(granted) \in Nat
      /\ \A i \in 1 .. Len(sent) : sent[i] \in 0 .. length - 1
      /\ \A i \in 1 .. Len(granted) : granted[i] \in 0 .. length - 1
  OBVIOUS
<1>4. /\ Len(s) = Len(sent) - p /\ \A i \in 1 .. Len(s) : s[i] = sent[p + i] + 1
      /\ Len(g) = Len(granted) - q /\ \A i \in 1 .. Len(g) : g[i] = granted[q + i] + 1
  BY <1>1, <1>2, <1>3
<1> HIDE DEF s, g
<1> SUFFICES ASSUME NEW j \in 1 .. Len(s), j > k
             PROVE  j - k <= Len(g) /\ g[Len(g) - (j - k) + 1] <= s[Len(s) - j + 1]
  BY DEF Matched, s, g
<1> DEFINE a == Len(granted) - (j - k) + 1
           b == Len(sent) - j + 1
<1>5. b \in p + 1 .. Len(sent) /\ b \in 1 .. Len(sent) /\ j \in 1 .. Len(sent)
  BY <1>3, <1>4
<1>6. j - k <= Len(granted) /\ granted[a] <= sent[b] /\ sent[b] + 1 < length
  BY <1>1, <1>5 DEF Matched
<1>7. a \in 1 .. Len(granted)
  BY <1>3, <1>5, <1>6
<1>8. b = p + (Len(s) - j + 1) /\ Len(s) - j + 1 \in 1 .. Len(s)
  BY <1>3, <1>4
<1> HIDE DEF b
<1>9. granted[a] \in Nat /\ sent[b] \in Nat
  BY <1>3, <1>5, <1>7
<1> HIDE DEF a
<1> DEFINE x == granted[a]
           y == sent[b]
<1>10. x \in Nat /\ y \in Nat /\ x <= y /\ y + 1 < length /\ length \in Nat
  BY <1>6, <1>9
<1>11. x + 1 <= y + 1 /\ x + 1 < length
  <2> HIDE DEF x, y
  <2> QED
    BY <1>10
<1>12. a \notin 1 .. q
  <2> SUFFICES ASSUME a \in 1 .. q
               PROVE  FALSE
    OBVIOUS
  <2>1. x + 1 >= length
    BY <1>2
  <2> HIDE DEF x
  <2> QED
    BY <1>10, <1>11, <2>1
<1> USE DEF a
<1>13. a \in q + 1 .. Len(granted)
  <2> HIDE DEF a
  <2> QED
    BY <1>3, <1>7, <1>12
<1>14. j - k <= Len(g) /\ a = q + (Len(g) - (j - k) + 1) /\ Len(g) - (j - k) + 1 \in 1 .. Len(g)
  BY <1>3, <1>4, <1>5, <1>13
<1> HIDE DEF a
<1>15. g[Len(g) - (j - k) + 1] = granted[a] + 1 /\ s[Len(s) - j + 1] = sent[b] + 1
  BY <1>4, <1>8, <1>14
<1> QED
  BY <1>14, <1>15, <1>11

-----------------------------------------------------------------------------
(* The windows. *)

(* Granted in the minute window and still on the way to the second one. *)
Committed == Standing({"count", "second"})

(* The sends that need no grant of their own: those whose grant is older than the
   minute, at most as many as the callers in flight that are not Committed. *)
Slack == InFlight - Cardinality(Committed)

Window(bucket, length, limit) ==
  /\ bucket \in Bucket(length)
  /\ Len(bucket.grants) <= limit
  /\ OldestFirst(bucket.grants)

RowsDated(disk) == \A d \in DOMAIN disk : disk[d].date = d

(* Inductive on top of GovernorInv: each send of the last minute, but for Slack of
   them, is matched by a grant of the minute window that is no older. *)
WindowInv ==
  /\ Window(secondBucket, Second, PerSecond)
  /\ Window(minuteBucket, Minute, PerMinute)
  /\ sends \in Seq(0 .. Minute - 1) /\ OldestFirst(sends)
  /\ Matched(sends, minuteBucket.grants, Slack)
  /\ RowsDated(api_budget)

(* Committed callers hold slots, so the slack is a number. *)
LEMMA SlackIsNat ==
  ASSUME GovernorInv
  PROVE  Slack \in Nat /\ Cardinality(Committed) \in Nat /\ InFlight \in Nat
<1>1. Cardinality(Committed) <= Cardinality(HoldsSlot)
  <2>1. Committed \subseteq HoldsSlot
    BY DEF Committed, Standing, HoldsSlot
  <2>2. IsFiniteSet(HoldsSlot)
    BY StandingFinite, HoldsSlotIsStanding
  <2> QED
    BY <2>1, <2>2, FS_Subset
<1>2. slots \in Nat /\ slots + Cardinality(HoldsSlot) = InFlight
  BY DEF GovernorInv, Placed, SlotsConserved
<1>3. Cardinality(Committed) \in Nat /\ Cardinality(HoldsSlot) \in Nat /\ InFlight \in Nat
  BY GovernorAssumption, StandingFinite, HoldsSlotIsStanding DEF Committed
<1> QED
  BY <1>1, <1>2, <1>3 DEF Slack

(* Ages are numbers. *)
LEMMA AgesAreNat ==
  ASSUME WindowInv
  PROVE  /\ sends \in Seq(Nat)
         /\ minuteBucket.grants \in Seq(0 .. Minute - 1) /\ minuteBucket.grants \in Seq(Nat)
         /\ secondBucket.grants \in Seq(0 .. Second - 1)
         /\ Minute \in Nat \ {0} /\ Second \in Nat \ {0}
<1>1. Minute \in Nat \ {0} /\ Second \in Nat \ {0}
  BY GovernorAssumption
<1>2. /\ sends \in Seq(0 .. Minute - 1)
      /\ minuteBucket.grants \in Seq(0 .. Minute - 1)
      /\ secondBucket.grants \in Seq(0 .. Second - 1)
  BY DEF WindowInv, Window, Bucket
<1>3. 0 .. Minute - 1 \subseteq Nat
  BY <1>1
<1> QED
  BY <1>1, <1>2, <1>3, SeqMonotonic

(* How a move changes the slack. *)
LEMMA SlackMoves ==
  ASSUME GovernorInv, GovernorInv', NEW c \in Callers, NEW place \in Places, Move(c, place)
  PROVE  /\ at[c] \in {"count", "second"} /\ place \notin {"count", "second"} => Slack' = Slack + 1
         /\ at[c] \notin {"count", "second"} /\ place \in {"count", "second"} => Slack = Slack' + 1
         /\ (at[c] \in {"count", "second"} <=> place \in {"count", "second"}) => Slack' = Slack
         /\ Slack \in Nat /\ Slack' \in Nat
<1> DEFINE places == {"count", "second"}
<1>1. at \in [Callers -> Places]
  BY DEF GovernorInv, Placed
<1>2. /\ at[c] \in places /\ place \notin places =>
           Cardinality(Standing(places)') = Cardinality(Standing(places)) - 1
      /\ at[c] \notin places /\ place \in places =>
           Cardinality(Standing(places)') = Cardinality(Standing(places)) + 1
      /\ (at[c] \in places <=> place \in places) => Standing(places)' = Standing(places)
  <2> HIDE DEF places
  <2> QED
    BY <1>1, Moves
<1>3. Cardinality(Committed) \in Nat /\ Cardinality(Committed') \in Nat /\ InFlight \in Nat
      /\ Slack \in Nat /\ Slack' \in Nat
  <2>1. /\ Committed' = {d \in Callers : at'[d] \in places}
        /\ HoldsSlot' = {d \in Callers : at'[d] \in {"minute", "count", "second", "sent"}}
    BY DEF Committed, Standing, HoldsSlot
  <2>2. Committed' \subseteq HoldsSlot' /\ HoldsSlot' \subseteq Callers /\ IsFiniteSet(Callers)
    BY <2>1, GovernorAssumption
  <2>3. /\ Cardinality(Committed') \in Nat /\ Cardinality(HoldsSlot') \in Nat
        /\ Cardinality(Committed') <= Cardinality(HoldsSlot')
    <3>1. IsFiniteSet(HoldsSlot')
      BY <2>2, FS_Subset
    <3>2. IsFiniteSet(Committed') /\ Cardinality(Committed') <= Cardinality(HoldsSlot')
      BY <2>2, <3>1, FS_Subset
    <3> QED
      BY <3>1, <3>2, FS_CardinalityType
  <2>4. slots' \in Nat /\ slots' + Cardinality(HoldsSlot') = InFlight
    BY DEF GovernorInv, Placed, SlotsConserved
  <2>5. Slack' = InFlight - Cardinality(Committed')
    BY DEF Slack
  <2> QED
    BY <2>3, <2>4, <2>5, SlackIsNat
<1>4. Committed = Standing(places) /\ Committed' = Standing(places)'
  BY DEF Committed
<1>5. Slack = InFlight - Cardinality(Committed) /\ Slack' = InFlight - Cardinality(Committed')
  BY DEF Slack
<1> QED
  BY <1>2, <1>3, <1>4, <1>5

(* A budget row written to disk stands under its date. *)
LEMMA WrittenRowsDated ==
  ASSUME NEW disk, RowsDated(disk), NEW r
  PROVE  RowsDated(Written(disk, r))
BY DEF RowsDated, Written

(* So does a rolled day. *)
LEMMA RolledRowsDated == RowsDated(api_budget) => RowsDated(RolledDisk)
BY WrittenRowsDated DEF RolledDisk

(* A step that does not touch the windows and takes nobody out of their reach. *)
LEMMA WindowsRest ==
  ASSUME WindowInv, UNCHANGED <<secondBucket, minuteBucket, sends>>, Slack' = Slack,
         RowsDated(api_budget')
  PROVE  WindowInv'
BY DEF WindowInv, Window, Bucket, OldestFirst, Matched, RowsDated

(* The steps of a caller. *)
LEMMA CallerWindows ==
  ASSUME GovernorInv, GovernorInv', WindowInv, NEW c \in Callers,
         Call(c) \/ Acquiring(c) \/ Answer(c) \/ Cancelled(c) \/ NoteRateLimited(c)
  PROVE  WindowInv'
<1>a. RowsDated(api_budget')
  <2>1. \/ api_budget' = api_budget
        \/ \E r : api_budget' = Written(api_budget, r)
        \/ api_budget' = RolledDisk
        \/ \E r : api_budget' = Written(RolledDisk, r)
    <3>1. CASE Gate(c)
      BY <3>1 DEF Gate
    <3>2. CASE NoteRateLimited(c)
      BY <3>2 DEF NoteRateLimited
    <3>3. CASE Count(c)
      BY <3>3 DEF Count, CountRequest, CountWhilePaused, Save
    <3>4. CASE Call(c) \/ TakeSlot(c) \/ TakeMinute(c) \/ TakeSecond(c) \/ Answer(c) \/ Cancelled(c)
      BY <3>4 DEF Call, TakeSlot, TakeMinute, TakeSecond, Answer, Cancelled
    <3> QED
      BY <3>1, <3>2, <3>3, <3>4 DEF Acquiring
  <2>2. RowsDated(api_budget) /\ RowsDated(RolledDisk)
    BY RolledRowsDated DEF WindowInv
  <2> QED
    BY <2>1, <2>2, WrittenRowsDated
<1>b. /\ secondBucket \in Bucket(Second) /\ minuteBucket \in Bucket(Minute)
      /\ OldestFirst(minuteBucket.grants) /\ Matched(sends, minuteBucket.grants, Slack)
      /\ OldestFirst(sends) /\ sends \in Seq(0 .. Minute - 1)
  BY DEF WindowInv, Window
<1>c. /\ secondBucket = [grants |-> secondBucket.grants, queue |-> secondBucket.queue]
      /\ minuteBucket = [grants |-> minuteBucket.grants, queue |-> minuteBucket.queue]
      /\ secondBucket.queue \in Seq(Callers) /\ minuteBucket.queue \in Seq(Callers)
  BY <1>b DEF Bucket
<1>q. ASSUME NEW length, NEW limit, NEW bucket, NEW new, Window(bucket, length, limit),
             new \in Seq(Callers)
      PROVE  /\ Window([bucket EXCEPT !.queue = new], length, limit)
             /\ [bucket EXCEPT !.queue = new].grants = bucket.grants
  BY <1>q DEF Window, Bucket
<1>1. CASE Call(c) \/ Answer(c) \/ NoteRateLimited(c) \/ Gate(c)
  <2>1. UNCHANGED <<secondBucket, minuteBucket, sends>> /\ Slack' = Slack
    <3>1. CASE Call(c)
      BY <3>1, SlackMoves DEF Call, Places
    <3>2. CASE Answer(c)
      BY <3>2, SlackMoves DEF Answer, Places
    <3>3. CASE NoteRateLimited(c)
      BY <3>3, SlackMoves DEF NoteRateLimited, Places
    <3>4. CASE Gate(c) /\ Move(c, "slot")
      BY <3>4, SlackMoves DEF Gate, Places
    <3>5. CASE Gate(c) /\ UNCHANGED at
      BY <3>5 DEF Gate, Slack, Committed, Standing
    <3> QED
      BY <1>1, <3>1, <3>2, <3>3, <3>4, <3>5 DEF Gate
  <2> QED
    BY <1>a, <2>1, WindowsRest
<1>2. CASE TakeSlot(c)
  <2>1. Slack' = Slack /\ UNCHANGED <<secondBucket, sends>>
        /\ minuteBucket' = [minuteBucket EXCEPT !.queue = Append(minuteBucket.queue, c)]
    BY <1>2, SlackMoves DEF TakeSlot, Places
  <2> DEFINE new == Append(minuteBucket.queue, c)
  <2>2. new \in Seq(Callers) /\ minuteBucket' = [minuteBucket EXCEPT !.queue = new]
    BY <1>c, <2>1
  <2> HIDE DEF new
  <2>3. Window(minuteBucket', Minute, PerMinute) /\ minuteBucket'.grants = minuteBucket.grants
    BY <1>q, <2>2 DEF WindowInv
  <2> QED
    BY <1>a, <2>1, <2>3 DEF WindowInv, Window, Bucket, OldestFirst, Matched, RowsDated
<1>3. CASE TakeMinute(c)
  <2> DEFINE g == minuteBucket.grants
  <2>1. /\ Slack = Slack' + 1 /\ Slack' \in Nat /\ UNCHANGED <<secondBucket, sends>>
        /\ minuteBucket' = [grants |-> Append(g, 0), queue |-> Tail(minuteBucket.queue)]
        /\ minuteBucket.queue # <<>> /\ Len(g) < PerMinute
    BY <1>3, SlackMoves DEF TakeMinute, Places, Take, Granted
  <2>2. g \in Seq(0 .. Minute - 1) /\ g \in Seq(Nat) /\ sends \in Seq(Nat) /\ PerMinute \in Nat
        /\ Minute \in Nat \ {0}
    BY AgesAreNat, GovernorAssumption
  <2>3. Tail(minuteBucket.queue) \in Seq(Callers)
    BY <1>c, <2>1
  <2>4. /\ Append(g, 0) \in Seq(0 .. Minute - 1) /\ Len(Append(g, 0)) <= PerMinute
        /\ OldestFirst(Append(g, 0))
    <3>1. Len(g) \in Nat
      BY <2>2
    <3> QED
      BY <1>b, <2>1, <2>2, <3>1, GrantWindow
  <2>5. Matched(sends, Append(g, 0), Slack')
    BY <1>b, <2>1, <2>2, MatchedGrant
  <2>6. Window(minuteBucket', Minute, PerMinute) /\ minuteBucket'.grants = Append(g, 0)
    BY <2>1, <2>3, <2>4 DEF Window, Bucket
  <2>7. Matched(sends', minuteBucket'.grants, Slack')
    BY <2>1, <2>5, <2>6
  <2> QED
    BY <1>a, <1>b, <2>1, <2>6, <2>7 DEF WindowInv
<1>4. CASE Count(c)
  <2>1. CASE CountWhilePaused(c)
    <3>1. UNCHANGED <<secondBucket, minuteBucket, sends>> /\ Slack' = Slack + 1
      BY <1>4, <2>1, SlackMoves DEF Count, CountWhilePaused, Places
    <3>2. Matched(sends, minuteBucket.grants, Slack + 1)
      BY <1>b, AgesAreNat, SlackIsNat, MatchedMore
    <3>3. Matched(sends', minuteBucket'.grants, Slack')
      BY <3>1, <3>2
    <3> QED
      BY <1>a, <1>b, <3>1, <3>3 DEF WindowInv
  <2>2. CASE CountRequest(c)
    <3>1. Slack' = Slack /\ UNCHANGED <<minuteBucket, sends>>
          /\ secondBucket' = [secondBucket EXCEPT !.queue = Append(secondBucket.queue, c)]
      BY <1>4, <2>2, SlackMoves DEF Count, CountRequest, Places
    <3>2. Append(secondBucket.queue, c) \in Seq(Callers)
      BY <1>c
    <3>3. Window(secondBucket', Second, PerSecond)
      BY <1>q, <3>1, <3>2 DEF WindowInv
    <3>4. Matched(sends', minuteBucket'.grants, Slack')
      BY <1>b, <3>1
    <3> QED
      BY <1>a, <1>b, <3>1, <3>3, <3>4 DEF WindowInv
  <2> QED
    BY <1>4, <2>1, <2>2 DEF Count
<1>5. CASE TakeSecond(c)
  <2> DEFINE g == secondBucket.grants
  <2>1. /\ Slack' = Slack + 1 /\ sends' = Append(sends, 0) /\ UNCHANGED minuteBucket
        /\ secondBucket' = [grants |-> Append(g, 0), queue |-> Tail(secondBucket.queue)]
        /\ secondBucket.queue # <<>> /\ Len(g) < PerSecond
    BY <1>5, SlackMoves DEF TakeSecond, Places, Take, Granted
  <2>2. g \in Seq(0 .. Second - 1) /\ sends \in Seq(Nat) /\ minuteBucket.grants \in Seq(Nat)
        /\ PerSecond \in Nat /\ Second \in Nat \ {0} /\ Minute \in Nat \ {0} /\ Slack \in Nat
        /\ OldestFirst(g)
    BY AgesAreNat, SlackIsNat, GovernorAssumption DEF WindowInv, Window
  <2>3. Tail(secondBucket.queue) \in Seq(Callers)
    BY <1>c, <2>1
  <2>4. /\ Append(g, 0) \in Seq(0 .. Second - 1) /\ Len(Append(g, 0)) <= PerSecond
        /\ OldestFirst(Append(g, 0))
    <3>1. Len(g) \in Nat
      BY <2>2
    <3> QED
      BY <2>1, <2>2, <3>1, GrantWindow
  <2>5. Matched(sends', minuteBucket'.grants, Slack')
    <3>1. Matched(Append(sends, 0), minuteBucket.grants, Slack + 1)
      BY <1>b, <2>2, MatchedSend
    <3> QED
      BY <2>1, <3>1
  <2>6. Window(secondBucket', Second, PerSecond)
    BY <2>1, <2>3, <2>4 DEF Window, Bucket
  <2>7. sends' \in Seq(0 .. Minute - 1) /\ OldestFirst(sends')
    BY <1>b, <2>1, <2>2, GrantWindow
  <2>8. Window(minuteBucket', Minute, PerMinute)
    BY <2>1 DEF WindowInv
  <2> QED
    BY <1>a, <2>5, <2>6, <2>7, <2>8 DEF WindowInv
<1>6. CASE Cancelled(c)
  <2>1. /\ Slack' \in Nat /\ Slack <= Slack' /\ UNCHANGED sends
        /\ minuteBucket' = [minuteBucket EXCEPT !.queue = Without(minuteBucket.queue, c)]
        /\ secondBucket' = [secondBucket EXCEPT !.queue = Without(secondBucket.queue, c)]
    <3>1. "idle" \in Places /\ "idle" \notin {"count", "second"} /\ Move(c, "idle")
      BY <1>6 DEF Cancelled, Places
    <3>2. Slack' \in Nat /\ Slack \in Nat /\ (Slack' = Slack + 1 \/ Slack' = Slack)
      BY <3>1, SlackMoves
    <3> QED
      BY <1>6, <3>2 DEF Cancelled
  <2>2. /\ Window(minuteBucket', Minute, PerMinute) /\ Window(secondBucket', Second, PerSecond)
        /\ minuteBucket'.grants = minuteBucket.grants
    BY <1>c, <1>q, <2>1, WithoutIsQueue DEF WindowInv
  <2>3. Matched(sends, minuteBucket.grants, Slack')
    BY <1>b, <2>1, AgesAreNat, SlackIsNat, MatchedMore
  <2>4. Matched(sends', minuteBucket'.grants, Slack')
    BY <2>1, <2>2, <2>3
  <2> QED
    BY <1>a, <1>b, <2>1, <2>2, <2>4 DEF WindowInv
<1> QED
  BY <1>1, <1>2, <1>3, <1>4, <1>5, <1>6 DEF Acquiring

(* The rest of the steps: modes, days, ticks and restarts. *)
LEMMA OtherWindows ==
  ASSUME GovernorInv, GovernorInv', WindowInv,
         ModeChange \/ Tick \/ Midnight \/ Restart \/ UNCHANGED vars
  PROVE  WindowInv'
<1>a. RowsDated(api_budget) /\ RowsDated(RolledDisk)
  BY RolledRowsDated DEF WindowInv
<1>s. UNCHANGED at => Slack' = Slack
  BY DEF Slack, Committed, Standing
<1>1. CASE ModeChange
  <2>1. UNCHANGED <<at, secondBucket, minuteBucket, sends>>
    BY <1>1 DEF ModeChange, Pause, Resume, RefreshDay
  <2>2. RowsDated(api_budget')
    BY <1>1, <1>a, WrittenRowsDated DEF ModeChange, Pause, Resume, RefreshDay, Save
  <2> QED
    BY <1>s, <2>1, <2>2, WindowsRest
<1>2. CASE Midnight \/ UNCHANGED vars
  <2>1. UNCHANGED <<at, secondBucket, minuteBucket, sends, api_budget>>
    BY <1>2 DEF Midnight, vars
  <2> QED
    BY <1>a, <1>s, <2>1, WindowsRest
<1>3. CASE Tick
  <2>1. /\ UNCHANGED <<at, api_budget>>
        /\ secondBucket' = [secondBucket EXCEPT !.grants = Older(secondBucket.grants, Second)]
        /\ minuteBucket' = [minuteBucket EXCEPT !.grants = Older(minuteBucket.grants, Minute)]
        /\ sends' = Older(sends, Minute)
    BY <1>3 DEF Tick
  <2>2. /\ Second \in Nat \ {0} /\ Minute \in Nat \ {0} /\ PerSecond \in Nat /\ PerMinute \in Nat
    BY GovernorAssumption
  <2>3. ASSUME NEW length \in Nat \ {0}, NEW limit \in Nat, NEW bucket,
               Window(bucket, length, limit)
        PROVE  LET new == [bucket EXCEPT !.grants = Older(bucket.grants, length)]
               IN  Window(new, length, limit) /\ new.grants = Older(bucket.grants, length)
    <3>1. bucket \in Bucket(length) /\ bucket.grants \in Seq(0 .. length - 1)
          /\ OldestFirst(bucket.grants) /\ Len(bucket.grants) <= limit
      BY <2>3 DEF Window, Bucket
    <3> DEFINE g == Older(bucket.grants, length)
    <3>2. /\ g \in Seq(0 .. length - 1) /\ OldestFirst(g)
          /\ Len(g) <= Len(bucket.grants)
      BY <3>1, OlderWindow
    <3> HIDE DEF g
    <3>3. Len(g) <= limit
      BY <3>1, <3>2
    <3>4. [bucket EXCEPT !.grants = g] \in Bucket(length) /\ [bucket EXCEPT !.grants = g].grants = g
      BY <3>1, <3>2 DEF Bucket
    <3> QED
      BY <3>2, <3>3, <3>4 DEF Window, g
  <2>4. /\ Window(secondBucket', Second, PerSecond) /\ Window(minuteBucket', Minute, PerMinute)
        /\ minuteBucket'.grants = Older(minuteBucket.grants, Minute)
    BY <2>1, <2>2, <2>3 DEF WindowInv
  <2>5. sends \in Seq(0 .. Minute - 1) /\ OldestFirst(sends) /\ OldestFirst(minuteBucket.grants)
        /\ Matched(sends, minuteBucket.grants, Slack)
    BY DEF WindowInv, Window
  <2>6. sends' \in Seq(0 .. Minute - 1) /\ OldestFirst(sends')
    BY <2>1, <2>2, <2>5, OlderWindow
  <2>7. Matched(Older(sends, Minute), Older(minuteBucket.grants, Minute), Slack)
    BY <2>2, <2>5, AgesAreNat, SlackIsNat, MatchedTick
  <2>8. Matched(sends', minuteBucket'.grants, Slack')
    BY <1>s, <2>1, <2>4, <2>7
  <2> QED
    BY <1>a, <2>1, <2>4, <2>6, <2>8 DEF WindowInv
<1>4. CASE Restart
  <2>1. /\ secondBucket' = [grants |-> <<>>, queue |-> <<>>]
        /\ minuteBucket' = [grants |-> <<>>, queue |-> <<>>] /\ sends' = <<>>
        /\ \E r : api_budget' = Written(api_budget, r)
    BY <1>4 DEF Restart, Save
  <2>2. RowsDated(api_budget')
    BY <1>a, <2>1, WrittenRowsDated
  <2> QED
    BY <2>1, <2>2, GovernorAssumption DEF WindowInv, Window, Bucket, OldestFirst, Matched
<1> QED
  BY <1>1, <1>2, <1>3, <1>4

(* A new installation has granted and sent nothing. *)
LEMMA InitWindows == Init => WindowInv
BY GovernorAssumption
   DEF Init, WindowInv, Window, Bucket, OldestFirst, Matched, RowsDated, FreshRow

(* What the limiter keeps is what it should be, and within any minute no more is sent
   than the limit and the callers in flight. *)
LEMMA WindowsKeepRate == GovernorInv /\ WindowInv => RateKept
<1> SUFFICES ASSUME GovernorInv, WindowInv PROVE RateKept
  OBVIOUS
<1>1. SendsPerMinute
  <2>1. /\ Len(sends) <= Len(minuteBucket.grants) + Slack
        /\ Len(minuteBucket.grants) <= PerMinute
        /\ Len(sends) \in Nat /\ Len(minuteBucket.grants) \in Nat
    BY AgesAreNat, SlackIsNat, MatchedBounds DEF WindowInv, Window
  <2>2. Slack <= InFlight /\ Slack \in Nat /\ InFlight \in Nat /\ PerMinute \in Nat
    BY SlackIsNat, GovernorAssumption DEF Slack
  <2> QED
    BY <2>1, <2>2 DEF SendsPerMinute
<1>2. TypeOK
  <2>1. slots \in 0 .. InFlight
    <3>1. slots \in Nat /\ slots + Cardinality(HoldsSlot) = InFlight /\ InFlight \in Nat
          /\ Cardinality(HoldsSlot) \in Nat
      BY GovernorAssumption, StandingFinite, HoldsSlotIsStanding
         DEF GovernorInv, Placed, SlotsConserved
    <3> QED
      BY <3>1
  <2>2. unflushed \in 0 .. FlushInterval - 1
    BY GovernorAssumption DEF GovernorInv, Booked, Books
  <2>3. /\ \A d \in DOMAIN api_budget : api_budget[d] \in BudgetRow /\ api_budget[d].date = d
        /\ DOMAIN api_budget \subseteq 1 .. LastDay
    BY DEF GovernorInv, Booked, Books, WindowInv, RowsDated, BudgetRow
  <2> QED
    BY <2>1, <2>2, <2>3 DEF TypeOK, GovernorInv, Placed, Booked, Books, WindowInv, Window
<1> QED
  BY <1>1, <1>2 DEF RateKept

(* In any minute the process sends at most the limit and the callers in flight, and
   the limiter's two windows, its slots and its books are well formed throughout. *)
THEOREM RateKeptAlways == Spec => []RateKept
<1>1. GovernorInv /\ GovernorInv' /\ WindowInv /\ [Next]_vars => WindowInv'
  BY CallerWindows, OtherWindows DEF Next
<1> QED
  BY <1>1, InitWindows, WindowsKeepRate, GovernorInvAlways, PTL DEF Spec

=============================================================================
