-------------------------- MODULE AutomationProofs --------------------------
(***************************************************************************)
(* The schedules, the fires and the token of Automation, for every set of  *)
(* schedules and routes, any number of edits, logins, refusals, restarts   *)
(* and days.                                                               *)
(*                                                                         *)
(* The token: the last login has a generation g, the greatest of the       *)
(* table, and only its row can be used (TokensFit).  What the broker       *)
(* remembers is older than that or says the same (BrokerFits), so once it  *)
(* is loaded it is (g, the usable rows), whatever came before (LoadedIs):  *)
(* every step that asks it a question gets that answer, and TokensInv is   *)
(* kept by any step, also those that the Freedoms allow.                   *)
(*                                                                         *)
(* The triggers need SchedulesInv besides: of two changes that meet only   *)
(* the shape of what they leave is kept, and a change that is made alone   *)
(* starts again from the table.                                            *)
(***************************************************************************)
EXTENDS Automation, FiniteSetTheorems, TLAPS

RowStates == {"active", "needs_reauth", "revoked"}
TokenRows == [gen : Generations, exp : Nat, state : RowStates]
Brokers == [loaded : BOOLEAN, gen : Nat, parked : Nat, rec : SUBSET TokenRows]

\* The rows of the table, the last login g and the generation the pipeline was parked for:
\* a generation names one row, and only the last login's can be used.
TokensFit(rs, g, park) ==
  /\ rs \subseteq TokenRows /\ g \in Nat /\ park \in Nat
  /\ \E r \in rs : r.gen = g
  /\ \A r \in rs : r.gen <= g /\ (Usable(r) => r.gen = g /\ park < g)
  /\ \A r, s \in rs : r.gen = s.gen => r = s
UsableOf(rs) == {r \in rs : Usable(r)}
\* What is remembered is what is stored.
BrokerFits(rs, g, b) ==
  /\ b \in Brokers /\ b.gen <= g /\ b.parked <= g
  /\ b.loaded => b.gen = g /\ b.rec = UsableOf(rs)

TokensInv ==
  \E g \in 1 .. spent + 1 :
    /\ TokensFit(rows, g, broker.parked) /\ BrokerFits(rows, g, broker)
    /\ reports \subseteq refused /\ refused \subseteq 1 .. g

\* The fires: of a trigger, of its own schedule.
Waiting == [step : {"waiting"}, id : Ids, on : BOOLEAN, at : Nat]
InHand == [step : {"acting"}, id : Ids, at : Nat, left : Nat]
FireInv ==
  /\ fire \in [Fires -> {Resting} \cup Waiting \cup InHand]
  /\ \A p \in Ids : fire[p].step # "idle" => fire[p].id = p

ScheduleRows == [there : {TRUE}, cron : Crons, on : BOOLEAN] \cup {Absent}
Enabled(t) == {i \in Ids : t[i].there /\ t[i].on}
Mirrors(tr, t) == DOMAIN tr = Enabled(t) /\ \A i \in DOMAIN tr : tr[i].cron = t[i].cron
TriggerRows == [cron : Crons, due : BOOLEAN]
RouteStates ==
  {Resting, [step |-> "committed"], [step |-> "added"]} \cup
  [step : {"listed"}, of : [Ids -> ScheduleRows]]
SchedulesShape ==
  /\ table \in [Ids -> ScheduleRows] /\ \A i \in Builtins : table[i].there
  /\ triggers \in [DOMAIN triggers -> TriggerRows]
  /\ DOMAIN triggers \subseteq Ids /\ shown \subseteq Ids
  /\ route \in [Routes -> RouteStates] /\ met \in BOOLEAN

\* The one change that may be under way: what it has listed is the table, and what it has
\* installed mirrors it.
OneChange ==
  /\ table \in [Ids -> ScheduleRows] /\ \A i \in Builtins : table[i].there
  /\ triggers \in [DOMAIN triggers -> TriggerRows]
  /\ DOMAIN triggers \subseteq Ids /\ shown \subseteq Ids
  /\ route \in [Routes -> {Resting, [step |-> "committed"], [step |-> "added"],
                           [step |-> "listed", of |-> table]}]
  /\ \A e, o \in Routes : route[e].step # "idle" /\ route[o].step # "idle" => e = o
  /\ \A e \in Routes : /\ route[e].step = "listed" => DOMAIN triggers = {}
                       /\ route[e].step = "added" => Mirrors(triggers, table)
  /\ (\A e \in Routes : route[e].step = "idle") =>
       Mirrors(triggers, table) /\ shown = DOMAIN triggers
\* With no two changes that have met, there is one at most; whatever they do, the shape.
SchedulesInv == SchedulesShape /\ (~met => OneChange)

JobRows == [by : Ids, status : {"queued", "deferred_budget"}, left : Nat] \cup
           [by : {"user"}, status : {"queued", "deferred_budget"}, left : Nat,
            created : Int, on : Int]
WorkInv ==
  /\ half \in 0 .. LastHalf /\ spent \in 0 .. MaxEvents
  /\ mode \in {"running", "paused_auth", "stopped_budget"}
  /\ budget \in [day : Int, used : 0 .. Daily, swept : Nat]
  /\ jobs \in Seq(JobRows)

AutomationInv == TokensInv /\ FireInv /\ SchedulesShape /\ WorkInv

-----------------------------------------------------------------------------
\* A set of rows with one greatest generation: it is what max_generation finds.
LEMMA GreatestIs ==
  ASSUME NEW rs, NEW g, NEW park, TokensFit(rs, g, park), NEW b \in 0 .. g
  PROVE  Max({0} \cup {r.gen : r \in rs}) = g /\ Max({b, g}) = g
<1>1. PICK t \in rs : t.gen = g BY DEF TokensFit
<1>2. g \in Nat /\ \A r \in rs : r.gen \in Nat /\ r.gen <= g BY DEF TokensFit, TokenRows, Generations
<1> DEFINE S == {0} \cup {r.gen : r \in rs}
<1>3. g \in S /\ \A x \in S : x \in Nat /\ g >= x BY <1>1, <1>2
<1>4. Max(S) = g
  <2> HIDE DEF S
  <2>1. Max(S) \in S /\ \A y \in S : Max(S) >= y BY <1>3 DEF Max
  <2> QED BY <1>3, <2>1
<1>5. Max({b, g}) = g
  <2>1. g \in {b, g} /\ \A x \in {b, g} : x \in Nat /\ g >= x BY <1>2
  <2>2. Max({b, g}) \in {b, g} /\ \A y \in {b, g} : Max({b, g}) >= y BY <2>1 DEF Max
  <2> QED BY <2>1, <2>2
<1> QED BY <1>4, <1>5

\* What is remembered, once it is loaded: the last login's generation and the usable rows.
LEMMA LoadedIs ==
  ASSUME NEW g, TokensFit(rows, g, broker.parked), BrokerFits(rows, g, broker)
  PROVE  /\ MaxGeneration = g /\ LoadActive = UsableOf(rows)
         /\ Loaded = [loaded |-> TRUE, gen |-> g, parked |-> broker.parked, rec |-> UsableOf(rows)]
<1>1. g \in Nat /\ broker.gen \in 0 .. g BY DEF TokensFit, BrokerFits, Brokers
<1>2. MaxGeneration = g /\ Max({broker.gen, g}) = g
  BY <1>1, GreatestIs DEF MaxGeneration
<1>3. LoadActive = UsableOf(rows)
  BY <1>1 DEF LoadActive, UsableOf, TokensFit
<1>4. CASE broker.loaded
  <2>1. Loaded = broker /\ broker.gen = g /\ broker.rec = UsableOf(rows)
    BY <1>4 DEF Loaded, BrokerFits
  <2>2. broker = [loaded |-> broker.loaded, gen |-> broker.gen, parked |-> broker.parked,
                  rec |-> broker.rec]
    BY DEF BrokerFits, Brokers
  <2>3. broker.loaded = TRUE BY <1>4 DEF BrokerFits, Brokers
  <2> QED BY <1>2, <1>3, <2>1, <2>2, <2>3
<1>5. CASE ~broker.loaded
  BY <1>2, <1>3, <1>5 DEF Loaded
<1> QED BY <1>4, <1>5

\* The broker, loaded, still fits.
LEMMA LoadedFits ==
  ASSUME NEW g, TokensFit(rows, g, broker.parked), BrokerFits(rows, g, broker)
  PROVE  BrokerFits(rows, g, Loaded) /\ Loaded.parked = broker.parked
<1>1. UsableOf(rows) \in SUBSET TokenRows /\ broker.parked \in Nat /\ broker.parked <= g /\ g \in Nat
  BY DEF TokensFit, BrokerFits, Brokers, UsableOf
<1>2. Loaded = [loaded |-> TRUE, gen |-> g, parked |-> broker.parked, rec |-> UsableOf(rows)]
  BY LoadedIs
<1> QED BY <1>1, <1>2 DEF BrokerFits, Brokers

\* Rows that are rewritten under their generations, and made usable by nothing, still fit.
LEMMA RewrittenFits ==
  ASSUME NEW rs, NEW g, NEW park, TokensFit(rs, g, park), NEW f \in [rs -> TokenRows],
         \A r \in rs : f[r].gen = r.gen /\ (Usable(f[r]) => Usable(r)),
         NEW later \in Nat, later <= g, \A r \in rs : Usable(f[r]) => later < g
  PROVE  TokensFit({f[r] : r \in rs}, g, later)
BY DEF TokensFit

\* A refusal of generation k (`on_auth_error`): rows lose their use for k being the last
\* login's, or none does.
LEMMA AuthErrorFits ==
  ASSUME NEW g, TokensFit(rows, g, broker.parked), BrokerFits(rows, g, broker),
         NEW k \in 1 .. g, OnAuthError(k)
  PROVE  /\ TokensFit(rows', g, broker'.parked) /\ BrokerFits(rows', g, broker')
         /\ UsableOf(rows') \subseteq UsableOf(rows)
         /\ k = g => UsableOf(rows') = {}
         /\ k # g => rows' = rows
<1> DEFINE m == [loaded |-> TRUE, gen |-> g, parked |-> broker.parked, rec |-> UsableOf(rows)]
           gens == {x.gen : x \in UsableOf(rows)}
           f == [r \in rows |-> IF r.gen \in gens THEN [r EXCEPT !.state = "needs_reauth"] ELSE r]
<1>1. Loaded = m BY LoadedIs
<1>2. /\ g \in Nat /\ k <= g /\ k \in Nat /\ broker.parked \in Nat /\ broker.parked <= g
      /\ UsableOf(rows) \in SUBSET TokenRows /\ rows \subseteq TokenRows
  BY DEF TokensFit, BrokerFits, Brokers, UsableOf
<1>3. CASE k < g \/ k <= broker.parked
  <2>1. broker' = m /\ rows' = rows BY <1>1, <1>3 DEF OnAuthError
  <2>2. TokensFit(rows', g, broker'.parked) BY <2>1
  <2>3. BrokerFits(rows', g, broker') BY <1>1, <2>1, LoadedFits
  <2>4. k = g => UsableOf(rows') = {}
    BY <1>2, <1>3, <2>1 DEF TokensFit, UsableOf
  <2> QED BY <2>1, <2>2, <2>3, <2>4
<1>4. CASE ~(k < g \/ k <= broker.parked)
  <2>1. /\ rows' = {IF r.gen \in gens THEN [r EXCEPT !.state = "needs_reauth"] ELSE r : r \in rows}
        /\ broker' = [m EXCEPT !.loaded = FALSE, !.parked = k, !.rec = {}]
    BY <1>1, <1>4 DEF OnAuthError
  <2>2. k = g BY <1>2, <1>4
  <2>3. broker' = [loaded |-> FALSE, gen |-> g, parked |-> g, rec |-> {}] BY <2>1, <2>2
  <2>4. rows' = {f[r] : r \in rows} BY <2>1
  <2>5. \A r \in rows : f[r] \in TokenRows /\ f[r].gen = r.gen /\ ~Usable(f[r])
    <3> SUFFICES ASSUME NEW r \in rows
                 PROVE  f[r] \in TokenRows /\ f[r].gen = r.gen /\ ~Usable(f[r])
      OBVIOUS
    <3>1. r \in TokenRows BY <1>2
    <3>2. CASE r.gen \in gens
      <4>1. f[r] = [r EXCEPT !.state = "needs_reauth"] BY <3>2
      <4> HIDE DEF f
      <4> QED BY <3>1, <4>1 DEF TokenRows, RowStates, Usable
    <3>3. CASE r.gen \notin gens
      <4>1. f[r] = r BY <3>3
      <4>2. ~Usable(r) BY <3>3 DEF UsableOf
      <4> HIDE DEF f, gens
      <4> QED BY <3>1, <4>1, <4>2
    <3> QED BY <3>2, <3>3
  <2> HIDE DEF f, gens
  <2>6. f \in [rows -> TokenRows] BY <2>5 DEF f
  <2>7. TokensFit(rows', g, g)
    <3>1. \A r \in rows : f[r].gen = r.gen /\ (Usable(f[r]) => Usable(r)) BY <2>5
    <3>2. \A r \in rows : Usable(f[r]) => g < g BY <2>5
    <3>3. g <= g BY <1>2
    <3> QED BY <1>2, <2>4, <2>6, <3>1, <3>2, <3>3, RewrittenFits
  <2>8. UsableOf(rows') = {} BY <2>4, <2>5 DEF UsableOf
  <2>9. BrokerFits(rows', g, broker') BY <1>2, <2>3 DEF BrokerFits, Brokers
  <2>10. broker'.parked = g BY <2>3
  <2> QED BY <2>2, <2>7, <2>8, <2>9, <2>10
<1> QED BY <1>3, <1>4

\* The rows after all of them were revoked (`clear`).
LEMMA RevokedFit ==
  ASSUME NEW rs, NEW g, NEW park, TokensFit(rs, g, park)
  PROVE  /\ TokensFit({Revoked(r) : r \in rs}, g, g)
         /\ UsableOf({Revoked(r) : r \in rs}) = {}
<1> DEFINE f == [r \in rs |-> Revoked(r)]
<1>1. \A r \in rs : f[r] \in TokenRows /\ f[r].gen = r.gen /\ ~Usable(f[r])
  BY DEF TokensFit, TokenRows, RowStates, Revoked, Usable
<1>2. {Revoked(r) : r \in rs} = {f[r] : r \in rs} BY Zenon
<1>3. f \in [rs -> TokenRows] BY <1>1
<1> HIDE DEF f
<1>4. g \in Nat /\ g <= g BY DEF TokensFit
<1>5. TokensFit({f[r] : r \in rs}, g, g) BY <1>1, <1>3, <1>4, RewrittenFits
<1> QED BY <1>1, <1>2, <1>5 DEF UsableOf

\* A login that lands while no logout runs: the next generation, and the only usable row.
LEMMA StoreLoginFits ==
  ASSUME AutomationInv, StoreLogin PROVE TokensInv'
<1>1. PICK g \in 1 .. spent + 1 :
        /\ TokensFit(rows, g, broker.parked) /\ BrokerFits(rows, g, broker)
        /\ reports \subseteq refused /\ refused \subseteq 1 .. g
  BY DEF AutomationInv, TokensInv
<1>2. /\ g \in Nat /\ broker.gen \in 0 .. g /\ spent \in Nat /\ spent < MaxEvents /\ spent' = spent + 1
      /\ MaxEvents \in Nat
  BY <1>1, AutomationAssumption
     DEF StoreLogin, Spend, AutomationInv, WorkInv, TokensFit, BrokerFits, Brokers
<1>3. MaxGeneration = g /\ Max({broker.gen, MaxGeneration}) + 1 = g + 1
  <2>1. Max({0} \cup {r.gen : r \in rows}) = g /\ Max({broker.gen, g}) = g
    BY <1>1, <1>2, GreatestIs
  <2> QED BY <2>1 DEF MaxGeneration
<1>4. PICK exp \in {0, half + TokenLife} :
        /\ rows' = {Revoked(r) : r \in rows} \cup {[gen |-> g + 1, exp |-> exp, state |-> "active"]}
        /\ broker' = [loaded |-> TRUE, gen |-> g + 1, parked |-> 0,
                      rec |-> {[gen |-> g + 1, exp |-> exp, state |-> "active"]}]
        /\ reports' = reports /\ refused' = refused
  BY <1>3 DEF StoreLogin, Saved
<1> DEFINE n == [gen |-> g + 1, exp |-> exp, state |-> "active"]
           old == {Revoked(r) : r \in rows}
<1>5. n \in TokenRows /\ Usable(n) /\ n.gen = g + 1
  <2>1. exp \in Nat /\ g + 1 \in Generations
    <3>1. half \in Nat /\ TokenLife \in Nat BY AutomationAssumption DEF AutomationInv, WorkInv
    <3>2. exp \in Nat BY <3>1
    <3>3. g + 1 \in 1 .. MaxEvents + 1 BY <1>2
    <3> QED BY <3>2, <3>3 DEF Generations
  <2> QED BY <2>1 DEF TokenRows, RowStates, Usable
<1>6. TokensFit(old, g, g) /\ UsableOf(old) = {} BY <1>1, RevokedFit
<1> HIDE DEF n, old
<1>7. rows' = old \cup {n} /\ broker' = [loaded |-> TRUE, gen |-> g + 1, parked |-> 0, rec |-> {n}]
  BY <1>4 DEF n, old
<1>8. TokensFit(rows', g + 1, 0)
  <2>1. rows' \subseteq TokenRows BY <1>5, <1>6, <1>7 DEF TokensFit
  <2>2. \A r \in old : r.gen \in Nat /\ r.gen <= g /\ ~Usable(r)
    BY <1>6 DEF TokensFit, TokenRows, Generations, UsableOf
  <2>3. \A r \in rows' : r.gen <= g + 1 /\ (Usable(r) => r.gen = g + 1 /\ 0 < g + 1)
    BY <1>2, <1>5, <1>7, <2>2
  <2>4. \A r, s \in rows' : r.gen = s.gen => r = s
    <3>1. \A r, s \in old : r.gen = s.gen => r = s BY <1>6 DEF TokensFit
    <3> QED BY <1>2, <1>5, <1>7, <2>2, <3>1
  <2>5. \E r \in rows' : r.gen = g + 1 BY <1>5, <1>7
  <2>6. g + 1 \in Nat /\ 0 \in Nat BY <1>2
  <2> QED BY <2>1, <2>3, <2>4, <2>5, <2>6 DEF TokensFit
<1>9. UsableOf(rows') = {n} BY <1>5, <1>6, <1>7 DEF UsableOf
<1>10. BrokerFits(rows', g + 1, broker')
  <2>1. broker' \in Brokers /\ broker'.gen = g + 1 /\ broker'.parked = 0 /\ broker'.rec = {n}
    BY <1>2, <1>5, <1>7 DEF Brokers
  <2> QED BY <1>2, <1>9, <2>1 DEF BrokerFits
<1>11. broker'.parked = 0 BY <1>7
<1>12. g + 1 \in 1 .. spent' + 1 BY <1>2
<1>13. reports' \subseteq refused' /\ refused' \subseteq 1 .. g + 1 BY <1>1, <1>2, <1>4
<1> QED BY <1>8, <1>10, <1>11, <1>12, <1>13 DEF TokensInv

\* The other steps on the token.  A step of the automation keeps the last login's
\* generation, or stores the next; it makes nothing usable but by a login.
TokenStep ==
  \/ \E g \in reports : OnAuthFailure(g)
  \/ Refuse \/ \E p \in Fires : TokenHealth(p) \/ LogoutParks(p) \/ ScheduledLogout(p)
  \/ \E j \in DOMAIN jobs : Send(j)
  \/ Restart

\* The token or what is remembered of it, in any of those steps.
LEMMA TokenStepFits ==
  ASSUME AutomationInv, TokenStep
  PROVE  TokensInv' /\ UsableOf(rows') \subseteq UsableOf(rows)
<1>1. PICK g \in 1 .. spent + 1 :
        /\ TokensFit(rows, g, broker.parked) /\ BrokerFits(rows, g, broker)
        /\ reports \subseteq refused /\ refused \subseteq 1 .. g
  BY DEF AutomationInv, TokensInv
<1>2. g \in Nat /\ g \in 1 .. g /\ spent \in Nat BY <1>1 DEF AutomationInv, WorkInv
<1>3. Loaded.gen = g /\ Loaded.parked = broker.parked
  BY <1>1, LoadedIs
<1>4. TokensFit(rows, g, Loaded.parked) /\ BrokerFits(rows, g, Loaded)
  BY <1>1, <1>3, LoadedFits
<1>5. ASSUME spent' = spent \/ spent' = spent + 1, reports' = reports \/ reports' = {},
             refused' = refused, TokensFit(rows', g, broker'.parked), BrokerFits(rows', g, broker')
      PROVE  TokensInv'
  <2>1. g \in 1 .. spent' + 1 BY <1>1, <1>2, <1>5
  <2>2. reports' \subseteq refused' /\ refused' \subseteq 1 .. g BY <1>1, <1>5
  <2> QED BY <1>5, <2>1, <2>2 DEF TokensInv
<1>6. ASSUME NEW k \in 1 .. g, OnAuthError(k), spent' = spent, reports' = reports, refused' = refused
      PROVE  TokensInv' /\ UsableOf(rows') \subseteq UsableOf(rows)
  <2>1. /\ TokensFit(rows', g, broker'.parked) /\ BrokerFits(rows', g, broker')
        /\ UsableOf(rows') \subseteq UsableOf(rows)
    BY <1>1, <1>6, AuthErrorFits
  <2> QED BY <1>5, <1>6, <2>1
<1>7. ASSUME broker' = Loaded, rows' = rows, spent' = spent, reports' = reports, refused' = refused
      PROVE  TokensInv' /\ UsableOf(rows') \subseteq UsableOf(rows)
  BY <1>4, <1>5, <1>7
<1>8. ASSUME NEW k \in reports, OnAuthFailure(k)
      PROVE  TokensInv' /\ UsableOf(rows') \subseteq UsableOf(rows)
  <2>1. k \in 1 .. g BY <1>1, <1>8
  <2> QED BY <1>6, <1>8, <2>1 DEF OnAuthFailure
<1>9. ASSUME Refuse PROVE TokensInv' /\ UsableOf(rows') \subseteq UsableOf(rows)
  <2>1. /\ rows' = rows /\ broker' = Loaded /\ spent' = spent + 1
        /\ reports' = reports \cup {g} /\ refused' = refused \cup {g}
    BY <1>3, <1>9 DEF Refuse, Spend
  <2>2. reports' \subseteq refused' /\ refused' \subseteq 1 .. g BY <1>1, <1>2, <2>1
  <2>3. g \in 1 .. spent' + 1 BY <1>1, <1>2, <2>1
  <2>4. TokensFit(rows', g, broker'.parked) /\ BrokerFits(rows', g, broker')
    BY <1>4, <2>1
  <2>5. TokensInv' BY <2>2, <2>3, <2>4 DEF TokensInv
  <2> QED BY <2>1, <2>5
<1>10. ASSUME NEW p \in Fires, TokenHealth(p)
       PROVE  TokensInv' /\ UsableOf(rows') \subseteq UsableOf(rows)
  <2>1. spent' = spent /\ reports' = reports /\ refused' = refused BY <1>10 DEF TokenHealth
  <2>2. OnAuthError(g) \/ (broker' = Loaded /\ rows' = rows) BY <1>3, <1>10 DEF TokenHealth
  <2> QED BY <1>2, <1>6, <1>7, <2>1, <2>2
<1>11. ASSUME NEW p \in Fires, LogoutParks(p)
       PROVE  TokensInv' /\ UsableOf(rows') \subseteq UsableOf(rows)
  <2>1. spent' = spent /\ reports' = reports /\ refused' = refused BY <1>11 DEF LogoutParks
  <2>2. OnAuthError(g) \/ (broker' = Loaded /\ rows' = rows) BY <1>3, <1>11 DEF LogoutParks
  <2> QED BY <1>2, <1>6, <1>7, <2>1, <2>2
<1>12. ASSUME NEW p \in Fires, ScheduledLogout(p)
       PROVE  TokensInv' /\ UsableOf(rows') \subseteq UsableOf(rows)
  <2>1. spent' = spent /\ reports' = reports /\ refused' = refused /\ Clear
    BY <1>12 DEF ScheduledLogout
  <2>2. MaxGeneration = g /\ broker.gen \in 0 .. g BY <1>1, LoadedIs DEF BrokerFits, Brokers, TokensFit
  <2>3. Max({broker.gen, MaxGeneration}) = g BY <1>1, <2>2, GreatestIs
  <2>4. /\ rows' = {Revoked(r) : r \in rows}
        /\ broker' = [loaded |-> FALSE, gen |-> g, parked |-> g, rec |-> {}]
    BY <2>1, <2>3 DEF Clear
  <2>5. TokensFit(rows', g, broker'.parked) /\ UsableOf(rows') = {} BY <1>1, <2>4, RevokedFit
  <2>6. BrokerFits(rows', g, broker') BY <1>2, <2>4 DEF BrokerFits, Brokers
  <2> QED BY <1>5, <2>1, <2>5, <2>6
<1>13. ASSUME NEW j \in DOMAIN jobs, Send(j)
       PROVE  TokensInv' /\ UsableOf(rows') \subseteq UsableOf(rows)
  BY <1>7, <1>13 DEF Send
<1>14. ASSUME Restart PROVE TokensInv' /\ UsableOf(rows') \subseteq UsableOf(rows)
  <2>1. rows' = rows /\ broker' = NotLoaded /\ spent' = spent + 1 /\ reports' = {} /\ refused' = refused
    BY <1>14 DEF Restart, Spend
  <2>2. TokensFit(rows', g, broker'.parked)
    <3>1. broker'.parked = 0 BY <2>1 DEF NotLoaded
    <3>2. broker.parked \in Nat BY <1>1 DEF TokensFit
    <3>3. TokensFit(rows, g, 0) BY <1>1, <3>2 DEF TokensFit
    <3> QED BY <2>1, <3>1, <3>3
  <2>3. BrokerFits(rows', g, broker') BY <1>2, <2>1 DEF BrokerFits, Brokers, NotLoaded
  <2> QED BY <1>5, <2>1, <2>2, <2>3
<1> QED BY <1>8, <1>9, <1>10, <1>11, <1>12, <1>13, <1>14 DEF TokenStep

\* A step that leaves the token alone, and may count an event.
OffToken == UNCHANGED tokens /\ (spent' = spent \/ spent' = spent + 1)

\* Such a step keeps what is said of the token.
LEMMA OffTokenFits == ASSUME AutomationInv, OffToken PROVE TokensInv' /\ rows' = rows
<1>1. spent \in Nat BY DEF AutomationInv, WorkInv
<1>2. PICK g \in 1 .. spent + 1 :
        /\ TokensFit(rows, g, broker.parked) /\ BrokerFits(rows, g, broker)
        /\ reports \subseteq refused /\ refused \subseteq 1 .. g
  BY DEF AutomationInv, TokensInv
<1>3. /\ TokensFit(rows', g, broker'.parked) /\ BrokerFits(rows', g, broker')
      /\ reports' \subseteq refused' /\ refused' \subseteq 1 .. g /\ rows' = rows
  BY <1>2 DEF OffToken, tokens
<1>4. g \in 1 .. spent' + 1 BY <1>1, <1>2 DEF OffToken
<1> QED BY <1>3, <1>4 DEF TokensInv

\* Every step is a login, one on the token, or leaves it alone.
LEMMA StepsOnTheToken ==
  ASSUME [Next]_vars PROVE StoreLogin \/ TokenStep \/ OffToken
<1>1. CASE \E e \in Routes :
             \/ \E id \in Own, cron \in Crons : CreateSchedule(e, id, cron)
             \/ \E id \in Edited, cron \in Crons, on \in BOOLEAN : UpdateSchedule(e, id, cron, on)
             \/ \E id \in Own : DeleteSchedule(e, id)
             \/ Sync(e)
  BY <1>1 DEF CreateSchedule, UpdateSchedule, DeleteSchedule, Change, Sync, RemoveAllJobs, AddJobs,
              WriteNextFireTimes, OffToken, Spend, work
<1>2. CASE \E id \in Ids : FireFromTrigger(id) \/ RunNow(id)
  BY <1>2 DEF FireFromTrigger, RunNow, OffToken, Spend
<1>3. CASE \E p \in Fires : FireStep(p)
  BY <1>3 DEF FireStep, EnterFire, PlanAndCreate, SweepDone, RefreshDay, ReleaseDeferred, TokenStep,
              OffToken, Spend, schedules
<1>4. CASE DeferToTomorrow \/ Tick
  BY <1>4 DEF DeferToTomorrow, Tick, OffToken, Spend, schedules
<1>5. CASE UNCHANGED vars
  BY <1>5 DEF vars, OffToken, work
<1> QED BY <1>1, <1>2, <1>3, <1>4, <1>5 DEF Next, TokenStep

\* A row that is there has a time and a switch.
LEMMA ThereIs ==
  ASSUME NEW r \in ScheduleRows, r.there
  PROVE  r \in [there : {TRUE}, cron : Crons, on : BOOLEAN]
<1>1. CASE r = Absent
  <2>1. Absent.there = FALSE BY DEF Absent
  <2> QED BY <1>1, <2>1
<1>2. CASE r # Absent BY <1>2 DEF ScheduleRows
<1> QED BY <1>1, <1>2

Places == {Resting} \cup Waiting \cup InHand
\* A fire that moves on to another place, of its own schedule.
LEMMA FireMoves ==
  ASSUME FireInv, NEW p \in Fires, NEW v \in Places, v = Resting \/ p = "button" \/ v.id = p,
         fire' = [fire EXCEPT ![p] = v]
  PROVE  FireInv' /\ fire'[p] = v /\ \A q \in Fires : q # p => fire'[q] = fire[q]
<1>1. fire \in [Fires -> Places] BY DEF FireInv, Places
<1> HIDE DEF Places
<1>2. /\ fire' \in [Fires -> Places] /\ fire'[p] = v
      /\ \A q \in Fires : q # p => fire'[q] = fire[q]
  BY <1>1
<1>3. ASSUME NEW q \in Ids, fire'[q].step # "idle" PROVE fire'[q].id = q
  <2>1. q \in Fires /\ q # "button"
    BY AutomationAssumption DEF Fires, Ids, Builtins
  <2> QED BY <1>2, <1>3, <2>1 DEF FireInv, Resting
<1> QED BY <1>2, <1>3 DEF FireInv, Places

\* A fire in hand has an action, of a schedule, and how much of it is left.
LEMMA ActingIs ==
  ASSUME FireInv, NEW p \in Fires, fire[p].step = "acting"
  PROVE  fire[p] \in InHand /\ (p = "button" \/ fire[p].id = p)
<1>1. fire[p] \in {Resting} \cup Waiting \cup InHand BY DEF FireInv
<1>2. fire[p] \in InHand BY <1>1 DEF Resting, Waiting
<1> QED BY <1>2 DEF FireInv, Fires

\* The next part of an action.
LEMMA ProceedMoves ==
  ASSUME FireInv, NEW p \in Fires, fire[p].step \in {"waiting", "acting"}, NEW n \in Nat,
         Proceed(p, n)
  PROVE  /\ FireInv' /\ \A q \in Fires : q # p => fire'[q] = fire[q]
         /\ fire'[p].id = fire[p].id /\ fire'[p].left = n
<1> DEFINE v == [step |-> "acting", id |-> fire[p].id, at |-> fire[p].at, left |-> n]
<1>1. fire[p] \in {Resting} \cup Waiting \cup InHand BY DEF FireInv
<1>2. fire[p] \in Waiting \cup InHand BY <1>1 DEF Resting
<1>3. fire[p].id \in Ids /\ fire[p].at \in Nat /\ (p = "button" \/ fire[p].id = p)
  BY <1>2 DEF Waiting, InHand, FireInv, Fires
<1>4. fire' = [fire EXCEPT ![p] = v] BY DEF Proceed
<1>5. v \in Places /\ v.id = fire[p].id /\ v.left = n BY <1>3 DEF Places, InHand
<1> HIDE DEF v
<1> QED BY <1>3, <1>4, <1>5, FireMoves

\* An action that is over, or a fire that was skipped.
LEMMA RecordedMoves ==
  ASSUME FireInv, NEW p \in Fires, Recorded(p)
  PROVE  /\ FireInv' /\ \A q \in Fires : q # p => fire'[q] = fire[q]
         /\ fire'[p] = Resting
<1>1. Resting \in Places BY DEF Places
<1>2. fire' = [fire EXCEPT ![p] = Resting] BY DEF Recorded
<1> QED BY <1>1, <1>2, FireMoves

\* What a step leaves of the fires.
LEMMA FiresStep == ASSUME AutomationInv, [Next]_vars PROVE FireInv'
<1> USE DEF AutomationInv
<1>0. /\ half \in Nat /\ table \in [Ids -> ScheduleRows] /\ Sheets \in Nat
  BY AutomationAssumption DEF WorkInv, SchedulesShape
<1>1. ASSUME UNCHANGED fire PROVE FireInv' BY <1>1 DEF FireInv
<1>2. ASSUME NEW p \in Fires, NEW id \in Ids, p = "button" \/ p = id, Called(p, id) PROVE FireInv'
  <2> DEFINE v == IF table[id].there
                    THEN [step |-> "waiting", id |-> id, on |-> table[id].on, at |-> half]
                    ELSE Resting
  <2>1. fire' = [fire EXCEPT ![p] = v] BY <1>2 DEF Called
  <2>2. v \in Places /\ (v = Resting \/ p = "button" \/ v.id = p)
    <3>1. CASE table[id].there
      <4>1. table[id].on \in BOOLEAN
        <5>1. table[id] \in ScheduleRows BY <1>0
        <5>2. table[id] \in [there : {TRUE}, cron : Crons, on : BOOLEAN]
          BY <3>1, <5>1, ThereIs
        <5> QED BY <5>2
      <4> QED BY <1>0, <1>2, <3>1, <4>1 DEF Places, Waiting
    <3>2. CASE ~table[id].there BY <3>2 DEF Places
    <3> QED BY <3>1, <3>2
  <2> HIDE DEF v
  <2> QED BY <2>1, <2>2, FireMoves
<1>3. ASSUME NEW p \in Fires, Recorded(p) PROVE FireInv' BY <1>3, RecordedMoves
<1>4. ASSUME NEW p \in Fires, NEW n \in Nat, Proceed(p, n), fire[p].step \in {"waiting", "acting"}
      PROVE  FireInv'
  BY <1>4, ProceedMoves
<1>5. ASSUME NEW p \in Fires, FireStep(p) PROVE FireInv'
  <2>1. CASE EnterFire(p)
    <3> DEFINE n == IF fire[p].id \in Own THEN Sheets ELSE 2
    <3>1. Recorded(p) \/ Proceed(p, n) BY <2>1 DEF EnterFire
    <3>2. n \in Nat /\ fire[p].step = "waiting" BY <1>0, <2>1 DEF EnterFire
    <3> HIDE DEF n
    <3> QED BY <1>3, <1>4, <3>1, <3>2
  <2>2. CASE PlanAndCreate(p)
    <3>1. fire[p].step = "acting" /\ fire[p].left > 0 BY <2>2 DEF PlanAndCreate, Acting
    <3>2. fire[p] \in InHand BY <3>1, ActingIs
    <3>3. fire[p].left - 1 \in Nat BY <3>1, <3>2 DEF InHand
    <3>4. Recorded(p) \/ Proceed(p, fire[p].left - 1) BY <2>2 DEF PlanAndCreate
    <3> QED BY <1>3, <1>4, <3>1, <3>3, <3>4
  <2>3. CASE SweepDone(p) \/ TokenHealth(p) \/ ScheduledLogout(p) \/ ReleaseDeferred(p)
    BY <1>3, <2>3 DEF SweepDone, TokenHealth, ScheduledLogout, ReleaseDeferred
  <2>4. CASE LogoutParks(p) \/ RefreshDay(p)
    <3>1. Recorded(p) \/ Proceed(p, 1) BY <2>4 DEF LogoutParks, RefreshDay
    <3>2. fire[p].step = "acting" /\ 1 \in Nat BY <2>4 DEF LogoutParks, RefreshDay, Acting
    <3> QED BY <1>3, <1>4, <3>1, <3>2
  <2> QED BY <1>5, <2>1, <2>2, <2>3, <2>4 DEF FireStep
<1>6. ASSUME NEW id \in Ids, FireFromTrigger(id) \/ RunNow(id) PROVE FireInv'
  <2>1. id \in Fires /\ "button" \in Fires BY DEF Fires
  <2>2. Called(id, id) \/ Called("button", id) BY <1>6 DEF FireFromTrigger, RunNow
  <2> QED BY <1>2, <2>1, <2>2
<1>7. ASSUME Restart PROVE FireInv'
  <2>1. fire' = [p \in Fires |-> Resting] BY <1>7 DEF Restart
  <2> QED BY <2>1 DEF FireInv, Resting, Fires
<1>8. CASE UNCHANGED fire BY <1>1, <1>8
<1>9. \/ \E p \in Fires : FireStep(p)
      \/ \E id \in Ids : FireFromTrigger(id) \/ RunNow(id)
      \/ Restart \/ UNCHANGED fire
  BY DEF Next, vars, StoreLogin, Refuse, OnAuthFailure, CreateSchedule, UpdateSchedule,
         DeleteSchedule, Change, Sync, RemoveAllJobs, AddJobs, WriteNextFireTimes,
         DeferToTomorrow, Send, Tick
<1> QED BY <1>5, <1>6, <1>7, <1>8, <1>9

\* The triggers that `sync` installs are those of the enabled rows.
LEMMA InstallMirrors ==
  ASSUME NEW t \in [Ids -> ScheduleRows]
  PROVE  /\ Mirrors(Install(t), t) /\ DOMAIN Install(t) \subseteq Ids
         /\ Install(t) \in [DOMAIN Install(t) -> TriggerRows]
         /\ DOMAIN Install(t) = Enabled(t)
<1>1. DOMAIN Install(t) = Enabled(t) BY DEF Install, Enabled
<1>2. ASSUME NEW i \in Enabled(t)
      PROVE  Install(t)[i] = [cron |-> t[i].cron, due |-> FALSE] /\ t[i].cron \in Crons
  <2>1. t[i] \in ScheduleRows /\ t[i].there BY <1>2 DEF Enabled
  <2>2. t[i] \in [there : {TRUE}, cron : Crons, on : BOOLEAN] BY <2>1, ThereIs
  <2>3. Install(t)[i] = [cron |-> t[i].cron, due |-> FALSE] BY <1>2 DEF Install, Enabled
  <2> QED BY <2>2, <2>3
<1>3. Install(t) = [i \in Enabled(t) |-> Install(t)[i]] BY DEF Install, Enabled
<1>4. Install(t) \in [Enabled(t) -> TriggerRows]
  <2>1. ASSUME NEW i \in Enabled(t) PROVE Install(t)[i] \in TriggerRows
    <3>1. Install(t)[i] = [cron |-> t[i].cron, due |-> FALSE] /\ t[i].cron \in Crons BY <1>2
    <3> QED BY <3>1 DEF TriggerRows
  <2> QED BY <1>3, <2>1
<1>5. ASSUME NEW i \in Enabled(t) PROVE Install(t)[i].cron = t[i].cron
  <2>1. Install(t)[i] = [cron |-> t[i].cron, due |-> FALSE] BY <1>2
  <2> QED BY <2>1
<1> QED BY <1>1, <1>4, <1>5 DEF Mirrors, Enabled

\* A step that changes only what is due.
LEMMA DueOnly ==
  ASSUME OneChange, UNCHANGED <<table, route, shown>>,
         triggers' \in [DOMAIN triggers -> TriggerRows],
         \A i \in DOMAIN triggers : triggers'[i].cron = triggers[i].cron
  PROVE  OneChange'
<1>1. DOMAIN triggers' = DOMAIN triggers OBVIOUS
<1>2. \A t : Mirrors(triggers, t) => Mirrors(triggers', t) BY <1>1 DEF Mirrors
<1>3. triggers' \in [DOMAIN triggers' -> TriggerRows] BY <1>1
<1> QED BY <1>1, <1>2, <1>3 DEF OneChange

\* Their shape, whatever overlaps.
LEMMA ShapeStep == ASSUME SchedulesShape, [Next]_vars PROVE SchedulesShape'
<1> USE DEF SchedulesShape
<1>0. \A v \in RouteStates, e \in Routes : [route EXCEPT ![e] = v] \in [Routes -> RouteStates]
  OBVIOUS
<1>1. ASSUME NEW e \in Routes, NEW id \in Ids, NEW row \in ScheduleRows,
             id \in Builtins => row.there, Change(e, id, row)
      PROVE  SchedulesShape'
  <2>1. /\ table' = [table EXCEPT ![id] = row] /\ UNCHANGED <<triggers, shown>> /\ met' \in BOOLEAN
        /\ route' = [route EXCEPT ![e] = [step |-> "committed"]]
    BY <1>1 DEF Change
  <2>2. [step |-> "committed"] \in RouteStates BY DEF RouteStates
  <2>3. route' \in [Routes -> RouteStates] BY <1>0, <2>1, <2>2
  <2>4. table' \in [Ids -> ScheduleRows] /\ \A i \in Builtins : table'[i].there
    <3>1. Builtins \subseteq Ids BY DEF Ids
    <3> QED BY <1>1, <2>1, <3>1
  <2> QED BY <2>1, <2>3, <2>4
<1>2. ASSUME NEW e \in Routes, NEW id \in Own, NEW cron \in Crons, CreateSchedule(e, id, cron)
      PROVE  SchedulesShape'
  <2>1. Row(cron, TRUE) \in ScheduleRows /\ Row(cron, TRUE).there /\ id \in Ids
    BY DEF ScheduleRows, Row, Ids
  <2>2. Change(e, id, Row(cron, TRUE)) BY <1>2 DEF CreateSchedule
  <2> HIDE DEF SchedulesShape
  <2> QED BY <1>1, <2>1, <2>2
<1>3. ASSUME NEW e \in Routes, NEW id \in Edited, NEW cron \in Crons, NEW on \in BOOLEAN,
             UpdateSchedule(e, id, cron, on)
      PROVE  SchedulesShape'
  <2>1. Row(cron, on) \in ScheduleRows /\ Row(cron, on).there /\ id \in Ids
    BY AutomationAssumption DEF ScheduleRows, Row
  <2>2. Change(e, id, Row(cron, on)) BY <1>3 DEF UpdateSchedule
  <2> HIDE DEF SchedulesShape
  <2> QED BY <1>1, <2>1, <2>2
<1>4. ASSUME NEW e \in Routes, NEW id \in Own, DeleteSchedule(e, id) PROVE SchedulesShape'
  <2>1. Absent \in ScheduleRows /\ id \in Ids /\ id \notin Builtins
    BY <1>4 DEF ScheduleRows, Ids, DeleteSchedule
  <2>2. Change(e, id, Absent) BY <1>4 DEF DeleteSchedule
  <2> HIDE DEF SchedulesShape
  <2> QED BY <1>1, <2>1, <2>2
<1>5. ASSUME NEW e \in Routes, RemoveAllJobs(e) PROVE SchedulesShape'
  <2>1. /\ triggers' = <<>> /\ UNCHANGED <<table, shown, met>>
        /\ route' = [route EXCEPT ![e] = [step |-> "listed", of |-> table]]
    BY <1>5 DEF RemoveAllJobs
  <2>2. [step |-> "listed", of |-> table] \in RouteStates BY DEF RouteStates
  <2>3. route' \in [Routes -> RouteStates] BY <1>0, <2>1, <2>2
  <2>4. DOMAIN triggers' = {} /\ triggers' \in [DOMAIN triggers' -> TriggerRows] BY <2>1
  <2> QED BY <2>1, <2>3, <2>4
<1>6. ASSUME NEW e \in Routes, AddJobs(e) PROVE SchedulesShape'
  <2> DEFINE new == Install(route[e].of)
  <2>1. /\ triggers' = [i \in (DOMAIN triggers) \cup (DOMAIN new) |->
                          IF i \in DOMAIN new THEN new[i] ELSE triggers[i]]
        /\ route' = [route EXCEPT ![e] = [step |-> "added"]] /\ UNCHANGED <<table, shown, met>>
    BY <1>6 DEF AddJobs
  <2>2. [step |-> "added"] \in RouteStates BY DEF RouteStates
  <2>3. route' \in [Routes -> RouteStates] BY <1>0, <2>1, <2>2
  <2>4. route[e].of \in [Ids -> ScheduleRows]
    BY <1>6 DEF RouteStates, Resting, AddJobs
  <2>5. DOMAIN new \subseteq Ids /\ new \in [DOMAIN new -> TriggerRows]
    BY <2>4, InstallMirrors
  <2> HIDE DEF new
  <2>6. DOMAIN triggers' \subseteq Ids /\ triggers' \in [DOMAIN triggers' -> TriggerRows]
    BY <2>1, <2>5
  <2> QED BY <2>1, <2>3, <2>6
<1>7. ASSUME NEW e \in Routes, WriteNextFireTimes(e) PROVE SchedulesShape'
  <2>1. /\ route' = [route EXCEPT ![e] = Resting] /\ UNCHANGED <<table, triggers, met>>
        /\ shown' \subseteq DOMAIN triggers
    BY <1>7 DEF WriteNextFireTimes
  <2>2. Resting \in RouteStates BY DEF RouteStates
  <2>3. route' \in [Routes -> RouteStates] BY <1>0, <2>1, <2>2
  <2> QED BY <2>1, <2>3
<1>8. ASSUME NEW id \in Ids, FireFromTrigger(id) PROVE SchedulesShape'
  <2>1. /\ id \in DOMAIN triggers /\ triggers' = [triggers EXCEPT ![id].due = FALSE]
        /\ UNCHANGED <<table, route, shown, met>>
    BY <1>8 DEF FireFromTrigger
  <2>2. triggers[id] \in TriggerRows BY <2>1
  <2>3. [triggers[id] EXCEPT !.due = FALSE] \in TriggerRows BY <2>2 DEF TriggerRows
  <2>4. triggers' = [triggers EXCEPT ![id] = [triggers[id] EXCEPT !.due = FALSE]] BY <2>1
  <2>5. triggers' \in [DOMAIN triggers -> TriggerRows] BY <2>1, <2>3, <2>4
  <2> QED BY <2>1, <2>5
<1>9. ASSUME Tick PROVE SchedulesShape'
  <2>1. /\ triggers' = [i \in DOMAIN triggers |-> [cron |-> triggers[i].cron,
                                                  due |-> triggers[i].cron = HalfOf(half + 1)]]
        /\ UNCHANGED <<table, route, shown, met>>
    BY <1>9 DEF Tick
  <2>2. \A i \in DOMAIN triggers : triggers[i].cron \in Crons BY DEF TriggerRows
  <2>3. \A i \in DOMAIN triggers : triggers'[i] \in TriggerRows BY <2>1, <2>2 DEF TriggerRows
  <2>4. triggers' \in [DOMAIN triggers -> TriggerRows] BY <2>1, <2>3
  <2> QED BY <2>1, <2>4
<1>10. ASSUME Restart PROVE SchedulesShape'
  <2>1. /\ table' = table /\ triggers' = Install(table) /\ shown' = DOMAIN Install(table)
        /\ route' = [e \in Routes |-> Resting] /\ met' = FALSE
    BY <1>10 DEF Restart
  <2>2. DOMAIN Install(table) \subseteq Ids /\ Install(table) \in [DOMAIN Install(table) -> TriggerRows]
    BY InstallMirrors
  <2>3. Resting \in RouteStates BY DEF RouteStates
  <2> QED BY <2>1, <2>2, <2>3
<1>11. CASE UNCHANGED schedules BY <1>11 DEF schedules
<1>12. \/ \E e \in Routes :
          \/ \E id \in Own, cron \in Crons : CreateSchedule(e, id, cron)
          \/ \E id \in Edited, cron \in Crons, on \in BOOLEAN : UpdateSchedule(e, id, cron, on)
          \/ \E id \in Own : DeleteSchedule(e, id)
          \/ RemoveAllJobs(e) \/ AddJobs(e) \/ WriteNextFireTimes(e)
       \/ \E id \in Ids : FireFromTrigger(id)
       \/ Tick \/ Restart \/ UNCHANGED schedules
  <2> HIDE DEF SchedulesShape
  <2> QED
    BY DEF Next, vars, Sync, StoreLogin, Refuse, OnAuthFailure, RunNow, FireStep, EnterFire,
           PlanAndCreate, SweepDone, TokenHealth, LogoutParks, ScheduledLogout, RefreshDay,
           ReleaseDeferred, DeferToTomorrow, Send
<1> HIDE DEF SchedulesShape
<1> QED BY <1>2, <1>3, <1>4, <1>5, <1>6, <1>7, <1>8, <1>9, <1>10, <1>11, <1>12

\* A change of the table is under way: it is the only one.
RouteIs(e, v) ==
  /\ route' = [route EXCEPT ![e] = v]
  /\ \A o \in Routes : o # e => route[o] = Resting

\* The route that moves, all others resting.
LEMMA RouteMoves ==
  ASSUME SchedulesShape, NEW e \in Routes, NEW v, RouteIs(e, v)
  PROVE  /\ route'[e] = v /\ \A o \in Routes : o # e => route'[o] = Resting
         /\ \A s : Resting \in s /\ v \in s => route' \in [Routes -> s]
<1>1. route = [o \in Routes |-> route[o]] /\ DOMAIN route = Routes BY DEF SchedulesShape
<1>2. /\ route'[e] = v /\ \A o \in Routes : o # e => route'[o] = Resting
      /\ route' = [o \in Routes |-> IF o = e THEN v ELSE route[o]]
  BY <1>1 DEF RouteIs
<1>3. \A o \in Routes : route'[o] \in {v, Resting} BY <1>2
<1> QED BY <1>2, <1>3

\* What a route rests at when it is not changing anything.
LEMMA IdleRests ==
  ASSUME SchedulesShape, NEW o \in Routes, route[o].step = "idle" PROVE route[o] = Resting
<1>1. route[o] \in RouteStates BY DEF SchedulesShape
<1> QED BY <1>1 DEF RouteStates

\* A change that meets no other: the row is committed, and the triggers are still those of
\* the old table, or whatever changes that met before have left.
LEMMA ChangeStep ==
  ASSUME SchedulesShape, SchedulesShape', NEW e \in Routes, NEW id \in Ids, NEW row, Change(e, id, row),
         ~met'
  PROVE  OneChange'
<1>1. /\ route' = [route EXCEPT ![e] = [step |-> "committed"]]
      /\ \A o \in Routes : route[o].step = "idle"
  BY DEF Change
<1> DEFINE states == {Resting, [step |-> "committed"], [step |-> "added"],
                      [step |-> "listed", of |-> table']}
<1>2. RouteIs(e, [step |-> "committed"]) BY <1>1, IdleRests DEF RouteIs
<1>3. /\ route'[e] = [step |-> "committed"] /\ \A o \in Routes : o # e => route'[o] = Resting
      /\ route' \in [Routes -> states]
  <2>1. Resting \in states /\ [step |-> "committed"] \in states OBVIOUS
  <2> HIDE DEF states
  <2> QED BY <1>2, <2>1, RouteMoves
<1>4. /\ \A o, x \in Routes : route'[o].step # "idle" /\ route'[x].step # "idle" => o = x
      /\ \A o \in Routes : route'[o].step \notin {"listed", "added"}
      /\ ~\A o \in Routes : route'[o].step = "idle"
  BY <1>3 DEF Resting
<1> QED BY <1>3, <1>4 DEF OneChange, SchedulesShape

\* Everything is removed; then the triggers are added; then their times are written.
LEMMA SyncStep ==
  ASSUME SchedulesShape, OneChange, NEW e \in Routes, Sync(e) PROVE OneChange'
<1>0. route[e].step # "idle" /\ table' = table /\ table \in [Ids -> ScheduleRows]
  BY DEF Sync, RemoveAllJobs, AddJobs, WriteNextFireTimes, OneChange
<1>1. \A o \in Routes : o # e => route[o] = Resting
  <2>1. \A o \in Routes : o # e => route[o].step = "idle" BY <1>0 DEF OneChange
  <2> QED BY <2>1, IdleRests
<1>2. ASSUME NEW v \in {[step |-> "added"], [step |-> "listed", of |-> table], Resting},
             route' = [route EXCEPT ![e] = v]
      PROVE  /\ route' \in [Routes -> {Resting, [step |-> "committed"], [step |-> "added"],
                                     [step |-> "listed", of |-> table']}]
             /\ route'[e] = v /\ \A o \in Routes : o # e => route'[o] = Resting
             /\ \A o, x \in Routes : route'[o].step # "idle" /\ route'[x].step # "idle" => o = x
  <2>1. RouteIs(e, v) BY <1>1, <1>2 DEF RouteIs
  <2>2. /\ route'[e] = v /\ \A o \in Routes : o # e => route'[o] = Resting
        /\ route' \in [Routes -> {Resting, [step |-> "committed"], [step |-> "added"],
                                [step |-> "listed", of |-> table']}]
    BY <1>0, <2>1, RouteMoves
  <2> QED BY <2>2 DEF Resting
<1>3. CASE RemoveAllJobs(e)
  <2>1. /\ triggers' = <<>> /\ shown' = shown
        /\ route' = [route EXCEPT ![e] = [step |-> "listed", of |-> table]]
    BY <1>3 DEF RemoveAllJobs
  <2>2. DOMAIN triggers' = {} /\ triggers' \in [DOMAIN triggers' -> TriggerRows] BY <2>1
  <2>3. /\ route'[e].step = "listed" /\ \A o \in Routes : o # e => route'[o].step = "idle"
    BY <1>2, <2>1 DEF Resting
  <2> QED BY <1>0, <1>2, <2>1, <2>2, <2>3 DEF OneChange
<1>4. CASE AddJobs(e)
  <2>1. route[e].step = "listed" BY <1>4 DEF AddJobs
  <2>2. route[e].of = table /\ DOMAIN triggers = {}
    <3>1. route[e] \in {Resting, [step |-> "committed"], [step |-> "added"],
                        [step |-> "listed", of |-> table]}
      BY DEF OneChange
    <3>2. route[e] = [step |-> "listed", of |-> table] BY <2>1, <3>1 DEF Resting
    <3> QED BY <2>1, <3>2 DEF OneChange
  <2> DEFINE new == Install(table)
  <2>3. triggers' = [i \in DOMAIN triggers \cup DOMAIN new |->
                       IF i \in DOMAIN new THEN new[i] ELSE triggers[i]]
    BY <1>4, <2>2 DEF AddJobs
  <2>4. Mirrors(new, table) /\ DOMAIN new \subseteq Ids /\ new \in [DOMAIN new -> TriggerRows]
    BY <1>0, InstallMirrors
  <2> HIDE DEF new
  <2>5. triggers' = new BY <2>2, <2>3, <2>4
  <2>6. shown' = shown /\ route' = [route EXCEPT ![e] = [step |-> "added"]] BY <1>4 DEF AddJobs
  <2>7. /\ route'[e].step = "added" /\ \A o \in Routes : o # e => route'[o].step = "idle"
    BY <1>2, <2>6 DEF Resting
  <2> QED BY <1>0, <1>2, <2>4, <2>5, <2>6, <2>7 DEF OneChange
<1>5. CASE WriteNextFireTimes(e)
  <2>1. /\ route[e].step = "added" /\ shown' = {i \in DOMAIN triggers : table[i].there}
        /\ route' = [route EXCEPT ![e] = Resting] /\ triggers' = triggers
    BY <1>5 DEF WriteNextFireTimes
  <2>2. Mirrors(triggers, table) BY <2>1 DEF OneChange
  <2>3. shown' = DOMAIN triggers BY <2>1, <2>2 DEF Mirrors, Enabled
  <2>4. \A o \in Routes : route'[o].step = "idle" BY <1>2, <2>1 DEF Resting
  <2> QED BY <1>0, <1>2, <2>1, <2>2, <2>3, <2>4 DEF OneChange
<1> QED BY <1>3, <1>4, <1>5 DEF Sync

\* A start installs the triggers of the table.
LEMMA RestartMirrors == ASSUME SchedulesShape, SchedulesShape', Restart PROVE OneChange'
<1>1. /\ table' = table /\ table \in [Ids -> ScheduleRows]
      /\ triggers' = Install(table) /\ shown' = DOMAIN Install(table)
      /\ route' = [e \in Routes |-> Resting]
  BY DEF Restart, SchedulesShape
<1>2. /\ Mirrors(triggers', table') /\ DOMAIN triggers' \subseteq Ids
      /\ triggers' \in [DOMAIN triggers' -> TriggerRows]
  BY <1>1, InstallMirrors
<1>3. \A e \in Routes : route'[e].step = "idle" BY <1>1 DEF Resting
<1>4. route' \in [Routes -> {Resting, [step |-> "committed"], [step |-> "added"],
                            [step |-> "listed", of |-> table']}]
  BY <1>1
<1> QED BY <1>1, <1>2, <1>3, <1>4 DEF OneChange, SchedulesShape

\* The schedules, while no two changes have met: only the edits move them, one at a time.
LEMMA SchedulesStep == ASSUME SchedulesInv, [Next]_vars PROVE SchedulesInv'
<1>s. SchedulesShape /\ SchedulesShape' BY ShapeStep DEF SchedulesInv
<1> SUFFICES ASSUME ~met' PROVE OneChange' BY <1>s DEF SchedulesInv
<1>0. ASSUME met' = met PROVE OneChange BY <1>0 DEF SchedulesInv
<1>1. ASSUME NEW e \in Routes, NEW id \in Ids, NEW row, Change(e, id, row) PROVE OneChange'
  BY <1>s, <1>1, ChangeStep
<1>2. CASE \E e \in Routes :
             \/ \E id \in Own, cron \in Crons : CreateSchedule(e, id, cron)
             \/ \E id \in Edited, cron \in Crons, on \in BOOLEAN : UpdateSchedule(e, id, cron, on)
             \/ \E id \in Own : DeleteSchedule(e, id)
  <2>1. Own \subseteq Ids /\ Edited \subseteq Ids BY AutomationAssumption DEF Ids
  <2>2. PICK e \in Routes :
          \/ \E id \in Own, cron \in Crons : CreateSchedule(e, id, cron)
          \/ \E id \in Edited, cron \in Crons, on \in BOOLEAN : UpdateSchedule(e, id, cron, on)
          \/ \E id \in Own : DeleteSchedule(e, id)
    BY <1>2
  <2>3. \E id \in Ids : \E row : Change(e, id, row)
    BY <2>1, <2>2 DEF CreateSchedule, UpdateSchedule, DeleteSchedule
  <2> QED BY <1>1, <2>3
<1>4. ASSUME NEW e \in Routes, Sync(e) PROVE OneChange'
  <2>1. met' = met BY <1>4 DEF Sync, RemoveAllJobs, AddJobs, WriteNextFireTimes
  <2> QED BY <1>s, <1>0, <1>4, <2>1, SyncStep
<1>5. ASSUME NEW id \in Ids, FireFromTrigger(id) PROVE OneChange'
  <2> DEFINE t == triggers[id]
  <2>1. id \in DOMAIN triggers /\ triggers' = [triggers EXCEPT ![id].due = FALSE]
        /\ UNCHANGED <<table, route, shown, met>>
    BY <1>5 DEF FireFromTrigger
  <2>2. triggers \in [DOMAIN triggers -> TriggerRows] BY <1>s DEF SchedulesShape
  <2>3. triggers' = [triggers EXCEPT ![id] = [t EXCEPT !.due = FALSE]] BY <2>1
  <2>4. [t EXCEPT !.due = FALSE] \in TriggerRows /\ [t EXCEPT !.due = FALSE].cron = t.cron
    BY <2>1, <2>2 DEF TriggerRows
  <2>5. triggers' \in [DOMAIN triggers -> TriggerRows]
    <3> HIDE DEF t
    <3> QED BY <2>1, <2>2, <2>3, <2>4
  <2>6. \A i \in DOMAIN triggers : triggers'[i].cron = triggers[i].cron
    BY <2>1, <2>2, <2>3, <2>4
  <2> QED BY <1>0, <2>1, <2>5, <2>6, DueOnly
<1>6. ASSUME Tick PROVE OneChange'
  <2>1. /\ triggers' = [i \in DOMAIN triggers |-> [cron |-> triggers[i].cron,
                                                  due |-> triggers[i].cron = HalfOf(half + 1)]]
        /\ UNCHANGED <<table, route, shown, met>>
    BY <1>6 DEF Tick
  <2>2. triggers \in [DOMAIN triggers -> TriggerRows] BY <1>s DEF SchedulesShape
  <2>3. \A i \in DOMAIN triggers : triggers[i].cron \in Crons BY <2>2 DEF TriggerRows
  <2>4. \A i \in DOMAIN triggers :
          triggers'[i] \in TriggerRows /\ triggers'[i].cron = triggers[i].cron
    BY <2>1, <2>3 DEF TriggerRows
  <2>5. triggers' \in [DOMAIN triggers -> TriggerRows] BY <2>1, <2>4
  <2> QED BY <1>0, <2>1, <2>4, <2>5, DueOnly
<1>7. CASE Restart BY <1>s, <1>7, RestartMirrors
<1>8. CASE UNCHANGED schedules
  <2>1. UNCHANGED <<table, triggers, shown, route, met>> BY <1>8 DEF schedules
  <2> QED BY <1>0, <2>1 DEF OneChange
<1>9. \/ \E e \in Routes :
         \/ \E id \in Own, cron \in Crons : CreateSchedule(e, id, cron)
         \/ \E id \in Edited, cron \in Crons, on \in BOOLEAN : UpdateSchedule(e, id, cron, on)
         \/ \E id \in Own : DeleteSchedule(e, id)
         \/ Sync(e)
      \/ \E id \in Ids : FireFromTrigger(id)
      \/ Tick \/ Restart \/ UNCHANGED schedules
  BY DEF Next, vars, StoreLogin, Refuse, OnAuthFailure, RunNow, FireStep, EnterFire, PlanAndCreate,
         SweepDone, TokenHealth, LogoutParks, ScheduledLogout, RefreshDay, ReleaseDeferred,
         DeferToTomorrow, Send
<1> QED BY <1>1, <1>2, <1>4, <1>5, <1>6, <1>7, <1>8, <1>9

Budgets == [day : Int, used : 0 .. Daily, swept : Nat]
\* The day of a half is a number.
LEMMA DaysAreNumbers == ASSUME NEW h \in Nat PROVE Day(h) \in Int /\ UtcDay(h) \in Int
BY DEF Day, UtcDay

\* The row of the day (`_roll_day_if_needed`).
LEMMA RolledIs == ASSUME WorkInv PROVE Rolled \in Budgets
<1>1. Day(half) \in Int /\ Daily \in Nat /\ budget \in Budgets
  BY DaysAreNumbers, AutomationAssumption DEF WorkInv, Budgets
<1> QED BY <1>1 DEF Rolled, Budgets

\* Jobs whose rows are rewritten in place stay a sequence of jobs.
LEMMA JobsRewritten ==
  ASSUME jobs \in Seq(JobRows), NEW js, DOMAIN js = DOMAIN jobs, js = [j \in DOMAIN js |-> js[j]],
         \A j \in DOMAIN jobs : js[j] \in JobRows
  PROVE  js \in Seq(JobRows)
<1> HIDE DEF JobRows
<1>1. DOMAIN js = 1 .. Len(jobs) /\ Len(jobs) \in Nat OBVIOUS
<1>2. js \in [1 .. Len(jobs) -> JobRows] BY <1>1
<1> QED BY <1>1, <1>2

\* A job that is queued again, or has a request less to send, is a job.
LEMMA JobMoves ==
  ASSUME NEW j \in JobRows
  PROVE  /\ [j EXCEPT !.status = "queued"] \in JobRows
         /\ j.left > 0 => [j EXCEPT !.left = j.left - 1] \in JobRows
<1>1. j.left \in Nat BY DEF JobRows
<1>2. j.left > 0 => j.left - 1 \in Nat BY <1>1
<1> QED BY <1>2 DEF JobRows

\* The deferred jobs that a day releases.
LEMMA RollKeepsJobs ==
  ASSUME jobs \in Seq(JobRows), NEW today PROVE RollDeferred(today) \in Seq(JobRows)
<1> DEFINE js == RollDeferred(today)
<1>1. DOMAIN js = DOMAIN jobs /\ js = [j \in DOMAIN js |-> js[j]] BY DEF RollDeferred
<1>2. ASSUME NEW j \in DOMAIN jobs PROVE js[j] \in JobRows
  <2>1. jobs[j] \in JobRows OBVIOUS
  <2>2. js[j] = jobs[j] \/ js[j] = [jobs[j] EXCEPT !.status = "queued"] BY DEF RollDeferred
  <2> QED BY <2>1, <2>2, JobMoves
<1> HIDE DEF js
<1>3. js \in Seq(JobRows) BY <1>1, <1>2, JobsRewritten
<1> QED BY <1>3 DEF js

\* The pipeline, the budget and the clock.
LEMMA WorkStep == ASSUME AutomationInv, [Next]_vars PROVE WorkInv'
<1>0. WorkInv /\ FireInv BY DEF AutomationInv
<1>1. /\ half \in 0 .. LastHalf /\ half \in Nat /\ spent \in 0 .. MaxEvents
      /\ budget \in Budgets /\ jobs \in Seq(JobRows)
      /\ Daily \in Nat /\ Price \in Nat /\ LastHalf \in Nat /\ MaxEvents \in Nat
  BY <1>0, AutomationAssumption DEF WorkInv, Budgets
<1>2. ASSUME UNCHANGED <<half, budget, jobs>>, spent' = spent \/ Spend,
             mode' \in {mode, "running", "paused_auth", "stopped_budget"}
      PROVE  WorkInv'
  BY <1>0, <1>1, <1>2 DEF WorkInv, Spend
<1>3. ASSUME UNCHANGED <<half, spent>>, budget' \in Budgets, jobs' \in Seq(JobRows),
             mode' \in {mode, "running", "paused_auth", "stopped_budget"}
      PROVE  WorkInv'
  <2> HIDE DEF JobRows
  <2> QED BY <1>0, <1>3 DEF WorkInv, Budgets
<1>4. ASSUME NEW p \in Fires, PlanAndCreate(p) PROVE WorkInv'
  <2>1. UNCHANGED <<half, spent, budget, mode>> BY <1>4 DEF PlanAndCreate
  <2>2. jobs' = jobs \/ jobs' = Append(jobs, SweepJob(fire[p].id)) BY <1>4 DEF PlanAndCreate
  <2>3. fire[p].id \in Ids
    BY <1>0, <1>4, ActingIs DEF PlanAndCreate, Acting, InHand
  <2>4. SweepJob(fire[p].id) \in JobRows BY <1>1, <2>3 DEF SweepJob, JobRows
  <2>5. jobs' \in Seq(JobRows)
    <3> HIDE DEF JobRows
    <3> QED BY <1>1, <2>2, <2>4
  <2> QED BY <1>1, <1>3, <2>1, <2>5
<1>5. ASSUME NEW p \in Fires, RefreshDay(p) PROVE WorkInv'
  <2>1. UNCHANGED <<half, spent, jobs>> /\ budget' = Rolled /\ RollMode BY <1>5 DEF RefreshDay
  <2> QED BY <1>0, <1>1, <1>3, <2>1, RolledIs DEF RollMode
<1>6. ASSUME NEW p \in Fires, ReleaseDeferred(p) PROVE WorkInv'
  <2>1. UNCHANGED <<half, spent, budget, mode>> /\ jobs' = RollDeferred(Day(fire[p].at))
    BY <1>6 DEF ReleaseDeferred
  <2> QED BY <1>1, <1>3, <2>1, RollKeepsJobs
<1>7. ASSUME DeferToTomorrow PROVE WorkInv'
  <2> DEFINE j == [by |-> "user", status |-> "deferred_budget", left |-> 1,
                   created |-> UtcDay(half), on |-> Day(half)]
  <2>1. UNCHANGED <<half, spent, budget, mode>> /\ jobs' = Append(jobs, j)
    BY <1>7 DEF DeferToTomorrow
  <2>2. j \in JobRows BY <1>1, DaysAreNumbers DEF JobRows
  <2>3. jobs' \in Seq(JobRows)
    <3> HIDE DEF JobRows, j
    <3> QED BY <1>1, <2>1, <2>2
  <2> QED BY <1>1, <1>3, <2>1, <2>3
<1>8. ASSUME NEW j \in DOMAIN jobs, Send(j) PROVE WorkInv'
  <2> DEFINE b == Rolled
             more == [b EXCEPT !.used = b.used + 1,
                               !.swept = b.swept + (IF jobs[j].by = "user" THEN 0 ELSE 1)]
             one == [jobs[j] EXCEPT !.left = jobs[j].left - 1]
  <2>1. b \in Budgets BY <1>0, RolledIs
  <2>2. UNCHANGED <<half, spent>> /\ jobs[j].left > 0 BY <1>8 DEF Send
  <2>3. CASE b.used = Daily
    <3>1. mode' = "stopped_budget" /\ budget' = b /\ jobs' = jobs BY <1>8, <2>3 DEF Send
    <3> HIDE DEF b
    <3> QED BY <1>1, <1>3, <2>1, <2>2, <3>1
  <2>4. CASE b.used # Daily
    <3>1. budget' = more /\ jobs' = [jobs EXCEPT ![j] = one] /\ mode' = mode
      BY <1>8, <2>4 DEF Send
    <3>2. more \in Budgets
      <4>1. b.used \in 0 .. Daily /\ b.swept \in Nat BY <2>1 DEF Budgets
      <4>2. b.used + 1 \in 0 .. Daily BY <1>1, <2>4, <4>1
      <4>3. \A n \in {0, 1} : b.swept + n \in Nat BY <4>1
      <4> HIDE DEF b
      <4> QED BY <2>1, <4>2, <4>3 DEF Budgets
    <3>3. jobs[j] \in JobRows BY <1>1
    <3>4. one \in JobRows BY <2>2, <3>3, JobMoves
    <3>5. jobs' \in Seq(JobRows)
      <4> HIDE DEF JobRows, one
      <4> QED BY <1>1, <3>1, <3>4
    <3> HIDE DEF more, one
    <3> QED BY <1>3, <2>2, <3>1, <3>2, <3>5
  <2> QED BY <2>3, <2>4
<1>9. ASSUME Tick PROVE WorkInv'
  BY <1>0, <1>1, <1>9 DEF Tick, WorkInv, work
<1>10. ASSUME Restart PROVE WorkInv'
  <2>1. /\ half' = half /\ mode' = "running" /\ spent' \in 0 .. MaxEvents
        /\ budget' = Rolled /\ jobs' = RollDeferred(Day(half))
    BY <1>1, <1>10 DEF Restart, Spend
  <2>2. budget' \in Budgets /\ jobs' \in Seq(JobRows) BY <1>0, <1>1, <2>1, RolledIs, RollKeepsJobs
  <2> HIDE DEF JobRows
  <2> QED BY <1>0, <2>1, <2>2 DEF WorkInv, Budgets
<1>11. ASSUME \/ StoreLogin \/ Refuse \/ \E g \in reports : OnAuthFailure(g)
              \/ \E id \in Ids : FireFromTrigger(id) \/ RunNow(id)
              \/ \E p \in Fires : \/ EnterFire(p) \/ SweepDone(p) \/ TokenHealth(p)
                                  \/ LogoutParks(p) \/ ScheduledLogout(p)
              \/ \E e \in Routes :
                   \/ \E id \in Own, cron \in Crons : CreateSchedule(e, id, cron)
                   \/ \E id \in Edited, cron \in Crons, on \in BOOLEAN :
                        UpdateSchedule(e, id, cron, on)
                   \/ \E id \in Own : DeleteSchedule(e, id)
                   \/ Sync(e)
              \/ UNCHANGED vars
       PROVE  WorkInv'
  <2>1. UNCHANGED <<half, budget, jobs>> /\ (spent' = spent \/ Spend)
    BY <1>11 DEF vars, work, schedules, tokens, StoreLogin, Refuse, OnAuthFailure, FireFromTrigger,
       RunNow, EnterFire, SweepDone, TokenHealth, LogoutParks, ScheduledLogout, CreateSchedule,
       UpdateSchedule, DeleteSchedule, Change, Sync, RemoveAllJobs, AddJobs, WriteNextFireTimes
  <2>2. mode' \in {mode, "running", "paused_auth", "stopped_budget"}
    BY <1>11 DEF vars, work, schedules, tokens, StoreLogin, Refuse, OnAuthFailure, OnAuthError,
       Clear, FireFromTrigger,
       RunNow, EnterFire, SweepDone, TokenHealth, LogoutParks, ScheduledLogout, CreateSchedule,
       UpdateSchedule, DeleteSchedule, Change, Sync, RemoveAllJobs, AddJobs, WriteNextFireTimes
  <2> QED BY <1>2, <2>1, <2>2
<1> QED BY <1>4, <1>5, <1>6, <1>7, <1>8, <1>9, <1>10, <1>11 DEF Next, FireStep

\* A start: one token, nothing remembered, every schedule installed, no fire, no change.
LEMMA AutomationStart == ASSUME Init PROVE AutomationInv /\ SchedulesInv
<1>1. TokensInv
  <2>1. PICK exp \in {0, TokenLife} : rows = {[gen |-> 1, exp |-> exp, state |-> "active"]}
    BY DEF Init
  <2>2. broker = NotLoaded /\ reports = {} /\ refused = {} /\ spent = 0 BY DEF Init
  <2>3. exp \in Nat /\ 1 \in Generations BY AutomationAssumption DEF Generations
  <2>4. TokensFit(rows, 1, broker.parked)
    <3>1. broker.parked = 0 BY <2>2 DEF NotLoaded
    <3> QED BY <2>1, <2>3, <3>1 DEF TokensFit, TokenRows, RowStates
  <2>5. BrokerFits(rows, 1, broker) BY <2>2 DEF BrokerFits, Brokers, NotLoaded
  <2>6. 1 \in 1 .. spent + 1 BY <2>2
  <2> QED BY <2>2, <2>4, <2>5, <2>6 DEF TokensInv
<1>2. FireInv BY DEF Init, FireInv, Resting, Fires
<1>4. SchedulesInv /\ SchedulesShape
  <2>1. \A c \in Crons, on \in BOOLEAN : Row(c, on) \in ScheduleRows /\ Row(c, on).there
    BY DEF ScheduleRows, Row
  <2>2. "late" \in Crons /\ "early" \in Crons /\ Absent \in ScheduleRows /\ Builtins \subseteq Ids
    BY DEF Crons, ScheduleRows, Ids
  <2>3. table \in [Ids -> ScheduleRows] /\ \A i \in Builtins : table[i].there
    <3>1. table = [i \in Ids |-> IF i = "health" THEN Row("late", TRUE)
                                 ELSE IF i \in Builtins THEN Row("early", TRUE) ELSE Absent]
      BY DEF Init
    <3> QED BY <2>1, <2>2, <3>1
  <2>4. /\ Mirrors(triggers, table) /\ DOMAIN triggers \subseteq Ids
        /\ triggers \in [DOMAIN triggers -> TriggerRows]
    BY <2>3, InstallMirrors DEF Init
  <2>5. shown = DOMAIN triggers /\ route = [e \in Routes |-> Resting] /\ met = FALSE BY DEF Init
  <2> QED BY <2>3, <2>4, <2>5 DEF SchedulesInv, OneChange, SchedulesShape, RouteStates, Resting
<1>5. WorkInv
  BY AutomationAssumption DEF Init, WorkInv
<1> QED BY <1>1, <1>2, <1>4, <1>5 DEF AutomationInv


\* Every step keeps it.
LEMMA AutomationStep == AutomationInv /\ [Next]_vars => AutomationInv'
<1> SUFFICES ASSUME AutomationInv, [Next]_vars PROVE AutomationInv' OBVIOUS
<1>1. TokensInv' BY StepsOnTheToken, StoreLoginFits, TokenStepFits, OffTokenFits
<1>2. FireInv' BY FiresStep
<1>3. SchedulesShape' BY ShapeStep DEF AutomationInv
<1>4. WorkInv' BY WorkStep
<1> QED BY <1>1, <1>2, <1>3, <1>4 DEF AutomationInv

-----------------------------------------------------------------------------
\* What the schedules screen shows is what will fire, in every run, unless the last change
\* to begin met another (`SchedulerService.sync` after every mutation and at every start).
THEOREM TriggersMirrorTableAlways == Spec => []TriggersMirrorTable
<1>1. Init => SchedulesInv BY AutomationStart
<1>2. SchedulesInv /\ [Next]_vars => SchedulesInv' BY SchedulesStep
<1>3. SchedulesInv => TriggersMirrorTable
  BY DEF SchedulesInv, OneChange, Mirrors, Enabled, TriggersMirrorTable, ScreenIsWhatFires
<1> QED BY <1>1, <1>2, <1>3, PTL DEF Spec

\* The types, from the parts of the invariant.
LEMMA AutomationTypes == ASSUME AutomationInv PROVE TypeOK
<1>1. PICK g \in 1 .. spent + 1 : TokensFit(rows, g, broker.parked) /\ BrokerFits(rows, g, broker)
  BY DEF AutomationInv, TokensInv
<1>2. /\ half \in 0 .. LastHalf /\ mode \in {"running", "paused_auth", "stopped_budget"}
      /\ budget.used \in 0 .. Daily
  BY DEF AutomationInv, WorkInv
<1>3. \A i \in Ids : table[i].there => table[i].cron \in Crons /\ table[i].on \in BOOLEAN
  <2>1. ASSUME NEW i \in Ids, table[i].there
        PROVE  table[i].cron \in Crons /\ table[i].on \in BOOLEAN
    <3>1. table[i] \in ScheduleRows BY DEF AutomationInv, SchedulesShape
    <3>2. table[i] \in [there : {TRUE}, cron : Crons, on : BOOLEAN] BY <2>1, <3>1, ThereIs
    <3> QED BY <3>2
  <2> QED BY <2>1
<1>4. \A i \in Builtins : table[i].there BY DEF AutomationInv, SchedulesShape
<1>5. \A i \in DOMAIN triggers : triggers[i].cron \in Crons /\ triggers[i].due \in BOOLEAN
  BY DEF AutomationInv, SchedulesShape, TriggerRows
<1>6. DOMAIN triggers \subseteq Ids /\ shown \subseteq Ids BY DEF AutomationInv, SchedulesShape
<1>7. \A r \in rows : r.gen \in Generations /\ r.state \in {"active", "needs_reauth", "revoked"}
  BY <1>1 DEF TokensFit, TokenRows, RowStates
<1>8. broker.gen \in Generations \cup {0} /\ broker.parked \in Generations \cup {0}
  <2>1. spent \in 0 .. MaxEvents /\ MaxEvents \in Nat
    BY AutomationAssumption DEF AutomationInv, WorkInv
  <2>2. broker.gen \in Nat /\ broker.parked \in Nat /\ broker.gen <= g /\ broker.parked <= g
    BY <1>1 DEF BrokerFits, Brokers
  <2> QED BY <1>1, <2>1, <2>2 DEF Generations
<1>9. \A j \in DOMAIN jobs : jobs[j].status \in {"queued", "deferred_budget"} /\ jobs[j].left \in Nat
  <2>1. \A j \in JobRows : j.status \in {"queued", "deferred_budget"} /\ j.left \in Nat
    BY DEF JobRows
  <2>2. \A j \in DOMAIN jobs : jobs[j] \in JobRows
    <3>1. jobs \in Seq(JobRows) BY DEF AutomationInv, WorkInv
    <3> HIDE DEF JobRows
    <3> QED BY <3>1
  <2> HIDE DEF JobRows
  <2> QED BY <2>1, <2>2
<1>10. met \in BOOLEAN BY DEF AutomationInv, SchedulesShape
<1> QED BY <1>2, <1>3, <1>4, <1>5, <1>6, <1>7, <1>8, <1>9, <1>10 DEF TypeOK

\* One usable token, and what is remembered of it.
LEMMA OneTokenRemembered == ASSUME AutomationInv PROVE OneUsableToken /\ CacheIsCurrent
<1>1. PICK g \in 1 .. spent + 1 : TokensFit(rows, g, broker.parked) /\ BrokerFits(rows, g, broker)
  BY DEF AutomationInv, TokensInv
<1>2. g \in Nat /\ g >= g /\ \A r \in rows : Usable(r) => r.gen = g
  BY <1>1 DEF TokensFit
<1>3. \A r, s \in rows : r.gen = s.gen => r = s BY <1>1 DEF TokensFit
<1>4. Cardinality({r \in rows : Usable(r)}) <= 1
  <2> DEFINE U == {r \in rows : Usable(r)}
  <2>1. CASE U = {}
    <3>1. Cardinality(U) = 0 BY <2>1, FS_EmptySet
    <3> QED BY <3>1
  <2>2. CASE U # {}
    <3>1. PICK r : r \in U BY <2>2
    <3>2. U = {r} BY <1>2, <1>3, <3>1
    <3>3. Cardinality({r}) = 1 BY FS_Singleton
    <3> QED BY <3>2, <3>3
  <2> QED BY <2>1, <2>2
<1>5. /\ MaxGeneration = g /\ LoadActive = UsableOf(rows)
      /\ Loaded.gen = g /\ Loaded.rec = UsableOf(rows)
  BY <1>1, LoadedIs
<1>6. broker.loaded => broker.rec = LoadActive /\ broker.gen >= MaxGeneration
  BY <1>1, <1>2, <1>5 DEF BrokerFits
<1>7. HasValidToken => \E r \in rows : Usable(r) /\ r.gen = Loaded.gen
  BY <1>2, <1>5 DEF HasValidToken, UsableOf
<1> QED BY <1>3, <1>4, <1>6, <1>7 DEF OneUsableToken, CacheIsCurrent

\* One token can be used, and it is the one remembered, in every run (`TokenBroker`): a
\* login, a refusal, the health check, either logout and a restart, in any order.
THEOREM TokensSoundAlways == Spec => []TokensSound
<1>1. Init => AutomationInv BY AutomationStart
<1>2. AutomationInv => TokensSound BY AutomationTypes, OneTokenRemembered DEF TokensSound
<1> QED BY <1>1, <1>2, AutomationStep, PTL DEF Spec

-----------------------------------------------------------------------------
\* Each step that takes a token's use away has one of those reasons.
LEMMA LeavesStep ==
  ASSUME AutomationInv, [Next]_vars, NEW r \in Lost
  PROVE  LeavesForAReason(r) \/ \E p \in Fires : Acting(p, "logout")
<1>0. r \in rows /\ Usable(r) /\ \A s \in rows' : s.gen = r.gen => ~Usable(s) BY DEF Lost
<1> USE DEF LeavesForAReason
<1>1. PICK g \in 1 .. spent + 1 :
        /\ TokensFit(rows, g, broker.parked) /\ BrokerFits(rows, g, broker)
        /\ reports \subseteq refused /\ refused \subseteq 1 .. g
  BY DEF AutomationInv, TokensInv
<1>2. rows' # rows BY <1>0
<1>3. /\ g \in Nat /\ r.gen = g /\ r \in UsableOf(rows)
      /\ Loaded.gen = g /\ Loaded.rec = UsableOf(rows) /\ MaxGeneration = g
  BY <1>0, <1>1, LoadedIs DEF TokensFit, UsableOf
<1>4. CASE StoreLogin
  <2>1. Max({broker.gen, MaxGeneration}) = g
    <3>1. broker.gen \in 0 .. g BY <1>1, <1>3 DEF BrokerFits, Brokers
    <3> QED BY <1>1, <1>3, <3>1, GreatestIs
  <2>2. PICK exp \in {0, half + TokenLife} : Saved(g + 1, exp) BY <1>4, <2>1 DEF StoreLogin
  <2>3. [gen |-> g + 1, exp |-> exp, state |-> "active"] \in rows' BY <2>2 DEF Saved
  <2>4. g + 1 > g BY <1>3
  <2> QED BY <1>3, <2>3, <2>4
<1>5. CASE OffToken BY <1>2, <1>5, OffTokenFits
<1>6. ASSUME NEW k \in reports, OnAuthFailure(k) PROVE r.gen \in refused
  <2>1. k \in 1 .. g /\ k \in refused /\ OnAuthError(k) BY <1>1, <1>6 DEF OnAuthFailure
  <2>2. k = g BY <1>1, <1>2, <2>1, AuthErrorFits
  <2> QED BY <1>3, <2>1, <2>2
<1>7. ASSUME NEW p \in Fires, TokenHealth(p) PROVE Expired(r, half + 1)
  <2>1. PICK q \in Loaded.rec : Expired(q, half) \/ Expired(q, half + 1)
    BY <1>2, <1>7 DEF TokenHealth
  <2>2. q = r BY <1>1, <1>3, <2>1 DEF TokensFit, UsableOf
  <2>3. r.exp \in Nat /\ half \in Nat
    BY <1>0, <1>1 DEF TokensFit, TokenRows, AutomationInv, WorkInv
  <2> QED BY <2>1, <2>2, <2>3 DEF Expired
<1>8. ASSUME NEW p \in Fires, LogoutParks(p) \/ ScheduledLogout(p)
      PROVE  \E q \in Fires : Acting(q, "logout")
  BY <1>8 DEF LogoutParks, ScheduledLogout
<1>9. ~Refuse /\ (\A j \in DOMAIN jobs : ~Send(j)) /\ ~Restart
  BY <1>2 DEF Refuse, Send, Restart
<1> QED BY <1>4, <1>5, <1>6, <1>7, <1>8, <1>9, StepsOnTheToken DEF TokenStep

\* A stored token loses its use for a reason of its own or to a logout, in every run
\* (`TokenBroker.store_login`, `on_auth_error` and `clear`, in any order).
THEOREM TokenLeavesAlways == Spec => TokenLeavesForAReason
<1> DEFINE Kept == \A r \in Lost : LeavesForAReason(r) \/ \E p \in Fires : Acting(p, "logout")
<1>1. Init => AutomationInv BY AutomationStart
<1>2. AutomationInv /\ [Next]_vars => [Kept]_vars BY LeavesStep
<1>3. Spec => [][Kept]_vars BY <1>1, <1>2, AutomationStep, PTL DEF Spec
<1> QED BY <1>3 DEF TokenLeavesForAReason
=============================================================================
