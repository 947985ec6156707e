------------------------------ MODULE Settings ------------------------------
(* The settings: one table and its read-through cache (settings_store.py), written by *)
(* PATCH /system/settings and by the credential form.  A write is a transaction on    *)
(* the table and then, in a critical section of its own, an update of the cache.      *)
EXTENDS Naturals, FiniteSets

CONSTANTS
  Keys,           \* settings
  Writers,        \* requests that write them
  Good,           \* values every validator accepts
  Tight,          \* of these, the values a later build's tightened range refuses
  Bad,            \* values no validator accepts
  MaxWrites, MaxRestarts

Default == 0      \* no row: the code's default answers
NoCache == [loaded |-> FALSE, of |-> [k \in Keys |-> Default]]

VARIABLES
  table,          \* the stored value of each key, or Default
  cache,          \* SettingsStore._cache
  refused,        \* the values the running build refuses
  pending,        \* by writer: the values it has stored and not yet cached
  together,       \* so far every request has named every key
  raced,          \* the keys whose last write overlapped another, or that the cache was
                  \* made without
  writes, restarts

vars == <<table, cache, refused, pending, together, raced, writes, restarts>>

Nothing == [k \in Keys |-> Default]
Values == Good \cup {Default}
Writing(k) == {w \in Writers : pending[w][k] # Default}

TypeOK ==
  /\ table \in [Keys -> Values]
  /\ cache \in [loaded : BOOLEAN, of : [Keys -> Values]]
  /\ refused \in {Bad, Bad \cup Tight}
  /\ pending \in [Writers -> [Keys -> Values]]
  /\ together \in BOOLEAN /\ raced \subseteq Keys
  /\ writes \in 0..MaxWrites /\ restarts \in 0..MaxRestarts

Init ==
  /\ table = Nothing /\ cache = NoCache /\ refused = Bad
  /\ pending = [w \in Writers |-> Nothing] /\ together = TRUE
  /\ raced = {} /\ writes = 0 /\ restarts = 0

\* What `_load` makes of the table: a value that no longer validates is left out.
Loaded(t) == [k \in Keys |-> IF t[k] \in refused THEN Default ELSE t[k]]

\* The keys with a stored value that a cache answers without.
Missing(of) == {k \in Keys : Loaded(table)[k] # Default /\ of[k] = Default}

\* The first read fills the cache under the lock; a DatabaseError is taken for a table that
\* does not exist yet.
FillCache ==
  /\ ~cache.loaded
  /\ \E of \in {Loaded(table), Nothing} :
       cache' = [loaded |-> TRUE, of |-> of] /\ raced' = raced \cup Missing(of)
  /\ UNCHANGED <<table, refused, pending, together, writes, restarts>>

Overlay(old, new) == [k \in Keys |-> IF new[k] = Default THEN old[k] ELSE new[k]]

\* `set_many` validates every value before it stores any.
Accepted(asked) == IF \A k \in Keys : asked[k] \notin refused THEN asked ELSE Nothing

\* `set` and `set_many`: validated, then stored in one transaction, outside the lock.
Store(w, asked) ==
  /\ pending[w] = Nothing /\ writes < MaxWrites
  /\ asked # Nothing
  /\ LET new == Accepted(asked) IN
       /\ new # Nothing
       /\ table' = Overlay(table, new) /\ pending' = [pending EXCEPT ![w] = new]
       /\ raced' = {k \in Keys : IF new[k] = Default THEN k \in raced ELSE Writing(k) # {}}
  /\ together' = (together /\ \A k \in Keys : asked[k] # Default)
  /\ writes' = writes + 1
  /\ UNCHANGED <<cache, refused, restarts>>

UpdateReplacing(old, new) == new
Update(old, new) == Overlay(old, new)

\* ... and then cached; where nothing is cached yet, in a cache of these keys alone.
Cache(w) ==
  /\ pending[w] # Nothing
  /\ cache' = [loaded |-> TRUE, of |-> Update(cache.of, pending[w])]
  /\ raced' = IF cache.loaded THEN raced ELSE raced \cup Missing(cache'.of)
  /\ pending' = [pending EXCEPT ![w] = Nothing]
  /\ UNCHANGED <<table, refused, together, writes, restarts>>

\* The process is killed, and started again, perhaps as a later build.
Restart ==
  /\ restarts < MaxRestarts
  /\ restarts' = restarts + 1
  /\ cache' = NoCache /\ pending' = [w \in Writers |-> Nothing] /\ raced' = {}
  /\ refused' \in {refused, Bad \cup Tight}
  /\ UNCHANGED <<table, together, writes>>

Next ==
  \/ FillCache \/ Restart
  \/ \E w \in Writers : Cache(w) \/ \E asked \in [Keys -> Values \cup Bad] : Store(w, asked)

Spec == Init /\ [][Next]_vars

\* A setting no write is busy with, and whose last write met no other write of it, answers
\* what is stored, whatever other settings were written meanwhile and by whom.
CacheAgrees ==
  cache.loaded =>
    \A k \in Keys \ raced : Writing(k) = {} => cache.of[k] = Loaded(table)[k]

\* What the class says of itself, "writes go straight through": once no write is under way
\* every reader works from the value the table holds.  Two writes of one setting that
\* overlap break it: stored in one order, they may be cached in the other.
WritesGoThrough ==
  cache.loaded => \A k \in Keys : Writing(k) = {} => cache.of[k] = Loaded(table)[k]

\* A request that sets several settings sets all of them or none: while every request
\* has named them all, either all of them are stored or none is.
AllOrNothing ==
  together => \A k, l \in Keys : (table[k] = Default) = (table[l] = Default)

\* A value the running build refuses is never served, whoever stored it.
NeverServesRefused == \A k \in Keys : cache.of[k] \notin refused

\* The three, with the types.
SettingsSound == TypeOK /\ CacheAgrees /\ AllOrNothing /\ NeverServesRefused
=============================================================================
