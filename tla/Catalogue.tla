----------------------------- MODULE Catalogue ------------------------------
(***************************************************************************)
(* The catalogue: which underlyings, expiries and contracts there are, and *)
(* the identifier every bar is stored under.  The registry of underlyings  *)
(* is a table of SQLite (api/v1/underlyings.py); its mirror, the expiries, *)
(* the contracts and the bars are tables of DuckDB, written one transaction*)
(* at a time (db/writes.py, db/ids.py).  The discovery tasks               *)
(* (pipeline/handlers/expiry_discovery.py, contract_discovery.py) fill the *)
(* catalogue and put the chunks of a discovered expiry in the queue.       *)
(*                                                                         *)
(* A contract is named by its underlying, its expiry and its strike; a bar *)
(* stands for everything stored of one contract.                           *)
(***************************************************************************)
EXTENDS Integers, SequencesExt, FiniteSetsExt

CONSTANTS
  Symbols,         \* the underlyings of the symbol master
  Registered,      \* those registered at the start
  Builtin,         \* those of the migration, which cannot be deleted
  Dates,           \* expiry dates, a set of numbers
  Strikes,         \* strikes, a set of numbers
  Responses,       \* the sets of strikes a contract response may carry
  SpotMax,         \* SPOT_ID_MAX
  BlockSize,       \* BLOCK_SIZE
  Callers,         \* the requests of the API under way at once
  Purges,          \* the values of purge_data a delete is called with
  Freedoms,        \* what the environment may do besides, of AllFreedoms
  MaxCalls,        \* bound: calls of the API and firings of the schedule
  MaxAnswers,      \* bound: contract responses of the broker
  MaxCrashes       \* bound: kills of the process

\* A response may leave out contracts an earlier one had; the nightly discovery
\* may fire while a call is under way; an underlying may be created or edited while
\* one has no mirror row; a file may come back with its sequence behind while bars or
\* chunks stand under identifiers that no contract has.
AllFreedoms == {"short_response", "fires_any_time", "edits_unmirrored", "behind_strays"}

ASSUME CatalogueAssumption ==
  /\ Dates \cup Strikes \subseteq Nat \ {0} /\ Dates # {} /\ Strikes # {}
  /\ IsFiniteSet(Symbols) /\ IsFiniteSet(Dates) /\ IsFiniteSet(Strikes)
  /\ {SpotMax, MaxCalls, MaxAnswers, MaxCrashes} \subseteq Nat /\ BlockSize \in Nat \ {0}
  /\ Responses \subseteq (SUBSET Strikes) \ {{}}
  /\ Builtin \subseteq Registered /\ Registered \subseteq Symbols
  /\ Cardinality(Registered) <= SpotMax
  /\ Purges \subseteq BOOLEAN /\ Freedoms \subseteq AllFreedoms

VARIABLES
  registry,   \* underlying_registry
  mirror,     \* dim_underlying
  expiries,   \* dim_expiry; lo = 0: its contracts were never discovered
  contracts,  \* dim_contract
  taken,      \* the last unit the block sequence handed out
  bars,       \* candles and the tables that go with them: identifier, and for whom fetched
  tasks,      \* the task rows
  call,       \* where each caller stands
  work,       \* where the worker on discovery tasks stands
  spent       \* how much of each bound is used

duck == <<mirror, expiries, contracts, taken, bars>>
vars == <<registry, duck, tasks, call, work, spent>>

Names == Symbols \X (Dates \cup {0}) \X (Strikes \cup {0})
SpotName(sym) == <<sym, 0, 0>>
Resting == [op |-> "none"]
Row(uid, sym, spot, active) == [uid |-> uid, sym |-> sym, spot |-> spot, active |-> active]

TypeOK ==
  /\ registry \subseteq [uid : Nat, sym : Symbols, spot : 1 .. SpotMax, active : BOOLEAN]
  /\ mirror \subseteq [uid : Nat, sym : Symbols, spot : 1 .. SpotMax, active : BOOLEAN,
                       expiries : Nat, contracts : Nat]
  /\ expiries \subseteq [uid : Nat, d : Dates, lo : Nat, hi : Nat, n : Nat]
  /\ contracts \subseteq [id : Nat \ {0}, uid : Nat, name : Names]
  /\ \A t \in {registry, mirror} : \A x, y \in t : x.uid = y.uid \/ x.sym = y.sym => x = y
  /\ \A x, y \in expiries : x.uid = y.uid /\ x.d = y.d => x = y
  /\ \A x, y \in contracts : x.id = y.id \/ x.name = y.name => x = y
  /\ taken \in Nat
  /\ bars \subseteq [id : Nat \ {0}, name : Names]
  /\ \A i \in DOMAIN tasks :
       /\ tasks[i].kind \in {"dates", "symbols", "chunk"}
       /\ tasks[i].state \in {"pending", "leased", "done", "failed"}
  /\ DOMAIN call = Callers
  /\ work.step \in {"idle", "mirroring", "ready", "written", "planned"}

Spend(what, limit) == spent[what] < limit /\ spent' = [spent EXCEPT ![what] = @ + 1]

-----------------------------------------------------------------------------
(* The identifiers (db/ids.py). *)

FirstBlock == SpotMax + 1
BaseForUnit(u) == FirstBlock + (u - 1) * BlockSize
UnitForBase(base) == 1 + (base - FirstBlock) \div BlockSize
BlockSizeFor(n) == Max({1, (n + BlockSize - 1) \div BlockSize}) * BlockSize

\* allocate_spot_id: the lowest identifier no mirrored underlying has.
FreeSpots == 1 .. SpotMax \ {m.spot : m \in mirror}

ReserveBlockBlind(size) ==       \* mutant: the sequence is trusted as it is
  [lo |-> BaseForUnit(taken + 1), hi |-> BaseForUnit(taken + 1) + size - 1]

\* reserve_block: the next units of the sequence, once it is past every block
\* that is recorded.
ReserveBlock(size) ==
  LET recorded == {e.hi : e \in {x \in expiries : x.hi # 0}}
      past == UnitForBase(Max({FirstBlock - 1} \cup recorded) + 1)
      lo == BaseForUnit(Max({taken + 1, past}))
  IN  [lo |-> lo, hi |-> lo + size - 1]

\* allocate_contract_block: the block an expiry has, while it is large enough.
Block(e, count) ==
  IF e.lo # 0 /\ e.hi - e.lo + 1 >= BlockSizeFor(count)
    THEN [lo |-> e.lo, hi |-> e.hi]
    ELSE ReserveBlock(BlockSizeFor(count))

\* assign_contract_ids: a name of the batch keeps its identifier while that is
\* in the block; the others take the lowest free ones, by strike.
Assign(block, batch, existing) ==
  LET kept == {c \in existing : c.name \in batch /\ c.id \in block.lo .. block.hi}
      new == batch \ {c.name : c \in kept}
      free == block.lo .. block.hi \ {c.id : c \in kept}
  IN  [n \in batch |->
         IF n \in new
           THEN CHOOSE i \in free : Cardinality({j \in free : j < i})
                                      = Cardinality({m \in new : m[3] < n[3]})
           ELSE (CHOOSE c \in kept : c.name = n).id]

\* Some underlyings are registered (the migration's, at least).  Either nothing is
\* filed yet, not even the mirror (its first writing failed, which stops no start),
\* or they are mirrored, their expiries are known, and so is one contract of the oldest.
StartWith(uids, filed) ==
  LET d1 == Min(Dates)
      rows == {Row(uids[s], s, uids[s], TRUE) : s \in Registered}
      mirrored == IF filed THEN rows ELSE {}
      lo(r, d) == IF d = d1 THEN BaseForUnit(r.uid) ELSE 0
  IN  /\ IsInjective(uids)
      /\ registry = rows
      /\ mirror = {[uid |-> r.uid, sym |-> r.sym, spot |-> r.spot, active |-> TRUE,
                    expiries |-> Cardinality(Dates), contracts |-> 1] : r \in mirrored}
      /\ contracts = {[id |-> r.spot, uid |-> r.uid, name |-> SpotName(r.sym)] : r \in mirrored}
           \cup {[id |-> lo(r, d1), uid |-> r.uid, name |-> <<r.sym, d1, Min(Strikes)>>] :
                   r \in mirrored}
      /\ expiries = {[uid |-> r.uid, d |-> d, lo |-> lo(r, d),
                      hi |-> IF d = d1 THEN lo(r, d) + BlockSize - 1 ELSE 0,
                      n |-> IF d = d1 THEN 1 ELSE 0] : r \in mirrored, d \in Dates}
      /\ taken = Cardinality(mirrored) /\ bars = {} /\ tasks = <<>>
      /\ call = [a \in Callers |-> Resting] /\ work = [step |-> "idle"]
      /\ spent = [calls |-> 0, answers |-> 0, crashes |-> 0]

Init ==
  \E uids \in [Registered -> 1 .. Cardinality(Registered)], filed \in BOOLEAN :
    StartWith(uids, filed)

-----------------------------------------------------------------------------
(* The transactions of the writer (db/writes.py). *)

ExpiriesOf(rows, uid) == {e \in rows : e.uid = uid}

\* What the rows of some expiries count.
Counted(rows) == MapThenSumSet(LAMBDA e : e.n, rows)

\* _refresh_underlying_rollup
Refreshed(rows, m) ==
  [m EXCEPT !.expiries = Cardinality(ExpiriesOf(rows, m.uid)),
            !.contracts = Counted(ExpiriesOf(rows, m.uid))]
Rollup(rows, table, uid) == {IF m.uid = uid THEN Refreshed(rows, m) ELSE m : m \in table}

MirrorRow(r) ==
  [uid |-> r.uid, sym |-> r.sym, spot |-> r.spot, active |-> r.active,
   expiries |-> Cardinality(ExpiriesOf(expiries, r.uid)),
   contracts |-> Counted(ExpiriesOf(expiries, r.uid))]
SpotRows(rows) == {[id |-> r.spot, uid |-> r.uid, name |-> SpotName(r.sym)] : r \in rows}

\* UnderlyingWrite, for each of the rows: both keys make way for the new row,
\* and so does the contract that stands for the series of the underlying itself.
UnderlyingWrite(rows) ==
  /\ mirror' = {m \in mirror : \A r \in rows : m.uid # r.uid /\ m.sym # r.sym}
                 \cup {MirrorRow(r) : r \in rows}
  /\ contracts' = {c \in contracts : \A r \in rows : c.id # r.spot /\ c.name # SpotName(r.sym)}
                    \cup SpotRows(rows)
  /\ UNCHANGED <<expiries, bars>>

\* delete_underlying
DeleteUnderlying(uid, purge) ==
  LET ids == {c.id : c \in {x \in contracts : x.uid = uid}}
  IN  /\ bars' = IF purge THEN {b \in bars : b.id \notin ids} ELSE bars
      /\ contracts' = {c \in contracts : c.uid # uid}
      /\ expiries' = {e \in expiries : e.uid # uid}
      /\ mirror' = {m \in mirror : m.uid # uid}
      /\ UNCHANGED taken

\* ExpiryBatchWrite: a known expiry keeps its block and its counts.
ExpiryBatchWrite(uid, days) ==
  LET known == {e.d : e \in ExpiriesOf(expiries, uid)}
  IN  /\ expiries' = expiries \cup {[uid |-> uid, d |-> d, lo |-> 0, hi |-> 0, n |-> 0] :
                                      d \in days \ known}
      /\ mirror' = Rollup(expiries', mirror, uid)
      /\ UNCHANGED <<contracts, taken, bars>>

RemapKeeps(table, moved, ids) == table       \* mutant: the bars stay behind

\* _remap_contract_ids, for every table that holds an identifier.
Remap(table, moved, ids) ==
  {IF \E c \in moved : c.id = b.id
     THEN [b EXCEPT !.id = ids[(CHOOSE c \in moved : c.id = b.id).name]]
     ELSE b : b \in table}

\* ContractBatchWrite: the block, the identifiers, the bars that move along, the
\* rows, the counts.  A response may repeat a name: a batch is a set.
ContractBatchWrite(uid, d, batch) ==
  LET recorded == {e \in expiries : e.uid = uid /\ e.d = d}
      old == IF recorded # {} THEN CHOOSE e \in recorded : TRUE
             ELSE [uid |-> uid, d |-> d, lo |-> 0, hi |-> 0, n |-> 0]
      existing == {c \in contracts : c.uid = uid /\ c.name[2] = d}
      block == Block(old, Cardinality(batch))
      ids == Assign(block, batch, existing)
      moved == {c \in existing : c.name \in batch /\ ids[c.name] # c.id}
      held == {ids[n] : n \in batch}
  IN  /\ bars' = Remap(bars, moved, ids)
      /\ contracts' = {c \in contracts : c.id \notin held /\ c.name \notin batch}
                        \cup {[id |-> ids[n], uid |-> uid, name |-> n] : n \in batch}
      /\ expiries' = (expiries \ recorded)
           \cup {[old EXCEPT !.lo = block.lo, !.hi = block.hi,
                             !.n = Cardinality({c \in contracts' : c.uid = uid
                                                                   /\ c.name[2] = d})]}
      /\ mirror' = Rollup(expiries', mirror, uid)
      /\ taken' = IF block.lo = old.lo THEN taken ELSE UnitForBase(block.hi)

-----------------------------------------------------------------------------
(* The task rows. *)

Task(job, sheet, kind, r, d, id, name) ==
  [job |-> job, sheet |-> sheet, kind |-> kind, uid |-> r.uid, sym |-> r.sym, d |-> d,
   id |-> id, name |-> name, state |-> "pending"]

NextJob == 1 + Max({0} \cup {tasks[i].job : i \in DOMAIN tasks})
LiveJobs(uid) == {i \in DOMAIN tasks : tasks[i].uid = uid
                                       /\ tasks[i].state \in {"pending", "leased"}}
\* The claim follows the order of the rows in their job.  Discovery and chunks are
\* apart: one worker stands for discovery here, any other for the chunks.
NextUp(i) ==
  /\ tasks[i].state = "pending"
  /\ \A j \in 1 .. i - 1 : tasks[j].state = "pending"
                           => (tasks[j].kind = "chunk") # (tasks[i].kind = "chunk")

SetState(i, state) == tasks' = [tasks EXCEPT ![i].state = state]

\* What the planner leaves out: a contract whose chunk is on disk.
Unheld(rows) == {c \in rows : \A b \in bars : b.id # c.id}

Chunks(job, r, rows) ==
  SetToSeq({Task(job, TRUE, "chunk", r, c.name[2], c.id, c.name) : c \in rows})

-----------------------------------------------------------------------------
(* The routes (api/v1/underlyings.py, api/v1/expiries.py) and the nightly   *)
(* contract discovery.                                                      *)

At(a, op) == call[a].op = op
Answer(a) == call' = [call EXCEPT ![a] = Resting]

EditsAllowed ==
  "edits_unmirrored" \notin Freedoms =>
    \A r \in registry : \E m \in mirror : m.uid = r.uid

\* create_underlying, up to its reads: not registered, and the next number.
CreateUnderlying(a, sym) ==
  /\ At(a, "none") /\ Spend("calls", MaxCalls)
  /\ sym \notin {r.sym : r \in registry}
  /\ EditsAllowed
  /\ call' = [call EXCEPT ![a] =
       [op |-> "mirror", row |-> Row(1 + Max({0} \cup {r.uid : r \in registry}), sym, 1, TRUE)]]
  /\ UNCHANGED <<registry, duck, tasks, work>>

\* The mirror first: it owns the identifiers of the underlyings' own series.
CreateMirror(a) ==
  /\ At(a, "mirror")
  /\ LET known == {m \in mirror : m.uid = call[a].row.uid}
         spots == IF known # {} THEN {m.spot : m \in known} ELSE FreeSpots
         row == [call[a].row EXCEPT !.spot = Min(spots)]
     IN  IF spots = {}
           THEN Answer(a) /\ UNCHANGED duck
           ELSE UnderlyingWrite({row}) /\ UNCHANGED taken
                /\ call' = [call EXCEPT ![a] = [op |-> "declare", row |-> row]]
  /\ UNCHANGED <<registry, tasks, work, spent>>

\* The row goes in unless its number or its symbol is taken or the database refuses.
CreateRow(a) ==
  /\ At(a, "declare")
  /\ \/ /\ \A r \in registry : r.uid # call[a].row.uid /\ r.sym # call[a].row.sym
        /\ registry' = registry \cup {call[a].row} /\ Answer(a)
     \/ call' = [call EXCEPT ![a].op = "undo"] /\ UNCHANGED registry
  /\ UNCHANGED <<duck, tasks, work, spent>>

CreateUndone(a) ==
  /\ At(a, "undo") /\ DeleteUnderlying(call[a].row.uid, FALSE) /\ Answer(a)
  /\ UNCHANGED <<registry, tasks, work, spent>>

\* patch_underlying: the registry, and then the mirror from the row as it was read.
PatchUnderlying(a, r) ==
  /\ At(a, "none") /\ Spend("calls", MaxCalls) /\ EditsAllowed
  /\ LET row == [r EXCEPT !.active = ~@]
     IN  /\ registry' = (registry \ {r}) \cup {row}
         /\ call' = [call EXCEPT ![a] = [op |-> "remirror", row |-> row]]
  /\ UNCHANGED <<duck, tasks, work>>

PatchMirror(a) ==
  /\ At(a, "remirror") /\ UnderlyingWrite({call[a].row}) /\ Answer(a)
  /\ UNCHANGED <<registry, taken, tasks, work, spent>>

\* remove_underlying, up to its checks.
RemoveUnderlying(a, r) ==
  /\ At(a, "none") /\ Spend("calls", MaxCalls) /\ r.sym \notin Builtin
  /\ LiveJobs(r.uid) = {}
  /\ \E purge \in Purges :
       call' = [call EXCEPT ![a] = [op |-> "unlist", row |-> r, purge |-> purge]]
  /\ UNCHANGED <<registry, duck, tasks, work>>

RemoveMirror(a) ==
  /\ At(a, "unlist") /\ DeleteUnderlying(call[a].row.uid, call[a].purge)
  /\ call' = [call EXCEPT ![a].op = "undeclare"]
  /\ UNCHANGED <<registry, tasks, work, spent>>

RemoveRow(a) ==
  /\ At(a, "undeclare") /\ Answer(a)
  /\ registry' = {r \in registry : r.uid # call[a].row.uid}
  /\ UNCHANGED <<duck, tasks, work, spent>>

\* discover_expiries: a job with one task per window; a window is asked for once.
DiscoverExpiries(a, r) ==
  /\ At(a, "none") /\ Spend("calls", MaxCalls)
  /\ tasks' = Append(tasks, Task(NextJob, FALSE, "dates", r, 0, 0, SpotName(r.sym)))
  /\ UNCHANGED <<registry, duck, call, work>>

\* A sheet over every expiry of an underlying: the chains still to discover,
\* the chunks not held, the underlying's own series.
CommitSheet(a, r) ==
  LET mine == ExpiriesOf(expiries, r.uid)
      ask == {Task(NextJob, TRUE, "symbols", r, e.d, 0, SpotName(r.sym)) :
                e \in {x \in mine : x.lo = 0}}
  IN  /\ At(a, "none") /\ Spend("calls", MaxCalls)
      /\ \E e \in mine : e.lo # 0
      /\ LET new == SetToSeq(ask)
                      \o Chunks(NextJob, r, Unheld({c \in contracts : c.uid = r.uid}))
         IN  new # <<>> /\ tasks' = tasks \o new
      /\ UNCHANGED <<registry, duck, call, work>>

\* run_contract_discovery: every expiry whose contracts were never discovered.
FireContractDiscovery ==
  LET due(r) == {Task(NextJob, FALSE, "symbols", r, e.d, 0, SpotName(r.sym)) :
                   e \in {x \in ExpiriesOf(expiries, r.uid) : x.lo = 0}}
      new == UNION {due(r) : r \in {x \in registry : x.active}}
  IN  /\ "fires_any_time" \notin Freedoms => \A a \in Callers : At(a, "none")
      /\ new # {} /\ Spend("calls", MaxCalls)
      /\ tasks' = tasks \o SetToSeq(new)
      /\ UNCHANGED <<registry, duck, call, work>>

-----------------------------------------------------------------------------
(* The discovery handlers. *)

Leased == tasks[work.task]
WorkAt(step) == work.step = step
Step(step) == work' = [work EXCEPT !.step = step]

\* A discovery task is claimed, and ensure_underlying_mirror reads both tables.
Lease(i) ==
  /\ WorkAt("idle") /\ NextUp(i) /\ tasks[i].kind # "chunk"
  /\ LET declared == {r \in registry : r.uid = tasks[i].uid}
         mirrored == \E m \in mirror : m.uid = tasks[i].uid
     IN  IF ~mirrored /\ declared = {}
           THEN SetState(i, "failed") /\ UNCHANGED work
           ELSE /\ SetState(i, "leased")
                /\ work' = IF mirrored THEN [step |-> "ready", task |-> i]
                           ELSE [step |-> "mirroring", task |-> i,
                                 row |-> CHOOSE r \in declared : TRUE]
  /\ UNCHANGED <<registry, duck, call, spent>>

MirrorFirst ==
  /\ WorkAt("mirroring") /\ UnderlyingWrite({work.row}) /\ Step("ready")
  /\ UNCHANGED <<registry, taken, tasks, call, spent>>

\* handle_expiry_dates: the response, and the batch it becomes.
HandleExpiryDates ==
  /\ WorkAt("ready") /\ Leased.kind = "dates"
  /\ \E days \in SUBSET Dates : ExpiryBatchWrite(Leased.uid, days)
  /\ Step("planned") /\ UNCHANGED <<registry, tasks, call, spent>>

\* handle_underlying_symbols: the response, and the batch it becomes.  A chain
\* that has expired does not lose strikes: only a short response leaves one out.
HandleUnderlyingSymbols ==
  /\ WorkAt("ready") /\ Leased.kind = "symbols" /\ Spend("answers", MaxAnswers)
  /\ \E strikes \in Responses :
       LET batch == {<<Leased.sym, Leased.d, k>> : k \in strikes}
           known == {c.name : c \in {x \in contracts : x.uid = Leased.uid
                                                       /\ x.name[2] = Leased.d}}
       IN  /\ "short_response" \notin Freedoms => known \subseteq batch
           /\ ContractBatchWrite(Leased.uid, Leased.d, batch)
  /\ Step("written") /\ UNCHANGED <<registry, tasks, call>>

\* _enqueue_candle_chunks: the planner's chunks for this expiry, when the job
\* has a sheet, save the rows the job already has.  When planning raises, the
\* handler logs it and the discovery is done without them.
EnqueueCandleChunks ==
  /\ WorkAt("written")
  /\ LET mine == {c \in contracts : c.uid = Leased.uid /\ c.name[2] = Leased.d}
         rows == {tasks[i].id : i \in {j \in DOMAIN tasks : tasks[j].job = Leased.job
                                                            /\ tasks[j].kind = "chunk"}}
         new == {c \in Unheld(mine) : c.id \notin rows}
     IN  \/ Leased.sheet /\ tasks' = tasks \o Chunks(Leased.job, Leased, new)
         \/ UNCHANGED tasks
  /\ Step("planned") /\ UNCHANGED <<registry, duck, call, spent>>

Ack ==
  /\ WorkAt("planned") /\ SetState(work.task, "done") /\ work' = [step |-> "idle"]
  /\ UNCHANGED <<registry, duck, call, spent>>

\* A chunk: the bars are stored under the identifier the row carries.
StoreChunk(i) ==
  /\ NextUp(i) /\ tasks[i].kind = "chunk"
  /\ bars' = bars \cup {[id |-> tasks[i].id, name |-> tasks[i].name]}
  /\ SetState(i, "done")
  /\ UNCHANGED <<registry, mirror, expiries, contracts, taken, call, work, spent>>

\* Identifiers that bars are stored under, or will be, and that no contract has.  A
\* renumbering leaves the chunk rows of SQLite as they are, so their bars are strays,
\* which no purge finds.
Strays ==
  {i \in {b.id : b \in bars} \cup {tasks[j].id : j \in {k \in DOMAIN tasks :
       tasks[k].kind = "chunk" /\ tasks[k].state \in {"pending", "leased"}}} :
     \A c \in contracts : c.id # i}

\* The process dies; at the next start the leased rows are claimable and every
\* registered underlying is mirrored before anything is served.  The file may be
\* a restored one, whose sequence is behind its tables.
Restart ==
  /\ Spend("crashes", MaxCrashes)
  /\ call' = [a \in Callers |-> Resting] /\ work' = [step |-> "idle"]
  /\ tasks' = [i \in DOMAIN tasks |->
                 [tasks[i] EXCEPT !.state = IF @ = "leased" THEN "pending" ELSE @]]
  /\ UnderlyingWrite(registry) /\ UNCHANGED registry
  /\ taken' \in {taken} \cup
       (IF Strays = {} \/ "behind_strays" \in Freedoms THEN {0} ELSE {})

Next ==
  \/ \E a \in Callers :
       \/ \E s \in Symbols : CreateUnderlying(a, s)
       \/ CreateMirror(a) \/ CreateRow(a) \/ CreateUndone(a)
       \/ \E r \in registry : \/ PatchUnderlying(a, r) \/ RemoveUnderlying(a, r)
                              \/ DiscoverExpiries(a, r) \/ CommitSheet(a, r)
       \/ PatchMirror(a) \/ RemoveMirror(a) \/ RemoveRow(a)
  \/ FireContractDiscovery
  \/ \E i \in DOMAIN tasks : Lease(i) \/ StoreChunk(i)
  \/ MirrorFirst \/ HandleExpiryDates \/ HandleUnderlyingSymbols
  \/ EnqueueCandleChunks \/ Ack \/ Restart

Spec == Init /\ [][Next]_vars

-----------------------------------------------------------------------------
(* What the catalogue promises. *)

\* Each expiry whose contracts are known has a block of identifiers of its own:
\* no two blocks meet, and none reaches down to the underlyings' own series.
\* (reserve_block, allocate_contract_block; also with a sequence that is behind)
BlocksDisjoint ==
  LET blocks == {e \in expiries : e.lo # 0}
  IN  \A e, f \in blocks : /\ e.lo > SpotMax /\ e.lo <= e.hi
                           /\ e # f => e.hi < f.lo \/ f.hi < e.lo

\* A contract's identifier lies in the block of its expiry, so a query that prunes
\* on the block sees every contract of the chain.  (assign_contract_ids)
IdsInBlock ==
  \A c \in contracts : c.name[2] # 0 =>
    \E e \in expiries : e.uid = c.uid /\ e.d = c.name[2] /\ c.id \in e.lo .. e.hi

\* A stored bar is never filed under an identifier that stands for another name.
BarsBelong ==
  \A b \in bars : \A c \in contracts : c.id = b.id => c.name = b.name

\* The counts on the cards are those of the rows below them.
RollupsMatch ==
  /\ \A e \in expiries :
       e.n = Cardinality({c \in contracts : c.uid = e.uid /\ c.name[2] = e.d})
  /\ \A m \in mirror :
       /\ m.expiries = Cardinality(ExpiriesOf(expiries, m.uid))
       /\ m.contracts = Cardinality({c \in contracts : c.uid = m.uid /\ c.name[2] # 0})

\* Between calls, a registered underlying has the mirror row every query joins to,
\* with the same series and the same flag, before anything is filed under it.
\* (create_underlying, patch_underlying, ensure_underlying_mirror, mirror_underlyings)
RegistryMirrored ==
  \A r \in registry :
    \/ \E a \in Callers : ~At(a, "none") /\ call[a].row.uid = r.uid
    \/ \E m \in mirror : Row(m.uid, m.sym, m.spot, m.active) = r
    \/ \A m \in mirror \cup expiries \cup contracts : m.uid # r.uid

\* Nothing in the catalogue outlives the underlying it hangs on: its number may be
\* given to another.  (remove_underlying refuses while a job is live)
RowsHaveOwners ==
  /\ \A e \in expiries : \E r \in registry : r.uid = e.uid
  /\ \A c \in contracts : c.name[2] # 0 =>
       \E r \in registry : r.uid = c.uid /\ r.sym = c.name[1]

\* A discovery that is run again after a kill gives its job no row twice.
FollowUpsOnce ==
  \A i, j \in DOMAIN tasks :
    i # j /\ tasks[i].kind = "chunk" /\ tasks[j].kind = "chunk" /\ tasks[i].job = tasks[j].job
      => tasks[i].id # tasks[j].id

\* The bars of a contract stay with it: whatever was stored under its identifier
\* is found under the one it has next, as long as the contract is known.
BarsFollow ==
  [][\A c \in contracts : \A k \in contracts' :
       c.name = k.name /\ [id |-> c.id, name |-> c.name] \in bars
         => [id |-> k.id, name |-> k.name] \in bars']_vars

\* A contract goes when its underlying is removed, and at no other time: "a contract
\* this response does not mention is left alone".  (ContractBatchWrite)
KnownStaysKnown ==
  [][\A c \in {x \in contracts : x.name[2] # 0} :
       \/ \E k \in contracts' : k.name = c.name
       \/ ~\E m \in mirror' : m.uid = c.uid]_vars

\* Every identifier has one owner that exists, in its own block and in both databases,
\* and what is derived from the rows agrees with them, whatever was discovered, deleted
\* or killed half way.
CatalogueSound ==
  /\ TypeOK /\ BlocksDisjoint /\ IdsInBlock /\ BarsBelong
  /\ RollupsMatch /\ RegistryMirrored /\ RowsHaveOwners /\ FollowUpsOnce

\* A contract keeps its row, and its bars stay its own, through every renumbering.
IdentityKept == BarsFollow /\ KnownStaysKnown
=============================================================================
