------------------------------ MODULE KeyRing -------------------------------
(* The two levels of keys (security/keys.py, security/kek.py, bootstrap.py): a key     *)
(* file wraps the data keys in the crypto_key table, a data key encrypts the stored   *)
(* fields.  Every statement on the table commits by itself (`EngineDbapi.execute`),   *)
(* and what is encrypted is stored by its caller, later.                              *)
(* A key is a number.  0 is no key, and a file cut short by a kill.                   *)
EXTENDS Integers, FiniteSets, FiniteSetsExt

CONSTANTS
  Fields,         \* stored fields
  MaxVersion,     \* MAX_KEY_VERSION
  MaxKills

Versions == 1..MaxVersion
Providers == {"keyfile", "keyring"}
Absent == -1
NoRow == [kek |-> Absent, state |-> "none"]

VARIABLES
  material,       \* what each provider has stored: a key, 0 when short, or Absent
  made,           \* provider keys generated so far
  row,            \* crypto_key: by version, the key that wraps it and its state
  up,             \* "down", "up", "refused": the start raised
  provider,       \* the KeyManager's provider
  active, loaded, \* its cache
  field,          \* the version each field is stored under, 0 before the first save
  writing,        \* a save under way: the version its field was encrypted under, or 0
  op,             \* the operation under way and the rows it still has to write
  kills,
  cut,            \* a kill fell into a first start, a rotation or a rewrap, or after a rewrap
                  \*   onto another provider, and no start succeeded since
  late            \* the fields stored after the version they are under was retired

vars == <<material, made, row, up, provider, active, loaded, field, writing, op, kills,
          cut, late>>

NoOp == [name |-> "none", rows |-> {}]
Usable == {v \in Versions : row[v].state \in {"active", "retiring"}}
Active == {v \in Versions : row[v].state = "active"}
Used == {v \in Versions : row[v] # NoRow}

TypeOK ==
  /\ material \in [Providers -> Absent..made] /\ made \in Nat
  /\ row \in [Versions -> [kek : Absent..made, state : {"none", "active", "retiring", "retired"}]]
  /\ up \in {"down", "up", "refused"} /\ provider \in Providers
  /\ active \in 0..MaxVersion /\ loaded \subseteq Versions
  /\ field \in [Fields -> 0..MaxVersion] /\ writing \in [Fields -> 0..MaxVersion]
  /\ op \in [name : {"none", "rotate", "rewrap", "settle"}, rows : SUBSET Versions]
  /\ kills \in 0..MaxKills /\ cut \in BOOLEAN /\ late \subseteq Fields
  /\ up = "up" /\ op = NoOp => loaded = Usable /\ Active = {active}

Init ==
  /\ material = [p \in Providers |-> Absent] /\ made = 0
  /\ row = [v \in Versions |-> NoRow]
  /\ up = "down" /\ provider = "keyfile" /\ active = 0 /\ loaded = {}
  /\ field = [f \in Fields |-> 0] /\ writing = [f \in Fields |-> 0]
  /\ op = NoOp /\ kills = 0 /\ cut = FALSE /\ late = {}

\* `_load`: every usable row unwraps under the provider's key, and one of them is active.
Loads(key, rs) ==
  LET usable == {v \in Versions : rs[v].state \in {"active", "retiring"}} IN
  /\ key > 0 /\ usable # {}
  /\ \A v \in usable : rs[v].kek = key
  /\ Cardinality({v \in usable : rs[v].state = "active"}) = 1
Cache(rs) ==
  /\ loaded' = {v \in Versions : rs[v].state \in {"active", "retiring"}}
  /\ active' = CHOOSE v \in Versions : rs[v].state = "active"

\* `provision` makes material only where there is none; a short file is there.
Provisioned(p) == material[p] # Absent

\* `ensure_key_hierarchy` over the key file: provision it, and mint the first data key
\* when the table has no active one.
Start ==
  /\ up = "down" /\ provider = "keyfile"
  /\ LET key == IF Provisioned("keyfile") THEN material["keyfile"] ELSE made + 1
         first == IF Used = {} THEN 1 ELSE Max(Used) + 1
         rows == IF Active # {} \/ key <= 0 \/ first > MaxVersion THEN row
                 ELSE [row EXCEPT ![first] = [kek |-> key, state |-> "active"]] IN
       /\ material' = [material EXCEPT !["keyfile"] = key]
       /\ made' = IF Provisioned("keyfile") THEN made ELSE made + 1
       /\ row' = rows
       /\ IF Loads(key, rows) THEN up' = "up" /\ Cache(rows) /\ cut' = FALSE
          ELSE up' = "refused" /\ UNCHANGED <<active, loaded, cut>>
  /\ UNCHANGED <<provider, field, writing, op, kills, late>>

\* A kill.  In a first start it falls between the key file's creation and its bytes, and
\* leaves a short file, or before the first data key.
Kill ==
  /\ up # "refused" /\ kills < MaxKills /\ kills' = kills + 1
  /\ \/ up = "up" /\ UNCHANGED <<material, made>>
     \/ /\ up = "down" /\ ~Provisioned("keyfile")
        /\ \E key \in {0, made + 1} :
             material' = [material EXCEPT !["keyfile"] = key] /\ made' = made + (IF key = 0 THEN 0 ELSE 1)
  /\ cut' = (cut \/ up = "down" \/ op # NoOp \/ provider # "keyfile")
  /\ up' = "down" /\ provider' = "keyfile" /\ active' = 0 /\ loaded' = {}
  /\ writing' = [f \in Fields |-> 0] /\ op' = NoOp
  /\ UNCHANGED <<row, field, late>>

Ready == up = "up" /\ op = NoOp

\* `encrypt_field` takes the active version under the lock; the caller stores the blob
\* in a transaction of its own.
Encrypt(f) ==
  /\ Ready /\ writing[f] = 0
  /\ writing' = [writing EXCEPT ![f] = active]
  /\ UNCHANGED <<material, made, row, up, provider, active, loaded, field, op, kills, cut, late>>

StoreField(f) ==
  /\ up = "up" /\ writing[f] # 0
  /\ field' = [field EXCEPT ![f] = writing[f]] /\ writing' = [writing EXCEPT ![f] = 0]
  /\ late' = IF row[writing[f]].state = "retired" THEN late \cup {f} ELSE late \ {f}
  /\ UNCHANGED <<material, made, row, up, provider, active, loaded, op, kills, cut>>

\* `reencrypt`, the sweep after a rotation: a stored field is read under its own version
\* and comes back under the active one.
Sweep(f) ==
  /\ Ready /\ field[f] \in loaded /\ field[f] # active /\ writing[f] = 0
  /\ field' = [field EXCEPT ![f] = active]
  /\ UNCHANGED <<material, made, row, up, provider, active, loaded, writing, op, kills, cut, late>>

\* `rotate_dek`: the new active row is inserted, and then the old one is set retiring.
RotateInsert ==
  /\ Ready /\ Max(Used) < MaxVersion
  /\ LET v == Max(Used) + 1 IN
       /\ row' = [row EXCEPT ![v] = [kek |-> material[provider], state |-> "active"]]
       /\ op' = [name |-> "rotate", rows |-> {active}]
  /\ UNCHANGED <<material, made, up, provider, active, loaded, field, writing, kills, cut, late>>

SetState(rs, old, state) == [v \in Versions |-> IF v \in old THEN [rs[v] EXCEPT !.state = state] ELSE rs[v]]

RotateRetire ==
  /\ op.name = "rotate"
  /\ row' = SetState(row, op.rows, "retiring")
  /\ op' = NoOp
  /\ IF Loads(material[provider], row') THEN Cache(row') /\ UNCHANGED up
     ELSE up' = "refused" /\ UNCHANGED <<active, loaded>>
  /\ UNCHANGED <<material, made, provider, field, writing, kills, cut, late>>

\* The caller retires a version once no field is stored under it.  A save still under
\* way is not a stored field.
NothingUnder(v) == \A f \in Fields : field[f] # v

RetireUnused(v) == v # active
MayRetire(v) == v # active /\ NothingUnder(v)

\* `retire_version`
Retire(v) ==
  /\ Ready /\ row[v].state = "retiring" /\ MayRetire(v)
  /\ row' = SetState(row, {v}, "retired")
  /\ Cache(row')
  /\ UNCHANGED <<material, made, up, provider, field, writing, op, kills, cut, late>>

\* `rewrap` onto the other provider: its material, then the rows one by one, then the
\* switch, and only then the old material goes.
Other == CHOOSE p \in Providers : p # provider
RewrapBegin ==
  /\ Ready /\ made < MaxVersion + 1
  /\ material' = [material EXCEPT ![Other] = IF Provisioned(Other) THEN @ ELSE made + 1]
  /\ made' = IF Provisioned(Other) THEN made ELSE made + 1
  /\ op' = [name |-> "rewrap", rows |-> Usable]
  /\ UNCHANGED <<row, up, provider, active, loaded, field, writing, kills, cut, late>>

RewrapRow(v) ==
  /\ op.name = "rewrap" /\ v = Min(op.rows)
  /\ row' = [row EXCEPT ![v].kek = material[Other]]
  /\ op' = IF op.rows = {v} THEN [name |-> "settle", rows |-> {}]
           ELSE [op EXCEPT !.rows = @ \ {v}]
  /\ UNCHANGED <<material, made, up, provider, active, loaded, field, writing, kills, cut, late>>

DestroyOld(p) == p

RewrapSettle(destroy) ==
  /\ op.name = "settle"
  /\ provider' = Other /\ op' = NoOp
  /\ material' = IF destroy THEN [material EXCEPT ![DestroyOld(provider)] = Absent] ELSE material
  /\ Cache(row)
  /\ UNCHANGED <<made, row, up, field, writing, kills, cut, late>>

Next ==
  \/ Start \/ Kill
  \/ \E f \in Fields : Encrypt(f) \/ StoreField(f) \/ Sweep(f)
  \/ RotateInsert \/ RotateRetire
  \/ \E v \in Versions : Retire(v) \/ RewrapRow(v)
  \/ RewrapBegin \/ \E destroy \in BOOLEAN : RewrapSettle(destroy)

Spec == Init /\ [][Next]_vars

\* Nothing becomes unreadable: the version of every stored field stays in use, and is among
\* the loaded ones while the process runs, through rotations, sweeps, rewraps, retirements
\* and a kill between any two of their statements.  But for a field that its caller stored
\* when the version it had been encrypted under was retired.
EveryFieldReads ==
  \A f \in Fields \ late :
    field[f] # 0 => field[f] \in Usable /\ (up = "up" => field[f] \in loaded)

\* The application starts again: no start is refused for want of one active key that the
\* provider's material unwraps, unless a kill cut an operation short or the provider is not
\* the one a start takes.
NeverRefused == up = "refused" => cut

\* Every usable data key can be unwrapped with material that some provider still has.
NoKeyIsOrphaned == \A v \in Usable : row[v].kek > 0 /\ \E p \in Providers : material[p] = row[v].kek

\* The three, with the types.
KeysSound == TypeOK /\ EveryFieldReads /\ NeverRefused /\ NoKeyIsOrphaned
=============================================================================
