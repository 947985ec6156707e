--------------------------- MODULE CatalogueProofs ---------------------------
(***************************************************************************)
(* The catalogue, for every number of underlyings, expiries, strikes and   *)
(* tasks, all sizes of blocks and every bound.  Two inductive invariants:  *)
(*   CatalogueInv the blocks are whole units that do not meet, a contract  *)
(*                of a chain has an identifier to itself, in the block of  *)
(*                its expiry, and a job has one chunk of an identifier;    *)
(*                for any number of requests at once and every freedom of  *)
(*                the environment but short responses, where it says so    *)
(*   SoleInv      one request at a time, and no freedom taken: a number, a *)
(*                symbol and a series are of one underlying, the same in   *)
(*                both databases, but where a request, the worker or a     *)
(*                kill is between two writes; the counts are those of the  *)
(*                rows; every chunk that is out, and every bar, is of the  *)
(*                contract that has its identifier, or of none, and then   *)
(*                the sequence is past it                                  *)
(* SoleInv is what the renumbering of a chain and the reuse of a deleted   *)
(* number need: the promise that no bar is filed under another contract's  *)
(* name says nothing of a chunk that is still to be stored.                *)
(***************************************************************************)
EXTENDS Catalogue, FiniteSetTheorems, WellFoundedInduction, TLAPS
-----------------------------------------------------------------------------
(* Numbers and places. *)

\* A set of natural numbers that has a member has a least one.
LEMMA LeastExists ==
  ASSUME NEW S \in SUBSET Nat, S # {}
  PROVE  \E x \in S : \A y \in S : x <= y
<1> DEFINE R == OpToRel(<, Nat)
<1>1. IsWellFoundedOn(R, Nat) BY NatLessThanWellFounded
<1>2. \A x, y \in Nat : x < y => <<x, y>> \in R BY DEF OpToRel
<1> HIDE DEF R
<1>3. PICK x \in S : \A y \in S : ~(<<y, x>> \in R) BY <1>1, WFMin
<1>4. x \in Nat /\ \A y \in S : y \in Nat /\ ~(y < x) BY <1>2, <1>3
<1>5. \A y \in S : x <= y BY <1>4
<1> QED BY <1>5

\* A bounded one has a greatest.
LEMMA GreatestExists ==
  ASSUME NEW n \in Nat, NEW S \in SUBSET (0 .. n), S # {}
  PROVE  \E x \in S : \A y \in S : x >= y
<1> DEFINE T == {n - x : x \in S}
<1>0. PICK z \in S : TRUE OBVIOUS
<1>1. T \subseteq Nat /\ n - z \in T BY <1>0
<1>2. PICK t \in T : \A u \in T : t <= u BY <1>1, LeastExists
<1>3. PICK x \in S : t = n - x BY <1>2
<1>4. \A y \in S : n - x <= n - y BY <1>2, <1>3
<1>5. x \in Nat /\ \A y \in S : y \in Nat OBVIOUS
<1> QED BY <1>4, <1>5

\* Places that differ fill the whole range.
LEMMA PlacesFilled ==
  ASSUME NEW P, IsFiniteSet(P), NEW place \in [P -> 1 .. Cardinality(P)],
         \A a, b \in P : place[a] = place[b] => a = b, NEW n \in 1 .. Cardinality(P)
  PROVE  \E r \in P : place[r] = n
<1>1. Cardinality(P) \in Nat BY FS_CardinalityType
<1>2. IsFiniteSet(1 .. Cardinality(P)) /\ Cardinality(1 .. Cardinality(P)) = Cardinality(P)
  BY <1>1, FS_Interval
<1>3. place \in Injection(P, 1 .. Cardinality(P)) BY DEF Injection, IsInjective
<1>4. place \in Surjection(P, 1 .. Cardinality(P)) BY <1>2, <1>3, FS_Injection
<1> QED BY <1>4 DEF Surjection

-----------------------------------------------------------------------------
(* Identifiers, for any number of requests at once. *)

RegistryRows == [uid : Nat, sym : Symbols, spot : 1 .. SpotMax, active : BOOLEAN]
ExpiryRows == [uid : Nat, d : Dates, lo : Nat, hi : Nat, n : Nat]
ContractRows == [id : Nat, uid : Nat, name : Names]
TaskRows == [job : Nat, sheet : BOOLEAN, kind : {"dates", "symbols", "chunk"}, uid : Nat,
             sym : Symbols, d : Dates \cup {0}, id : Nat, name : Names,
             state : {"pending", "leased", "done", "failed"}]
\* A request of the API between its steps; a row without a mirror has no series yet.
Calls ==
  [op : {"none"}]
  \cup [op : {"mirror"}, row : [uid : Nat, sym : Symbols, spot : Nat, active : BOOLEAN]]
  \cup [op : {"declare", "undo", "remirror"}, row : RegistryRows]
  \cup [op : {"unlist", "undeclare"}, row : RegistryRows, purge : BOOLEAN]
Works ==
  [step : {"idle"}]
  \cup [step : {"ready", "written", "planned"}, task : Nat]
  \cup [step : {"mirroring", "ready", "written", "planned"}, task : Nat, row : RegistryRows]

MirrorFits(m) ==
  /\ DOMAIN m = {"uid", "sym", "spot", "active", "expiries", "contracts"}
  /\ m.spot \in 1 .. SpotMax

CatalogueShape ==
  /\ registry \subseteq RegistryRows /\ IsFiniteSet(registry)
  /\ \A x, y \in registry : x.uid = y.uid => x = y
  /\ \A m \in mirror : MirrorFits(m)
  /\ taken \in Nat
  /\ call \in [Callers -> Calls] /\ work \in Works
  /\ work.step # "idle" => work.task \in DOMAIN tasks
TasksFit ==
  /\ tasks \in Seq(TaskRows)
  /\ \A i \in DOMAIN tasks : tasks[i].kind = "symbols" => tasks[i].d \in Dates

\* A block is made of whole units of the sequence.
WholeUnits(lo, hi) ==
  \E u, k \in Nat \ {0} : lo = BaseForUnit(u) /\ hi = BaseForUnit(u + k) - 1
BlocksFit ==
  /\ expiries \subseteq ExpiryRows /\ IsFiniteSet(expiries)
  /\ \A e, f \in expiries : e.uid = f.uid /\ e.d = f.d => e = f
  /\ \A e \in expiries : IF e.lo = 0 THEN e.hi = 0 ELSE WholeUnits(e.lo, e.hi)
  /\ BlocksDisjoint

Chain(c) == c.name[2] # 0
\* The contracts of the chains have an identifier each, past those of the series of
\* the underlyings; an underlying has no identifier twice.
OneEach ==
  \A c, k \in contracts : Chain(c) /\ Chain(k) /\ (c.id = k.id \/ c.name = k.name) => c = k
ContractsFit ==
  /\ contracts \subseteq ContractRows /\ IsFiniteSet(contracts)
  /\ \A c \in contracts : IF Chain(c) THEN c.id > SpotMax ELSE c.id <= SpotMax
  /\ OneEach
  /\ \A c, k \in contracts : c.uid = k.uid /\ c.id = k.id => c = k
  /\ "short_response" \notin Freedoms => IdsInBlock

CatalogueInv == CatalogueShape /\ TasksFit /\ BlocksFit /\ ContractsFit /\ FollowUpsOnce

\* The images of a finite set are finitely many.
LEMMA ImagesFinite ==
  ASSUME NEW D, IsFiniteSet(D), NEW f
  PROVE  IsFiniteSet({f[x] : x \in D}) /\ Cardinality({f[x] : x \in D}) <= Cardinality(D)
<1> DEFINE S == {f[x] : x \in D}
           g == [x \in D |-> f[x]]
<1>1. g \in Surjection(D, S)
  <2>1. g \in [D -> S] OBVIOUS
  <2>2. \A t \in S : \E x \in D : g[x] = t OBVIOUS
  <2> QED BY <2>1, <2>2 DEF Surjection
<1> QED BY <1>1, FS_Surjection

Lower(S, i) == {j \in S : j < i}
\* The members of a finite set of numbers are told apart by how many are below them,
\* and every number of them below the whole is met.
LEMMA Ranked ==
  ASSUME NEW S \in SUBSET Nat, IsFiniteSet(S)
  PROVE  /\ Cardinality(S) \in Nat
         /\ \A i \in S : Cardinality(Lower(S, i)) \in 0 .. Cardinality(S) - 1
         /\ \A i, j \in S : i < j => Cardinality(Lower(S, i)) < Cardinality(Lower(S, j))
         /\ \A n \in 0 .. Cardinality(S) - 1 : \E i \in S : Cardinality(Lower(S, i)) = n
<1> DEFINE n == Cardinality(S)
<1>1. n \in Nat BY FS_CardinalityType
<1>2. ASSUME NEW i \in S
      PROVE  /\ IsFiniteSet(Lower(S, i)) /\ Cardinality(Lower(S, i)) \in Nat
             /\ Cardinality(Lower(S, i)) < n
  <2>1. Lower(S, i) \subseteq S /\ i \notin Lower(S, i) BY DEF Lower
  <2>2. IsFiniteSet(Lower(S, i)) /\ Cardinality(Lower(S, i)) \in Nat
    BY <2>1, FS_Subset, FS_CardinalityType
  <2>3. Cardinality(Lower(S, i) \cup {i}) = Cardinality(Lower(S, i)) + 1
    BY <2>1, <2>2, FS_AddElement
  <2>4. Cardinality(Lower(S, i) \cup {i}) <= n BY <2>1, FS_Subset
  <2> QED BY <1>1, <2>2, <2>3, <2>4
<1>3. ASSUME NEW i \in S, NEW j \in S, i < j
      PROVE  Cardinality(Lower(S, i)) < Cardinality(Lower(S, j))
  <2>0. i \in Nat /\ j \in Nat /\ \A k \in S : k \in Nat OBVIOUS
  <2>1. Lower(S, i) \cup {i} \subseteq Lower(S, j) /\ i \notin Lower(S, i)
    <3>1. \A k \in S : k < i => k < j BY <1>3, <2>0
    <3>2. ~(i < i) BY <2>0
    <3> QED BY <1>3, <3>1, <3>2 DEF Lower
  <2>2. Cardinality(Lower(S, i) \cup {i}) = Cardinality(Lower(S, i)) + 1
    BY <1>2, <2>1, FS_AddElement
  <2>3. Cardinality(Lower(S, i) \cup {i}) <= Cardinality(Lower(S, j))
    BY <1>2, <2>1, FS_Subset
  <2> QED BY <1>2, <2>2, <2>3
<1> DEFINE place == [i \in S |-> 1 + Cardinality(Lower(S, i))]
<1>4. \A i \in S : place[i] = 1 + Cardinality(Lower(S, i)) OBVIOUS
<1>5. place \in [S -> 1 .. n] BY <1>1, <1>2
<1>6. \A i, j \in S : place[i] = place[j] => i = j
  <2> SUFFICES ASSUME NEW i \in S, NEW j \in S, i # j PROVE place[i] # place[j] OBVIOUS
  <2>1. i < j \/ j < i OBVIOUS
  <2>2. Cardinality(Lower(S, i)) # Cardinality(Lower(S, j)) BY <1>2, <1>3, <2>1
  <2> HIDE DEF place
  <2> QED BY <1>2, <1>4, <2>2
<1> HIDE DEF place
<1>7. ASSUME NEW k \in 0 .. n - 1 PROVE \E i \in S : Cardinality(Lower(S, i)) = k
  <2>1. k + 1 \in 1 .. n BY <1>1
  <2>2. PICK i \in S : place[i] = k + 1 BY <1>5, <1>6, <2>1, PlacesFilled
  <2> QED BY <1>2, <1>4, <2>2
<1> QED BY <1>1, <1>2, <1>3, <1>7

\* A finite set of numbers that has a member has a greatest one.
LEMMA MaxIsGreatest ==
  ASSUME NEW S \in SUBSET Nat, IsFiniteSet(S), S # {}
  PROVE  Max(S) \in S /\ \A y \in S : Max(S) >= y
<1> DEFINE n == Cardinality(S)
           R == {Cardinality(Lower(S, i)) : i \in S}
<1>1. n \in Nat /\ \A i \in S : Cardinality(Lower(S, i)) \in 0 .. n - 1 BY Ranked
<1>2. R \subseteq 0 .. n /\ R # {}
  <2>1. 0 .. n - 1 \subseteq 0 .. n BY <1>1
  <2>2. R \subseteq 0 .. n - 1 BY <1>1
  <2>3. \E i : i \in S OBVIOUS
  <2> QED BY <2>1, <2>2, <2>3
<1>3. PICK r \in R : \A q \in R : r >= q BY <1>1, <1>2, GreatestExists
<1>4. PICK i \in S : r = Cardinality(Lower(S, i)) BY <1>3
<1>5. ASSUME NEW j \in S PROVE i >= j
  <2>1. CASE i < j
    <3>1. Cardinality(Lower(S, i)) < Cardinality(Lower(S, j)) BY <2>1, Ranked
    <3>2. Cardinality(Lower(S, j)) \in R OBVIOUS
    <3>3. r >= Cardinality(Lower(S, j)) BY <1>3, <3>2
    <3> QED BY <1>1, <1>4, <3>1, <3>3
  <2> QED BY <2>1
<1> QED BY <1>5 DEF Max

LEMMA MinIsLeast ==
  ASSUME NEW S \in SUBSET Nat, S # {} PROVE Min(S) \in S /\ \A y \in S : Min(S) <= y
BY LeastExists DEF Min

\* A unit of the sequence ends where the next begins.
LEMMA UnitsFollow ==
  /\ BlockSize \in Nat \ {0} /\ SpotMax \in Nat
  /\ \A u \in Nat \ {0} : BaseForUnit(u) \in Nat /\ BaseForUnit(u) > SpotMax
  /\ \A u, v \in Nat \ {0} : u <= v => BaseForUnit(u) <= BaseForUnit(v)
  /\ \A u, v \in Nat \ {0} : u < v => BaseForUnit(u) + BlockSize <= BaseForUnit(v)
  /\ \A u, k \in Nat \ {0} : BaseForUnit(u) + k * BlockSize = BaseForUnit(u + k)
  /\ \A u \in Nat \ {0} : UnitForBase(BaseForUnit(u)) = u
<1>0. BlockSize \in Nat \ {0} /\ SpotMax \in Nat BY CatalogueAssumption
<1>1. ASSUME NEW u \in Nat \ {0}
      PROVE  (u - 1) * BlockSize \in Nat /\ BaseForUnit(u) \in Nat /\ BaseForUnit(u) > SpotMax
             /\ BaseForUnit(u) = SpotMax + 1 + (u - 1) * BlockSize
  BY <1>0 DEF BaseForUnit, FirstBlock
<1>2. ASSUME NEW u \in Nat \ {0}, NEW v \in Nat \ {0}, u < v
      PROVE  BaseForUnit(u) + BlockSize <= BaseForUnit(v)
  <2>1. v - u - 1 \in Nat /\ v - 1 = (u - 1) + 1 + (v - u - 1) BY <1>2
  <2>2. PICK w \in Nat : w = v - u - 1 BY <2>1
  <2>3. PICK t \in Nat : t = u - 1 OBVIOUS
  <2>4. (t + 1 + w) * BlockSize = t * BlockSize + BlockSize + w * BlockSize BY <1>0
  <2>5. w * BlockSize \in Nat /\ t * BlockSize \in Nat BY <1>0
  <2>6. (v - 1) * BlockSize = t * BlockSize + BlockSize + w * BlockSize
    BY <2>1, <2>2, <2>3, <2>4
  <2>7. BaseForUnit(u) = SpotMax + 1 + t * BlockSize BY <1>1, <2>3
  <2>8. BaseForUnit(v) = SpotMax + 1 + (v - 1) * BlockSize BY <1>1
  <2>9. PICK p, r \in Nat : p = t * BlockSize /\ r = w * BlockSize BY <2>5
  <2>10. BaseForUnit(v) = SpotMax + 1 + (p + BlockSize + r)
    BY <2>6, <2>8, <2>9
  <2> QED BY <1>0, <2>7, <2>9, <2>10
<1>3. ASSUME NEW u \in Nat \ {0}, NEW v \in Nat \ {0}, u <= v
      PROVE  BaseForUnit(u) <= BaseForUnit(v)
  <2>1. CASE u < v BY <1>0, <1>1, <1>2, <2>1
  <2>2. CASE u = v BY <1>1, <2>2
  <2> QED BY <1>3, <2>1, <2>2
<1>4. ASSUME NEW u \in Nat \ {0}, NEW k \in Nat \ {0}
      PROVE  BaseForUnit(u) + k * BlockSize = BaseForUnit(u + k)
  <2>1. PICK t \in Nat : t = u - 1 OBVIOUS
  <2>2. (t + k) * BlockSize = t * BlockSize + k * BlockSize BY <1>0
  <2>3. u + k \in Nat \ {0} /\ (u + k) - 1 = t + k BY <2>1
  <2>4. t * BlockSize \in Nat /\ k * BlockSize \in Nat BY <1>0
  <2> QED BY <1>0, <1>1, <2>1, <2>2, <2>3, <2>4
<1>5. ASSUME NEW u \in Nat \ {0} PROVE UnitForBase(BaseForUnit(u)) = u
  <2>1. PICK t \in Nat : t = u - 1 OBVIOUS
  <2>2. BaseForUnit(u) - FirstBlock = t * BlockSize
    BY <1>0, <1>1, <2>1 DEF FirstBlock
  <2>3. (t * BlockSize) \div BlockSize = t BY <1>0
  <2> QED BY <2>1, <2>2, <2>3 DEF UnitForBase
<1> QED BY <1>0, <1>1, <1>2, <1>3, <1>4, <1>5

\* A block has whole units, and room for what it is reserved for.
LEMMA RoomFor ==
  ASSUME NEW n \in Nat
  PROVE  /\ BlockSizeFor(n) \in Nat /\ n <= BlockSizeFor(n)
         /\ \E k \in Nat \ {0} : BlockSizeFor(n) = k * BlockSize
<1> DEFINE q == (n + BlockSize - 1) \div BlockSize
           k == Max({1, q})
<1>0. BlockSize \in Nat \ {0} BY UnitsFollow
<1>1. q \in Nat /\ n <= q * BlockSize
  <2>1. PICK m \in Nat : m = n + BlockSize - 1 BY <1>0
  <2>2. m \div BlockSize \in Nat /\ m % BlockSize \in 0 .. BlockSize - 1
        /\ m = BlockSize * (m \div BlockSize) + (m % BlockSize)
    BY <1>0
  <2>3. q = m \div BlockSize BY <2>1
  <2> HIDE DEF q
  <2>4. q * BlockSize = BlockSize * (m \div BlockSize) BY <1>0, <2>2, <2>3
  <2>5. q * BlockSize \in Nat BY <1>0, <2>2, <2>3
  <2> QED BY <1>0, <2>1, <2>2, <2>3, <2>4, <2>5
<1> HIDE DEF q
<1>2. k \in Nat \ {0} /\ k >= q
  <2>1. {1, q} \in SUBSET Nat /\ {1, q} # {} BY <1>1
  <2>2. IsFiniteSet({1, q})
    <3>1. IsFiniteSet({1}) BY FS_Singleton
    <3>2. {1, q} = {1} \cup {q} OBVIOUS
    <3> QED BY <3>1, <3>2, FS_AddElement
  <2>3. k \in {1, q} /\ k >= 1 /\ k >= q BY <2>1, <2>2, MaxIsGreatest
  <2> QED BY <1>1, <2>3
<1>3. BlockSizeFor(n) = k * BlockSize BY DEF BlockSizeFor, q
<1> HIDE DEF k
<1>4. q * BlockSize <= k * BlockSize
  <2>1. PICK w \in Nat : k = q + w
    <3>1. k - q \in Nat /\ k = q + (k - q) BY <1>1, <1>2
    <3> QED BY <3>1
  <2>2. (q + w) * BlockSize = q * BlockSize + w * BlockSize BY <1>0, <1>1
  <2>3. q * BlockSize \in Nat /\ w * BlockSize \in Nat BY <1>0, <1>1
  <2> QED BY <2>1, <2>2, <2>3
<1>5. k * BlockSize \in Nat /\ q * BlockSize \in Nat BY <1>0, <1>1, <1>2
<1> QED BY <1>1, <1>2, <1>3, <1>4, <1>5

\* A reserved block begins past every block there is, wherever the sequence stands.
LEMMA ReservedBeyond ==
  ASSUME BlocksFit, taken \in Nat, NEW size \in Nat, NEW k \in Nat \ {0}, size = k * BlockSize
  PROVE  LET b == ReserveBlock(size) IN
           /\ b = [lo |-> b.lo, hi |-> b.hi] /\ b.lo \in Nat /\ b.hi \in Nat
           /\ b.lo > SpotMax /\ b.hi - b.lo + 1 = size /\ BaseForUnit(taken + 1) <= b.lo
           /\ \E u \in Nat \ {0} : b.lo = BaseForUnit(u) /\ b.hi = BaseForUnit(u + k) - 1
           /\ \A e \in expiries : e.lo # 0 => e.hi < b.lo
<1> DEFINE recorded == {e.hi : e \in {x \in expiries : x.hi # 0}}
           ends == {FirstBlock - 1} \cup recorded
           m == Max(ends)
           past == UnitForBase(m + 1)
           u == Max({taken + 1, past})
           b == ReserveBlock(size)
<1>0. BlockSize \in Nat \ {0} /\ SpotMax \in Nat BY UnitsFollow
<1>1. m \in ends /\ \A y \in ends : m >= y
  <2>1. ends \in SUBSET Nat /\ ends # {}
    BY <1>0 DEF FirstBlock, BlocksFit, ExpiryRows
  <2>2. IsFiniteSet(ends)
    <3> DEFINE X == {x \in expiries : x.hi # 0}
               f == [e \in X |-> e.hi]
    <3>1. IsFiniteSet(X) BY FS_Subset DEF BlocksFit
    <3>2. IsFiniteSet({f[e] : e \in X}) BY <3>1, ImagesFinite
    <3>3. recorded = {f[e] : e \in X} OBVIOUS
    <3>4. IsFiniteSet(recorded) BY <3>2, <3>3
    <3>5. IsFiniteSet({FirstBlock - 1}) BY FS_Singleton
    <3> QED BY <3>4, <3>5, FS_Union
  <2> HIDE DEF ends
  <2> QED BY <2>1, <2>2, MaxIsGreatest
<1>12. past = UnitForBase(m + 1) /\ b = ReserveBlock(size) OBVIOUS
<1> HIDE DEF m
<1>2. PICK w \in Nat \ {0} : m + 1 = BaseForUnit(w)
  <2>1. CASE m = FirstBlock - 1
    <3>1. m + 1 = BaseForUnit(1) BY <1>0, <2>1 DEF FirstBlock, BaseForUnit
    <3>2. 1 \in Nat \ {0} OBVIOUS
    <3> QED BY <3>1, <3>2
  <2>2. CASE m # FirstBlock - 1
    <3>1. PICK e \in expiries : e.hi # 0 /\ m = e.hi BY <1>1, <2>2
    <3>2. PICK v, j \in Nat \ {0} : e.hi = BaseForUnit(v + j) - 1
      BY <3>1 DEF BlocksFit, WholeUnits
    <3>3. v + j \in Nat \ {0} /\ BaseForUnit(v + j) \in Nat BY UnitsFollow
    <3>4. m + 1 = BaseForUnit(v + j) BY <3>1, <3>2, <3>3
    <3> QED BY <3>3, <3>4
  <2> QED BY <2>1, <2>2
<1>3. past = w BY <1>2, UnitsFollow
<1> HIDE DEF past
<1>4. u \in Nat \ {0} /\ u >= w /\ taken + 1 <= u
  <2>1. {taken + 1, past} \in SUBSET Nat /\ {taken + 1, past} # {} BY <1>3
  <2>2. IsFiniteSet({taken + 1, past})
    <3>1. IsFiniteSet({taken + 1}) BY FS_Singleton
    <3>2. {taken + 1, past} = {taken + 1} \cup {past} OBVIOUS
    <3> QED BY <3>1, <3>2, FS_AddElement
  <2>3. u \in {taken + 1, past} /\ u >= taken + 1 /\ u >= past BY <2>1, <2>2, MaxIsGreatest
  <2> QED BY <1>3, <2>3
<1>5. b = [lo |-> BaseForUnit(u), hi |-> BaseForUnit(u) + size - 1]
  BY DEF ReserveBlock, m, past
<1> HIDE DEF u, b
<1>6. b.lo = BaseForUnit(u) /\ b.hi = BaseForUnit(u) + size - 1 BY <1>5
<1>7. BaseForUnit(u) \in Nat /\ BaseForUnit(u) > SpotMax /\ BaseForUnit(w) <= BaseForUnit(u)
      /\ BaseForUnit(taken + 1) <= BaseForUnit(u) /\ BaseForUnit(u) + size = BaseForUnit(u + k) /\ BaseForUnit(w) \in Nat
  BY <1>4, UnitsFollow
<1>8. ASSUME NEW e \in expiries, e.lo # 0 PROVE e.hi < b.lo
  <2>1. e.hi # 0 /\ e.hi \in Nat
    <3>1. WholeUnits(e.lo, e.hi) BY <1>8 DEF BlocksFit
    <3>2. PICK v, j \in Nat \ {0} : e.hi = BaseForUnit(v + j) - 1 BY <3>1 DEF WholeUnits
    <3>3. v + j > 1 /\ v + j \in Nat \ {0} /\ 1 \in Nat \ {0} OBVIOUS
    <3>4. BaseForUnit(1) + BlockSize <= BaseForUnit(v + j) /\ BaseForUnit(1) \in Nat
          /\ BaseForUnit(1) > SpotMax /\ BaseForUnit(v + j) \in Nat
      BY <3>3, UnitsFollow
    <3> QED BY <1>0, <3>2, <3>4
  <2>2. e.hi \in ends BY <2>1
  <2>3. m >= e.hi /\ m + 1 = BaseForUnit(w) /\ m \in Nat
    <3>1. ends \subseteq Nat BY <1>0 DEF FirstBlock, BlocksFit, ExpiryRows
    <3> QED BY <1>1, <1>2, <2>2, <3>1
  <2> QED BY <1>6, <1>7, <2>1, <2>3
<1>9. size >= 1 /\ b.hi \in Nat /\ b.hi - b.lo + 1 = size
  <2>1. size >= 1
    <3>1. PICK t \in Nat : k = t + 1
      <4>1. k - 1 \in Nat /\ k = (k - 1) + 1 OBVIOUS
      <4> QED BY <4>1
    <3>2. (t + 1) * BlockSize = t * BlockSize + BlockSize /\ t * BlockSize \in Nat BY <1>0
    <3> QED BY <1>0, <3>1, <3>2
  <2> QED BY <1>6, <1>7, <2>1
<1>10. b.lo = BaseForUnit(u) /\ b.hi = BaseForUnit(u + k) - 1 BY <1>6, <1>7
<1>11. b = [lo |-> b.lo, hi |-> b.hi] BY <1>5
<1> QED BY <1>4, <1>6, <1>7, <1>8, <1>9, <1>10, <1>11 DEF b

\* Names with a strike each are told apart by how many of them have a lower one.
Below(names, n) == {m \in names : m[3] < n[3]}
LEMMA NamesRanked ==
  ASSUME NEW names, IsFiniteSet(names), \A n \in names : n[3] \in Nat,
         \A n, m \in names : n[3] = m[3] => n = m
  PROVE  /\ \A n \in names : Cardinality(Below(names, n)) \in 0 .. Cardinality(names) - 1
         /\ \A n, m \in names : Cardinality(Below(names, n)) = Cardinality(Below(names, m))
                                  => n = m
<1>1. Cardinality(names) \in Nat BY FS_CardinalityType
<1>2. ASSUME NEW n \in names
      PROVE  /\ IsFiniteSet(Below(names, n)) /\ Cardinality(Below(names, n)) \in Nat
             /\ n \notin Below(names, n)
             /\ Cardinality(Below(names, n)) < Cardinality(names)
  <2>1. Below(names, n) \subseteq names /\ n \notin Below(names, n) BY DEF Below
  <2>2. IsFiniteSet(Below(names, n)) /\ Cardinality(Below(names, n)) \in Nat
    BY <2>1, FS_Subset, FS_CardinalityType
  <2>3. Cardinality(Below(names, n) \cup {n}) = Cardinality(Below(names, n)) + 1
    BY <2>1, <2>2, FS_AddElement
  <2>4. Cardinality(Below(names, n) \cup {n}) <= Cardinality(names) BY <2>1, FS_Subset
  <2> QED BY <1>1, <2>1, <2>2, <2>3, <2>4
<1>3. ASSUME NEW n \in names, NEW m \in names, n[3] < m[3]
      PROVE  Cardinality(Below(names, n)) < Cardinality(Below(names, m))
  <2>1. Below(names, n) \cup {n} \subseteq Below(names, m)
    <3>1. \A k \in names : k[3] < n[3] => k[3] < m[3] BY <1>3
    <3> QED BY <1>3, <3>1 DEF Below
  <2>2. Cardinality(Below(names, n) \cup {n}) = Cardinality(Below(names, n)) + 1
    BY <1>2, FS_AddElement
  <2>3. Cardinality(Below(names, n) \cup {n}) <= Cardinality(Below(names, m))
    BY <1>2, <2>1, FS_Subset
  <2> QED BY <1>2, <2>2, <2>3
<1>4. ASSUME NEW n \in names, NEW m \in names, n # m
      PROVE  Cardinality(Below(names, n)) # Cardinality(Below(names, m))
  <2>1. n[3] \in Nat /\ m[3] \in Nat /\ n[3] # m[3] BY <1>4
  <2>2. n[3] < m[3] \/ m[3] < n[3] BY <2>1
  <2> QED BY <1>2, <1>3, <2>2
<1> QED BY <1>1, <1>2, <1>4

\* Every name of a batch that fits in a block has an identifier of the block to itself.
LEMMA AssignFits ==
  ASSUME NEW block, block.lo \in Nat, block.hi \in Nat,
         NEW batch, IsFiniteSet(batch), Cardinality(batch) <= block.hi - block.lo + 1,
         \A n \in batch : n[3] \in Nat, \A n, m \in batch : n[3] = m[3] => n = m,
         NEW existing, IsFiniteSet(existing), \A c \in existing : c.id \in Nat,
         \A c, k \in existing : c.id = k.id \/ c.name = k.name => c = k
  PROVE  LET ids == Assign(block, batch, existing) IN
           /\ DOMAIN ids = batch
           /\ \A n \in batch : ids[n] \in block.lo .. block.hi
           /\ \A n, m \in batch : ids[n] = ids[m] => n = m
<1> DEFINE ids == Assign(block, batch, existing)
           kept == {c \in existing : c.name \in batch /\ c.id \in block.lo .. block.hi}
           names == {c.name : c \in kept}
           held == {c.id : c \in kept}
           new == batch \ names
           all == block.lo .. block.hi
           free == all \ held
           at(n) == CHOOSE i \in free : Cardinality({j \in free : j < i})
                                          = Cardinality({m \in new : m[3] < n[3]})
           of(n) == (CHOOSE c \in kept : c.name = n).id
<1>1. ids = [n \in batch |-> IF n \in new THEN at(n) ELSE of(n)] BY DEF Assign
<1>2. IsFiniteSet(kept) /\ Cardinality(kept) \in Nat BY FS_Subset, FS_CardinalityType
<1>3. IsFiniteSet(held) /\ Cardinality(held) \in Nat /\ Cardinality(held) <= Cardinality(kept)
  <2> DEFINE f == [c \in kept |-> c.id]
  <2>1. held = {f[c] : c \in kept} OBVIOUS
  <2> HIDE DEF f, held, kept
  <2>2. IsFiniteSet(held) /\ Cardinality(held) <= Cardinality(kept)
    BY <1>2, <2>1, ImagesFinite
  <2> QED BY <2>2, FS_CardinalityType
<1>4. IsFiniteSet(names) /\ Cardinality(names) \in Nat /\ Cardinality(kept) <= Cardinality(names)
  <2> DEFINE g == [c \in kept |-> c.name]
  <2>1. names \subseteq batch OBVIOUS
  <2>2. IsFiniteSet(names) BY <2>1, FS_Subset
  <2>3. g \in [kept -> names] OBVIOUS
  <2>4. \A c, k \in kept : g[c] = g[k] => c = k OBVIOUS
  <2>5. g \in Injection(kept, names)
    <3> HIDE DEF g, kept, names
    <3> QED BY <2>3, <2>4 DEF Injection, IsInjective
  <2> HIDE DEF g, kept, names
  <2> QED BY <2>2, <2>5, FS_Injection, FS_CardinalityType
<1>5. IsFiniteSet(all) /\ Cardinality(batch) <= Cardinality(all) /\ Cardinality(all) \in Nat
  <2>1. IsFiniteSet(all)
        /\ Cardinality(all) = IF block.lo > block.hi THEN 0 ELSE block.hi - block.lo + 1
    BY FS_Interval
  <2>2. Cardinality(batch) \in Nat BY FS_CardinalityType
  <2> QED BY <2>1, <2>2
<1>6. /\ IsFiniteSet(new) /\ Cardinality(new) = Cardinality(batch) - Cardinality(names)
      /\ Cardinality(new) \in Nat
  <2>1. batch \cap names = names OBVIOUS
  <2> HIDE DEF names
  <2> QED BY <2>1, FS_Difference, FS_CardinalityType
<1>7. /\ IsFiniteSet(free) /\ Cardinality(free) = Cardinality(all) - Cardinality(held)
      /\ Cardinality(free) \in Nat /\ free \in SUBSET Nat
  <2>1. all \cap held = held /\ all \subseteq Nat OBVIOUS
  <2> HIDE DEF held, all
  <2> QED BY <1>5, <2>1, FS_Difference, FS_CardinalityType
<1>8. Cardinality(new) <= Cardinality(free)
  <2>1. Cardinality(batch) \in Nat BY FS_CardinalityType
  <2> HIDE DEF new, free, names, held, kept, all
  <2> QED BY <1>2, <1>3, <1>4, <1>5, <1>6, <1>7, <2>1
<1>9. ASSUME NEW n \in new
      PROVE  at(n) \in free /\ Cardinality(Lower(free, at(n))) = Cardinality(Below(new, n))
  <2>1. Cardinality(Below(new, n)) \in 0 .. Cardinality(new) - 1
    <3>1. (\A m \in new : m[3] \in Nat) /\ \A m, k \in new : m[3] = k[3] => m = k OBVIOUS
    <3> HIDE DEF new
    <3> QED BY <1>6, <3>1, NamesRanked
  <2>2. Cardinality(Below(new, n)) \in 0 .. Cardinality(free) - 1
    <3> HIDE DEF new, free
    <3> QED BY <1>6, <1>7, <1>8, <2>1
  <2>3. \E i \in free : Cardinality(Lower(free, i)) = Cardinality(Below(new, n))
    <3> HIDE DEF new, free
    <3> QED BY <1>7, <2>2, Ranked
  <2>4. at(n) = CHOOSE i \in free : Cardinality(Lower(free, i)) = Cardinality(Below(new, n))
    BY DEF Lower, Below
  <2> HIDE DEF at, free, new
  <2> QED BY <2>3, <2>4
<1>10. \A n, m \in new : at(n) = at(m) => n = m
  <2> SUFFICES ASSUME NEW n \in new, NEW m \in new, at(n) = at(m) PROVE n = m OBVIOUS
  <2>1. Cardinality(Below(new, n)) = Cardinality(Below(new, m))
    <3> HIDE DEF at, new, free
    <3> QED BY <1>9
  <2>2. (\A k \in new : k[3] \in Nat) /\ \A k, l \in new : k[3] = l[3] => k = l OBVIOUS
  <2> HIDE DEF new, at
  <2> QED BY <1>6, <2>1, <2>2, NamesRanked
<1>11. \A n \in batch \ new : \E c \in kept : c.name = n /\ of(n) = c.id
  <2> SUFFICES ASSUME NEW n \in batch \ new PROVE \E c \in kept : c.name = n /\ of(n) = c.id
    OBVIOUS
  <2>1. \E c \in kept : c.name = n OBVIOUS
  <2> HIDE DEF kept
  <2> QED BY <2>1
<1>12. \A n \in batch : ids[n] = IF n \in new THEN at(n) ELSE of(n) BY <1>1
<1>13. DOMAIN ids = batch BY <1>1
<1>14. \A c \in kept : c.id \in all /\ c.id \notin free OBVIOUS
<1>15. \A c, k \in kept : c.id = k.id => c = k OBVIOUS
<1>16. free \subseteq all OBVIOUS
<1> HIDE DEF ids, at, of, new, free, kept, names, held, all
<1>17. \A n \in batch : ids[n] \in all
  BY <1>9, <1>11, <1>12, <1>14, <1>16
<1>18. ASSUME NEW n \in batch, NEW m \in batch, ids[n] = ids[m] PROVE n = m
  <2>1. CASE n \in new /\ m \in new BY <1>10, <1>12, <1>18, <2>1
  <2>2. CASE n \notin new /\ m \notin new BY <1>11, <1>12, <1>15, <1>18, <2>2
  <2>3. CASE n \in new /\ m \notin new BY <1>9, <1>11, <1>12, <1>14, <1>18, <2>3
  <2>4. CASE n \notin new /\ m \in new BY <1>9, <1>11, <1>12, <1>14, <1>18, <2>4
  <2> QED BY <2>1, <2>2, <2>3, <2>4
<1> QED BY <1>13, <1>17, <1>18 DEF ids, all

\* What is written of the underlyings: no identifier of a chain is touched.
ChainsStay == \A c \in contracts : Chain(c) => c \in contracts'
LEMMA UnderlyingsWritten ==
  ASSUME ContractsFit, \A m \in mirror : MirrorFits(m),
         NEW rows \in SUBSET RegistryRows, IsFiniteSet(rows),
         \A x, y \in rows : x.uid = y.uid => x = y,
         UnderlyingWrite(rows)
  PROVE  ContractsFit' /\ (\A m \in mirror' : MirrorFits(m)) /\ ChainsStay
<1> DEFINE kept == {c \in contracts : \A r \in rows : c.id # r.spot /\ c.name # SpotName(r.sym)}
           spots == SpotRows(rows)
<1>0. contracts' = kept \cup spots /\ expiries' = expiries BY DEF UnderlyingWrite
<1>1. SpotMax \in Nat BY UnitsFollow
<1>2. ASSUME NEW r \in rows
      PROVE  /\ [id |-> r.spot, uid |-> r.uid, name |-> SpotName(r.sym)] \in ContractRows
             /\ r.spot \in 1 .. SpotMax /\ SpotName(r.sym)[2] = 0
  BY <1>1 DEF RegistryRows, ContractRows, SpotName, Names
<1>3. \A c \in spots : \E r \in rows : c = [id |-> r.spot, uid |-> r.uid, name |-> SpotName(r.sym)]
  BY DEF SpotRows
<1>4. \A c \in spots : ~Chain(c) /\ c \in ContractRows /\ c.id <= SpotMax
  <2> SUFFICES ASSUME NEW c \in spots PROVE ~Chain(c) /\ c \in ContractRows /\ c.id <= SpotMax
    OBVIOUS
  <2>1. PICK r \in rows : c = [id |-> r.spot, uid |-> r.uid, name |-> SpotName(r.sym)] BY <1>3
  <2> QED BY <1>1, <1>2, <2>1 DEF Chain
<1>5. IsFiniteSet(spots)
  <2> DEFINE f == [r \in rows |-> [id |-> r.spot, uid |-> r.uid, name |-> SpotName(r.sym)]]
  <2>1. spots = {f[r] : r \in rows} BY DEF SpotRows
  <2> HIDE DEF f, spots
  <2> QED BY <2>1, ImagesFinite
<1>6. \A c \in spots : \A k \in kept : c.id # k.id
  <2> SUFFICES ASSUME NEW c \in spots, NEW k \in kept PROVE c.id # k.id OBVIOUS
  <2>1. PICK r \in rows : c = [id |-> r.spot, uid |-> r.uid, name |-> SpotName(r.sym)] BY <1>3
  <2> QED BY <2>1
<1>7. \A c, k \in spots : c.uid = k.uid => c = k
  <2> SUFFICES ASSUME NEW c \in spots, NEW k \in spots, c.uid = k.uid PROVE c = k OBVIOUS
  <2>1. PICK r \in rows : c = [id |-> r.spot, uid |-> r.uid, name |-> SpotName(r.sym)] BY <1>3
  <2>2. PICK q \in rows : k = [id |-> q.spot, uid |-> q.uid, name |-> SpotName(q.sym)] BY <1>3
  <2>3. r.uid = q.uid BY <2>1, <2>2
  <2> QED BY <2>1, <2>2, <2>3
<1>8. kept \subseteq contracts /\ IsFiniteSet(kept) BY FS_Subset DEF ContractsFit
<1>9. ChainsStay
  <2> SUFFICES ASSUME NEW c \in contracts, Chain(c) PROVE c \in kept BY <1>0 DEF ChainsStay
  <2>1. c.id > SpotMax /\ c.id \in Nat BY DEF ContractsFit, ContractRows
  <2>2. \A r \in rows : c.id # r.spot /\ c.name # SpotName(r.sym)
    <3> SUFFICES ASSUME NEW r \in rows PROVE c.id # r.spot /\ c.name # SpotName(r.sym) OBVIOUS
    <3>1. r.spot \in 1 .. SpotMax /\ SpotName(r.sym)[2] = 0 BY <1>2
    <3>2. c.id # r.spot BY <1>1, <2>1, <3>1
    <3>3. c.name[2] # 0 BY DEF Chain
    <3> QED BY <3>1, <3>2, <3>3
  <2> QED BY <2>2
<1>10. \A m \in mirror' : MirrorFits(m)
  <2> SUFFICES ASSUME NEW m \in mirror' PROVE MirrorFits(m) OBVIOUS
  <2>1. m \in mirror \/ \E r \in rows : m = MirrorRow(r) BY DEF UnderlyingWrite
  <2>2. CASE m \in mirror BY <2>2
  <2>3. CASE \E r \in rows : m = MirrorRow(r)
    <3>1. PICK r \in rows : m = MirrorRow(r) BY <2>3
    <3>2. \E x, y : m = [uid |-> r.uid, sym |-> r.sym, spot |-> r.spot, active |-> r.active,
                        expiries |-> x, contracts |-> y]
      BY <3>1 DEF MirrorRow
    <3>3. DOMAIN m = {"uid", "sym", "spot", "active", "expiries", "contracts"}
          /\ m.spot = r.spot
      BY <3>2
    <3> QED BY <1>2, <3>3 DEF MirrorFits
  <2> QED BY <2>1, <2>2, <2>3
<1> HIDE DEF kept, spots
<1>11. contracts' \subseteq ContractRows /\ IsFiniteSet(contracts')
  BY <1>0, <1>4, <1>5, <1>8, FS_Union DEF ContractsFit
<1>12. \A c \in contracts' : IF Chain(c) THEN c.id > SpotMax ELSE c.id <= SpotMax
  BY <1>0, <1>4, <1>8 DEF ContractsFit
<1>13. OneEach'
  <2>1. \A c \in contracts' : Chain(c) => c \in contracts BY <1>0, <1>4, <1>8
  <2> QED BY <2>1 DEF ContractsFit, OneEach, Chain
<1>14. \A c, k \in contracts' : c.uid = k.uid /\ c.id = k.id => c = k
  BY <1>0, <1>6, <1>7, <1>8 DEF ContractsFit
<1>15. "short_response" \notin Freedoms => IdsInBlock'
  <2>1. \A c \in contracts' : Chain(c) => c \in contracts BY <1>0, <1>4, <1>8
  <2> QED BY <1>0, <2>1 DEF ContractsFit, IdsInBlock, Chain
<1> QED BY <1>9, <1>10, <1>11, <1>12, <1>13, <1>14, <1>15 DEF ContractsFit, Chain

\* An underlying that goes takes its expiries and its contracts along, and nothing else.
LEMMA UnderlyingDeleted ==
  ASSUME BlocksFit, ContractsFit, \A m \in mirror : MirrorFits(m),
         NEW uid, NEW purge, DeleteUnderlying(uid, purge)
  PROVE  /\ BlocksFit' /\ ContractsFit' /\ \A m \in mirror' : MirrorFits(m)
         /\ \A c \in contracts : c \in contracts' \/ \A m \in mirror' : m.uid # c.uid
<1>1. /\ contracts' = {c \in contracts : c.uid # uid}
      /\ expiries' = {e \in expiries : e.uid # uid}
      /\ mirror' = {m \in mirror : m.uid # uid}
  BY DEF DeleteUnderlying
<1>2. BlocksFit'
  <2>1. IsFiniteSet(expiries') /\ expiries' \subseteq expiries
    BY <1>1, FS_Subset DEF BlocksFit
  <2> QED BY <2>1 DEF BlocksFit, BlocksDisjoint
<1>3. ContractsFit'
  <2>1. IsFiniteSet(contracts') /\ contracts' \subseteq contracts
    BY <1>1, FS_Subset DEF ContractsFit
  <2>2. IdsInBlock => IdsInBlock' BY <1>1 DEF IdsInBlock
  <2>3. OneEach' BY <2>1 DEF ContractsFit, OneEach, Chain
  <2> QED BY <2>1, <2>2, <2>3 DEF ContractsFit, Chain
<1> QED BY <1>1, <1>2, <1>3

\* The counts on a card are refreshed; the card stays.
LEMMA RollupFits ==
  ASSUME \A m \in mirror : MirrorFits(m), NEW rows, NEW uid, mirror' = Rollup(rows, mirror, uid)
  PROVE  \A m \in mirror' : MirrorFits(m)
<1> SUFFICES ASSUME NEW m \in mirror' PROVE MirrorFits(m) OBVIOUS
<1>1. PICK k \in mirror :
        \/ m = k
        \/ \E x, y : m = [k EXCEPT !.expiries = x, !.contracts = y]
  BY DEF Rollup, Refreshed
<1> QED BY <1>1 DEF MirrorFits

\* Days filed: the expiries there were keep their blocks.
LEMMA DaysWritten ==
  ASSUME BlocksFit, ContractsFit, \A m \in mirror : MirrorFits(m),
         NEW uid \in Nat, NEW days \in SUBSET Dates, ExpiryBatchWrite(uid, days)
  PROVE  BlocksFit' /\ ContractsFit' /\ \A m \in mirror' : MirrorFits(m)
<1> DEFINE known == {e.d : e \in ExpiriesOf(expiries, uid)}
           fresh == {[uid |-> uid, d |-> d, lo |-> 0, hi |-> 0, n |-> 0] : d \in days \ known}
<1>1. expiries' = expiries \cup fresh /\ contracts' = contracts
      /\ mirror' = Rollup(expiries', mirror, uid)
  BY DEF ExpiryBatchWrite
<1>2. \A e \in fresh : e.lo = 0 /\ e.hi = 0 /\ e.uid = uid /\ e \in ExpiryRows /\ e.d \notin known
  BY DEF ExpiryRows
<1>3. IsFiniteSet(fresh)
  <2> DEFINE f == [d \in days \ known |-> [uid |-> uid, d |-> d, lo |-> 0, hi |-> 0, n |-> 0]]
  <2>1. IsFiniteSet(days \ known) BY FS_Subset, CatalogueAssumption
  <2>2. fresh = {f[d] : d \in days \ known} OBVIOUS
  <2> HIDE DEF f, fresh, known
  <2> QED BY <2>1, <2>2, ImagesFinite
<1>4. \A e \in expiries : e.uid = uid => e.d \in known BY DEF ExpiriesOf
<1>5. \A e, f \in fresh : e.d = f.d => e = f OBVIOUS
<1> HIDE DEF fresh, known
<1>6. BlocksFit'
  <2>1. expiries' \subseteq ExpiryRows /\ IsFiniteSet(expiries')
    BY <1>1, <1>2, <1>3, FS_Union DEF BlocksFit
  <2>2. \A e, f \in expiries' : e.uid = f.uid /\ e.d = f.d => e = f
    BY <1>1, <1>2, <1>4, <1>5 DEF BlocksFit
  <2>3. \A e \in expiries' : e \in expiries \/ (e.lo = 0 /\ e.hi = 0) BY <1>1, <1>2
  <2>4. \A e \in expiries' : IF e.lo = 0 THEN e.hi = 0 ELSE WholeUnits(e.lo, e.hi)
    BY <2>3 DEF BlocksFit
  <2>5. BlocksDisjoint' BY <2>3 DEF BlocksFit, BlocksDisjoint
  <2> QED BY <2>1, <2>2, <2>4, <2>5 DEF BlocksFit
<1>7. ContractsFit'
  <2>1. IdsInBlock => IdsInBlock' BY <1>1 DEF IdsInBlock
  <2>2. OneEach' BY <1>1 DEF ContractsFit, OneEach, Chain
  <2> QED BY <1>1, <2>1, <2>2 DEF ContractsFit, Chain
<1>8. \A m \in mirror' : MirrorFits(m) BY <1>1, RollupFits
<1> QED BY <1>6, <1>7, <1>8

Others(uid, d) == {e \in expiries : ~(e.uid = uid /\ e.d = d)}
OnRecord(uid, d) == {e \in expiries : e.uid = uid /\ e.d = d}
Existing(uid, d) == {c \in contracts : c.uid = uid /\ c.name[2] = d}
OldRow(uid, d) ==
  IF OnRecord(uid, d) # {} THEN CHOOSE e \in OnRecord(uid, d) : TRUE
  ELSE [uid |-> uid, d |-> d, lo |-> 0, hi |-> 0, n |-> 0]

\* The row of an expiry, or the one it is to have.
LEMMA OldRowFits ==
  ASSUME BlocksFit, NEW uid \in Nat, NEW d \in Dates
  PROVE  LET old == OldRow(uid, d) IN
           /\ old \in ExpiryRows /\ old.uid = uid /\ old.d = d
           /\ old.lo # 0 => old \in expiries
           /\ \A e \in OnRecord(uid, d) : e = old
           /\ expiries \ OnRecord(uid, d) = Others(uid, d)
<1> DEFINE old == OldRow(uid, d)
<1>1. CASE OnRecord(uid, d) # {}
  <2>1. old \in OnRecord(uid, d) BY <1>1 DEF OldRow
  <2>2. old \in expiries /\ old.uid = uid /\ old.d = d BY <2>1 DEF OnRecord
  <2> HIDE DEF old
  <2>3. \A e \in OnRecord(uid, d) : e = old BY <2>2 DEF BlocksFit, OnRecord
  <2>4. expiries \ OnRecord(uid, d) = Others(uid, d) BY DEF Others, OnRecord
  <2> QED BY <2>2, <2>3, <2>4 DEF old, BlocksFit
<1>2. CASE OnRecord(uid, d) = {}
  <2>1. old = [uid |-> uid, d |-> d, lo |-> 0, hi |-> 0, n |-> 0] BY <1>2 DEF OldRow
  <2> HIDE DEF old
  <2>2. old \in ExpiryRows /\ old.uid = uid /\ old.d = d /\ old.lo = 0 BY <2>1 DEF ExpiryRows
  <2>4. expiries \ OnRecord(uid, d) = Others(uid, d) BY DEF Others, OnRecord
  <2> QED BY <1>2, <2>2, <2>4 DEF old
<1> QED BY <1>1, <1>2

\* The block an expiry gets has room for its contracts and meets no other's.
LEMMA BlockFits ==
  ASSUME BlocksFit, taken \in Nat, NEW uid \in Nat, NEW d \in Dates, NEW count \in Nat
  PROVE  LET old == OldRow(uid, d)
             block == Block(old, count)
         IN  /\ block.lo \in Nat /\ block.hi \in Nat
             /\ block.lo > SpotMax /\ block.lo <= block.hi /\ count <= block.hi - block.lo + 1
             /\ WholeUnits(block.lo, block.hi)
             /\ \A e \in Others(uid, d) : e.lo # 0 => e.hi < block.lo \/ block.hi < e.lo
<1> DEFINE old == OldRow(uid, d)
           size == BlockSizeFor(count)
           block == Block(old, count)
<1>0. /\ old \in ExpiryRows /\ old.uid = uid /\ old.d = d /\ (old.lo # 0 => old \in expiries)
  BY OldRowFits
<1>1. size \in Nat /\ count <= size BY RoomFor
<1>2. PICK k \in Nat \ {0} : size = k * BlockSize BY RoomFor
<1>3. SpotMax \in Nat BY UnitsFollow
<1> HIDE DEF old
<1>4. CASE old.lo # 0 /\ old.hi - old.lo + 1 >= size
  <2>1. block = [lo |-> old.lo, hi |-> old.hi] BY <1>4 DEF Block
  <2>2. old \in expiries /\ old.lo \in Nat /\ old.hi \in Nat BY <1>0, <1>4 DEF ExpiryRows
  <2>3. /\ old.lo > SpotMax /\ old.lo <= old.hi
        /\ \A e \in expiries : e.lo # 0 /\ e # old => e.hi < old.lo \/ old.hi < e.lo
    BY <1>4, <2>2 DEF BlocksFit, BlocksDisjoint
  <2>4. WholeUnits(old.lo, old.hi) BY <1>4, <2>2 DEF BlocksFit
  <2>5. count <= old.hi - old.lo + 1
    <3> HIDE DEF size
    <3> QED BY <1>1, <1>4, <2>2
  <2>6. \A e \in Others(uid, d) : e \in expiries /\ e # old BY <1>0 DEF Others
  <2>7. block.lo = old.lo /\ block.hi = old.hi BY <2>1
  <2> HIDE DEF block, size
  <2> QED BY <2>2, <2>3, <2>4, <2>5, <2>6, <2>7 DEF block, old
<1>5. CASE ~(old.lo # 0 /\ old.hi - old.lo + 1 >= size)
  <2>1. block = ReserveBlock(size)
    <3> HIDE DEF size
    <3> QED BY <1>5 DEF Block, size
  <2> DEFINE b == ReserveBlock(size)
  <2>2. /\ b.lo \in Nat /\ b.hi \in Nat /\ b.lo > SpotMax /\ b.hi - b.lo + 1 = size
        /\ \E u \in Nat \ {0} : b.lo = BaseForUnit(u) /\ b.hi = BaseForUnit(u + k) - 1
        /\ \A e \in expiries : e.lo # 0 => e.hi < b.lo
    <3> HIDE DEF size
    <3> QED BY <1>1, <1>2, ReservedBeyond
  <2>3. WholeUnits(b.lo, b.hi) BY <2>2 DEF WholeUnits
  <2>4. b.lo <= b.hi
    <3>1. PICK u \in Nat \ {0} : b.lo = BaseForUnit(u) /\ b.hi = BaseForUnit(u + k) - 1 BY <2>2
    <3>2. u + k \in Nat \ {0} /\ u < u + k OBVIOUS
    <3>3. BaseForUnit(u) + BlockSize <= BaseForUnit(u + k) /\ BlockSize \in Nat \ {0}
          /\ BaseForUnit(u) \in Nat /\ BaseForUnit(u + k) \in Nat
      BY <3>2, UnitsFollow
    <3> HIDE DEF b
    <3> QED BY <3>1, <3>3
  <2> HIDE DEF b, block, size
  <2>5. block = b BY <2>1 DEF b
  <2>6. \A e \in Others(uid, d) : e \in expiries BY DEF Others
  <2> QED BY <1>1, <2>2, <2>3, <2>4, <2>5, <2>6 DEF block, old
<1> QED BY <1>4, <1>5

\* What is asked of a chain: names of one underlying and one expiry, a strike each.
Batch(sym, d, strikes) == {<<sym, d, k>> : k \in strikes}
LEMMA BatchFits ==
  ASSUME NEW sym \in Symbols, NEW d \in Dates, NEW strikes \in Responses
  PROVE  LET batch == Batch(sym, d, strikes) IN
           /\ batch \subseteq Names /\ IsFiniteSet(batch) /\ Cardinality(batch) \in Nat
           /\ \A n \in batch : n[2] = d /\ n[3] \in Nat
           /\ \A n, m \in batch : n[3] = m[3] => n = m
<1> DEFINE batch == Batch(sym, d, strikes)
<1>1. strikes \subseteq Strikes /\ Strikes \subseteq Nat BY CatalogueAssumption
<1>2. IsFiniteSet(strikes) BY <1>1, FS_Subset, CatalogueAssumption
<1>3. IsFiniteSet(batch)
  <2> DEFINE f == [k \in strikes |-> <<sym, d, k>>]
  <2>1. batch = {f[k] : k \in strikes} BY DEF Batch
  <2> HIDE DEF f, batch
  <2> QED BY <1>2, <2>1, ImagesFinite
<1>4. batch \subseteq Names BY <1>1 DEF Batch, Names
<1>5. \A n \in batch : n[2] = d /\ n[3] \in Nat BY <1>1 DEF Batch
<1>6. \A n, m \in batch : n[3] = m[3] => n = m BY DEF Batch
<1> HIDE DEF batch
<1> QED BY <1>3, <1>4, <1>5, <1>6, FS_CardinalityType DEF batch

\* Contracts filed: each has an identifier of the block of its expiry to itself, and what
\* the response does not mention is left alone.
LEMMA ContractsWritten ==
  ASSUME BlocksFit, ContractsFit, \A m \in mirror : MirrorFits(m), taken \in Nat,
         NEW uid \in Nat, NEW sym \in Symbols, NEW d \in Dates, NEW strikes \in Responses,
         "short_response" \notin Freedoms =>
           {c.name : c \in Existing(uid, d)} \subseteq Batch(sym, d, strikes),
         ContractBatchWrite(uid, d, Batch(sym, d, strikes))
  PROVE  /\ BlocksFit' /\ ContractsFit' /\ (\A m \in mirror' : MirrorFits(m)) /\ taken' \in Nat
         /\ "short_response" \notin Freedoms =>
              \A c \in contracts : Chain(c) => \E k \in contracts' : k.name = c.name
<1> DEFINE batch == Batch(sym, d, strikes)
           old == OldRow(uid, d)
           block == Block(old, Cardinality(batch))
           ids == Assign(block, batch, Existing(uid, d))
           held == {ids[n] : n \in batch}
           stay == {c \in contracts : c.id \notin held /\ c.name \notin batch}
           filed == {[id |-> ids[n], uid |-> uid, name |-> n] : n \in batch}
           there == {c \in contracts' : c.uid = uid /\ c.name[2] = d}
           entry == [old EXCEPT !.lo = block.lo, !.hi = block.hi, !.n = Cardinality(there)]
<1>1. /\ contracts' = stay \cup filed
      /\ expiries' = (expiries \ OnRecord(uid, d)) \cup {entry}
      /\ mirror' = Rollup(expiries', mirror, uid)
      /\ taken' = IF block.lo = old.lo THEN taken ELSE UnitForBase(block.hi)
  BY DEF ContractBatchWrite, OnRecord, Existing, OldRow
<1>2. /\ batch \subseteq Names /\ IsFiniteSet(batch) /\ Cardinality(batch) \in Nat
      /\ \A n \in batch : n[2] = d /\ n[3] \in Nat
      /\ \A n, m \in batch : n[3] = m[3] => n = m
  BY BatchFits
<1>3. /\ old \in ExpiryRows /\ old.uid = uid /\ old.d = d
      /\ \A e \in OnRecord(uid, d) : e = old
      /\ expiries \ OnRecord(uid, d) = Others(uid, d)
  BY OldRowFits
<1>4. /\ block.lo \in Nat /\ block.hi \in Nat /\ block.lo > SpotMax /\ block.lo <= block.hi
      /\ Cardinality(batch) <= block.hi - block.lo + 1
      /\ WholeUnits(block.lo, block.hi)
      /\ \A e \in Others(uid, d) : e.lo # 0 => e.hi < block.lo \/ block.hi < e.lo
  <2> HIDE DEF batch
  <2> QED BY <1>2, BlockFits
<1>5. SpotMax \in Nat /\ d \in Nat /\ d # 0 BY CatalogueAssumption
<1>6. /\ IsFiniteSet(Existing(uid, d))
      /\ \A c \in Existing(uid, d) : c \in contracts /\ Chain(c) /\ c.id \in Nat
      /\ \A c, k \in Existing(uid, d) : c.id = k.id \/ c.name = k.name => c = k
  <2>1. Existing(uid, d) \subseteq contracts BY DEF Existing
  <2>2. \A c \in Existing(uid, d) : Chain(c) BY <1>5 DEF Existing, Chain
  <2>3. IsFiniteSet(Existing(uid, d)) BY <2>1, FS_Subset DEF ContractsFit
  <2> QED BY <2>1, <2>2, <2>3 DEF ContractsFit, ContractRows, OneEach
<1> HIDE DEF batch, old, block
<1>7. /\ \A n \in batch : ids[n] \in block.lo .. block.hi
      /\ \A n, m \in batch : ids[n] = ids[m] => n = m
  BY <1>2, <1>4, <1>6, AssignFits
<1>8. \A n \in batch : ids[n] \in Nat /\ ids[n] > SpotMax BY <1>4, <1>5, <1>7
<1> HIDE DEF ids
<1>9. \A c \in filed : \E n \in batch : c = [id |-> ids[n], uid |-> uid, name |-> n] OBVIOUS
<1>10. \A c \in filed : /\ c \in ContractRows /\ Chain(c) /\ c.uid = uid /\ c.name[2] = d
                        /\ c.name \in batch /\ c.id = ids[c.name] /\ c.id > SpotMax
                        /\ c.id \in held
  <2> SUFFICES ASSUME NEW c \in filed
               PROVE  /\ c \in ContractRows /\ Chain(c) /\ c.uid = uid /\ c.name[2] = d
                      /\ c.name \in batch /\ c.id = ids[c.name] /\ c.id > SpotMax
                      /\ c.id \in held
    OBVIOUS
  <2>1. PICK n \in batch : c = [id |-> ids[n], uid |-> uid, name |-> n] BY <1>9
  <2>2. n \in Names /\ n[2] = d BY <1>2
  <2> QED BY <1>5, <1>8, <2>1, <2>2 DEF ContractRows, Chain
<1>11. \A c, k \in filed : c.name = k.name \/ c.id = k.id => c = k
  <2> SUFFICES ASSUME NEW c \in filed, NEW k \in filed, c.name = k.name \/ c.id = k.id
               PROVE  c = k
    OBVIOUS
  <2>1. PICK n \in batch : c = [id |-> ids[n], uid |-> uid, name |-> n] BY <1>9
  <2>2. PICK m \in batch : k = [id |-> ids[m], uid |-> uid, name |-> m] BY <1>9
  <2>3. n = m BY <1>7, <2>1, <2>2
  <2> QED BY <2>1, <2>2, <2>3
<1>12. IsFiniteSet(filed)
  <2> DEFINE f == [n \in batch |-> [id |-> ids[n], uid |-> uid, name |-> n]]
  <2>1. filed = {f[n] : n \in batch} OBVIOUS
  <2> HIDE DEF f, filed
  <2> QED BY <1>2, <2>1, ImagesFinite
<1>13. /\ stay \subseteq contracts /\ IsFiniteSet(stay)
       /\ \A c \in stay : c.id \notin held /\ c.name \notin batch
  <2>1. stay \subseteq contracts OBVIOUS
  <2>2. IsFiniteSet(stay) BY <2>1, FS_Subset DEF ContractsFit
  <2> QED BY <2>1, <2>2
<1>14. \A n \in batch : \E k \in filed : k.name = n
  <2> SUFFICES ASSUME NEW n \in batch PROVE \E k \in filed : k.name = n OBVIOUS
  <2>1. [id |-> ids[n], uid |-> uid, name |-> n] \in filed OBVIOUS
  <2> HIDE DEF filed
  <2> QED BY <2>1
<1>15. \A c \in contracts : c \in stay \/ c.id \in held \/ c.name \in batch OBVIOUS
<1>16. \A i \in held : i \in block.lo .. block.hi BY <1>7
<1>17. there \subseteq contracts' OBVIOUS
<1> HIDE DEF held, stay, filed
<1>18. contracts' \subseteq ContractRows /\ IsFiniteSet(contracts')
  BY <1>1, <1>10, <1>12, <1>13, FS_Union DEF ContractsFit
<1>19. Cardinality(there) \in Nat
  <2> HIDE DEF there
  <2> QED BY <1>17, <1>18, FS_Subset, FS_CardinalityType
<1>20. /\ entry \in ExpiryRows /\ entry.uid = uid /\ entry.d = d
       /\ entry.lo = block.lo /\ entry.hi = block.hi
  <2> HIDE DEF there
  <2> QED BY <1>3, <1>4, <1>19 DEF ExpiryRows
<1> HIDE DEF entry, there
<1>21. \A e \in Others(uid, d) : e \in expiries /\ ~(e.uid = uid /\ e.d = d) BY DEF Others
<1>22. expiries' = Others(uid, d) \cup {entry} BY <1>1, <1>3
<1>23. BlocksFit'
  <2>1. expiries' \subseteq ExpiryRows BY <1>20, <1>21, <1>22 DEF BlocksFit
  <2>2. IsFiniteSet(expiries')
    <3>1. Others(uid, d) \subseteq expiries BY <1>21
    <3>2. IsFiniteSet(Others(uid, d)) BY <3>1, FS_Subset DEF BlocksFit
    <3> QED BY <1>22, <3>2, FS_AddElement
  <2>3. \A e, f \in expiries' : e.uid = f.uid /\ e.d = f.d => e = f
    BY <1>20, <1>21, <1>22 DEF BlocksFit
  <2>4. \A e \in expiries' : IF e.lo = 0 THEN e.hi = 0 ELSE WholeUnits(e.lo, e.hi)
    <3>1. entry.lo # 0 BY <1>4, <1>5, <1>20
    <3> QED BY <1>4, <1>20, <1>21, <1>22, <3>1 DEF BlocksFit
  <2>5. BlocksDisjoint'
    <3> SUFFICES ASSUME NEW e \in expiries', NEW f \in expiries', e.lo # 0, f.lo # 0
                 PROVE  /\ e.lo > SpotMax /\ e.lo <= e.hi
                        /\ e # f => e.hi < f.lo \/ f.hi < e.lo
      BY DEF BlocksDisjoint
    <3>1. CASE e = entry /\ f = entry BY <1>4, <1>20, <3>1
    <3>2. CASE e = entry /\ f # entry
      <4>1. f \in Others(uid, d) BY <1>22, <3>2
      <4> QED BY <1>4, <1>20, <3>2, <4>1
    <3>3. CASE e # entry /\ f = entry
      <4>1. e \in Others(uid, d) BY <1>22, <3>3
      <4>2. e \in expiries BY <1>21, <4>1
      <4>3. e.lo > SpotMax /\ e.lo <= e.hi BY <4>2 DEF BlocksFit, BlocksDisjoint
      <4> QED BY <1>4, <1>20, <3>3, <4>1, <4>3
    <3>4. CASE e # entry /\ f # entry
      <4>1. e \in expiries /\ f \in expiries BY <1>21, <1>22, <3>4
      <4> QED BY <4>1 DEF BlocksFit, BlocksDisjoint
    <3> QED BY <3>1, <3>2, <3>3, <3>4
  <2> QED BY <2>1, <2>2, <2>3, <2>4, <2>5 DEF BlocksFit
<1>24. \A c \in contracts' : IF Chain(c) THEN c.id > SpotMax ELSE c.id <= SpotMax
  BY <1>1, <1>10, <1>13 DEF ContractsFit
<1>25. OneEach'
  <2> SUFFICES ASSUME NEW c \in contracts', NEW k \in contracts', Chain(c), Chain(k),
                      c.id = k.id \/ c.name = k.name
               PROVE  c = k
    BY DEF OneEach, Chain
  <2>1. CASE c \in stay /\ k \in stay BY <1>13, <2>1 DEF ContractsFit, OneEach
  <2>2. CASE c \in filed /\ k \in filed BY <1>11, <2>2
  <2>3. CASE c \in stay /\ k \in filed BY <1>10, <1>13, <2>3
  <2>4. CASE c \in filed /\ k \in stay BY <1>10, <1>13, <2>4
  <2> QED BY <1>1, <2>1, <2>2, <2>3, <2>4
<1>26. \A c, k \in contracts' : c.uid = k.uid /\ c.id = k.id => c = k
  <2> SUFFICES ASSUME NEW c \in contracts', NEW k \in contracts', c.uid = k.uid, c.id = k.id
               PROVE  c = k
    OBVIOUS
  <2>1. CASE c \in stay /\ k \in stay BY <1>13, <2>1 DEF ContractsFit
  <2>2. CASE c \in filed /\ k \in filed BY <1>11, <2>2
  <2>3. CASE c \in stay /\ k \in filed BY <1>10, <1>13, <2>3
  <2>4. CASE c \in filed /\ k \in stay BY <1>10, <1>13, <2>4
  <2> QED BY <1>1, <2>1, <2>2, <2>3, <2>4
<1>27. ASSUME "short_response" \notin Freedoms
       PROVE  \A c \in contracts : Chain(c) /\ c.uid = uid /\ c.name[2] = d => c.name \in batch
  BY <1>27 DEF Existing, batch
<1>28. ASSUME "short_response" \notin Freedoms PROVE IdsInBlock'
  <2> SUFFICES ASSUME NEW c \in contracts', c.name[2] # 0
               PROVE  \E e \in expiries' : e.uid = c.uid /\ e.d = c.name[2] /\ c.id \in e.lo .. e.hi
    BY DEF IdsInBlock
  <2>1. CASE c \in filed
    <3>1. c.uid = entry.uid /\ c.name[2] = entry.d BY <1>10, <1>20, <2>1
    <3>2. c.id \in entry.lo .. entry.hi BY <1>10, <1>16, <1>20, <2>1
    <3>3. entry \in expiries' BY <1>22
    <3> QED BY <3>1, <3>2, <3>3
  <2>2. CASE c \in stay
    <3>1. c \in contracts /\ c.name \notin batch BY <1>13, <2>2
    <3>2. PICK e \in expiries : e.uid = c.uid /\ e.d = c.name[2] /\ c.id \in e.lo .. e.hi
      BY <1>28, <3>1 DEF ContractsFit, IdsInBlock
    <3>3. ~(e.uid = uid /\ e.d = d) BY <1>27, <1>28, <3>1, <3>2 DEF Chain
    <3>4. e \in expiries' BY <1>22, <3>3 DEF Others
    <3> QED BY <3>2, <3>4
  <2> QED BY <1>1, <2>1, <2>2
<1>29. ContractsFit'
  BY <1>18, <1>24, <1>25, <1>26, <1>28 DEF ContractsFit, Chain
<1>30. \A m \in mirror' : MirrorFits(m) BY <1>1, RollupFits
<1>31. taken' \in Nat
  <2>1. block.hi - FirstBlock \in Nat /\ BlockSize \in Nat \ {0}
    BY <1>4, <1>5, UnitsFollow DEF FirstBlock
  <2>2. UnitForBase(block.hi) \in Nat BY <2>1 DEF UnitForBase
  <2> QED BY <1>1, <2>2
<1>32. ASSUME "short_response" \notin Freedoms, NEW c \in contracts, Chain(c)
       PROVE  \E k \in contracts' : k.name = c.name
  <2>1. CASE c.name \in batch BY <1>1, <1>14, <2>1
  <2>2. CASE c.name \notin batch
    <3>1. PICK e \in expiries : e.uid = c.uid /\ e.d = c.name[2] /\ c.id \in e.lo .. e.hi
      BY <1>32 DEF ContractsFit, IdsInBlock, Chain
    <3>2. ~(e.uid = uid /\ e.d = d) BY <1>27, <1>32, <2>2, <3>1
    <3>3. e \in Others(uid, d) BY <3>2 DEF Others
    <3>4. e.lo \in Nat /\ e.hi \in Nat /\ c.id \in Nat /\ c.id > SpotMax
      BY <1>32 DEF BlocksFit, ExpiryRows, ContractsFit, ContractRows
    <3>5. e.lo # 0
      <4>1. CASE e.lo = 0
        <5>1. e.hi = 0 BY <4>1 DEF BlocksFit
        <5> QED BY <1>5, <3>1, <3>4, <4>1, <5>1
      <4> QED BY <4>1
    <3>6. e.hi < block.lo \/ block.hi < e.lo BY <1>4, <3>3, <3>5
    <3>7. c.id \notin held BY <1>4, <1>16, <3>1, <3>4, <3>6
    <3>8. c \in stay BY <1>15, <2>2, <3>7
    <3> QED BY <1>1, <3>8
  <2> QED BY <2>1, <2>2
<1> QED BY <1>23, <1>29, <1>30, <1>31, <1>32

\* A finite set laid out: each member in one place.
LEMMA LaidOut ==
  ASSUME NEW S, IsFiniteSet(S), NEW T, S \subseteq T
  PROVE  LET s == SetToSeq(S) IN
           /\ s \in Seq(T) /\ \A i \in DOMAIN s : s[i] \in S
           /\ \A i, j \in DOMAIN s : s[i] = s[j] => i = j
<1> DEFINE n == Cardinality(S)
<1>1. n \in Nat /\ ExistsBijection(1 .. n, S) BY FS_CardinalityType
<1>2. \E f \in [1 .. n -> S] : IsInjective(f)
  BY <1>1 DEF ExistsBijection, Bijection, Injection
<1>3. SetToSeq(S) \in [1 .. n -> S] /\ IsInjective(SetToSeq(S)) BY <1>2 DEF SetToSeq
<1> HIDE DEF n
<1>4. \A s \in [1 .. n -> S] : s \in Seq(T) BY <1>1
<1> QED BY <1>3, <1>4 DEF IsInjective

\* Rows added to the queue: a job may get a chunk of an identifier it has no row of.
LEMMA TasksAdded ==
  ASSUME TasksFit, FollowUpsOnce, NEW new \in Seq(TaskRows), tasks' = tasks \o new,
         \A i \in DOMAIN new : new[i].kind = "symbols" => new[i].d \in Dates,
         \A i, j \in DOMAIN new :
           i # j /\ new[i].kind = "chunk" /\ new[j].kind = "chunk" /\ new[i].job = new[j].job
             => new[i].id # new[j].id,
         \A i \in DOMAIN tasks : \A j \in DOMAIN new :
           tasks[i].kind = "chunk" /\ new[j].kind = "chunk" /\ tasks[i].job = new[j].job
             => tasks[i].id # new[j].id
  PROVE  TasksFit' /\ FollowUpsOnce' /\ DOMAIN tasks \subseteq DOMAIN tasks'
<1>1. /\ tasks' \in Seq(TaskRows) /\ DOMAIN tasks \subseteq DOMAIN tasks'
      /\ \A i \in DOMAIN tasks' : i \in DOMAIN tasks \/ i - Len(tasks) \in DOMAIN new
      /\ \A i \in DOMAIN tasks' : i \in Nat
      /\ \A i \in DOMAIN tasks : tasks'[i] = tasks[i]
      /\ \A i \in DOMAIN tasks' : i \notin DOMAIN tasks => tasks'[i] = new[i - Len(tasks)]
  BY DEF TasksFit
<1>2. Len(tasks) \in Nat BY DEF TasksFit
<1>3. TasksFit' BY <1>1 DEF TasksFit
<1>4. FollowUpsOnce'
  <2> SUFFICES ASSUME NEW i \in DOMAIN tasks', NEW j \in DOMAIN tasks', i # j,
                      tasks'[i].kind = "chunk", tasks'[j].kind = "chunk",
                      tasks'[i].job = tasks'[j].job
               PROVE  tasks'[i].id # tasks'[j].id
    BY DEF FollowUpsOnce
  <2>1. i \in Nat /\ j \in Nat /\ i - Len(tasks) # j - Len(tasks) BY <1>1, <1>2
  <2>2. CASE i \in DOMAIN tasks /\ j \in DOMAIN tasks BY <1>1, <2>2 DEF FollowUpsOnce
  <2>3. CASE i \in DOMAIN tasks /\ j \notin DOMAIN tasks BY <1>1, <2>3
  <2>4. CASE i \notin DOMAIN tasks /\ j \in DOMAIN tasks BY <1>1, <2>4
  <2>5. CASE i \notin DOMAIN tasks /\ j \notin DOMAIN tasks
    <3> DEFINE k == i - Len(tasks)
               l == j - Len(tasks)
    <3>1. k \in DOMAIN new /\ l \in DOMAIN new /\ tasks'[i] = new[k] /\ tasks'[j] = new[l]
      BY <1>1, <2>5
    <3>2. k # l BY <2>1
    <3> HIDE DEF k, l
    <3> QED BY <3>1, <3>2
  <2> QED BY <2>2, <2>3, <2>4, <2>5
<1> QED BY <1>1, <1>3, <1>4

\* Rows marked: nothing but their states changes.
LEMMA TasksMarked ==
  ASSUME TasksFit, FollowUpsOnce,
         NEW marks \in [DOMAIN tasks -> {"pending", "leased", "done", "failed"}],
         tasks' = [i \in DOMAIN tasks |-> [tasks[i] EXCEPT !.state = marks[i]]]
  PROVE  TasksFit' /\ FollowUpsOnce' /\ DOMAIN tasks' = DOMAIN tasks
<1>1. Len(tasks) \in Nat /\ DOMAIN tasks = 1 .. Len(tasks) /\ \A i \in DOMAIN tasks : tasks[i] \in TaskRows
  BY DEF TasksFit
<1>2. ASSUME NEW i \in DOMAIN tasks
      PROVE  /\ tasks'[i] \in TaskRows /\ tasks'[i].kind = tasks[i].kind
             /\ tasks'[i].job = tasks[i].job /\ tasks'[i].id = tasks[i].id
             /\ tasks'[i].d = tasks[i].d
  BY <1>1 DEF TaskRows
<1>3. DOMAIN tasks' = DOMAIN tasks OBVIOUS
<1>4. tasks' \in [1 .. Len(tasks) -> TaskRows] BY <1>1, <1>2
<1>5. tasks' \in Seq(TaskRows) BY <1>1, <1>4
<1>6. TasksFit' BY <1>2, <1>3, <1>5 DEF TasksFit
<1>7. FollowUpsOnce' BY <1>2, <1>3 DEF FollowUpsOnce
<1> QED BY <1>3, <1>6, <1>7

LEMMA OneMarked ==
  ASSUME TasksFit, FollowUpsOnce, NEW i \in DOMAIN tasks,
         NEW s \in {"pending", "leased", "done", "failed"}, SetState(i, s)
  PROVE  TasksFit' /\ FollowUpsOnce' /\ DOMAIN tasks' = DOMAIN tasks
<1> DEFINE st == [j \in DOMAIN tasks |-> IF j = i THEN s ELSE tasks[j].state]
<1>1. \A j \in DOMAIN tasks : tasks[j] \in TaskRows BY DEF TasksFit
<1>2. st \in [DOMAIN tasks -> {"pending", "leased", "done", "failed"}] BY <1>1 DEF TaskRows
<1>3. \A j \in DOMAIN tasks : st[j] = IF j = i THEN s ELSE tasks[j].state OBVIOUS
<1> HIDE DEF st
<1>4. tasks' = [j \in DOMAIN tasks |-> [tasks[j] EXCEPT !.state = st[j]]]
  <2> DEFINE t == [j \in DOMAIN tasks |-> [tasks[j] EXCEPT !.state = st[j]]]
  <2>1. tasks' = [tasks EXCEPT ![i].state = s] BY DEF SetState
  <2>2. DOMAIN tasks' = DOMAIN tasks /\ DOMAIN t = DOMAIN tasks BY <2>1
  <2>3. ASSUME NEW j \in DOMAIN tasks PROVE tasks'[j] = t[j]
    <3>1. tasks[j] \in TaskRows BY <1>1
    <3>2. CASE j = i BY <1>3, <2>1, <3>2
    <3>3. CASE j # i
      <4>1. tasks'[j] = tasks[j] /\ t[j] = [tasks[j] EXCEPT !.state = tasks[j].state]
        BY <1>3, <2>1, <3>3
      <4>2. [tasks[j] EXCEPT !.state = tasks[j].state] = tasks[j] BY <3>1 DEF TaskRows
      <4> QED BY <4>1, <4>2
    <3> QED BY <3>2, <3>3
  <2>4. tasks' = [j \in DOMAIN tasks |-> tasks'[j]]
    BY <2>1
  <2> QED BY <2>2, <2>3, <2>4
<1> QED BY <1>2, <1>4, TasksMarked

\* The chunks of some contracts: one of each identifier.
LEMMA ChunksFit ==
  ASSUME NEW job \in Nat, NEW r, r.uid \in Nat, r.sym \in Symbols,
         NEW rows \in SUBSET ContractRows, IsFiniteSet(rows),
         \A c, k \in rows : c.id = k.id => c = k
  PROVE  LET new == Chunks(job, r, rows) IN
           /\ new \in Seq(TaskRows)
           /\ \A i \in DOMAIN new : /\ new[i].kind = "chunk" /\ new[i].job = job
                                    /\ \E c \in rows : new[i].id = c.id
           /\ \A i, j \in DOMAIN new : i # j => new[i].id # new[j].id
<1> DEFINE t(c) == Task(job, TRUE, "chunk", r, c.name[2], c.id, c.name)
           S == {t(c) : c \in rows}
           new == SetToSeq(S)
<1>1. ASSUME NEW c \in rows
      PROVE  /\ t(c) \in TaskRows /\ t(c).kind = "chunk" /\ t(c).job = job /\ t(c).id = c.id
  <2>1. c.id \in Nat /\ c.name \in Names BY DEF ContractRows
  <2>2. c.name[2] \in Dates \cup {0} BY <2>1 DEF Names
  <2> QED BY <2>1, <2>2 DEF Task, TaskRows
<1>2. IsFiniteSet(S)
  <2> DEFINE f == [c \in rows |-> t(c)]
  <2>1. S = {f[c] : c \in rows} OBVIOUS
  <2> HIDE DEF f, S
  <2> QED BY <2>1, ImagesFinite
<1>3. S \subseteq TaskRows BY <1>1
<1>4. new = Chunks(job, r, rows) BY DEF Chunks
<1>5. \A x \in S : \E c \in rows : x = t(c) OBVIOUS
<1> HIDE DEF S, t
<1>6. /\ new \in Seq(TaskRows) /\ \A i \in DOMAIN new : new[i] \in S
      /\ \A i, j \in DOMAIN new : new[i] = new[j] => i = j
  BY <1>2, <1>3, LaidOut
<1> HIDE DEF new
<1>7. \A i \in DOMAIN new : \E c \in rows : new[i] = t(c) BY <1>5, <1>6
<1>8. \A i, j \in DOMAIN new : i # j => new[i].id # new[j].id
  <2> SUFFICES ASSUME NEW i \in DOMAIN new, NEW j \in DOMAIN new, new[i].id = new[j].id
               PROVE  i = j
    OBVIOUS
  <2>1. PICK c \in rows : new[i] = t(c) BY <1>7
  <2>2. PICK k \in rows : new[j] = t(k) BY <1>7
  <2>3. c.id = k.id BY <1>1, <2>1, <2>2
  <2>4. c = k BY <2>3
  <2> QED BY <1>6, <2>1, <2>2, <2>4
<1>9. \A i \in DOMAIN new : /\ new[i].kind = "chunk" /\ new[i].job = job
                            /\ \E c \in rows : new[i].id = c.id
  BY <1>1, <1>7
<1> QED BY <1>4, <1>6, <1>8, <1>9

\* The next job is not one that has rows.
LEMMA NextJobIsNew ==
  ASSUME TasksFit PROVE NextJob \in Nat /\ \A i \in DOMAIN tasks : tasks[i].job # NextJob
<1> DEFINE jobs == {tasks[i].job : i \in DOMAIN tasks}
           S == {0} \cup jobs
<1>1. /\ Len(tasks) \in Nat /\ DOMAIN tasks = 1 .. Len(tasks)
      /\ \A i \in DOMAIN tasks : tasks[i] \in TaskRows
  BY DEF TasksFit
<1>2. IsFiniteSet(jobs)
  <2> DEFINE f == [i \in DOMAIN tasks |-> tasks[i].job]
  <2>1. IsFiniteSet(DOMAIN tasks) BY <1>1, FS_Interval
  <2>2. jobs = {f[i] : i \in DOMAIN tasks} OBVIOUS
  <2> HIDE DEF f, jobs
  <2> QED BY <2>1, <2>2, ImagesFinite
<1>3. jobs \subseteq Nat BY <1>1 DEF TaskRows
<1>4. IsFiniteSet(S) /\ S \in SUBSET Nat /\ S # {}
  <2> HIDE DEF jobs
  <2>1. IsFiniteSet({0}) BY FS_Singleton
  <2>2. IsFiniteSet(S) BY <1>2, <2>1, FS_Union
  <2> QED BY <1>3, <2>2
<1>5. \A i \in DOMAIN tasks : tasks[i].job \in S OBVIOUS
<1>6. NextJob = 1 + Max(S) BY DEF NextJob
<1> HIDE DEF S
<1>7. Max(S) \in Nat /\ \A y \in S : y \in Nat /\ Max(S) >= y BY <1>4, MaxIsGreatest
<1>8. \A y \in S : y # NextJob BY <1>6, <1>7
<1> QED BY <1>5, <1>6, <1>7, <1>8

\* A step of the API that begins, moves or ends one request.
LEMMA CallMoves ==
  ASSUME CatalogueShape, NEW a \in Callers, NEW q \in Calls, call' = [call EXCEPT ![a] = q]
  PROVE  call' \in [Callers -> Calls]
BY DEF CatalogueShape

\* What a request holds at each of its steps.
LEMMA CallHolds ==
  ASSUME CatalogueShape, NEW a \in Callers
  PROVE  /\ At(a, "mirror") => call[a] \in [op : {"mirror"}, row : [uid : Nat, sym : Symbols,
                                                                 spot : Nat, active : BOOLEAN]]
         /\ At(a, "declare") \/ At(a, "undo") \/ At(a, "remirror") =>
              call[a] \in [op : {"declare", "undo", "remirror"}, row : RegistryRows]
         /\ At(a, "unlist") \/ At(a, "undeclare") =>
              call[a] \in [op : {"unlist", "undeclare"}, row : RegistryRows, purge : BOOLEAN]
<1>1. call[a] \in Calls BY DEF CatalogueShape
<1> QED BY <1>1 DEF Calls, At

KnownStep ==
  \A c \in {x \in contracts : x.name[2] # 0} :
    \/ \E k \in contracts' : k.name = c.name
    \/ ~\E m \in mirror' : m.uid = c.uid

LEMMA ChainsKnown == ASSUME ChainsStay PROVE KnownStep
BY DEF ChainsStay, KnownStep, Chain

\* A step that leaves the tables of the catalogue alone.
LEMMA TablesStay ==
  ASSUME CatalogueInv, UNCHANGED duck
  PROVE  BlocksFit' /\ ContractsFit' /\ (\A m \in mirror' : MirrorFits(m)) /\ taken' \in Nat
         /\ KnownStep
<1>1. expiries' = expiries /\ contracts' = contracts /\ mirror' = mirror /\ taken' = taken
  BY DEF duck
<1>2. BlocksFit' BY <1>1 DEF CatalogueInv, BlocksFit, BlocksDisjoint
<1>3. ContractsFit'
  BY <1>1 DEF CatalogueInv, ContractsFit, OneEach, Chain, IdsInBlock
<1> QED BY <1>1, <1>2, <1>3 DEF CatalogueInv, CatalogueShape, KnownStep

LEMMA QueueStays == ASSUME CatalogueInv, UNCHANGED tasks PROVE TasksFit' /\ FollowUpsOnce'
BY DEF CatalogueInv, TasksFit, FollowUpsOnce

\* Numbers of the underlyings there are.
LEMMA NextNumber ==
  ASSUME CatalogueShape PROVE 1 + Max({0} \cup {r.uid : r \in registry}) \in Nat
<1> DEFINE uids == {r.uid : r \in registry}
           S == {0} \cup uids
<1>1. IsFiniteSet(uids)
  <2> DEFINE f == [r \in registry |-> r.uid]
  <2>1. uids = {f[r] : r \in registry} OBVIOUS
  <2>2. IsFiniteSet(registry) BY DEF CatalogueShape
  <2> HIDE DEF f, uids
  <2> QED BY <2>1, <2>2, ImagesFinite
<1>2. uids \subseteq Nat BY DEF CatalogueShape, RegistryRows
<1>3. S \in SUBSET Nat /\ S # {} BY <1>2
<1>4. IsFiniteSet(S)
  <2> HIDE DEF uids
  <2>1. IsFiniteSet({0}) BY FS_Singleton
  <2> QED BY <1>1, <2>1, FS_Union
<1> HIDE DEF S
<1>5. Max(S) \in Nat BY <1>3, <1>4, MaxIsGreatest
<1> QED BY <1>5 DEF S

LEMMA CreateKeeps ==
  ASSUME CatalogueInv, NEW a \in Callers, NEW sym \in Symbols, CreateUnderlying(a, sym)
  PROVE  CatalogueInv' /\ KnownStep
<1> DEFINE q == [op |-> "mirror",
                 row |-> Row(1 + Max({0} \cup {r.uid : r \in registry}), sym, 1, TRUE)]
<1>1. /\ call' = [call EXCEPT ![a] = q]
      /\ UNCHANGED <<registry, duck, tasks, work>>
  BY DEF CreateUnderlying
<1>2. q \in Calls BY NextNumber DEF CatalogueInv, Calls, Row
<1> HIDE DEF q
<1>3. call' \in [Callers -> Calls] BY <1>1, <1>2, CallMoves DEF CatalogueInv
<1>4. CatalogueShape' BY <1>1, <1>3, TablesStay DEF CatalogueInv, CatalogueShape
<1> QED BY <1>1, <1>4, TablesStay, QueueStays DEF CatalogueInv

LEMMA CreateMirrorKeeps ==
  ASSUME CatalogueInv, NEW a \in Callers, CreateMirror(a)
  PROVE  CatalogueInv' /\ KnownStep
<1> DEFINE known == {m \in mirror : m.uid = call[a].row.uid}
           spots == IF known # {} THEN {m.spot : m \in known} ELSE FreeSpots
           entry == [call[a].row EXCEPT !.spot = Min(spots)]
           q == [op |-> "declare", row |-> entry]
<1>1. At(a, "mirror") /\ UNCHANGED <<registry, tasks, work>> BY DEF CreateMirror
<1>2. CASE spots = {}
  <2>1. call' = [call EXCEPT ![a] = Resting] /\ UNCHANGED duck
    BY <1>2 DEF CreateMirror, Answer
  <2>2. Resting \in Calls BY DEF Resting, Calls
  <2>3. call' \in [Callers -> Calls] BY <2>1, <2>2, CallMoves DEF CatalogueInv
  <2>4. CatalogueShape' BY <1>1, <2>1, <2>3, TablesStay DEF CatalogueInv, CatalogueShape
  <2> QED BY <1>1, <2>1, <2>4, TablesStay, QueueStays DEF CatalogueInv
<1>3. CASE spots # {}
  <2>1. UnderlyingWrite({entry}) /\ UNCHANGED taken /\ call' = [call EXCEPT ![a] = q]
    BY <1>3 DEF CreateMirror
  <2>2. call[a].row \in [uid : Nat, sym : Symbols, spot : Nat, active : BOOLEAN]
    BY <1>1, CallHolds DEF CatalogueInv
  <2>3. SpotMax \in Nat BY UnitsFollow
  <2>4. spots \subseteq 1 .. SpotMax
    BY DEF FreeSpots, CatalogueInv, CatalogueShape, MirrorFits
  <2>5. Min(spots) \in 1 .. SpotMax
    <3> HIDE DEF spots
    <3>1. spots \in SUBSET Nat BY <2>3, <2>4
    <3> QED BY <1>3, <2>4, <3>1, MinIsLeast
  <2>6. entry \in RegistryRows
    <3> HIDE DEF spots
    <3> QED BY <2>2, <2>5 DEF RegistryRows
  <2> HIDE DEF entry
  <2>7. q \in Calls BY <2>6 DEF Calls
  <2>8. call' \in [Callers -> Calls]
    <3> HIDE DEF q
    <3> QED BY <2>1, <2>7, CallMoves DEF CatalogueInv
  <2>9. {entry} \in SUBSET RegistryRows /\ IsFiniteSet({entry})
        /\ \A x, y \in {entry} : x.uid = y.uid => x = y
    BY <2>6, FS_Singleton
  <2>10. ContractsFit' /\ (\A m \in mirror' : MirrorFits(m)) /\ KnownStep
    BY <2>1, <2>9, UnderlyingsWritten, ChainsKnown DEF CatalogueInv, CatalogueShape
  <2>11. BlocksFit' BY <2>1 DEF UnderlyingWrite, CatalogueInv, BlocksFit, BlocksDisjoint
  <2>12. CatalogueShape' BY <1>1, <2>1, <2>8, <2>10 DEF CatalogueInv, CatalogueShape
  <2> QED BY <1>1, <2>10, <2>11, <2>12, QueueStays DEF CatalogueInv
<1> QED BY <1>2, <1>3

LEMMA CreateRowKeeps ==
  ASSUME CatalogueInv, NEW a \in Callers, CreateRow(a)
  PROVE  CatalogueInv' /\ KnownStep
<1>1. At(a, "declare") /\ UNCHANGED <<duck, tasks, work>> BY DEF CreateRow
<1>2. call[a] \in [op : {"declare", "undo", "remirror"}, row : RegistryRows]
  BY <1>1, CallHolds DEF CatalogueInv
<1>3. registry' \subseteq RegistryRows /\ IsFiniteSet(registry')
      /\ \A x, y \in registry' : x.uid = y.uid => x = y
  <2>1. CASE UNCHANGED registry BY <2>1 DEF CatalogueInv, CatalogueShape
  <2>2. CASE /\ \A r \in registry : r.uid # call[a].row.uid /\ r.sym # call[a].row.sym
             /\ registry' = registry \cup {call[a].row}
    <3>1. IsFiniteSet(registry') BY <2>2, FS_AddElement DEF CatalogueInv, CatalogueShape
    <3> QED BY <1>2, <2>2, <3>1 DEF CatalogueInv, CatalogueShape
  <2> QED BY <2>1, <2>2 DEF CreateRow
<1>4. PICK q \in Calls : call' = [call EXCEPT ![a] = q]
  <2>1. Resting \in Calls BY DEF Resting, Calls
  <2>2. [call[a] EXCEPT !.op = "undo"] \in Calls BY <1>2 DEF Calls
  <2>3. call' = [call EXCEPT ![a] = Resting]
        \/ call' = [call EXCEPT ![a] = [call[a] EXCEPT !.op = "undo"]]
    BY DEF CreateRow, Answer
  <2> QED BY <2>1, <2>2, <2>3
<1>5. call' \in [Callers -> Calls] BY <1>4, CallMoves DEF CatalogueInv
<1>6. CatalogueShape' BY <1>1, <1>3, <1>5, TablesStay DEF CatalogueInv, CatalogueShape
<1> QED BY <1>1, <1>6, TablesStay, QueueStays DEF CatalogueInv

\* A request that ends by deleting, or goes on after it.
LEMMA DeletionKeeps ==
  ASSUME CatalogueInv, NEW a \in Callers, CreateUndone(a) \/ RemoveMirror(a)
  PROVE  CatalogueInv' /\ KnownStep
<1>1. UNCHANGED <<registry, tasks, work>> BY DEF CreateUndone, RemoveMirror
<1>2. PICK uid, purge : DeleteUnderlying(uid, purge) BY DEF CreateUndone, RemoveMirror
<1>3. PICK q \in Calls : call' = [call EXCEPT ![a] = q]
  <2>1. CASE CreateUndone(a)
    <3>1. Resting \in Calls BY DEF Resting, Calls
    <3> QED BY <2>1, <3>1 DEF CreateUndone, Answer
  <2>2. CASE RemoveMirror(a)
    <3>1. call[a] \in [op : {"unlist", "undeclare"}, row : RegistryRows, purge : BOOLEAN]
      BY <2>2, CallHolds DEF CatalogueInv, RemoveMirror
    <3>2. [call[a] EXCEPT !.op = "undeclare"] \in Calls BY <3>1 DEF Calls
    <3>3. call' = [call EXCEPT ![a] = [call[a] EXCEPT !.op = "undeclare"]]
      BY <2>2 DEF RemoveMirror
    <3> QED BY <3>2, <3>3
  <2> QED BY <2>1, <2>2
<1>4. call' \in [Callers -> Calls] BY <1>3, CallMoves DEF CatalogueInv
<1>5. /\ BlocksFit' /\ ContractsFit' /\ (\A m \in mirror' : MirrorFits(m))
      /\ \A c \in contracts : c \in contracts' \/ \A m \in mirror' : m.uid # c.uid
  BY <1>2, UnderlyingDeleted DEF CatalogueInv, CatalogueShape
<1>6. KnownStep BY <1>5 DEF KnownStep
<1>7. taken' = taken BY <1>2 DEF DeleteUnderlying
<1>8. CatalogueShape' BY <1>1, <1>4, <1>5, <1>7 DEF CatalogueInv, CatalogueShape
<1> QED BY <1>1, <1>5, <1>6, <1>8, QueueStays DEF CatalogueInv

LEMMA PatchKeeps ==
  ASSUME CatalogueInv, NEW a \in Callers, NEW r \in registry, PatchUnderlying(a, r)
  PROVE  CatalogueInv' /\ KnownStep
<1> DEFINE entry == [r EXCEPT !.active = ~@]
           q == [op |-> "remirror", row |-> entry]
<1>1. /\ registry' = (registry \ {r}) \cup {entry} /\ call' = [call EXCEPT ![a] = q]
      /\ UNCHANGED <<duck, tasks, work>>
  BY DEF PatchUnderlying
<1>2. entry \in RegistryRows /\ entry.uid = r.uid BY DEF CatalogueInv, CatalogueShape, RegistryRows
<1> HIDE DEF entry
<1>3. q \in Calls BY <1>2 DEF Calls
<1>4. call' \in [Callers -> Calls]
  <2> HIDE DEF q
  <2> QED BY <1>1, <1>3, CallMoves DEF CatalogueInv
<1>5. registry' \subseteq RegistryRows /\ \A x, y \in registry' : x.uid = y.uid => x = y
  BY <1>1, <1>2 DEF CatalogueInv, CatalogueShape
<1>6. IsFiniteSet(registry')
  <2>1. IsFiniteSet(registry \ {r}) BY FS_Subset DEF CatalogueInv, CatalogueShape
  <2> QED BY <1>1, <2>1, FS_AddElement
<1>7. CatalogueShape' BY <1>1, <1>4, <1>5, <1>6, TablesStay DEF CatalogueInv, CatalogueShape
<1> QED BY <1>1, <1>7, TablesStay, QueueStays DEF CatalogueInv

LEMMA PatchMirrorKeeps ==
  ASSUME CatalogueInv, NEW a \in Callers, PatchMirror(a)
  PROVE  CatalogueInv' /\ KnownStep
<1>1. /\ At(a, "remirror") /\ UnderlyingWrite({call[a].row})
      /\ call' = [call EXCEPT ![a] = Resting] /\ UNCHANGED <<registry, taken, tasks, work>>
  BY DEF PatchMirror, Answer
<1>2. call[a].row \in RegistryRows BY <1>1, CallHolds DEF CatalogueInv
<1>3. Resting \in Calls BY DEF Resting, Calls
<1>4. call' \in [Callers -> Calls] BY <1>1, <1>3, CallMoves DEF CatalogueInv
<1>5. PICK entry \in RegistryRows : entry = call[a].row BY <1>2
<1>6. {entry} \in SUBSET RegistryRows /\ IsFiniteSet({entry})
      /\ \A x, y \in {entry} : x.uid = y.uid => x = y
  BY FS_Singleton
<1>7. UnderlyingWrite({entry}) BY <1>1, <1>5
<1>8. ContractsFit' /\ (\A m \in mirror' : MirrorFits(m)) /\ KnownStep
  BY <1>6, <1>7, UnderlyingsWritten, ChainsKnown DEF CatalogueInv, CatalogueShape
<1>9. BlocksFit' BY <1>7 DEF UnderlyingWrite, CatalogueInv, BlocksFit, BlocksDisjoint
<1>10. CatalogueShape' BY <1>1, <1>4, <1>8 DEF CatalogueInv, CatalogueShape
<1> QED BY <1>1, <1>8, <1>9, <1>10, QueueStays DEF CatalogueInv

\* The ends of a removal.
LEMMA RemovalKeeps ==
  ASSUME CatalogueInv, NEW a \in Callers,
         RemoveRow(a) \/ \E r \in registry : RemoveUnderlying(a, r)
  PROVE  CatalogueInv' /\ KnownStep
<1>1. UNCHANGED <<duck, tasks, work>> BY DEF RemoveRow, RemoveUnderlying
<1>2. PICK q \in Calls : call' = [call EXCEPT ![a] = q]
  <2>1. CASE RemoveRow(a)
    <3>1. Resting \in Calls BY DEF Resting, Calls
    <3> QED BY <2>1, <3>1 DEF RemoveRow, Answer
  <2>2. CASE \E r \in registry : RemoveUnderlying(a, r)
    <3>1. PICK r \in registry : RemoveUnderlying(a, r) BY <2>2
    <3>2. PICK purge \in Purges :
            call' = [call EXCEPT ![a] = [op |-> "unlist", row |-> r, purge |-> purge]]
      BY <3>1 DEF RemoveUnderlying
    <3>3. r \in RegistryRows /\ purge \in BOOLEAN
      BY CatalogueAssumption DEF CatalogueInv, CatalogueShape
    <3>4. [op |-> "unlist", row |-> r, purge |-> purge] \in Calls BY <3>3 DEF Calls
    <3> QED BY <3>2, <3>4
  <2> QED BY <2>1, <2>2
<1>3. call' \in [Callers -> Calls] BY <1>2, CallMoves DEF CatalogueInv
<1>4. registry' \subseteq registry BY DEF RemoveRow, RemoveUnderlying
<1>5. IsFiniteSet(registry') BY <1>4, FS_Subset DEF CatalogueInv, CatalogueShape
<1>6. CatalogueShape' BY <1>1, <1>3, <1>4, <1>5, TablesStay DEF CatalogueInv, CatalogueShape
<1> QED BY <1>1, <1>6, TablesStay, QueueStays DEF CatalogueInv

\* A step that only adds rows to the queue.
LEMMA QueueGrown ==
  ASSUME CatalogueInv, UNCHANGED <<registry, duck, call, work>>,
         TasksFit', FollowUpsOnce', DOMAIN tasks \subseteq DOMAIN tasks'
  PROVE  CatalogueInv' /\ KnownStep
<1>1. CatalogueShape' BY TablesStay DEF CatalogueInv, CatalogueShape
<1> QED BY <1>1, TablesStay DEF CatalogueInv

LEMMA DiscoverKeeps ==
  ASSUME CatalogueInv, NEW a \in Callers, NEW r \in registry, DiscoverExpiries(a, r)
  PROVE  CatalogueInv' /\ KnownStep
<1> DEFINE t == Task(NextJob, FALSE, "dates", r, 0, 0, SpotName(r.sym))
           new == <<t>>
<1>1. tasks' = Append(tasks, t) /\ UNCHANGED <<registry, duck, call, work>>
  BY DEF DiscoverExpiries
<1>2. r.uid \in Nat /\ r.sym \in Symbols BY DEF CatalogueInv, CatalogueShape, RegistryRows
<1>3. t \in TaskRows /\ t.kind = "dates"
  BY <1>2, NextJobIsNew DEF CatalogueInv, Task, TaskRows, SpotName, Names
<1> HIDE DEF t
<1>4. new \in Seq(TaskRows) /\ DOMAIN new = {1} /\ new[1] = t BY <1>3
<1>5. tasks' = tasks \o new
  <2>1. tasks \in Seq(TaskRows) BY DEF CatalogueInv, TasksFit
  <2> QED BY <1>1, <1>3, <2>1
<1>6. \A i \in DOMAIN new : new[i].kind = "dates" BY <1>3, <1>4
<1> HIDE DEF new
<1>7. TasksFit' /\ FollowUpsOnce' /\ DOMAIN tasks \subseteq DOMAIN tasks'
  BY <1>4, <1>5, <1>6, TasksAdded DEF CatalogueInv
<1> QED BY <1>1, <1>7, QueueGrown

\* The expiries whose contracts were never discovered, as tasks of one job.
LEMMA AsksFit ==
  ASSUME CatalogueInv, NEW sheet \in BOOLEAN, NEW r \in registry
  PROVE  LET S == {Task(NextJob, sheet, "symbols", r, e.d, 0, SpotName(r.sym)) :
                     e \in {x \in ExpiriesOf(expiries, r.uid) : x.lo = 0}}
         IN  IsFiniteSet(S) /\ \A t \in S : t \in TaskRows /\ t.kind = "symbols" /\ t.d \in Dates
<1> DEFINE E == {x \in ExpiriesOf(expiries, r.uid) : x.lo = 0}
           f == [e \in E |-> Task(NextJob, sheet, "symbols", r, e.d, 0, SpotName(r.sym))]
<1>1. E \subseteq expiries BY DEF ExpiriesOf
<1>2. IsFiniteSet(E) BY <1>1, FS_Subset DEF CatalogueInv, BlocksFit
<1>3. r.uid \in Nat /\ r.sym \in Symbols BY DEF CatalogueInv, CatalogueShape, RegistryRows
<1>4. \A e \in E : f[e] \in TaskRows /\ f[e].kind = "symbols" /\ f[e].d \in Dates
  <2> SUFFICES ASSUME NEW e \in E
               PROVE  f[e] \in TaskRows /\ f[e].kind = "symbols" /\ f[e].d \in Dates
    OBVIOUS
  <2>1. e.d \in Dates BY <1>1 DEF CatalogueInv, BlocksFit, ExpiryRows
  <2>2. NextJob \in Nat BY NextJobIsNew DEF CatalogueInv
  <2> QED BY <1>3, <2>1, <2>2 DEF Task, TaskRows, SpotName, Names
<1>5. {f[e] : e \in E} = {Task(NextJob, sheet, "symbols", r, e.d, 0, SpotName(r.sym)) : e \in E}
  OBVIOUS
<1> HIDE DEF f, E
<1>6. IsFiniteSet({f[e] : e \in E}) BY <1>2, ImagesFinite
<1>7. \A t \in {f[e] : e \in E} : t \in TaskRows /\ t.kind = "symbols" /\ t.d \in Dates BY <1>4
<1> QED BY <1>5, <1>6, <1>7 DEF E

LEMMA CommitKeeps ==
  ASSUME CatalogueInv, NEW a \in Callers, NEW r \in registry, CommitSheet(a, r)
  PROVE  CatalogueInv' /\ KnownStep
<1> DEFINE mine == ExpiriesOf(expiries, r.uid)
           ask == {Task(NextJob, TRUE, "symbols", r, e.d, 0, SpotName(r.sym)) :
                     e \in {x \in mine : x.lo = 0}}
           rows == Unheld({c \in contracts : c.uid = r.uid})
           first == SetToSeq(ask)
           rest == Chunks(NextJob, r, rows)
           new == first \o rest
<1>1. tasks' = tasks \o new /\ UNCHANGED <<registry, duck, call, work>> BY DEF CommitSheet
<1>2. IsFiniteSet(ask) /\ \A t \in ask : t \in TaskRows /\ t.kind = "symbols" /\ t.d \in Dates
  BY AsksFit
<1>3. /\ first \in Seq(TaskRows)
      /\ \A i \in DOMAIN first : first[i].kind = "symbols" /\ first[i].d \in Dates
  <2> HIDE DEF ask
  <2>1. ask \subseteq TaskRows BY <1>2
  <2>2. first \in Seq(TaskRows) /\ \A i \in DOMAIN first : first[i] \in ask
    BY <1>2, <2>1, LaidOut
  <2> QED BY <1>2, <2>2
<1>4. NextJob \in Nat /\ \A i \in DOMAIN tasks : tasks[i].job # NextJob
  BY NextJobIsNew DEF CatalogueInv
<1>5. r.uid \in Nat /\ r.sym \in Symbols BY DEF CatalogueInv, CatalogueShape, RegistryRows
<1>6. /\ rows \in SUBSET ContractRows /\ IsFiniteSet(rows)
      /\ \A c, k \in rows : c.id = k.id => c = k
  <2>1. rows \subseteq contracts /\ \A c \in rows : c.uid = r.uid BY DEF Unheld
  <2> HIDE DEF rows
  <2>2. IsFiniteSet(rows) BY <2>1, FS_Subset DEF CatalogueInv, ContractsFit
  <2> QED BY <2>1, <2>2 DEF CatalogueInv, ContractsFit
<1>7. /\ rest \in Seq(TaskRows)
      /\ \A i \in DOMAIN rest : rest[i].kind = "chunk" /\ rest[i].job = NextJob
      /\ \A i, j \in DOMAIN rest : i # j => rest[i].id # rest[j].id
  <2> HIDE DEF rows
  <2> QED BY <1>4, <1>5, <1>6, ChunksFit
<1> HIDE DEF first, rest
<1>8. /\ new \in Seq(TaskRows)
      /\ \A i \in DOMAIN new : \/ i \in DOMAIN first /\ new[i] = first[i]
                               \/ i - Len(first) \in DOMAIN rest /\ new[i] = rest[i - Len(first)]
      /\ \A i \in DOMAIN new : i \in Nat
      /\ Len(first) \in Nat
  BY <1>3, <1>7
<1> HIDE DEF new
<1>9. \A i \in DOMAIN new : new[i].kind = "symbols" => new[i].d \in Dates
  BY <1>3, <1>7, <1>8
<1>10. \A i \in DOMAIN new : new[i].kind = "chunk" =>
         /\ i - Len(first) \in DOMAIN rest /\ new[i] = rest[i - Len(first)]
         /\ new[i].job = NextJob
  BY <1>3, <1>7, <1>8
<1>11. \A i, j \in DOMAIN new :
         i # j /\ new[i].kind = "chunk" /\ new[j].kind = "chunk" => new[i].id # new[j].id
  <2> SUFFICES ASSUME NEW i \in DOMAIN new, NEW j \in DOMAIN new, i # j,
                      new[i].kind = "chunk", new[j].kind = "chunk"
               PROVE  new[i].id # new[j].id
    OBVIOUS
  <2>1. i - Len(first) # j - Len(first) BY <1>8
  <2> QED BY <1>7, <1>10, <2>1
<1>12. \A i \in DOMAIN tasks : \A j \in DOMAIN new :
         new[j].kind = "chunk" => tasks[i].job # new[j].job
  BY <1>4, <1>10
<1>13. TasksFit' /\ FollowUpsOnce' /\ DOMAIN tasks \subseteq DOMAIN tasks'
  BY <1>1, <1>8, <1>9, <1>11, <1>12, TasksAdded DEF CatalogueInv
<1> QED BY <1>1, <1>13, QueueGrown

LEMMA FiringKeeps ==
  ASSUME CatalogueInv, FireContractDiscovery PROVE CatalogueInv' /\ KnownStep
<1> DEFINE due(r) == {Task(NextJob, FALSE, "symbols", r, e.d, 0, SpotName(r.sym)) :
                        e \in {x \in ExpiriesOf(expiries, r.uid) : x.lo = 0}}
           R == {x \in registry : x.active}
           new == UNION {due(r) : r \in R}
           s == SetToSeq(new)
<1>1. tasks' = tasks \o s /\ UNCHANGED <<registry, duck, call, work>>
  BY DEF FireContractDiscovery
<1>2. R \subseteq registry /\ IsFiniteSet(R) BY FS_Subset DEF CatalogueInv, CatalogueShape
<1>3. \A r \in R : IsFiniteSet(due(r))
                   /\ \A t \in due(r) : t \in TaskRows /\ t.kind = "symbols" /\ t.d \in Dates
  BY <1>2, AsksFit
<1> HIDE DEF due, R
<1>4. IsFiniteSet(new) /\ \A t \in new : t \in TaskRows /\ t.kind = "symbols" /\ t.d \in Dates
  <2> DEFINE f == [r \in R |-> due(r)]
             all == {f[r] : r \in R}
  <2>1. IsFiniteSet(all)
    <3> HIDE DEF f
    <3> QED BY <1>2, ImagesFinite
  <2>2. \A T \in all : IsFiniteSet(T) BY <1>3
  <2>3. new = UNION all OBVIOUS
  <2>4. \A t \in new : \E r \in R : t \in due(r) OBVIOUS
  <2> HIDE DEF all, new
  <2>5. IsFiniteSet(new) BY <2>1, <2>2, <2>3, FS_UNION
  <2> QED BY <1>3, <2>4, <2>5
<1> HIDE DEF new
<1>5. s \in Seq(TaskRows) /\ \A i \in DOMAIN s : s[i].kind = "symbols" /\ s[i].d \in Dates
  <2>1. new \subseteq TaskRows BY <1>4
  <2>2. s \in Seq(TaskRows) /\ \A i \in DOMAIN s : s[i] \in new BY <1>4, <2>1, LaidOut
  <2> QED BY <1>4, <2>2
<1> HIDE DEF s
<1>6. TasksFit' /\ FollowUpsOnce' /\ DOMAIN tasks \subseteq DOMAIN tasks'
  BY <1>1, <1>5, TasksAdded DEF CatalogueInv
<1> QED BY <1>1, <1>6, QueueGrown

\* The worker at one of its steps has a task, and may move on.
LEMMA WorkMoves ==
  ASSUME CatalogueInv, work.step # "idle"
  PROVE  /\ work.task \in DOMAIN tasks /\ Leased \in TaskRows
         /\ Leased.kind = "symbols" => Leased.d \in Dates
         /\ \A s \in {"ready", "written", "planned"} : Step(s) =>
              work' \in Works /\ (work'.step # "idle") /\ work'.task = work.task
         /\ WorkAt("mirroring") => work.row \in RegistryRows
<1>1. work \in Works /\ work.task \in DOMAIN tasks BY DEF CatalogueInv, CatalogueShape
<1>2. Leased \in TaskRows /\ (Leased.kind = "symbols" => Leased.d \in Dates)
  BY <1>1 DEF Leased, CatalogueInv, TasksFit
<1>3. \/ work \in [step : {"ready", "written", "planned"}, task : Nat]
      \/ work \in [step : {"mirroring", "ready", "written", "planned"}, task : Nat,
                   row : RegistryRows]
  BY <1>1 DEF Works
<1>4. ASSUME NEW s \in {"ready", "written", "planned"}, Step(s)
      PROVE  work' \in Works /\ (work'.step # "idle") /\ work'.task = work.task
  <2>1. work' = [work EXCEPT !.step = s] BY <1>4 DEF Step
  <2>2. CASE work \in [step : {"ready", "written", "planned"}, task : Nat]
    BY <2>1, <2>2 DEF Works
  <2>3. CASE work \in [step : {"mirroring", "ready", "written", "planned"}, task : Nat,
                       row : RegistryRows]
    BY <2>1, <2>3 DEF Works
  <2> QED BY <1>3, <2>2, <2>3
<1>5. WorkAt("mirroring") => work.row \in RegistryRows BY <1>3 DEF WorkAt
<1> QED BY <1>1, <1>2, <1>4, <1>5

LEMMA LeaseKeeps ==
  ASSUME CatalogueInv, NEW i \in DOMAIN tasks, Lease(i) PROVE CatalogueInv' /\ KnownStep
<1>1. UNCHANGED <<registry, duck, call>> BY DEF Lease
<1>2. PICK s \in {"leased", "failed"} : SetState(i, s) BY DEF Lease
<1>3. TasksFit' /\ FollowUpsOnce' /\ DOMAIN tasks' = DOMAIN tasks
  BY <1>2, OneMarked DEF CatalogueInv
<1>4. i \in Nat BY DEF CatalogueInv, TasksFit
<1>5. work' \in Works /\ (work'.step # "idle" => work'.task = i)
  <2> DEFINE declared == {r \in registry : r.uid = tasks[i].uid}
             mirrored == \E m \in mirror : m.uid = tasks[i].uid
  <2>1. CASE mirrored
    <3>1. work' = [step |-> "ready", task |-> i] BY <2>1 DEF Lease
    <3> QED BY <1>4, <3>1 DEF Works
  <2>2. CASE ~mirrored /\ declared = {}
    <3>1. work' = work /\ work.step = "idle" BY <2>2 DEF Lease, WorkAt
    <3> QED BY <3>1 DEF CatalogueInv, CatalogueShape
  <2>3. CASE ~mirrored /\ declared # {}
    <3>1. work' = [step |-> "mirroring", task |-> i, row |-> CHOOSE r \in declared : TRUE]
      BY <2>3 DEF Lease
    <3>2. (CHOOSE r \in declared : TRUE) \in declared BY <2>3
    <3>3. (CHOOSE r \in declared : TRUE) \in RegistryRows
      BY <3>2 DEF CatalogueInv, CatalogueShape
    <3> QED BY <1>4, <3>1, <3>3 DEF Works
  <2> QED BY <2>1, <2>2, <2>3
<1>6. CatalogueShape' BY <1>1, <1>3, <1>5, TablesStay DEF CatalogueInv, CatalogueShape
<1> QED BY <1>1, <1>3, <1>6, TablesStay DEF CatalogueInv

LEMMA MirrorFirstKeeps == ASSUME CatalogueInv, MirrorFirst PROVE CatalogueInv' /\ KnownStep
<1>1. /\ WorkAt("mirroring") /\ UnderlyingWrite({work.row}) /\ Step("ready")
      /\ UNCHANGED <<registry, taken, tasks, call>>
  BY DEF MirrorFirst
<1>2. work.step # "idle" BY <1>1 DEF WorkAt
<1>3. /\ work.task \in DOMAIN tasks /\ work' \in Works /\ work'.task = work.task
      /\ work.row \in RegistryRows
  BY <1>1, <1>2, WorkMoves
<1>4. PICK entry \in RegistryRows : entry = work.row BY <1>3
<1>5. {entry} \in SUBSET RegistryRows /\ IsFiniteSet({entry})
      /\ \A x, y \in {entry} : x.uid = y.uid => x = y
  BY FS_Singleton
<1>6. UnderlyingWrite({entry}) BY <1>1, <1>4
<1>7. ContractsFit' /\ (\A m \in mirror' : MirrorFits(m)) /\ KnownStep
  BY <1>5, <1>6, UnderlyingsWritten, ChainsKnown DEF CatalogueInv, CatalogueShape
<1>8. BlocksFit' BY <1>6 DEF UnderlyingWrite, CatalogueInv, BlocksFit, BlocksDisjoint
<1>9. CatalogueShape' BY <1>1, <1>3, <1>7 DEF CatalogueInv, CatalogueShape
<1> QED BY <1>1, <1>7, <1>8, <1>9, QueueStays DEF CatalogueInv

LEMMA DatesKeep == ASSUME CatalogueInv, HandleExpiryDates PROVE CatalogueInv' /\ KnownStep
<1>1. WorkAt("ready") /\ Step("planned") /\ UNCHANGED <<registry, tasks, call>>
  BY DEF HandleExpiryDates
<1>2. work.step # "idle" BY <1>1 DEF WorkAt
<1>3. /\ work.task \in DOMAIN tasks /\ work' \in Works /\ work'.task = work.task
      /\ Leased \in TaskRows
  BY <1>1, <1>2, WorkMoves
<1>4. PICK days \in SUBSET Dates : ExpiryBatchWrite(Leased.uid, days) BY DEF HandleExpiryDates
<1>5. Leased.uid \in Nat BY <1>3 DEF TaskRows
<1>6. BlocksFit' /\ ContractsFit' /\ \A m \in mirror' : MirrorFits(m)
  BY <1>4, <1>5, DaysWritten DEF CatalogueInv, CatalogueShape
<1>7. contracts' = contracts /\ taken' = taken BY <1>4 DEF ExpiryBatchWrite
<1>8. CatalogueShape' BY <1>1, <1>3, <1>6, <1>7 DEF CatalogueInv, CatalogueShape
<1> QED BY <1>1, <1>6, <1>7, <1>8, QueueStays DEF CatalogueInv, KnownStep

LEMMA SymbolsKeep ==
  ASSUME CatalogueInv, HandleUnderlyingSymbols
  PROVE  CatalogueInv' /\ ("short_response" \notin Freedoms => KnownStep)
<1>1. /\ WorkAt("ready") /\ Leased.kind = "symbols" /\ Step("written")
      /\ UNCHANGED <<registry, tasks, call>>
  BY DEF HandleUnderlyingSymbols
<1>2. work.step # "idle" BY <1>1 DEF WorkAt
<1>3. /\ work.task \in DOMAIN tasks /\ work' \in Works /\ work'.task = work.task
      /\ Leased \in TaskRows /\ Leased.d \in Dates
  BY <1>1, <1>2, WorkMoves
<1>4. Leased.uid \in Nat /\ Leased.sym \in Symbols BY <1>3 DEF TaskRows
<1>5. PICK strikes \in Responses :
        /\ "short_response" \notin Freedoms =>
             {c.name : c \in {x \in contracts : x.uid = Leased.uid /\ x.name[2] = Leased.d}}
               \subseteq {<<Leased.sym, Leased.d, k>> : k \in strikes}
        /\ ContractBatchWrite(Leased.uid, Leased.d, {<<Leased.sym, Leased.d, k>> : k \in strikes})
  BY DEF HandleUnderlyingSymbols
<1>6. PICK uid \in Nat, sym \in Symbols, d \in Dates :
        uid = Leased.uid /\ sym = Leased.sym /\ d = Leased.d
  BY <1>3, <1>4
<1>7. /\ "short_response" \notin Freedoms =>
           {c.name : c \in Existing(uid, d)} \subseteq Batch(sym, d, strikes)
      /\ ContractBatchWrite(uid, d, Batch(sym, d, strikes))
  BY <1>5, <1>6 DEF Existing, Batch
<1>8. /\ BlocksFit' /\ ContractsFit' /\ (\A m \in mirror' : MirrorFits(m)) /\ taken' \in Nat
      /\ "short_response" \notin Freedoms =>
           \A c \in contracts : Chain(c) => \E k \in contracts' : k.name = c.name
  BY <1>7, ContractsWritten DEF CatalogueInv, CatalogueShape
<1>9. "short_response" \notin Freedoms => KnownStep BY <1>8 DEF KnownStep, Chain
<1>10. CatalogueShape' BY <1>1, <1>3, <1>8 DEF CatalogueInv, CatalogueShape
<1> QED BY <1>1, <1>8, <1>9, <1>10, QueueStays DEF CatalogueInv

\* The chunks of a discovered expiry: none of an identifier the job has a row of.
LEMMA FollowUpsKeep == ASSUME CatalogueInv, EnqueueCandleChunks PROVE CatalogueInv' /\ KnownStep
<1> DEFINE mine == {c \in contracts : c.uid = Leased.uid /\ c.name[2] = Leased.d}
           rows == {tasks[i].id : i \in {j \in DOMAIN tasks : tasks[j].job = Leased.job
                                                              /\ tasks[j].kind = "chunk"}}
           fresh == {c \in Unheld(mine) : c.id \notin rows}
           new == Chunks(Leased.job, Leased, fresh)
<1>1. /\ WorkAt("written") /\ Step("planned") /\ UNCHANGED <<registry, duck, call>>
      /\ tasks' = tasks \o new \/ tasks' = tasks
  BY DEF EnqueueCandleChunks
<1>2. work.step # "idle" BY <1>1 DEF WorkAt
<1>3. /\ work.task \in DOMAIN tasks /\ work' \in Works /\ work'.task = work.task
      /\ Leased \in TaskRows
  BY <1>1, <1>2, WorkMoves
<1>4. Leased.job \in Nat /\ Leased.uid \in Nat /\ Leased.sym \in Symbols
  BY <1>3 DEF TaskRows
<1>5. fresh \subseteq contracts /\ \A c \in fresh : c.uid = Leased.uid /\ c.id \notin rows
  BY DEF Unheld
<1>6. \A i \in DOMAIN tasks : tasks[i].job = Leased.job /\ tasks[i].kind = "chunk"
                              => tasks[i].id \in rows
  OBVIOUS
<1> HIDE DEF fresh, rows
<1>7. /\ fresh \in SUBSET ContractRows /\ IsFiniteSet(fresh)
      /\ \A c, k \in fresh : c.id = k.id => c = k
  <2>1. IsFiniteSet(fresh) BY <1>5, FS_Subset DEF CatalogueInv, ContractsFit
  <2> QED BY <1>5, <2>1 DEF CatalogueInv, ContractsFit
<1>8. /\ new \in Seq(TaskRows)
      /\ \A i \in DOMAIN new : /\ new[i].kind = "chunk" /\ new[i].job = Leased.job
                               /\ \E c \in fresh : new[i].id = c.id
      /\ \A i, j \in DOMAIN new : i # j => new[i].id # new[j].id
  <2>1. new \in Seq(TaskRows) BY <1>4, <1>7, ChunksFit
  <2>2. \A i \in DOMAIN new : /\ new[i].kind = "chunk" /\ new[i].job = Leased.job
                              /\ \E c \in fresh : new[i].id = c.id
    BY <1>4, <1>7, ChunksFit
  <2>3. \A i, j \in DOMAIN new : i # j => new[i].id # new[j].id
    BY <1>4, <1>7, ChunksFit
  <2> QED BY <2>1, <2>2, <2>3
<1> HIDE DEF new
<1>9. TasksFit' /\ FollowUpsOnce' /\ DOMAIN tasks \subseteq DOMAIN tasks'
  <2>1. CASE tasks' = tasks \o new
    <3>1. tasks' = tasks \o new BY <2>1
    <3>2. \A i \in DOMAIN tasks : \A j \in DOMAIN new :
            tasks[i].kind = "chunk" /\ new[j].kind = "chunk" /\ tasks[i].job = new[j].job
              => tasks[i].id # new[j].id
      BY <1>5, <1>6, <1>8
    <3> QED BY <1>8, <3>1, <3>2, TasksAdded DEF CatalogueInv
  <2>2. CASE tasks' = tasks
    <3>1. UNCHANGED tasks BY <2>2
    <3> QED BY <3>1, QueueStays
  <2> QED BY <1>1, <2>1, <2>2
<1>10. CatalogueShape' BY <1>1, <1>3, <1>9, TablesStay DEF CatalogueInv, CatalogueShape
<1> QED BY <1>1, <1>9, <1>10, TablesStay DEF CatalogueInv

LEMMA AckKeeps == ASSUME CatalogueInv, Ack PROVE CatalogueInv' /\ KnownStep
<1>1. /\ WorkAt("planned") /\ SetState(work.task, "done") /\ work' = [step |-> "idle"]
      /\ UNCHANGED <<registry, duck, call>>
  BY DEF Ack
<1>2. work.task \in DOMAIN tasks BY <1>1, WorkMoves DEF WorkAt
<1>3. TasksFit' /\ FollowUpsOnce' /\ DOMAIN tasks' = DOMAIN tasks
  BY <1>1, <1>2, OneMarked DEF CatalogueInv
<1>4. work' \in Works /\ work'.step = "idle" BY <1>1 DEF Works
<1>5. CatalogueShape' BY <1>1, <1>4, TablesStay DEF CatalogueInv, CatalogueShape
<1> QED BY <1>1, <1>3, <1>5, TablesStay DEF CatalogueInv

LEMMA ChunkKeeps ==
  ASSUME CatalogueInv, NEW i \in DOMAIN tasks, StoreChunk(i) PROVE CatalogueInv' /\ KnownStep
<1>1. /\ SetState(i, "done")
      /\ UNCHANGED <<registry, mirror, expiries, contracts, taken, call, work>>
  BY DEF StoreChunk
<1>2. TasksFit' /\ FollowUpsOnce' /\ DOMAIN tasks' = DOMAIN tasks
  BY <1>1, OneMarked DEF CatalogueInv
<1>3. BlocksFit' BY <1>1 DEF CatalogueInv, BlocksFit, BlocksDisjoint
<1>4. ContractsFit' BY <1>1 DEF CatalogueInv, ContractsFit, OneEach, Chain, IdsInBlock
<1>5. CatalogueShape' BY <1>1, <1>2 DEF CatalogueInv, CatalogueShape
<1>6. KnownStep BY <1>1 DEF KnownStep
<1> QED BY <1>2, <1>3, <1>4, <1>5, <1>6 DEF CatalogueInv

\* The next start: the leased rows are claimable, and the registry is mirrored again.
LEMMA RestartKeepsCatalogue == ASSUME CatalogueInv, Restart PROVE CatalogueInv' /\ KnownStep
<1> DEFINE s == [i \in DOMAIN tasks |-> IF tasks[i].state = "leased" THEN "pending"
                                        ELSE tasks[i].state]
<1>1. /\ call' = [a \in Callers |-> Resting] /\ work' = [step |-> "idle"]
      /\ UnderlyingWrite(registry) /\ taken' \in {0, taken} /\ UNCHANGED registry
  BY DEF Restart
<1>2. tasks' = [i \in DOMAIN tasks |-> [tasks[i] EXCEPT !.state = s[i]]]
  <2>1. tasks' = [i \in DOMAIN tasks |->
                   [tasks[i] EXCEPT !.state = IF @ = "leased" THEN "pending" ELSE @]]
    BY DEF Restart
  <2> QED BY <2>1
<1>3. s \in [DOMAIN tasks -> {"pending", "leased", "done", "failed"}]
  <2>1. \A i \in DOMAIN tasks : tasks[i] \in TaskRows BY DEF CatalogueInv, TasksFit
  <2>2. \A i \in DOMAIN tasks : tasks[i].state \in {"pending", "leased", "done", "failed"}
    BY <2>1 DEF TaskRows
  <2> QED BY <2>2
<1> HIDE DEF s
<1>4. TasksFit' /\ FollowUpsOnce' /\ DOMAIN tasks' = DOMAIN tasks
  BY <1>2, <1>3, TasksMarked DEF CatalogueInv
<1>5. call' \in [Callers -> Calls] /\ work' \in Works /\ work'.step = "idle"
  BY <1>1 DEF Calls, Works, Resting
<1>6. registry \in SUBSET RegistryRows /\ IsFiniteSet(registry)
      /\ \A x, y \in registry : x.uid = y.uid => x = y
  BY DEF CatalogueInv, CatalogueShape
<1>7. ContractsFit' /\ (\A m \in mirror' : MirrorFits(m)) /\ KnownStep
  BY <1>1, <1>6, UnderlyingsWritten, ChainsKnown DEF CatalogueInv, CatalogueShape
<1>8. BlocksFit' BY <1>1 DEF UnderlyingWrite, CatalogueInv, BlocksFit, BlocksDisjoint
<1>9. CatalogueShape' BY <1>1, <1>5, <1>6, <1>7 DEF CatalogueInv, CatalogueShape
<1> QED BY <1>4, <1>7, <1>8, <1>9 DEF CatalogueInv

\* The underlyings of the start are in no other's way.
LEMMA CatalogueStarts == Init => CatalogueInv
<1> SUFFICES ASSUME Init PROVE CatalogueInv OBVIOUS
<1>1. PICK uids \in [Registered -> 1 .. Cardinality(Registered)], filed \in BOOLEAN :
        StartWith(uids, filed)
  BY DEF Init
<1> DEFINE d1 == Min(Dates)
           rows == {Row(uids[s], s, uids[s], TRUE) : s \in Registered}
           M == IF filed THEN rows ELSE {}
           lo(r, d) == IF d = d1 THEN BaseForUnit(r.uid) ELSE 0
           day(r, d) == [uid |-> r.uid, d |-> d, lo |-> lo(r, d),
                         hi |-> IF d = d1 THEN lo(r, d) + BlockSize - 1 ELSE 0,
                         n |-> IF d = d1 THEN 1 ELSE 0]
           spot(r) == [id |-> r.spot, uid |-> r.uid, name |-> SpotName(r.sym)]
           one(r) == [id |-> lo(r, d1), uid |-> r.uid, name |-> <<r.sym, d1, Min(Strikes)>>]
           card(r) == [uid |-> r.uid, sym |-> r.sym, spot |-> r.spot, active |-> TRUE,
                       expiries |-> Cardinality(Dates), contracts |-> 1]
<1>10. /\ registry = rows /\ IsInjective(uids)
       /\ mirror = {card(r) : r \in M}
       /\ contracts = {spot(r) : r \in M} \cup {one(r) : r \in M}
       /\ expiries = {day(r, d) : r \in M, d \in Dates}
       /\ taken = Cardinality(M) /\ tasks = <<>>
       /\ call = [a \in Callers |-> Resting] /\ work = [step |-> "idle"]
  BY <1>1 DEF StartWith
<1>2. IsFiniteSet(Registered) /\ Cardinality(Registered) \in Nat
  BY CatalogueAssumption, FS_Subset, FS_CardinalityType
<1>3. SpotMax \in Nat /\ BlockSize \in Nat \ {0} /\ Cardinality(Registered) <= SpotMax
  BY CatalogueAssumption
<1>4. d1 \in Dates /\ Min(Strikes) \in Strikes /\ Dates \subseteq Nat \ {0} /\ Strikes \subseteq Nat
  <2>1. Dates \in SUBSET Nat /\ Strikes \in SUBSET Nat /\ Dates # {} /\ Strikes # {}
        /\ Dates \subseteq Nat \ {0}
    BY CatalogueAssumption
  <2> QED BY <2>1, MinIsLeast
<1>5. \A r \in rows : \E s \in Registered :
         /\ r = [uid |-> uids[s], sym |-> s, spot |-> uids[s], active |-> TRUE]
         /\ uids[s] \in 1 .. SpotMax /\ s \in Symbols
  BY <1>2, <1>3, CatalogueAssumption DEF Row
<1>6. \A r \in rows : r \in RegistryRows /\ r.uid \in Nat \ {0} /\ r.spot = r.uid
                      /\ r.uid \in 1 .. SpotMax /\ r.sym \in Symbols
  <2> SUFFICES ASSUME NEW r \in rows
               PROVE  /\ r \in RegistryRows /\ r.uid \in Nat \ {0} /\ r.spot = r.uid
                      /\ r.uid \in 1 .. SpotMax /\ r.sym \in Symbols
    OBVIOUS
  <2>1. PICK s \in Registered :
          /\ r = [uid |-> uids[s], sym |-> s, spot |-> uids[s], active |-> TRUE]
          /\ uids[s] \in 1 .. SpotMax /\ s \in Symbols
    BY <1>5
  <2>2. uids[s] \in Nat \ {0} BY <1>3, <2>1
  <2> QED BY <2>1, <2>2 DEF RegistryRows
<1>7. \A r, q \in rows : r.uid = q.uid => r = q
  <2> SUFFICES ASSUME NEW r \in rows, NEW q \in rows, r.uid = q.uid PROVE r = q OBVIOUS
  <2>1. PICK s \in Registered :
          r = [uid |-> uids[s], sym |-> s, spot |-> uids[s], active |-> TRUE]
    BY <1>5
  <2>2. PICK t \in Registered :
          q = [uid |-> uids[t], sym |-> t, spot |-> uids[t], active |-> TRUE]
    BY <1>5
  <2>3. uids[s] = uids[t] BY <2>1, <2>2
  <2>4. s = t BY <1>10, <2>3 DEF IsInjective
  <2> QED BY <2>1, <2>2, <2>4
<1>8. IsFiniteSet(rows)
  <2> DEFINE f == [s \in Registered |-> Row(uids[s], s, uids[s], TRUE)]
  <2>1. rows = {f[s] : s \in Registered} OBVIOUS
  <2> HIDE DEF f, rows
  <2> QED BY <1>2, <2>1, ImagesFinite
<1>9. M \subseteq rows OBVIOUS
<1> HIDE DEF rows, M, d1
<1>11. IsFiniteSet(M) /\ Cardinality(M) \in Nat BY <1>8, <1>9, FS_Subset, FS_CardinalityType
<1>12. CatalogueShape
  <2>1. \A m \in mirror : MirrorFits(m)
    <3> SUFFICES ASSUME NEW m \in mirror PROVE MirrorFits(m) OBVIOUS
    <3>1. PICK r \in M : m = card(r) BY <1>10
    <3>2. r.spot \in 1 .. SpotMax BY <1>6, <1>9
    <3> QED BY <3>1, <3>2 DEF MirrorFits
  <2>2. call \in [Callers -> Calls] /\ work \in Works /\ work.step = "idle"
    BY <1>10 DEF Calls, Works, Resting
  <2> QED BY <1>6, <1>7, <1>8, <1>10, <1>11, <2>1, <2>2 DEF CatalogueShape
<1>13. TasksFit /\ FollowUpsOnce
  <2>1. tasks \in Seq(TaskRows) /\ DOMAIN tasks = {} BY <1>10
  <2> QED BY <2>1 DEF TasksFit, FollowUpsOnce
<1>14. \A r \in M : \A d \in Dates :
         LET e == day(r, d) IN
           /\ e \in ExpiryRows /\ e.uid = r.uid /\ e.d = d
           /\ IF d = d1 THEN /\ e.lo = BaseForUnit(r.uid) /\ e.lo > SpotMax /\ e.lo <= e.hi
                             /\ e.hi = BaseForUnit(r.uid + 1) - 1
              ELSE e.lo = 0 /\ e.hi = 0
  <2> SUFFICES ASSUME NEW r \in M, NEW d \in Dates
               PROVE  LET e == day(r, d) IN
                        /\ e \in ExpiryRows /\ e.uid = r.uid /\ e.d = d
                        /\ IF d = d1 THEN /\ e.lo = BaseForUnit(r.uid) /\ e.lo > SpotMax
                                          /\ e.lo <= e.hi /\ e.hi = BaseForUnit(r.uid + 1) - 1
                           ELSE e.lo = 0 /\ e.hi = 0
    OBVIOUS
  <2>1. r.uid \in Nat \ {0} BY <1>6, <1>9
  <2>2. PICK u \in Nat \ {0} : u = r.uid BY <2>1
  <2>3. BaseForUnit(u) \in Nat /\ BaseForUnit(u) > SpotMax
        /\ BaseForUnit(u) + 1 * BlockSize = BaseForUnit(u + 1)
    BY UnitsFollow
  <2>4. 1 * BlockSize = BlockSize BY <1>3
  <2>5. CASE d = d1
    <3>1. day(r, d) = [uid |-> u, d |-> d, lo |-> BaseForUnit(u),
                       hi |-> BaseForUnit(u) + BlockSize - 1, n |-> 1]
      BY <2>2, <2>5
    <3>2. BaseForUnit(u) + BlockSize - 1 \in Nat BY <1>3, <2>3
    <3> QED BY <1>3, <2>2, <2>3, <2>4, <2>5, <3>1, <3>2 DEF ExpiryRows
  <2>6. CASE d # d1
    <3>1. day(r, d) = [uid |-> u, d |-> d, lo |-> 0, hi |-> 0, n |-> 0] BY <2>2, <2>6
    <3> QED BY <2>2, <2>6, <3>1 DEF ExpiryRows
  <2> QED BY <2>5, <2>6
<1>15. \A e \in expiries : \E r \in M, d \in Dates : e = day(r, d) BY <1>10
<1>16. IsFiniteSet(expiries)
  <2> DEFINE f == [p \in M \X Dates |-> day(p[1], p[2])]
  <2>1. IsFiniteSet(M \X Dates) BY <1>11, FS_Product, CatalogueAssumption
  <2>2. expiries = {f[p] : p \in M \X Dates}
    <3>1. \A r \in M : \A d \in Dates : f[<<r, d>>] = day(r, d) OBVIOUS
    <3>2. \A p \in M \X Dates : p = <<p[1], p[2]>> /\ p[1] \in M /\ p[2] \in Dates OBVIOUS
    <3> HIDE DEF f, day
    <3>3. \A e \in expiries : \E r \in M, d \in Dates : e = day(r, d) BY <1>15
    <3>4. \A r \in M : \A d \in Dates : day(r, d) \in expiries
      <4> USE DEF day
      <4> QED BY <1>10
    <3>5. \A e \in expiries : \E p \in M \X Dates : e = f[p]
      <4> SUFFICES ASSUME NEW e \in expiries PROVE \E p \in M \X Dates : e = f[p] OBVIOUS
      <4>1. PICK r \in M, d \in Dates : e = day(r, d) BY <3>3
      <4>2. <<r, d>> \in M \X Dates /\ e = f[<<r, d>>] BY <3>1, <4>1
      <4> QED BY <4>2
    <3>6. \A p \in M \X Dates : f[p] \in expiries
      <4> SUFFICES ASSUME NEW p \in M \X Dates PROVE f[p] \in expiries OBVIOUS
      <4>1. f[p] = day(p[1], p[2]) BY <3>1, <3>2
      <4> QED BY <3>2, <3>4, <4>1
    <3> QED BY <3>5, <3>6
  <2> HIDE DEF f
  <2> QED BY <2>1, <2>2, ImagesFinite
<1> HIDE DEF day
<1>17. BlocksFit
  <2>1. expiries \subseteq ExpiryRows BY <1>14, <1>15
  <2>2. \A e, f \in expiries : e.uid = f.uid /\ e.d = f.d => e = f
    <3> SUFFICES ASSUME NEW e \in expiries, NEW f \in expiries, e.uid = f.uid, e.d = f.d
                 PROVE  e = f
      OBVIOUS
    <3>1. PICK r \in M, d \in Dates : e = day(r, d) BY <1>15
    <3>2. PICK q \in M, k \in Dates : f = day(q, k) BY <1>15
    <3>3. r.uid = q.uid /\ d = k BY <1>14, <3>1, <3>2
    <3>4. r = q BY <1>7, <1>9, <3>3
    <3> QED BY <3>1, <3>2, <3>3, <3>4
  <2>3. \A e \in expiries : IF e.lo = 0 THEN e.hi = 0 ELSE WholeUnits(e.lo, e.hi)
    <3> SUFFICES ASSUME NEW e \in expiries
                 PROVE  IF e.lo = 0 THEN e.hi = 0 ELSE WholeUnits(e.lo, e.hi)
      OBVIOUS
    <3>1. PICK r \in M, d \in Dates : e = day(r, d) BY <1>15
    <3>2. r.uid \in Nat \ {0} /\ 1 \in Nat \ {0} BY <1>6, <1>9
    <3>3. CASE d = d1
      <4>1. e.lo = BaseForUnit(r.uid) /\ e.lo > SpotMax /\ e.hi = BaseForUnit(r.uid + 1) - 1
        BY <1>14, <3>1, <3>3
      <4>2. WholeUnits(e.lo, e.hi) BY <3>2, <4>1 DEF WholeUnits
      <4>3. e.lo \in Nat BY <2>1 DEF ExpiryRows
      <4> QED BY <1>3, <4>1, <4>2, <4>3
    <3>4. CASE d # d1 BY <1>14, <3>1, <3>4
    <3> QED BY <3>3, <3>4
  <2>4. BlocksDisjoint
    <3> SUFFICES ASSUME NEW e \in expiries, NEW f \in expiries, e.lo # 0, f.lo # 0
                 PROVE  /\ e.lo > SpotMax /\ e.lo <= e.hi
                        /\ e # f => e.hi < f.lo \/ f.hi < e.lo
      BY DEF BlocksDisjoint
    <3>1. PICK r \in M, d \in Dates : e = day(r, d) BY <1>15
    <3>2. PICK q \in M, k \in Dates : f = day(q, k) BY <1>15
    <3>3. d = d1 /\ k = d1 BY <1>14, <3>1, <3>2
    <3>4. /\ e.lo > SpotMax /\ e.lo <= e.hi
          /\ e.lo = BaseForUnit(r.uid) /\ e.hi = BaseForUnit(r.uid + 1) - 1
          /\ f.lo = BaseForUnit(q.uid) /\ f.hi = BaseForUnit(q.uid + 1) - 1
      BY <1>14, <3>1, <3>2, <3>3
    <3>5. PICK u, v \in Nat \ {0} : u = r.uid /\ v = q.uid BY <1>6, <1>9
    <3>6. ASSUME e # f PROVE e.hi < f.lo \/ f.hi < e.lo
      <4>1. u # v
        <5>1. CASE u = v
          <6>1. r = q BY <1>7, <1>9, <3>5, <5>1
          <6> QED BY <3>1, <3>2, <3>3, <3>6, <6>1
        <5> QED BY <5>1
      <4>2. u + 1 \in Nat \ {0} /\ v + 1 \in Nat \ {0} /\ (u + 1 <= v \/ v + 1 <= u)
        BY <4>1
      <4>3. BaseForUnit(u + 1) <= BaseForUnit(v) \/ BaseForUnit(v + 1) <= BaseForUnit(u)
        BY <4>2, UnitsFollow
      <4>4. {BaseForUnit(u), BaseForUnit(v), BaseForUnit(u + 1), BaseForUnit(v + 1)} \subseteq Nat
        BY <4>2, UnitsFollow
      <4> QED BY <3>4, <3>5, <4>3, <4>4
    <3> QED BY <3>4, <3>6
  <2> QED BY <1>16, <2>1, <2>2, <2>3, <2>4 DEF BlocksFit
<1>18. \A r \in M : /\ spot(r) \in ContractRows /\ ~Chain(spot(r)) /\ spot(r).id <= SpotMax
                    /\ spot(r).uid = r.uid /\ spot(r).id = r.uid
  <2> SUFFICES ASSUME NEW r \in M
               PROVE  /\ spot(r) \in ContractRows /\ ~Chain(spot(r)) /\ spot(r).id <= SpotMax
                      /\ spot(r).uid = r.uid /\ spot(r).id = r.uid
    OBVIOUS
  <2>1. r.uid \in 1 .. SpotMax /\ r.spot = r.uid /\ r.sym \in Symbols BY <1>6, <1>9
  <2> QED BY <1>3, <2>1 DEF ContractRows, Chain, SpotName, Names
<1>19. \A r \in M : /\ one(r) \in ContractRows /\ Chain(one(r)) /\ one(r).id > SpotMax
                    /\ one(r).uid = r.uid /\ one(r).id = BaseForUnit(r.uid)
                    /\ one(r).name = <<r.sym, d1, Min(Strikes)>> /\ one(r).name[2] = d1
  <2> SUFFICES ASSUME NEW r \in M
               PROVE  /\ one(r) \in ContractRows /\ Chain(one(r)) /\ one(r).id > SpotMax
                      /\ one(r).uid = r.uid /\ one(r).id = BaseForUnit(r.uid)
                      /\ one(r).name = <<r.sym, d1, Min(Strikes)>> /\ one(r).name[2] = d1
    OBVIOUS
  <2>1. r.uid \in Nat \ {0} /\ r.sym \in Symbols BY <1>6, <1>9
  <2>2. BaseForUnit(r.uid) \in Nat /\ BaseForUnit(r.uid) > SpotMax BY <2>1, UnitsFollow
  <2>3. d1 # 0 /\ d1 \in Dates BY <1>4
  <2>4. one(r) = [id |-> BaseForUnit(r.uid), uid |-> r.uid, name |-> <<r.sym, d1, Min(Strikes)>>]
    OBVIOUS
  <2>5. <<r.sym, d1, Min(Strikes)>> \in Names BY <1>4, <2>1 DEF Names
  <2> QED BY <2>1, <2>2, <2>3, <2>4, <2>5 DEF ContractRows, Chain
<1>20. \A r, q \in M : r.sym = q.sym => r = q
  <2> SUFFICES ASSUME NEW r \in M, NEW q \in M, r.sym = q.sym PROVE r = q OBVIOUS
  <2>1. PICK s \in Registered :
          r = [uid |-> uids[s], sym |-> s, spot |-> uids[s], active |-> TRUE]
    BY <1>5, <1>9
  <2>2. PICK t \in Registered :
          q = [uid |-> uids[t], sym |-> t, spot |-> uids[t], active |-> TRUE]
    BY <1>5, <1>9
  <2> QED BY <2>1, <2>2
<1>21. \A c \in contracts : \E r \in M : c = spot(r) \/ c = one(r) BY <1>10
<1>22. IsFiniteSet(contracts)
  <2> DEFINE f == [r \in M |-> spot(r)]
             g == [r \in M |-> one(r)]
  <2>1. contracts = {f[r] : r \in M} \cup {g[r] : r \in M} BY <1>10
  <2> HIDE DEF f, g, M
  <2>2. IsFiniteSet({f[r] : r \in M}) BY <1>11, ImagesFinite
  <2>3. IsFiniteSet({g[r] : r \in M}) BY <1>11, ImagesFinite
  <2> QED BY <2>1, <2>2, <2>3, FS_Union
<1> HIDE DEF spot, one
<1>23. ContractsFit
  <2>1. contracts \subseteq ContractRows BY <1>18, <1>19, <1>21
  <2>2. \A c \in contracts : IF Chain(c) THEN c.id > SpotMax ELSE c.id <= SpotMax
    BY <1>18, <1>19, <1>21
  <2>3. OneEach
    <3> SUFFICES ASSUME NEW c \in contracts, NEW k \in contracts, Chain(c), Chain(k),
                        c.id = k.id \/ c.name = k.name
                 PROVE  c = k
      BY DEF OneEach
    <3>1. PICK r \in M : c = one(r) BY <1>18, <1>21
    <3>2. PICK q \in M : k = one(q) BY <1>18, <1>21
    <3>3. CASE c.name = k.name
      <4>1. <<r.sym, d1, Min(Strikes)>> = <<q.sym, d1, Min(Strikes)>>
        BY <1>19, <3>1, <3>2, <3>3
      <4>2. r.sym = q.sym BY <4>1
      <4> QED BY <1>20, <3>1, <3>2, <4>2
    <3>4. CASE c.id = k.id
      <4>1. BaseForUnit(r.uid) = BaseForUnit(q.uid) BY <1>19, <3>1, <3>2, <3>4
      <4>2. r.uid \in Nat \ {0} /\ q.uid \in Nat \ {0} BY <1>6, <1>9
      <4>3. r.uid = q.uid BY <4>1, <4>2, UnitsFollow
      <4> QED BY <1>7, <1>9, <3>1, <3>2, <4>3
    <3> QED BY <3>3, <3>4
  <2>4. \A c, k \in contracts : c.uid = k.uid /\ c.id = k.id => c = k
    <3> SUFFICES ASSUME NEW c \in contracts, NEW k \in contracts, c.uid = k.uid, c.id = k.id
                 PROVE  c = k
      OBVIOUS
    <3>1. c.id \in Nat /\ SpotMax \in Nat BY <1>3, <2>1 DEF ContractRows
    <3>2. PICK r \in M : c = spot(r) \/ c = one(r) BY <1>21
    <3>3. PICK q \in M : k = spot(q) \/ k = one(q) BY <1>21
    <3>4. r.uid = q.uid BY <1>18, <1>19, <3>2, <3>3
    <3>5. r = q BY <1>7, <1>9, <3>4
    <3>6. (c = spot(r) <=> ~Chain(c)) /\ (k = spot(q) <=> ~Chain(k)) BY <1>18, <1>19, <3>2, <3>3
    <3>7. Chain(c) <=> Chain(k) BY <2>2, <3>1
    <3> QED BY <3>2, <3>3, <3>5, <3>6, <3>7
  <2>5. IdsInBlock
    <3> SUFFICES ASSUME NEW c \in contracts, c.name[2] # 0
                 PROVE  \E e \in expiries : e.uid = c.uid /\ e.d = c.name[2]
                                            /\ c.id \in e.lo .. e.hi
      BY DEF IdsInBlock
    <3>1. PICK r \in M : c = one(r) BY <1>18, <1>21 DEF Chain
    <3>2. day(r, d1) \in expiries BY <1>4, <1>10
    <3>3. PICK e \in expiries : e = day(r, d1) BY <3>2
    <3>4. /\ e.uid = r.uid /\ e.d = d1 /\ e.lo = BaseForUnit(r.uid) /\ e.lo <= e.hi
          /\ e \in ExpiryRows
      BY <1>4, <1>14, <3>3
    <3>5. c.uid = r.uid /\ c.name[2] = d1 /\ c.id = BaseForUnit(r.uid) BY <1>19, <3>1
    <3>6. c.id \in e.lo .. e.hi BY <3>4, <3>5 DEF ExpiryRows
    <3> QED BY <3>3, <3>4, <3>5, <3>6
  <2> QED BY <1>22, <2>1, <2>2, <2>3, <2>4, <2>5 DEF ContractsFit
<1> QED BY <1>12, <1>13, <1>17, <1>23 DEF CatalogueInv

\* Every step of the catalogue.
LEMMA CatalogueStep ==
  ASSUME CatalogueInv, [Next]_vars
  PROVE  CatalogueInv' /\ ("short_response" \notin Freedoms => KnownStep)
<1>1. CASE UNCHANGED vars
  <2>1. UNCHANGED <<registry, duck, tasks, call, work>> BY <1>1 DEF vars
  <2>2. CatalogueShape' BY <2>1, TablesStay DEF CatalogueInv, CatalogueShape
  <2> QED BY <2>1, <2>2, TablesStay, QueueStays DEF CatalogueInv
<1>2. CASE Next
  <2>1. CASE \E a \in Callers, s \in Symbols : CreateUnderlying(a, s)
    BY <2>1, CreateKeeps
  <2>2. CASE \E a \in Callers : CreateMirror(a) BY <2>2, CreateMirrorKeeps
  <2>3. CASE \E a \in Callers : CreateRow(a) BY <2>3, CreateRowKeeps
  <2>4. CASE \E a \in Callers : CreateUndone(a) \/ RemoveMirror(a) BY <2>4, DeletionKeeps
  <2>5. CASE \E a \in Callers, r \in registry : PatchUnderlying(a, r) BY <2>5, PatchKeeps
  <2>6. CASE \E a \in Callers : PatchMirror(a) BY <2>6, PatchMirrorKeeps
  <2>7. CASE \E a \in Callers : RemoveRow(a) \/ \E r \in registry : RemoveUnderlying(a, r)
    BY <2>7, RemovalKeeps
  <2>8. CASE \E a \in Callers, r \in registry : DiscoverExpiries(a, r) BY <2>8, DiscoverKeeps
  <2>9. CASE \E a \in Callers, r \in registry : CommitSheet(a, r) BY <2>9, CommitKeeps
  <2>10. CASE FireContractDiscovery BY <2>10, FiringKeeps
  <2>11. CASE \E i \in DOMAIN tasks : Lease(i) BY <2>11, LeaseKeeps
  <2>12. CASE \E i \in DOMAIN tasks : StoreChunk(i) BY <2>12, ChunkKeeps
  <2>13. CASE MirrorFirst BY <2>13, MirrorFirstKeeps
  <2>14. CASE HandleExpiryDates BY <2>14, DatesKeep
  <2>15. CASE HandleUnderlyingSymbols BY <2>15, SymbolsKeep
  <2>16. CASE EnqueueCandleChunks BY <2>16, FollowUpsKeep
  <2>17. CASE Ack BY <2>17, AckKeeps
  <2>18. CASE Restart BY <2>18, RestartKeepsCatalogue
  <2> QED BY <1>2, <2>1, <2>2, <2>3, <2>4, <2>5, <2>6, <2>7, <2>8, <2>9, <2>10, <2>11, <2>12,
             <2>13, <2>14, <2>15, <2>16, <2>17, <2>18 DEF Next
<1> QED BY <1>1, <1>2

LEMMA CatalogueInvariant == Spec => []CatalogueInv
<1>1. CatalogueInv /\ [Next]_vars => CatalogueInv' BY CatalogueStep
<1> QED BY <1>1, CatalogueStarts, PTL DEF Spec

\* No two blocks of identifiers meet, and none reaches down to those of the underlyings'
\* own series: for any number of requests at once, whatever was deleted, discovered again
\* or killed half way, and with a sequence that a restored file has set back
\* (`reserve_block`, `allocate_contract_block`).
THEOREM BlocksDisjointAlways == Spec => []BlocksDisjoint
<1>1. CatalogueInv => BlocksDisjoint BY DEF CatalogueInv, BlocksFit
<1> QED BY <1>1, CatalogueInvariant, PTL

\* No two contracts of the chains have one identifier, and none has two
\* (`assign_contract_ids`, `ContractBatchWrite`).
THEOREM OneEachAlways == Spec => []OneEach
<1>1. CatalogueInv => OneEach BY DEF CatalogueInv, ContractsFit
<1> QED BY <1>1, CatalogueInvariant, PTL

\* No job has two chunks of one identifier, though a discovery is run again after a kill
\* and plans its chunks anew (`_enqueue_candle_chunks`).
THEOREM FollowUpsOnceAlways == Spec => []FollowUpsOnce
<1>1. CatalogueInv => FollowUpsOnce BY DEF CatalogueInv
<1> QED BY <1>1, CatalogueInvariant, PTL

\* Where no response leaves out a contract an earlier one had, every contract's identifier
\* lies in the block of its expiry (`assign_contract_ids`).
THEOREM IdsInBlockAlways ==
  ASSUME "short_response" \notin Freedoms PROVE Spec => []IdsInBlock
<1>1. CatalogueInv => IdsInBlock BY DEF CatalogueInv, ContractsFit
<1> QED BY <1>1, CatalogueInvariant, PTL

\* And a contract that is known stays known, under the same name, until its underlying is
\* removed: no batch of another expiry takes its row (`ContractBatchWrite`).
THEOREM KnownStaysKnownAlways ==
  ASSUME "short_response" \notin Freedoms PROVE Spec => KnownStaysKnown
<1>1. CatalogueInv /\ [Next]_vars =>
        [\A c \in {x \in contracts : x.name[2] # 0} :
           \/ \E k \in contracts' : k.name = c.name
           \/ ~\E m \in mirror' : m.uid = c.uid]_vars
  BY CatalogueStep DEF KnownStep
<1> QED BY <1>1, CatalogueInvariant, PTL DEF Spec, KnownStaysKnown

-----------------------------------------------------------------------------
(* One request at a time. *)

\* Where each row counts the members of a set, and no two sets meet, the sum of the counts
\* is the size of the union.
LEMMA CountsAddUp ==
  ASSUME NEW S, IsFiniteSet(S), NEW K,
         \A e \in S : IsFiniteSet(K[e]) /\ e.n = Cardinality(K[e]),
         \A e, f \in S : e # f => K[e] \cap K[f] = {},
         NEW U, \A x : x \in U <=> \E e \in S : x \in K[e]
  PROVE  IsFiniteSet(U) /\ Counted(S) = Cardinality(U)
<1> DEFINE one(s) == CHOOSE e \in s : TRUE
           all(s) == UNION {K[e] : e \in s}
           step(f) == [s \in SUBSET S |-> IF s = {} THEN 0 ELSE one(s).n + f[s \ {one(s)}]]
           sum == [s \in SUBSET S |-> Cardinality(all(s))]
           f == CHOOSE f : f = step(f)
<1>1. Counted(S) = f[S] BY DEF Counted, MapThenSumSet, MapThenFoldSet
<1>2. \A s \in SUBSET S : IsFiniteSet(s) /\ Cardinality(s) \in Nat
  BY FS_Subset, FS_CardinalityType
<1>3. \A s \in SUBSET S : s # {} => one(s) \in s OBVIOUS
<1> HIDE DEF one
<1>4. ASSUME NEW s \in SUBSET S PROVE IsFiniteSet(all(s)) /\ Cardinality(all(s)) \in Nat
  <2> DEFINE g == [e \in s |-> K[e]]
             T == {g[e] : e \in s}
  <2>0. IsFiniteSet(s) BY <1>2
  <2>1. IsFiniteSet(T)
    <3> HIDE DEF g
    <3> QED BY <2>0, ImagesFinite
  <2>2. \A t \in T : IsFiniteSet(t) OBVIOUS
  <2>3. all(s) = UNION T OBVIOUS
  <2> HIDE DEF T, all
  <2> QED BY <2>1, <2>2, <2>3, FS_UNION, FS_CardinalityType
<1>5. ASSUME NEW s \in SUBSET S, s # {}
      PROVE  Cardinality(all(s)) = one(s).n + Cardinality(all(s \ {one(s)}))
  <2>1. PICK e \in s : e = one(s) BY <1>3, <1>5
  <2> DEFINE r == s \ {e}
  <2>2. all(s) = K[e] \cup all(r) BY <2>1
  <2>3. K[e] \cap all(r) = {} OBVIOUS
  <2>4. r \in SUBSET S /\ e \in S OBVIOUS
  <2>5. IsFiniteSet(K[e]) /\ Cardinality(K[e]) \in Nat /\ e.n = Cardinality(K[e])
    BY <2>4, FS_CardinalityType
  <2>6. IsFiniteSet(all(r)) /\ Cardinality(all(r)) \in Nat BY <1>4, <2>4
  <2>7. r = s \ {one(s)} BY <2>1
  <2> HIDE DEF all, r
  <2>8. Cardinality(K[e] \cup all(r)) = Cardinality(K[e]) + Cardinality(all(r)) - Cardinality(K[e] \cap all(r))
    BY <2>5, <2>6, FS_Union
  <2>9. Cardinality(K[e] \cap all(r)) = 0 BY <2>3, FS_EmptySet
  <2> QED BY <2>1, <2>2, <2>5, <2>6, <2>7, <2>8, <2>9
<1>6. Cardinality(all({})) = 0
  <2>1. all({}) = {} OBVIOUS
  <2> QED BY <2>1, FS_EmptySet
<1> HIDE DEF all
<1>7. sum = step(sum)
  <2>1. \A s \in SUBSET S : s \ {one(s)} \in SUBSET S OBVIOUS
  <2>2. \A s \in SUBSET S : sum[s] = IF s = {} THEN 0 ELSE one(s).n + sum[s \ {one(s)}]
    BY <1>5, <1>6, <2>1
  <2> QED BY <2>2
<1> HIDE DEF sum
<1>8. f = step(f)
  <2> HIDE DEF step
  <2> QED BY <1>7
<1> HIDE DEF f
<1>9. \A s \in SUBSET S : f[s] = IF s = {} THEN 0 ELSE one(s).n + f[s \ {one(s)}] BY <1>8
<1>10. \A s \in SUBSET S : f[s] = Cardinality(all(s))
  <2> DEFINE wrong == {s \in SUBSET S : f[s] # Cardinality(all(s))}
             sizes == {Cardinality(s) : s \in wrong}
  <2>1. SUFFICES ASSUME wrong # {} PROVE FALSE OBVIOUS
  <2>2. sizes \in SUBSET Nat /\ sizes # {} BY <1>2, <2>1
  <2>3. PICK n \in sizes : \A m \in sizes : n <= m BY <2>2, LeastExists
  <2>4. PICK s \in wrong : Cardinality(s) = n BY <2>3
  <2>5. s # {} BY <1>6, <1>9, <2>4
  <2> DEFINE r == s \ {one(s)}
  <2>6. r \in SUBSET S /\ Cardinality(r) = Cardinality(s) - 1
    <3>1. one(s) \in s BY <1>3, <2>5
    <3>2. IsFiniteSet(s) BY <1>2
    <3> QED BY <3>1, <3>2, FS_RemoveElement
  <2>7. r \notin wrong
    <3>1. Cardinality(s) \in Nat BY <1>2
    <3>2. r \in wrong => Cardinality(r) \in sizes OBVIOUS
    <3> HIDE DEF wrong, sizes, r
    <3> QED BY <2>3, <2>4, <2>6, <3>1, <3>2
  <2>8. f[r] = Cardinality(all(r)) BY <2>6, <2>7
  <2>9. f[s] = one(s).n + f[r] BY <1>9, <2>5
  <2>10. Cardinality(all(s)) = one(s).n + Cardinality(all(r)) BY <1>5, <2>5
  <2> QED BY <2>4, <2>8, <2>9, <2>10
<1>11. S \in SUBSET S /\ U = all(S) BY DEF all
<1> QED BY <1>1, <1>4, <1>10, <1>11

\* One request is under way at once, a delete purges, and the environment takes none of
\* its freedoms.
SoleAssumption ==
  /\ \A a, b \in Callers : a = b
  /\ Purges \subseteq {TRUE}
  /\ Freedoms \cap AllFreedoms = {}

MirrorRows == [uid : Nat, sym : Symbols, spot : 1 .. SpotMax, active : BOOLEAN,
               expiries : Nat, contracts : Nat]
BarRows == [id : Nat \ {0}, name : Names]

\* A mirrored underlying without its counts.
Cards == {Row(m.uid, m.sym, m.spot, m.active) : m \in mirror}
Alike(x, y) == x.uid = y.uid \/ x.sym = y.sym \/ x.spot = y.spot
Same(x, y) == x.uid = y.uid /\ x.sym = y.sym /\ x.spot = y.spot
Chains == {c \in contracts : Chain(c)}
Unfiled(uid) == \A x \in Cards \cup expiries \cup contracts : x.uid # uid

\* A number, a symbol and a series are of one underlying, the same in both databases.
KeysApart ==
  /\ \A x, y \in mirror : x.uid = y.uid => x = y
  /\ \A x, y \in registry : Alike(x, y) => x = y
  /\ \A x, y \in Cards : Alike(x, y) => x = y
  /\ \A r \in registry, m \in Cards : Alike(r, m) => Same(r, m)
\* The contracts that stand for a series are those of the mirrored underlyings.
SpotsListed == contracts \ Chains = SpotRows(Cards)
TablesFit ==
  /\ mirror \subseteq MirrorRows
  /\ KeysApart /\ SpotsListed /\ RollupsMatch /\ RowsHaveOwners

Live(i) == tasks[i].state \in {"pending", "leased"}
\* A live task is of an underlying that is registered.
LiveOwned ==
  \A i \in DOMAIN tasks : Live(i) =>
    \E r \in registry : r.uid = tasks[i].uid /\ r.sym = tasks[i].sym

\* What holds of the row a request works on, at each of its steps.
Unheard(r) == \A q \in registry : q.uid # r.uid /\ q.sym # r.sym /\ q \in Cards
Quiet(r) == r \in registry /\ \A i \in DOMAIN tasks : tasks[i].uid = r.uid => ~Live(i)
RequestFits(a) ==
  /\ At(a, "mirror") => Unheard(call[a].row)
  /\ At(a, "declare") \/ At(a, "undo") => Unheard(call[a].row) /\ call[a].row \in Cards
  /\ At(a, "remirror") => call[a].row \in registry /\ \E m \in Cards : Same(m, call[a].row)
  /\ At(a, "unlist") => Quiet(call[a].row) /\ call[a].purge = TRUE
  /\ At(a, "undeclare") => Quiet(call[a].row) /\ Unfiled(call[a].row.uid)
\* An underlying is mirrored as it is registered, or is about to be, or nothing is filed.
MirrorsFit ==
  \A r \in registry :
    \/ \E a \in Callers : At(a, "remirror") /\ call[a].row = r
    \/ r \in Cards \/ Unfiled(r.uid)
\* The worker has a leased task, whose underlying is mirrored, or has nothing filed.
WorkFits ==
  work.step # "idle" =>
    /\ Leased.state = "leased" /\ Leased.kind # "chunk"
    /\ IF work.step = "mirroring"
         THEN work.row \in registry /\ Unfiled(work.row.uid) /\ Leased.uid = work.row.uid
         ELSE \E m \in Cards : m.uid = Leased.uid

\* An identifier that a renumbering has left behind: the sequence is past it.
Passed(id) ==
  /\ id < BaseForUnit(taken + 1)
  /\ \A e \in expiries : ~(e.lo <= id /\ id <= e.hi)
\* What is stored, or will be, is filed under its own name or under none.
Fits(id, name) ==
  IF id <= SpotMax
    THEN \E r \in registry, m \in Cards : r.spot = id /\ m.spot = id /\ name = SpotName(r.sym)
    ELSE /\ \A c \in Chains : c.id = id => c.name = name
         /\ (\A c \in Chains : c.id # id) => Passed(id)
Owned(id, uid) ==
  /\ \A c \in Chains : c.id = id => c.uid = uid
  /\ \A m \in Cards : m.spot = id => m.uid = uid
LiveChunks ==
  {[id |-> tasks[i].id, name |-> tasks[i].name, uid |-> tasks[i].uid] :
     i \in {j \in DOMAIN tasks : tasks[j].kind = "chunk" /\ Live(j)}}
OutFits ==
  /\ \A b \in bars : b \in BarRows /\ Fits(b.id, b.name)
  /\ \A t \in LiveChunks : t.id # 0 /\ Fits(t.id, t.name) /\ Owned(t.id, t.uid)

SoleInv ==
  /\ TablesFit /\ LiveOwned /\ (\A a \in Callers : RequestFits(a))
  /\ MirrorsFit /\ WorkFits /\ OutFits

\* What the counts are of: the contracts of an expiry, and those of an underlying.
ChainAt(C, e) == {c \in C : c.uid = e.uid /\ c.name[2] = e.d}
ChainsOf(C, uid) == {c \in C : c.uid = uid /\ c.name[2] # 0}
CountsFit(E, C) ==
  /\ IsFiniteSet(E) /\ IsFiniteSet(C)
  /\ \A e, f \in E : e.uid = f.uid /\ e.d = f.d => e = f
  /\ \A e \in E : e.d # 0 /\ e.n = Cardinality(ChainAt(C, e))
  /\ \A c \in C : c.name[2] # 0 => \E e \in E : e.uid = c.uid /\ e.d = c.name[2]

\* The counts on a card are those of the rows below it.
LEMMA CardCounts ==
  ASSUME NEW E, NEW C, CountsFit(E, C), NEW uid
  PROVE  /\ Cardinality(ExpiriesOf(E, uid)) \in Nat
         /\ Counted(ExpiriesOf(E, uid)) \in Nat
         /\ Counted(ExpiriesOf(E, uid)) = Cardinality(ChainsOf(C, uid))
<1> DEFINE mine == ExpiriesOf(E, uid)
           K == [e \in mine |-> ChainAt(C, e)]
           chain == ChainsOf(C, uid)
<1>1. mine \subseteq E /\ \A e \in mine : e.uid = uid BY DEF ExpiriesOf
<1>2. \A e \in E : e.uid = uid => e \in mine BY DEF ExpiriesOf
<1> HIDE DEF mine
<1>3. IsFiniteSet(mine) /\ Cardinality(mine) \in Nat
  BY <1>1, FS_Subset, FS_CardinalityType DEF CountsFit
<1>4. \A e \in mine : K[e] = ChainAt(C, e) OBVIOUS
<1>5. \A e \in mine : IsFiniteSet(K[e]) /\ e.n = Cardinality(K[e])
  <2> SUFFICES ASSUME NEW e \in mine PROVE IsFiniteSet(K[e]) /\ e.n = Cardinality(K[e]) OBVIOUS
  <2>1. K[e] \subseteq C BY <1>4 DEF ChainAt
  <2>2. IsFiniteSet(K[e]) BY <2>1, FS_Subset DEF CountsFit
  <2> QED BY <1>1, <1>4, <2>2 DEF CountsFit
<1>6. \A e, f \in mine : e # f => K[e] \cap K[f] = {}
  BY <1>1, <1>4 DEF CountsFit, ChainAt
<1>7. \A c : c \in chain <=> \E e \in mine : c \in K[e]
  <2>1. ASSUME NEW e \in mine, NEW c \in K[e] PROVE c \in chain
    BY <1>1, <1>4 DEF CountsFit, ChainAt, ChainsOf
  <2>2. ASSUME NEW c \in chain PROVE \E e \in mine : c \in K[e]
    <3>1. PICK e \in E : e.uid = c.uid /\ e.d = c.name[2]
      BY DEF CountsFit, ChainsOf
    <3>2. e \in mine BY <1>2, <3>1 DEF ChainsOf
    <3>3. c \in K[e] BY <1>4, <3>1, <3>2 DEF ChainAt, ChainsOf
    <3> QED BY <3>2, <3>3
  <2> QED BY <2>1, <2>2
<1> HIDE DEF K, chain
<1>8. IsFiniteSet(chain) /\ Counted(mine) = Cardinality(chain)
  BY <1>3, <1>5, <1>6, <1>7, CountsAddUp
<1>9. Cardinality(chain) \in Nat BY <1>8, FS_CardinalityType
<1> QED BY <1>3, <1>8, <1>9 DEF mine, chain

\* Refreshing the counts of one card leaves what it stands for.
LEMMA RollupCards ==
  ASSUME mirror \subseteq MirrorRows, KeysApart, NEW rows, NEW uid,
         Cardinality(ExpiriesOf(rows, uid)) \in Nat, Counted(ExpiriesOf(rows, uid)) \in Nat,
         mirror' = Rollup(rows, mirror, uid)
  PROVE  /\ mirror' \subseteq MirrorRows /\ Cards' = Cards
         /\ \A x, y \in mirror' : x.uid = y.uid => x = y
         /\ \A m \in mirror' : IF m.uid = uid
              THEN /\ m.expiries = Cardinality(ExpiriesOf(rows, uid))
                   /\ m.contracts = Counted(ExpiriesOf(rows, uid))
              ELSE m \in mirror
<1> DEFINE to(m) == IF m.uid = uid THEN Refreshed(rows, m) ELSE m
           card(m) == Row(m.uid, m.sym, m.spot, m.active)
<1>1. ASSUME NEW m \in mirror
      PROVE  /\ to(m) \in MirrorRows /\ card(to(m)) = card(m) /\ to(m).uid = m.uid
             /\ IF m.uid = uid
                  THEN /\ to(m).expiries = Cardinality(ExpiriesOf(rows, uid))
                       /\ to(m).contracts = Counted(ExpiriesOf(rows, uid))
                  ELSE to(m) = m
  <2>1. CASE m.uid = uid
    <3>1. PICK n, k \in Nat : n = Cardinality(ExpiriesOf(rows, uid)) /\ k = Counted(ExpiriesOf(rows, uid))
      OBVIOUS
    <3>2. to(m) = [m EXCEPT !.expiries = n, !.contracts = k] BY <2>1, <3>1 DEF Refreshed
    <3> HIDE DEF to
    <3> QED BY <2>1, <3>1, <3>2 DEF MirrorRows, Row
  <2>2. CASE m.uid # uid BY <2>2
  <2> QED BY <2>1, <2>2
<1>2. \A m \in mirror' : \E q \in mirror : m = to(q) BY DEF Rollup
<1>3. \A q \in mirror : to(q) \in mirror' BY DEF Rollup
<1> HIDE DEF to
<1>4. Cards' = Cards
  <2>1. Cards = {card(m) : m \in mirror} BY DEF Cards
  <2>2. Cards' = {card(m) : m \in mirror'} BY DEF Cards
  <2> HIDE DEF card
  <2>3. ASSUME NEW x \in Cards PROVE x \in Cards' BY <1>1, <1>3, <2>1, <2>2
  <2>4. ASSUME NEW x \in Cards' PROVE x \in Cards BY <1>1, <1>2, <2>1, <2>2
  <2> QED BY <2>3, <2>4
<1>5. \A x, y \in mirror' : x.uid = y.uid => x = y BY <1>1, <1>2 DEF KeysApart
<1> QED BY <1>1, <1>2, <1>4, <1>5

\* A card for each row of the mirror.
LEMMA CardOf ==
  ASSUME mirror \subseteq MirrorRows
  PROVE  /\ \A m \in mirror : /\ Row(m.uid, m.sym, m.spot, m.active) \in Cards
                              /\ Row(m.uid, m.sym, m.spot, m.active).uid = m.uid
                              /\ Row(m.uid, m.sym, m.spot, m.active).sym = m.sym
         /\ \A x \in Cards : /\ x \in RegistryRows
                             /\ \E m \in mirror : x = Row(m.uid, m.sym, m.spot, m.active)
                                                  /\ m.uid = x.uid
BY DEF Cards, Row, MirrorRows, RegistryRows

\* A contract is of a chain, or stands for the series of a mirrored underlying.
LEMMA SpotOf ==
  ASSUME TablesFit
  PROVE  /\ \A c \in contracts : c \in Chains \/ \E m \in Cards : c = [id |-> m.spot, uid |-> m.uid,
                                                                    name |-> SpotName(m.sym)]
         /\ \A m \in Cards : [id |-> m.spot, uid |-> m.uid, name |-> SpotName(m.sym)] \in contracts
         /\ \A m \in Cards : m.spot \in 1 .. SpotMax /\ SpotName(m.sym)[2] = 0
<1>1. contracts \ Chains = SpotRows(Cards) BY DEF TablesFit, SpotsListed
<1>2. \A m \in Cards : m \in RegistryRows BY CardOf DEF TablesFit
<1> QED BY <1>1, <1>2 DEF SpotRows, RegistryRows, SpotName

\* One contract, one identifier and one name.
LEMMA ContractsApart ==
  ASSUME ContractsFit, TablesFit
  PROVE  \A c, k \in contracts : c.id = k.id \/ c.name = k.name => c = k
<1> SUFFICES ASSUME NEW c \in contracts, NEW k \in contracts, c.id = k.id \/ c.name = k.name
             PROVE  c = k
  OBVIOUS
<1>1. /\ \A x \in contracts : x.id \in Nat
      /\ \A x \in contracts : IF Chain(x) THEN x.id > SpotMax ELSE x.id <= SpotMax
      /\ SpotMax \in Nat
  BY UnitsFollow DEF ContractsFit, ContractRows
<1>2. Chain(c) <=> Chain(k)
  <2>1. c.id = k.id => (Chain(c) <=> Chain(k)) BY <1>1
  <2>2. c.name = k.name => (Chain(c) <=> Chain(k)) BY DEF Chain
  <2> QED BY <2>1, <2>2
<1>3. CASE Chain(c) BY <1>2, <1>3 DEF ContractsFit, OneEach
<1>4. CASE ~Chain(c)
  <2>1. PICK m \in Cards : c = [id |-> m.spot, uid |-> m.uid, name |-> SpotName(m.sym)]
    BY <1>4, SpotOf DEF Chains
  <2>2. PICK q \in Cards : k = [id |-> q.spot, uid |-> q.uid, name |-> SpotName(q.sym)]
    BY <1>2, <1>4, SpotOf DEF Chains
  <2>3. m.spot = q.spot \/ m.sym = q.sym BY <2>1, <2>2 DEF SpotName
  <2>4. m = q BY <2>3 DEF TablesFit, KeysApart, Alike
  <2> QED BY <2>1, <2>2, <2>4
<1> QED BY <1>3, <1>4

\* The counts that the invariant keeps.
LEMMA RowsCounted ==
  ASSUME BlocksFit, ContractsFit, IdsInBlock, RollupsMatch
  PROVE  /\ CountsFit(expiries, contracts)
         /\ \A m \in mirror : /\ m.expiries = Cardinality(ExpiriesOf(expiries, m.uid))
                             /\ m.contracts = Cardinality(ChainsOf(contracts, m.uid))
<1>1. IsFiniteSet(expiries) /\ IsFiniteSet(contracts) BY DEF BlocksFit, ContractsFit
<1>2. \A e, f \in expiries : e.uid = f.uid /\ e.d = f.d => e = f BY DEF BlocksFit
<1>3. \A e \in expiries : e.d # 0 BY CatalogueAssumption DEF BlocksFit, ExpiryRows
<1>4. \A e \in expiries : e.n = Cardinality(ChainAt(contracts, e)) BY DEF RollupsMatch, ChainAt
<1>5. \A c \in contracts : c.name[2] # 0
        => \E e \in expiries : e.uid = c.uid /\ e.d = c.name[2]
  BY DEF IdsInBlock
<1>6. \A m \in mirror : /\ m.expiries = Cardinality(ExpiriesOf(expiries, m.uid))
                       /\ m.contracts = Cardinality(ChainsOf(contracts, m.uid))
  BY DEF RollupsMatch, ChainsOf
<1> QED BY <1>1, <1>2, <1>3, <1>4, <1>5, <1>6 DEF CountsFit

\* Rows of underlyings written, each in the place of the row it is alike in every key.
LEMMA SpotsWritten ==
  ASSUME BlocksFit, ContractsFit, IdsInBlock, TablesFit,
         NEW rows \in SUBSET RegistryRows,
         \A x, y \in rows : Alike(x, y) => x = y,
         \A r \in rows, m \in Cards :
           m.uid = r.uid \/ m.sym = r.sym <=> m.spot = r.spot \/ m.sym = r.sym,
         \A q \in registry, r \in rows : Alike(q, r) => Same(q, r),
         UnderlyingWrite(rows), UNCHANGED registry
  PROVE  /\ TablesFit' /\ Chains' = Chains /\ rows \subseteq Cards'
         /\ \A m \in Cards : (\A r \in rows : m.uid # r.uid /\ m.sym # r.sym) => m \in Cards'
         /\ \A m \in Cards' : m \in Cards \/ m \in rows
<1> DEFINE Clear(m) == \A r \in rows : m.uid # r.uid /\ m.sym # r.sym
           kept == {m \in mirror : Clear(m)}
           new == {MirrorRow(r) : r \in rows}
           stay == {c \in contracts : \A r \in rows : c.id # r.spot /\ c.name # SpotName(r.sym)}
           card(m) == Row(m.uid, m.sym, m.spot, m.active)
           spot(m) == [id |-> m.spot, uid |-> m.uid, name |-> SpotName(m.sym)]
<1>1. /\ mirror' = kept \cup new /\ contracts' = stay \cup SpotRows(rows)
      /\ expiries' = expiries /\ registry' = registry
  BY DEF UnderlyingWrite
<1>2. ASSUME NEW r \in rows
      PROVE  /\ MirrorRow(r) \in MirrorRows /\ card(MirrorRow(r)) = r /\ MirrorRow(r).uid = r.uid
             /\ MirrorRow(r).expiries = Cardinality(ExpiriesOf(expiries, r.uid))
             /\ MirrorRow(r).contracts = Cardinality(ChainsOf(contracts, r.uid))
  <2>1. /\ Cardinality(ExpiriesOf(expiries, r.uid)) \in Nat
        /\ Counted(ExpiriesOf(expiries, r.uid)) \in Nat
        /\ Counted(ExpiriesOf(expiries, r.uid)) = Cardinality(ChainsOf(contracts, r.uid))
    BY RowsCounted, CardCounts DEF TablesFit
  <2>2. PICK n, k \in Nat : /\ n = Cardinality(ExpiriesOf(expiries, r.uid))
                            /\ k = Counted(ExpiriesOf(expiries, r.uid))
    BY <2>1
  <2>3. MirrorRow(r) = [uid |-> r.uid, sym |-> r.sym, spot |-> r.spot, active |-> r.active,
                        expiries |-> n, contracts |-> k]
    BY <2>2 DEF MirrorRow
  <2>4. r \in RegistryRows OBVIOUS
  <2>5. MirrorRow(r) \in MirrorRows /\ card(MirrorRow(r)) = r /\ MirrorRow(r).uid = r.uid
    BY <2>3, <2>4 DEF MirrorRows, RegistryRows, Row
  <2>6. MirrorRow(r).expiries = n /\ MirrorRow(r).contracts = k BY <2>3
  <2> QED BY <2>1, <2>2, <2>5, <2>6
<1>3. \A m \in mirror : m \in MirrorRows /\ card(m) \in Cards /\ card(m) \in RegistryRows
                        /\ card(m).uid = m.uid /\ card(m).sym = m.sym
  <2>1. \A m \in mirror : m \in MirrorRows BY DEF TablesFit
  <2> QED BY <2>1, CardOf DEF TablesFit
<1>4. \A m \in mirror' : m \in kept \/ \E r \in rows : m = MirrorRow(r) BY <1>1
<1>5. \A m \in mirror : Clear(m) => m \in mirror' BY <1>1
<1>6. \A r \in rows : MirrorRow(r) \in mirror' BY <1>1
<1>7. \A m \in kept : m \in mirror /\ Clear(m) OBVIOUS
<1>8. Cards' = {card(m) : m \in mirror'} BY DEF Cards
<1>9. \A x \in Cards : \E m \in mirror : x = card(m) BY DEF Cards
<1>10. \A r \in rows : r.spot \in 1 .. SpotMax /\ SpotName(r.sym)[2] = 0
  BY DEF RegistryRows, SpotName
<1>11. contracts \ Chains = SpotRows(Cards) BY DEF TablesFit, SpotsListed
<1>12. \A c \in SpotRows(Cards) : \E m \in Cards : c = spot(m) BY DEF SpotRows
<1>13. \A c \in SpotRows(rows) : \E r \in rows : c = spot(r) BY DEF SpotRows
<1>14. \A r \in rows : spot(r) \in SpotRows(rows) BY DEF SpotRows
<1>15. \A m \in Cards : spot(m) \in SpotRows(Cards) BY DEF SpotRows
<1>16. \A m : spot(m).id = m.spot /\ spot(m).name = SpotName(m.sym) /\ spot(m).name[2] = 0
  BY DEF SpotName
<1>17. \A x, y : SpotName(x) = SpotName(y) => x = y BY DEF SpotName
<1>18. \A r \in rows : MirrorRow(r).uid = r.uid BY <1>2
<1> HIDE DEF card, spot, kept, new
<1>19. \A x \in Cards : Clear(x) => x \in Cards'
  <2> SUFFICES ASSUME NEW x \in Cards, Clear(x) PROVE x \in Cards' OBVIOUS
  <2>1. PICK m \in mirror : x = card(m) BY <1>9
  <2>2. Clear(m) BY <1>3, <2>1
  <2> QED BY <1>5, <1>8, <2>1, <2>2
<1>20. rows \subseteq Cards' BY <1>2, <1>6, <1>8
<1>21. \A x \in Cards' : (x \in Cards /\ Clear(x)) \/ x \in rows
  <2> SUFFICES ASSUME NEW x \in Cards' PROVE (x \in Cards /\ Clear(x)) \/ x \in rows OBVIOUS
  <2>1. PICK m \in mirror' : x = card(m) BY <1>8
  <2>2. CASE m \in kept
    <3>1. m \in mirror /\ Clear(m) BY <1>7, <2>2
    <3> QED BY <1>3, <2>1, <3>1
  <2>3. CASE \E r \in rows : m = MirrorRow(r) BY <1>2, <2>1, <2>3
  <2> QED BY <1>4, <2>2, <2>3
<1>22. KeysApart'
  <2>1. \A x, y \in mirror' : x.uid = y.uid => x = y
    <3> SUFFICES ASSUME NEW x \in mirror', NEW y \in mirror', x.uid = y.uid PROVE x = y OBVIOUS
    <3>1. CASE x \in kept /\ y \in kept BY <1>7, <3>1 DEF TablesFit, KeysApart
    <3>2. CASE x \in kept /\ \E r \in rows : y = MirrorRow(r) BY <1>18, <1>7, <3>2
    <3>3. CASE y \in kept /\ \E r \in rows : x = MirrorRow(r) BY <1>18, <1>7, <3>3
    <3>4. CASE (\E r \in rows : x = MirrorRow(r)) /\ \E q \in rows : y = MirrorRow(q)
      <4>1. PICK r \in rows : x = MirrorRow(r) BY <3>4
      <4>2. PICK q \in rows : y = MirrorRow(q) BY <3>4
      <4>3. r = q BY <1>18, <4>1, <4>2 DEF Alike
      <4> QED BY <4>1, <4>2, <4>3
    <3> QED BY <1>4, <3>1, <3>2, <3>3, <3>4
  <2>2. \A x, y \in Cards' : Alike(x, y) => x = y
    <3> SUFFICES ASSUME NEW x \in Cards', NEW y \in Cards', Alike(x, y) PROVE x = y OBVIOUS
    <3>1. CASE x \in Cards /\ Clear(x) /\ y \in Cards /\ Clear(y)
      BY <3>1 DEF TablesFit, KeysApart
    <3>2. CASE x \in Cards /\ Clear(x) /\ y \in rows BY <3>2 DEF Alike
    <3>3. CASE y \in Cards /\ Clear(y) /\ x \in rows BY <3>3 DEF Alike
    <3>4. CASE x \in rows /\ y \in rows BY <3>4
    <3> QED BY <1>21, <3>1, <3>2, <3>3, <3>4
  <2>3. \A r \in registry, m \in Cards' : Alike(r, m) => Same(r, m)
    BY <1>21 DEF TablesFit, KeysApart
  <2> QED BY <1>1, <2>1, <2>2, <2>3 DEF TablesFit, KeysApart, Alike, Same
<1>23. \A c \in contracts' : IF Chain(c) THEN c \in Chains ELSE c \in SpotRows(Cards')
  <2> SUFFICES ASSUME NEW c \in contracts'
               PROVE  IF Chain(c) THEN c \in Chains ELSE c \in SpotRows(Cards')
    OBVIOUS
  <2>1. CASE c \in SpotRows(rows)
    <3>1. PICK r \in rows : c = spot(r) BY <1>13, <2>1
    <3>2. ~Chain(c) BY <1>16, <3>1 DEF Chain
    <3>3. r \in Cards' BY <1>20
    <3> QED BY <3>1, <3>2, <3>3 DEF SpotRows, spot
  <2>2. CASE c \in stay /\ Chain(c) BY <2>2 DEF Chains
  <2>3. CASE c \in stay /\ ~Chain(c)
    <3>1. PICK m \in Cards : c = spot(m) BY <1>11, <1>12, <2>3 DEF Chains
    <3>2. \A r \in rows : m.spot # r.spot /\ m.sym # r.sym BY <1>16, <2>3, <3>1
    <3>3. Clear(m) BY <3>2
    <3>4. m \in Cards' BY <1>19, <3>3
    <3> QED BY <2>3, <3>1, <3>4 DEF SpotRows, spot
  <2> QED BY <1>1, <2>1, <2>2, <2>3
<1>24. \A c \in Chains : c \in contracts' /\ Chain(c)
  <2> SUFFICES ASSUME NEW c \in Chains PROVE c \in stay BY <1>1 DEF Chains
  <2>1. c \in contracts /\ Chain(c) BY DEF Chains
  <2>2. c.id \in Nat /\ c.id > SpotMax /\ SpotMax \in Nat
    BY <2>1, UnitsFollow DEF ContractsFit, ContractRows
  <2>3. \A r \in rows : c.id # r.spot BY <1>10, <2>2
  <2>4. \A r \in rows : c.name # SpotName(r.sym) BY <1>10, <2>1 DEF Chain
  <2> QED BY <2>1, <2>3, <2>4
<1>25. Chains' = {c \in contracts' : Chain(c)} BY DEF Chains, Chain
<1>26. Chains' = Chains BY <1>23, <1>24, <1>25
<1>27. SpotsListed'
  <2>1. \A m \in Cards' : spot(m) \in contracts' /\ ~Chain(spot(m))
    <3> SUFFICES ASSUME NEW m \in Cards' PROVE spot(m) \in contracts' /\ ~Chain(spot(m)) OBVIOUS
    <3>1. ~Chain(spot(m)) BY <1>16 DEF Chain
    <3>2. CASE m \in rows BY <1>1, <1>14, <3>1, <3>2
    <3>3. CASE m \in Cards /\ Clear(m)
      <4>1. spot(m) \in contracts BY <1>11, <1>15, <3>3
      <4>2. \A r \in rows : m.spot # r.spot /\ m.sym # r.sym BY <3>3
      <4>3. \A r \in rows : spot(m).id # r.spot /\ spot(m).name # SpotName(r.sym)
        BY <1>16, <1>17, <4>2
      <4> QED BY <1>1, <3>1, <4>1, <4>3
    <3> QED BY <1>21, <3>2, <3>3
  <2>2. \A c \in SpotRows(Cards') : \E m \in Cards' : c = spot(m) BY DEF SpotRows, spot
  <2>3. contracts' \ Chains' = SpotRows(Cards')
    BY <1>23, <1>25, <1>26, <2>1, <2>2
  <2> QED BY <2>3 DEF SpotsListed, SpotRows
<1>28. mirror' \subseteq MirrorRows BY <1>2, <1>3, <1>4, <1>7
<1>29. /\ \A uid : ChainsOf(contracts', uid) = ChainsOf(contracts, uid)
       /\ \A e \in expiries : ChainAt(contracts', e) = ChainAt(contracts, e)
  <2>1. \A c : c \in contracts' /\ c.name[2] # 0 <=> c \in contracts /\ c.name[2] # 0
    BY <1>25, <1>26 DEF Chains, Chain
  <2>2. \A e \in expiries : e.d # 0 BY CatalogueAssumption DEF BlocksFit, ExpiryRows
  <2> QED BY <2>1, <2>2 DEF ChainsOf, ChainAt
<1>30. RollupsMatch'
  <2>1. CountsFit(expiries, contracts)
        /\ \A m \in mirror : /\ m.expiries = Cardinality(ExpiriesOf(expiries, m.uid))
                            /\ m.contracts = Cardinality(ChainsOf(contracts, m.uid))
    BY RowsCounted DEF TablesFit
  <2>2. \A e \in expiries' : e.n = Cardinality(ChainAt(contracts', e))
    BY <1>1, <1>29, <2>1 DEF CountsFit
  <2>3. ASSUME NEW m \in mirror'
        PROVE  /\ m.expiries = Cardinality(ExpiriesOf(expiries', m.uid))
               /\ m.contracts = Cardinality(ChainsOf(contracts', m.uid))
    <3>1. CASE m \in kept BY <1>1, <1>7, <1>29, <2>1, <3>1
    <3>2. CASE \E r \in rows : m = MirrorRow(r) BY <1>1, <1>2, <1>29, <3>2
    <3> QED BY <1>4, <3>1, <3>2
  <2> QED BY <2>2, <2>3 DEF RollupsMatch, ChainAt, ChainsOf
<1>31. RowsHaveOwners'
  <2>1. \A c \in contracts' : c.name[2] # 0 => c \in contracts BY <1>23 DEF Chains, Chain
  <2> QED BY <1>1, <2>1 DEF TablesFit, RowsHaveOwners
<1>32. TablesFit' BY <1>22, <1>27, <1>28, <1>30, <1>31 DEF TablesFit
<1> QED BY <1>19, <1>20, <1>21, <1>26, <1>32

BarsStep ==
  \A c \in contracts : \A k \in contracts' :
    c.name = k.name /\ [id |-> c.id, name |-> c.name] \in bars
      => [id |-> k.id, name |-> k.name] \in bars'
SoleStep == SoleInv' /\ BarsStep

\* With one caller, whoever calls is the one.
LEMMA OneCaller == ASSUME SoleAssumption, NEW a \in Callers PROVE \A b \in Callers : b = a
BY DEF SoleAssumption

\* None of the environment's freedoms is taken.
LEMMA NoFreedoms ==
  ASSUME SoleAssumption
  PROVE  /\ "short_response" \notin Freedoms /\ "fires_any_time" \notin Freedoms
         /\ "edits_unmirrored" \notin Freedoms /\ "behind_strays" \notin Freedoms
BY DEF SoleAssumption, AllFreedoms

\* Where no contract moves, its bars stay where they are.
LEMMA BarsStay ==
  ASSUME ContractsFit, TablesFit, contracts' \subseteq contracts, bars \subseteq bars'
  PROVE  BarsStep
BY ContractsApart DEF BarsStep

\* A step that leaves both tables of the underlyings and everything filed.
LEMMA TablesKept ==
  ASSUME TablesFit, UNCHANGED <<registry, mirror, expiries, contracts>>
  PROVE  TablesFit' /\ Cards' = Cards /\ Chains' = Chains
<1>1. Cards' = Cards BY DEF Cards
<1>2. Chains' = Chains BY DEF Chains, Chain
<1>3. KeysApart' BY <1>1 DEF TablesFit, KeysApart, Alike, Same
<1>4. SpotsListed' BY <1>1, <1>2 DEF TablesFit, SpotsListed, SpotRows
<1>5. RollupsMatch' BY DEF TablesFit, RollupsMatch
<1>6. RowsHaveOwners' BY DEF TablesFit, RowsHaveOwners
<1> QED BY <1>1, <1>2, <1>3, <1>4, <1>5, <1>6 DEF TablesFit

\* What is out still fits where the chains stay, and each series has its underlying.
LEMMA FitStays ==
  ASSUME NEW id, NEW name, Fits(id, name), Chains' = Chains, UNCHANGED expiries,
         taken' = taken \/ \E c \in Chains : c.id = id,
         \A r \in registry, m \in Cards : r.spot = m.spot =>
           \E q \in registry' : q.spot = r.spot /\ q.sym = r.sym,
         id <= SpotMax => \A m \in Cards : m.spot = id => \E k \in Cards' : k.spot = id
  PROVE  Fits(id, name)'
<1>1. CASE id <= SpotMax
  <2>1. PICK r \in registry, m \in Cards : r.spot = id /\ m.spot = id /\ name = SpotName(r.sym)
    BY <1>1 DEF Fits
  <2>2. PICK q \in registry' : q.spot = id /\ q.sym = r.sym BY <2>1
  <2>3. PICK k \in Cards' : k.spot = id BY <1>1, <2>1
  <2>4. name = SpotName(q.sym) BY <2>1, <2>2
  <2> QED BY <1>1, <2>2, <2>3, <2>4 DEF Fits, SpotName
<1>2. CASE ~(id <= SpotMax)
  <2>1. \A c \in Chains' : c.id = id => c.name = name BY <1>2 DEF Fits
  <2>2. (\A c \in Chains' : c.id # id) => Passed(id)'
    BY <1>2 DEF Fits, Passed, BaseForUnit, FirstBlock
  <2> QED BY <1>2, <2>1, <2>2 DEF Fits
<1> QED BY <1>1, <1>2

\* Who owns an identifier, while rows only go.
LEMMA OwnedStays ==
  ASSUME NEW id, NEW uid, Owned(id, uid), Chains' \subseteq Chains, Cards' \subseteq Cards
  PROVE  Owned(id, uid)'
BY DEF Owned

\* What is stored or will be stays filed, while the tables of DuckDB stand still.
LEMMA OutStays ==
  ASSUME OutFits, LiveChunks' \subseteq LiveChunks, bars' \subseteq bars,
         UNCHANGED <<mirror, expiries, contracts, taken>>,
         \A r \in registry, m \in Cards : r.spot = m.spot =>
           \E q \in registry' : q.spot = r.spot /\ q.sym = r.sym
  PROVE  OutFits'
<1>1. Chains' = Chains /\ Cards' = Cards BY DEF Chains, Chain, Cards
<1>2. ASSUME NEW b \in bars' PROVE b \in BarRows /\ Fits(b.id, b.name)'
  <2>1. b \in BarRows /\ Fits(b.id, b.name) BY DEF OutFits
  <2> QED BY <1>1, <2>1, FitStays
<1>3. ASSUME NEW t \in LiveChunks' PROVE t.id # 0 /\ Fits(t.id, t.name)' /\ Owned(t.id, t.uid)'
  <2>1. t.id # 0 /\ Fits(t.id, t.name) /\ Owned(t.id, t.uid) BY DEF OutFits
  <2>2. Fits(t.id, t.name)' BY <1>1, <2>1, FitStays
  <2>3. Owned(t.id, t.uid)' BY <1>1, <2>1, OwnedStays
  <2> QED BY <2>1, <2>2, <2>3
<1> QED BY <1>2, <1>3 DEF OutFits, BarRows

\* The series of a registered underlying keeps its identifier when its row is written.
LEMMA SeriesStay ==
  ASSUME KeysApart, NEW rows,
         \A r \in rows, m \in Cards :
           m.uid = r.uid \/ m.sym = r.sym <=> m.spot = r.spot \/ m.sym = r.sym,
         \A q \in registry, r \in rows : Alike(q, r) => Same(q, r),
         rows \subseteq Cards',
         \A m \in Cards : (\A r \in rows : m.uid # r.uid /\ m.sym # r.sym) => m \in Cards',
         NEW r \in registry, NEW m \in Cards, r.spot = m.spot
  PROVE  \E k \in Cards' : k.spot = m.spot
<1>1. CASE \A q \in rows : m.uid # q.uid /\ m.sym # q.sym BY <1>1
<1>2. CASE \E q \in rows : m.uid = q.uid \/ m.sym = q.sym
  <2>1. PICK q \in rows : m.uid = q.uid \/ m.sym = q.sym BY <1>2
  <2>2. m.spot = q.spot \/ m.sym = q.sym BY <2>1
  <2>3. Same(r, m) BY DEF KeysApart, Alike
  <2>4. CASE m.spot = q.spot BY <2>4
  <2>5. CASE m.sym = q.sym
    <3>1. Same(r, q) BY <2>3, <2>5 DEF Alike, Same
    <3> QED BY <2>3, <3>1 DEF Same
  <2> QED BY <2>2, <2>4, <2>5
<1> QED BY <1>1, <1>2

\* Rows of underlyings written: what is out still fits.
LEMMA OutWritten ==
  ASSUME TablesFit, TablesFit', ContractsFit, ContractsFit', OutFits,
         NEW rows \in SUBSET RegistryRows,
         \A r \in rows, m \in Cards :
           m.uid = r.uid \/ m.sym = r.sym <=> m.spot = r.spot \/ m.sym = r.sym,
         \A q \in registry, r \in rows : Alike(q, r) => Same(q, r),
         rows \subseteq Cards', Chains' = Chains,
         \A m \in Cards : (\A r \in rows : m.uid # r.uid /\ m.sym # r.sym) => m \in Cards',
         \A m \in Cards' : m \in Cards \/ m \in rows,
         UNCHANGED <<registry, expiries, bars>>, LiveChunks' \subseteq LiveChunks,
         taken' = taken \/ \A x \in bars \cup LiveChunks :
                             ~(x.id <= SpotMax) => \E c \in Chains : c.id = x.id
  PROVE  OutFits' /\ BarsStep
<1>1. ASSUME NEW id, NEW name, Fits(id, name),
             taken' = taken \/ (~(id <= SpotMax) => \E c \in Chains : c.id = id)
      PROVE  Fits(id, name)'
  <2>1. CASE id <= SpotMax
    <3>1. PICK r \in registry, m \in Cards : r.spot = id /\ m.spot = id /\ name = SpotName(r.sym)
      BY <1>1, <2>1 DEF Fits
    <3>2. PICK k \in Cards' : k.spot = id BY <3>1, SeriesStay DEF TablesFit
    <3> QED BY <2>1, <3>1, <3>2 DEF Fits, SpotName
  <2>2. CASE ~(id <= SpotMax)
    <3>1. \A c \in Chains' : c.id = id => c.name = name BY <1>1, <2>2 DEF Fits
    <3>2. (\A c \in Chains' : c.id # id) => Passed(id)'
      BY <1>1, <2>2 DEF Fits, Passed, BaseForUnit, FirstBlock
    <3> QED BY <2>2, <3>1, <3>2 DEF Fits
  <2> QED BY <2>1, <2>2
<1>2. ASSUME NEW id, NEW name, NEW uid, Fits(id, name), Owned(id, uid) PROVE Owned(id, uid)'
  <2>1. ASSUME NEW m \in Cards', m.spot = id PROVE m.uid = uid
    <3>1. CASE m \in Cards BY <1>2, <2>1, <3>1 DEF Owned
    <3>2. CASE m \in rows
      <4>1. id <= SpotMax BY <2>1, <3>2 DEF RegistryRows
      <4>2. PICK r \in registry, k \in Cards : r.spot = id /\ k.spot = id BY <1>2, <4>1 DEF Fits
      <4>3. Same(r, k) /\ Same(r, m) BY <2>1, <3>2, <4>2 DEF TablesFit, KeysApart, Alike
      <4>4. k.uid = uid BY <1>2, <4>2 DEF Owned
      <4> QED BY <4>3, <4>4 DEF Same
    <3> QED BY <3>1, <3>2
  <2> QED BY <1>2, <2>1 DEF Owned
<1>3. ASSUME NEW b \in bars' PROVE b \in BarRows /\ Fits(b.id, b.name)'
  <2>1. b \in bars /\ b \in BarRows /\ Fits(b.id, b.name) BY DEF OutFits
  <2> QED BY <1>1, <2>1
<1>4. ASSUME NEW t \in LiveChunks' PROVE t.id # 0 /\ Fits(t.id, t.name)' /\ Owned(t.id, t.uid)'
  <2>1. t \in LiveChunks /\ t.id # 0 /\ Fits(t.id, t.name) /\ Owned(t.id, t.uid)
    BY DEF OutFits
  <2>2. Fits(t.id, t.name)' BY <1>1, <2>1
  <2>3. Owned(t.id, t.uid)' BY <1>2, <2>1
  <2> QED BY <2>1, <2>2, <2>3
<1>5. OutFits' BY <1>3, <1>4 DEF OutFits, BarRows
<1>6. BarsStep
  <2> SUFFICES ASSUME NEW c \in contracts, NEW k \in contracts', c.name = k.name,
                      [id |-> c.id, name |-> c.name] \in bars
               PROVE  c.id = k.id
    BY DEF BarsStep
  <2>1. CASE Chain(c)
    <3>1. c \in Chains /\ k \in Chains' BY <2>1 DEF Chains, Chain
    <3>2. k \in Chains BY <3>1
    <3> QED BY <3>1, <3>2 DEF ContractsFit, OneEach, Chains
  <2>2. CASE ~Chain(c)
    <3>1. c.id <= SpotMax /\ Fits(c.id, c.name) BY <2>2 DEF ContractsFit, OutFits
    <3>2. PICK r \in registry : r.spot = c.id /\ c.name = SpotName(r.sym) BY <3>1 DEF Fits
    <3>3. k \in SpotRows(Cards')
      <4>1. k \notin Chains' BY <2>2 DEF Chains, Chain
      <4> QED BY <4>1 DEF TablesFit, SpotsListed, SpotRows
    <3>4. PICK m \in Cards' : k = [id |-> m.spot, uid |-> m.uid, name |-> SpotName(m.sym)]
      BY <3>3 DEF SpotRows
    <3>5. m.sym = r.sym
      <4>1. k.name = SpotName(m.sym) BY <3>4
      <4>2. SpotName(m.sym) = SpotName(r.sym) BY <3>2, <4>1
      <4> QED BY <4>2 DEF SpotName
    <3>6. r \in registry' /\ r.spot = m.spot
      BY <3>5 DEF TablesFit, KeysApart, Alike, Same
    <3> QED BY <3>2, <3>4, <3>6
  <2> QED BY <2>1, <2>2
<1> QED BY <1>5, <1>6

\* A step that moves the request only.
LEMMA ElseKept ==
  ASSUME CatalogueInv, SoleInv, UNCHANGED <<registry, duck, tasks>>
  PROVE  /\ TablesFit' /\ LiveOwned' /\ OutFits' /\ BarsStep /\ Cards' = Cards
         /\ (\A uid : Unfiled(uid)' <=> Unfiled(uid))
<1>1. UNCHANGED <<registry, mirror, expiries, contracts, taken, bars, tasks>> BY DEF duck
<1>2. TablesFit' /\ Cards' = Cards /\ Chains' = Chains BY <1>1, TablesKept DEF SoleInv
<1>3. LiveOwned' BY <1>1 DEF SoleInv, LiveOwned, Live
<1>4. LiveChunks' = LiveChunks BY <1>1 DEF LiveChunks, Live
<1>5. OutFits' BY <1>1, <1>4, OutStays DEF SoleInv
<1>6. BarsStep BY <1>1, BarsStay DEF SoleInv, CatalogueInv
<1>7. \A uid : Unfiled(uid)' <=> Unfiled(uid) BY <1>1, <1>2 DEF Unfiled
<1> QED BY <1>2, <1>3, <1>5, <1>6, <1>7

\* The worker's row, while nobody moves it and no mirror row goes.
LEMMA WorkKept ==
  ASSUME WorkFits, UNCHANGED <<tasks, work>>, Cards \subseteq Cards',
         WorkAt("mirroring") => work.row \in registry' /\ (Unfiled(work.row.uid))'
  PROVE  WorkFits'
BY DEF WorkFits, Leased, WorkAt

\* A request that moves on.
LEMMA RequestMoves ==
  ASSUME SoleAssumption, CatalogueInv, NEW a \in Callers, NEW q, call' = [call EXCEPT ![a] = q]
  PROVE  call'[a] = q /\ (RequestFits(a)' => \A b \in Callers : RequestFits(b)')
<1>1. call'[a] = q BY DEF CatalogueInv, CatalogueShape
<1>2. \A b \in Callers : b = a BY OneCaller
<1> QED BY <1>1, <1>2

\* No edit is between its two writes.
LEMMA NotEditing ==
  ASSUME SoleAssumption, NEW a \in Callers, MirrorsFit, ~At(a, "remirror")
  PROVE  \A r \in registry : r \in Cards \/ Unfiled(r.uid)
BY OneCaller DEF MirrorsFit

\* An edit starts where every registered underlying is mirrored.
LEMMA AllMirrored ==
  ASSUME SoleAssumption, SoleInv, NEW a \in Callers, At(a, "none"), EditsAllowed
  PROVE  \A r \in registry : r \in Cards /\ ~Unfiled(r.uid)
<1>1. \A r \in registry : \E m \in mirror : m.uid = r.uid BY NoFreedoms DEF EditsAllowed
<1>2. \A r \in registry : \E m \in Cards : m.uid = r.uid
  <2>1. mirror \subseteq MirrorRows BY DEF SoleInv, TablesFit
  <2> QED BY <1>1, <2>1, CardOf
<1>3. \A r \in registry : ~Unfiled(r.uid) BY <1>2 DEF Unfiled
<1>4. ~At(a, "remirror") BY DEF At
<1> QED BY <1>3, <1>4, NotEditing DEF SoleInv

\* The next number is nobody's.
LEMMA NewNumber ==
  ASSUME CatalogueShape
  PROVE  \A r \in registry : r.uid # 1 + Max({0} \cup {q.uid : q \in registry})
<1> DEFINE uids == {r.uid : r \in registry}
           S == {0} \cup uids
<1>1. IsFiniteSet(uids)
  <2> DEFINE f == [r \in registry |-> r.uid]
  <2>1. uids = {f[r] : r \in registry} OBVIOUS
  <2>2. IsFiniteSet(registry) BY DEF CatalogueShape
  <2> HIDE DEF f, uids
  <2> QED BY <2>1, <2>2, ImagesFinite
<1>2. uids \subseteq Nat BY DEF CatalogueShape, RegistryRows
<1>3. S \in SUBSET Nat /\ S # {} BY <1>2
<1>4. IsFiniteSet(S)
  <2> HIDE DEF uids
  <2>1. IsFiniteSet({0}) BY FS_Singleton
  <2> QED BY <1>1, <2>1, FS_Union
<1>5. \A r \in registry : r.uid \in S OBVIOUS
<1> HIDE DEF S
<1>6. Max(S) \in Nat /\ \A y \in S : y \in Nat /\ Max(S) >= y BY <1>3, <1>4, MaxIsGreatest
<1>7. \A y \in S : y # 1 + Max(S) BY <1>6
<1> QED BY <1>5, <1>7 DEF S

\* One lemma for each action: first a request that begins to create an underlying.
LEMMA CreateSole ==
  ASSUME SoleAssumption, CatalogueInv, SoleInv,
         NEW a \in Callers, NEW sym \in Symbols, CreateUnderlying(a, sym)
  PROVE  SoleStep
<1>1. PICK uid, q : /\ uid = 1 + Max({0} \cup {r.uid : r \in registry})
                   /\ q = [op |-> "mirror", row |-> Row(uid, sym, 1, TRUE)]
  OBVIOUS
<1>2. /\ At(a, "none") /\ EditsAllowed /\ call' = [call EXCEPT ![a] = q]
      /\ UNCHANGED <<registry, duck, tasks, work>>
      /\ \A r \in registry : r.sym # sym
  BY <1>1 DEF CreateUnderlying
<1>3. \A r \in registry : r.uid # uid BY <1>1, NewNumber DEF CatalogueInv
<1>4. q.op = "mirror" /\ q.row.uid = uid /\ q.row.sym = sym BY <1>1 DEF Row
<1>5. call'[a] = q /\ (RequestFits(a)' => \A b \in Callers : RequestFits(b)')
  BY <1>2, RequestMoves
<1>6. \A r \in registry : r \in Cards BY <1>2, AllMirrored
<1>7. /\ TablesFit' /\ LiveOwned' /\ OutFits' /\ BarsStep /\ Cards' = Cards
      /\ (\A u : Unfiled(u)' <=> Unfiled(u))
  BY <1>2, ElseKept
<1>8. (Unheard(q.row))' BY <1>2, <1>3, <1>4, <1>6, <1>7 DEF Unheard
<1>9. RequestFits(a)' BY <1>4, <1>5, <1>8 DEF RequestFits, At
<1>10. MirrorsFit' BY <1>2, <1>6, <1>7 DEF MirrorsFit
<1>11. WorkFits' BY <1>2, <1>7, WorkKept DEF SoleInv, WorkFits, WorkAt
<1> QED BY <1>5, <1>7, <1>9, <1>10, <1>11 DEF SoleStep, SoleInv

\* A step that moves the request and writes the registry.
LEMMA RegistryEdited ==
  ASSUME CatalogueInv, SoleInv, UNCHANGED <<duck, tasks>>, KeysApart', RowsHaveOwners', LiveOwned',
         \A r \in registry, m \in Cards : r.spot = m.spot =>
           \E q \in registry' : q.spot = r.spot /\ q.sym = r.sym
  PROVE  /\ TablesFit' /\ OutFits' /\ BarsStep /\ Cards' = Cards
         /\ (\A uid : Unfiled(uid)' <=> Unfiled(uid))
<1>1. UNCHANGED <<mirror, expiries, contracts, taken, bars, tasks>> BY DEF duck
<1>2. Cards' = Cards /\ Chains' = Chains BY <1>1 DEF Cards, Chains, Chain
<1>3. SpotsListed' BY <1>1, <1>2 DEF SoleInv, TablesFit, SpotsListed, SpotRows
<1>4. RollupsMatch' BY <1>1 DEF SoleInv, TablesFit, RollupsMatch
<1>5. TablesFit' BY <1>1, <1>3, <1>4 DEF SoleInv, TablesFit
<1>6. LiveChunks' = LiveChunks BY <1>1 DEF LiveChunks, Live
<1>7. OutFits' BY <1>1, <1>6, OutStays DEF SoleInv
<1>8. BarsStep BY <1>1, BarsStay DEF SoleInv, CatalogueInv
<1>9. \A uid : Unfiled(uid)' <=> Unfiled(uid) BY <1>1, <1>2 DEF Unfiled
<1> QED BY <1>2, <1>5, <1>7, <1>8, <1>9

\* An edit writes the registry.
LEMMA PatchSole ==
  ASSUME SoleAssumption, CatalogueInv, SoleInv,
         NEW a \in Callers, NEW r \in registry, PatchUnderlying(a, r)
  PROVE  SoleStep
<1>1. PICK entry, q : /\ entry = [r EXCEPT !.active = ~@]
                      /\ q = [op |-> "remirror", row |-> entry]
  OBVIOUS
<1>2. /\ At(a, "none") /\ EditsAllowed /\ call' = [call EXCEPT ![a] = q]
      /\ registry' = (registry \ {r}) \cup {entry}
      /\ UNCHANGED <<duck, tasks, work>>
  BY <1>1 DEF PatchUnderlying
<1>3. /\ entry.uid = r.uid /\ entry.sym = r.sym /\ entry.spot = r.spot
      /\ q.op = "remirror" /\ q.row = entry
  <2>1. r \in RegistryRows BY DEF CatalogueInv, CatalogueShape
  <2> QED BY <1>1, <2>1 DEF RegistryRows
<1>4. call'[a] = q /\ (RequestFits(a)' => \A b \in Callers : RequestFits(b)')
  BY <1>2, RequestMoves
<1>5. \A k \in registry : k \in Cards /\ ~Unfiled(k.uid) BY <1>2, AllMirrored
<1>6. UNCHANGED <<mirror, expiries, contracts, tasks>> BY <1>2 DEF duck
<1>7. /\ \A k \in registry' : \E p \in registry : Same(k, p) /\ (k = p \/ (k = entry /\ p = r))
      /\ \A p \in registry : \E k \in registry' : Same(k, p) /\ (k = p \/ (k = entry /\ p = r))
  BY <1>2, <1>3 DEF Same
<1>8. KeysApart'
  <2>1. Cards' = Cards BY <1>6 DEF Cards
  <2>2. \A x, y \in registry' : Alike(x, y) => x = y
    BY <1>2, <1>7 DEF SoleInv, TablesFit, KeysApart, Alike, Same
  <2>3. \A k \in registry', m \in Cards : Alike(k, m) => Same(k, m)
    BY <1>7 DEF SoleInv, TablesFit, KeysApart, Alike, Same
  <2> QED BY <1>6, <2>1, <2>2, <2>3 DEF SoleInv, TablesFit, KeysApart, Alike, Same
<1>9. RowsHaveOwners'
  <2>1. \A e \in expiries : \E k \in registry' : k.uid = e.uid
    BY <1>7 DEF SoleInv, TablesFit, RowsHaveOwners, Same
  <2>2. \A c \in contracts : c.name[2] # 0 => \E k \in registry' : k.uid = c.uid /\ k.sym = c.name[1]
    BY <1>7 DEF SoleInv, TablesFit, RowsHaveOwners, Same
  <2> QED BY <1>6, <2>1, <2>2 DEF RowsHaveOwners
<1>10. LiveOwned'
  <2>1. \A i \in DOMAIN tasks : Live(i) =>
          \E k \in registry' : k.uid = tasks[i].uid /\ k.sym = tasks[i].sym
    BY <1>7 DEF SoleInv, LiveOwned, Same
  <2> QED BY <1>6, <2>1 DEF LiveOwned, Live
<1>11. /\ TablesFit' /\ OutFits' /\ BarsStep /\ Cards' = Cards
       /\ (\A u : Unfiled(u)' <=> Unfiled(u))
  <2>1. \A p \in registry, m \in Cards : p.spot = m.spot =>
          \E k \in registry' : k.spot = p.spot /\ k.sym = p.sym
    BY <1>7 DEF Same
  <2> QED BY <1>2, <1>8, <1>9, <1>10, <2>1, RegistryEdited
<1>12. RequestFits(a)'
  <2>1. entry \in registry' /\ r \in Cards BY <1>2, <1>5
  <2>2. Same(r, entry) BY <1>3 DEF Same
  <2>3. (\E m \in Cards : Same(m, call[a].row))' BY <1>3, <1>4, <1>11, <2>1, <2>2 DEF Same
  <2> QED BY <1>3, <1>4, <2>1, <2>3 DEF RequestFits, At
<1>13. MirrorsFit'
  <2>1. \A k \in registry' : k = entry \/ k \in Cards BY <1>5, <1>7
  <2>2. (At(a, "remirror"))' /\ call'[a].row = entry BY <1>3, <1>4 DEF At
  <2> QED BY <1>11, <2>1, <2>2 DEF MirrorsFit
<1>14. WorkFits'
  <2>1. ~WorkAt("mirroring") BY <1>5 DEF SoleInv, WorkFits, WorkAt
  <2> QED BY <1>2, <1>11, <2>1, WorkKept DEF SoleInv
<1> QED BY <1>4, <1>10, <1>11, <1>12, <1>13, <1>14 DEF SoleStep, SoleInv

\* A removal has read that no job is live.
LEMMA RemoveSole ==
  ASSUME SoleAssumption, CatalogueInv, SoleInv,
         NEW a \in Callers, NEW r \in registry, RemoveUnderlying(a, r)
  PROVE  SoleStep
<1>1. PICK purge \in Purges :
        call' = [call EXCEPT ![a] = [op |-> "unlist", row |-> r, purge |-> purge]]
  BY DEF RemoveUnderlying
<1>2. PICK q : q = [op |-> "unlist", row |-> r, purge |-> purge] OBVIOUS
<1>3. /\ At(a, "none") /\ call' = [call EXCEPT ![a] = q] /\ LiveJobs(r.uid) = {}
      /\ UNCHANGED <<registry, duck, tasks, work>>
  BY <1>1, <1>2 DEF RemoveUnderlying
<1>4. call'[a] = q /\ (RequestFits(a)' => \A b \in Callers : RequestFits(b)')
  BY <1>3, RequestMoves
<1>5. /\ TablesFit' /\ LiveOwned' /\ OutFits' /\ BarsStep /\ Cards' = Cards
      /\ (\A u : Unfiled(u)' <=> Unfiled(u))
  BY <1>3, ElseKept
<1>6. Quiet(r)' BY <1>3 DEF Quiet, LiveJobs, Live
<1>7. RequestFits(a)'
  <2>1. purge = TRUE BY DEF SoleAssumption
  <2> QED BY <1>2, <1>4, <1>6, <2>1 DEF RequestFits, At
<1>8. MirrorsFit'
  <2>1. ~At(a, "remirror") BY <1>3 DEF At
  <2> QED BY <1>3, <1>5, <2>1, NotEditing DEF SoleInv, MirrorsFit
<1>9. WorkFits' BY <1>3, <1>5, WorkKept DEF SoleInv, WorkFits, WorkAt
<1> QED BY <1>4, <1>5, <1>7, <1>8, <1>9 DEF SoleStep, SoleInv

\* A creation declares its row, or is refused.
LEMMA CreateRowSole ==
  ASSUME SoleAssumption, CatalogueInv, SoleInv, NEW a \in Callers, CreateRow(a)
  PROVE  SoleStep
<1>1. PICK entry : entry = call[a].row OBVIOUS
<1>2. /\ At(a, "declare") /\ UNCHANGED <<duck, tasks, work>>
      /\ \/ registry' = registry \cup {entry} /\ call' = [call EXCEPT ![a] = Resting]
         \/ call' = [call EXCEPT ![a].op = "undo"] /\ UNCHANGED registry
  BY <1>1 DEF CreateRow, Answer
<1>3. Unheard(entry) /\ entry \in Cards BY <1>1, <1>2 DEF SoleInv, RequestFits
<1>4. \A r \in registry : r \in Cards BY <1>3 DEF Unheard
<1>5. CASE registry' = registry \cup {entry} /\ call' = [call EXCEPT ![a] = Resting]
  <2>1. call'[a] = Resting /\ (RequestFits(a)' => \A b \in Callers : RequestFits(b)')
    BY <1>5, RequestMoves
  <2>2. UNCHANGED <<mirror, expiries, contracts, tasks>> BY <1>2 DEF duck
  <2>3. Cards' = Cards BY <2>2 DEF Cards
  <2>4. \A r \in registry' : r \in Cards BY <1>3, <1>4, <1>5
  <2>5. KeysApart'
    <3>1. \A x, y \in Cards : Alike(x, y) => x = y BY DEF SoleInv, TablesFit, KeysApart
    <3>2. \A x, y \in registry' : Alike(x, y) => x = y BY <2>4, <3>1
    <3>3. \A r \in registry', m \in Cards : Alike(r, m) => Same(r, m) BY <2>4, <3>1 DEF Same
    <3> QED BY <2>2, <2>3, <3>1, <3>2, <3>3 DEF SoleInv, TablesFit, KeysApart, Alike, Same
  <2>6. RowsHaveOwners' BY <1>5, <2>2 DEF SoleInv, TablesFit, RowsHaveOwners
  <2>7. LiveOwned' BY <1>5, <2>2 DEF SoleInv, LiveOwned, Live
  <2>8. /\ TablesFit' /\ OutFits' /\ BarsStep /\ (\A u : Unfiled(u)' <=> Unfiled(u))
    BY <1>2, <1>5, <2>5, <2>6, <2>7, RegistryEdited
  <2>9. RequestFits(a)' BY <2>1 DEF RequestFits, At, Resting
  <2>10. MirrorsFit' BY <2>3, <2>4 DEF MirrorsFit
  <2>11. WorkFits'
    <3>1. WorkAt("mirroring") => work.row \in registry' /\ (Unfiled(work.row.uid))'
      BY <1>2, <1>5, <2>8 DEF SoleInv, WorkFits, WorkAt
    <3> QED BY <1>2, <2>3, <3>1, WorkKept DEF SoleInv
  <2> QED BY <2>1, <2>7, <2>8, <2>9, <2>10, <2>11 DEF SoleStep, SoleInv
<1>6. CASE call' = [call EXCEPT ![a].op = "undo"] /\ UNCHANGED registry
  <2>1. PICK q : q = [call[a] EXCEPT !.op = "undo"] OBVIOUS
  <2>2. call' = [call EXCEPT ![a] = q] BY <1>6, <2>1
  <2>3. call'[a] = q /\ (RequestFits(a)' => \A b \in Callers : RequestFits(b)')
    BY <2>2, RequestMoves
  <2>4. q.op = "undo" /\ q.row = entry
    <3>1. call[a] \in [op : {"declare", "undo", "remirror"}, row : RegistryRows]
      BY <1>2, CallHolds DEF CatalogueInv
    <3> QED BY <1>1, <2>1, <3>1
  <2>5. /\ TablesFit' /\ LiveOwned' /\ OutFits' /\ BarsStep /\ Cards' = Cards
        /\ (\A u : Unfiled(u)' <=> Unfiled(u))
    BY <1>2, <1>6, ElseKept
  <2>6. (Unheard(entry))' BY <1>3, <1>6, <2>5 DEF Unheard
  <2>7. RequestFits(a)' BY <1>3, <2>3, <2>4, <2>5, <2>6 DEF RequestFits, At
  <2>8. MirrorsFit' BY <1>4, <1>6, <2>5 DEF MirrorsFit
  <2>9. WorkFits' BY <1>2, <1>6, <2>5, WorkKept DEF SoleInv, WorkFits, WorkAt
  <2> QED BY <2>3, <2>5, <2>7, <2>8, <2>9 DEF SoleStep, SoleInv
<1> QED BY <1>2, <1>5, <1>6

\* A removal takes the row out of the registry.
LEMMA RemoveRowSole ==
  ASSUME SoleAssumption, CatalogueInv, SoleInv, NEW a \in Callers, RemoveRow(a)
  PROVE  SoleStep
<1>1. PICK entry : entry = call[a].row OBVIOUS
<1>2. /\ At(a, "undeclare") /\ UNCHANGED <<duck, tasks, work>>
      /\ registry' = {r \in registry : r.uid # entry.uid}
      /\ call' = [call EXCEPT ![a] = Resting]
  BY <1>1 DEF RemoveRow, Answer
<1>3. Quiet(entry) /\ Unfiled(entry.uid) BY <1>1, <1>2 DEF SoleInv, RequestFits
<1>4. call'[a] = Resting /\ (RequestFits(a)' => \A b \in Callers : RequestFits(b)')
  BY <1>2, RequestMoves
<1>5. UNCHANGED <<mirror, expiries, contracts, tasks>> BY <1>2 DEF duck
<1>6. Cards' = Cards BY <1>5 DEF Cards
<1>7. KeysApart'
  BY <1>2, <1>5, <1>6 DEF SoleInv, TablesFit, KeysApart, Alike, Same
<1>8. RowsHaveOwners'
  BY <1>2, <1>3, <1>5 DEF SoleInv, TablesFit, RowsHaveOwners, Unfiled
<1>9. LiveOwned'
  <2>1. ASSUME NEW i \in DOMAIN tasks, Live(i)
        PROVE  \E r \in registry' : r.uid = tasks[i].uid /\ r.sym = tasks[i].sym
    <3>1. PICK r \in registry : r.uid = tasks[i].uid /\ r.sym = tasks[i].sym
      BY <2>1 DEF SoleInv, LiveOwned
    <3>2. r.uid # entry.uid BY <1>3, <2>1, <3>1 DEF Quiet
    <3> QED BY <1>2, <3>1, <3>2
  <2> QED BY <1>5, <2>1 DEF LiveOwned, Live
<1>10. \A r \in registry, m \in Cards : r.spot = m.spot =>
         \E q \in registry' : q.spot = r.spot /\ q.sym = r.sym
  <2> SUFFICES ASSUME NEW r \in registry, NEW m \in Cards, r.spot = m.spot PROVE r \in registry'
    OBVIOUS
  <2>1. r.uid = m.uid BY DEF SoleInv, TablesFit, KeysApart, Alike, Same
  <2>2. r.uid # entry.uid BY <1>3, <2>1 DEF Unfiled
  <2> QED BY <1>2, <2>2
<1>11. /\ TablesFit' /\ OutFits' /\ BarsStep /\ (\A u : Unfiled(u)' <=> Unfiled(u))
  BY <1>2, <1>7, <1>8, <1>9, <1>10, RegistryEdited
<1>12. RequestFits(a)' BY <1>4 DEF RequestFits, At, Resting
<1>13. MirrorsFit'
  <2>1. ~At(a, "remirror") BY <1>2 DEF At
  <2>2. \A r \in registry : r \in Cards \/ Unfiled(r.uid) BY <2>1, NotEditing DEF SoleInv
  <2> QED BY <1>2, <1>6, <1>11, <2>2 DEF MirrorsFit
<1>14. WorkFits'
  <2>1. ASSUME WorkAt("mirroring") PROVE work.row \in registry' /\ (Unfiled(work.row.uid))'
    <3>1. /\ work.row \in registry /\ Unfiled(work.row.uid) /\ Leased.uid = work.row.uid
          /\ Leased.state = "leased"
      BY <2>1 DEF SoleInv, WorkFits, WorkAt
    <3>2. work.task \in DOMAIN tasks /\ Live(work.task)
      BY <2>1, <3>1 DEF CatalogueInv, CatalogueShape, WorkAt, Live, Leased
    <3>3. work.row.uid # entry.uid BY <1>3, <3>1, <3>2 DEF Quiet, Leased
    <3>4. work' = work BY <1>2
    <3> QED BY <1>2, <1>11, <3>1, <3>3, <3>4
  <2> QED BY <1>2, <1>6, <2>1, WorkKept DEF SoleInv
<1> QED BY <1>4, <1>9, <1>11, <1>12, <1>13, <1>14 DEF SoleStep, SoleInv

\* Rows of underlyings written: those of the registry among them, or of nobody.
LEMMA MirrorWritten ==
  ASSUME SoleAssumption, CatalogueInv, CatalogueInv', SoleInv, NEW rows \in SUBSET RegistryRows,
         \A x, y \in rows : Alike(x, y) => x = y,
         \A r \in rows, m \in Cards :
           m.uid = r.uid \/ m.sym = r.sym <=> m.spot = r.spot \/ m.sym = r.sym,
         \A q \in registry, r \in rows : Alike(q, r) => q = r,
         UnderlyingWrite(rows), UNCHANGED registry, LiveChunks' \subseteq LiveChunks,
         taken' = taken \/ \A x \in bars \cup LiveChunks :
                             ~(x.id <= SpotMax) => \E c \in Chains : c.id = x.id
  PROVE  /\ TablesFit' /\ OutFits' /\ BarsStep /\ rows \subseteq Cards'
         /\ \A r \in registry : r \in Cards => r \in Cards'
         /\ \A r \in registry, m \in Cards : m.uid = r.uid => \E k \in Cards' : k.uid = r.uid
         /\ \A uid : Unfiled(uid) /\ (\A r \in rows : r.uid # uid) => Unfiled(uid)'
<1>1. /\ BlocksFit /\ ContractsFit /\ ContractsFit' /\ TablesFit /\ OutFits /\ IdsInBlock
  BY NoFreedoms DEF CatalogueInv, SoleInv, ContractsFit
<1>2. \A q \in registry, r \in rows : Alike(q, r) => Same(q, r) BY DEF Same
<1>3. /\ TablesFit' /\ Chains' = Chains /\ rows \subseteq Cards'
      /\ \A m \in Cards : (\A r \in rows : m.uid # r.uid /\ m.sym # r.sym) => m \in Cards'
      /\ \A m \in Cards' : m \in Cards \/ m \in rows
  BY <1>1, <1>2, SpotsWritten
<1>4. UNCHANGED <<expiries, bars>> BY DEF UnderlyingWrite
<1>5. OutFits' /\ BarsStep BY <1>1, <1>2, <1>3, <1>4, OutWritten
<1>6. \A r \in registry : r \in Cards => r \in Cards' BY <1>3 DEF Alike
<1>7. ASSUME NEW r \in registry, NEW m \in Cards, m.uid = r.uid
      PROVE  \E k \in Cards' : k.uid = r.uid
  <2>1. Same(r, m) BY <1>1, <1>7 DEF TablesFit, KeysApart, Alike
  <2>2. CASE \A q \in rows : m.uid # q.uid /\ m.sym # q.sym BY <1>3, <1>7, <2>2
  <2>3. CASE \E q \in rows : m.uid = q.uid \/ m.sym = q.sym
    <3>1. PICK q \in rows : m.uid = q.uid \/ m.sym = q.sym BY <2>3
    <3>2. r = q BY <2>1, <3>1 DEF Same, Alike
    <3> QED BY <1>3, <3>2
  <2> QED BY <2>2, <2>3
<1>8. ASSUME NEW uid, Unfiled(uid), \A r \in rows : r.uid # uid PROVE Unfiled(uid)'
  <2>1. \A m \in Cards' : m.uid # uid BY <1>3, <1>8 DEF Unfiled
  <2>2. \A e \in expiries' : e.uid # uid BY <1>4, <1>8 DEF Unfiled
  <2>3. ASSUME NEW c \in contracts' PROVE c.uid # uid
    <3>1. CASE c \in Chains' BY <1>3, <1>8, <3>1 DEF Unfiled, Chains
    <3>2. CASE c \notin Chains'
      <4>1. c \in SpotRows(Cards') BY <1>3, <3>2 DEF TablesFit, SpotsListed, SpotRows
      <4> QED BY <2>1, <4>1 DEF SpotRows
    <3> QED BY <3>1, <3>2
  <2> QED BY <2>1, <2>2, <2>3 DEF Unfiled
<1> QED BY <1>3, <1>5, <1>6, <1>7, <1>8

\* A registered row is alike no row but its own.
LEMMA RegisteredApart ==
  ASSUME SoleInv, NEW rows \in SUBSET registry
  PROVE  /\ \A x, y \in rows : Alike(x, y) => x = y
         /\ \A r \in rows, m \in Cards :
              m.uid = r.uid \/ m.sym = r.sym <=> m.spot = r.spot \/ m.sym = r.sym
         /\ \A q \in registry, r \in rows : Alike(q, r) => q = r
<1>1. KeysApart BY DEF SoleInv, TablesFit
<1>2. ASSUME NEW r \in rows, NEW m \in Cards
      PROVE  m.uid = r.uid \/ m.sym = r.sym <=> m.spot = r.spot \/ m.sym = r.sym
  <2>1. Alike(r, m) => Same(r, m) BY <1>1 DEF KeysApart
  <2> QED BY <2>1 DEF Alike, Same
<1>3. \A q \in registry, r \in rows : Alike(q, r) => q = r BY <1>1 DEF KeysApart
<1> QED BY <1>2, <1>3

\* An edit writes the mirror.
LEMMA PatchMirrorSole ==
  ASSUME SoleAssumption, CatalogueInv, CatalogueInv', SoleInv, NEW a \in Callers, PatchMirror(a)
  PROVE  SoleStep
<1>1. PICK entry : entry = call[a].row OBVIOUS
<1>2. /\ At(a, "remirror") /\ UnderlyingWrite({entry}) /\ call' = [call EXCEPT ![a] = Resting]
      /\ UNCHANGED <<registry, taken, tasks, work>>
  BY <1>1 DEF PatchMirror, Answer
<1>3. entry \in registry /\ \E m \in Cards : Same(m, entry)
  BY <1>1, <1>2 DEF SoleInv, RequestFits
<1>4. {entry} \in SUBSET RegistryRows /\ {entry} \in SUBSET registry
  BY <1>3 DEF CatalogueInv, CatalogueShape
<1>5. LiveChunks' = LiveChunks BY <1>2 DEF LiveChunks, Live
<1>6. /\ TablesFit' /\ OutFits' /\ BarsStep /\ entry \in Cards'
      /\ \A r \in registry : r \in Cards => r \in Cards'
      /\ \A r \in registry, m \in Cards : m.uid = r.uid => \E k \in Cards' : k.uid = r.uid
      /\ \A uid : Unfiled(uid) /\ entry.uid # uid => Unfiled(uid)'
  <2>1. {entry} \subseteq Cards'
        /\ \A uid : Unfiled(uid) /\ (\A r \in {entry} : r.uid # uid) => Unfiled(uid)'
    BY <1>2, <1>4, <1>5, RegisteredApart, MirrorWritten
  <2> QED BY <1>2, <1>4, <1>5, <2>1, RegisteredApart, MirrorWritten
<1>7. \A uid : Unfiled(uid) => Unfiled(uid)'
  <2>1. ~Unfiled(entry.uid) BY <1>3 DEF Unfiled, Same
  <2> QED BY <1>6, <2>1
<1>8. call'[a] = Resting /\ (RequestFits(a)' => \A b \in Callers : RequestFits(b)')
  BY <1>2, RequestMoves
<1>9. RequestFits(a)' BY <1>8 DEF RequestFits, At, Resting
<1>10. MirrorsFit'
  <2>1. ASSUME NEW r \in registry PROVE r \in Cards' \/ Unfiled(r.uid)'
    <3>1. r = entry \/ r \in Cards \/ Unfiled(r.uid) BY <1>1, OneCaller DEF SoleInv, MirrorsFit
    <3> QED BY <1>6, <1>7, <3>1
  <2> QED BY <1>2, <2>1 DEF MirrorsFit
<1>11. LiveOwned' BY <1>2 DEF SoleInv, LiveOwned, Live
<1>12. WorkFits'
  <2>1. CASE work.step = "idle" BY <1>2, <2>1 DEF WorkFits
  <2>2. CASE WorkAt("mirroring") BY <1>2, <1>7, <2>2 DEF SoleInv, WorkFits, WorkAt, Leased
  <2>3. CASE work.step \notin {"idle", "mirroring"}
    <3>1. /\ Leased.state = "leased" /\ Leased.kind # "chunk"
          /\ \E m \in Cards : m.uid = Leased.uid
      BY <2>3 DEF SoleInv, WorkFits
    <3>2. \E r \in registry : r.uid = Leased.uid
      BY <2>3, <3>1 DEF SoleInv, LiveOwned, Live, Leased, CatalogueInv, CatalogueShape
    <3>3. \E k \in Cards' : k.uid = Leased.uid BY <1>6, <3>1, <3>2
    <3> QED BY <1>2, <2>3, <3>1, <3>3 DEF WorkFits, Leased
  <2> QED BY <2>1, <2>2, <2>3 DEF WorkAt
<1> QED BY <1>6, <1>8, <1>9, <1>10, <1>11, <1>12 DEF SoleStep, SoleInv

\* The worker mirrors the underlying of its task.
LEMMA MirrorFirstSole ==
  ASSUME SoleAssumption, CatalogueInv, CatalogueInv', SoleInv, MirrorFirst
  PROVE  SoleStep
<1>1. PICK entry : entry = work.row OBVIOUS
<1>2. /\ WorkAt("mirroring") /\ UnderlyingWrite({entry}) /\ Step("ready")
      /\ UNCHANGED <<registry, taken, tasks, call>>
  BY <1>1 DEF MirrorFirst
<1>3. /\ entry \in registry /\ Unfiled(entry.uid) /\ Leased.uid = entry.uid
      /\ Leased.state = "leased" /\ Leased.kind # "chunk"
  BY <1>1, <1>2 DEF SoleInv, WorkFits, WorkAt
<1>4. {entry} \in SUBSET RegistryRows /\ {entry} \in SUBSET registry
  BY <1>3 DEF CatalogueInv, CatalogueShape
<1>5. LiveChunks' = LiveChunks BY <1>2 DEF LiveChunks, Live
<1>6. /\ TablesFit' /\ OutFits' /\ BarsStep /\ entry \in Cards'
      /\ \A r \in registry : r \in Cards => r \in Cards'
      /\ \A r \in registry, m \in Cards : m.uid = r.uid => \E k \in Cards' : k.uid = r.uid
      /\ \A uid : Unfiled(uid) /\ entry.uid # uid => Unfiled(uid)'
  <2>1. {entry} \subseteq Cards'
        /\ \A uid : Unfiled(uid) /\ (\A r \in {entry} : r.uid # uid) => Unfiled(uid)'
    BY <1>2, <1>4, <1>5, RegisteredApart, MirrorWritten
  <2> QED BY <1>2, <1>4, <1>5, <2>1, RegisteredApart, MirrorWritten
<1>7. work.step # "idle" /\ work.task \in DOMAIN tasks /\ Live(work.task)
  BY <1>2, <1>3 DEF WorkAt, CatalogueInv, CatalogueShape, Live, Leased
<1>8. work'.step = "ready" /\ work'.task = work.task
  <2>1. work' = [work EXCEPT !.step = "ready"] /\ work \in Works
    BY <1>2 DEF Step, CatalogueInv, CatalogueShape
  <2> QED BY <1>2, <2>1 DEF Works, WorkAt
<1>9. WorkFits'
  <2>1. (\E m \in Cards : m.uid = Leased.uid)' BY <1>2, <1>3, <1>6, <1>8 DEF Leased
  <2>2. (Leased.state = "leased" /\ Leased.kind # "chunk")' BY <1>2, <1>3, <1>8 DEF Leased
  <2> QED BY <1>8, <2>1, <2>2 DEF WorkFits
<1>10. LiveOwned' BY <1>2 DEF SoleInv, LiveOwned, Live
<1>11. MirrorsFit'
  <2> SUFFICES ASSUME NEW r \in registry, ~\E a \in Callers : At(a, "remirror") /\ call[a].row = r
               PROVE  r \in Cards' \/ Unfiled(r.uid)'
    BY <1>2 DEF MirrorsFit, At
  <2>1. r \in Cards \/ Unfiled(r.uid) BY DEF SoleInv, MirrorsFit
  <2>2. r.uid = entry.uid => r = entry BY <1>3 DEF CatalogueInv, CatalogueShape
  <2> QED BY <1>6, <2>1, <2>2
<1>12. ASSUME NEW a \in Callers PROVE RequestFits(a)'
  <2>1. RequestFits(a) BY DEF SoleInv
  <2>2. \A u : At(a, u)' <=> At(a, u) BY <1>2 DEF At
  <2>3. entry \notin Cards BY <1>3 DEF Unfiled
  <2>4. ~At(a, "mirror") /\ ~At(a, "declare") /\ ~At(a, "undo")
    BY <1>3, <2>1, <2>3 DEF RequestFits, Unheard
  <2>5. ASSUME At(a, "remirror") PROVE call[a].row \in registry /\ \E m \in Cards' : Same(m, call[a].row)
    <3>1. PICK m \in Cards : call[a].row \in registry /\ Same(m, call[a].row)
      BY <2>1, <2>5 DEF RequestFits
    <3>2. PICK k \in Cards' : k.uid = call[a].row.uid BY <1>6, <3>1 DEF Same
    <3>3. Same(k, call[a].row)
      BY <1>2, <1>6, <3>1, <3>2 DEF TablesFit, KeysApart, Alike, Same
    <3> QED BY <3>1, <3>3
  <2>6. (\E m \in Cards : Same(m, call[a].row))' <=> \E m \in Cards' : Same(m, call[a].row)
    BY <1>2 DEF Same
  <2>7. Quiet(call[a].row)' <=> Quiet(call[a].row) BY <1>2 DEF Quiet, Live
  <2>8. ASSUME At(a, "undeclare") PROVE Unfiled(call[a].row.uid)'
    <3>1. Quiet(call[a].row) /\ Unfiled(call[a].row.uid) BY <2>1, <2>8 DEF RequestFits
    <3>2. call[a].row.uid # entry.uid BY <1>3, <1>7, <3>1 DEF Quiet, Leased
    <3>3. PICK u : u = call[a].row.uid OBVIOUS
    <3>4. Unfiled(u)' BY <1>6, <3>1, <3>2, <3>3
    <3> QED BY <1>2, <3>3, <3>4
  <2> QED BY <1>2, <2>1, <2>2, <2>4, <2>5, <2>6, <2>7, <2>8 DEF RequestFits
<1> QED BY <1>6, <1>9, <1>10, <1>11, <1>12 DEF SoleStep, SoleInv

\* A kill, and the start that mirrors every underlying.
LEMMA RestartSole ==
  ASSUME SoleAssumption, CatalogueInv, CatalogueInv', SoleInv, Restart
  PROVE  SoleStep
<1>1. /\ call' = [a \in Callers |-> Resting] /\ work' = [step |-> "idle"]
      /\ tasks' = [i \in DOMAIN tasks |->
                     [tasks[i] EXCEPT !.state = IF @ = "leased" THEN "pending" ELSE @]]
      /\ UnderlyingWrite(registry) /\ UNCHANGED registry
      /\ taken' = taken \/ Strays = {}
  BY NoFreedoms DEF Restart
<1>2. registry \in SUBSET RegistryRows /\ registry \in SUBSET registry
  BY DEF CatalogueInv, CatalogueShape
<1>3. /\ DOMAIN tasks' = DOMAIN tasks
      /\ \A i \in DOMAIN tasks : /\ Live(i)' <=> Live(i)
                                 /\ tasks'[i].kind = tasks[i].kind /\ tasks'[i].id = tasks[i].id
                                 /\ tasks'[i].name = tasks[i].name /\ tasks'[i].uid = tasks[i].uid
                                 /\ tasks'[i].sym = tasks[i].sym
  <2>1. \A i \in DOMAIN tasks : tasks[i] \in TaskRows BY DEF CatalogueInv, TasksFit
  <2> QED BY <1>1, <2>1 DEF TaskRows, Live
<1>4. LiveChunks' = LiveChunks BY <1>3 DEF LiveChunks
<1>5. Strays = {} => \A x \in bars \cup LiveChunks : ~(x.id <= SpotMax) => \E c \in Chains : c.id = x.id
  <2> SUFFICES ASSUME Strays = {}, NEW x \in bars \cup LiveChunks, ~(x.id <= SpotMax)
               PROVE  \E c \in Chains : c.id = x.id
    OBVIOUS
  <2>1. x.id \in {b.id : b \in bars} \cup {tasks[j].id : j \in {k \in DOMAIN tasks :
          tasks[k].kind = "chunk" /\ tasks[k].state \in {"pending", "leased"}}}
    BY DEF LiveChunks, Live
  <2>2. PICK c \in contracts : c.id = x.id BY <2>1 DEF Strays
  <2> QED BY <2>2 DEF CatalogueInv, ContractsFit, Chains
<1>6. /\ TablesFit' /\ OutFits' /\ BarsStep /\ registry \subseteq Cards'
  BY <1>1, <1>2, <1>4, <1>5, RegisteredApart, MirrorWritten
<1>7. LiveOwned' BY <1>1, <1>3 DEF SoleInv, LiveOwned
<1>8. \A a \in Callers : RequestFits(a)' BY <1>1 DEF RequestFits, At, Resting
<1>9. MirrorsFit' BY <1>1, <1>6 DEF MirrorsFit
<1>10. WorkFits' BY <1>1 DEF WorkFits
<1> QED BY <1>6, <1>7, <1>8, <1>9, <1>10 DEF SoleStep, SoleInv

\* A creation mirrors its row.
LEMMA CreateMirrorSole ==
  ASSUME SoleAssumption, CatalogueInv, CatalogueInv', SoleInv, NEW a \in Callers, CreateMirror(a)
  PROVE  SoleStep
<1>1. PICK known, spots, entry :
        /\ known = {m \in mirror : m.uid = call[a].row.uid}
        /\ spots = IF known # {} THEN {m.spot : m \in known} ELSE FreeSpots
        /\ entry = [call[a].row EXCEPT !.spot = Min(spots)]
  OBVIOUS
<1>2. At(a, "mirror") /\ UNCHANGED <<registry, tasks, work>> BY DEF CreateMirror
<1>3. Unheard(call[a].row) BY <1>2 DEF SoleInv, RequestFits
<1>4. \A r \in registry : r \in Cards /\ ~Unfiled(r.uid) BY <1>3 DEF Unheard, Unfiled
<1>5. ~WorkAt("mirroring") BY <1>4 DEF SoleInv, WorkFits, WorkAt
<1>6. CASE spots = {}
  <2>1. call' = [call EXCEPT ![a] = Resting] /\ UNCHANGED duck
    BY <1>1, <1>6 DEF CreateMirror, Answer
  <2>2. call'[a] = Resting /\ (RequestFits(a)' => \A b \in Callers : RequestFits(b)')
    BY <2>1, RequestMoves
  <2>3. /\ TablesFit' /\ LiveOwned' /\ OutFits' /\ BarsStep /\ Cards' = Cards
        /\ (\A u : Unfiled(u)' <=> Unfiled(u))
    BY <1>2, <2>1, ElseKept
  <2>4. RequestFits(a)' BY <2>2 DEF RequestFits, At, Resting
  <2>5. MirrorsFit' BY <1>2, <1>4, <2>3 DEF MirrorsFit
  <2>6. WorkFits' BY <1>2, <1>5, <2>3, WorkKept DEF SoleInv
  <2> QED BY <2>2, <2>3, <2>4, <2>5, <2>6 DEF SoleStep, SoleInv
<1>7. CASE spots # {}
  <2>1. UnderlyingWrite({entry}) /\ UNCHANGED taken
        /\ call' = [call EXCEPT ![a] = [op |-> "declare", row |-> entry]]
    BY <1>1, <1>7 DEF CreateMirror
  <2>2. PICK q : q = [op |-> "declare", row |-> entry] OBVIOUS
  <2>3. call'[a] = q /\ (RequestFits(a)' => \A b \in Callers : RequestFits(b)')
    BY <2>1, <2>2, RequestMoves
  <2>4. mirror \subseteq MirrorRows /\ KeysApart BY DEF SoleInv, TablesFit
  <2>5. call[a].row \in [uid : Nat, sym : Symbols, spot : Nat, active : BOOLEAN]
    BY <1>2, CallHolds DEF CatalogueInv
  <2>6. spots \subseteq 1 .. SpotMax BY <1>1, <2>4 DEF FreeSpots, MirrorRows
  <2>7. Min(spots) \in spots /\ Min(spots) \in 1 .. SpotMax
    <3>1. spots \in SUBSET Nat BY <2>6, UnitsFollow
    <3> QED BY <1>7, <2>6, <3>1, MinIsLeast
  <2>8. /\ entry \in RegistryRows /\ entry.uid = call[a].row.uid /\ entry.sym = call[a].row.sym
        /\ entry.spot = Min(spots)
    <3>1. PICK n \in 1 .. SpotMax : n = Min(spots) BY <2>7
    <3> QED BY <1>1, <2>5, <3>1 DEF RegistryRows
  <2>9. ASSUME NEW m \in Cards PROVE m.uid = entry.uid <=> m.spot = entry.spot
    <3>1. PICK k \in mirror : m = Row(k.uid, k.sym, k.spot, k.active) /\ k.uid = m.uid
      BY <2>4, CardOf
    <3>2. m.spot = k.spot BY <3>1 DEF Row
    <3>3. CASE known # {}
      <4>1. PICK j \in known : entry.spot = j.spot BY <1>1, <2>7, <2>8, <3>3
      <4>2. j \in mirror /\ j.uid = entry.uid BY <1>1, <2>8, <4>1
      <4>3. PICK c \in Cards : c.uid = j.uid /\ c.spot = j.spot
        <5>1. Row(j.uid, j.sym, j.spot, j.active) \in Cards BY <4>2 DEF Cards
        <5> QED BY <5>1 DEF Row
      <4>4. m.uid = c.uid <=> m.spot = c.spot BY <2>4, <4>3 DEF KeysApart, Alike
      <4> QED BY <4>1, <4>2, <4>3, <4>4
    <3>4. CASE known = {}
      <4>1. m.uid # entry.uid BY <1>1, <2>8, <3>1, <3>4
      <4>2. m.spot # entry.spot BY <1>1, <2>7, <2>8, <3>1, <3>2, <3>4 DEF FreeSpots
      <4> QED BY <4>1, <4>2
    <3> QED BY <3>3, <3>4
  <2>10. \A r \in registry : ~Alike(r, entry)
    <3> SUFFICES ASSUME NEW r \in registry, Alike(r, entry) PROVE FALSE OBVIOUS
    <3>1. r.uid # entry.uid /\ r.sym # entry.sym /\ r \in Cards BY <1>3, <2>8 DEF Unheard
    <3> QED BY <2>9, <3>1 DEF Alike
  <2>11. LiveChunks' = LiveChunks BY <1>2 DEF LiveChunks, Live
  <2>12. /\ {entry} \in SUBSET RegistryRows /\ \A x, y \in {entry} : Alike(x, y) => x = y
         /\ \A r \in {entry}, m \in Cards :
              m.uid = r.uid \/ m.sym = r.sym <=> m.spot = r.spot \/ m.sym = r.sym
         /\ \A r \in registry, k \in {entry} : Alike(r, k) => r = k
    BY <2>8, <2>9, <2>10
  <2>13. /\ TablesFit' /\ OutFits' /\ BarsStep /\ {entry} \subseteq Cards'
         /\ \A r \in registry : r \in Cards => r \in Cards'
         /\ \A r \in registry, m \in Cards : m.uid = r.uid => \E k \in Cards' : k.uid = r.uid
    BY <1>2, <2>1, <2>11, <2>12, MirrorWritten
  <2>14. LiveOwned' BY <1>2 DEF SoleInv, LiveOwned, Live
  <2>15. RequestFits(a)'
    <3>1. (Unheard(entry))' BY <1>2, <1>3, <2>8, <2>13 DEF Unheard
    <3> QED BY <2>2, <2>3, <2>13, <3>1 DEF RequestFits, At
  <2>16. MirrorsFit' BY <1>2, <1>4, <2>13 DEF MirrorsFit
  <2>17. WorkFits'
    <3>1. CASE work.step = "idle" BY <1>2, <3>1 DEF WorkFits
    <3>2. CASE work.step \notin {"idle", "mirroring"}
      <4>1. /\ Leased.state = "leased" /\ Leased.kind # "chunk"
            /\ \E m \in Cards : m.uid = Leased.uid
        BY <3>2 DEF SoleInv, WorkFits
      <4>2. \E r \in registry : r.uid = Leased.uid
        BY <3>2, <4>1 DEF SoleInv, LiveOwned, Live, Leased, CatalogueInv, CatalogueShape
      <4>3. \E k \in Cards' : k.uid = Leased.uid BY <2>13, <4>1, <4>2
      <4> QED BY <1>2, <3>2, <4>1, <4>3 DEF WorkFits, Leased
    <3> QED BY <1>5, <3>1, <3>2 DEF WorkAt
  <2> QED BY <2>3, <2>13, <2>14, <2>15, <2>16, <2>17 DEF SoleStep, SoleInv
<1> QED BY <1>6, <1>7

\* An underlying that goes with everything filed under it.
LEMMA UnderlyingGone ==
  ASSUME SoleAssumption, CatalogueInv, SoleInv,
         NEW uid, NEW purge, DeleteUnderlying(uid, purge), UNCHANGED <<registry, tasks>>,
         \A t \in LiveChunks : t.uid # uid,
         purge = TRUE \/ \A c \in contracts, b \in bars : c.uid = uid => c.id # b.id
  PROVE  /\ TablesFit' /\ LiveOwned' /\ OutFits' /\ BarsStep /\ Unfiled(uid)'
         /\ \A m \in Cards : m.uid # uid => m \in Cards'
         /\ \A u : Unfiled(u) => Unfiled(u)'
<1>1. /\ contracts' = {c \in contracts : c.uid # uid}
      /\ expiries' = {e \in expiries : e.uid # uid}
      /\ mirror' = {m \in mirror : m.uid # uid}
      /\ taken' = taken /\ registry' = registry /\ tasks' = tasks
  BY DEF DeleteUnderlying
<1>2. TablesFit /\ OutFits /\ ContractsFit BY DEF SoleInv, CatalogueInv
<1>3. \A b \in bars' : b \in bars /\ \A c \in contracts : c.uid = uid => c.id # b.id
  BY DEF DeleteUnderlying
<1>4. \A b \in bars : (\A c \in contracts : c.uid = uid => c.id # b.id) => b \in bars'
  BY DEF DeleteUnderlying
<1>5. /\ \A m \in Cards : m.uid # uid => m \in Cards'
      /\ \A m \in Cards' : m \in Cards /\ m.uid # uid
  <2>1. \A m : Row(m.uid, m.sym, m.spot, m.active).uid = m.uid BY DEF Row
  <2>2. ASSUME NEW x \in Cards, x.uid # uid PROVE x \in Cards'
    <3>1. PICK m \in mirror : x = Row(m.uid, m.sym, m.spot, m.active) BY DEF Cards
    <3>2. m \in mirror' BY <1>1, <2>1, <2>2, <3>1
    <3> QED BY <3>1, <3>2 DEF Cards
  <2>3. ASSUME NEW x \in Cards' PROVE x \in Cards /\ x.uid # uid
    <3>1. PICK m \in mirror' : x = Row(m.uid, m.sym, m.spot, m.active) BY DEF Cards
    <3>2. m \in mirror /\ m.uid # uid BY <1>1
    <3> QED BY <2>1, <3>1, <3>2 DEF Cards
  <2> QED BY <2>2, <2>3
<1>6. \A c : c \in Chains' <=> c \in Chains /\ c.uid # uid BY <1>1 DEF Chains, Chain
<1>7. TablesFit'
  <2>1. mirror' \subseteq MirrorRows BY <1>1, <1>2 DEF TablesFit
  <2>2. KeysApart' BY <1>1, <1>2, <1>5 DEF TablesFit, KeysApart, Alike, Same
  <2>3. SpotsListed'
    <3>1. \A c : c \in SpotRows(Cards) <=> \E m \in Cards :
                   c = [id |-> m.spot, uid |-> m.uid, name |-> SpotName(m.sym)]
      BY DEF SpotRows
    <3>2. \A c : c \in SpotRows(Cards') <=> \E m \in Cards' :
                   c = [id |-> m.spot, uid |-> m.uid, name |-> SpotName(m.sym)]
      BY DEF SpotRows
    <3>3. \A c : c \in SpotRows(Cards') <=> c \in SpotRows(Cards) /\ c.uid # uid
      BY <1>5, <3>1, <3>2
    <3>4. contracts \ Chains = SpotRows(Cards) BY <1>2 DEF TablesFit, SpotsListed
    <3>5. contracts' \ Chains' = SpotRows(Cards') BY <1>1, <1>6, <3>3, <3>4
    <3> QED BY <3>5 DEF SpotsListed, SpotRows
  <2>4. RollupsMatch'
    <3>1. \A e \in expiries' : {c \in contracts' : c.uid = e.uid /\ c.name[2] = e.d}
                                 = {c \in contracts : c.uid = e.uid /\ c.name[2] = e.d}
      BY <1>1
    <3>2. \A m \in mirror' :
            /\ ExpiriesOf(expiries', m.uid) = ExpiriesOf(expiries, m.uid)
            /\ {c \in contracts' : c.uid = m.uid /\ c.name[2] # 0}
                 = {c \in contracts : c.uid = m.uid /\ c.name[2] # 0}
      BY <1>1 DEF ExpiriesOf
    <3>3. \A e \in expiries' : e \in expiries BY <1>1
    <3>4. \A m \in mirror' : m \in mirror BY <1>1
    <3> QED BY <1>2, <3>1, <3>2, <3>3, <3>4 DEF TablesFit, RollupsMatch
  <2>5. RowsHaveOwners' BY <1>1, <1>2 DEF TablesFit, RowsHaveOwners
  <2> QED BY <2>1, <2>2, <2>3, <2>4, <2>5 DEF TablesFit
<1>8. ASSUME NEW id, NEW name, Fits(id, name), \A c \in contracts : c.uid = uid => c.id # id
      PROVE  Fits(id, name)'
  <2>1. CASE id <= SpotMax
    <3>1. PICK r \in registry, m \in Cards : r.spot = id /\ m.spot = id /\ name = SpotName(r.sym)
      BY <1>8, <2>1 DEF Fits
    <3>2. [id |-> m.spot, uid |-> m.uid, name |-> SpotName(m.sym)] \in contracts
      BY <1>2, SpotOf
    <3>3. m \in Cards' BY <1>5, <1>8, <3>1, <3>2
    <3> QED BY <1>1, <2>1, <3>1, <3>3 DEF Fits, SpotName
  <2>2. CASE ~(id <= SpotMax)
    <3>1. \A c \in Chains' : c.id = id => c.name = name BY <1>6, <1>8, <2>2 DEF Fits
    <3>2. (\A c \in Chains' : c.id # id) => \A c \in Chains : c.id # id
      BY <1>6, <1>8 DEF Chains
    <3>3. (\A c \in Chains' : c.id # id) => Passed(id)'
      BY <1>1, <1>8, <2>2, <3>2 DEF Fits, Passed, BaseForUnit, FirstBlock
    <3> QED BY <2>2, <3>1, <3>3 DEF Fits
  <2> QED BY <2>1, <2>2
<1>9. LiveChunks' = LiveChunks BY <1>1 DEF LiveChunks, Live
<1>10. OutFits'
  <2>1. \A b \in bars' : b \in BarRows /\ Fits(b.id, b.name)' BY <1>2, <1>3, <1>8 DEF OutFits
  <2>2. ASSUME NEW t \in LiveChunks PROVE t.id # 0 /\ Fits(t.id, t.name)' /\ Owned(t.id, t.uid)'
    <3>1. t.id # 0 /\ Fits(t.id, t.name) /\ Owned(t.id, t.uid) BY <1>2 DEF OutFits
    <3>2. \A c \in contracts : c.uid = uid => c.id # t.id
      <4> SUFFICES ASSUME NEW c \in contracts, c.uid = uid, c.id = t.id PROVE FALSE OBVIOUS
      <4>1. c.uid = t.uid BY <1>2, <3>1, SpotOf DEF Owned
      <4> QED BY <4>1
    <3>3. Owned(t.id, t.uid)' BY <1>5, <1>6, <3>1 DEF Owned
    <3> QED BY <1>8, <3>1, <3>2, <3>3
  <2> QED BY <1>9, <2>1, <2>2 DEF OutFits, BarRows
<1>11. BarsStep
  <2> SUFFICES ASSUME NEW c \in contracts, NEW k \in contracts', c.name = k.name,
                      [id |-> c.id, name |-> c.name] \in bars
               PROVE  [id |-> k.id, name |-> k.name] \in bars'
    BY DEF BarsStep
  <2>1. c = k /\ c.uid # uid BY <1>1, <1>2, ContractsApart
  <2>2. \A x \in contracts : x.uid = uid => x.id # c.id BY <1>2, <2>1, ContractsApart
  <2> QED BY <1>4, <2>1, <2>2
<1>12. LiveOwned' BY <1>1 DEF SoleInv, LiveOwned, Live
<1>13. Unfiled(uid)' BY <1>1, <1>5 DEF Unfiled
<1>14. \A u : Unfiled(u) => Unfiled(u)' BY <1>1, <1>5 DEF Unfiled
<1> QED BY <1>5, <1>7, <1>10, <1>11, <1>12, <1>13, <1>14

\* What a deletion needs of the worker: its task is of another underlying.
LEMMA WorkSpared ==
  ASSUME WorkFits, UNCHANGED <<registry, tasks, work>>, NEW uid,
         work.step # "idle" => Leased.uid # uid,
         \A m \in Cards : m.uid # uid => m \in Cards',
         \A u : Unfiled(u) => Unfiled(u)'
  PROVE  WorkFits'
<1>1. CASE work.step = "idle" BY <1>1 DEF WorkFits
<1>2. CASE WorkAt("mirroring") BY <1>2 DEF WorkFits, WorkAt, Leased
<1>3. CASE work.step \notin {"idle", "mirroring"}
  <2>1. PICK m \in Cards : m.uid = Leased.uid BY <1>3 DEF WorkFits
  <2>2. m \in Cards' BY <1>3, <2>1
  <2> QED BY <1>3, <2>1, <2>2 DEF WorkFits, Leased
<1> QED BY <1>1, <1>2, <1>3 DEF WorkAt

\* A creation that was refused takes its mirror row back.
LEMMA CreateUndoneSole ==
  ASSUME SoleAssumption, CatalogueInv, SoleInv, NEW a \in Callers, CreateUndone(a)
  PROVE  SoleStep
<1>1. PICK uid : uid = call[a].row.uid OBVIOUS
<1>2. /\ At(a, "undo") /\ DeleteUnderlying(uid, FALSE) /\ call' = [call EXCEPT ![a] = Resting]
      /\ UNCHANGED <<registry, tasks, work>>
  BY <1>1 DEF CreateUndone, Answer
<1>3. \A r \in registry : r.uid # uid /\ r \in Cards
  BY <1>1, <1>2 DEF SoleInv, RequestFits, Unheard
<1>4. ASSUME NEW i \in DOMAIN tasks, Live(i) PROVE tasks[i].uid # uid
  BY <1>3, <1>4 DEF SoleInv, LiveOwned
<1>5. \A t \in LiveChunks : t.uid # uid BY <1>4 DEF LiveChunks
<1>6. \A c \in contracts, b \in bars : c.uid = uid => c.id # b.id
  <2> SUFFICES ASSUME NEW c \in contracts, NEW b \in bars, c.uid = uid, c.id = b.id PROVE FALSE
    OBVIOUS
  <2>1. ~Chain(c) BY <1>3 DEF SoleInv, TablesFit, RowsHaveOwners, Chain
  <2>2. PICK m \in Cards : c = [id |-> m.spot, uid |-> m.uid, name |-> SpotName(m.sym)]
    BY <2>1, SpotOf DEF SoleInv, Chains
  <2>3. c.id <= SpotMax BY <2>1 DEF CatalogueInv, ContractsFit
  <2>4. Fits(b.id, b.name) BY DEF SoleInv, OutFits
  <2>5. PICK r \in registry : r.spot = b.id BY <2>3, <2>4 DEF Fits
  <2>6. r.uid = m.uid BY <2>2, <2>5 DEF SoleInv, TablesFit, KeysApart, Alike, Same
  <2> QED BY <1>3, <2>2, <2>6
<1>7. /\ TablesFit' /\ LiveOwned' /\ OutFits' /\ BarsStep
      /\ \A m \in Cards : m.uid # uid => m \in Cards'
      /\ \A u : Unfiled(u) => Unfiled(u)'
  BY <1>2, <1>5, <1>6, UnderlyingGone
<1>8. call'[a] = Resting /\ (RequestFits(a)' => \A b \in Callers : RequestFits(b)')
  BY <1>2, RequestMoves
<1>9. RequestFits(a)' BY <1>8 DEF RequestFits, At, Resting
<1>10. MirrorsFit' BY <1>2, <1>3, <1>7 DEF MirrorsFit
<1>11. WorkFits'
  <2>1. work.step # "idle" => Leased.uid # uid
    BY <1>4 DEF SoleInv, WorkFits, Live, Leased, CatalogueInv, CatalogueShape
  <2> QED BY <1>2, <1>7, <2>1, WorkSpared DEF SoleInv
<1> QED BY <1>7, <1>8, <1>9, <1>10, <1>11 DEF SoleStep, SoleInv

\* A removal empties the mirror, the chains and the bars.
LEMMA RemoveMirrorSole ==
  ASSUME SoleAssumption, CatalogueInv, SoleInv, NEW a \in Callers, RemoveMirror(a)
  PROVE  SoleStep
<1>1. PICK entry, q : entry = call[a].row /\ q = [call[a] EXCEPT !.op = "undeclare"] OBVIOUS
<1>2. PICK uid : uid = entry.uid OBVIOUS
<1>3. /\ At(a, "unlist") /\ DeleteUnderlying(uid, call[a].purge)
      /\ call' = [call EXCEPT ![a] = q]
      /\ UNCHANGED <<registry, tasks, work>>
  BY <1>1, <1>2 DEF RemoveMirror
<1>4. Quiet(entry) /\ call[a].purge = TRUE BY <1>1, <1>3 DEF SoleInv, RequestFits
<1>5. ASSUME NEW i \in DOMAIN tasks, Live(i) PROVE tasks[i].uid # uid
  BY <1>2, <1>4, <1>5 DEF Quiet
<1>6. \A t \in LiveChunks : t.uid # uid BY <1>5 DEF LiveChunks
<1>7. /\ TablesFit' /\ LiveOwned' /\ OutFits' /\ BarsStep /\ Unfiled(uid)'
      /\ \A m \in Cards : m.uid # uid => m \in Cards'
      /\ \A u : Unfiled(u) => Unfiled(u)'
  BY <1>3, <1>4, <1>6, UnderlyingGone
<1>8. call'[a] = q /\ (RequestFits(a)' => \A b \in Callers : RequestFits(b)')
  BY <1>3, RequestMoves
<1>9. q.op = "undeclare" /\ q.row = entry
  <2>1. call[a] \in [op : {"unlist", "undeclare"}, row : RegistryRows, purge : BOOLEAN]
    BY <1>3, CallHolds DEF CatalogueInv
  <2> QED BY <1>1, <2>1
<1>10. RequestFits(a)'
  <2>1. Quiet(entry)' BY <1>3, <1>4 DEF Quiet, Live
  <2>2. Unfiled(entry.uid)' BY <1>2, <1>7
  <2> QED BY <1>8, <1>9, <2>1, <2>2 DEF RequestFits, At
<1>11. MirrorsFit'
  <2>1. ~At(a, "remirror") BY <1>3 DEF At
  <2>2. \A r \in registry : r \in Cards' \/ Unfiled(r.uid)' BY <1>7, <2>1, NotEditing DEF SoleInv
  <2> QED BY <1>3, <2>2 DEF MirrorsFit
<1>12. WorkFits'
  <2>1. work.step # "idle" => Leased.uid # uid
    BY <1>5 DEF SoleInv, WorkFits, Live, Leased, CatalogueInv, CatalogueShape
  <2> QED BY <1>3, <1>7, <2>1, WorkSpared DEF SoleInv
<1> QED BY <1>7, <1>8, <1>10, <1>11, <1>12 DEF SoleStep, SoleInv

\* What a contract of a registered underlying is stored under.
LEMMA ContractOut ==
  ASSUME CatalogueInv, SoleInv, NEW c \in contracts, NEW r \in registry, c.uid = r.uid
  PROVE  c.id # 0 /\ Fits(c.id, c.name) /\ Owned(c.id, c.uid)
<1>1. ContractsFit /\ TablesFit BY DEF CatalogueInv, SoleInv
<1>2. \A k \in contracts : k.id = c.id => k = c BY <1>1, ContractsApart
<1>3. Owned(c.id, c.uid)
  <2>1. \A k \in Chains : k.id = c.id => k.uid = c.uid BY <1>2 DEF Chains
  <2>2. ASSUME NEW m \in Cards, m.spot = c.id PROVE m.uid = c.uid
    <3>1. PICK k \in contracts : k = [id |-> m.spot, uid |-> m.uid, name |-> SpotName(m.sym)]
      BY <1>1, SpotOf
    <3> QED BY <1>2, <2>2, <3>1
  <2> QED BY <2>1, <2>2 DEF Owned
<1>4. CASE Chain(c)
  <2>1. c.id \in Nat /\ c.id > SpotMax /\ SpotMax \in Nat
    BY <1>1, <1>4, UnitsFollow DEF ContractsFit, ContractRows
  <2>2. ~(c.id <= SpotMax) /\ c.id # 0 BY <2>1
  <2>3. c \in Chains /\ \A k \in Chains : k.id = c.id => k.name = c.name
    BY <1>2, <1>4 DEF Chains
  <2> QED BY <1>3, <2>2, <2>3 DEF Fits
<1>5. CASE ~Chain(c)
  <2>1. PICK m \in Cards : c = [id |-> m.spot, uid |-> m.uid, name |-> SpotName(m.sym)]
    BY <1>1, <1>5, SpotOf DEF Chains
  <2>2. Same(r, m) BY <1>1, <2>1 DEF TablesFit, KeysApart, Alike
  <2>3. m.spot \in 1 .. SpotMax /\ SpotMax \in Nat BY <1>1, SpotOf, UnitsFollow
  <2>4. c.id = m.spot /\ c.name = SpotName(r.sym) /\ r.spot = m.spot BY <2>1, <2>2 DEF Same
  <2>5. c.id <= SpotMax /\ c.id # 0 BY <2>3, <2>4
  <2> QED BY <1>3, <2>4, <2>5 DEF Fits
<1> QED BY <1>4, <1>5

\* Rows added to the queue: of registered underlyings that no request is removing, and the
\* chunks of contracts there are.
LEMMA QueueSole ==
  ASSUME SoleAssumption, CatalogueInv, SoleInv, UNCHANGED <<registry, duck, call>>,
         work' = work \/ (work.step \notin {"idle", "mirroring"} /\ Step("planned")),
         NEW new \in Seq(TaskRows), tasks' = tasks \o new,
         \A i \in DOMAIN new : new[i].state = "pending"
           /\ \E r \in registry : r.uid = new[i].uid /\ r.sym = new[i].sym,
         \A i \in DOMAIN new : \/ \A a \in Callers : At(a, "none")
                               \/ \E j \in DOMAIN tasks : Live(j) /\ tasks[j].uid = new[i].uid,
         \A i \in DOMAIN new : new[i].kind = "chunk" =>
           \E c \in contracts : c.id = new[i].id /\ c.name = new[i].name /\ c.uid = new[i].uid
  PROVE  SoleStep
<1>1. /\ DOMAIN tasks \subseteq DOMAIN tasks'
      /\ \A i \in DOMAIN tasks : tasks'[i] = tasks[i]
      /\ \A i \in DOMAIN tasks' : i \in DOMAIN tasks
           \/ (i - Len(tasks) \in DOMAIN new /\ tasks'[i] = new[i - Len(tasks)])
  BY DEF CatalogueInv, TasksFit
<1>2. \A i \in DOMAIN tasks' : i \in DOMAIN tasks \/ \E j \in DOMAIN new : tasks'[i] = new[j]
  BY <1>1
<1>3. UNCHANGED <<registry, mirror, expiries, contracts, taken, bars>> BY DEF duck
<1>4. TablesFit' /\ Cards' = Cards /\ Chains' = Chains BY <1>3, TablesKept DEF SoleInv
<1>5. BarsStep BY <1>3, BarsStay DEF SoleInv, CatalogueInv
<1>6. LiveOwned'
  <2>1. ASSUME NEW i \in DOMAIN tasks', tasks'[i].state \in {"pending", "leased"}
        PROVE  \E r \in registry : r.uid = tasks'[i].uid /\ r.sym = tasks'[i].sym
    <3>1. CASE i \in DOMAIN tasks BY <1>1, <2>1, <3>1 DEF SoleInv, LiveOwned, Live
    <3>2. CASE \E j \in DOMAIN new : tasks'[i] = new[j] BY <3>2
    <3> QED BY <1>2, <3>1, <3>2
  <2> QED BY <1>3, <2>1 DEF LiveOwned, Live
<1>7. \A id, name, uid : /\ Fits(id, name) => Fits(id, name)'
                         /\ Owned(id, uid) => Owned(id, uid)'
  BY <1>3, <1>4 DEF Fits, Owned, Passed, BaseForUnit, FirstBlock
<1>8. OutFits'
  <2>1. \A b \in bars' : b \in BarRows /\ Fits(b.id, b.name)' BY <1>3, <1>7 DEF SoleInv, OutFits
  <2>2. ASSUME NEW t \in LiveChunks' PROVE t.id # 0 /\ Fits(t.id, t.name)' /\ Owned(t.id, t.uid)'
    <3>1. PICK i \in DOMAIN tasks' :
            /\ tasks'[i].kind = "chunk" /\ tasks'[i].state \in {"pending", "leased"}
            /\ t = [id |-> tasks'[i].id, name |-> tasks'[i].name, uid |-> tasks'[i].uid]
      BY DEF LiveChunks, Live
    <3>2. CASE i \in DOMAIN tasks
      <4>1. t \in LiveChunks BY <1>1, <3>1, <3>2 DEF LiveChunks, Live
      <4> QED BY <1>7, <4>1 DEF SoleInv, OutFits
    <3>3. CASE \E j \in DOMAIN new : tasks'[i] = new[j]
      <4>1. PICK j \in DOMAIN new : tasks'[i] = new[j] BY <3>3
      <4>2. PICK c \in contracts : c.id = t.id /\ c.name = t.name /\ c.uid = t.uid BY <3>1, <4>1
      <4>3. \E r \in registry : r.uid = c.uid BY <3>1, <4>1, <4>2
      <4>4. t.id # 0 /\ Fits(t.id, t.name) /\ Owned(t.id, t.uid) BY <4>2, <4>3, ContractOut
      <4> QED BY <1>7, <4>4
    <3> QED BY <1>2, <3>2, <3>3
  <2> QED BY <2>1, <2>2 DEF OutFits, BarRows
<1>9. \A u : Unfiled(u)' <=> Unfiled(u) BY <1>3, <1>4 DEF Unfiled
<1>10. ASSUME NEW a \in Callers PROVE RequestFits(a)'
  <2>1. ASSUME At(a, "unlist") \/ At(a, "undeclare") PROVE (Quiet(call[a].row))'
    <3>1. Quiet(call[a].row) /\ ~At(a, "none") BY <2>1 DEF SoleInv, RequestFits, At
    <3>2. ASSUME NEW i \in DOMAIN tasks', tasks'[i].uid = call[a].row.uid
          PROVE  tasks'[i].state \notin {"pending", "leased"}
      <4>1. CASE i \in DOMAIN tasks BY <1>1, <3>1, <3>2, <4>1 DEF Quiet, Live
      <4>2. CASE \E j \in DOMAIN new : tasks'[i] = new[j]
        <5>1. PICK j \in DOMAIN tasks : Live(j) /\ tasks[j].uid = tasks'[i].uid BY <3>1, <4>2
        <5> QED BY <3>1, <3>2, <5>1 DEF Quiet
      <4> QED BY <1>2, <4>1, <4>2
    <3> QED BY <1>3, <3>1, <3>2 DEF Quiet, Live
  <2>2. (Unheard(call[a].row))' <=> Unheard(call[a].row) BY <1>3, <1>4 DEF Unheard
  <2>3. RequestFits(a) /\ call' = call BY DEF SoleInv
  <2>4. (Unfiled(call[a].row.uid))' <=> Unfiled(call[a].row.uid) BY <1>3, <1>4, <2>3 DEF Unfiled
  <2>5. (\E m \in Cards : Same(m, call[a].row))' <=> \E m \in Cards : Same(m, call[a].row)
    BY <1>4, <2>3 DEF Same
  <2> QED BY <1>3, <1>4, <2>1, <2>2, <2>3, <2>4, <2>5 DEF RequestFits, At
<1>11. MirrorsFit' BY <1>3, <1>4, <1>9 DEF SoleInv, MirrorsFit, At
<1>12. WorkFits'
  <2>1. work.step # "idle" => work.task \in DOMAIN tasks BY DEF CatalogueInv, CatalogueShape
  <2>2. CASE work' = work BY <1>1, <1>3, <1>4, <1>9, <2>1, <2>2 DEF SoleInv, WorkFits, Leased
  <2>3. CASE work.step \notin {"idle", "mirroring"} /\ Step("planned")
    <3>1. work' \in Works /\ work'.step = "planned" /\ work'.task = work.task
      <4>1. work' = [work EXCEPT !.step = "planned"] BY <2>3 DEF Step
      <4>2. work \in Works BY DEF CatalogueInv, CatalogueShape
      <4> QED BY <2>3, <4>1, <4>2 DEF Works
    <3>2. tasks'[work'.task] = Leased BY <1>1, <2>1, <2>3, <3>1 DEF Leased
    <3> QED BY <1>4, <2>3, <3>1, <3>2 DEF SoleInv, WorkFits, Leased
  <2> QED BY <2>2, <2>3
<1> QED BY <1>4, <1>5, <1>6, <1>8, <1>10, <1>11, <1>12 DEF SoleStep, SoleInv

\* A row marked that was live.
LEMMA OneMarkedSole ==
  ASSUME CatalogueInv, SoleInv, NEW i \in DOMAIN tasks, Live(i),
         NEW s \in {"leased", "done", "failed"}, SetState(i, s),
         UNCHANGED <<registry, mirror, expiries, contracts, taken, call>>
  PROVE  /\ TablesFit' /\ LiveOwned' /\ (\A a \in Callers : RequestFits(a)') /\ MirrorsFit'
         /\ Cards' = Cards /\ Chains' = Chains /\ LiveChunks' \subseteq LiveChunks
         /\ \A u : Unfiled(u)' <=> Unfiled(u)
         /\ tasks'[i].state = s /\ tasks'[i].kind = tasks[i].kind /\ tasks'[i].uid = tasks[i].uid
         /\ \A j \in DOMAIN tasks : j # i => tasks'[j] = tasks[j]
<1>1. \A j \in DOMAIN tasks : tasks[j] \in TaskRows BY DEF CatalogueInv, TasksFit
<1>2. tasks' = [tasks EXCEPT ![i].state = s] BY DEF SetState
<1>3. /\ DOMAIN tasks' = DOMAIN tasks
      /\ \A j \in DOMAIN tasks :
           /\ tasks'[j].kind = tasks[j].kind /\ tasks'[j].id = tasks[j].id
           /\ tasks'[j].name = tasks[j].name /\ tasks'[j].uid = tasks[j].uid
           /\ tasks'[j].sym = tasks[j].sym
           /\ tasks'[j].state = IF j = i THEN s ELSE tasks[j].state
      /\ \A j \in DOMAIN tasks : j # i => tasks'[j] = tasks[j]
  BY <1>1, <1>2 DEF TaskRows
<1>4. \A j \in DOMAIN tasks : tasks'[j].state \in {"pending", "leased"} => Live(j)
  BY <1>3 DEF Live
<1>5. TablesFit' /\ Cards' = Cards /\ Chains' = Chains BY TablesKept DEF SoleInv
<1>6. LiveOwned' BY <1>3, <1>4 DEF SoleInv, LiveOwned, Live
<1>7. LiveChunks' \subseteq LiveChunks
  <2> SUFFICES ASSUME NEW t \in LiveChunks' PROVE t \in LiveChunks OBVIOUS
  <2>1. PICK j \in DOMAIN tasks :
          /\ tasks'[j].kind = "chunk" /\ tasks'[j].state \in {"pending", "leased"}
          /\ t = [id |-> tasks'[j].id, name |-> tasks'[j].name, uid |-> tasks'[j].uid]
    BY <1>3 DEF LiveChunks, Live
  <2>2. /\ tasks[j].kind = "chunk" /\ Live(j)
        /\ t = [id |-> tasks[j].id, name |-> tasks[j].name, uid |-> tasks[j].uid]
    BY <1>3, <1>4, <2>1
  <2> QED BY <2>2 DEF LiveChunks
<1>8. \A u : Unfiled(u)' <=> Unfiled(u) BY <1>5 DEF Unfiled
<1>9. ASSUME NEW a \in Callers PROVE RequestFits(a)'
  <2>1. RequestFits(a) BY DEF SoleInv
  <2>2. Quiet(call[a].row) => (Quiet(call[a].row))' BY <1>3, <1>4 DEF Quiet, Live
  <2>3. (Unheard(call[a].row))' <=> Unheard(call[a].row) BY <1>5 DEF Unheard
  <2>4. (Unfiled(call[a].row.uid))' <=> Unfiled(call[a].row.uid) BY <1>5 DEF Unfiled
  <2>5. (\E m \in Cards : Same(m, call[a].row))' <=> \E m \in Cards : Same(m, call[a].row)
    BY <1>5 DEF Same
  <2> QED BY <1>5, <2>1, <2>2, <2>3, <2>4, <2>5 DEF RequestFits, At
<1>10. MirrorsFit' BY <1>5, <1>8 DEF SoleInv, MirrorsFit, At
<1> QED BY <1>3, <1>5, <1>6, <1>7, <1>8, <1>9, <1>10

\* The worker claims a task.
LEMMA LeaseSole ==
  ASSUME SoleAssumption, CatalogueInv, SoleInv, NEW i \in DOMAIN tasks, Lease(i)
  PROVE  SoleStep
<1>1. /\ WorkAt("idle") /\ tasks[i].state = "pending" /\ tasks[i].kind # "chunk"
      /\ UNCHANGED <<registry, duck, call>>
  BY DEF Lease, NextUp
<1>2. UNCHANGED <<registry, mirror, expiries, contracts, taken, bars, call>> BY <1>1 DEF duck
<1>3. Live(i) BY <1>1 DEF Live
<1>4. PICK declared :
        /\ declared = {r \in registry : r.uid = tasks[i].uid}
        /\ \/ SetState(i, "failed") /\ UNCHANGED work
           \/ /\ SetState(i, "leased") /\ (\E m \in mirror : m.uid = tasks[i].uid)
              /\ work' = [step |-> "ready", task |-> i]
           \/ /\ SetState(i, "leased") /\ (\A m \in mirror : m.uid # tasks[i].uid)
              /\ declared # {}
              /\ work' = [step |-> "mirroring", task |-> i, row |-> CHOOSE r \in declared : TRUE]
  BY DEF Lease
<1>5. PICK s \in {"leased", "failed"} : SetState(i, s) BY <1>4
<1>6. /\ TablesFit' /\ LiveOwned' /\ (\A a \in Callers : RequestFits(a)') /\ MirrorsFit'
      /\ Cards' = Cards /\ LiveChunks' \subseteq LiveChunks
      /\ \A u : Unfiled(u)' <=> Unfiled(u)
  BY <1>2, <1>3, <1>5, OneMarkedSole
<1>7. OutFits' BY <1>2, <1>6, OutStays DEF SoleInv
<1>8. BarsStep BY <1>2, BarsStay DEF SoleInv, CatalogueInv
<1>9. WorkFits'
  <2>1. CASE UNCHANGED work BY <1>1, <2>1 DEF WorkFits, WorkAt
  <2>2. ASSUME SetState(i, "leased")
        PROVE  /\ tasks'[i].state = "leased" /\ tasks'[i].kind # "chunk"
               /\ tasks'[i].uid = tasks[i].uid
    BY <1>1, <1>2, <1>3, <2>2, OneMarkedSole
  <2>3. CASE /\ SetState(i, "leased") /\ \E m \in mirror : m.uid = tasks[i].uid
             /\ work' = [step |-> "ready", task |-> i]
    <3>1. mirror \subseteq MirrorRows BY DEF SoleInv, TablesFit
    <3>2. \E m \in Cards : m.uid = tasks[i].uid BY <2>3, <3>1, CardOf
    <3> QED BY <1>6, <2>2, <2>3, <3>2 DEF WorkFits, Leased
  <2>4. CASE /\ SetState(i, "leased") /\ \A m \in mirror : m.uid # tasks[i].uid
             /\ declared # {}
             /\ work' = [step |-> "mirroring", task |-> i, row |-> CHOOSE r \in declared : TRUE]
    <3>1. PICK r \in registry : r.uid = tasks[i].uid /\ work' = [step |-> "mirroring", task |-> i, row |-> r]
      BY <1>4, <2>4
    <3>2. mirror \subseteq MirrorRows BY DEF SoleInv, TablesFit
    <3>3. \A m \in Cards : m.uid # r.uid BY <2>4, <3>1, <3>2, CardOf
    <3>4. ~\E a \in Callers : At(a, "remirror") /\ call[a].row = r
      BY <3>3 DEF SoleInv, RequestFits, Same
    <3>5. Unfiled(r.uid) BY <3>3, <3>4 DEF SoleInv, MirrorsFit
    <3>6. Unfiled(r.uid)' BY <1>6, <3>5
    <3>7. work'.step = "mirroring" /\ work'.task = i /\ work'.row = r BY <3>1
    <3> QED BY <1>2, <2>2, <2>4, <3>1, <3>6, <3>7 DEF WorkFits, Leased
  <2> QED BY <1>4, <2>1, <2>3, <2>4
<1> QED BY <1>6, <1>7, <1>8, <1>9 DEF SoleStep, SoleInv

\* The worker completes its task.
LEMMA AckSole == ASSUME SoleAssumption, CatalogueInv, SoleInv, Ack PROVE SoleStep
<1>1. /\ WorkAt("planned") /\ SetState(work.task, "done") /\ work' = [step |-> "idle"]
      /\ UNCHANGED <<registry, duck, call>>
  BY DEF Ack
<1>2. work.task \in DOMAIN tasks BY <1>1 DEF WorkAt, CatalogueInv, CatalogueShape
<1>3. Live(work.task) BY <1>1 DEF WorkAt, SoleInv, WorkFits, Leased, Live
<1>4. UNCHANGED <<registry, mirror, expiries, contracts, taken, bars, call>> BY <1>1 DEF duck
<1>5. PICK i \in DOMAIN tasks : i = work.task BY <1>2
<1>6. /\ TablesFit' /\ LiveOwned' /\ (\A a \in Callers : RequestFits(a)') /\ MirrorsFit'
      /\ LiveChunks' \subseteq LiveChunks
  BY <1>1, <1>3, <1>4, <1>5, OneMarkedSole
<1>7. OutFits' BY <1>4, <1>6, OutStays DEF SoleInv
<1>8. BarsStep BY <1>4, BarsStay DEF SoleInv, CatalogueInv
<1>9. WorkFits' BY <1>1 DEF WorkFits
<1> QED BY <1>6, <1>7, <1>8, <1>9 DEF SoleStep, SoleInv

\* The bars of a chunk are stored under what its row carries.
LEMMA ChunkSole ==
  ASSUME SoleAssumption, CatalogueInv, SoleInv, NEW i \in DOMAIN tasks, StoreChunk(i)
  PROVE  SoleStep
<1> DEFINE t == [id |-> tasks[i].id, name |-> tasks[i].name, uid |-> tasks[i].uid]
<1>1. /\ tasks[i].state = "pending" /\ tasks[i].kind = "chunk" /\ SetState(i, "done")
      /\ bars' = bars \cup {[id |-> t.id, name |-> t.name]}
      /\ UNCHANGED <<registry, mirror, expiries, contracts, taken, call, work>>
  BY DEF StoreChunk, NextUp
<1>2. Live(i) BY <1>1 DEF Live
<1>3. t \in LiveChunks BY <1>1, <1>2 DEF LiveChunks
<1>4. t.id \in Nat /\ t.name \in Names
  <2>1. tasks[i] \in TaskRows BY DEF CatalogueInv, TasksFit
  <2> QED BY <2>1 DEF TaskRows
<1> HIDE DEF t
<1>5. /\ TablesFit' /\ LiveOwned' /\ (\A a \in Callers : RequestFits(a)') /\ MirrorsFit'
      /\ Cards' = Cards /\ Chains' = Chains /\ LiveChunks' \subseteq LiveChunks
      /\ \A u : Unfiled(u)' <=> Unfiled(u)
      /\ \A j \in DOMAIN tasks : j # i => tasks'[j] = tasks[j]
  BY <1>1, <1>2, OneMarkedSole
<1>6. \A id, name, uid : /\ Fits(id, name) => Fits(id, name)'
                         /\ Owned(id, uid) => Owned(id, uid)'
  BY <1>1, <1>5 DEF Fits, Owned, Passed, BaseForUnit, FirstBlock
<1>7. OutFits'
  <2>1. [id |-> t.id, name |-> t.name] \in BarRows /\ Fits(t.id, t.name)
    BY <1>3, <1>4 DEF SoleInv, OutFits, BarRows
  <2>2. \A b \in bars : b \in BarRows /\ Fits(b.id, b.name) BY DEF SoleInv, OutFits
  <2>3. ASSUME NEW b \in bars' PROVE b \in BarRows /\ Fits(b.id, b.name)'
    BY <1>1, <1>6, <2>1, <2>2
  <2>4. \A x \in LiveChunks' : x.id # 0 /\ Fits(x.id, x.name)' /\ Owned(x.id, x.uid)'
    BY <1>5, <1>6 DEF SoleInv, OutFits
  <2> QED BY <2>3, <2>4 DEF OutFits, BarRows
<1>8. BarsStep BY <1>1, BarsStay DEF SoleInv, CatalogueInv
<1>9. WorkFits'
  <2>1. CASE work.step = "idle" BY <1>1, <2>1 DEF WorkFits
  <2>2. CASE work.step # "idle"
    <3>1. Leased.state = "leased" /\ work.task \in DOMAIN tasks
      BY <2>2 DEF SoleInv, WorkFits, CatalogueInv, CatalogueShape
    <3>2. tasks'[work.task] = tasks[work.task] BY <1>1, <1>5, <3>1 DEF Leased
    <3> QED BY <1>1, <1>5, <2>2, <3>2 DEF SoleInv, WorkFits, Leased
  <2> QED BY <2>1, <2>2
<1> QED BY <1>5, <1>7, <1>8, <1>9 DEF SoleStep, SoleInv

\* A request puts an expiry discovery in the queue.
LEMMA DiscoverSole ==
  ASSUME SoleAssumption, CatalogueInv, SoleInv,
         NEW a \in Callers, NEW r \in registry, DiscoverExpiries(a, r)
  PROVE  SoleStep
<1>1. PICK t : t = Task(NextJob, FALSE, "dates", r, 0, 0, SpotName(r.sym)) OBVIOUS
<1>2. /\ At(a, "none") /\ tasks' = Append(tasks, t) /\ UNCHANGED <<registry, duck, call, work>>
  BY <1>1 DEF DiscoverExpiries
<1>3. r.uid \in Nat /\ r.sym \in Symbols BY DEF CatalogueInv, CatalogueShape, RegistryRows
<1>4. t \in TaskRows
  BY <1>1, <1>3, NextJobIsNew DEF CatalogueInv, Task, TaskRows, SpotName, Names
<1>5. t.kind = "dates" /\ t.state = "pending" /\ t.uid = r.uid /\ t.sym = r.sym
  BY <1>1 DEF Task
<1>6. PICK new : new = <<t>> OBVIOUS
<1>7. new \in Seq(TaskRows) /\ DOMAIN new = {1} /\ new[1] = t BY <1>4, <1>6
<1>8. tasks' = tasks \o new
  <2>1. tasks \in Seq(TaskRows) BY DEF CatalogueInv, TasksFit
  <2> QED BY <1>2, <1>4, <1>6, <2>1
<1>9. \A b \in Callers : At(b, "none") BY <1>2, OneCaller
<1>10. \A i \in DOMAIN new : /\ new[i].state = "pending" /\ new[i].kind # "chunk"
                             /\ \E q \in registry : q.uid = new[i].uid /\ q.sym = new[i].sym
  BY <1>5, <1>7
<1> QED BY <1>2, <1>7, <1>8, <1>9, <1>10, QueueSole

\* The expiries whose contracts were never discovered, laid out as tasks.
LEMMA AskRows ==
  ASSUME CatalogueInv, NEW sheet \in BOOLEAN, NEW r \in registry,
         NEW t \in {Task(NextJob, sheet, "symbols", r, e.d, 0, SpotName(r.sym)) :
                      e \in {x \in ExpiriesOf(expiries, r.uid) : x.lo = 0}}
  PROVE  /\ t \in TaskRows /\ t.kind = "symbols" /\ t.state = "pending"
         /\ t.uid = r.uid /\ t.sym = r.sym
<1>1. t \in TaskRows /\ t.kind = "symbols" BY AsksFit
<1> QED BY <1>1 DEF Task

\* The chunks of some contracts, laid out.
LEMMA ChunkRows ==
  ASSUME NEW job, NEW r, NEW rows, IsFiniteSet(rows)
  PROVE  LET new == Chunks(job, r, rows) IN
           \A i \in DOMAIN new : new[i].state = "pending" /\ new[i].uid = r.uid /\ new[i].sym = r.sym
                                 /\ \E c \in rows : new[i].id = c.id /\ new[i].name = c.name
<1> DEFINE f == [c \in rows |-> Task(job, TRUE, "chunk", r, c.name[2], c.id, c.name)]
           S == {f[c] : c \in rows}
<1>1. Chunks(job, r, rows) = SetToSeq(S) BY DEF Chunks
<1>2. \A x \in S : /\ x.state = "pending" /\ x.uid = r.uid /\ x.sym = r.sym
                   /\ \E c \in rows : x.id = c.id /\ x.name = c.name
  BY DEF Task
<1>3. IsFiniteSet(S)
  <2> HIDE DEF f
  <2> QED BY ImagesFinite
<1> HIDE DEF S
<1>4. \A i \in DOMAIN SetToSeq(S) : SetToSeq(S)[i] \in S BY <1>3, LaidOut
<1> QED BY <1>1, <1>2, <1>4

\* A request puts a sheet in the queue.
LEMMA CommitSole ==
  ASSUME SoleAssumption, CatalogueInv, SoleInv,
         NEW a \in Callers, NEW r \in registry, CommitSheet(a, r)
  PROVE  SoleStep
<1> DEFINE ask == {Task(NextJob, TRUE, "symbols", r, e.d, 0, SpotName(r.sym)) :
                     e \in {x \in ExpiriesOf(expiries, r.uid) : x.lo = 0}}
           rows == Unheld({c \in contracts : c.uid = r.uid})
<1>1. PICK first, rest, new :
        first = SetToSeq(ask) /\ rest = Chunks(NextJob, r, rows) /\ new = first \o rest
  OBVIOUS
<1>2. /\ At(a, "none") /\ tasks' = tasks \o new /\ UNCHANGED <<registry, duck, call, work>>
  BY <1>1 DEF CommitSheet
<1>3. /\ first \in Seq(TaskRows)
      /\ \A i \in DOMAIN first : first[i].state = "pending" /\ first[i].kind = "symbols"
                                 /\ first[i].uid = r.uid /\ first[i].sym = r.sym
  <2>1. IsFiniteSet(ask) BY AsksFit
  <2>2. \A t \in ask : /\ t \in TaskRows /\ t.kind = "symbols" /\ t.state = "pending"
                       /\ t.uid = r.uid /\ t.sym = r.sym
    BY AskRows
  <2> HIDE DEF ask
  <2>3. first \in Seq(TaskRows) /\ \A i \in DOMAIN first : first[i] \in ask
    BY <1>1, <2>1, <2>2, LaidOut
  <2> QED BY <2>2, <2>3
<1>4. /\ rows \in SUBSET ContractRows /\ IsFiniteSet(rows)
      /\ \A c, k \in rows : c.id = k.id => c = k
      /\ \A c \in rows : c \in contracts /\ c.uid = r.uid
  <2>1. rows \subseteq contracts /\ \A c \in rows : c.uid = r.uid BY DEF Unheld
  <2> HIDE DEF rows
  <2>2. IsFiniteSet(rows) BY <2>1, FS_Subset DEF CatalogueInv, ContractsFit
  <2> QED BY <2>1, <2>2 DEF CatalogueInv, ContractsFit
<1>5. r.uid \in Nat /\ r.sym \in Symbols BY DEF CatalogueInv, CatalogueShape, RegistryRows
<1> HIDE DEF ask, rows
<1>6. rest \in Seq(TaskRows)
  <2>1. NextJob \in Nat BY NextJobIsNew DEF CatalogueInv
  <2> QED BY <1>1, <1>4, <1>5, <2>1, ChunksFit
<1>7. \A i \in DOMAIN rest : rest[i].state = "pending" /\ rest[i].uid = r.uid /\ rest[i].sym = r.sym
                             /\ \E c \in rows : rest[i].id = c.id /\ rest[i].name = c.name
  BY <1>1, <1>4, ChunkRows
<1>8. /\ new \in Seq(TaskRows)
      /\ \A i \in DOMAIN new : \/ i \in DOMAIN first /\ new[i] = first[i]
                               \/ i - Len(first) \in DOMAIN rest /\ new[i] = rest[i - Len(first)]
  BY <1>1, <1>3, <1>6
<1>9. \A i \in DOMAIN new : new[i].state = "pending" /\ new[i].uid = r.uid /\ new[i].sym = r.sym
  BY <1>3, <1>7, <1>8
<1>10. \A i \in DOMAIN new : new[i].kind = "chunk" =>
         \E c \in contracts : c.id = new[i].id /\ c.name = new[i].name /\ c.uid = new[i].uid
  BY <1>3, <1>4, <1>7, <1>8, <1>9
<1>11. \A b \in Callers : At(b, "none") BY <1>2, OneCaller
<1> QED BY <1>2, <1>8, <1>9, <1>10, <1>11, QueueSole

\* The nightly discovery fires.
LEMMA FiringSole ==
  ASSUME SoleAssumption, CatalogueInv, SoleInv, FireContractDiscovery
  PROVE  SoleStep
<1> DEFINE due(r) == {Task(NextJob, FALSE, "symbols", r, e.d, 0, SpotName(r.sym)) :
                        e \in {x \in ExpiriesOf(expiries, r.uid) : x.lo = 0}}
           R == {x \in registry : x.active}
           all == UNION {due(r) : r \in R}
<1>1. PICK new : new = SetToSeq(all) OBVIOUS
<1>2. /\ tasks' = tasks \o new /\ UNCHANGED <<registry, duck, call, work>>
      /\ \A a \in Callers : At(a, "none")
  BY <1>1, NoFreedoms DEF FireContractDiscovery
<1>3. R \subseteq registry /\ IsFiniteSet(R) BY FS_Subset DEF CatalogueInv, CatalogueShape
<1>4. \A r \in R : /\ IsFiniteSet(due(r))
                   /\ \A t \in due(r) : /\ t \in TaskRows /\ t.kind = "symbols"
                                        /\ t.state = "pending" /\ t.uid = r.uid /\ t.sym = r.sym
  BY <1>3, AsksFit, AskRows
<1> HIDE DEF due, R
<1>5. IsFiniteSet(all)
  <2> DEFINE f == [r \in R |-> due(r)]
             sets == {f[r] : r \in R}
  <2>1. IsFiniteSet(sets)
    <3> HIDE DEF f
    <3> QED BY <1>3, ImagesFinite
  <2>2. \A T \in sets : IsFiniteSet(T) BY <1>4
  <2>3. all = UNION sets OBVIOUS
  <2> HIDE DEF sets, all
  <2> QED BY <2>1, <2>2, <2>3, FS_UNION
<1>6. \A t \in all : /\ t \in TaskRows /\ t.kind = "symbols" /\ t.state = "pending"
                     /\ \E r \in registry : r.uid = t.uid /\ r.sym = t.sym
  BY <1>3, <1>4
<1> HIDE DEF all
<1>7. new \in Seq(TaskRows) /\ \A i \in DOMAIN new : new[i] \in all
  BY <1>1, <1>5, <1>6, LaidOut
<1>8. \A i \in DOMAIN new : /\ new[i].state = "pending" /\ new[i].kind # "chunk"
                            /\ \E r \in registry : r.uid = new[i].uid /\ r.sym = new[i].sym
  BY <1>6, <1>7
<1> QED BY <1>2, <1>7, <1>8, QueueSole

\* The worker puts the chunks of a discovered chain in the queue.
LEMMA EnqueueSole ==
  ASSUME SoleAssumption, CatalogueInv, CatalogueInv', SoleInv, EnqueueCandleChunks
  PROVE  SoleStep
<1> DEFINE mine == {c \in contracts : c.uid = Leased.uid /\ c.name[2] = Leased.d}
           ids == {tasks[i].id : i \in {j \in DOMAIN tasks : tasks[j].job = Leased.job
                                                             /\ tasks[j].kind = "chunk"}}
           rows == {c \in Unheld(mine) : c.id \notin ids}
<1>1. PICK new \in {<<>>, Chunks(Leased.job, Leased, rows)} :
        WorkAt("written") /\ tasks' = tasks \o new
  <2>1. tasks \o <<>> = tasks BY DEF CatalogueInv, TasksFit
  <2> QED BY <2>1 DEF EnqueueCandleChunks
<1>2. /\ WorkAt("written") /\ Step("planned") /\ UNCHANGED <<registry, duck, call>>
      /\ tasks' = tasks \o new
  BY <1>1 DEF EnqueueCandleChunks
<1>3. /\ work.task \in DOMAIN tasks /\ Leased \in TaskRows /\ Live(work.task)
      /\ \E r \in registry : r.uid = Leased.uid /\ r.sym = Leased.sym
  <2>1. work.step # "idle" /\ work.task \in DOMAIN tasks
    BY <1>2 DEF WorkAt, CatalogueInv, CatalogueShape
  <2>2. Live(work.task) BY <2>1 DEF SoleInv, WorkFits, Live, Leased
  <2>3. Leased \in TaskRows BY <2>1, WorkMoves
  <2> QED BY <2>1, <2>2, <2>3 DEF SoleInv, LiveOwned, Leased
<1>4. /\ rows \in SUBSET ContractRows /\ IsFiniteSet(rows)
      /\ \A c, k \in rows : c.id = k.id => c = k
      /\ \A c \in rows : c \in contracts /\ c.uid = Leased.uid
  <2>1. rows \subseteq contracts /\ \A c \in rows : c.uid = Leased.uid BY DEF Unheld
  <2> HIDE DEF rows
  <2>2. IsFiniteSet(rows) BY <2>1, FS_Subset DEF CatalogueInv, ContractsFit
  <2> QED BY <2>1, <2>2 DEF CatalogueInv, ContractsFit
<1> HIDE DEF rows
<1>5. new \in Seq(TaskRows)
  <2>1. Leased.job \in Nat /\ Leased.uid \in Nat /\ Leased.sym \in Symbols
    BY <1>3 DEF TaskRows
  <2>2. Chunks(Leased.job, Leased, rows) \in Seq(TaskRows) BY <1>4, <2>1, ChunksFit
  <2>3. <<>> \in Seq(TaskRows) OBVIOUS
  <2> QED BY <1>1, <2>2, <2>3
<1>6. \A i \in DOMAIN new :
        /\ new[i].state = "pending" /\ new[i].uid = Leased.uid /\ new[i].sym = Leased.sym
        /\ \E c \in rows : new[i].id = c.id /\ new[i].name = c.name
  <2>1. CASE new = Chunks(Leased.job, Leased, rows) BY <1>4, <2>1, ChunkRows
  <2>2. CASE new = <<>> BY <2>2
  <2> QED BY <1>1, <2>1, <2>2
<1>7. \A i \in DOMAIN new :
        \E c \in contracts : c.id = new[i].id /\ c.name = new[i].name /\ c.uid = new[i].uid
  BY <1>4, <1>6
<1>8. \A i \in DOMAIN new : \E j \in DOMAIN tasks : Live(j) /\ tasks[j].uid = new[i].uid
  BY <1>3, <1>6 DEF Leased
<1>9. \A i \in DOMAIN new : new[i].state = "pending"
        /\ \E r \in registry : r.uid = new[i].uid /\ r.sym = new[i].sym
  BY <1>3, <1>6
<1>10. work.step \notin {"idle", "mirroring"} BY <1>2 DEF WorkAt
<1> QED BY <1>2, <1>5, <1>7, <1>8, <1>9, <1>10, QueueSole

\* What a discovery files of its underlying: the cards stay, their counts are refreshed.
LEMMA ChainsFiled ==
  ASSUME SoleAssumption, CatalogueInv, CatalogueInv', SoleInv,
         WorkAt("ready"), NEW s \in {"written", "planned"}, Step(s),
         NEW uid, NEW sym, uid = Leased.uid, sym = Leased.sym,
         UNCHANGED <<registry, tasks, call>>, mirror' = Rollup(expiries', mirror, uid),
         \A e \in expiries' : e.n = Cardinality(ChainAt(contracts', e)),
         \A e : e.uid # uid => (e \in expiries' <=> e \in expiries),
         \A c : (Chain(c) /\ c.uid = uid) \/ (c \in contracts' <=> c \in contracts),
         \A c \in contracts' : Chain(c) /\ c.uid = uid => c.name[1] = sym
  PROVE  /\ TablesFit' /\ LiveOwned' /\ (\A a \in Callers : RequestFits(a)')
         /\ MirrorsFit' /\ WorkFits' /\ Cards' = Cards /\ LiveChunks' = LiveChunks
<1>1. /\ TablesFit /\ KeysApart /\ mirror \subseteq MirrorRows
      /\ work.step = "ready" /\ work.task \in DOMAIN tasks
      /\ work'.step = s /\ work'.task = work.task
  <2>1. work.step = "ready" /\ work.task \in DOMAIN tasks
    BY DEF WorkAt, CatalogueInv, CatalogueShape
  <2>2. work' \in Works /\ work'.step # "idle" /\ work'.task = work.task BY <2>1, WorkMoves
  <2>3. work' = [work EXCEPT !.step = s] BY DEF Step
  <2>4. work'.step = s
    <3>1. work \in Works BY DEF CatalogueInv, CatalogueShape
    <3> QED BY <2>3, <3>1 DEF Works
  <2> QED BY <2>1, <2>2, <2>4 DEF SoleInv, TablesFit
<1>2. /\ Leased.state = "leased" /\ Leased.kind # "chunk" /\ Live(work.task)
      /\ \E m \in Cards : m.uid = uid
  BY <1>1 DEF SoleInv, WorkFits, Live, Leased
<1>3. PICK r \in registry : r.uid = uid /\ r.sym = sym
  BY <1>1, <1>2 DEF SoleInv, LiveOwned, Leased
<1>4. Leased' = Leased BY <1>1 DEF Leased
<1>5. IdsInBlock' BY NoFreedoms DEF CatalogueInv, ContractsFit
<1>6. PICK rows, C : rows = expiries' /\ C = contracts' OBVIOUS
<1>7. CountsFit(rows, C)
  <2>1. IsFiniteSet(rows) /\ IsFiniteSet(C) BY <1>6 DEF CatalogueInv, BlocksFit, ContractsFit
  <2>2. \A e, f \in rows : e.uid = f.uid /\ e.d = f.d => e = f BY <1>6 DEF CatalogueInv, BlocksFit
  <2>3. \A e \in rows : e.d # 0
    BY <1>6, CatalogueAssumption DEF CatalogueInv, BlocksFit, ExpiryRows
  <2>4. \A c \in C : c.name[2] # 0 => \E e \in rows : e.uid = c.uid /\ e.d = c.name[2]
    BY <1>5, <1>6 DEF IdsInBlock
  <2> QED BY <1>6, <2>1, <2>2, <2>3, <2>4 DEF CountsFit
<1>8. /\ Cardinality(ExpiriesOf(rows, uid)) \in Nat /\ Counted(ExpiriesOf(rows, uid)) \in Nat
      /\ Counted(ExpiriesOf(rows, uid)) = Cardinality(ChainsOf(C, uid))
  BY <1>7, CardCounts
<1>9. /\ mirror' \subseteq MirrorRows /\ Cards' = Cards
      /\ \A x, y \in mirror' : x.uid = y.uid => x = y
      /\ \A m \in mirror' : IF m.uid = uid
           THEN /\ m.expiries = Cardinality(ExpiriesOf(rows, uid))
                /\ m.contracts = Counted(ExpiriesOf(rows, uid))
           ELSE m \in mirror
  BY <1>1, <1>6, <1>8, RollupCards
<1>10. KeysApart' BY <1>1, <1>9 DEF KeysApart, Alike, Same
<1>11. \A c : c \in contracts' \ Chains' <=> c \in contracts \ Chains BY DEF Chains, Chain
<1>12. SpotsListed'
  <2>1. contracts' \ Chains' = contracts \ Chains BY <1>11
  <2> QED BY <1>1, <1>9, <2>1 DEF TablesFit, SpotsListed, SpotRows
<1>13. RollupsMatch'
  <2>1. ASSUME NEW m \in mirror'
        PROVE  /\ m.expiries = Cardinality(ExpiriesOf(rows, m.uid))
               /\ m.contracts = Cardinality(ChainsOf(C, m.uid))
    <3>1. CASE m.uid = uid BY <1>8, <1>9, <3>1
    <3>2. CASE m.uid # uid
      <4>1. m \in mirror BY <1>9, <3>2
      <4>2. ExpiriesOf(rows, m.uid) = ExpiriesOf(expiries, m.uid)
        BY <1>6, <3>2 DEF ExpiriesOf
      <4>3. ChainsOf(C, m.uid) = ChainsOf(contracts, m.uid) BY <1>6, <3>2 DEF ChainsOf, Chain
      <4>4. /\ m.expiries = Cardinality(ExpiriesOf(expiries, m.uid))
            /\ m.contracts = Cardinality(ChainsOf(contracts, m.uid))
        BY <1>1, <4>1 DEF TablesFit, RollupsMatch, ChainsOf
      <4> QED BY <4>2, <4>3, <4>4
    <3> QED BY <3>1, <3>2
  <2> QED BY <1>6, <2>1 DEF RollupsMatch, ChainAt, ChainsOf
<1>14. RowsHaveOwners'
  <2>1. ASSUME NEW e \in expiries' PROVE \E q \in registry : q.uid = e.uid
    BY <1>1, <1>3 DEF TablesFit, RowsHaveOwners
  <2>2. ASSUME NEW c \in contracts', c.name[2] # 0
        PROVE  \E q \in registry : q.uid = c.uid /\ q.sym = c.name[1]
    <3>1. CASE c.uid = uid BY <1>3, <2>2, <3>1 DEF Chain
    <3>2. CASE c.uid # uid BY <1>1, <2>2, <3>2 DEF TablesFit, RowsHaveOwners
    <3> QED BY <3>1, <3>2
  <2> QED BY <2>1, <2>2 DEF RowsHaveOwners
<1>15. TablesFit' BY <1>9, <1>10, <1>12, <1>13, <1>14 DEF TablesFit
<1>16. LiveOwned' BY DEF SoleInv, LiveOwned, Live
<1>17. LiveChunks' = LiveChunks BY DEF LiveChunks, Live
<1>18. \A u : u # uid /\ Unfiled(u) => Unfiled(u)'
  BY <1>9 DEF Unfiled
<1>19. ~Unfiled(uid) BY <1>2 DEF Unfiled
<1>20. ASSUME NEW a \in Callers PROVE RequestFits(a)'
  <2>1. RequestFits(a) BY DEF SoleInv
  <2>2. PICK q : q = call[a].row OBVIOUS
  <2>3. Unheard(q) => (Unheard(q))' BY <1>9 DEF Unheard
  <2>4. Quiet(q) => (Quiet(q))' BY DEF Quiet, Live
  <2>5. PICK u : u = q.uid OBVIOUS
  <2>6. Unfiled(u) => Unfiled(u)' BY <1>18, <1>19
  <2>7. call'[a] = call[a] /\ call'[a].row = q /\ call[a].row = q BY <2>2
  <2>8. At(a, "mirror") => Unheard(q) BY <2>1, <2>7 DEF RequestFits
  <2>9. At(a, "declare") \/ At(a, "undo") => Unheard(q) /\ q \in Cards
    BY <2>1, <2>7 DEF RequestFits
  <2>10. At(a, "remirror") => q \in registry /\ \E m \in Cards : Same(m, q)
    BY <2>1, <2>7 DEF RequestFits
  <2>11. At(a, "unlist") => Quiet(q) /\ call[a].purge = TRUE BY <2>1, <2>7 DEF RequestFits
  <2>12. At(a, "undeclare") => Quiet(q) /\ Unfiled(u) BY <2>1, <2>5, <2>7 DEF RequestFits
  <2>13. \A o : At(a, o)' <=> At(a, o) BY DEF At
  <2> QED BY <1>9, <2>3, <2>4, <2>5, <2>6, <2>7, <2>8, <2>9, <2>10, <2>11, <2>12, <2>13
          DEF RequestFits, Same
<1>21. MirrorsFit'
  <2> SUFFICES ASSUME NEW q \in registry
               PROVE  \/ \E a \in Callers : At(a, "remirror") /\ call[a].row = q
                      \/ q \in Cards \/ Unfiled(q.uid)'
    BY <1>9 DEF MirrorsFit, At
  <2>1. PICK u : u = q.uid OBVIOUS
  <2>2. Unfiled(u) => Unfiled(u)' BY <1>18, <1>19
  <2> QED BY <2>1, <2>2 DEF SoleInv, MirrorsFit
<1>22. WorkFits' BY <1>1, <1>2, <1>4, <1>9 DEF WorkFits
<1> QED BY <1>9, <1>15, <1>16, <1>17, <1>20, <1>21, <1>22

\* What a live chunk carries.
LEMMA LiveChunkRows ==
  ASSUME CatalogueInv PROVE \A t \in LiveChunks : t.id \in Nat /\ t.uid \in Nat
<1> SUFFICES ASSUME NEW t \in LiveChunks PROVE t.id \in Nat /\ t.uid \in Nat OBVIOUS
<1>1. PICK j \in DOMAIN tasks :
        t = [id |-> tasks[j].id, name |-> tasks[j].name, uid |-> tasks[j].uid]
  BY DEF LiveChunks
<1>2. tasks[j] \in TaskRows BY DEF CatalogueInv, TasksFit
<1> QED BY <1>1, <1>2 DEF TaskRows

\* Days filed leave every contract and every bar where it is.
LEMMA DatesSole ==
  ASSUME SoleAssumption, CatalogueInv, CatalogueInv', SoleInv, HandleExpiryDates
  PROVE  SoleStep
<1>1. PICK uid, sym : uid = Leased.uid /\ sym = Leased.sym OBVIOUS
<1>2. PICK days \in SUBSET Dates : ExpiryBatchWrite(uid, days)
  BY <1>1 DEF HandleExpiryDates
<1>3. WorkAt("ready") /\ Step("planned") /\ UNCHANGED <<registry, tasks, call>>
  BY DEF HandleExpiryDates
<1> DEFINE known == {e.d : e \in ExpiriesOf(expiries, uid)}
           fresh == {[uid |-> uid, d |-> d, lo |-> 0, hi |-> 0, n |-> 0] : d \in days \ known}
<1>4. /\ expiries' = expiries \cup fresh /\ mirror' = Rollup(expiries', mirror, uid)
      /\ UNCHANGED <<contracts, taken, bars>>
  BY <1>2 DEF ExpiryBatchWrite
<1>5. \A e \in fresh : /\ e.uid = uid /\ e.lo = 0 /\ e.hi = 0 /\ e.n = 0
                       /\ \A x \in expiries : ~(x.uid = uid /\ x.d = e.d)
                       /\ e.d \in Dates
  BY DEF ExpiriesOf
<1> HIDE DEF fresh, known
<1>6. TablesFit /\ OutFits /\ ContractsFit /\ IdsInBlock
  BY NoFreedoms DEF SoleInv, CatalogueInv, ContractsFit
<1>7. ASSUME NEW e \in expiries' PROVE e.n = Cardinality(ChainAt(contracts', e))
  <2>1. CASE e \in expiries BY <1>4, <1>6, <2>1 DEF TablesFit, RollupsMatch, ChainAt
  <2>2. CASE e \in fresh
    <3>1. e.d # 0 BY <1>5, <2>2, CatalogueAssumption
    <3>2. ChainAt(contracts', e) = {} BY <1>4, <1>5, <1>6, <2>2, <3>1 DEF ChainAt, IdsInBlock
    <3> QED BY <1>5, <2>2, <3>2, FS_EmptySet
  <2> QED BY <1>4, <2>1, <2>2
<1>8. PICK r \in registry : r.uid = uid /\ r.sym = sym
  <2>1. work.step = "ready" /\ work.task \in DOMAIN tasks
    BY <1>3 DEF WorkAt, CatalogueInv, CatalogueShape
  <2>2. Live(work.task) BY <2>1 DEF SoleInv, WorkFits, Live, Leased
  <2> QED BY <1>1, <2>1, <2>2 DEF SoleInv, LiveOwned, Leased
<1>9. \A c \in contracts' : Chain(c) /\ c.uid = uid => c.name[1] = sym
  BY <1>4, <1>6, <1>8 DEF TablesFit, RowsHaveOwners, KeysApart, Alike, Chain
<1>10. \A e : e.uid # uid => (e \in expiries' <=> e \in expiries) BY <1>4, <1>5
<1>11. /\ TablesFit' /\ LiveOwned' /\ (\A a \in Callers : RequestFits(a)')
       /\ MirrorsFit' /\ WorkFits' /\ Cards' = Cards /\ LiveChunks' = LiveChunks
  BY <1>1, <1>3, <1>4, <1>7, <1>9, <1>10, ChainsFiled
<1>12. Chains' = Chains BY <1>4 DEF Chains, Chain
<1>13. ASSUME NEW id \in Nat, NEW name, Fits(id, name) PROVE Fits(id, name)'
  <2>1. CASE id <= SpotMax BY <1>3, <1>11, <1>13, <2>1 DEF Fits, SpotName
  <2>2. CASE ~(id <= SpotMax)
    <3>1. Passed(id) => Passed(id)'
      <4>1. SpotMax \in Nat BY UnitsFollow
      <4>2. \A e \in fresh : ~(e.lo <= id /\ id <= e.hi) BY <1>5, <2>2, <4>1
      <4> QED BY <1>4, <4>2 DEF Passed, BaseForUnit, FirstBlock
    <3> QED BY <1>12, <1>13, <2>2, <3>1 DEF Fits
  <2> QED BY <2>1, <2>2
<1>14. \A id, u : Owned(id, u) => Owned(id, u)' BY <1>11, <1>12 DEF Owned
<1>15. OutFits'
  <2>1. \A b \in bars' : b \in BarRows /\ Fits(b.id, b.name)'
    BY <1>4, <1>6, <1>13 DEF OutFits, BarRows
  <2>2. \A t \in LiveChunks' : t.id # 0 /\ Fits(t.id, t.name)' /\ Owned(t.id, t.uid)'
    BY <1>6, <1>11, <1>13, <1>14, LiveChunkRows DEF OutFits
  <2> QED BY <2>1, <2>2 DEF OutFits, BarRows
<1>16. BarsStep BY <1>4, <1>6, BarsStay
<1> QED BY <1>11, <1>15, <1>16 DEF SoleStep, SoleInv

\* The unit that ends where a later one begins.
LEMMA UnitBefore ==
  ASSUME NEW v \in Nat, v > 1
  PROVE  UnitForBase(BaseForUnit(v) - 1) + 1 = v
<1>0. BlockSize \in Nat \ {0} /\ SpotMax \in Nat BY UnitsFollow
<1>1. PICK t \in Nat : v = t + 2
  <2>1. v - 2 \in Nat /\ v = (v - 2) + 2 OBVIOUS
  <2> QED BY <2>1
<1>2. (t + 1) * BlockSize = t * BlockSize + BlockSize /\ t * BlockSize \in Nat BY <1>0
<1>3. PICK p \in Nat : p = t * BlockSize BY <1>2
<1>4. BaseForUnit(v) = FirstBlock + (p + BlockSize)
  <2>1. v - 1 = t + 1 BY <1>1
  <2> QED BY <1>2, <1>3, <2>1 DEF BaseForUnit
<1>5. BaseForUnit(v) - 1 - FirstBlock = p + (BlockSize - 1)
  BY <1>0, <1>4 DEF FirstBlock
<1>6. (p + (BlockSize - 1)) \div BlockSize = t
  <2>1. PICK q, r : q = (p + (BlockSize - 1)) \div BlockSize /\ r = (p + (BlockSize - 1)) % BlockSize
    OBVIOUS
  <2>2. /\ q \in Nat /\ r \in 0 .. BlockSize - 1
        /\ p + (BlockSize - 1) = BlockSize * q + r
    BY <1>0, <2>1
  <2>3. CASE q < t
    <3>1. PICK w \in Nat : t = q + 1 + w
      <4>1. t - q - 1 \in Nat /\ t = q + 1 + (t - q - 1) BY <2>2, <2>3
      <4> QED BY <4>1
    <3>2. (q + 1 + w) * BlockSize = BlockSize * q + BlockSize + w * BlockSize
          /\ w * BlockSize \in Nat /\ BlockSize * q \in Nat
      BY <1>0, <2>2
    <3> QED BY <1>0, <1>3, <2>2, <3>1, <3>2
  <2>4. CASE q > t
    <3>1. PICK w \in Nat : q = t + 1 + w
      <4>1. q - t - 1 \in Nat /\ q = t + 1 + (q - t - 1) BY <2>2, <2>4
      <4> QED BY <4>1
    <3>2. BlockSize * (t + 1 + w) = t * BlockSize + BlockSize + w * BlockSize
          /\ w * BlockSize \in Nat
      BY <1>0
    <3> QED BY <1>0, <1>3, <2>2, <3>1, <3>2
  <2> QED BY <2>1, <2>2, <2>3, <2>4
<1>7. UnitForBase(BaseForUnit(v) - 1) = 1 + t BY <1>5, <1>6 DEF UnitForBase
<1> QED BY <1>1, <1>7

\* An expiry keeps its block, or gets one past every block and past the sequence, which
\* moves up to its end.
LEMMA BlockKeptOrNew ==
  ASSUME BlocksFit, taken \in Nat, NEW uid \in Nat, NEW d \in Dates, NEW count \in Nat
  PROVE  LET old == OldRow(uid, d)
             block == Block(old, count)
         IN  IF block.lo = old.lo
               THEN old \in expiries /\ block.lo = old.lo /\ block.hi = old.hi
               ELSE /\ \A e \in expiries : e.lo # 0 => e.hi < block.lo
                    /\ BaseForUnit(taken + 1) <= block.lo
                    /\ BaseForUnit(UnitForBase(block.hi) + 1) = block.hi + 1
<1> DEFINE old == OldRow(uid, d)
           size == BlockSizeFor(count)
           block == Block(old, count)
<1>0. /\ old \in ExpiryRows /\ old.uid = uid /\ old.d = d /\ (old.lo # 0 => old \in expiries)
  BY OldRowFits
<1>1. size \in Nat BY RoomFor
<1>2. PICK k \in Nat \ {0} : size = k * BlockSize BY RoomFor
<1>3. SpotMax \in Nat BY UnitsFollow
<1> HIDE DEF old
<1>4. CASE old.lo # 0 /\ old.hi - old.lo + 1 >= size
  <2>1. block = [lo |-> old.lo, hi |-> old.hi] BY <1>4 DEF Block
  <2> HIDE DEF block, size
  <2> QED BY <1>0, <1>4, <2>1 DEF block, old
<1>5. CASE ~(old.lo # 0 /\ old.hi - old.lo + 1 >= size)
  <2>1. block = ReserveBlock(size)
    <3> HIDE DEF size
    <3> QED BY <1>5 DEF Block, size
  <2> DEFINE b == ReserveBlock(size)
  <2>2. /\ b.lo \in Nat /\ b.hi \in Nat /\ b.lo > SpotMax /\ BaseForUnit(taken + 1) <= b.lo
        /\ \E u \in Nat \ {0} : b.lo = BaseForUnit(u) /\ b.hi = BaseForUnit(u + k) - 1
        /\ \A e \in expiries : e.lo # 0 => e.hi < b.lo
    <3> HIDE DEF size
    <3> QED BY <1>1, <1>2, ReservedBeyond
  <2>3. BaseForUnit(UnitForBase(b.hi) + 1) = b.hi + 1
    <3>1. PICK u \in Nat \ {0} : b.hi = BaseForUnit(u + k) - 1 BY <2>2
    <3>2. PICK v \in Nat : v = u + k /\ v > 1 OBVIOUS
    <3>3. UnitForBase(BaseForUnit(v) - 1) + 1 = v BY <3>2, UnitBefore
    <3>4. v \in Nat \ {0} BY <3>2
    <3>5. BaseForUnit(v) \in Nat BY <3>4, UnitsFollow
    <3> HIDE DEF b
    <3> QED BY <3>1, <3>2, <3>3, <3>5
  <2> HIDE DEF b, block, size
  <2>4. block = b BY <2>1 DEF b
  <2>5. block.lo # old.lo
    <3>1. old.lo \in Nat /\ old.hi \in Nat BY <1>0 DEF ExpiryRows
    <3>2. old.lo # 0 => old.lo <= old.hi /\ old.hi < b.lo
      BY <1>0, <2>2 DEF BlocksFit, BlocksDisjoint
    <3> QED BY <1>3, <2>2, <2>4, <3>1, <3>2
  <2> QED BY <2>2, <2>3, <2>4, <2>5 DEF block, old
<1> QED BY <1>4, <1>5

\* A contract asked for keeps the identifier it has in the block.
LEMMA AssignKeeps ==
  ASSUME NEW block, NEW batch, NEW existing,
         \A c, k \in existing : c.name = k.name => c = k,
         NEW c \in existing, c.name \in batch, c.id \in block.lo .. block.hi
  PROVE  Assign(block, batch, existing)[c.name] = c.id
<1> DEFINE kept == {x \in existing : x.name \in batch /\ x.id \in block.lo .. block.hi}
           new == batch \ {x.name : x \in kept}
           free == block.lo .. block.hi \ {x.id : x \in kept}
           at(n) == CHOOSE i \in free : Cardinality({j \in free : j < i})
                                          = Cardinality({m \in new : m[3] < n[3]})
           of(n) == (CHOOSE x \in kept : x.name = n).id
<1>1. Assign(block, batch, existing) = [n \in batch |-> IF n \in new THEN at(n) ELSE of(n)]
  BY DEF Assign
<1>2. c \in kept /\ c.name \notin new OBVIOUS
<1>3. \A x \in kept : x.name = c.name => x = c OBVIOUS
<1> HIDE DEF kept, new, at
<1>4. of(c.name) = c.id BY <1>2, <1>3
<1> HIDE DEF of
<1> QED BY <1>1, <1>2, <1>4

Filed(uid, n, id) == [id |-> id, uid |-> uid, name |-> n]
Rest(uid, d) == contracts \ Existing(uid, d)
\* Where a bar goes when the contracts of an expiry are numbered anew.
Goes(uid, d, ids, x, b) ==
  \/ b = x /\ \A c \in Existing(uid, d) : c.id # x.id
  \/ \E c \in Existing(uid, d) : c.id = x.id /\ b = [id |-> ids[c.name], name |-> x.name]

\* The contracts of an expiry make way for those of the batch, which are numbered in its
\* block; their bars move along.
ChainFiled(uid, d, batch, lo, hi, ids) ==
  /\ \A n \in batch : ids[n] \in lo .. hi
  /\ \A n, m \in batch : ids[n] = ids[m] => n = m
  /\ \A c \in Existing(uid, d) : c.name \in batch
  /\ \A c \in Rest(uid, d) : ~(lo <= c.id /\ c.id <= hi) /\ c.name \notin batch
  /\ \A c \in contracts' : c \in Rest(uid, d) \/ \E n \in batch : c = Filed(uid, n, ids[n])
  /\ \A c \in Rest(uid, d) : c \in contracts'
  /\ \A n \in batch : Filed(uid, n, ids[n]) \in contracts'
  /\ \A b \in bars' : \E x \in bars : Goes(uid, d, ids, x, b)
  /\ \A x \in bars : \E b \in bars' : Goes(uid, d, ids, x, b)
\* The block is the one the expiry had, and no contract moves, or one past every block, and
\* every contract does.
BlockFiled(uid, d, lo, hi, ids) ==
  /\ lo \in Nat /\ hi \in Nat /\ lo > SpotMax /\ lo <= hi
  /\ \A e \in Others(uid, d) : e \in expiries' /\ (e.lo # 0 => e.hi < lo \/ hi < e.lo)
  /\ \A e \in expiries' :
       \/ e \in Others(uid, d)
       \/ /\ e.uid = uid /\ e.d = d /\ e.lo = lo /\ e.hi = hi
          /\ e.n = Cardinality(ChainAt(contracts', e))
  /\ \/ /\ taken' = taken /\ \E e \in expiries : e.lo = lo /\ e.hi = hi
        /\ \A c \in Existing(uid, d) : ids[c.name] = c.id
     \/ /\ \A e \in expiries : e.lo # 0 => e.hi < lo
        /\ BaseForUnit(taken + 1) <= lo /\ BaseForUnit(taken' + 1) = hi + 1
        /\ \A c \in Existing(uid, d) : \E e \in expiries :
             e.uid = uid /\ e.d = d /\ e.lo # 0 /\ e.lo <= c.id /\ c.id <= e.hi

\* What a batch does to the identifiers of its chain.
LEMMA Renumbers ==
  ASSUME SoleAssumption, CatalogueInv, TablesFit, OutFits,
         NEW uid \in Nat, NEW sym \in Symbols, NEW d \in Dates, NEW strikes \in Responses,
         {c.name : c \in Existing(uid, d)} \subseteq Batch(sym, d, strikes),
         ContractBatchWrite(uid, d, Batch(sym, d, strikes)),
         NEW r \in registry, r.uid = uid, r.sym = sym
  PROVE  \E lo, hi, ids : /\ ChainFiled(uid, d, Batch(sym, d, strikes), lo, hi, ids)
                          /\ BlockFiled(uid, d, lo, hi, ids)
<1> DEFINE batch == Batch(sym, d, strikes)
           old == OldRow(uid, d)
           block == Block(old, Cardinality(batch))
           ids == Assign(block, batch, Existing(uid, d))
           moved == {c \in Existing(uid, d) : c.name \in batch /\ ids[c.name] # c.id}
           held == {ids[n] : n \in batch}
           stay == {c \in contracts : c.id \notin held /\ c.name \notin batch}
           filed == {[id |-> ids[n], uid |-> uid, name |-> n] : n \in batch}
           there == {c \in contracts' : c.uid = uid /\ c.name[2] = d}
           entry == [old EXCEPT !.lo = block.lo, !.hi = block.hi, !.n = Cardinality(there)]
<1>1. /\ contracts' = stay \cup filed /\ bars' = Remap(bars, moved, ids)
      /\ expiries' = (expiries \ OnRecord(uid, d)) \cup {entry}
      /\ taken' = IF block.lo = old.lo THEN taken ELSE UnitForBase(block.hi)
  BY DEF ContractBatchWrite, OnRecord, Existing, OldRow
<1>2. /\ IsFiniteSet(batch) /\ Cardinality(batch) \in Nat
      /\ \A n \in batch : n[2] = d /\ n[3] \in Nat
      /\ \A n, m \in batch : n[3] = m[3] => n = m
  BY BatchFits
<1>3. \A n \in batch : n[1] = sym BY DEF Batch
<1>4. /\ old \in ExpiryRows /\ old.uid = uid /\ old.d = d
      /\ \A e \in OnRecord(uid, d) : e = old
      /\ expiries \ OnRecord(uid, d) = Others(uid, d)
  BY OldRowFits DEF CatalogueInv
<1>5. /\ block.lo \in Nat /\ block.hi \in Nat /\ block.lo > SpotMax /\ block.lo <= block.hi
      /\ Cardinality(batch) <= block.hi - block.lo + 1
      /\ \A e \in Others(uid, d) : e.lo # 0 => e.hi < block.lo \/ block.hi < e.lo
  <2> HIDE DEF batch
  <2> QED BY <1>2, BlockFits DEF CatalogueInv, CatalogueShape
<1>6. IF block.lo = old.lo
        THEN old \in expiries /\ block.lo = old.lo /\ block.hi = old.hi
        ELSE /\ \A e \in expiries : e.lo # 0 => e.hi < block.lo
             /\ BaseForUnit(taken + 1) <= block.lo
             /\ BaseForUnit(UnitForBase(block.hi) + 1) = block.hi + 1
  <2> HIDE DEF batch
  <2> QED BY <1>2, BlockKeptOrNew DEF CatalogueInv, CatalogueShape
<1>7. SpotMax \in Nat /\ d \in Nat /\ d # 0 BY CatalogueAssumption
<1>8. IdsInBlock /\ ContractsFit /\ BlocksFit BY NoFreedoms DEF CatalogueInv, ContractsFit
<1>9. /\ IsFiniteSet(Existing(uid, d))
      /\ \A c \in Existing(uid, d) : c \in contracts /\ Chain(c) /\ c.id \in Nat
      /\ \A c, k \in Existing(uid, d) : c.id = k.id \/ c.name = k.name => c = k
      /\ \A c \in Existing(uid, d) : c.uid = uid /\ c.name[2] = d
  <2>1. Existing(uid, d) \subseteq contracts BY DEF Existing
  <2>2. \A c \in Existing(uid, d) : Chain(c) /\ c.uid = uid /\ c.name[2] = d
    BY <1>7 DEF Existing, Chain
  <2>3. IsFiniteSet(Existing(uid, d)) BY <1>8, <2>1, FS_Subset DEF ContractsFit
  <2> QED BY <1>8, <2>1, <2>2, <2>3 DEF ContractsFit, ContractRows, OneEach
<1>10. \A c \in Existing(uid, d) : c.name \in batch OBVIOUS
<1>11. \A c \in contracts : Chain(c) => \E e \in expiries :
         /\ e.uid = c.uid /\ e.d = c.name[2] /\ e.lo # 0 /\ e.lo <= c.id /\ c.id <= e.hi
         /\ e.lo \in Nat /\ e.hi \in Nat /\ c.id \in Nat
  <2> SUFFICES ASSUME NEW c \in contracts, Chain(c)
               PROVE  \E e \in expiries :
                        /\ e.uid = c.uid /\ e.d = c.name[2] /\ e.lo # 0 /\ e.lo <= c.id
                        /\ c.id <= e.hi /\ e.lo \in Nat /\ e.hi \in Nat /\ c.id \in Nat
    OBVIOUS
  <2>1. PICK e \in expiries : e.uid = c.uid /\ e.d = c.name[2] /\ c.id \in e.lo .. e.hi
    BY <1>8 DEF IdsInBlock, Chain
  <2>2. e.lo \in Nat /\ e.hi \in Nat /\ c.id \in Nat /\ c.id > SpotMax
    BY <1>8 DEF BlocksFit, ExpiryRows, ContractsFit, ContractRows
  <2>3. e.lo = 0 => e.hi = 0 BY <1>8 DEF BlocksFit
  <2> QED BY <1>7, <2>1, <2>2, <2>3
<1> HIDE DEF batch, old, block
<1>12. /\ \A n \in batch : ids[n] \in block.lo .. block.hi
       /\ \A n, m \in batch : ids[n] = ids[m] => n = m
  BY <1>2, <1>5, <1>9, AssignFits
<1>13. \A c \in Existing(uid, d) : c.id \in block.lo .. block.hi => ids[c.name] = c.id
  BY <1>9, <1>10, AssignKeeps
<1> HIDE DEF ids
<1>14. ASSUME NEW c \in Rest(uid, d)
       PROVE  ~(block.lo <= c.id /\ c.id <= block.hi) /\ c.name \notin batch
  <2>0. c \in contracts /\ ~(c.uid = uid /\ c.name[2] = d) BY DEF Rest, Existing
  <2>1. CASE Chain(c)
    <3>1. PICK e \in expiries :
            /\ e.uid = c.uid /\ e.d = c.name[2] /\ e.lo # 0 /\ e.lo <= c.id /\ c.id <= e.hi
            /\ e.lo \in Nat /\ e.hi \in Nat /\ c.id \in Nat
      BY <1>11, <2>0, <2>1
    <3>2. e \in Others(uid, d) BY <2>0, <3>1 DEF Others
    <3>3. e.hi < block.lo \/ block.hi < e.lo BY <1>5, <3>1, <3>2
    <3>4. ~(block.lo <= c.id /\ c.id <= block.hi) BY <1>5, <3>1, <3>3
    <3>5. PICK q \in registry : q.uid = c.uid /\ q.sym = c.name[1]
      BY <2>0, <2>1 DEF TablesFit, RowsHaveOwners, Chain
    <3>6. q.sym = sym => c.uid = uid BY <3>5 DEF TablesFit, KeysApart, Alike
    <3>7. c.name \notin batch BY <1>2, <1>3, <2>0, <3>5, <3>6
    <3> QED BY <3>4, <3>7
  <2>2. CASE ~Chain(c)
    <3>1. c.id <= SpotMax /\ c.id \in Nat BY <1>8, <2>0, <2>2 DEF ContractsFit, ContractRows
    <3>2. c.name \notin batch BY <1>2, <1>7, <2>2 DEF Chain
    <3> QED BY <1>5, <1>7, <3>1, <3>2
  <2> QED BY <2>1, <2>2
<1>15. \A c : c \in stay <=> c \in Rest(uid, d)
  <2>1. ASSUME NEW c \in stay PROVE c \in Rest(uid, d) BY <1>10 DEF Rest
  <2>2. ASSUME NEW c \in Rest(uid, d) PROVE c \in stay
    <3>1. c \in contracts BY DEF Rest
    <3>2. c.id \notin held BY <1>5, <1>12, <1>14
    <3> QED BY <1>14, <3>1, <3>2
  <2> QED BY <2>1, <2>2
<1>16. /\ \A c \in filed : \E n \in batch : c = Filed(uid, n, ids[n])
       /\ \A n \in batch : Filed(uid, n, ids[n]) \in filed
  BY DEF Filed
<1>17. \A c \in Existing(uid, d) : c \in moved \/ ids[c.name] = c.id BY <1>10
<1>18. \A c \in moved : c \in Existing(uid, d) OBVIOUS
<1> DEFINE to(x) == IF \E c \in moved : c.id = x.id
                      THEN [x EXCEPT !.id = ids[(CHOOSE c \in moved : c.id = x.id).name]]
                      ELSE x
<1>19. bars' = {to(x) : x \in bars} BY <1>1 DEF Remap
<1> HIDE DEF moved
<1>20. \A x \in bars : Goes(uid, d, ids, x, to(x))
  <2> SUFFICES ASSUME NEW x \in bars PROVE Goes(uid, d, ids, x, to(x)) OBVIOUS
  <2>0. x \in BarRows BY DEF OutFits
  <2>1. CASE \E c \in moved : c.id = x.id
    <3>1. PICK c \in moved : c = CHOOSE k \in moved : k.id = x.id
      BY <2>1
    <3>2. c.id = x.id BY <2>1, <3>1
    <3>3. to(x) = [x EXCEPT !.id = ids[c.name]] BY <2>1, <3>1
    <3>4. to(x) = [id |-> ids[c.name], name |-> x.name] BY <2>0, <3>3 DEF BarRows
    <3> HIDE DEF to
    <3> QED BY <1>18, <3>2, <3>4 DEF Goes
  <2>2. CASE (\A c \in moved : c.id # x.id) /\ \E c \in Existing(uid, d) : c.id = x.id
    <3>1. PICK c \in Existing(uid, d) : c.id = x.id BY <2>2
    <3>2. ids[c.name] = x.id BY <1>17, <2>2, <3>1
    <3>3. to(x) = x BY <2>2
    <3>4. x = [id |-> ids[c.name], name |-> x.name] BY <2>0, <3>2 DEF BarRows
    <3> HIDE DEF to
    <3> QED BY <3>1, <3>3, <3>4 DEF Goes
  <2>3. CASE \A c \in Existing(uid, d) : c.id # x.id
    <3>1. to(x) = x BY <1>18, <2>3
    <3> HIDE DEF to
    <3> QED BY <2>3, <3>1 DEF Goes
  <2> QED BY <2>1, <2>2, <2>3
<1>21. /\ entry.uid = uid /\ entry.d = d /\ entry.lo = block.lo /\ entry.hi = block.hi
       /\ entry.n = Cardinality(there) /\ there = ChainAt(contracts', entry)
  <2> HIDE DEF there
  <2>1. /\ entry.uid = uid /\ entry.d = d /\ entry.lo = block.lo /\ entry.hi = block.hi
        /\ entry.n = Cardinality(there)
    BY <1>4 DEF ExpiryRows
  <2> HIDE DEF entry
  <2> QED BY <2>1 DEF there, ChainAt
<1> HIDE DEF to, stay, filed, entry, there, held
<1>22. ChainFiled(uid, d, batch, block.lo, block.hi, ids)
  <2>1. \A c \in contracts' : c \in Rest(uid, d) \/ \E n \in batch : c = Filed(uid, n, ids[n])
    BY <1>1, <1>15, <1>16
  <2>2. \A c \in Rest(uid, d) : c \in contracts' BY <1>1, <1>15
  <2>3. \A n \in batch : Filed(uid, n, ids[n]) \in contracts' BY <1>1, <1>16
  <2>4. \A b \in bars' : \E x \in bars : Goes(uid, d, ids, x, b) BY <1>19, <1>20
  <2>5. \A x \in bars : \E b \in bars' : Goes(uid, d, ids, x, b) BY <1>19, <1>20
  <2> QED BY <1>10, <1>12, <1>14, <2>1, <2>2, <2>3, <2>4, <2>5 DEF ChainFiled
<1>23. BlockFiled(uid, d, block.lo, block.hi, ids)
  <2>1. \A e \in Others(uid, d) : e \in expiries' BY <1>1, <1>4
  <2>2. \A e \in expiries' :
          \/ e \in Others(uid, d)
          \/ /\ e.uid = uid /\ e.d = d /\ e.lo = block.lo /\ e.hi = block.hi
             /\ e.n = Cardinality(ChainAt(contracts', e))
    BY <1>1, <1>4, <1>21
  <2>3. ASSUME NEW c \in Existing(uid, d)
        PROVE  \E e \in expiries : /\ e.uid = uid /\ e.d = d /\ e.lo # 0 /\ e.lo <= c.id
                                   /\ c.id <= e.hi /\ e = old /\ e.lo \in Nat /\ e.hi \in Nat
                                   /\ c.id \in Nat
    <3>1. PICK e \in expiries :
            /\ e.uid = c.uid /\ e.d = c.name[2] /\ e.lo # 0 /\ e.lo <= c.id /\ c.id <= e.hi
            /\ e.lo \in Nat /\ e.hi \in Nat /\ c.id \in Nat
      BY <1>9, <1>11
    <3>2. e \in OnRecord(uid, d) BY <1>9, <3>1 DEF OnRecord
    <3> QED BY <1>4, <1>9, <3>1, <3>2
  <2>4. CASE block.lo = old.lo
    <3>1. \A c \in Existing(uid, d) : c.id \in block.lo .. block.hi BY <1>6, <2>3, <2>4
    <3>2. \A c \in Existing(uid, d) : ids[c.name] = c.id BY <1>13, <3>1
    <3>3. taken' = taken /\ \E e \in expiries : e.lo = block.lo /\ e.hi = block.hi
      BY <1>1, <1>6, <2>4
    <3> QED BY <1>5, <2>1, <2>2, <3>2, <3>3 DEF BlockFiled
  <2>5. CASE block.lo # old.lo
    <3>1. /\ \A e \in expiries : e.lo # 0 => e.hi < block.lo
          /\ BaseForUnit(taken + 1) <= block.lo
      BY <1>6, <2>5
    <3>2. BaseForUnit(taken' + 1) = block.hi + 1 BY <1>1, <1>6, <2>5
    <3>3. \A c \in Existing(uid, d) : \E e \in expiries :
            e.uid = uid /\ e.d = d /\ e.lo # 0 /\ e.lo <= c.id /\ c.id <= e.hi
      BY <2>3
    <3> QED BY <1>5, <2>1, <2>2, <3>1, <3>2, <3>3 DEF BlockFiled
  <2> QED BY <2>4, <2>5
<1> QED BY <1>22, <1>23 DEF batch

\* The identifiers a renumbering leaves alone, those it gives and those it leaves behind.
LEMMA FitMoves ==
  ASSUME CatalogueInv, CatalogueInv', IdsInBlock, TablesFit, UNCHANGED registry, Cards' = Cards,
         NEW uid \in Nat, NEW d \in Dates, NEW batch, \A n \in batch : n[2] = d,
         NEW lo, NEW hi, NEW ids,
         ChainFiled(uid, d, batch, lo, hi, ids), BlockFiled(uid, d, lo, hi, ids)
  PROVE  /\ \A id \in Nat : \A name : Fits(id, name) => Fits(id, name)'
         /\ \A c \in Existing(uid, d) : \A name : Fits(c.id, name) => Fits(ids[c.name], name)'
         /\ \A id \in Nat : \A name, u : Fits(id, name) /\ Owned(id, u) => Owned(id, u)'
<1>1. SpotMax \in Nat /\ d \in Nat /\ d # 0 BY CatalogueAssumption
<1>2. lo \in Nat /\ hi \in Nat /\ lo > SpotMax /\ lo <= hi BY DEF BlockFiled
<1>3. \A n \in batch : ids[n] \in Nat /\ lo <= ids[n] /\ ids[n] <= hi /\ ids[n] > SpotMax
  BY <1>1, <1>2 DEF ChainFiled
<1>4. \A e \in expiries : e.lo \in Nat /\ e.hi \in Nat BY DEF CatalogueInv, BlocksFit, ExpiryRows
<1>5. \A c \in Chains : c.id \in Nat /\ c.id > SpotMax
  BY DEF CatalogueInv, ContractsFit, ContractRows, Chains
<1>6. \A c \in Existing(uid, d) : c \in Chains /\ c.uid = uid /\ c.name[2] = d /\ c.name \in batch
  BY <1>1 DEF Existing, Chains, Chain, ChainFiled
<1>7. \A c \in Chains : c \in Existing(uid, d) \/ c \in Rest(uid, d) BY DEF Chains, Rest
<1>8. \A k \in Chains' : (k \in Chains /\ k \in Rest(uid, d))
                         \/ \E n \in batch : k = Filed(uid, n, ids[n])
  BY DEF ChainFiled, Chains, Chain, Rest
<1>9. \A c \in Chains : c \in Rest(uid, d) => c \in Chains' BY DEF ChainFiled, Chains, Chain
<1>10. \A n \in batch : /\ Filed(uid, n, ids[n]) \in Chains' /\ Filed(uid, n, ids[n]).id = ids[n]
                        /\ Filed(uid, n, ids[n]).name = n /\ Filed(uid, n, ids[n]).uid = uid
  BY <1>1 DEF ChainFiled, Chains, Chain, Filed
<1>11. \A c \in Rest(uid, d) : ~(lo <= c.id /\ c.id <= hi) /\ c.name \notin batch
  BY DEF ChainFiled
<1>12. \A n, m \in batch : ids[n] = ids[m] => n = m BY DEF ChainFiled
<1>13. \A c, k \in Chains : c.id = k.id => c = k
  BY DEF CatalogueInv, ContractsFit, OneEach, Chains
<1>14. \A e \in Others(uid, d) : /\ e \in expiries /\ ~(e.uid = uid /\ e.d = d)
                                 /\ e.lo # 0 => e.hi < lo \/ hi < e.lo
  <2>1. \A e \in Others(uid, d) : e.lo # 0 => e.hi < lo \/ hi < e.lo BY DEF BlockFiled
  <2>2. \A e \in Others(uid, d) : e \in expiries /\ ~(e.uid = uid /\ e.d = d) BY DEF Others
  <2> QED BY <2>1, <2>2
<1>15. \A e \in expiries' : e \in Others(uid, d) \/ (e.lo = lo /\ e.hi = hi) BY DEF BlockFiled
<1>16. BaseForUnit(taken + 1) \in Nat /\ BaseForUnit(taken' + 1) \in Nat
  <2>1. taken \in Nat BY DEF CatalogueInv, CatalogueShape
  <2>2. CatalogueShape' BY DEF CatalogueInv
  <2>3. taken' \in Nat BY <2>2 DEF CatalogueShape
  <2>4. \A t \in Nat : t + 1 \in Nat \ {0} OBVIOUS
  <2>5. \A t \in Nat : BaseForUnit(t + 1) \in Nat BY <2>4, UnitsFollow
  <2> QED BY <2>1, <2>3, <2>5
<1>17. \/ /\ taken' = taken /\ \E e \in expiries : e.lo = lo /\ e.hi = hi
          /\ \A c \in Existing(uid, d) : ids[c.name] = c.id
       \/ /\ \A e \in expiries : e.lo # 0 => e.hi < lo
          /\ BaseForUnit(taken + 1) <= lo /\ BaseForUnit(taken' + 1) = hi + 1
          /\ \A c \in Existing(uid, d) : \E e \in expiries :
               e.uid = uid /\ e.d = d /\ e.lo # 0 /\ e.lo <= c.id /\ c.id <= e.hi
  BY DEF BlockFiled
<1>18. \A id : Passed(id)' <=> /\ id < BaseForUnit(taken' + 1)
                               /\ \A e \in expiries' : ~(e.lo <= id /\ id <= e.hi)
  BY DEF Passed, BaseForUnit, FirstBlock
<1>19. ASSUME NEW id \in Nat, NEW name, Fits(id, name), ~(id <= SpotMax),
              \A c \in Existing(uid, d) : c.id # id
       PROVE  ~(lo <= id /\ id <= hi)
  <2>1. CASE \E c \in Chains : c.id = id BY <1>7, <1>11, <1>19, <2>1
  <2>2. CASE \A c \in Chains : c.id # id
    <3>1. Passed(id) BY <1>19, <2>2 DEF Fits
    <3>2. id < BaseForUnit(taken + 1) /\ \A e \in expiries : ~(e.lo <= id /\ id <= e.hi)
      BY <3>1 DEF Passed
    <3>3. CASE \E e \in expiries : e.lo = lo /\ e.hi = hi BY <3>2, <3>3
    <3>4. CASE BaseForUnit(taken + 1) <= lo BY <1>2, <1>16, <3>2, <3>4
    <3> QED BY <1>17, <3>3, <3>4
  <2> QED BY <2>1, <2>2
<1>20. ASSUME NEW id \in Nat, NEW name, Fits(id, name), \A c \in Existing(uid, d) : c.id # id
       PROVE  Fits(id, name)'
  <2>1. CASE id <= SpotMax BY <1>20, <2>1 DEF Fits, SpotName
  <2>2. CASE ~(id <= SpotMax)
    <3>1. ~(lo <= id /\ id <= hi) BY <1>19, <1>20, <2>2
    <3>2. \A k \in Chains' : k.id = id => k \in Chains BY <1>3, <1>8, <1>10, <3>1
    <3>3. \A k \in Chains' : k.id = id => k.name = name BY <1>20, <2>2, <3>2 DEF Fits
    <3>4. ASSUME \A k \in Chains' : k.id # id PROVE Passed(id)'
      <4>1. \A c \in Chains : c.id # id BY <1>7, <1>9, <1>20, <3>4
      <4>2. Passed(id) BY <1>20, <2>2, <4>1 DEF Fits
      <4>3. id < BaseForUnit(taken + 1) /\ \A e \in expiries : ~(e.lo <= id /\ id <= e.hi)
        BY <4>2 DEF Passed
      <4>4. \A e \in expiries' : ~(e.lo <= id /\ id <= e.hi)
        BY <1>14, <1>15, <3>1, <4>3
      <4>5. id < BaseForUnit(taken' + 1)
        <5>1. CASE taken' = taken BY <4>3, <5>1
        <5>2. CASE BaseForUnit(taken + 1) <= lo /\ BaseForUnit(taken' + 1) = hi + 1
          BY <1>2, <1>16, <4>3, <5>2
        <5> QED BY <1>17, <5>1, <5>2
      <4> QED BY <1>18, <4>4, <4>5
    <3> QED BY <2>2, <3>3, <3>4 DEF Fits
  <2> QED BY <2>1, <2>2
<1>21. ASSUME NEW c \in Existing(uid, d), NEW name, Fits(c.id, name)
       PROVE  name = c.name /\ Fits(ids[c.name], name)'
  <2>1. name = c.name
    <3>1. ~(c.id <= SpotMax) BY <1>1, <1>5, <1>6
    <3> QED BY <1>6, <1>21, <3>1 DEF Fits
  <2>2. PICK i \in Nat : i = ids[c.name] /\ lo <= i /\ i <= hi /\ ~(i <= SpotMax)
    BY <1>1, <1>3, <1>6
  <2>3. \A k \in Chains' : k.id = i => k.name = name
    BY <1>6, <1>8, <1>10, <1>11, <1>12, <2>1, <2>2
  <2>4. \E k \in Chains' : k.id = i BY <1>6, <1>10, <2>2
  <2>5. Fits(i, name)' BY <2>2, <2>3, <2>4 DEF Fits
  <2> QED BY <2>1, <2>2, <2>5
<1>22. ASSUME NEW c \in Existing(uid, d), NEW name, Fits(c.id, name) PROVE Fits(c.id, name)'
  <2>1. CASE ids[c.name] = c.id BY <1>21, <1>22, <2>1
  <2>2. CASE /\ \A e \in expiries : e.lo # 0 => e.hi < lo
             /\ BaseForUnit(taken' + 1) = hi + 1
             /\ \E e \in expiries :
                  e.uid = uid /\ e.d = d /\ e.lo # 0 /\ e.lo <= c.id /\ c.id <= e.hi
    <3>1. PICK e \in expiries :
            e.uid = uid /\ e.d = d /\ e.lo # 0 /\ e.lo <= c.id /\ c.id <= e.hi
      BY <2>2
    <3>2. PICK id \in Nat : id = c.id /\ ~(id <= SpotMax) BY <1>1, <1>5, <1>6
    <3>3. id < lo BY <1>2, <1>4, <2>2, <3>1, <3>2
    <3>4. \A k \in Chains' : k.id # id
      <4> SUFFICES ASSUME NEW k \in Chains', k.id = id PROVE FALSE OBVIOUS
      <4>1. CASE k \in Chains /\ k \in Rest(uid, d)
        <5>1. k = c BY <1>6, <1>13, <3>2, <4>1
        <5> QED BY <4>1, <5>1 DEF Rest
      <4>2. CASE \E n \in batch : k = Filed(uid, n, ids[n])
        BY <1>2, <1>3, <1>10, <3>2, <3>3, <4>2
      <4> QED BY <1>8, <4>1, <4>2
    <3>5. \A f \in expiries' : ~(f.lo <= id /\ id <= f.hi)
      <4> SUFFICES ASSUME NEW f \in expiries', f.lo <= id, id <= f.hi PROVE FALSE OBVIOUS
      <4>1. f \in Others(uid, d) BY <1>2, <1>15, <3>2, <3>3
      <4>2. f \in expiries /\ f # e BY <1>14, <3>1, <4>1
      <4>3. f.lo # 0
        <5>1. f.lo = 0 => f.hi = 0 BY <4>2 DEF CatalogueInv, BlocksFit
        <5> QED BY <1>1, <3>2, <5>1
      <4>4. e.hi < f.lo \/ f.hi < e.lo
        BY <3>1, <4>2, <4>3 DEF CatalogueInv, BlocksFit, BlocksDisjoint
      <4> QED BY <1>4, <3>1, <3>2, <4>2, <4>4
    <3>6. Passed(id)' BY <1>2, <1>18, <2>2, <3>2, <3>3, <3>5
    <3>7. Fits(id, name)' BY <3>2, <3>4, <3>6 DEF Fits
    <3> QED BY <3>2, <3>7
  <2> QED BY <1>17, <2>1, <2>2
<1>23. ASSUME NEW id \in Nat, NEW name, NEW u, Fits(id, name), Owned(id, u) PROVE Owned(id, u)'
  <2>1. ASSUME NEW k \in Chains', k.id = id PROVE k.uid = u
    <3>1. CASE k \in Chains BY <1>23, <2>1, <3>1 DEF Owned
    <3>2. CASE \E n \in batch : k = Filed(uid, n, ids[n])
      <4>1. k.uid = uid /\ lo <= id /\ id <= hi /\ ~(id <= SpotMax)
        BY <1>1, <1>3, <1>10, <2>1, <3>2
      <4>2. PICK c \in Existing(uid, d) : c.id = id BY <1>19, <1>23, <4>1
      <4>3. c.uid = u BY <1>6, <1>23, <4>2 DEF Owned
      <4> QED BY <1>6, <4>1, <4>3
    <3> QED BY <1>8, <3>1, <3>2
  <2> QED BY <1>23, <2>1 DEF Owned
<1>24. ASSUME NEW id \in Nat, NEW name, Fits(id, name) PROVE Fits(id, name)'
  <2>1. CASE \A c \in Existing(uid, d) : c.id # id BY <1>20, <1>24, <2>1
  <2>2. CASE \E c \in Existing(uid, d) : c.id = id BY <1>22, <1>24, <2>2
  <2> QED BY <2>1, <2>2
<1> QED BY <1>21, <1>23, <1>24

\* A chain filed: its bars go where its contracts go, and what is out is still told apart.
LEMMA SymbolsSole ==
  ASSUME SoleAssumption, CatalogueInv, CatalogueInv', SoleInv, HandleUnderlyingSymbols
  PROVE  SoleStep
<1>1. WorkAt("ready") /\ Leased.kind = "symbols" /\ Step("written") /\ UNCHANGED <<registry, tasks, call>>
  BY DEF HandleUnderlyingSymbols
<1>2. /\ work.step = "ready" /\ work.task \in DOMAIN tasks
      /\ Leased \in TaskRows /\ Leased.d \in Dates
  <2>1. work.step = "ready" BY <1>1 DEF WorkAt
  <2>2. work.step # "idle" BY <2>1
  <2> QED BY <1>1, <2>1, <2>2, WorkMoves
<1>3. PICK uid \in Nat, sym \in Symbols, d \in Dates :
        uid = Leased.uid /\ sym = Leased.sym /\ d = Leased.d
  BY <1>2 DEF TaskRows
<1>4. PICK strikes \in Responses :
        /\ {c.name : c \in Existing(uid, d)} \subseteq Batch(sym, d, strikes)
        /\ ContractBatchWrite(uid, d, Batch(sym, d, strikes))
  BY <1>3, NoFreedoms DEF HandleUnderlyingSymbols, Existing, Batch
<1>5. PICK r \in registry : r.uid = uid /\ r.sym = sym
  <2>1. Live(work.task) BY <1>2 DEF SoleInv, WorkFits, Live, Leased
  <2> QED BY <1>2, <1>3, <2>1 DEF SoleInv, LiveOwned, Leased
<1>6. PICK batch : batch = Batch(sym, d, strikes) OBVIOUS
<1>7. PICK lo, hi, ids : ChainFiled(uid, d, batch, lo, hi, ids) /\ BlockFiled(uid, d, lo, hi, ids)
  BY <1>4, <1>5, <1>6, Renumbers DEF SoleInv
<1>8. \A n \in batch : n[2] = d /\ n[1] = sym BY <1>6 DEF Batch
<1>9. TablesFit /\ OutFits /\ IdsInBlock /\ ContractsFit /\ ContractsFit'
  BY NoFreedoms DEF SoleInv, CatalogueInv, ContractsFit
<1>10. mirror' = Rollup(expiries', mirror, uid) BY <1>4 DEF ContractBatchWrite
<1>11. d \in Nat /\ d # 0 BY CatalogueAssumption
<1>12. /\ \A c \in Rest(uid, d) : c \in contracts /\ c \in contracts' /\ ~(c.uid = uid /\ c.name[2] = d)
                                 /\ c.name \notin batch
       /\ \A c \in contracts' : c \in Rest(uid, d) \/ \E n \in batch : c = Filed(uid, n, ids[n])
       /\ \A c \in contracts : c \in Rest(uid, d) \/ c \in Existing(uid, d)
       /\ \A c \in Existing(uid, d) : /\ c \in contracts /\ c.uid = uid /\ c.name[2] = d
                                      /\ c.name \in batch
  BY <1>7 DEF ChainFiled, Rest, Existing
<1>13. \A n \in batch : /\ Filed(uid, n, ids[n]).id = ids[n] /\ Filed(uid, n, ids[n]).name = n
                        /\ Filed(uid, n, ids[n]).uid = uid
  BY DEF Filed
<1>14. /\ \A e \in Others(uid, d) : e \in expiries /\ e \in expiries' /\ ~(e.uid = uid /\ e.d = d)
       /\ \A e \in expiries : e \in Others(uid, d) \/ e.uid = uid
       /\ \A e \in expiries' :
            \/ e \in Others(uid, d)
            \/ e.uid = uid /\ e.n = Cardinality(ChainAt(contracts', e))
  <2>1. /\ \A e \in Others(uid, d) : e \in expiries'
        /\ \A e \in expiries' :
             \/ e \in Others(uid, d)
             \/ e.uid = uid /\ e.n = Cardinality(ChainAt(contracts', e))
    BY <1>7 DEF BlockFiled
  <2> QED BY <2>1 DEF Others
<1>15. ASSUME NEW e \in expiries' PROVE e.n = Cardinality(ChainAt(contracts', e))
  <2>1. CASE e \in Others(uid, d)
    <3>1. \A c : c \in ChainAt(contracts', e) <=> c \in ChainAt(contracts, e)
      BY <1>8, <1>12, <1>13, <1>14, <2>1 DEF ChainAt
    <3>2. ChainAt(contracts', e) = ChainAt(contracts, e) BY <3>1
    <3>3. e.n = Cardinality(ChainAt(contracts, e))
      BY <1>9, <1>14, <2>1 DEF TablesFit, RollupsMatch, ChainAt
    <3> QED BY <3>2, <3>3
  <2> QED BY <1>14, <2>1
<1>16. \A e : e.uid # uid => (e \in expiries' <=> e \in expiries) BY <1>14
<1>17. \A c : (Chain(c) /\ c.uid = uid) \/ (c \in contracts' <=> c \in contracts)
  BY <1>8, <1>11, <1>12, <1>13 DEF Chain
<1>18. ASSUME NEW c \in contracts', Chain(c), c.uid = uid PROVE c.name[1] = sym
  <2>1. CASE c \in Rest(uid, d)
    <3>1. PICK q \in registry : q.uid = c.uid /\ q.sym = c.name[1]
      BY <1>9, <1>12, <1>18, <2>1 DEF TablesFit, RowsHaveOwners, Chain
    <3> QED BY <1>5, <1>9, <1>18, <3>1 DEF TablesFit, KeysApart, Alike
  <2> QED BY <1>8, <1>12, <1>13, <2>1
<1>19. /\ TablesFit' /\ LiveOwned' /\ (\A a \in Callers : RequestFits(a)')
       /\ MirrorsFit' /\ WorkFits' /\ Cards' = Cards /\ LiveChunks' = LiveChunks
  BY <1>1, <1>3, <1>10, <1>15, <1>16, <1>17, <1>18, ChainsFiled
<1>20. /\ \A id \in Nat : \A name : Fits(id, name) => Fits(id, name)'
       /\ \A c \in Existing(uid, d) : \A name : Fits(c.id, name) => Fits(ids[c.name], name)'
       /\ \A id \in Nat : \A name, u : Fits(id, name) /\ Owned(id, u) => Owned(id, u)'
  BY <1>1, <1>7, <1>8, <1>9, <1>19, FitMoves
<1>21. OutFits'
  <2>1. ASSUME NEW b \in bars' PROVE b \in BarRows /\ Fits(b.id, b.name)'
    <3>1. PICK x \in bars : Goes(uid, d, ids, x, b) BY <1>7 DEF ChainFiled
    <3>2. x \in BarRows /\ Fits(x.id, x.name) BY <1>9 DEF OutFits
    <3>3. CASE b = x BY <1>20, <3>2, <3>3 DEF BarRows
    <3>4. CASE \E c \in Existing(uid, d) : c.id = x.id /\ b = [id |-> ids[c.name], name |-> x.name]
      <4>1. PICK c \in Existing(uid, d) : c.id = x.id /\ b = [id |-> ids[c.name], name |-> x.name]
        BY <3>4
      <4>2. Fits(ids[c.name], x.name)' BY <1>20, <3>2, <4>1
      <4>3. ids[c.name] \in Nat \ {0}
        <5>1. lo \in Nat /\ hi \in Nat /\ lo > SpotMax BY <1>7 DEF BlockFiled
        <5>2. ids[c.name] \in lo .. hi BY <1>12, <1>7 DEF ChainFiled
        <5> QED BY <5>1, <5>2, UnitsFollow
      <4>4. b.id = ids[c.name] /\ b.name = x.name BY <4>1
      <4> QED BY <3>2, <4>1, <4>2, <4>3, <4>4 DEF BarRows
    <3> QED BY <3>1, <3>3, <3>4 DEF Goes
  <2>2. ASSUME NEW t \in LiveChunks' PROVE t.id # 0 /\ Fits(t.id, t.name)' /\ Owned(t.id, t.uid)'
    <3>1. t \in LiveChunks /\ t.id \in Nat BY <1>19, LiveChunkRows
    <3>2. t.id # 0 /\ Fits(t.id, t.name) /\ Owned(t.id, t.uid) BY <1>9, <3>1 DEF OutFits
    <3> QED BY <1>20, <3>1, <3>2
  <2> QED BY <2>1, <2>2 DEF OutFits, BarRows
<1>22. BarsStep
  <2> SUFFICES ASSUME NEW c \in contracts, NEW k \in contracts', c.name = k.name,
                      [id |-> c.id, name |-> c.name] \in bars
               PROVE  [id |-> k.id, name |-> k.name] \in bars'
    BY DEF BarsStep
  <2>1. PICK x \in bars : x = [id |-> c.id, name |-> c.name] OBVIOUS
  <2>2. PICK b \in bars' : Goes(uid, d, ids, x, b) BY <1>7 DEF ChainFiled
  <2>3. x.id = c.id /\ x.name = c.name BY <2>1
  <2>4. \A e \in Existing(uid, d) : e.id = x.id => e = c
    BY <1>9, <1>12, <2>3, ContractsApart
  <2>5. CASE c \in Existing(uid, d)
    <3>1. b = [id |-> ids[c.name], name |-> x.name] BY <2>2, <2>3, <2>4, <2>5 DEF Goes
    <3>2. k = Filed(uid, c.name, ids[c.name]) BY <1>12, <1>13, <2>5
    <3>3. k.id = ids[c.name] BY <1>12, <1>13, <2>5, <3>2
    <3> QED BY <2>3, <3>1, <3>3
  <2>6. CASE c \in Rest(uid, d)
    <3>1. c \notin Existing(uid, d) BY <2>6 DEF Rest
    <3>2. b = x BY <2>2, <2>4, <3>1 DEF Goes
    <3>3. k \in Rest(uid, d) BY <1>12, <1>13, <2>6
    <3>4. k = c BY <1>9, <1>12, <2>6, <3>3, ContractsApart
    <3> QED BY <2>1, <3>2, <3>4
  <2> QED BY <1>12, <2>5, <2>6
<1> QED BY <1>19, <1>21, <1>22 DEF SoleStep, SoleInv

\* Where the program starts.
LEMMA SoleStarts == ASSUME Init, CatalogueInv PROVE SoleInv
<1>1. PICK uids \in [Registered -> 1 .. Cardinality(Registered)], filed \in BOOLEAN :
        StartWith(uids, filed)
  BY DEF Init
<1> DEFINE d1 == Min(Dates)
           rows == {Row(uids[s], s, uids[s], TRUE) : s \in Registered}
           M == IF filed THEN rows ELSE {}
           lo(r, d) == IF d = d1 THEN BaseForUnit(r.uid) ELSE 0
           day(r, d) == [uid |-> r.uid, d |-> d, lo |-> lo(r, d),
                         hi |-> IF d = d1 THEN lo(r, d) + BlockSize - 1 ELSE 0,
                         n |-> IF d = d1 THEN 1 ELSE 0]
           spot(r) == [id |-> r.spot, uid |-> r.uid, name |-> SpotName(r.sym)]
           one(r) == [id |-> lo(r, d1), uid |-> r.uid, name |-> <<r.sym, d1, Min(Strikes)>>]
           card(r) == [uid |-> r.uid, sym |-> r.sym, spot |-> r.spot, active |-> TRUE,
                       expiries |-> Cardinality(Dates), contracts |-> 1]
<1>2. /\ registry = rows /\ IsInjective(uids)
      /\ mirror = {card(r) : r \in M}
      /\ contracts = {spot(r) : r \in M} \cup {one(r) : r \in M}
      /\ expiries = {day(r, d) : r \in M, d \in Dates}
      /\ bars = {} /\ tasks = <<>>
      /\ call = [a \in Callers |-> Resting] /\ work = [step |-> "idle"]
  BY <1>1 DEF StartWith
<1>3. d1 \in Dates /\ Dates \subseteq Nat \ {0} /\ IsFiniteSet(Dates) /\ Cardinality(Dates) \in Nat
  <2>1. Dates \in SUBSET Nat /\ Dates # {} /\ Dates \subseteq Nat \ {0} /\ IsFiniteSet(Dates)
    BY CatalogueAssumption
  <2> QED BY <2>1, MinIsLeast, FS_CardinalityType
<1>4. \A r \in rows : \E s \in Registered :
        r = [uid |-> uids[s], sym |-> s, spot |-> uids[s], active |-> TRUE]
  BY DEF Row
<1>5. \A r \in rows : r \in RegistryRows /\ r.active = TRUE /\ r.spot = r.uid
  <2>1. registry \subseteq RegistryRows BY DEF CatalogueInv, CatalogueShape
  <2> SUFFICES ASSUME NEW r \in rows PROVE r \in RegistryRows /\ r.active = TRUE /\ r.spot = r.uid
    OBVIOUS
  <2>2. r \in RegistryRows BY <1>2, <2>1
  <2>3. PICK s \in Registered :
          r = [uid |-> uids[s], sym |-> s, spot |-> uids[s], active |-> TRUE]
    BY <1>4
  <2> QED BY <2>2, <2>3
<1>6. \A r, q \in rows : Alike(r, q) => r = q
  <2> SUFFICES ASSUME NEW r \in rows, NEW q \in rows, Alike(r, q) PROVE r = q OBVIOUS
  <2>1. PICK s \in Registered :
          r = [uid |-> uids[s], sym |-> s, spot |-> uids[s], active |-> TRUE]
    BY <1>4
  <2>2. PICK t \in Registered :
          q = [uid |-> uids[t], sym |-> t, spot |-> uids[t], active |-> TRUE]
    BY <1>4
  <2>3. uids[s] = uids[t] \/ s = t BY <2>1, <2>2 DEF Alike
  <2>4. s = t BY <1>2, <2>3 DEF IsInjective
  <2> QED BY <2>1, <2>2, <2>4
<1>7. M \subseteq rows /\ (M = rows \/ M = {}) OBVIOUS
<1>8. \A r : /\ spot(r).uid = r.uid /\ spot(r).name[2] = 0
             /\ one(r).uid = r.uid /\ one(r).name[2] = d1 /\ one(r).name[1] = r.sym
  BY DEF SpotName
<1>9. \A r \in M : \A d \in Dates :
        day(r, d).uid = r.uid /\ day(r, d).d = d /\ day(r, d).n = IF d = d1 THEN 1 ELSE 0
  OBVIOUS
<1>10. \A r \in rows : /\ card(r) \in MirrorRows /\ Row(card(r).uid, card(r).sym, card(r).spot, card(r).active) = r
                       /\ card(r).uid = r.uid /\ card(r).expiries = Cardinality(Dates)
                       /\ card(r).contracts = 1
  BY <1>3, <1>5 DEF MirrorRows, RegistryRows, Row
<1>11. /\ \A m \in mirror : \E r \in M : m = card(r)
       /\ \A r \in M : card(r) \in mirror
       /\ \A c \in contracts : \E r \in M : c = spot(r) \/ c = one(r)
       /\ \A r \in M : spot(r) \in contracts /\ one(r) \in contracts
       /\ \A e \in expiries : \E r \in M, d \in Dates : e = day(r, d)
       /\ \A r \in M : \A d \in Dates : day(r, d) \in expiries
  <2> HIDE DEF M, d1, lo, day, spot, one, card
  <2>1. \A m \in mirror : \E r \in M : m = card(r) BY <1>2
  <2>2. \A r \in M : card(r) \in mirror BY <1>2
  <2>3. \A c \in contracts : \E r \in M : c = spot(r) \/ c = one(r) BY <1>2
  <2>4. \A r \in M : spot(r) \in contracts /\ one(r) \in contracts BY <1>2
  <2>5. \A e \in expiries : \E r \in M, d \in Dates : e = day(r, d) BY <1>2
  <2>6. \A r \in M : \A d \in Dates : day(r, d) \in expiries BY <1>2
  <2> QED BY <2>1, <2>2, <2>3, <2>4, <2>5, <2>6
<1>12. SpotRows(M) = {spot(r) : r \in M} BY DEF SpotRows
<1> HIDE DEF rows, M, d1, day, spot, one, card
<1>13. Cards = M
  <2>1. \A x \in Cards : x \in M
    <3> SUFFICES ASSUME NEW x \in Cards PROVE x \in M OBVIOUS
    <3>1. PICK m \in mirror : x = Row(m.uid, m.sym, m.spot, m.active) BY DEF Cards
    <3>2. PICK r \in M : m = card(r) BY <1>11
    <3> QED BY <1>7, <1>10, <3>1, <3>2
  <2>2. \A r \in M : r \in Cards
    <3> SUFFICES ASSUME NEW r \in M PROVE r \in Cards OBVIOUS
    <3>1. PICK m \in mirror : m = card(r) BY <1>11
    <3>2. r = Row(m.uid, m.sym, m.spot, m.active) BY <1>7, <1>10, <3>1
    <3> QED BY <3>2 DEF Cards
  <2> QED BY <2>1, <2>2
<1>14. KeysApart
  <2>1. \A x, y \in mirror : x.uid = y.uid => x = y
    <3> SUFFICES ASSUME NEW x \in mirror, NEW y \in mirror, x.uid = y.uid PROVE x = y OBVIOUS
    <3>1. PICK r \in M : x = card(r) BY <1>11
    <3>2. PICK q \in M : y = card(q) BY <1>11
    <3>3. r = q BY <1>6, <1>7, <1>10, <3>1, <3>2 DEF Alike
    <3> QED BY <3>1, <3>2, <3>3
  <2> QED BY <1>2, <1>6, <1>7, <1>13, <2>1 DEF KeysApart, Same
<1>15. \A c : c \in Chains <=> \E r \in M : c = one(r)
  <2>1. d1 # 0 BY <1>3
  <2> QED BY <1>8, <1>11, <2>1 DEF Chains, Chain
<1>16. SpotsListed
  <2>1. \A c \in contracts : c \notin Chains => \E r \in M : c = spot(r) BY <1>11, <1>15
  <2>2. \A r \in M : spot(r) \in contracts /\ spot(r) \notin Chains
    BY <1>8, <1>11 DEF Chains, Chain
  <2>3. contracts \ Chains = {spot(r) : r \in M} BY <2>1, <2>2
  <2> QED BY <1>12, <1>13, <2>3 DEF SpotsListed
<1>17. \A r \in M : {c \in contracts : c.uid = r.uid /\ c.name[2] # 0} = {one(r)}
  <2> SUFFICES ASSUME NEW r \in M
               PROVE  {c \in contracts : c.uid = r.uid /\ c.name[2] # 0} = {one(r)}
    OBVIOUS
  <2>1. one(r) \in contracts /\ one(r).uid = r.uid /\ one(r).name[2] # 0
    BY <1>3, <1>8, <1>11
  <2>2. ASSUME NEW c \in contracts, c.uid = r.uid, c.name[2] # 0 PROVE c = one(r)
    <3>1. PICK q \in M : c = one(q) BY <1>15, <2>2 DEF Chains, Chain
    <3>2. q = r BY <1>6, <1>7, <1>8, <2>2, <3>1 DEF Alike
    <3> QED BY <3>1, <3>2
  <2> QED BY <2>1, <2>2
<1>18. RollupsMatch
  <2>1. ASSUME NEW e \in expiries
        PROVE  e.n = Cardinality({c \in contracts : c.uid = e.uid /\ c.name[2] = e.d})
    <3>1. PICK r \in M, d \in Dates : e = day(r, d) BY <1>11
    <3>2. e.uid = r.uid /\ e.d = d /\ d # 0 /\ e.n = IF d = d1 THEN 1 ELSE 0
      BY <1>3, <1>9, <3>1
    <3>3. CASE d = d1
      <4>1. {c \in contracts : c.uid = e.uid /\ c.name[2] = e.d} = {one(r)}
        BY <1>8, <1>17, <3>2, <3>3
      <4> QED BY <3>2, <3>3, <4>1, FS_Singleton
    <3>4. CASE d # d1
      <4>1. {c \in contracts : c.uid = e.uid /\ c.name[2] = e.d} = {}
        <5> SUFFICES ASSUME NEW c \in contracts, c.uid = e.uid, c.name[2] = e.d PROVE FALSE
          OBVIOUS
        <5>1. PICK q \in M : c = spot(q) \/ c = one(q) BY <1>11
        <5>2. c.name[2] = 0 \/ c.name[2] = d1 BY <1>8, <5>1
        <5> QED BY <3>2, <3>4, <5>2
      <4> QED BY <3>2, <3>4, <4>1, FS_EmptySet
    <3> QED BY <3>3, <3>4
  <2>2. ASSUME NEW m \in mirror
        PROVE  /\ m.expiries = Cardinality(ExpiriesOf(expiries, m.uid))
               /\ m.contracts = Cardinality({c \in contracts : c.uid = m.uid /\ c.name[2] # 0})
    <3>1. PICK r \in M : m = card(r) BY <1>11
    <3>2. m.uid = r.uid /\ m.expiries = Cardinality(Dates) /\ m.contracts = 1
      BY <1>7, <1>10, <3>1
    <3>3. Cardinality(ExpiriesOf(expiries, r.uid)) = Cardinality(Dates)
      <4> DEFINE f == [d \in Dates |-> day(r, d)]
                 T == ExpiriesOf(expiries, r.uid)
      <4>1. \A d \in Dates : f[d] = day(r, d) OBVIOUS
      <4>2. \A d \in Dates : f[d] \in T BY <1>9, <1>11, <4>1 DEF ExpiriesOf
      <4>3. \A e \in T : \E d \in Dates : f[d] = e
        <5> SUFFICES ASSUME NEW e \in T PROVE \E d \in Dates : f[d] = e OBVIOUS
        <5>1. e \in expiries /\ e.uid = r.uid BY DEF ExpiriesOf
        <5>2. PICK q \in M, d \in Dates : e = day(q, d) BY <1>11, <5>1
        <5>3. q = r BY <1>6, <1>7, <1>9, <5>1, <5>2 DEF Alike
        <5> QED BY <4>1, <5>2, <5>3
      <4>4. \A d, k \in Dates : f[d] = f[k] => d = k BY <1>9, <4>1
      <4>5. f \in [Dates -> T] BY <4>2
      <4> HIDE DEF f, T
      <4>6. f \in Surjection(Dates, T) BY <4>3, <4>5 DEF Surjection
      <4>7. f \in Injection(Dates, T) BY <4>4, <4>5 DEF Injection, IsInjective
      <4>8. Cardinality(T) = Cardinality(Dates) BY <1>3, <4>6, <4>7, FS_Surjection
      <4> QED BY <4>8 DEF T
    <3>4. Cardinality({one(r)}) = 1 BY FS_Singleton
    <3> QED BY <1>17, <3>2, <3>3, <3>4
  <2> QED BY <2>1, <2>2 DEF RollupsMatch
<1>19. RowsHaveOwners
  <2>1. \A r \in M : r \in registry BY <1>2, <1>7
  <2>2. ASSUME NEW e \in expiries PROVE \E r \in registry : r.uid = e.uid
    <3>1. PICK r \in M, d \in Dates : e = day(r, d) BY <1>11
    <3> QED BY <1>9, <2>1, <3>1
  <2>3. ASSUME NEW c \in contracts, c.name[2] # 0
        PROVE  \E r \in registry : r.uid = c.uid /\ r.sym = c.name[1]
    <3>1. PICK r \in M : c = spot(r) \/ c = one(r) BY <1>11
    <3>2. c = one(r) BY <1>8, <2>3, <3>1
    <3> QED BY <1>8, <2>1, <3>2
  <2> QED BY <2>2, <2>3 DEF RowsHaveOwners
<1>20. TablesFit
  <2>1. mirror \subseteq MirrorRows BY <1>7, <1>10, <1>11
  <2> QED BY <1>14, <1>16, <1>18, <1>19, <2>1 DEF TablesFit
<1>21. MirrorsFit
  <2>1. CASE M = rows BY <1>2, <1>13, <2>1 DEF MirrorsFit
  <2>2. CASE M = {}
    <3>1. Cards = {} /\ expiries = {} /\ contracts = {} BY <1>11, <1>13, <2>2
    <3> QED BY <3>1 DEF MirrorsFit, Unfiled
  <2> QED BY <1>7, <2>1, <2>2
<1>22. DOMAIN tasks = {} BY <1>2
<1>23. LiveOwned BY <1>22 DEF LiveOwned
<1>24. \A a \in Callers : RequestFits(a)
  <2>1. \A a \in Callers : call[a].op = "none" BY <1>2 DEF Resting
  <2> QED BY <2>1 DEF RequestFits, At
<1>25. WorkFits BY <1>2 DEF WorkFits
<1>26. OutFits
  <2>1. LiveChunks = {} BY <1>22 DEF LiveChunks
  <2> QED BY <1>2, <2>1 DEF OutFits
<1> QED BY <1>20, <1>21, <1>23, <1>24, <1>25, <1>26 DEF SoleInv

\* What every step keeps is what the catalogue promises.
LEMMA SoleGives ==
  ASSUME SoleAssumption, CatalogueInv, SoleInv PROVE CatalogueSound
<1>1. /\ TablesFit /\ mirror \subseteq MirrorRows /\ KeysApart /\ OutFits /\ MirrorsFit
      /\ CatalogueShape /\ TasksFit /\ BlocksFit /\ ContractsFit
      /\ \A a \in Callers : RequestFits(a)
  BY DEF SoleInv, TablesFit, CatalogueInv
<1>2. TypeOK
  <2>1. /\ registry \subseteq [uid : Nat, sym : Symbols, spot : 1 .. SpotMax, active : BOOLEAN]
        /\ mirror \subseteq [uid : Nat, sym : Symbols, spot : 1 .. SpotMax, active : BOOLEAN,
                             expiries : Nat, contracts : Nat]
        /\ expiries \subseteq [uid : Nat, d : Dates, lo : Nat, hi : Nat, n : Nat]
        /\ taken \in Nat
    BY <1>1 DEF CatalogueShape, BlocksFit, RegistryRows, MirrorRows, ExpiryRows
  <2>2. contracts \subseteq [id : Nat \ {0}, uid : Nat, name : Names]
    <3> SUFFICES ASSUME NEW c \in contracts
                 PROVE  c \in [id : Nat \ {0}, uid : Nat, name : Names]
      OBVIOUS
    <3>1. c \in ContractRows BY <1>1 DEF ContractsFit
    <3>2. c.id # 0
      <4>1. CASE c \in Chains
        <5>1. c.id > SpotMax /\ SpotMax \in Nat
          BY <1>1, <4>1, CatalogueAssumption DEF ContractsFit, Chains
        <5> QED BY <5>1
      <4>2. CASE c \notin Chains
        <5>1. PICK m \in Cards : c = [id |-> m.spot, uid |-> m.uid, name |-> SpotName(m.sym)]
          BY <1>1, <4>2, SpotOf
        <5>2. m.spot \in 1 .. SpotMax BY <1>1, SpotOf
        <5> QED BY <5>1, <5>2
      <4> QED BY <4>1, <4>2
    <3> QED BY <3>1, <3>2 DEF ContractRows
  <2>3. \A t \in {registry, mirror} : \A x, y \in t : x.uid = y.uid \/ x.sym = y.sym => x = y
    <3>1. \A x, y \in registry : x.uid = y.uid \/ x.sym = y.sym => x = y
      BY <1>1 DEF KeysApart, Alike
    <3>2. ASSUME NEW x \in mirror, NEW y \in mirror, x.uid = y.uid \/ x.sym = y.sym PROVE x = y
      <4>1. PICK v, w : /\ v = Row(x.uid, x.sym, x.spot, x.active)
                        /\ w = Row(y.uid, y.sym, y.spot, y.active)
        OBVIOUS
      <4>2. v \in Cards /\ w \in Cards BY <1>1, <4>1, CardOf
      <4>3. v.uid = x.uid /\ v.sym = x.sym /\ w.uid = y.uid /\ w.sym = y.sym
        BY <4>1 DEF Row
      <4>4. v = w BY <1>1, <3>2, <4>2, <4>3 DEF KeysApart, Alike
      <4> QED BY <1>1, <4>3, <4>4 DEF KeysApart
    <3> QED BY <3>1, <3>2
  <2>4. \A x, y \in expiries : x.uid = y.uid /\ x.d = y.d => x = y BY <1>1 DEF BlocksFit
  <2>5. \A x, y \in contracts : x.id = y.id \/ x.name = y.name => x = y
    BY <1>1, ContractsApart
  <2>6. bars \subseteq [id : Nat \ {0}, name : Names] BY <1>1 DEF OutFits, BarRows
  <2>7. \A i \in DOMAIN tasks :
          /\ tasks[i].kind \in {"dates", "symbols", "chunk"}
          /\ tasks[i].state \in {"pending", "leased", "done", "failed"}
    <3> SUFFICES ASSUME NEW i \in DOMAIN tasks
                 PROVE  /\ tasks[i].kind \in {"dates", "symbols", "chunk"}
                        /\ tasks[i].state \in {"pending", "leased", "done", "failed"}
      OBVIOUS
    <3>1. tasks[i] \in TaskRows BY <1>1 DEF TasksFit
    <3> QED BY <3>1 DEF TaskRows
  <2>8. DOMAIN call = Callers BY <1>1 DEF CatalogueShape
  <2>9. work.step \in {"idle", "mirroring", "ready", "written", "planned"}
    BY <1>1 DEF CatalogueShape, Works
  <2> QED BY <2>1, <2>2, <2>3, <2>4, <2>5, <2>6, <2>7, <2>8, <2>9 DEF TypeOK
<1>3. BarsBelong
  <2> SUFFICES ASSUME NEW b \in bars, NEW c \in contracts, c.id = b.id PROVE c.name = b.name
    BY DEF BarsBelong
  <2>1. Fits(b.id, b.name) BY <1>1 DEF OutFits
  <2>2. c.id \in Nat /\ SpotMax \in Nat
    BY <1>1, CatalogueAssumption DEF ContractsFit, ContractRows
  <2>3. CASE c \in Chains
    <3>1. ~(b.id <= SpotMax) BY <1>1, <2>2, <2>3 DEF ContractsFit, Chains
    <3> QED BY <2>1, <2>3, <3>1 DEF Fits
  <2>4. CASE c \notin Chains
    <3>1. PICK m \in Cards : c = [id |-> m.spot, uid |-> m.uid, name |-> SpotName(m.sym)]
      BY <1>1, <2>4, SpotOf
    <3>2. m.spot = b.id /\ b.id <= SpotMax
      BY <1>1, <2>2, <2>4, <3>1 DEF ContractsFit, Chains
    <3>3. PICK r \in registry, k \in Cards :
            r.spot = b.id /\ k.spot = b.id /\ b.name = SpotName(r.sym)
      BY <2>1, <3>2 DEF Fits
    <3>4. m.sym = r.sym BY <1>1, <3>2, <3>3 DEF KeysApart, Alike, Same
    <3> QED BY <3>1, <3>3, <3>4
  <2> QED BY <2>3, <2>4
<1>4. RegistryMirrored
  <2> SUFFICES ASSUME NEW r \in registry
               PROVE  \/ \E a \in Callers : ~At(a, "none") /\ call[a].row.uid = r.uid
                      \/ \E m \in mirror : Row(m.uid, m.sym, m.spot, m.active) = r
                      \/ \A m \in mirror \cup expiries \cup contracts : m.uid # r.uid
    BY DEF RegistryMirrored
  <2>1. ASSUME NEW a \in Callers, At(a, "remirror"), call[a].row = r
        PROVE  ~At(a, "none") /\ call[a].row.uid = r.uid
    BY <2>1 DEF At
  <2>2. ASSUME r \in Cards PROVE \E m \in mirror : Row(m.uid, m.sym, m.spot, m.active) = r
    BY <2>2 DEF Cards
  <2>3. ASSUME Unfiled(r.uid) PROVE \A m \in mirror \cup expiries \cup contracts : m.uid # r.uid
    <3> SUFFICES ASSUME NEW m \in mirror PROVE m.uid # r.uid BY <2>3 DEF Unfiled
    <3>1. PICK v : v = Row(m.uid, m.sym, m.spot, m.active) OBVIOUS
    <3>2. v \in Cards /\ v.uid = m.uid BY <1>1, <3>1, CardOf
    <3> QED BY <2>3, <3>2 DEF Unfiled
  <2> QED BY <1>1, <2>1, <2>2, <2>3 DEF MirrorsFit
<1>5. IdsInBlock BY <1>1, NoFreedoms DEF ContractsFit
<1>6. BlocksDisjoint /\ FollowUpsOnce BY DEF CatalogueInv, BlocksFit
<1>7. RollupsMatch /\ RowsHaveOwners BY <1>1 DEF TablesFit
<1> QED BY <1>2, <1>3, <1>4, <1>5, <1>6, <1>7 DEF CatalogueSound

\* Every step keeps what holds of one request at a time, and every bar with its contract.
LEMMA SoleStays ==
  ASSUME SoleAssumption, CatalogueInv, CatalogueInv', SoleInv, [Next]_vars
  PROVE  SoleStep
<1>1. CASE UNCHANGED vars
  <2>1. UNCHANGED <<registry, duck, tasks, call, work>> BY <1>1 DEF vars
  <2>2. UNCHANGED <<registry, mirror, expiries, contracts, taken, bars, tasks, call, work>>
    BY <2>1 DEF duck
  <2>3. /\ TablesFit' /\ LiveOwned' /\ OutFits' /\ BarsStep /\ Cards' = Cards
        /\ \A uid : Unfiled(uid)' <=> Unfiled(uid)
    BY <2>1, ElseKept
  <2>4. \A a \in Callers : RequestFits(a)'
    BY <2>2, <2>3 DEF SoleInv, RequestFits, At, Unheard, Quiet, Live
  <2>5. MirrorsFit' BY <2>2, <2>3 DEF SoleInv, MirrorsFit, At
  <2>6. WorkFits' BY <2>2, <2>3 DEF SoleInv, WorkFits, Leased
  <2> QED BY <2>3, <2>4, <2>5, <2>6 DEF SoleStep, SoleInv
<1>2. CASE Next
  <2>1. CASE \E a \in Callers, s \in Symbols : CreateUnderlying(a, s) BY <2>1, CreateSole
  <2>2. CASE \E a \in Callers : CreateMirror(a) BY <2>2, CreateMirrorSole
  <2>3. CASE \E a \in Callers : CreateRow(a) BY <2>3, CreateRowSole
  <2>4. CASE \E a \in Callers : CreateUndone(a) BY <2>4, CreateUndoneSole
  <2>5. CASE \E a \in Callers : RemoveMirror(a) BY <2>5, RemoveMirrorSole
  <2>6. CASE \E a \in Callers, r \in registry : PatchUnderlying(a, r) BY <2>6, PatchSole
  <2>7. CASE \E a \in Callers : PatchMirror(a) BY <2>7, PatchMirrorSole
  <2>8. CASE \E a \in Callers : RemoveRow(a) BY <2>8, RemoveRowSole
  <2>9. CASE \E a \in Callers, r \in registry : RemoveUnderlying(a, r) BY <2>9, RemoveSole
  <2>10. CASE \E a \in Callers, r \in registry : DiscoverExpiries(a, r) BY <2>10, DiscoverSole
  <2>11. CASE \E a \in Callers, r \in registry : CommitSheet(a, r) BY <2>11, CommitSole
  <2>12. CASE FireContractDiscovery BY <2>12, FiringSole
  <2>13. CASE \E i \in DOMAIN tasks : Lease(i) BY <2>13, LeaseSole
  <2>14. CASE \E i \in DOMAIN tasks : StoreChunk(i) BY <2>14, ChunkSole
  <2>15. CASE MirrorFirst BY <2>15, MirrorFirstSole
  <2>16. CASE HandleExpiryDates BY <2>16, DatesSole
  <2>17. CASE HandleUnderlyingSymbols BY <2>17, SymbolsSole
  <2>18. CASE EnqueueCandleChunks BY <2>18, EnqueueSole
  <2>19. CASE Ack BY <2>19, AckSole
  <2>20. CASE Restart BY <2>20, RestartSole
  <2> QED BY <1>2, <2>1, <2>2, <2>3, <2>4, <2>5, <2>6, <2>7, <2>8, <2>9, <2>10, <2>11, <2>12,
             <2>13, <2>14, <2>15, <2>16, <2>17, <2>18, <2>19, <2>20 DEF Next
<1> QED BY <1>1, <1>2

\* So it always holds.
LEMMA SoleInvariant == ASSUME SoleAssumption PROVE Spec => [](CatalogueInv /\ SoleInv)
<1>1. Init => CatalogueInv /\ SoleInv BY CatalogueStarts, SoleStarts
<1>2. CatalogueInv /\ SoleInv /\ [Next]_vars => (CatalogueInv /\ SoleInv)'
  <2> SUFFICES ASSUME CatalogueInv, SoleInv, [Next]_vars PROVE (CatalogueInv /\ SoleInv)'
    OBVIOUS
  <2>1. CatalogueInv' BY CatalogueStep
  <2> QED BY <2>1, SoleStays DEF SoleStep
<1> QED BY <1>1, <1>2, PTL DEF Spec

\* Where requests come one at a time, deletes purge and no response is short, every
\* identifier has one owner that exists, in its own block and in both databases, no bar is
\* filed under another's, and what is derived from the rows agrees with them: for any
\* number of underlyings, expiries and contracts, whatever the nightly discovery, the
\* handlers and the kills do between the two writes of a request.
THEOREM CatalogueSoundAlways == ASSUME SoleAssumption PROVE Spec => []CatalogueSound
<1>1. CatalogueInv /\ SoleInv => CatalogueSound BY SoleGives
<1> QED BY <1>1, SoleInvariant, PTL

\* And the bars of a contract stay with it through every renumbering of its chain, and
\* the contract with its underlying (`_remap_contract_ids`, `ContractBatchWrite`).
THEOREM IdentityKeptAlways == ASSUME SoleAssumption PROVE Spec => IdentityKept
<1>1. CatalogueInv /\ SoleInv /\ (CatalogueInv /\ SoleInv)' /\ [Next]_vars =>
        [\A c \in contracts : \A k \in contracts' :
           c.name = k.name /\ [id |-> c.id, name |-> c.name] \in bars
             => [id |-> k.id, name |-> k.name] \in bars']_vars
  BY SoleStays DEF SoleStep, BarsStep
<1>2. Spec => BarsFollow BY <1>1, SoleInvariant, PTL DEF Spec, BarsFollow
<1>3. Spec => KnownStaysKnown BY NoFreedoms, KnownStaysKnownAlways
<1> QED BY <1>2, <1>3 DEF IdentityKept

=============================================================================
