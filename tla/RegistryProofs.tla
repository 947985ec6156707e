--------------------------- MODULE RegistryProofs ---------------------------
(***************************************************************************)
(* What is kept and read back: the local account, the broker's credential  *)
(* with its login, the settings, the keys, the chart, the symbol master    *)
(* and the listings. Each theorem is about one component alone, for every  *)
(* number of browsers, sessions, settings, fields, bars, files,            *)
(* instruments and rows and all timeouts, and rests on an inductive        *)
(* invariant of its own:                                                   *)
(*   AccountInv   the windows of each session follow from when it began    *)
(*                and was last written; who holds the passcode holds the   *)
(*                current one; the count bounds the failures, or the lock  *)
(*                outlasts them                                            *)
(*   LoginInv     a callback being exchanged presents the app that is      *)
(*                stored or is known to have crossed a replacement, and    *)
(*                has exchanged its state at most once                     *)
(*   SettingsInv  the cache is the table but where a write is under way    *)
(*                or the last one met another                              *)
(*   KeysInv      which rows which key wraps at each step of a rotation    *)
(*                and of a rewrap, what a kill leaves of them and what a   *)
(*                start makes of that                                      *)
(*   ChartInv     a request holds bounds around the bars it found, and a   *)
(*                read that passed the count fits the limit                *)
(*   MasterInv    the versions of an instrument follow one another and     *)
(*                answer each day as its snapshot listed; a run is of      *)
(*                today and has read what the broker serves                *)
(*   PagesInv     behind the cursor is what was shown and nothing else     *)
(*                that is there to stay; the rows are ordered as the cut   *)
(*                asks                                                     *)
(* The freedoms a theorem excludes are those under which the code does not *)
(* keep it: a chunk that lands between the count of a request and its      *)
(* read, the broker publishing or midnight passing while a snapshot is     *)
(* under way, contracts whose identifiers do not ascend with their names.  *)
(***************************************************************************)
EXTENDS Registry, CatalogueProofs, SequenceTheorems
-----------------------------------------------------------------------------
AccountAssumption ==
  /\ IsFiniteSet(Browsers)
  /\ MaxTime \in Nat /\ MaxSessions \in Nat /\ MaxChanges \in Nat
  /\ IdleTimeout \in Nat /\ AbsoluteTimeout \in Nat \ {0} /\ IdleTimeout <= AbsoluteTimeout
  /\ LastSeenInterval \in Nat \ {0}
  /\ LockoutThreshold \in Nat \ {0} /\ LockoutDuration \in Nat \ {0}

SessionRows == [seen : Nat, idle : Nat, absolute : Nat, began : Nat, used : Nat, under : Nat]
UserRows == [rows : Nat, passcode : Nat, attempts : Nat, lockedUntil : Nat]
Requests == [at : Account!Ats, passcode : Nat, attempts : Nat, right : BOOLEAN]

AccountShape ==
  /\ now \in 0 .. MaxTime /\ issued \in 0 .. MaxSessions
  /\ user \in UserRows /\ user.rows \in 0 .. 1
  /\ user.passcode \in 0 .. MaxChanges + 1 /\ (~overtaken => user.passcode = chosen)
  /\ user.lockedUntil <= MaxTime + LockoutDuration
  /\ user.attempts = 0 => user.lockedUntil = 0
  /\ session \in [DOMAIN session -> SessionRows] /\ DOMAIN session \subseteq 1 .. issued
  /\ cookie \in [Browsers -> 0 .. issued]
  /\ request \in [Browsers -> Requests]
  /\ chosen \in 0 .. MaxChanges + 1 /\ overtaken \in BOOLEAN

\* A row at a moment: its two ends follow from when it began and when it was last written.
RowFits(r, t) ==
  /\ r.seen <= r.used /\ r.used <= t /\ r.used < r.seen + LastSeenInterval
  /\ r.absolute = r.began + AbsoluteTimeout /\ r.used < r.absolute
  /\ r.idle = Account!Lower(r.seen + IdleTimeout, r.absolute)
SessionsFit == \A id \in DOMAIN session : RowFits(session[id], now)

Holding(b) == request[b].at \in {"verify", "issue", "stored", "revoked"}
PasscodeHeld ==
  /\ user.rows = 0 => /\ chosen = 0 /\ DOMAIN session = {}
                      /\ \A b \in Browsers : request[b].at \in {"none", "hashing"}
  /\ \A b \in Browsers : request[b].passcode \in 0 .. MaxChanges + 1
                         /\ (Holding(b) /\ ~overtaken => request[b].passcode = chosen)
  /\ ~overtaken /\ (\A b \in Browsers : request[b].at # "stored") =>
       \A id \in DOMAIN session : session[id].under = chosen

\* A count of n with a lock until then bounds the failures: by the count, or they are over
\* when the lock is.
Bounded(n, until) ==
  IF n < LockoutThreshold THEN Cardinality(failedAt) <= n
  ELSE \A f \in failedAt : f[1] + LockoutDuration <= until
Verifying(b) == request[b].at = "verify"
FailuresCounted ==
  /\ IsFiniteSet(failedAt)
  /\ failedAt \subseteq (0 .. MaxTime) \X (1 .. LockoutThreshold + Cardinality(Browsers))
  /\ \A f \in failedAt : f[1] <= now
  /\ Bounded(user.attempts, user.lockedUntil)
  /\ \A b \in Browsers : Verifying(b) => Bounded(request[b].attempts, now)
  /\ Account!WrongPerWindow

AccountInv == AccountShape /\ SessionsFit /\ PasscodeHeld /\ FailuresCounted

\* The cardinality the account's module speaks of is the one the lemmas on finite sets do.
LEMMA SameCardinality == \A S : Account!Cardinality(S) = Cardinality(S)
BY DEF Account!Cardinality, Cardinality

\* A fresh database: no account, no session, nobody asking.
LEMMA AccountStart == ASSUME AccountAssumption, Account!Init PROVE AccountInv
<1> USE DEF AccountAssumption, Account!Init
<1>1. AccountShape
  <2>1. user \in UserRows /\ user.rows = 0 /\ user.passcode = 0 /\ user.lockedUntil = 0
    BY DEF UserRows
  <2>2. session \in [DOMAIN session -> SessionRows] /\ DOMAIN session = {} OBVIOUS
  <2>3. request \in [Browsers -> Requests] BY DEF Requests, Account!NoRequest, Account!Ats
  <2>4. now = 0 /\ issued = 0 /\ chosen = 0 /\ overtaken = FALSE
        /\ cookie = [b \in Browsers |-> 0]
    OBVIOUS
  <2>5. MaxTime \in Nat /\ MaxSessions \in Nat /\ MaxChanges \in Nat /\ LockoutDuration \in Nat
    OBVIOUS
  <2> HIDE DEF AccountAssumption, Account!Init
  <2>6. /\ now \in 0 .. MaxTime /\ issued \in 0 .. MaxSessions /\ chosen \in 0 .. MaxChanges + 1
        /\ user.passcode \in 0 .. MaxChanges + 1 /\ user.lockedUntil <= MaxTime + LockoutDuration
        /\ user.rows \in 0 .. 1 /\ user.passcode = chosen
        /\ (user.attempts = 0 => user.lockedUntil = 0)
    BY <2>1, <2>4, <2>5
  <2>9. overtaken \in BOOLEAN BY <2>4
  <2>7. DOMAIN session \subseteq 1 .. issued BY <2>2
  <2>8. cookie \in [Browsers -> 0 .. issued] BY <2>4
  <2> QED BY <2>1, <2>2, <2>3, <2>6, <2>7, <2>8, <2>9, Zenon DEF AccountShape
<1>2. SessionsFit BY DEF SessionsFit
<1>3. PasscodeHeld BY DEF PasscodeHeld, Holding, Account!NoRequest
<1>4. FailuresCounted
  <2>1. IsFiniteSet({}) /\ Cardinality({}) = 0 BY FS_EmptySet
  <2>2. \A t \in 0 .. MaxTime :
          {f \in failedAt : f[1] >= t /\ f[1] < t + LockoutDuration} = {}
    OBVIOUS
  <2>3. Account!WrongPerWindow
    <3> SUFFICES ASSUME NEW t \in 0 .. MaxTime
                 PROVE  Cardinality({f \in failedAt : f[1] >= t /\ f[1] < t + LockoutDuration})
                          <= LockoutThreshold
      BY SameCardinality DEF Account!WrongPerWindow
    <3>1. {f \in failedAt : f[1] >= t /\ f[1] < t + LockoutDuration} = {} BY <2>2
    <3> QED BY <2>1, <3>1
  <2>4. \A b \in Browsers : ~Verifying(b) BY DEF Verifying, Account!NoRequest
  <2>5. user.attempts = 0 /\ failedAt = {} OBVIOUS
  <2> QED BY <2>1, <2>3, <2>4, <2>5 DEF FailuresCounted, Bounded
<1> QED BY <1>1, <1>2, <1>3, <1>4 DEF AccountInv

\* The middleware keeps every row it keeps in shape, and its passcode.
LEMMA ResolvedFits ==
  ASSUME AccountAssumption, AccountShape, SessionsFit, NEW b \in Browsers
  PROVE  LET rs == Account!Resolved(b) IN
           /\ rs \in [DOMAIN rs -> SessionRows] /\ DOMAIN rs \subseteq DOMAIN session
           /\ \A id \in DOMAIN rs : RowFits(rs[id], now) /\ rs[id].under = session[id].under
<1> DEFINE id == cookie[b]
<1>1. CASE Account!Live(id)
  <2> DEFINE r == session[id]
             s == Account!Slide(r)
  <2>1. id \in DOMAIN session /\ r \in SessionRows /\ RowFits(r, now) /\ now < r.absolute
        /\ now \in Nat
    BY <1>1 DEF Account!Live, AccountShape, SessionsFit
  <2>2. Account!Resolved(b) = [session EXCEPT ![id] = s]
    BY <1>1 DEF Account!Resolved
  <2>3. s \in SessionRows /\ RowFits(s, now) /\ s.under = r.under
    <3> HIDE DEF r
    <3>1. CASE now - r.seen < LastSeenInterval
      <4>1. s = [r EXCEPT !.used = now] BY <3>1 DEF Account!Slide
      <4> QED BY <2>1, <3>1, <4>1 DEF SessionRows, RowFits, AccountAssumption
    <3>2. CASE ~(now - r.seen < LastSeenInterval)
      <4>1. s = [r EXCEPT !.used = now, !.seen = now,
                          !.idle = Account!Lower(now + IdleTimeout, r.absolute)]
        BY <3>2 DEF Account!Slide
      <4> DEFINE e == Account!Lower(now + IdleTimeout, r.absolute)
      <4>2. e \in Nat BY <2>1 DEF AccountAssumption, Account!Lower, SessionRows
      <4> HIDE DEF e
      <4>3. s = [r EXCEPT !.used = now, !.seen = now, !.idle = e] BY <4>1 DEF e
      <4> HIDE DEF s
      <4>4. /\ s \in SessionRows /\ s.under = r.under /\ s.absolute = r.absolute
            /\ s.began = r.began /\ s.seen = now /\ s.used = now /\ s.idle = e
        BY <2>1, <4>2, <4>3 DEF SessionRows
      <4>5. s.idle = Account!Lower(s.seen + IdleTimeout, s.absolute) BY <4>4 DEF e
      <4> QED BY <2>1, <4>4, <4>5 DEF RowFits, AccountAssumption
    <3> QED BY <3>1, <3>2
  <2> HIDE DEF s
  <2> QED BY <2>1, <2>2, <2>3 DEF AccountShape, SessionsFit
<1>2. CASE ~Account!Live(id)
  <2>1. Account!Resolved(b) = [i \in DOMAIN session \ {id} |-> session[i]]
    BY <1>2 DEF Account!Resolved, Account!Without
  <2> QED BY <2>1 DEF AccountShape, SessionsFit
<1> QED BY <1>1, <1>2

\* So does dropping rows.
LEMMA WithoutFits ==
  ASSUME AccountShape, SessionsFit, NEW ids
  PROVE  LET rs == Account!Without(ids) IN
           /\ rs \in [DOMAIN rs -> SessionRows] /\ DOMAIN rs = DOMAIN session \ ids
           /\ \A id \in DOMAIN rs : RowFits(rs[id], now) /\ rs[id].under = session[id].under
BY DEF Account!Without, AccountShape, SessionsFit

\* What a step leaves of the sessions: rows that were there, in shape.
Thinned ==
  /\ session' \in [DOMAIN session' -> SessionRows] /\ DOMAIN session' \subseteq DOMAIN session
  /\ \A id \in DOMAIN session' :
       RowFits(session'[id], now) /\ session'[id].under = session[id].under

\* The shape and the windows of the sessions, and what they were issued under, survive.
LEMMA ThinnedFits ==
  ASSUME AccountAssumption, AccountInv, Thinned, UNCHANGED <<now, issued>>
  PROVE  /\ session' \in [DOMAIN session' -> SessionRows] /\ DOMAIN session' \subseteq 1 .. issued'
         /\ SessionsFit'
BY DEF AccountInv, AccountShape, SessionsFit, Thinned, RowFits

\* A step that touches neither the count of failures, nor the account, nor what is verified.
LEMMA FailuresStay ==
  ASSUME FailuresCounted, UNCHANGED <<now, user, failedAt>>,
         \A b \in Browsers : Verifying(b)' => Verifying(b) /\ request'[b] = request[b]
  PROVE  FailuresCounted'
BY DEF FailuresCounted, Verifying, Bounded, Account!WrongPerWindow

\* Nothing has failed since the count began anew.
LEMMA NothingFailed ==
  ASSUME AccountAssumption, AccountShape', failedAt' = {}
  PROVE  FailuresCounted'
<1>1. IsFiniteSet({}) /\ Cardinality({}) = 0 BY FS_EmptySet
<1>2. Account!WrongPerWindow'
  <2> SUFFICES ASSUME NEW t \in 0 .. MaxTime
               PROVE  Cardinality({f \in failedAt' : f[1] >= t /\ f[1] < t + LockoutDuration})
                        <= LockoutThreshold
    BY SameCardinality DEF Account!WrongPerWindow
  <2>1. {f \in failedAt' : f[1] >= t /\ f[1] < t + LockoutDuration} = {} OBVIOUS
  <2> QED BY <1>1, <2>1 DEF AccountAssumption
<1>3. user'.attempts \in Nat /\ \A c \in Browsers : request'[c].attempts \in Nat
  BY DEF AccountShape, UserRows, Requests
<1>4. Bounded(user.attempts, user.lockedUntil)' BY <1>1, <1>3 DEF Bounded
<1>5. \A c \in Browsers : Bounded(request[c].attempts, now)' BY <1>1, <1>3 DEF Bounded
<1> QED BY <1>1, <1>2, <1>4, <1>5 DEF FailuresCounted

\* A step that only thins the sessions, or drops a cookie: a request served, a logout, a prune.
LEMMA LookupStep ==
  ASSUME AccountAssumption, AccountInv, Thinned,
         UNCHANGED <<now, user, issued, request, chosen, overtaken, failedAt>>,
         cookie' \in [Browsers -> 0 .. issued]
  PROVE  AccountInv'
<1>1. AccountShape'
  BY ThinnedFits DEF AccountInv, AccountShape
<1>2. SessionsFit' BY ThinnedFits
<1>3. PasscodeHeld' BY DEF AccountInv, PasscodeHeld, Holding, Thinned
<1>4. FailuresCounted' BY FailuresStay DEF AccountInv, Verifying
<1> QED BY <1>1, <1>2, <1>3, <1>4 DEF AccountInv

\* Dropping rows thins the sessions.
LEMMA WithoutThins ==
  ASSUME AccountInv, NEW ids, session' = Account!Without(ids) PROVE Thinned
<1> DEFINE rs == Account!Without(ids)
<1>1. /\ rs \in [DOMAIN rs -> SessionRows] /\ DOMAIN rs = DOMAIN session \ ids
      /\ \A id \in DOMAIN rs : RowFits(rs[id], now) /\ rs[id].under = session[id].under
  BY WithoutFits DEF AccountInv
<1> HIDE DEF rs
<1>2. session' = rs BY DEF rs
<1> QED BY <1>1, <1>2 DEF Thinned

\* So does resolving a request's session.
LEMMA ResolvedThins ==
  ASSUME AccountAssumption, AccountInv, NEW b \in Browsers, session' = Account!Resolved(b)
  PROVE  Thinned
<1> DEFINE rs == Account!Resolved(b)
<1>1. /\ rs \in [DOMAIN rs -> SessionRows] /\ DOMAIN rs \subseteq DOMAIN session
      /\ \A id \in DOMAIN rs : RowFits(rs[id], now) /\ rs[id].under = session[id].under
  BY ResolvedFits DEF AccountInv
<1> HIDE DEF rs
<1>2. session' = rs BY DEF rs
<1> QED BY <1>1, <1>2 DEF Thinned

\* The step that only begins or ends a request, at a place where no passcode is held.
LEMMA RequestStep ==
  ASSUME AccountAssumption, AccountInv, Thinned, NEW b \in Browsers, NEW q \in Requests,
         q.at \notin {"verify", "issue", "stored", "revoked"}, q.passcode \in 0 .. MaxChanges + 1,
         user.rows = 0 => q.at \in {"none", "hashing"},
         request[b].at # "stored",
         request' = [request EXCEPT ![b] = q],
         UNCHANGED <<now, user, issued, cookie, chosen, overtaken, failedAt>>
  PROVE  AccountInv'
<1>0. \A c \in Browsers : request'[c] = IF c = b THEN q ELSE request[c]
  BY DEF AccountInv, AccountShape
<1>1. AccountShape'
  BY ThinnedFits DEF AccountInv, AccountShape
<1>2. SessionsFit' BY ThinnedFits
<1>3. PasscodeHeld' BY <1>0 DEF AccountInv, PasscodeHeld, Holding, Thinned
<1>4. FailuresCounted'
  <2>1. \A c \in Browsers : Verifying(c)' => Verifying(c) /\ request'[c] = request[c]
    BY <1>0 DEF Verifying
  <2> QED BY <2>1, FailuresStay DEF AccountInv
<1> QED BY <1>1, <1>2, <1>3, <1>4 DEF AccountInv

\* A request that moves on to another place keeps what it read.
LEMMA AtOnly ==
  ASSUME NEW r \in Requests, NEW x \in Account!Ats
  PROVE  LET q == [r EXCEPT !.at = x] IN
           q \in Requests /\ q.at = x /\ q.passcode = r.passcode /\ q.attempts = r.attempts
BY DEF Requests

\* The account with a new passcode and no failures counted.
LEMMA CountCleared ==
  ASSUME NEW u \in UserRows, NEW p \in Nat
  PROVE  LET v == [u EXCEPT !.passcode = p, !.attempts = 0, !.lockedUntil = 0] IN
           v \in UserRows /\ v.rows = u.rows /\ v.passcode = p /\ v.attempts = 0
           /\ v.lockedUntil = 0
BY DEF UserRows

\* A setup that begins hashing, a change that has proven the current passcode.
LEMMA SetupSteps ==
  ASSUME AccountAssumption, AccountInv, NEW b \in Browsers,
         Account!Setup(b) \/ Account!VerifyCurrent(b)
  PROVE  AccountInv'
<1>1. CASE Account!Setup(b)
  <2> DEFINE q == [request[b] EXCEPT !.at = "hashing"]
  <2>1. Thinned BY <1>1, ResolvedThins DEF Account!Setup
  <2>2. request[b] \in Requests /\ request[b].at = "none" /\ request[b].passcode = 0
    <3>1. request[b] = Account!NoRequest BY <1>1 DEF Account!Setup
    <3>2. request[b] \in Requests BY DEF AccountInv, AccountShape
    <3> QED BY <3>1, <3>2 DEF Account!NoRequest
  <2>3. q \in Requests /\ q.at = "hashing" /\ q.passcode = 0
    BY <2>2, AtOnly DEF Account!Ats
  <2>4. request' = [request EXCEPT ![b] = q]
        /\ UNCHANGED <<now, user, issued, cookie, chosen, overtaken, failedAt>>
    BY <1>1 DEF Account!Setup
  <2>6. PICK p \in Requests : p = q BY <2>3
  <2> HIDE DEF q
  <2>7. p.at = "hashing" /\ p.passcode = 0 /\ request' = [request EXCEPT ![b] = p]
    BY <2>3, <2>4, <2>6
  <2>8. p.passcode \in 0 .. MaxChanges + 1 /\ request[b].at # "stored"
        /\ p.at \notin {"verify", "issue", "stored", "revoked"}
        /\ (user.rows = 0 => p.at \in {"none", "hashing"})
    BY <2>2, <2>7 DEF AccountAssumption
  <2> QED BY <2>1, <2>4, <2>7, <2>8, RequestStep
<1>2. CASE Account!VerifyCurrent(b)
  <2> DEFINE q == [request[b] EXCEPT !.at = "proven"]
  <2>1. Thinned BY <1>2, ResolvedThins DEF Account!VerifyCurrent
  <2>2. request[b] \in Requests /\ request[b].at = "none" /\ request[b].passcode = 0
    <3>1. request[b] = Account!NoRequest BY <1>2 DEF Account!VerifyCurrent
    <3>2. request[b] \in Requests BY DEF AccountInv, AccountShape
    <3> QED BY <3>1, <3>2 DEF Account!NoRequest
  <2>3. q \in Requests /\ q.at = "proven" /\ q.passcode = 0
    BY <2>2, AtOnly DEF Account!Ats
  <2>4. request' = [request EXCEPT ![b] = q]
        /\ UNCHANGED <<now, user, issued, cookie, chosen, overtaken, failedAt>>
    BY <1>2 DEF Account!VerifyCurrent
  <2>5. user.rows # 0 BY <1>2 DEF Account!VerifyCurrent, Account!Live, AccountInv, PasscodeHeld
  <2>6. PICK p \in Requests : p = q BY <2>3
  <2> HIDE DEF q
  <2>7. p.at = "proven" /\ p.passcode = 0 /\ request' = [request EXCEPT ![b] = p]
    BY <2>3, <2>4, <2>6
  <2>8. p.passcode \in 0 .. MaxChanges + 1 /\ request[b].at # "stored"
        /\ p.at \notin {"verify", "issue", "stored", "revoked"}
        /\ (user.rows = 0 => p.at \in {"none", "hashing"})
    BY <2>2, <2>5, <2>7 DEF AccountAssumption
  <2> QED BY <2>1, <2>4, <2>7, <2>8, RequestStep
<1> QED BY <1>1, <1>2

\* The insert of the one account: the row is there once, of the passcode just chosen.
LEMMA InsertFirstUserStep ==
  ASSUME AccountAssumption, AccountInv, NEW b \in Browsers, Account!InsertFirstUser(b)
  PROVE  AccountInv'
<1>0. Thinned BY DEF Account!InsertFirstUser, Thinned, AccountInv, AccountShape, SessionsFit
<1>1. CASE user.rows = 0
  <2> DEFINE q == [request[b] EXCEPT !.at = "issue", !.passcode = 1]
  <2>1. q \in Requests /\ q.at = "issue" /\ q.passcode = 1
    BY DEF AccountInv, AccountShape, Requests, Account!Ats
  <2>2. request' = [request EXCEPT ![b] = q] /\ chosen' = 1
        /\ user' = [user EXCEPT !.rows = 1, !.passcode = 1]
        /\ UNCHANGED <<now, session, issued, cookie, overtaken, failedAt>>
    BY <1>1 DEF Account!InsertFirstUser
  <2> HIDE DEF q
  <2>3. \A c \in Browsers : request'[c] = IF c = b THEN q ELSE request[c]
    BY <2>2 DEF AccountInv, AccountShape
  <2>4. /\ user' \in UserRows /\ user'.rows = 1 /\ user'.passcode = 1
        /\ user'.attempts = user.attempts /\ user'.lockedUntil = user.lockedUntil
    BY <2>2 DEF AccountInv, AccountShape, UserRows
  <2>5. DOMAIN session = {} /\ \A c \in Browsers : request[c].at \in {"none", "hashing"}
    BY <1>1 DEF AccountInv, PasscodeHeld
  <2>6. AccountShape'
    BY <2>1, <2>2, <2>4, <1>0, ThinnedFits DEF AccountInv, AccountShape, AccountAssumption
  <2>7. SessionsFit' BY <2>2, <2>5 DEF SessionsFit
  <2>8. PasscodeHeld'
    <3>1. \A c \in Browsers : request'[c].passcode \in 0 .. MaxChanges + 1
                              /\ (Holding(c)' => request'[c].passcode = chosen')
      <4> SUFFICES ASSUME NEW c \in Browsers
                   PROVE  /\ request'[c].passcode \in 0 .. MaxChanges + 1
                          /\ (Holding(c)' => request'[c].passcode = chosen')
        OBVIOUS
      <4>1. CASE c = b BY <4>1, <2>1, <2>2, <2>3 DEF AccountAssumption
      <4>2. CASE c # b
        <5>1. request'[c] = request[c] /\ request[c].at \in {"none", "hashing"}
          BY <4>2, <2>3, <2>5
        <5> QED BY <5>1 DEF AccountInv, PasscodeHeld, Holding
      <4> QED BY <4>1, <4>2
    <3>2. DOMAIN session' = {} /\ user'.rows # 0 BY <2>2, <2>4, <2>5
    <3> QED BY <3>1, <3>2 DEF PasscodeHeld
  <2>9. FailuresCounted'
    <3>1. \A c \in Browsers : ~Verifying(c)' BY <2>1, <2>3, <2>5 DEF Verifying
    <3> QED BY <2>2, <2>4, <3>1 DEF AccountInv, FailuresCounted, Bounded, Account!WrongPerWindow
  <2> QED BY <2>6, <2>7, <2>8, <2>9 DEF AccountInv
<1>2. CASE user.rows # 0
  <2> DEFINE q == Account!NoRequest
  <2>1. q \in Requests /\ q.at = "none" /\ q.passcode = 0
    BY DEF Requests, Account!Ats, Account!NoRequest
  <2> HIDE DEF q
  <2> QED BY <1>0, <1>2, <2>1, RequestStep
          DEF q, Account!InsertFirstUser, Account!Ends, AccountAssumption
<1> QED BY <1>1, <1>2

\* A login reads the row, unless it is locked: what bounds the failures then will bound them
\* when it writes.
LEMMA ReadUserStep ==
  ASSUME AccountAssumption, AccountInv, NEW b \in Browsers, NEW right \in BOOLEAN,
         Account!ReadUser(b, right)
  PROVE  AccountInv'
<1> DEFINE q == [at |-> "verify", passcode |-> user.passcode, attempts |-> user.attempts,
                 right |-> right]
<1>1. /\ q \in Requests /\ q.at = "verify" /\ q.attempts = user.attempts
      /\ q.passcode \in 0 .. MaxChanges + 1 /\ (~overtaken => q.passcode = chosen)
  BY DEF AccountInv, AccountShape, Requests, Account!Ats, UserRows
<1>2. /\ request' = [request EXCEPT ![b] = q] /\ request[b].at = "none" /\ user.rows # 0
      /\ user.lockedUntil <= now /\ session' = Account!Resolved(b)
      /\ UNCHANGED <<now, user, issued, cookie, chosen, overtaken, failedAt>>
  BY DEF Account!ReadUser, AccountAssumption, Account!NoRequest, AccountInv, AccountShape, UserRows
<1> HIDE DEF q
<1>3. Thinned BY <1>2, ResolvedThins
<1>4. \A c \in Browsers : request'[c] = IF c = b THEN q ELSE request[c]
  BY <1>2 DEF AccountInv, AccountShape
<1>5. AccountShape' BY <1>1, <1>2, <1>3, ThinnedFits DEF AccountInv, AccountShape
<1>6. SessionsFit' BY <1>2, <1>3, ThinnedFits
<1>7. PasscodeHeld'
  BY <1>1, <1>2, <1>3, <1>4 DEF AccountInv, AccountShape, PasscodeHeld, Holding, Thinned
<1>8. FailuresCounted'
  <2>1. Bounded(q.attempts, now)
    <3>1. Bounded(q.attempts, user.lockedUntil) BY <1>1 DEF AccountInv, FailuresCounted
    <3>2. user.lockedUntil \in Nat /\ now \in Nat /\ user.lockedUntil <= now
      BY <1>2 DEF AccountInv, AccountShape, UserRows
    <3>3. \A f \in failedAt : f[1] \in Nat BY DEF AccountInv, FailuresCounted
    <3> QED BY <3>1, <3>2, <3>3 DEF Bounded, AccountAssumption
  <2>2. \A c \in Browsers : Verifying(c)' => Bounded(request[c].attempts, now)'
    BY <1>2, <1>4, <2>1 DEF AccountInv, FailuresCounted, Verifying, Bounded
  <2>3. Bounded(user.attempts, user.lockedUntil)' BY <1>2 DEF AccountInv, FailuresCounted, Bounded
  <2> QED BY <1>2, <2>2, <2>3 DEF AccountInv, FailuresCounted, Account!WrongPerWindow
<1> QED BY <1>5, <1>6, <1>7, <1>8 DEF AccountInv

\* A wrong passcode, counted from the count it read: with another under way the failures are
\* counted anew; otherwise those of any window stay at the threshold, or all but this one are
\* older than it.
LEMMA RecordFailureStep ==
  ASSUME AccountAssumption, AccountInv, NEW b \in Browsers, Account!RecordFailure(b)
  PROVE  AccountInv'
<1> DEFINE n == request[b].attempts
           alone == \A c \in Browsers \ {b} : ~Verifying(c)
           again == Cardinality({f \in failedAt : f[1] = now})
           new == <<now, again + 1>>
           lock == IF n + 1 >= LockoutThreshold THEN now + LockoutDuration ELSE 0
           W(t) == {f \in failedAt : f[1] >= t /\ f[1] < t + LockoutDuration}
<1>1. /\ Verifying(b) /\ n \in Nat /\ now \in 0 .. MaxTime
      /\ Bounded(n, now) /\ IsFiniteSet(failedAt)
      /\ \A f \in failedAt : f[1] \in Nat /\ f[1] <= now
  BY DEF Account!RecordFailure, Verifying, AccountInv, FailuresCounted, AccountShape, Requests
<1>2. /\ request' = [request EXCEPT ![b] = Account!NoRequest]
      /\ failedAt' = IF alone THEN failedAt \cup {new} ELSE {}
      /\ user' = [user EXCEPT !.attempts = n + 1, !.lockedUntil = lock]
      /\ UNCHANGED <<now, session, issued, cookie, chosen, overtaken>>
  <2>1. alone = ~\E c \in Browsers \ {b} : request[c].at = "verify" BY DEF Verifying
  <2>2. again = Account!Cardinality({f \in failedAt : f[1] = now}) BY SameCardinality
  <2> HIDE DEF alone, again
  <2> QED BY <1>1, <2>1, <2>2 DEF Account!RecordFailure, Account!Ends, Account!Failures
<1> HIDE DEF alone
<1>3. lock \in Nat /\ lock <= MaxTime + LockoutDuration BY <1>1 DEF AccountAssumption
<1>13. n + 1 \in Nat /\ n + 1 # 0 BY <1>1
<1>4. /\ user' \in UserRows /\ user'.rows = user.rows /\ user'.passcode = user.passcode
      /\ user'.attempts = n + 1 /\ user'.lockedUntil = lock
  <2> HIDE DEF n, lock
  <2> QED BY <1>13, <1>2, <1>3 DEF AccountInv, AccountShape, UserRows
<1>5. \A c \in Browsers : request'[c] = IF c = b THEN Account!NoRequest ELSE request[c]
  BY <1>2 DEF AccountInv, AccountShape
<1>6. Account!NoRequest \in Requests BY DEF Account!NoRequest, Requests, Account!Ats
<1>7. Thinned BY <1>2 DEF Thinned, AccountInv, AccountShape, SessionsFit
<1>8. again \in Nat /\ again <= LockoutThreshold
  <2>1. \A t \in 0 .. MaxTime : Cardinality(W(t)) <= LockoutThreshold
    BY SameCardinality DEF AccountInv, FailuresCounted, Account!WrongPerWindow
  <2>2. {f \in failedAt : f[1] = now} = W(now) BY <1>1 DEF AccountAssumption
  <2>3. IsFiniteSet(W(now)) /\ Cardinality(W(now)) \in Nat BY <1>1, FS_Subset, FS_CardinalityType
  <2> QED BY <1>1, <2>1, <2>2, <2>3
<1>9. AccountShape'
  BY <1>2, <1>3, <1>4, <1>6, <1>7, ThinnedFits DEF AccountInv, AccountShape, AccountAssumption
<1>10. SessionsFit' BY <1>2, <1>7, ThinnedFits
<1>11. PasscodeHeld'
  <2>1. Account!NoRequest.at = "none" /\ Account!NoRequest.passcode = 0 BY DEF Account!NoRequest
  <2>2. request[b].at # "stored" BY <1>1 DEF Verifying
  <2> QED BY <1>2, <1>4, <1>5, <2>1, <2>2 DEF AccountInv, PasscodeHeld, Holding, AccountAssumption
<1>12. CASE ~alone
  <2>1. failedAt' = {} BY <1>2, <1>12
  <2>2. FailuresCounted' BY <1>9, <2>1, NothingFailed
  <2> QED BY <1>9, <1>10, <1>11, <2>2 DEF AccountInv
<1>14. CASE alone
  <2> USE <1>14
  <2>1. IsFiniteSet(failedAt') /\ Cardinality(failedAt') <= Cardinality(failedAt) + 1
        /\ Cardinality(failedAt) \in Nat /\ Cardinality(failedAt') \in Nat
    <3> HIDE DEF new
    <3> HIDE DEF n, again, lock, W
    <3>a. IsFiniteSet(failedAt) /\ Cardinality(failedAt) \in Nat BY <1>1, FS_CardinalityType
    <3>b. IsFiniteSet(failedAt \cup {new})
          /\ Cardinality(failedAt \cup {new}) =
               IF new \in failedAt THEN Cardinality(failedAt) ELSE Cardinality(failedAt) + 1
      BY <3>a, FS_AddElement, ZenonT(30)
    <3>1. IsFiniteSet(failedAt \cup {new})
          /\ Cardinality(failedAt \cup {new}) <= Cardinality(failedAt) + 1
      BY <3>a, <3>b
    <3>2. failedAt' = failedAt \cup {new} BY <1>2
    <3>3. IsFiniteSet(failedAt') BY <3>1, <3>2
    <3> QED BY <1>1, <3>1, <3>2, <3>3, FS_CardinalityType
  <2>2. failedAt' \subseteq (0 .. MaxTime) \X (1 .. LockoutThreshold + Cardinality(Browsers))
    <3>1. Cardinality(Browsers) \in Nat /\ Cardinality(Browsers) # 0
      BY FS_CardinalityType, FS_EmptySet DEF AccountAssumption
    <3>2. new \in (0 .. MaxTime) \X (1 .. LockoutThreshold + Cardinality(Browsers))
      <4> HIDE DEF again
      <4> QED BY <1>1, <1>8, <3>1 DEF AccountAssumption
    <3> QED BY <1>2, <3>2 DEF AccountInv, FailuresCounted
  <2>3. \A f \in failedAt' : f[1] \in Nat /\ f[1] <= now' BY <1>1, <1>2
  <2>4. \A c \in Browsers : ~Verifying(c)'
    BY <1>5 DEF alone, Verifying, Account!NoRequest
  <2>5. IF user'.attempts < LockoutThreshold THEN Cardinality(failedAt') <= user'.attempts
        ELSE \A f \in failedAt' : f[1] + LockoutDuration <= user'.lockedUntil
    <3>1. CASE n + 1 < LockoutThreshold
      <4>1. n < LockoutThreshold BY <3>1, <1>1 DEF AccountAssumption
      <4>2. Cardinality(failedAt) <= n BY <4>1, <1>1 DEF Bounded
      <4> QED BY <1>1, <1>4, <2>1, <3>1, <4>2
    <3>2. CASE ~(n + 1 < LockoutThreshold)
      <4>1. lock = now + LockoutDuration BY <1>1, <3>2 DEF AccountAssumption
      <4> QED BY <1>1, <1>2, <1>4, <2>3, <3>2, <4>1 DEF AccountAssumption
    <3> QED BY <3>1, <3>2
  <2>6. Account!WrongPerWindow'
    <3> SUFFICES ASSUME NEW t \in 0 .. MaxTime
                 PROVE  Cardinality({f \in failedAt' : f[1] >= t /\ f[1] < t + LockoutDuration})
                          <= LockoutThreshold
      BY SameCardinality DEF Account!WrongPerWindow
    <3> DEFINE V == {f \in failedAt' : f[1] >= t /\ f[1] < t + LockoutDuration}
    <3>1. V \subseteq failedAt' /\ IsFiniteSet(V) /\ Cardinality(V) \in Nat
          /\ Cardinality(V) <= Cardinality(failedAt')
      BY <2>1, FS_Subset, FS_CardinalityType
    <3>2. CASE n < LockoutThreshold
      <4>1. Cardinality(failedAt) <= n BY <3>2, <1>1 DEF Bounded
      <4>2. Cardinality(failedAt') <= LockoutThreshold
        BY <4>1, <3>2, <2>1, <1>1 DEF AccountAssumption
      <4> QED BY <3>1, <4>2, <2>1 DEF AccountAssumption
    <3>3. CASE n >= LockoutThreshold /\ t <= now /\ now < t + LockoutDuration
      <4>1. \A f \in failedAt : f[1] + LockoutDuration <= now
        BY <1>1, <3>3 DEF Bounded, AccountAssumption
      <4>2. \A f \in failedAt : f[1] < t
        BY <1>1, <3>3, <4>1 DEF AccountAssumption
      <4>3. V \subseteq {new} BY <1>2, <4>2, <1>1
      <4>4. IsFiniteSet({new}) /\ Cardinality({new}) = 1
        <5> HIDE DEF new
        <5> QED BY FS_Singleton
      <4>5. Cardinality(V) <= 1
        <5> HIDE DEF new, V
        <5> QED BY <4>3, <4>4, FS_Subset
      <4> QED BY <3>1, <4>5 DEF AccountAssumption
    <3>4. CASE ~(t <= now /\ now < t + LockoutDuration)
      <4>1. new[1] = now OBVIOUS
      <4>2. V = W(t) BY <1>2, <3>4, <4>1, <1>1 DEF AccountAssumption
      <4>3. Cardinality(W(t)) <= LockoutThreshold
        BY SameCardinality DEF AccountInv, FailuresCounted, Account!WrongPerWindow
      <4> QED BY <4>2, <4>3
    <3> QED BY <1>1, <3>2, <3>3, <3>4 DEF AccountAssumption
  <2>7. FailuresCounted'
    BY <2>1, <2>2, <2>3, <2>4, <2>5, <2>6 DEF FailuresCounted, Bounded
  <2> QED BY <1>9, <1>10, <1>11, <2>7 DEF AccountInv
<1> QED BY <1>12, <1>14

\* A right passcode clears the count.
LEMMA RecordSuccessStep ==
  ASSUME AccountAssumption, AccountInv, NEW b \in Browsers, Account!RecordSuccess(b)
  PROVE  AccountInv'
<1> DEFINE q == [request[b] EXCEPT !.at = "issue"]
           p == request[b].passcode
<1>1. /\ Verifying(b) /\ request[b] \in Requests /\ user.rows # 0
      /\ p \in 0 .. MaxChanges + 1 /\ (~overtaken => p = chosen)
  BY
      DEF Account!RecordSuccess, Account!Goes, Verifying, AccountInv, AccountShape, PasscodeHeld, Holding
<1>2. q \in Requests /\ q.at = "issue" /\ q.passcode = p BY <1>1, AtOnly DEF Account!Ats
<1>3. request' = [request EXCEPT ![b] = q] BY DEF Account!RecordSuccess, Account!Goes
<1>4. user' = [user EXCEPT !.passcode = p, !.attempts = 0, !.lockedUntil = 0]
      /\ failedAt' = {} /\ UNCHANGED <<now, session, issued, cookie, chosen, overtaken>>
  BY <1>1 DEF Account!RecordSuccess
<1> HIDE DEF q, p
<1>5. \A c \in Browsers : request'[c] = IF c = b THEN q ELSE request[c]
  BY <1>3 DEF AccountInv, AccountShape
<1>6. /\ user' \in UserRows /\ user'.rows = user.rows /\ user'.passcode = p
      /\ user'.attempts = 0 /\ user'.lockedUntil = 0
  <2>1. user \in UserRows /\ p \in Nat BY <1>1 DEF AccountInv, AccountShape, AccountAssumption
  <2> QED BY <2>1, <1>4, CountCleared
<1>7. Thinned BY <1>4 DEF Thinned, AccountInv, AccountShape, SessionsFit
<1>8. AccountShape'
  BY <1>1, <1>2, <1>3, <1>4, <1>6, <1>7, ThinnedFits
      DEF AccountInv, AccountShape, AccountAssumption
<1>9. SessionsFit' BY <1>4, <1>7, ThinnedFits
<1>10. PasscodeHeld'
  BY <1>1, <1>2, <1>4, <1>5, <1>6 DEF AccountInv, AccountShape, PasscodeHeld, Holding, Verifying
<1>11. FailuresCounted' BY <1>4, <1>8, NothingFailed
<1> QED BY <1>8, <1>9, <1>10, <1>11 DEF AccountInv

\* The change stores the new passcode; where a login or another change is under way with an
\* earlier one, it is overtaken.
LEMMA StorePasscodeStep ==
  ASSUME AccountAssumption, AccountInv, NEW b \in Browsers, Account!StorePasscode(b)
  PROVE  AccountInv'
<1>1. /\ request[b].at = "proven" /\ request[b] \in Requests /\ chosen <= MaxChanges
      /\ chosen \in Nat /\ user.rows # 0
  <2>1. request[b].at = "proven" /\ chosen <= MaxChanges BY DEF Account!StorePasscode
  <2>4. request[b] \in Requests /\ chosen \in Nat BY
      DEF AccountInv, AccountShape, AccountAssumption
  <2>5. user.rows # 0 BY <2>1 DEF AccountInv, PasscodeHeld
  <2> QED BY <2>1, <2>4, <2>5
<1> DEFINE q == [request[b] EXCEPT !.at = "stored", !.passcode = chosen + 1]
<1>2. q \in Requests /\ q.at = "stored" /\ q.passcode = chosen + 1
  <2>1. chosen + 1 \in Nat /\ "stored" \in Account!Ats BY <1>1 DEF Account!Ats
  <2>2. request[b] \in Requests BY <1>1
  <2>3. PICK p \in Nat, r \in Requests : p = chosen + 1 /\ r = request[b] BY <2>1, <2>2
  <2> DEFINE s == [r EXCEPT !.at = "stored", !.passcode = p]
  <2>4. q = s BY <2>3
  <2>5. s \in Requests /\ s.at = "stored" /\ s.passcode = p BY <2>1 DEF Requests
  <2> HIDE DEF q, s
  <2> QED BY <2>3, <2>4, <2>5
<1>3. request' = [request EXCEPT ![b] = q] BY DEF Account!StorePasscode
<1>4. user' = [user EXCEPT !.passcode = chosen + 1, !.attempts = 0, !.lockedUntil = 0]
      /\ chosen' = chosen + 1 /\ failedAt' = {} /\ UNCHANGED <<now, session, issued, cookie>>
      /\ overtaken' \in BOOLEAN /\ (~overtaken' => \A c \in Browsers : ~Holding(c))
  BY DEF Account!StorePasscode, Account!Unsettled, Holding
<1> HIDE DEF q
<1>5. \A c \in Browsers : request'[c] = IF c = b THEN q ELSE request[c]
  BY <1>3 DEF AccountInv, AccountShape
<1>6. /\ user' \in UserRows /\ user'.rows = user.rows /\ user'.passcode = chosen'
      /\ user'.attempts = 0 /\ user'.lockedUntil = 0
  <2>1. user \in UserRows /\ chosen + 1 \in Nat /\ chosen' = chosen + 1
    BY <1>1, <1>4 DEF AccountInv, AccountShape
  <2>2. PICK p \in Nat : p = chosen + 1 BY <2>1
  <2>3. user' = [user EXCEPT !.passcode = p, !.attempts = 0, !.lockedUntil = 0] BY <1>4, <2>2
  <2> QED BY <2>1, <2>2, <2>3, CountCleared
<1>7. Thinned BY <1>4 DEF Thinned, AccountInv, AccountShape, SessionsFit
<1>8. AccountShape'
  BY <1>1, <1>2, <1>3, <1>4, <1>6, <1>7, ThinnedFits
      DEF AccountInv, AccountShape, AccountAssumption
<1>9. SessionsFit' BY <1>4, <1>7, ThinnedFits
<1>10. PasscodeHeld'
  <2>1. \A c \in Browsers :
          /\ request'[c].passcode \in 0 .. MaxChanges + 1
          /\ Holding(c)' /\ ~overtaken' => request'[c].passcode = chosen'
    <3> SUFFICES ASSUME NEW c \in Browsers
                 PROVE  /\ request'[c].passcode \in 0 .. MaxChanges + 1
                        /\ Holding(c)' /\ ~overtaken' => request'[c].passcode = chosen'
      OBVIOUS
    <3>1. CASE c = b BY <3>1, <1>1, <1>2, <1>4, <1>5 DEF AccountAssumption
    <3>2. CASE c # b
      <4>1. request'[c] = request[c] BY <3>2, <1>5
      <4>2. ~overtaken' => ~Holding(c) BY <1>4
      <4>3. request[c].passcode \in 0 .. MaxChanges + 1 BY DEF AccountInv, PasscodeHeld
      <4> QED BY <4>1, <4>2, <4>3 DEF Holding
    <3> QED BY <3>1, <3>2
  <2>2. request'[b].at = "stored" /\ user'.rows # 0 BY <1>1, <1>2, <1>5, <1>6
  <2> QED BY <2>1, <2>2 DEF PasscodeHeld
<1>11. FailuresCounted' BY <1>4, <1>8, NothingFailed
<1> QED BY <1>8, <1>9, <1>10, <1>11 DEF AccountInv

\* The change then revokes every session, those of the old passcode with them.
LEMMA RevokeAllStep ==
  ASSUME AccountAssumption, AccountInv, NEW b \in Browsers, Account!RevokeAll(b)
  PROVE  AccountInv'
<1>1. request[b].at = "stored" /\ request[b] \in Requests
  BY DEF Account!RevokeAll, Account!Goes, AccountInv, AccountShape
<1> DEFINE q == [request[b] EXCEPT !.at = "revoked"]
<1>2. q \in Requests /\ q.at = "revoked" /\ q.passcode = request[b].passcode
  BY <1>1, AtOnly DEF Account!Ats
<1>3. /\ request' = [request EXCEPT ![b] = q] /\ session' = Account!Without(DOMAIN session)
      /\ UNCHANGED <<now, user, issued, cookie, chosen, overtaken, failedAt>>
  BY DEF Account!RevokeAll, Account!Goes
<1> HIDE DEF q
<1>4. Thinned /\ DOMAIN session' = {} BY <1>3, WithoutThins DEF Account!Without
<1>5. \A c \in Browsers : request'[c] = IF c = b THEN q ELSE request[c]
  BY <1>3 DEF AccountInv, AccountShape
<1>6. AccountShape' BY <1>2, <1>3, <1>4, ThinnedFits DEF AccountInv, AccountShape
<1>7. SessionsFit' BY <1>3, <1>4, ThinnedFits
<1>8. PasscodeHeld'
  BY <1>1, <1>2, <1>3, <1>4, <1>5 DEF AccountInv, PasscodeHeld, Holding
<1>9. FailuresCounted'
  <2>1. \A c \in Browsers : Verifying(c)' => Verifying(c) /\ request'[c] = request[c]
    BY <1>2, <1>5 DEF Verifying
  <2> QED BY <1>3, <2>1, FailuresStay DEF AccountInv
<1> QED BY <1>6, <1>7, <1>8, <1>9 DEF AccountInv

\* The two steps that end a request with a new session, over the rows that stay.
LEMMA IssueStep ==
  ASSUME AccountAssumption, AccountInv, NEW b \in Browsers, NEW ids,
         request[b].at \in {"issue", "revoked"},
         Account!Create(b, Account!Without(ids), request[b].passcode), Account!Ends(b),
         UNCHANGED <<now, user, chosen, overtaken, failedAt>>
  PROVE  AccountInv'
<1> DEFINE rows == Account!Without(ids)
           n == issued'
           fresh == [seen |-> now, idle |-> now + IdleTimeout, absolute |-> now + AbsoluteTimeout,
                     began |-> now, used |-> now, under |-> request[b].passcode]
<1>1. /\ issued \in Nat /\ n = issued + 1 /\ n <= MaxSessions /\ now \in 0 .. MaxTime
      /\ request[b].passcode \in Nat /\ (~overtaken => request[b].passcode = chosen)
      /\ chosen \in Nat /\ user.rows # 0
  <2>1. issued \in 0 .. MaxSessions /\ issued < MaxSessions /\ n = issued + 1
        /\ now \in 0 .. MaxTime /\ chosen \in Nat
    BY DEF Account!Create, AccountInv, AccountShape, AccountAssumption
  <2>2. request[b].passcode \in Nat /\ (~overtaken => request[b].passcode = chosen)
        /\ user.rows # 0
    BY DEF AccountInv, PasscodeHeld, Holding, AccountAssumption
  <2> QED BY <2>1, <2>2 DEF AccountAssumption
<1>2. /\ rows \in [DOMAIN rows -> SessionRows] /\ DOMAIN rows \subseteq DOMAIN session
      /\ \A id \in DOMAIN rows : RowFits(rows[id], now) /\ rows[id].under = session[id].under
      /\ DOMAIN session \subseteq 1 .. issued
  BY WithoutFits DEF AccountInv, AccountShape
<1>3. fresh \in SessionRows /\ RowFits(fresh, now) /\ (~overtaken => fresh.under = chosen)
  BY <1>1 DEF SessionRows, RowFits, AccountAssumption, Account!Lower
<1>4. session' = [id \in DOMAIN rows \cup {n} |-> IF id \in DOMAIN rows THEN rows[id] ELSE fresh]
      /\ cookie' = [cookie EXCEPT ![b] = n] /\ request' = [request EXCEPT ![b] = Account!NoRequest]
  BY DEF Account!Create, Account!Ends
<1> HIDE DEF rows, fresh, n
<1>5. /\ DOMAIN session' = DOMAIN rows \cup {n} /\ session' \in [DOMAIN session' -> SessionRows]
      /\ \A id \in DOMAIN rows : session'[id] = rows[id]
      /\ session'[n] = fresh /\ n \notin DOMAIN rows
  BY <1>1, <1>2, <1>3, <1>4
<1>6. DOMAIN session' \subseteq 1 .. n BY <1>1, <1>2, <1>5
<1>7. \A c \in Browsers : request'[c] = IF c = b THEN Account!NoRequest ELSE request[c]
  BY <1>4 DEF AccountInv, AccountShape
<1>8. Account!NoRequest \in Requests /\ Account!NoRequest.at = "none" /\ Account!NoRequest.passcode = 0
  BY DEF Account!NoRequest, Requests, Account!Ats
<1>9. AccountShape'
  <2>1. cookie' \in [Browsers -> 0 .. n] BY <1>1, <1>4 DEF AccountInv, AccountShape
  <2>2. request' \in [Browsers -> Requests] BY <1>4, <1>8 DEF AccountInv, AccountShape
  <2>3. issued' \in 0 .. MaxSessions /\ DOMAIN session' \subseteq 1 .. issued'
        /\ cookie' \in [Browsers -> 0 .. issued']
    BY <1>1, <1>6, <2>1 DEF n, AccountAssumption
  <2> QED BY <1>5, <2>2, <2>3 DEF AccountInv, AccountShape
<1>10. SessionsFit' BY <1>2, <1>3, <1>5 DEF SessionsFit
<1>11. PasscodeHeld'
  <2>1. \A c \in Browsers : request'[c].passcode \in 0 .. MaxChanges + 1
                            /\ (Holding(c)' /\ ~overtaken' => request'[c].passcode = chosen')
    BY <1>7, <1>8 DEF AccountInv, PasscodeHeld, Holding, AccountAssumption
  <2>2. ASSUME ~overtaken, \A c \in Browsers : request'[c].at # "stored", NEW id \in DOMAIN session'
        PROVE  session'[id].under = chosen'
    <3>1. \A c \in Browsers : request[c].at # "stored" BY <2>2, <1>7
    <3>2. \A i \in DOMAIN session : session[i].under = chosen
      BY <2>2, <3>1 DEF AccountInv, PasscodeHeld
    <3> QED BY <2>2, <1>2, <1>3, <1>5, <3>2
  <2> QED BY <1>1, <2>1, <2>2 DEF PasscodeHeld
<1>12. FailuresCounted'
  <2>1. \A c \in Browsers : Verifying(c)' => Verifying(c) /\ request'[c] = request[c]
    BY <1>7, <1>8 DEF Verifying
  <2> QED BY <2>1, FailuresStay DEF AccountInv
<1> QED BY <1>9, <1>10, <1>11, <1>12 DEF AccountInv

\* Time passes: no window closes on a row before it is used again.
LEMMA TickStep == ASSUME AccountAssumption, AccountInv, Account!Tick PROVE AccountInv'
<1>1. /\ now \in Nat /\ now' = now + 1 /\ now' \in 0 .. MaxTime
      /\ UNCHANGED <<user, session, issued, cookie, request, chosen, overtaken, failedAt>>
  BY DEF Account!Tick, AccountInv, AccountShape, AccountAssumption
<1>2. AccountShape' BY <1>1 DEF AccountInv, AccountShape
<1>3. SessionsFit' BY <1>1 DEF AccountInv, AccountShape, SessionsFit, RowFits, SessionRows
<1>4. PasscodeHeld' BY <1>1 DEF AccountInv, PasscodeHeld, Holding
<1>5. FailuresCounted'
  BY <1>1
      DEF AccountInv, AccountShape, UserRows, Requests, FailuresCounted, Verifying, Bounded,
          Account!WrongPerWindow, AccountAssumption
<1> QED BY <1>2, <1>3, <1>4, <1>5 DEF AccountInv

\* Every step of the account.
LEMMA AccountStep ==
  ASSUME AccountAssumption, AccountInv, [Account!Next]_Account!vars PROVE AccountInv'
<1>1. ASSUME NEW b \in Browsers, Account!Lookup(b) PROVE AccountInv'
  <2>1. Thinned BY <1>1, ResolvedThins DEF Account!Lookup
  <2> QED BY <1>1, <2>1, LookupStep DEF Account!Lookup, AccountInv, AccountShape
<1>2. ASSUME NEW b \in Browsers, Account!Logout(b) PROVE AccountInv'
  <2>1. Thinned BY <1>2, WithoutThins DEF Account!Logout
  <2>2. cookie' \in [Browsers -> 0 .. issued]
    BY <1>2 DEF Account!Logout, AccountInv, AccountShape, AccountAssumption
  <2> QED BY <1>2, <2>1, <2>2, LookupStep DEF Account!Logout
<1>3. ASSUME NEW b \in Browsers, Account!IssueSession(b) PROVE AccountInv'
  BY <1>3, IssueStep DEF Account!IssueSession
<1>4. ASSUME NEW b \in Browsers, Account!Reissue(b) PROVE AccountInv'
  <2>1. session = Account!Without({}) BY DEF Account!Without, AccountInv, AccountShape
  <2>2. Account!Create(b, Account!Without({}), request[b].passcode) BY <1>4, <2>1
      DEF Account!Reissue, Account!Create
  <2> QED BY <1>4, <2>2, IssueStep DEF Account!Reissue
<1>5. CASE Account!PruneExpired \/ Account!RevokeEverySession
  <2>1. Thinned BY <1>5, WithoutThins DEF Account!PruneExpired, Account!RevokeEverySession
  <2> QED BY <1>5, <2>1, LookupStep
      DEF Account!PruneExpired, Account!RevokeEverySession, AccountInv, AccountShape
<1>6. CASE UNCHANGED Account!vars
  <2>1. Thinned BY <1>6 DEF Account!vars, Thinned, AccountInv, AccountShape, SessionsFit
  <2> QED BY <1>6, <2>1, LookupStep DEF Account!vars, AccountInv, AccountShape
<1> QED BY <1>1, <1>2, <1>3, <1>4, <1>5, <1>6, SetupSteps, InsertFirstUserStep, ReadUserStep,
           RecordFailureStep, RecordSuccessStep, StorePasscodeStep, RevokeAllStep, TickStep
        DEF Account!Next

\* The account (`_authenticate`, `change_password`, `record_failure`, `resolve`), whatever
\* overlaps: one; opened by the passcode chosen last, and every session of that passcode, unless
\* the change found a login or another change under way; tried wrongly at most the threshold's
\* number of times in any lockout period in which no two were verified at once; a session used
\* within every idle period is alive and none outlives its absolute expiry.
THEOREM AccountSoundAlways ==
  ASSUME AccountAssumption PROVE Account!Spec => []AccountSound
<1>1. Account!Init => AccountInv BY AccountStart
<1>2. AccountInv /\ [Account!Next]_Account!vars => AccountInv' BY AccountStep
<1>3. AccountInv => Account!AccountSound
  <2> SUFFICES ASSUME AccountInv PROVE Account!AccountSound OBVIOUS
  <2>1. Account!TypeOK
    <3>0. {0} \cup Account!Passcodes = 0 .. MaxChanges + 1
      BY DEF Account!Passcodes, AccountAssumption
    <3>1. /\ now \in 0 .. MaxTime /\ issued \in 0 .. MaxSessions /\ user.rows \in 0 .. 1
          /\ chosen \in {0} \cup Account!Passcodes
          /\ user.passcode \in {0} \cup Account!Passcodes /\ overtaken \in BOOLEAN
          /\ DOMAIN session \subseteq 1 .. issued /\ cookie \in [Browsers -> 0 .. issued]
      BY <3>0 DEF AccountInv, AccountShape
    <3>2. /\ user.attempts \in Nat /\ user.lockedUntil \in 0 .. MaxTime + LockoutDuration
          /\ (user.attempts = 0 => user.lockedUntil = 0)
      BY DEF AccountInv, AccountShape, UserRows, AccountAssumption
    <3>3. \A b \in Browsers : /\ request[b].at \in Account!Ats
                              /\ request[b].passcode \in {0} \cup Account!Passcodes
      BY <3>0 DEF AccountInv, AccountShape, Requests, PasscodeHeld
    <3> QED BY <3>1, <3>2, <3>3, SameCardinality
           DEF Account!TypeOK, AccountInv, FailuresCounted
  <2>2. Account!OneAccountOnePasscode BY
      DEF AccountInv, AccountShape, Account!OneAccountOnePasscode
  <2>3. Account!AbsoluteNeverExtends /\ Account!UsedStaysAlive
    BY DEF AccountInv, AccountShape, SessionRows, SessionsFit, RowFits, Account!Lower,
           Account!AbsoluteNeverExtends, Account!UsedStaysAlive, AccountAssumption
  <2>4. Account!SessionsAreOfThePasscode
    BY DEF AccountInv, AccountShape, PasscodeHeld, Account!SessionsAreOfThePasscode
  <2> QED BY <2>1, <2>2, <2>3, <2>4
          DEF Account!AccountSound, AccountInv, FailuresCounted
<1> QED BY <1>1, <1>2, <1>3, PTL DEF Account!Spec, AccountSound
-----------------------------------------------------------------------------
StateRows == [owner : Sessions, fresh : BOOLEAN, used : BOOLEAN]
LoginShape ==
  /\ state \in [DOMAIN state -> StateRows]
  /\ codeFor \in [Broker!States -> Nat] /\ exchanges \in [Broker!States -> Nat]
TokenExplained ==
  \/ token \in {Broker!NoApp, app}
  \/ \E s \in crossed : callback[s] = "over" /\ presented[s] = token
LoginSteps ==
  /\ \A c \in Sessions : connecting[c] <= app
  /\ \A s \in Broker!States :
       /\ s > minted => callback[s] = "none"
       /\ callback[s] \in {"none", "consumed"} => exchanges[s] = 0
       /\ exchanges[s] <= 1 /\ presented[s] <= app
       /\ callback[s] \in {"exchanging", "exchanged"} => presented[s] = app \/ s \in crossed
  /\ token <= app /\ (saving # "written" => TokenExplained)
LoginInv == Broker!TypeOK /\ LoginShape /\ LoginSteps

\* Nothing saved, nobody logging in.
LEMMA LoginStarts ==
  ASSUME MaxStates \in Nat, MaxApps \in Nat, Broker!Init PROVE LoginInv
BY
    DEF TokenExplained, Broker!Init, LoginInv, Broker!TypeOK, LoginShape, LoginSteps, Broker!NoApp, Broker!States, StateRows

\* Every step of the login and of saving the credentials.
LEMMA LoginStep ==
  ASSUME MaxStates \in Nat, MaxApps \in Nat, LoginInv, [Broker!Next]_Broker!vars
  PROVE  LoginInv'
<1> USE DEF Broker!NoApp, Broker!loginVars, TokenExplained
<1> USE DEF LoginInv
<1>1. CASE Broker!WriteCredential
  BY <1>1 DEF Broker!WriteCredential, Broker!Exchanging, Broker!TypeOK, LoginShape, LoginSteps
<1>2. CASE Broker!ClearToken BY <1>2 DEF Broker!ClearToken, Broker!TypeOK, LoginShape, LoginSteps
<1>3. CASE Broker!Reload BY <1>3 DEF Broker!Reload, Broker!TypeOK, LoginShape, LoginSteps
<1>4. CASE Broker!ClearAtWill BY <1>4
    DEF Broker!ClearAtWill, Broker!TypeOK, LoginShape, LoginSteps
<1>5. ASSUME NEW c \in Sessions, Broker!ReadCredentials(c) PROVE LoginInv'
  <2>1. Broker!TypeOK' BY <1>5
      DEF Broker!ReadCredentials, Broker!TypeOK, LoginShape, LoginSteps, StateRows
  <2>2. LoginShape' BY <1>5 DEF Broker!ReadCredentials, Broker!TypeOK, LoginShape, StateRows
  <2>3. LoginSteps' BY <1>5
      DEF Broker!ReadCredentials, Broker!TypeOK, LoginShape, LoginSteps, StateRows
  <2> QED BY <2>1, <2>2, <2>3
<1>6. ASSUME NEW s \in Broker!States, Broker!StateExpires(s) PROVE LoginInv'
  <2>0. /\ DOMAIN state' = DOMAIN state /\ state' = [t \in DOMAIN state' |-> state'[t]]
        /\ \A t \in DOMAIN state : /\ state'[t] \in StateRows /\ state'[t].owner = state[t].owner
                                   /\ state'[t].used = state[t].used
    BY <1>6 DEF Broker!StateExpires, LoginShape, StateRows
  <2>1. Broker!TypeOK'
    <3>1. \A t \in DOMAIN state' : /\ state'[t].owner \in Sessions /\ state'[t].fresh \in BOOLEAN
                                   /\ state'[t].used = (callback[t] # "none")
      BY <2>0 DEF Broker!TypeOK, StateRows
    <3>2. UNCHANGED <<app, saving, connecting, minted, codeFor, callback, presented, exchanges,
                      crossed, token>>
      BY <1>6 DEF Broker!StateExpires
    <3>3. DOMAIN state' \subseteq 1 .. minted' BY <2>0, <3>2 DEF Broker!TypeOK
    <3> QED BY <3>1, <3>2, <3>3 DEF Broker!TypeOK, Broker!States
  <2>2. LoginShape' BY <1>6, <2>0 DEF Broker!StateExpires, LoginShape
  <2>3. LoginSteps' BY <1>6 DEF Broker!StateExpires, LoginSteps
  <2> QED BY <2>1, <2>2, <2>3
<1>7. ASSUME NEW s \in Broker!States, Broker!Consume(s) PROVE LoginInv'
  <2>0. \A t \in DOMAIN state' : state'[t] \in StateRows /\ state'[t].used = (callback'[t] # "none")
    <3> SUFFICES ASSUME NEW t \in DOMAIN state'
                 PROVE  state'[t] \in StateRows /\ state'[t].used = (callback'[t] # "none")
      OBVIOUS
    <3>0. t \in DOMAIN state /\ t \in Broker!States
      BY <1>7 DEF Broker!Consume, Broker!Dead, Broker!TypeOK, LoginShape, Broker!States
    <3>1. CASE t = s
      <4>1. state'[t] = [state[t] EXCEPT !.used = TRUE] /\ callback'[t] = "consumed"
        BY <1>7, <3>0, <3>1 DEF Broker!Consume, Broker!TypeOK
      <4>2. state[t] \in StateRows BY <3>0 DEF LoginShape
      <4> QED BY <4>1, <4>2 DEF StateRows
    <3>2. CASE t # s BY <1>7, <3>0, <3>2
        DEF Broker!Consume, Broker!Dead, Broker!TypeOK, LoginShape, StateRows
    <3> QED BY <3>1, <3>2
  <2>1. Broker!TypeOK'
    <3>1. DOMAIN state' = DOMAIN state BY <1>7 DEF Broker!Consume, Broker!Dead
    <3>2. callback' \in [Broker!States -> {"none", "consumed", "exchanging", "exchanged", "over"}]
      BY <1>7 DEF Broker!Consume, Broker!Dead, Broker!TypeOK
    <3>3. presented' \in [Broker!States -> Broker!NoApp .. MaxApps]
      BY <1>7 DEF Broker!Consume, Broker!Dead, Broker!TypeOK
    <3>4. \A t \in Broker!States : exchanges'[t] \in 0 .. 2
                                 /\ (callback'[t] = "none" => exchanges'[t] = 0)
      BY <1>7 DEF Broker!Consume, Broker!Dead, Broker!TypeOK, LoginShape, LoginSteps
    <3> QED BY <1>7, <2>0, <3>1, <3>2, <3>3, <3>4
        DEF Broker!Consume, Broker!Dead, Broker!TypeOK, StateRows
  <2>2. LoginShape'
    <3>1. state' = [t \in DOMAIN state' |-> state'[t]] BY <1>7 DEF Broker!Consume
    <3>2. state' \in [DOMAIN state' -> StateRows] BY <2>0, <3>1
    <3> QED BY <1>7, <3>2 DEF Broker!Consume, LoginShape
  <2>3. LoginSteps' BY <1>7
      DEF Broker!Consume, Broker!Dead, Broker!TypeOK, LoginShape, LoginSteps, StateRows
  <2> QED BY <2>1, <2>2, <2>3
<1>8. ASSUME NEW s \in Broker!States, Broker!Proceed(s) PROVE LoginInv'
  <2>0. \A t \in DOMAIN state' : state'[t] \in StateRows /\ state'[t].used = (callback'[t] # "none")
    <3> SUFFICES ASSUME NEW t \in DOMAIN state'
                 PROVE  state'[t] \in StateRows /\ state'[t].used = (callback'[t] # "none")
      OBVIOUS
    <3>0. t \in DOMAIN state /\ t \in Broker!States
      BY <1>8 DEF Broker!Proceed, Broker!TypeOK, LoginShape, Broker!States
    <3>1. CASE t = s BY <1>8, <3>0, <3>1 DEF Broker!Proceed, Broker!TypeOK, LoginShape, StateRows
    <3>2. CASE t # s BY <1>8, <3>0, <3>2 DEF Broker!Proceed, Broker!TypeOK, LoginShape, StateRows
    <3> QED BY <3>1, <3>2
  <2>1. Broker!TypeOK'
    <3>1. DOMAIN state' = DOMAIN state BY <1>8 DEF Broker!Proceed
    <3>2. callback' \in [Broker!States -> {"none", "consumed", "exchanging", "exchanged", "over"}]
      BY <1>8 DEF Broker!Proceed, Broker!TypeOK
    <3>3. presented' \in [Broker!States -> Broker!NoApp .. MaxApps]
      BY <1>8 DEF Broker!Proceed, Broker!TypeOK
    <3>4. \A t \in Broker!States : exchanges'[t] \in 0 .. 2
                                 /\ (callback'[t] = "none" => exchanges'[t] = 0)
      BY <1>8 DEF Broker!Proceed, Broker!TypeOK, LoginShape, LoginSteps
    <3> QED BY <1>8, <2>0, <3>1, <3>2, <3>3, <3>4 DEF Broker!Proceed, Broker!TypeOK, StateRows
  <2>2. LoginShape' BY <1>8 DEF Broker!Proceed, Broker!TypeOK, LoginShape, StateRows
  <2>3. LoginSteps' BY <1>8 DEF Broker!Proceed, Broker!TypeOK, LoginShape, LoginSteps, StateRows
  <2> QED BY <2>1, <2>2, <2>3
<1>9. ASSUME NEW s \in Broker!States, Broker!Exchange(s) PROVE LoginInv'
  <2>0. \A t \in DOMAIN state' : state'[t] \in StateRows /\ state'[t].used = (callback'[t] # "none")
    <3> SUFFICES ASSUME NEW t \in DOMAIN state'
                 PROVE  state'[t] \in StateRows /\ state'[t].used = (callback'[t] # "none")
      OBVIOUS
    <3>0. t \in DOMAIN state /\ t \in Broker!States
      BY <1>9 DEF Broker!Exchange, Broker!TypeOK, LoginShape, Broker!States
    <3>1. CASE t = s BY <1>9, <3>0, <3>1 DEF Broker!Exchange, Broker!TypeOK, LoginShape, StateRows
    <3>2. CASE t # s BY <1>9, <3>0, <3>2 DEF Broker!Exchange, Broker!TypeOK, LoginShape, StateRows
    <3> QED BY <3>1, <3>2
  <2>1. Broker!TypeOK'
    <3>1. DOMAIN state' = DOMAIN state BY <1>9 DEF Broker!Exchange
    <3>2. callback' \in [Broker!States -> {"none", "consumed", "exchanging", "exchanged", "over"}]
      BY <1>9 DEF Broker!Exchange, Broker!TypeOK
    <3>3. presented' \in [Broker!States -> Broker!NoApp .. MaxApps]
      BY <1>9 DEF Broker!Exchange, Broker!TypeOK
    <3>4. \A t \in Broker!States : exchanges'[t] \in 0 .. 2
                                 /\ (callback'[t] = "none" => exchanges'[t] = 0)
      BY <1>9 DEF Broker!Exchange, Broker!TypeOK, LoginShape, LoginSteps
    <3> QED BY <1>9, <2>0, <3>1, <3>2, <3>3, <3>4 DEF Broker!Exchange, Broker!TypeOK, StateRows
  <2>2. LoginShape' BY <1>9 DEF Broker!Exchange, Broker!TypeOK, LoginShape, StateRows
  <2>3. LoginSteps' BY <1>9 DEF Broker!Exchange, Broker!TypeOK, LoginShape, LoginSteps, StateRows
  <2> QED BY <2>1, <2>2, <2>3
<1>11. ASSUME NEW c \in Sessions, Broker!StoreState(c) PROVE LoginInv'
  <2> DEFINE n == minted'
  <2>1. /\ n = minted + 1 /\ n \in Broker!States /\ minted \in Nat
        /\ n \notin DOMAIN state /\ DOMAIN state \subseteq 1 .. minted
    BY <1>11 DEF Broker!StoreState, Broker!TypeOK, Broker!States
  <2>2. /\ DOMAIN state' = Broker!Kept(c) \cup {n} /\ Broker!Kept(c) \subseteq DOMAIN state
        /\ state'[n] = [owner |-> c, fresh |-> TRUE, used |-> FALSE]
        /\ \A t \in Broker!Kept(c) : state'[t] = state[t]
    BY <1>11, <2>1 DEF Broker!StoreState, Broker!Kept
  <2>3. /\ connecting[c] \in 1 .. app /\ connecting[c] \in Nat
        /\ codeFor' = [codeFor EXCEPT ![n] = connecting[c]]
        /\ connecting' = [connecting EXCEPT ![c] = Broker!NoApp]
        /\ UNCHANGED <<app, saving, callback, presented, exchanges, crossed, token>>
    BY <1>11 DEF Broker!StoreState, Broker!TypeOK, LoginSteps
  <2>4. \A t \in DOMAIN state' : state'[t] \in StateRows /\ state'[t].used = (callback'[t] # "none")
    <3>1. callback[n] = "none" BY <2>1, <1>11 DEF LoginSteps
    <3>2. \A t \in Broker!Kept(c) : state[t] \in StateRows /\ state[t].used = (callback[t] # "none")
      BY <2>2 DEF Broker!TypeOK, LoginShape
    <3> SUFFICES ASSUME NEW t \in DOMAIN state'
                 PROVE  state'[t] \in StateRows /\ state'[t].used = (callback'[t] # "none")
      OBVIOUS
    <3>3. CASE t = n
      <4>1. state'[n] \in StateRows /\ state'[n].used = FALSE BY <2>2 DEF StateRows
      <4>2. (callback'[n] # "none") = FALSE BY <2>3, <3>1
      <4> QED BY <3>3, <4>1, <4>2
    <3>4. CASE t \in Broker!Kept(c) BY <2>2, <2>3, <3>2, <3>4
    <3> QED BY <2>2, <3>3, <3>4
  <2>5. Broker!TypeOK'
    <3>1. minted' \in 0 .. MaxStates /\ DOMAIN state' \subseteq 1 .. minted'
      BY <2>1, <2>2 DEF Broker!States
    <3>2. \A t \in Broker!States :
            codeFor'[t] \in Broker!NoApp .. app /\ (codeFor'[t] = Broker!NoApp <=> t > minted')
      BY <2>1, <2>3 DEF Broker!TypeOK, LoginShape, Broker!States
    <3> QED BY <2>3, <2>4, <3>1, <3>2 DEF Broker!TypeOK, StateRows
  <2>6. LoginShape'
    <3>1. state' = [t \in DOMAIN state' |-> state'[t]] BY <1>11 DEF Broker!StoreState
    <3>2. state' \in [DOMAIN state' -> StateRows] BY <2>4, <3>1
    <3> QED BY <2>3, <3>2 DEF LoginShape
  <2>7. LoginSteps'
    <3>1. \A d \in Sessions : connecting'[d] <= app'
      BY <2>3 DEF LoginSteps, Broker!TypeOK
    <3>2. \A t \in Broker!States : t > minted' => callback'[t] = "none"
      BY <2>1, <2>3 DEF LoginSteps, Broker!States
    <3> QED BY <2>3, <3>1, <3>2 DEF LoginSteps
  <2> QED BY <2>5, <2>6, <2>7
<1>10. ASSUME NEW s \in Broker!States, Broker!StoreLogin(s) PROVE LoginInv'
  <2>1. Broker!TypeOK' BY <1>10
      DEF Broker!StoreLogin, Broker!TypeOK, LoginShape, LoginSteps, StateRows
  <2>2. LoginShape' BY <1>10 DEF Broker!StoreLogin, Broker!TypeOK, LoginShape, StateRows
  <2>3. LoginSteps' BY <1>10
      DEF Broker!StoreLogin, Broker!TypeOK, LoginShape, LoginSteps, StateRows
  <2> QED BY <2>1, <2>2, <2>3
<1>12. CASE UNCHANGED Broker!vars
  BY <1>12 DEF Broker!vars, Broker!TypeOK, LoginShape, LoginSteps, Broker!States
<1> QED BY <1>1, <1>2, <1>3, <1>4, <1>5, <1>6, <1>7, <1>8, <1>9, <1>10, <1>11, <1>12
        DEF Broker!Next, Broker!Callback

\* The broker's login (`_consume_state`, `save_credentials`): once a save is over, the stored
\* token is of the app that is stored, or there is none, or a login stored it that was being
\* exchanged when the app was replaced; and a state is exchanged at most once, however often
\* its redirect is followed.
THEOREM LoginSoundAlways ==
  ASSUME MaxStates \in Nat, MaxApps \in Nat
  PROVE  Broker!Spec => []LoginSound
<1>1. Broker!Init => LoginInv BY LoginStarts
<1>2. LoginInv /\ [Broker!Next]_Broker!vars => LoginInv' BY LoginStep
<1>3. LoginInv => LoginSound
  BY DEF LoginInv, LoginSteps, TokenExplained, LoginSound, Broker!LoginSound, Broker!TokenFitsCredential,
         Broker!StateUsedOnce
<1> QED BY <1>1, <1>2, <1>3, PTL DEF Broker!Spec
-----------------------------------------------------------------------------
SettingsAssumption ==
  /\ MaxWrites \in Nat /\ MaxRestarts \in Nat
  /\ Tight \subseteq Good /\ Configured!Default \notin Good \cup Bad /\ Good \cap Bad = {}

\* What is stored and not yet cached: by one writer for a key that no two have raced for.
WritesApart ==
  /\ \A w \in Writers, k \in Keys : pending[w][k] # Configured!Default =>
       pending[w][k] \notin refused /\ (k \notin raced => pending[w][k] = table[k])
  /\ \A k \in Keys \ raced, v, w \in Writers :
       pending[v][k] # Configured!Default /\ pending[w][k] # Configured!Default => v = w
CacheIsTable ==
  /\ ~cache.loaded => cache.of = Configured!Nothing
  /\ cache.loaded => \A k \in Keys \ raced :
       cache.of[k] = Configured!Loaded(table)[k]
       \/ \E w \in Writers : pending[w][k] # Configured!Default
SettingsInv ==
  /\ Configured!TypeOK /\ WritesApart /\ CacheIsTable
  /\ Configured!AllOrNothing /\ Configured!NeverServesRefused

\* Nothing cached, nothing under way.
LEMMA SettingsStart == ASSUME SettingsAssumption, Configured!Init PROVE SettingsInv
BY
    DEF SettingsAssumption, Configured!Init, SettingsInv, Configured!TypeOK, WritesApart, CacheIsTable,
       Configured!AllOrNothing, Configured!NeverServesRefused, Configured!Nothing, Configured!NoCache,
       Configured!Values

\* The cache is filled, from the table or with nothing.
LEMMA FillStep ==
  ASSUME SettingsAssumption, SettingsInv, Configured!FillCache PROVE SettingsInv'
<1> USE DEF SettingsAssumption, SettingsInv, Configured!FillCache
<1>1. PICK of \in {Configured!Loaded(table), Configured!Nothing} :
        cache' = [loaded |-> TRUE, of |-> of] /\ raced' = raced \cup Configured!Missing(of)
  OBVIOUS
<1>2. /\ of \in [Keys -> Configured!Values]
      /\ \A k \in Keys : of[k] \notin refused
      /\ \A k \in Keys \ Configured!Missing(of) : of[k] = Configured!Loaded(table)[k]
  BY <1>1 DEF Configured!Loaded, Configured!Nothing, Configured!Missing, Configured!TypeOK,
              Configured!Values
<1>3. raced' \subseteq Keys BY <1>1 DEF Configured!Missing, Configured!TypeOK
<1>4. Configured!TypeOK' BY <1>1, <1>2, <1>3 DEF Configured!TypeOK
<1>5. WritesApart' BY <1>1 DEF WritesApart
<1>6. CacheIsTable' BY <1>1, <1>2 DEF CacheIsTable, Configured!Loaded
<1>7. Configured!AllOrNothing' BY DEF Configured!AllOrNothing
<1>8. Configured!NeverServesRefused' BY <1>1, <1>2 DEF Configured!NeverServesRefused
<1> QED BY <1>4, <1>5, <1>6, <1>7, <1>8

\* What was stored is cached, in what is cached already or in a cache of its own.
LEMMA CacheStep ==
  ASSUME SettingsAssumption, SettingsInv, NEW w \in Writers, Configured!Cache(w)
  PROVE  SettingsInv'
<1> USE DEF SettingsAssumption, SettingsInv
<1> DEFINE of == Configured!Overlay(cache.of, pending[w])
<1>1. /\ cache' = [loaded |-> TRUE, of |-> of]
      /\ raced' = IF cache.loaded THEN raced ELSE raced \cup Configured!Missing(of)
      /\ pending' = [pending EXCEPT ![w] = Configured!Nothing]
      /\ UNCHANGED <<table, refused, together, writes, restarts>>
  BY DEF Configured!Cache, Configured!Update
<1>2. of \in [Keys -> Configured!Values]
      /\ \A k \in Keys : of[k] = IF pending[w][k] = Configured!Default THEN cache.of[k]
                                  ELSE pending[w][k]
  BY DEF Configured!Overlay, Configured!TypeOK
<1>3. raced \subseteq raced' /\ raced' \subseteq Keys
  BY <1>1 DEF Configured!Missing, Configured!TypeOK
<1>4. pending' \in [Writers -> [Keys -> Configured!Values]]
      /\ \A v \in Writers, k \in Keys :
           pending'[v][k] = IF v = w THEN Configured!Default ELSE pending[v][k]
  BY <1>1 DEF Configured!Nothing, Configured!TypeOK, Configured!Values
<1> HIDE DEF of
<1>5. Configured!TypeOK' BY <1>1, <1>2, <1>3, <1>4 DEF Configured!TypeOK
<1>6. WritesApart' BY <1>1, <1>3, <1>4 DEF WritesApart
<1>7. CacheIsTable'
  <2>1. cache'.loaded BY <1>1
  <2>2. SUFFICES ASSUME NEW k \in Keys \ raced',
                        \A v \in Writers : pending'[v][k] = Configured!Default
                 PROVE  of[k] = Configured!Loaded(table)[k]
    BY <1>1, <2>1 DEF CacheIsTable, Configured!Loaded
  <2>3. CASE pending[w][k] # Configured!Default
    BY <2>3, <1>2, <1>3 DEF WritesApart, Configured!Loaded
  <2>4. CASE pending[w][k] = Configured!Default /\ cache.loaded
    BY <2>2, <2>4, <1>2, <1>3, <1>4 DEF CacheIsTable
  <2>5. CASE pending[w][k] = Configured!Default /\ ~cache.loaded
    <3>1. of[k] = Configured!Default
      BY <2>5, <1>2 DEF CacheIsTable, Configured!Nothing
    <3>2. k \notin Configured!Missing(of) BY <2>5, <1>1
    <3> QED BY <3>1, <3>2 DEF Configured!Missing
  <2> QED BY <2>3, <2>4, <2>5
<1>8. Configured!AllOrNothing' BY <1>1 DEF Configured!AllOrNothing
<1>9. Configured!NeverServesRefused'
  BY <1>1, <1>2 DEF Configured!NeverServesRefused, WritesApart
<1> QED BY <1>5, <1>6, <1>7, <1>8, <1>9

\* A request is stored: the keys it names race with whoever has stored them and not cached.
LEMMA StoreStep ==
  ASSUME SettingsAssumption, SettingsInv, NEW w \in Writers,
         NEW asked \in [Keys -> Configured!Values \cup Bad], Configured!Store(w, asked)
  PROVE  SettingsInv'
<1> USE DEF SettingsAssumption, SettingsInv
<1>1. /\ pending[w] = Configured!Nothing /\ writes < MaxWrites
      /\ \A k \in Keys : asked[k] \in Configured!Values /\ asked[k] \notin refused
      /\ table' = [k \in Keys |-> IF asked[k] = Configured!Default THEN table[k] ELSE asked[k]]
      /\ pending' = [pending EXCEPT ![w] = asked]
      /\ raced' = {k \in Keys : IF asked[k] = Configured!Default THEN k \in raced
                                ELSE Configured!Writing(k) # {}}
      /\ together' = (together /\ \A k \in Keys : asked[k] # Configured!Default)
      /\ writes' = writes + 1 /\ UNCHANGED <<cache, refused, restarts>>
  BY DEF Configured!Store, Configured!Accepted, Configured!Overlay, Configured!TypeOK,
         Configured!Values
<1>2. \A v \in Writers, k \in Keys :
        pending'[v][k] = IF v = w THEN asked[k] ELSE pending[v][k]
  BY <1>1 DEF Configured!TypeOK
<1>3. \A k \in Keys \ raced' :
        \/ asked[k] = Configured!Default /\ k \notin raced
        \/ /\ asked[k] # Configured!Default
           /\ \A v \in Writers : pending[v][k] = Configured!Default
  BY <1>1 DEF Configured!Writing
<1>4. pending[w] = [k \in Keys |-> Configured!Default] BY <1>1 DEF Configured!Nothing
<1>5. Configured!TypeOK'
  <2>1. table' \in [Keys -> Configured!Values] BY <1>1 DEF Configured!TypeOK
  <2>2. pending' \in [Writers -> [Keys -> Configured!Values]] BY <1>1 DEF Configured!TypeOK
  <2>3. raced' \subseteq Keys BY <1>1
  <2> QED BY <1>1, <2>1, <2>2, <2>3 DEF Configured!TypeOK
<1>6. WritesApart'
  <2>1. ASSUME NEW v \in Writers, NEW k \in Keys, pending'[v][k] # Configured!Default
        PROVE  pending'[v][k] \notin refused
    BY <2>1, <1>1, <1>2 DEF WritesApart
  <2>2. ASSUME NEW v \in Writers, NEW k \in Keys \ raced', pending'[v][k] # Configured!Default
        PROVE  pending'[v][k] = table'[k]
    BY <2>2, <1>1, <1>2, <1>3 DEF WritesApart
  <2>3. ASSUME NEW k \in Keys \ raced', NEW u \in Writers, NEW v \in Writers,
               pending'[u][k] # Configured!Default, pending'[v][k] # Configured!Default
        PROVE  u = v
    BY <2>3, <1>2, <1>3, <1>4 DEF WritesApart
  <2> QED BY <1>1, <2>1, <2>2, <2>3 DEF WritesApart
<1>7. CacheIsTable'
  <2>1. ASSUME cache.loaded, NEW k \in Keys \ raced'
        PROVE  cache.of[k] = Configured!Loaded(table)'[k]
               \/ \E v \in Writers : pending'[v][k] # Configured!Default
    <3>1. CASE asked[k] # Configured!Default BY <3>1, <1>2
    <3>2. CASE asked[k] = Configured!Default
      <4>1. table'[k] = table[k] /\ k \notin raced BY <3>2, <1>1, <1>3
      <4>2. Configured!Loaded(table)'[k] = Configured!Loaded(table)[k]
        BY <4>1, <1>1 DEF Configured!Loaded
      <4>3. CASE \E v \in Writers : pending[v][k] # Configured!Default
        BY <4>3, <3>2, <1>2, <1>4
      <4> QED BY <2>1, <4>1, <4>2, <4>3 DEF CacheIsTable
    <3> QED BY <3>1, <3>2
  <2> QED BY <1>1, <2>1 DEF CacheIsTable, Configured!Loaded, Configured!Nothing
<1>8. Configured!AllOrNothing' BY <1>1 DEF Configured!AllOrNothing, Configured!TypeOK
<1>9. Configured!NeverServesRefused' BY <1>1 DEF Configured!NeverServesRefused
<1> QED BY <1>5, <1>6, <1>7, <1>8, <1>9

\* Every step of the settings.
LEMMA SettingsStep ==
  ASSUME SettingsAssumption, SettingsInv, [Configured!Next]_Configured!vars PROVE SettingsInv'
<1>1. CASE Configured!FillCache BY <1>1, FillStep
<1>2. CASE Configured!Restart
  <2> USE <1>2 DEF SettingsAssumption, SettingsInv, Configured!Restart, Configured!Nothing,
                   Configured!NoCache, Configured!Values
  <2>1. Configured!TypeOK' BY DEF Configured!TypeOK
  <2>2. WritesApart' BY DEF WritesApart
  <2>3. CacheIsTable' BY DEF CacheIsTable, Configured!TypeOK
  <2>4. Configured!AllOrNothing' BY DEF Configured!AllOrNothing
  <2>5. Configured!NeverServesRefused'
    BY DEF Configured!NeverServesRefused, Configured!TypeOK
  <2> QED BY <2>1, <2>2, <2>3, <2>4, <2>5
<1>3. ASSUME NEW w \in Writers, Configured!Cache(w) PROVE SettingsInv' BY <1>3, CacheStep
<1>4. ASSUME NEW w \in Writers, NEW asked \in [Keys -> Configured!Values \cup Bad],
             Configured!Store(w, asked)
      PROVE  SettingsInv'
  BY <1>4, StoreStep
<1>5. CASE UNCHANGED Configured!vars
  BY <1>5
      DEF SettingsInv, Configured!vars, Configured!TypeOK, WritesApart, CacheIsTable,
          Configured!AllOrNothing, Configured!NeverServesRefused, Configured!Loaded,
          Configured!Nothing
<1> QED BY <1>1, <1>2, <1>3, <1>4, <1>5 DEF Configured!Next

\* The settings (`SettingsStore.set_many`, `_load`), however many requests write them at once:
\* a key whose last write met no other write of it is answered as the table holds it, a
\* request stores all its settings or none, and no value the running build refuses is served.
THEOREM SettingsSoundAlways ==
  ASSUME SettingsAssumption PROVE Configured!Spec => []SettingsSound
<1>1. Configured!Init => SettingsInv BY SettingsStart
<1>2. SettingsInv /\ [Configured!Next]_Configured!vars => SettingsInv' BY SettingsStep
<1>3. SettingsInv => Configured!SettingsSound
  BY
      DEF SettingsInv, CacheIsTable, Configured!SettingsSound, Configured!CacheAgrees, Configured!Writing
<1> QED BY <1>1, <1>2, <1>3, PTL DEF Configured!Spec, SettingsSound
-----------------------------------------------------------------------------
KeysAssumption ==
  MaxVersion \in Nat \ {0} /\ MaxKills \in Nat

Wrapped(key) == key > 0 /\ \A v \in Keyring!Usable : row[v].kek = key

\* What survives every kill and every refused start.
KeysKept ==
  /\ Keyring!NoKeyIsOrphaned
  /\ \A f \in Fields \ late : field[f] \in {0} \cup Keyring!Usable
DownInv ==
  /\ op = Keyring!NoOp /\ provider = "keyfile" /\ KeysKept
  /\ \A f \in Fields : writing[f] = 0
  /\ Keyring!Used # {} => Keyring!Active # {}
  /\ ~cut => \/ material["keyfile"] = Keyring!Absent /\ Keyring!Used = {}
             \/ Wrapped(material["keyfile"]) /\ \E x \in Keyring!Versions : Keyring!Active = {x}
RefusedInv == op = Keyring!NoOp /\ cut /\ KeysKept
Rotating ==
  /\ op.rows = {active} /\ Wrapped(material[provider])
  /\ \E v \in Keyring!Versions \ {active} :
       Keyring!Active = {active, v} /\ loaded = Keyring!Usable \ {v}
Rewrapping ==
  /\ op.rows # {} /\ op.rows \subseteq Keyring!Usable
  /\ \A v \in Keyring!Usable :
       row[v].kek = IF v \in op.rows THEN material[provider] ELSE material[Keyring!Other]
FieldsRead ==
  /\ \A f \in Fields \ late : field[f] \in {0} \cup loaded
  /\ \A f \in Fields : writing[f] \in {0} \cup loaded \/ row[writing[f]].state = "retired"
UpInv ==
  /\ active \in Keyring!Active /\ active \in loaded /\ material[provider] > 0
  /\ (\A p \in Keyring!Providers : material[p] # 0) /\ ~cut /\ FieldsRead
  /\ op.name # "rotate" => loaded = Keyring!Usable /\ Keyring!Active = {active}
  /\ op.name = "none" => op = Keyring!NoOp /\ Wrapped(material[provider])
  /\ op.name = "rotate" => Rotating
  /\ op.name \in {"rewrap", "settle"} => material[Keyring!Other] > 0
  /\ op.name = "rewrap" => Rewrapping
  /\ op.name = "settle" => Wrapped(material[Keyring!Other])
KeysShape ==
  /\ material \in [Keyring!Providers -> Keyring!Absent .. made] /\ made \in Nat
  /\ row \in [Keyring!Versions -> [kek : Keyring!Absent .. made,
                                state : {"none", "active", "retiring", "retired"}]]
  /\ up \in {"down", "up", "refused"} /\ cut \in BOOLEAN /\ late \subseteq Fields /\ provider \in Keyring!Providers
  /\ active \in 0 .. MaxVersion /\ loaded \subseteq Keyring!Versions
  /\ field \in [Fields -> 0 .. MaxVersion] /\ writing \in [Fields -> 0 .. MaxVersion]
  /\ op \in [name : {"none", "rotate", "rewrap", "settle"}, rows : SUBSET Keyring!Versions]
  /\ kills \in 0 .. MaxKills
  /\ material["keyring"] # 0
KeysInv ==
  KeysShape /\ (up = "down" => DownInv) /\ (up = "up" => UpInv) /\ (up = "refused" => RefusedInv)

\* No row, no key, the process down.
LEMMA KeysStart == ASSUME KeysAssumption, Keyring!Init PROVE KeysInv
<1> USE DEF Keyring!Providers, Keyring!Absent, Keyring!NoRow, Keyring!NoOp
<1>1. KeysShape
  <2>1. /\ material \in [Keyring!Providers -> Keyring!Absent .. made] /\ made \in Nat
        /\ material["keyring"] # 0
    BY DEF Keyring!Init
  <2>2. row \in [Keyring!Versions -> [kek : Keyring!Absent .. made,
                                state : {"none", "active", "retiring", "retired"}]]
    BY DEF Keyring!Init
  <2>3. op \in [name : {"none", "rotate", "rewrap", "settle"}, rows : SUBSET Keyring!Versions]
    BY DEF Keyring!Init
  <2>4. field \in [Fields -> 0 .. MaxVersion] /\ writing \in [Fields -> 0 .. MaxVersion]
    BY DEF KeysAssumption, Keyring!Init
  <2>5. /\ up = "down" /\ late = {} /\ provider = "keyfile"
        /\ active \in 0 .. MaxVersion /\ loaded = {} /\ kills \in 0 .. MaxKills
    BY DEF KeysAssumption, Keyring!Init
  <2>6. cut \in BOOLEAN BY DEF Keyring!Init
  <2> QED BY <2>1, <2>2, <2>3, <2>4, <2>5, <2>6 DEF KeysShape
<1>2. Keyring!Usable = {} /\ Keyring!Used = {}
  BY DEF Keyring!Init, Keyring!Usable, Keyring!Used
<1>3. DownInv
  BY <1>2 DEF Keyring!Init, DownInv, KeysKept, Keyring!NoKeyIsOrphaned
<1> QED BY <1>1, <1>3 DEF Keyring!Init, KeysInv

\* There are two providers: the other one is not the one in use.
LEMMA OtherIsOther ==
  ASSUME provider \in Keyring!Providers
  PROVE  Keyring!Other \in Keyring!Providers /\ Keyring!Other # provider
         /\ \A p \in Keyring!Providers : p = provider \/ p = Keyring!Other
<1>1. \E p \in Keyring!Providers : p # provider BY DEF Keyring!Providers
<1>2. Keyring!Other \in Keyring!Providers /\ Keyring!Other # provider BY <1>1 DEF Keyring!Other
<1> QED BY <1>2 DEF Keyring!Providers

\* One active row.
LEMMA LoadsHasOneActive ==
  ASSUME KeysAssumption, NEW key, NEW rs, Keyring!Loads(key, rs)
  PROVE  \E x \in Keyring!Versions : {v \in Keyring!Versions : rs[v].state = "active"} = {x}
<1> DEFINE usable == {v \in Keyring!Versions : rs[v].state \in {"active", "retiring"}}
           A == {v \in usable : rs[v].state = "active"}
<1>1. Keyring!Cardinality(A) = 1 BY DEF Keyring!Loads
<1>2. Keyring!Cardinality(A) = Cardinality(A) BY DEF Keyring!Cardinality, Cardinality
<1>3. IsFiniteSet(A)
  <2>1. A \subseteq 1 .. MaxVersion BY DEF Keyring!Versions
  <2>2. IsFiniteSet(1 .. MaxVersion) BY FS_Interval DEF KeysAssumption
  <2>3. A \subseteq 1 .. MaxVersion BY <2>1
  <2> HIDE DEF A
  <2> QED BY <2>2, <2>3, FS_Subset
<1>4. A = {v \in Keyring!Versions : rs[v].state = "active"} OBVIOUS
<1> HIDE DEF A
<1>5. \E x : A = {x} BY <1>1, <1>2, <1>3, FS_Singleton
<1> QED BY <1>4, <1>5

\* What the file's key unwraps with one active row can be loaded.
LEMMA HealthyLoads ==
  ASSUME NEW key \in Nat \ {0}, NEW rs,
         NEW x \in Keyring!Versions, {v \in Keyring!Versions : rs[v].state = "active"} = {x},
         \A v \in Keyring!Versions : rs[v].state \in {"active", "retiring"} => rs[v].kek = key
  PROVE  Keyring!Loads(key, rs)
<1> DEFINE usable == {v \in Keyring!Versions : rs[v].state \in {"active", "retiring"}}
<1>1. {v \in usable : rs[v].state = "active"} = {x} /\ x \in usable
      /\ key > 0 /\ \A v \in usable : rs[v].kek = key
  OBVIOUS
<1> HIDE DEF usable
<1>2. Keyring!Cardinality({x}) = 1
  <2>1. Keyring!Cardinality({x}) = Cardinality({x}) BY DEF Keyring!Cardinality, Cardinality
  <2> QED BY <2>1, FS_Singleton
<1> QED BY <1>1, <1>2 DEF Keyring!Loads, usable

\* A start makes the first key and its row, or finds the key that wraps every usable row; it
\* is refused only after a kill that cut an operation short.
LEMMA StartStep == ASSUME KeysAssumption, KeysInv, Keyring!Start PROVE KeysInv'
<1> DEFINE key == IF Keyring!Provisioned("keyfile") THEN material["keyfile"] ELSE made + 1
           first == IF Keyring!Used = {} THEN 1 ELSE Keyring!Max(Keyring!Used) + 1
           fresh == [row EXCEPT ![first] = [kek |-> key, state |-> "active"]]
           rows == IF Keyring!Active # {} \/ key <= 0 \/ first > MaxVersion THEN row ELSE fresh
<1>1. DownInv /\ KeysShape /\ up = "down" BY DEF KeysInv, Keyring!Start
<1>2. /\ material' = [material EXCEPT !["keyfile"] = key] /\ row' = rows
      /\ made' = (IF Keyring!Provisioned("keyfile") THEN made ELSE made + 1)
      /\ \/ Keyring!Loads(key, rows) /\ up' = "up" /\ Keyring!Cache(rows) /\ cut' = FALSE
         \/ ~Keyring!Loads(key, rows) /\ up' = "refused" /\ UNCHANGED <<active, loaded, cut>>
      /\ UNCHANGED <<provider, field, writing, op, kills, late>>
  BY DEF Keyring!Start
<1>3. /\ material["keyfile"] \in Keyring!Absent .. made /\ made \in Nat
      /\ key \in Nat /\ made' \in Nat /\ made <= made' /\ key <= made'
      /\ material' \in [Keyring!Providers -> Keyring!Absent .. made']
      /\ material'["keyfile"] = key /\ material'["keyring"] = material["keyring"]
      /\ (Keyring!Provisioned("keyfile") => material' = material)
  BY <1>1, <1>2 DEF KeysShape, Keyring!Provisioned, Keyring!Absent, Keyring!Providers
<1>4. Keyring!Used = {} => first = 1 /\ Keyring!Active = {}
        /\ \A v \in Keyring!Versions : row[v].state = "none"
  BY DEF Keyring!Used, Keyring!NoRow, Keyring!Active
<1>5. CASE rows = row
  <2>1. row' = row /\ Keyring!Usable' = Keyring!Usable /\ Keyring!Active' = Keyring!Active
    BY <1>2, <1>5 DEF Keyring!Usable, Keyring!Active
  <2>2. row' \in [Keyring!Versions -> [kek : Keyring!Absent .. made',
                                state : {"none", "active", "retiring", "retired"}]]
    BY <1>1, <1>3, <2>1 DEF KeysShape, Keyring!Absent
  <2>3. KeysKept'
    <3>1. \A v \in Keyring!Usable : row[v].kek > 0 /\ \E p \in Keyring!Providers : material'[p] = row[v].kek
      <4> SUFFICES ASSUME NEW v \in Keyring!Usable
                   PROVE  row[v].kek > 0 /\ \E p \in Keyring!Providers : material'[p] = row[v].kek
        OBVIOUS
      <4>1. PICK p \in Keyring!Providers : material[p] = row[v].kek /\ row[v].kek > 0
        BY <1>1 DEF DownInv, KeysKept, Keyring!NoKeyIsOrphaned
      <4>2. CASE Keyring!Provisioned("keyfile") BY <1>3, <4>1, <4>2
      <4>3. CASE ~Keyring!Provisioned("keyfile")
        <5>1. p = "keyring"
          BY <4>1, <4>3 DEF Keyring!Provisioned, Keyring!Absent, Keyring!Providers
        <5> QED BY <1>3, <4>1, <5>1
      <4> QED BY <4>2, <4>3
    <3> QED BY <1>1, <1>2, <2>1, <3>1 DEF DownInv, KeysKept, Keyring!NoKeyIsOrphaned
  <2>4. CASE ~Keyring!Loads(key, rows)
    <3>1. up' = "refused" /\ UNCHANGED <<active, loaded, cut, provider, field, writing, op, kills, late>>
      BY <1>2, <2>4
    <3>2. cut
      <4> SUFFICES ASSUME ~cut PROVE FALSE OBVIOUS
      <4>1. CASE material["keyfile"] = Keyring!Absent /\ Keyring!Used = {}
        <5>1. key > 0 BY <1>3, <4>1 DEF Keyring!Provisioned
        <5>2. rows = fresh /\ 1 \in Keyring!Versions
          BY <1>3, <1>4, <4>1, <5>1 DEF KeysAssumption, Keyring!Versions
        <5>3. fresh[1].state = "active" BY <1>1, <1>4, <4>1, <5>2 DEF KeysShape
        <5> QED BY <1>4, <1>5, <4>1, <5>2, <5>3
      <4>2. CASE Wrapped(material["keyfile"])
                 /\ \E x \in Keyring!Versions : Keyring!Active = {x}
        <5>1. PICK x \in Keyring!Versions : Keyring!Active = {x} BY <4>2
        <5>2. key = material["keyfile"] /\ key \in Nat \ {0}
          BY <1>3, <4>2 DEF Wrapped, Keyring!Provisioned, Keyring!Absent
        <5>3. \A v \in Keyring!Versions : row[v].state \in {"active", "retiring"} => row[v].kek = key
          BY <4>2, <5>2 DEF Wrapped, Keyring!Usable
        <5> HIDE DEF key, rows
        <5> QED BY <1>5, <2>4, <5>1, <5>2, <5>3, HealthyLoads DEF Keyring!Active
      <4> QED BY <1>1, <4>1, <4>2 DEF DownInv
    <3>3. KeysShape' BY <1>1, <1>3, <2>2, <3>1 DEF KeysShape
    <3>4. RefusedInv' BY <1>1, <2>3, <3>1, <3>2 DEF RefusedInv, DownInv, Keyring!NoOp
    <3> QED BY <3>1, <3>3, <3>4 DEF KeysInv
  <2>5. CASE Keyring!Loads(key, rows)
    <3>1. up' = "up" /\ Keyring!Cache(row) /\ cut' = FALSE /\ Keyring!Loads(key, row)
          /\ UNCHANGED <<provider, field, writing, op, kills, late>>
      BY <1>2, <1>5, <2>5
    <3>2. PICK x \in Keyring!Versions : Keyring!Active = {x}
      BY <3>1, LoadsHasOneActive DEF Keyring!Active
    <3>3. loaded' = Keyring!Usable /\ active' = x
      <4>1. {v \in Keyring!Versions : row[v].state = "active"} = {x} BY <3>2 DEF Keyring!Active
      <4> QED BY <3>1, <4>1 DEF Keyring!Cache, Keyring!Usable
    <3>4. key > 0 /\ \A v \in Keyring!Usable : row[v].kek = key
      BY <3>1 DEF Keyring!Loads, Keyring!Usable
    <3>5. KeysShape'
      <4>1. active' \in 0 .. MaxVersion /\ loaded' \subseteq Keyring!Versions
        BY <3>3 DEF Keyring!Usable, Keyring!Versions, KeysAssumption
      <4> QED BY <1>1, <1>3, <2>2, <3>1, <4>1 DEF KeysShape
    <3>6. FieldsRead' BY <1>1, <3>1, <3>3 DEF DownInv, KeysKept, FieldsRead
    <3>7. x \in Keyring!Usable /\ Keyring!Active' = {x}
      BY <2>1, <3>2 DEF Keyring!Usable, Keyring!Active
    <3>8. Wrapped(material[provider])' /\ \A p \in Keyring!Providers : material'[p] # 0
      BY <1>1, <1>3, <2>1, <3>1, <3>4 DEF DownInv, Wrapped, KeysShape, Keyring!Providers
    <3>9. UpInv'
      BY <1>1, <1>3, <2>1, <3>1, <3>3, <3>4, <3>6, <3>7, <3>8 DEF UpInv, DownInv, Keyring!NoOp
    <3> QED BY <3>1, <3>5, <3>9 DEF KeysInv
  <2> QED BY <2>4, <2>5
<1>6. CASE rows # row
  <2>1. Keyring!Active = {} /\ key > 0 /\ rows = fresh BY <1>3, <1>6
  <2>2. Keyring!Used = {} /\ first = 1 BY <1>1, <1>4, <2>1 DEF DownInv
  <2>3. 1 \in Keyring!Versions /\ \A v \in Keyring!Versions : row[v].state = "none"
    BY <1>4, <2>2 DEF KeysAssumption, Keyring!Versions
  <2>4. /\ rows \in [Keyring!Versions -> [kek : Keyring!Absent .. made',
                                    state : {"none", "active", "retiring", "retired"}]]
        /\ rows[1] = [kek |-> key, state |-> "active"]
        /\ \A v \in Keyring!Versions \ {1} : rows[v].state = "none"
    BY <1>1, <1>3, <2>1, <2>2, <2>3 DEF KeysShape, Keyring!Absent
  <2> HIDE DEF rows, fresh, first
  <2>5. /\ {v \in Keyring!Versions : rows[v].state \in {"active", "retiring"}} = {1}
        /\ {v \in Keyring!Versions : rows[v].state = "active"} = {1}
    BY <2>3, <2>4
  <2>6. Keyring!Loads(key, rows)
    <3>1. key \in Nat \ {0} BY <1>3, <2>1
    <3>2. \A v \in Keyring!Versions : rows[v].state \in {"active", "retiring"} => rows[v].kek = key
      BY <2>4
    <3> HIDE DEF key
    <3> QED BY <2>3, <2>5, <3>1, <3>2, HealthyLoads
  <2> HIDE DEF key
  <2>7. up' = "up" /\ Keyring!Cache(rows) /\ cut' = FALSE
        /\ UNCHANGED <<provider, field, writing, op, kills, late>>
    BY <1>2, <2>6
  <2>8. active' = 1 /\ loaded' = {1}
    BY <2>5, <2>7 DEF Keyring!Cache
  <2>9. Keyring!Usable' = {1} /\ Keyring!Active' = {1}
    BY <1>2, <2>5 DEF Keyring!Usable, Keyring!Active
  <2>10. KeysShape'
    <3>1. active' \in 0 .. MaxVersion /\ loaded' \subseteq Keyring!Versions
      BY <2>3, <2>8 DEF Keyring!Versions, KeysAssumption
    <3> QED BY <1>1, <1>2, <1>3, <2>4, <2>7, <3>1 DEF KeysShape
  <2>11. FieldsRead'
    <3>1. Keyring!Usable = {} BY <2>3 DEF Keyring!Usable
    <3> QED BY <1>1, <2>7, <3>1 DEF DownInv, KeysKept, FieldsRead
  <2>12. Wrapped(material[provider])' /\ \A p \in Keyring!Providers : material'[p] # 0
    BY <1>1, <1>2, <1>3, <2>1, <2>4, <2>7, <2>9
        DEF DownInv, Wrapped, KeysShape, Keyring!Providers
  <2>13. material'[provider'] > 0 BY <1>1, <1>3, <2>1, <2>7 DEF DownInv
  <2>14. UpInv'
    BY <1>1, <2>7, <2>8, <2>9, <2>11, <2>12, <2>13 DEF UpInv, DownInv, Keyring!NoOp
  <2> QED BY <2>7, <2>10, <2>14 DEF KeysInv
<1> QED BY <1>5, <1>6

\* While the process runs, whatever it is in the middle of, nothing is lost.
LEMMA UpKeeps ==
  ASSUME KeysShape, UpInv
  PROVE  /\ KeysKept /\ active \in Keyring!Active
         /\ \A f \in Fields \ late : field[f] \in {0} \cup loaded
<1>1. provider \in Keyring!Providers /\ Keyring!Other \in Keyring!Providers
  BY OtherIsOther DEF KeysShape
<1>2. op.name \in {"none", "rotate", "rewrap", "settle"} BY DEF KeysShape
<1>3. loaded \subseteq Keyring!Usable BY <1>2 DEF UpInv, Rotating
<1>4. Keyring!NoKeyIsOrphaned
  BY <1>1, <1>2 DEF UpInv, Rotating, Rewrapping, Wrapped, Keyring!NoKeyIsOrphaned
<1> QED BY <1>3, <1>4 DEF UpInv, FieldsRead, KeysKept

\* A kill loses nothing, wherever it falls; between two operations, of the provider a start
\* takes, it loses nothing a start needs.
LEMMA KillStep == ASSUME KeysAssumption, KeysInv, Keyring!Kill PROVE KeysInv'
<1>0. /\ up' = "down" /\ provider' = "keyfile" /\ active' = 0 /\ loaded' = {}
      /\ writing' = [f \in Fields |-> 0] /\ op' = Keyring!NoOp /\ kills' = kills + 1
      /\ kills < MaxKills /\ UNCHANGED <<row, field, late>>
      /\ cut' = (cut \/ up = "down" \/ op # Keyring!NoOp \/ provider # "keyfile")
  BY DEF Keyring!Kill
<1>1. KeysShape BY DEF KeysInv
<1>2. Keyring!Usable' = Keyring!Usable /\ Keyring!Active' = Keyring!Active
      /\ Keyring!Used' = Keyring!Used
  BY <1>0 DEF Keyring!Usable, Keyring!Active, Keyring!Used
<1>3. CASE up = "up"
  <2>1. UpInv /\ KeysKept /\ active \in Keyring!Active BY <1>1, <1>3, UpKeeps DEF KeysInv
  <2>2. UNCHANGED <<material, made>> BY <1>3 DEF Keyring!Kill
  <2>3. KeysShape'
    BY <1>0, <1>1, <2>2 DEF KeysShape, Keyring!NoOp, Keyring!Providers, KeysAssumption
  <2>4. KeysKept' BY <1>0, <1>2, <2>1, <2>2 DEF KeysKept, Keyring!NoKeyIsOrphaned
  <2>5. ~cut' => Wrapped(material["keyfile"])' /\ \E x \in Keyring!Versions : Keyring!Active' = {x}
    <3> SUFFICES ASSUME ~cut'
                 PROVE  Wrapped(material["keyfile"])' /\ \E x \in Keyring!Versions : Keyring!Active' = {x}
      OBVIOUS
    <3>1. op = Keyring!NoOp /\ provider = "keyfile" BY <1>0
    <3>2. Wrapped(material["keyfile"]) /\ Keyring!Active = {active}
      BY <2>1, <3>1 DEF UpInv, Keyring!NoOp
    <3>3. active \in Keyring!Versions BY <2>1 DEF Keyring!Active
    <3> QED BY <1>0, <1>2, <2>2, <3>2, <3>3 DEF Wrapped
  <2>6. DownInv' BY <1>0, <1>2, <2>1, <2>2, <2>4, <2>5 DEF DownInv, Wrapped
  <2> QED BY <1>0, <2>3, <2>6 DEF KeysInv
<1>4. CASE up # "up"
  <2>1. up = "down" /\ ~Keyring!Provisioned("keyfile") /\ DownInv
    BY <1>4 DEF Keyring!Kill, KeysInv
  <2>2. PICK key \in {0, made + 1} :
          /\ material' = [material EXCEPT !["keyfile"] = key]
          /\ made' = made + (IF key = 0 THEN 0 ELSE 1)
    BY <1>4 DEF Keyring!Kill
  <2>3. /\ made' \in Nat /\ made <= made' /\ key \in Nat /\ key <= made'
        /\ material' \in [Keyring!Providers -> Keyring!Absent .. made']
        /\ material'["keyring"] = material["keyring"]
    BY <1>1, <2>2 DEF KeysShape, Keyring!Absent, Keyring!Providers
  <2>4. row' \in [Keyring!Versions -> [kek : Keyring!Absent .. made',
                                state : {"none", "active", "retiring", "retired"}]]
    BY <1>0, <1>1, <2>3 DEF KeysShape, Keyring!Absent
  <2>5. KeysShape'
    <3>1. kills' \in 0 .. MaxKills BY <1>0, <1>1 DEF KeysShape, KeysAssumption
    <3>2. cut' \in BOOLEAN BY <1>0, <2>1
    <3> QED BY <1>0, <1>1, <2>3, <2>4, <3>1, <3>2
            DEF KeysShape, Keyring!NoOp, Keyring!Providers, KeysAssumption
  <2>6. KeysKept'
    <3>1. \A v \in Keyring!Usable : row[v].kek > 0 /\ material'["keyring"] = row[v].kek
      BY <2>1, <2>3 DEF DownInv, KeysKept, Keyring!NoKeyIsOrphaned, Keyring!Provisioned,
                        Keyring!Absent, Keyring!Providers
    <3> QED BY <1>0, <1>2, <2>1, <3>1
            DEF DownInv, KeysKept, Keyring!NoKeyIsOrphaned, Keyring!Providers
  <2>7. DownInv' BY <1>0, <1>2, <2>1, <2>6 DEF DownInv
  <2> QED BY <1>0, <2>5, <2>7 DEF KeysInv
<1> QED BY <1>3, <1>4

\* A field is encrypted under the active key, stored, and rewritten: always under a loaded one.
LEMMA FieldSteps ==
  ASSUME KeysAssumption, KeysInv, NEW f \in Fields,
         Keyring!Encrypt(f) \/ Keyring!StoreField(f) \/ Keyring!Sweep(f)
  PROVE  KeysInv'
<1>1. up = "up" /\ UpInv /\ KeysShape
  BY DEF Keyring!Encrypt, Keyring!StoreField, Keyring!Sweep, Keyring!Ready, KeysInv
<1>2. UNCHANGED <<material, made, row, up, provider, active, loaded, op, kills, cut>>
  BY DEF Keyring!Encrypt, Keyring!StoreField, Keyring!Sweep
<1>3. /\ field' \in [Fields -> 0 .. MaxVersion] /\ writing' \in [Fields -> 0 .. MaxVersion]
      /\ late' \subseteq Fields /\ FieldsRead'
  <2>0. /\ active \in loaded /\ active \in 0 .. MaxVersion /\ late \subseteq Fields
        /\ field \in [Fields -> 0 .. MaxVersion] /\ writing \in [Fields -> 0 .. MaxVersion]
        /\ FieldsRead
    BY <1>1 DEF KeysShape, UpInv
  <2>1. CASE Keyring!Encrypt(f) BY <1>2, <2>0, <2>1 DEF Keyring!Encrypt, FieldsRead
  <2>2. CASE Keyring!StoreField(f)
    <3>1. field' = [field EXCEPT ![f] = writing[f]] /\ writing' = [writing EXCEPT ![f] = 0]
          /\ late' = (IF row[writing[f]].state = "retired" THEN late \cup {f} ELSE late \ {f})
          /\ 0 \in 0 .. MaxVersion
      BY <2>2 DEF Keyring!StoreField, KeysAssumption
    <3> QED BY <1>2, <2>0, <3>1 DEF FieldsRead
  <2>3. CASE Keyring!Sweep(f) BY <1>2, <2>0, <2>3 DEF Keyring!Sweep, FieldsRead
  <2> QED BY <2>1, <2>2, <2>3
<1>4. KeysShape' BY <1>1, <1>2, <1>3 DEF KeysShape
<1>5. UpInv'
  BY <1>1, <1>2, <1>3
      DEF UpInv, Wrapped, Rotating, Rewrapping, Keyring!Active, Keyring!Usable, Keyring!Other
<1> QED BY <1>1, <1>2, <1>4, <1>5 DEF KeysInv

\* The rotation inserts the next version, wrapped under the key in use.
LEMMA RotateInsertStep ==
  ASSUME KeysAssumption, KeysInv, Keyring!RotateInsert PROVE KeysInv'
<1>1. up = "up" /\ op = Keyring!NoOp /\ UpInv /\ KeysShape
  BY DEF Keyring!RotateInsert, Keyring!Ready, KeysInv
<1> DEFINE v == Keyring!Max(Keyring!Used) + 1
           new == [kek |-> material[provider], state |-> "active"]
<1>2. v \in Keyring!Versions /\ v \notin Keyring!Used
  <2>1. Keyring!Used \in SUBSET (0 .. MaxVersion) /\ active \in Keyring!Used
    BY <1>1
        DEF UpInv, Keyring!Active, Keyring!Used, Keyring!NoRow, Keyring!Versions, KeysAssumption
  <2>2. PICK x \in Keyring!Used : \A y \in Keyring!Used : x >= y
    BY <2>1, GreatestExists DEF KeysAssumption
  <2>3. Keyring!Max(Keyring!Used) \in Keyring!Used /\ \A y \in Keyring!Used : Keyring!Max(Keyring!Used) >= y
    BY <2>2 DEF Keyring!Max
  <2>4. Keyring!Max(Keyring!Used) < MaxVersion BY DEF Keyring!RotateInsert
  <2> DEFINE m == Keyring!Max(Keyring!Used)
  <2>5. m \in Nat /\ m \in 1 .. MaxVersion BY <2>1, <2>3 DEF Keyring!Used, Keyring!Versions
  <2> HIDE DEF m
  <2>6. m + 1 \notin Keyring!Used BY <2>3, <2>5 DEF m
  <2>7. m + 1 \in Keyring!Versions BY <2>4, <2>5 DEF m, Keyring!Versions, KeysAssumption
  <2> QED BY <2>6, <2>7 DEF m
<1>3. /\ row' = [row EXCEPT ![v] = new] /\ op' = [name |-> "rotate", rows |-> {active}]
      /\ UNCHANGED <<material, made, up, provider, active, loaded, field, writing, kills, cut, late>>
  BY DEF Keyring!RotateInsert
<1> HIDE DEF v
<1>4. /\ new.state = "active" /\ new.kek = material[provider] /\ material[provider] > 0
      /\ new \in [kek : Keyring!Absent .. made, state : {"none", "active", "retiring", "retired"}]
  BY <1>1 DEF UpInv, KeysShape
<1> HIDE DEF new
<1>5. /\ row'[v] = new /\ \A w \in Keyring!Versions \ {v} : row'[w] = row[w]
      /\ row' \in [Keyring!Versions -> [kek : Keyring!Absent .. made,
                                     state : {"none", "active", "retiring", "retired"}]]
  BY <1>1, <1>2, <1>3, <1>4 DEF KeysShape
<1>6. KeysShape' BY <1>1, <1>3, <1>5 DEF KeysShape, UpInv, Keyring!Active
<1>7. v \notin Keyring!Usable /\ v # active
  BY <1>1, <1>2 DEF Keyring!Used, Keyring!NoRow, Keyring!Usable, Keyring!Active, UpInv
<1>8. Keyring!Usable' = Keyring!Usable \cup {v} /\ Keyring!Active' = Keyring!Active \cup {v}
  BY <1>2, <1>4, <1>5 DEF Keyring!Usable, Keyring!Active
<1>9. UpInv'
  <2>1. Rotating'
    BY <1>1, <1>2, <1>3, <1>4, <1>5, <1>7, <1>8
        DEF UpInv, Rotating, Wrapped, Keyring!NoOp, Keyring!Usable
  <2>2. FieldsRead'
    <3>1. \A w \in Keyring!Versions : row[w].state = "retired" => row'[w] = row[w]
      BY <1>2, <1>5 DEF Keyring!Used, Keyring!NoRow
    <3>2. \A f \in Fields : writing[f] \in {0} \cup Keyring!Versions
      BY <1>1 DEF KeysShape, Keyring!Versions, KeysAssumption
    <3>3. 0 \in loaded => 0 \in Keyring!Versions BY <1>1 DEF KeysShape
    <3> QED BY <1>1, <1>3, <3>1, <3>2, <3>3 DEF FieldsRead, UpInv
  <2> QED BY <1>1, <1>3, <1>8, <2>1, <2>2 DEF UpInv
<1> QED BY <1>1, <1>3, <1>6, <1>9 DEF KeysInv

\* Only states change: the key that wraps a row stays, and a row outside is as it was.
LEMMA SetStateKeeps ==
  ASSUME KeysShape, NEW old \in SUBSET Keyring!Versions, NEW to \in {"retiring", "retired"}
  PROVE  LET rs == Keyring!SetState(row, old, to) IN
           /\ rs \in [Keyring!Versions -> [kek : Keyring!Absent .. made,
                                        state : {"none", "active", "retiring", "retired"}]]
           /\ \A v \in Keyring!Versions : rs[v].kek = row[v].kek
           /\ \A v \in old : rs[v].state = to
           /\ \A v \in Keyring!Versions \ old : rs[v] = row[v]
BY DEF Keyring!SetState, KeysShape

\* The rotation then retires the one it replaces and loads both.
LEMMA RotateRetireStep ==
  ASSUME KeysAssumption, KeysInv, Keyring!RotateRetire, up = "up" PROVE KeysInv'
<1>1. KeysShape /\ UpInv /\ op.name = "rotate" /\ Rotating
  BY DEF KeysInv, UpInv, Keyring!RotateRetire
<1>2. PICK v \in Keyring!Versions \ {active} :
        Keyring!Active = {active, v} /\ loaded = Keyring!Usable \ {v}
  BY <1>1 DEF Rotating
<1> DEFINE rs == Keyring!SetState(row, op.rows, "retiring")
<1>3. active \in Keyring!Versions /\ op.rows = {active} /\ op.rows \in SUBSET Keyring!Versions
  BY <1>1 DEF UpInv, Keyring!Active, Rotating
<1>4. /\ rs \in [Keyring!Versions -> [kek : Keyring!Absent .. made,
                                   state : {"none", "active", "retiring", "retired"}]]
      /\ \A w \in Keyring!Versions : rs[w].kek = row[w].kek
      /\ rs[active].state = "retiring"
      /\ \A w \in Keyring!Versions \ {active} : rs[w] = row[w]
  BY <1>1, <1>3, SetStateKeeps
<1>5. row' = rs /\ op' = Keyring!NoOp
      /\ UNCHANGED <<material, made, provider, field, writing, kills, cut, late>>
      /\ (Keyring!Loads(material[provider], rs) => up' = "up" /\ Keyring!Cache(rs))
  BY DEF Keyring!RotateRetire
<1> HIDE DEF rs
<1>6. /\ {w \in Keyring!Versions : rs[w].state \in {"active", "retiring"}} = Keyring!Usable
      /\ {w \in Keyring!Usable : rs[w].state = "active"} = {v}
      /\ {w \in Keyring!Versions : rs[w].state = "active"} = {v}
      /\ v \in Keyring!Usable
  BY <1>2, <1>3, <1>4 DEF Keyring!Usable, Keyring!Active
<1>7. Keyring!Loads(material[provider], rs)
  <2>1. Keyring!Cardinality({v}) = 1
    <3>1. Keyring!Cardinality({v}) = Cardinality({v}) BY DEF Keyring!Cardinality, Cardinality
    <3> QED BY <3>1, FS_Singleton
  <2>2. \A w \in Keyring!Usable : rs[w].kek = material[provider]
    BY <1>1, <1>4 DEF Rotating, Wrapped, Keyring!Usable
  <2> QED BY <1>1, <1>6, <2>1, <2>2 DEF Keyring!Loads, UpInv
<1>8. loaded' = Keyring!Usable /\ active' = v
  BY <1>5, <1>6, <1>7 DEF Keyring!Cache
<1>9. Keyring!Usable' = Keyring!Usable /\ Keyring!Active' = {v}
  BY <1>5, <1>6 DEF Keyring!Usable, Keyring!Active
<1>10. KeysShape'
  <2>1. active' \in 0 .. MaxVersion /\ loaded' \subseteq Keyring!Versions
    BY <1>8 DEF Keyring!Usable, Keyring!Versions, KeysAssumption
  <2>2. op' \in [name : {"none", "rotate", "rewrap", "settle"}, rows : SUBSET Keyring!Versions]
    BY <1>5 DEF Keyring!NoOp
  <2> QED BY <1>1, <1>4, <1>5, <1>7, <2>1, <2>2 DEF KeysShape
<1>11. UpInv'
  <2>1. Wrapped(material[provider])'
    BY <1>1, <1>4, <1>5, <1>9 DEF Rotating, Wrapped, Keyring!Usable
  <2>2. FieldsRead'
    <3>1. \A f \in Fields : writing[f] \in {0} \cup Keyring!Versions
      BY <1>1 DEF KeysShape, Keyring!Versions, KeysAssumption
    <3>2. \A w \in Keyring!Versions : row[w].state = "retired" => row'[w] = row[w]
      BY <1>1, <1>4, <1>5 DEF UpInv, Keyring!Active
    <3> QED BY <1>1, <1>2, <1>5, <1>8, <3>1, <3>2 DEF UpInv, FieldsRead
  <2> QED BY <1>1, <1>5, <1>6, <1>7, <1>8, <1>9, <2>1, <2>2 DEF UpInv, Keyring!NoOp
<1> QED BY <1>5, <1>7, <1>10, <1>11 DEF KeysInv

\* A version is retired once no field is under it.
LEMMA RetireStep ==
  ASSUME KeysAssumption, KeysInv, NEW v \in Keyring!Versions, Keyring!Retire(v) PROVE KeysInv'
<1>1. KeysShape /\ UpInv /\ up = "up" /\ op = Keyring!NoOp
  BY DEF KeysInv, Keyring!Retire, Keyring!Ready
<1>2. loaded = Keyring!Usable /\ Keyring!Active = {active} /\ Wrapped(material[provider])
  BY <1>1 DEF UpInv, Keyring!NoOp
<1> DEFINE rs == Keyring!SetState(row, {v}, "retired")
<1>3. v # active /\ \A f \in Fields : field[f] # v
  BY DEF Keyring!Retire, Keyring!MayRetire, Keyring!NothingUnder, KeysAssumption
<1>4. /\ rs \in [Keyring!Versions -> [kek : Keyring!Absent .. made,
                                   state : {"none", "active", "retiring", "retired"}]]
      /\ \A w \in Keyring!Versions : rs[w].kek = row[w].kek
      /\ rs[v].state = "retired"
      /\ \A w \in Keyring!Versions \ {v} : rs[w] = row[w]
  BY <1>1, SetStateKeeps
<1>5. row' = rs /\ Keyring!Cache(rs) /\ UNCHANGED <<material, made, up, provider, field, writing, op, kills, cut, late>>
  BY DEF Keyring!Retire
<1> HIDE DEF rs
<1>6. /\ {w \in Keyring!Versions : rs[w].state \in {"active", "retiring"}} = Keyring!Usable \ {v}
      /\ {w \in Keyring!Versions : rs[w].state = "active"} = {active}
  BY <1>2, <1>3, <1>4 DEF Keyring!Usable, Keyring!Active
<1>7. loaded' = Keyring!Usable \ {v} /\ active' = active
  <2>1. active \in Keyring!Versions BY <1>2 DEF Keyring!Active
  <2> QED BY <1>5, <1>6, <2>1 DEF Keyring!Cache
<1>8. Keyring!Usable' = Keyring!Usable \ {v} /\ Keyring!Active' = {active}
  BY <1>5, <1>6 DEF Keyring!Usable, Keyring!Active
<1>9. KeysShape' BY <1>1, <1>4, <1>5, <1>7 DEF KeysShape, Keyring!Usable
<1>10. UpInv'
  <2>1. Wrapped(material[provider])'
    BY <1>2, <1>4, <1>5, <1>8 DEF Wrapped, Keyring!Usable
  <2>2. FieldsRead'
    <3>1. \A f \in Fields : writing[f] \in {0} \cup Keyring!Versions
      BY <1>1 DEF KeysShape, Keyring!Versions, KeysAssumption
    <3>2. \A w \in Keyring!Versions : row[w].state = "retired" \/ w = v => row'[w].state = "retired"
      BY <1>4, <1>5
    <3> QED BY <1>1, <1>2, <1>3, <1>5, <1>7, <3>1, <3>2 DEF UpInv, FieldsRead
  <2> QED BY <1>1, <1>2, <1>3, <1>5, <1>7, <1>8, <2>1, <2>2 DEF UpInv, Keyring!NoOp
<1> QED BY <1>1, <1>5, <1>9, <1>10 DEF KeysInv

\* The rewrap makes or finds the key of the other provider.
LEMMA RewrapBeginStep == ASSUME KeysAssumption, KeysInv, Keyring!RewrapBegin PROVE KeysInv'
<1>1. KeysShape /\ UpInv /\ up = "up" /\ op = Keyring!NoOp
  BY DEF KeysInv, Keyring!RewrapBegin, Keyring!Ready
<1>2. loaded = Keyring!Usable /\ Keyring!Active = {active} /\ Wrapped(material[provider])
      /\ active \in Keyring!Usable
  BY <1>1 DEF UpInv, Keyring!NoOp, Keyring!Active, Keyring!Usable
<1> DEFINE o == Keyring!Other
           key == IF Keyring!Provisioned(o) THEN material[o] ELSE made + 1
<1>3. o \in Keyring!Providers /\ o # provider /\ \A p \in Keyring!Providers : p = provider \/ p = o
  BY <1>1, OtherIsOther DEF KeysShape
<1>4. /\ material' = [material EXCEPT ![o] = key]
      /\ made' = (IF Keyring!Provisioned(o) THEN made ELSE made + 1)
      /\ op' = [name |-> "rewrap", rows |-> Keyring!Usable]
      /\ UNCHANGED <<row, up, provider, active, loaded, field, writing, kills, cut, late>>
  BY DEF Keyring!RewrapBegin
<1>5. key \in Nat \ {0} /\ made' \in Nat /\ key <= made' /\ made <= made'
  BY <1>1, <1>3, <1>4 DEF KeysShape, UpInv, Keyring!Provisioned, Keyring!Absent
<1> HIDE DEF key
<1>6. Keyring!Other' = o /\ Keyring!Usable' = Keyring!Usable /\ Keyring!Active' = Keyring!Active
  BY <1>4 DEF Keyring!Other, Keyring!Usable, Keyring!Active
<1> HIDE DEF o
<1>7. material'[o] = key /\ material'[provider] = material[provider]
  BY <1>1, <1>3, <1>4 DEF KeysShape
<1>8. KeysShape' /\ \A p \in Keyring!Providers : material'[p] # 0
  <2>1. material' \in [Keyring!Providers -> Keyring!Absent .. made']
        /\ \A p \in Keyring!Providers : material'[p] # 0
    BY <1>1, <1>3, <1>4, <1>5 DEF KeysShape, UpInv, Keyring!Absent
  <2>2. row' \in [Keyring!Versions -> [kek : Keyring!Absent .. made',
                                   state : {"none", "active", "retiring", "retired"}]]
    BY <1>1, <1>4, <1>5 DEF KeysShape, Keyring!Absent
  <2>3. "keyring" \in Keyring!Providers BY DEF Keyring!Providers
  <2> QED BY <1>1, <1>4, <1>5, <2>1, <2>2, <2>3 DEF KeysShape, Keyring!Usable
<1>9. UpInv'
  <2>1. Rewrapping' BY <1>2, <1>4, <1>6, <1>7 DEF Rewrapping, Wrapped, Keyring!Usable
  <2>2. active' \in Keyring!Active' /\ active' \in loaded' /\ material'[provider'] > 0
        /\ loaded' = Keyring!Usable' /\ Keyring!Active' = {active'} /\ material'[Keyring!Other'] > 0
    BY <1>1, <1>2, <1>4, <1>5, <1>6, <1>7 DEF UpInv
  <2>3. op'.name = "rewrap" BY <1>4
  <2>4. FieldsRead' /\ ~cut' BY <1>1, <1>4 DEF UpInv, FieldsRead
  <2> QED BY <1>8, <2>1, <2>2, <2>3, <2>4 DEF UpInv
<1> QED BY <1>1, <1>4, <1>8, <1>9 DEF KeysInv

\* One row more is wrapped under it, the least one left.
LEMMA RewrapRowStep ==
  ASSUME KeysAssumption, KeysInv, NEW v \in Keyring!Versions, Keyring!RewrapRow(v), up = "up"
  PROVE  KeysInv'
<1>1. KeysShape /\ UpInv /\ op.name = "rewrap" /\ Rewrapping
  BY DEF KeysInv, Keyring!RewrapRow, UpInv
<1> DEFINE o == Keyring!Other
<1>2. o \in Keyring!Providers BY <1>1, OtherIsOther DEF KeysShape
<1>3. v \in op.rows /\ op.rows \subseteq Keyring!Usable
  <2>1. op.rows \in SUBSET Nat /\ op.rows # {}
    BY <1>1 DEF Rewrapping, Keyring!Usable, Keyring!Versions
  <2>2. PICK x \in op.rows : \A y \in op.rows : x <= y BY <2>1, LeastExists
  <2>3. Keyring!Min(op.rows) \in op.rows BY <2>2 DEF Keyring!Min
  <2> QED BY <1>1, <2>3 DEF Keyring!RewrapRow, Rewrapping
<1>4. /\ row' = [row EXCEPT ![v].kek = material[o]]
      /\ op' = (IF op.rows = {v} THEN [name |-> "settle", rows |-> {}]
                ELSE [op EXCEPT !.rows = @ \ {v}])
      /\ UNCHANGED <<material, made, up, provider, active, loaded, field, writing, kills, cut, late>>
  BY DEF Keyring!RewrapRow
<1>5. Keyring!Other' = o BY <1>4 DEF Keyring!Other
<1> HIDE DEF o
<1>6. material[o] \in Keyring!Absent .. made /\ material[o] > 0
  BY <1>1, <1>2 DEF KeysShape, UpInv, o
<1>7. /\ row' \in [Keyring!Versions -> [kek : Keyring!Absent .. made,
                                     state : {"none", "active", "retiring", "retired"}]]
      /\ row'[v].kek = material[o] /\ row'[v].state = row[v].state
      /\ \A w \in Keyring!Versions \ {v} : row'[w] = row[w]
  BY <1>1, <1>4, <1>6 DEF KeysShape
<1>8. Keyring!Usable' = Keyring!Usable /\ Keyring!Active' = Keyring!Active
  BY <1>7 DEF Keyring!Usable, Keyring!Active
<1>9. op' \in [name : {"none", "rotate", "rewrap", "settle"}, rows : SUBSET Keyring!Versions]
      /\ op'.name \in {"rewrap", "settle"}
      /\ op'.rows = op.rows \ {v} /\ (op'.name = "rewrap" => op'.rows # {})
      /\ (op'.name = "settle" => op'.rows = {})
  <2>1. op \in [name : {"none", "rotate", "rewrap", "settle"}, rows : SUBSET Keyring!Versions]
    BY <1>1 DEF KeysShape
  <2>2. CASE op.rows = {v}
    <3>1. op' = [name |-> "settle", rows |-> {}] BY <1>4, <2>2
    <3> QED BY <2>2, <3>1
  <2>3. CASE op.rows # {v}
    <3>1. op' = [op EXCEPT !.rows = @ \ {v}] BY <1>4, <2>3
    <3> QED BY <1>1, <1>3, <2>1, <2>3, <3>1
  <2> QED BY <2>2, <2>3
<1>10. KeysShape' BY <1>1, <1>4, <1>7, <1>9 DEF KeysShape
<1>11. UpInv'
  <2>1. op'.name = "rewrap" => Rewrapping'
    BY <1>1, <1>3, <1>4, <1>5, <1>7, <1>8, <1>9 DEF Rewrapping, Keyring!Usable, o
  <2>2. op'.name = "settle" => Wrapped(material[Keyring!Other])'
    BY <1>1, <1>3, <1>4, <1>5, <1>6, <1>7, <1>8, <1>9 DEF Rewrapping, Wrapped, Keyring!Usable, o
  <2>3. FieldsRead' /\ ~cut' /\ \A p \in Keyring!Providers : material'[p] # 0
    <3>1. \A f \in Fields : writing[f] \in {0} \cup Keyring!Versions
      BY <1>1 DEF KeysShape, Keyring!Versions, KeysAssumption
    <3>2. \A w \in Keyring!Versions : row'[w].state = row[w].state BY <1>7
    <3> QED BY <1>1, <1>4, <3>1, <3>2 DEF UpInv, FieldsRead
  <2>4. active' \in Keyring!Active' /\ active' \in loaded' /\ material'[provider'] > 0
        /\ loaded' = Keyring!Usable' /\ Keyring!Active' = {active'} /\ material'[Keyring!Other'] > 0
    BY <1>1, <1>4, <1>5, <1>6, <1>8 DEF UpInv
  <2> QED BY <1>9, <2>1, <2>2, <2>3, <2>4 DEF UpInv
<1> QED BY <1>4, <1>10, <1>11 DEF KeysInv

\* All are: the other provider is the one in use, and the old key may go.
LEMMA RewrapSettleStep ==
  ASSUME KeysAssumption, KeysInv, NEW destroy \in BOOLEAN, Keyring!RewrapSettle(destroy), up = "up"
  PROVE  KeysInv'
<1>1. KeysShape /\ UpInv /\ op.name = "settle" /\ Wrapped(material[Keyring!Other])
      /\ material[Keyring!Other] > 0 /\ loaded = Keyring!Usable /\ Keyring!Active = {active}
  BY DEF KeysInv, Keyring!RewrapSettle, UpInv
<1> DEFINE o == Keyring!Other
<1>2. o \in Keyring!Providers /\ o # provider BY <1>1, OtherIsOther DEF KeysShape
<1>3. /\ provider' = o /\ op' = Keyring!NoOp /\ Keyring!Cache(row)
      /\ material' = (IF destroy THEN [material EXCEPT ![provider] = Keyring!Absent] ELSE material)
      /\ UNCHANGED <<made, row, up, field, writing, kills, cut, late>>
  BY DEF Keyring!RewrapSettle, Keyring!DestroyOld
<1>4. Wrapped(material[o]) /\ material[o] > 0 BY <1>1
<1> HIDE DEF o
<1>5. loaded' = Keyring!Usable /\ active' = active
  <2>1. {v \in Keyring!Versions : row[v].state = "active"} = {active} /\ active \in Keyring!Versions
    BY <1>1 DEF Keyring!Active
  <2> QED BY <1>3, <2>1 DEF Keyring!Cache, Keyring!Usable
<1>6. Keyring!Usable' = Keyring!Usable /\ Keyring!Active' = Keyring!Active
  BY <1>3 DEF Keyring!Usable, Keyring!Active
<1>7. material'[o] = material[o]
      /\ material' \in [Keyring!Providers -> Keyring!Absent .. made]
      /\ \A p \in Keyring!Providers : material'[p] # 0
  BY <1>1, <1>2, <1>3 DEF KeysShape, UpInv, Keyring!Absent
<1>8. KeysShape' BY <1>1, <1>2, <1>3, <1>5, <1>7 DEF KeysShape, Keyring!NoOp, Keyring!Providers
<1>9. UpInv'
  <2>1. Wrapped(material[provider])' BY <1>3, <1>4, <1>6, <1>7 DEF Wrapped
  <2>2. FieldsRead' /\ ~cut' BY <1>1, <1>3, <1>5 DEF UpInv, FieldsRead
  <2>3. op'.name = "none" BY <1>3 DEF Keyring!NoOp
  <2>4. active' \in Keyring!Active' /\ active' \in loaded' /\ material'[provider'] > 0
    BY <1>1, <1>3, <1>4, <1>5, <1>6, <1>7 DEF UpInv
  <2> QED BY <1>1, <1>3, <1>5, <1>6, <1>7, <2>1, <2>2, <2>3, <2>4 DEF UpInv
<1> QED BY <1>3, <1>8, <1>9 DEF KeysInv

\* A step of another component.
LEMMA KeysStutter == ASSUME KeysInv, UNCHANGED Keyring!vars PROVE KeysInv'
<1> USE DEF Keyring!vars
<1>1. Keyring!Usable' = Keyring!Usable /\ Keyring!Active' = Keyring!Active
      /\ Keyring!Used' = Keyring!Used /\ Keyring!Other' = Keyring!Other
  BY DEF Keyring!Usable, Keyring!Active, Keyring!Used, Keyring!Other
<1>2. KeysShape' = KeysShape BY DEF KeysShape
<1>3. KeysKept' = KeysKept BY <1>1 DEF KeysKept, Keyring!NoKeyIsOrphaned
<1>4. DownInv' = DownInv BY <1>1, <1>3 DEF DownInv, Wrapped
<1>5. RefusedInv' = RefusedInv BY <1>3 DEF RefusedInv
<1>6. UpInv => UpInv' BY <1>1 DEF UpInv, FieldsRead, Wrapped, Rotating, Rewrapping
<1> QED BY <1>2, <1>4, <1>5, <1>6 DEF KeysInv

\* The keys (`rotate_dek`, `rewrap`, `retire_version`, `ensure_dek`): whatever was rotated,
\* rewrapped or retired, and wherever a kill fell, no usable row is wrapped under a key nobody
\* has, and every stored field is under a usable row, but one stored after its version was
\* retired; a start is refused only after a kill that cut an operation short.
THEOREM KeysSoundAlways ==
  ASSUME KeysAssumption PROVE Keyring!Spec => []KeysSound
<1>1. Keyring!Init => KeysInv BY KeysStart
<1>2. KeysInv /\ [Keyring!Next]_Keyring!vars => KeysInv'
  <2> SUFFICES ASSUME KeysInv, [Keyring!Next]_Keyring!vars PROVE KeysInv' OBVIOUS
  <2>1. op.name # "none" => up = "up"
    BY DEF KeysInv, KeysShape, DownInv, RefusedInv, Keyring!NoOp
  <2>2. CASE Keyring!RotateRetire BY <2>1, <2>2, RotateRetireStep DEF Keyring!RotateRetire
  <2>3. ASSUME NEW v \in Keyring!Versions, Keyring!RewrapRow(v) PROVE KeysInv'
    BY <2>1, <2>3, RewrapRowStep DEF Keyring!RewrapRow
  <2>4. ASSUME NEW destroy \in BOOLEAN, Keyring!RewrapSettle(destroy) PROVE KeysInv'
    BY <2>1, <2>4, RewrapSettleStep DEF Keyring!RewrapSettle
  <2> QED BY <2>2, <2>3, <2>4, StartStep, KillStep, FieldSteps, RotateInsertStep, RetireStep,
             RewrapBeginStep, KeysStutter
          DEF Keyring!Next
<1>3. KeysInv => Keyring!KeysSound
  <2> SUFFICES ASSUME KeysInv PROVE Keyring!KeysSound OBVIOUS
  <2>1. Keyring!TypeOK
    <3>1. up = "up" /\ op = Keyring!NoOp => loaded = Keyring!Usable /\ Keyring!Active = {active}
      BY DEF KeysInv, UpInv, Keyring!NoOp
    <3> QED BY <3>1 DEF KeysInv, KeysShape, Keyring!TypeOK
  <2>2. KeysKept /\ (up = "up" => \A f \in Fields \ late : field[f] \in {0} \cup loaded)
    BY UpKeeps DEF KeysInv, KeysShape, DownInv, RefusedInv
  <2>3. Keyring!EveryFieldReads BY <2>2 DEF KeysKept, Keyring!EveryFieldReads
  <2>4. Keyring!NeverRefused /\ Keyring!NoKeyIsOrphaned
    BY <2>2 DEF KeysInv, RefusedInv, KeysKept, Keyring!NeverRefused
  <2> QED BY <2>1, <2>3, <2>4 DEF Keyring!KeysSound
<1> QED BY <1>1, <1>2, <1>3, PTL DEF Keyring!Spec, KeysSound

-----------------------------------------------------------------------------
(* The chart. *)

ChartAssumption ==
  /\ LastBar \in Nat /\ MaxCandles \in Nat /\ PageCount \in Nat /\ MaxBarWrites \in Nat
  /\ "written_between" \notin Freedoms

\* The bounds a request read hold the bars it found that are still there.
BoundsHold(q) == q.first # 0 => \A t \in q.there : q.first <= t /\ t <= q.last

ChartInv ==
  /\ Chart!TypeOK
  /\ chartRequest.there \subseteq chartBars /\ onChart \subseteq chartBars
  /\ chartRequest.first = 0 => chartRequest.there = {}
  /\ BoundsHold(chartRequest)
  /\ chartRequest.step = "select" => ~Chart!TooLarge(Chart!IstRange(Chart!ClampWindow(chartRequest)))
  /\ Chart!AskedIsServed /\ Chart!PastTheEndShowsTheEnd
  /\ Chart!ScreenHasNoHole /\ Chart!AnswerFits

\* The chart counts bars as the library counts members.
LEMMA ChartCardinality == \A S : Chart!Cardinality(S) = Cardinality(S)
BY DEF Chart!Cardinality, Cardinality

\* What the least of a set of numbers is.
LEMMA ChartLeast ==
  ASSUME NEW S \in SUBSET Nat, S # {}
  PROVE  Chart!Min(S) \in S /\ \A y \in S : Chart!Min(S) <= y
BY LeastExists DEF Chart!Min

\* What the greatest of a bounded one is.
LEMMA ChartGreatest ==
  ASSUME NEW n \in Nat, NEW S \in SUBSET (0 .. n), S # {}
  PROVE  Chart!Max(S) \in S /\ \A y \in S : Chart!Max(S) >= y
BY GreatestExists DEF Chart!Max

\* Of two numbers one is least and one is greatest.
LEMMA ChartPair ==
  ASSUME NEW a \in Int, NEW b \in Int
  PROVE  /\ Chart!Min({a, b}) \in {a, b} /\ Chart!Min({a, b}) <= a /\ Chart!Min({a, b}) <= b
         /\ Chart!Max({a, b}) \in {a, b} /\ Chart!Max({a, b}) >= a /\ Chart!Max({a, b}) >= b
<1>1. \E x \in {a, b} : \A y \in {a, b} : x <= y
  <2>1. CASE a <= b BY <2>1
  <2>2. CASE b <= a BY <2>2
  <2> QED BY <2>1, <2>2
<1>2. \E x \in {a, b} : \A y \in {a, b} : x >= y
  <2>1. CASE a >= b BY <2>1
  <2>2. CASE b >= a BY <2>2
  <2> QED BY <2>1, <2>2
<1>3. Chart!Min({a, b}) \in {a, b} /\ \A y \in {a, b} : Chart!Min({a, b}) <= y
  BY <1>1 DEF Chart!Min
<1>4. Chart!Max({a, b}) \in {a, b} /\ \A y \in {a, b} : Chart!Max({a, b}) >= y
  BY <1>2 DEF Chart!Max
<1> QED BY <1>3, <1>4

\* The window slid inside the data: left alone, or it ends at the later bound at the latest
\* and reaches back no less than the span asked for.
LEMMA WindowSlides ==
  ASSUME NEW q, q.from \in Int, q.to \in Int, q.first \in Int, q.last \in Int, q.first <= q.last
  PROVE  /\ Chart!ClampWindow(q).from \in Int /\ Chart!ClampWindow(q).to \in Int
         /\ q.first = 0 \/ q.to < q.first =>
              Chart!ClampWindow(q).from = q.from /\ Chart!ClampWindow(q).to = q.to
         /\ q.first # 0 /\ q.to >= q.first =>
              /\ Chart!ClampWindow(q).to \in {q.to, q.last}
              /\ Chart!ClampWindow(q).to <= q.to /\ Chart!ClampWindow(q).to <= q.last
              /\ \/ Chart!ClampWindow(q).from = q.first
                 \/ /\ Chart!ClampWindow(q).from <= Chart!ClampWindow(q).to - 1
                    /\ Chart!ClampWindow(q).from <= Chart!ClampWindow(q).to - (q.to - q.from)
<1>1. CASE q.first = 0 \/ q.to < q.first BY <1>1 DEF Chart!ClampWindow
<1>2. CASE q.first # 0 /\ q.to >= q.first
  <2> DEFINE span == Chart!Max({1, q.to - q.from})
             end == Chart!Min({q.to, q.last})
             start == Chart!Max({q.first, end - span})
  <2>1. Chart!ClampWindow(q) = [from |-> start, to |-> end]
    BY <1>2 DEF Chart!ClampWindow
  <2>2. q.to - q.from \in Int /\ 1 \in Int OBVIOUS
  <2>3. span \in Int /\ span >= 1 /\ span >= q.to - q.from BY <2>2, ChartPair
  <2>4. end \in {q.to, q.last} /\ end <= q.to /\ end <= q.last BY ChartPair
  <2> HIDE DEF span, end
  <2>5. end - span \in Int BY <2>3, <2>4
  <2>6. start \in {q.first, end - span} BY <2>5, ChartPair
  <2> HIDE DEF start
  <2>7. Chart!ClampWindow(q).from = start /\ Chart!ClampWindow(q).to = end BY <2>1
  <2> QED BY <1>2, <2>3, <2>4, <2>6, <2>7
<1> QED BY <1>1, <1>2

\* A bar between the instants named, and the last bar of a window past the end, is in the
\* window that is read; one that is empty misses none.
LEMMA WindowServes ==
  ASSUME NEW q, q.from \in Int, q.to \in Int, q.first \in Int, q.last \in Int, q.first <= q.last,
         NEW t \in Int, q.first # 0, q.first <= t, t <= q.last,
         \/ q.from <= t /\ t <= q.to
         \/ t = q.last /\ t <= q.to
  PROVE  /\ Chart!ClampWindow(q).from <= t /\ t <= Chart!ClampWindow(q).to
         /\ ~Chart!IsEmpty(Chart!ClampWindow(q))
<1>1. /\ Chart!ClampWindow(q).from \in Int /\ Chart!ClampWindow(q).to \in Int
      /\ q.first = 0 \/ q.to < q.first =>
           Chart!ClampWindow(q).from = q.from /\ Chart!ClampWindow(q).to = q.to
      /\ q.first # 0 /\ q.to >= q.first =>
           /\ Chart!ClampWindow(q).to \in {q.to, q.last}
           /\ Chart!ClampWindow(q).to <= q.to /\ Chart!ClampWindow(q).to <= q.last
           /\ \/ Chart!ClampWindow(q).from = q.first
              \/ /\ Chart!ClampWindow(q).from <= Chart!ClampWindow(q).to - 1
                 /\ Chart!ClampWindow(q).from <= Chart!ClampWindow(q).to - (q.to - q.from)
  BY WindowSlides
<1>2. q.to >= q.first OBVIOUS
<1>3. Chart!ClampWindow(q).from <= t /\ t <= Chart!ClampWindow(q).to BY <1>1, <1>2
<1> QED BY <1>1, <1>3 DEF Chart!IsEmpty

\* What a request under way is.
LEMMA RequestShape ==
  ASSUME ChartAssumption, ChartInv, ~Chart!Idle
  PROVE  /\ chartRequest.from \in Nat /\ chartRequest.to \in Nat
         /\ chartRequest.from \in Chart!Asked /\ chartRequest.to \in Chart!Asked
         /\ chartRequest.first \in Nat /\ chartRequest.last \in Nat
         /\ chartRequest.first <= chartRequest.last
         /\ chartRequest.there \subseteq Chart!Times /\ chartRequest.there \subseteq Nat
         /\ \A t \in chartRequest.there :
              chartRequest.first # 0 /\ chartRequest.first <= t /\ t <= chartRequest.last
BY DEF ChartAssumption, ChartInv, Chart!TypeOK, Chart!Asked, Chart!Times, BoundsHold

\* What an answer that came from the store has to hold it holds.
LEMMA AnsweredWell ==
  ASSUME ChartAssumption, ChartInv, ~Chart!Idle, NEW found, found \subseteq Chart!Times,
         \A t \in chartRequest.there :
           Chart!ClampWindow(chartRequest).from <= t /\ t <= Chart!ClampWindow(chartRequest).to
             /\ ~Chart!IsEmpty(Chart!ClampWindow(chartRequest)) => t \in found
  PROVE  /\ Chart!Answered(found).due \subseteq found /\ Chart!Answered(found).tail \subseteq found
         /\ Chart!Answered(found).bars = found /\ Chart!Answered(found).kind = "bars"
         /\ Chart!Answered(found) \in
              [from : Chart!Asked, to : Chart!Asked, bars : SUBSET Chart!Times,
               due : SUBSET Chart!Times, tail : SUBSET Chart!Times,
               kind : {"none", "bars", "too_large"}]
<1>1. /\ chartRequest.from \in Nat /\ chartRequest.to \in Nat
      /\ chartRequest.from \in Chart!Asked /\ chartRequest.to \in Chart!Asked
      /\ chartRequest.first \in Nat /\ chartRequest.last \in Nat
      /\ chartRequest.first <= chartRequest.last
      /\ chartRequest.there \subseteq Chart!Times /\ chartRequest.there \subseteq Nat
      /\ \A t \in chartRequest.there :
           chartRequest.first # 0 /\ chartRequest.first <= t /\ t <= chartRequest.last
  BY RequestShape
<1>2. ASSUME NEW t \in chartRequest.there,
             \/ chartRequest.from <= t /\ t <= chartRequest.to
             \/ t = chartRequest.last /\ t <= chartRequest.to
      PROVE  t \in found
  BY <1>1, <1>2, WindowServes
<1>3. Chart!Answered(found).due \subseteq found
  BY <1>1, <1>2 DEF Chart!Answered
<1>4. Chart!Answered(found).tail \subseteq found
  <2>1. SUFFICES ASSUME NEW t \in chartRequest.there, t = chartRequest.last,
                        Chart!Min({chartRequest.from, chartRequest.to}) >= t
                 PROVE  t \in found
    BY DEF Chart!Answered
  <2> DEFINE least == Chart!Min({chartRequest.from, chartRequest.to})
  <2>2. \A a, b \in Int : Chart!Min({a, b}) \in {a, b} /\ Chart!Min({a, b}) <= b
    BY ChartPair
  <2>3. chartRequest.from \in Int /\ chartRequest.to \in Int /\ t \in Int BY <1>1
  <2>4. least \in {chartRequest.from, chartRequest.to} /\ least <= chartRequest.to
    BY <2>2, <2>3
  <2>5. least >= t BY <2>1
  <2> HIDE DEF least
  <2>6. t <= chartRequest.to BY <2>3, <2>4, <2>5
  <2> QED BY <1>2, <2>1, <2>6
<1> QED BY <1>1, <1>3, <1>4 DEF Chart!Answered

\* A chunk lands: no read of bars is under way.
LEMMA ChunkLands ==
  ASSUME ChartAssumption, ChartInv,
         NEW lo \in Chart!Times, NEW hi \in Chart!Times, NEW with \in SUBSET (lo .. hi),
         Chart!Write(lo, hi, with)
  PROVE  ChartInv'
<1>1. /\ chartRequest.step # "select" /\ chartBars' = (chartBars \ (lo .. hi)) \cup with
      /\ chartWrites < MaxBarWrites /\ chartWrites' = chartWrites + 1
      /\ onChart' = onChart \cap chartBars'
      /\ chartRequest' = [chartRequest EXCEPT !.there = @ \cap chartBars']
      /\ answer' = answer /\ screen' = screen
  BY DEF Chart!Write, ChartAssumption
<1>2. /\ chartRequest \in [step : {"none", "count", "select"}, from : Chart!Asked, to : Chart!Asked,
                           first : 0 .. LastBar, last : 0 .. LastBar, there : SUBSET Chart!Times]
  BY DEF ChartInv, Chart!TypeOK
<1>3. /\ chartRequest'.step = chartRequest.step /\ chartRequest'.from = chartRequest.from
      /\ chartRequest'.to = chartRequest.to /\ chartRequest'.first = chartRequest.first
      /\ chartRequest'.last = chartRequest.last
      /\ chartRequest'.there = chartRequest.there \cap chartBars'
      /\ chartRequest' \in [step : {"none", "count", "select"}, from : Chart!Asked, to : Chart!Asked,
                           first : 0 .. LastBar, last : 0 .. LastBar, there : SUBSET Chart!Times]
  BY <1>1, <1>2
<1>4. chartBars' \subseteq Chart!Times
  BY <1>1 DEF ChartInv, Chart!TypeOK, Chart!Times, ChartAssumption
<1>5. Chart!TypeOK'
  <2>1. chartWrites' \in 0 .. MaxBarWrites
    BY <1>1 DEF ChartInv, Chart!TypeOK, ChartAssumption
  <2> QED BY <1>1, <1>3, <1>4, <2>1 DEF ChartInv, Chart!TypeOK, Chart!Idle
<1>6. BoundsHold(chartRequest)' BY <1>3 DEF ChartInv, BoundsHold
<1>7. (Chart!AskedIsServed /\ Chart!PastTheEndShowsTheEnd /\ Chart!AnswerFits)'
  BY <1>1 DEF ChartInv, Chart!AskedIsServed, Chart!PastTheEndShowsTheEnd, Chart!AnswerFits
<1>8. Chart!ScreenHasNoHole'
  BY <1>1 DEF ChartInv, Chart!ScreenHasNoHole
<1> QED BY <1>1, <1>3, <1>5, <1>6, <1>7, <1>8 DEF ChartInv

\* A request reads the bounds of the series: its first bar and its last.
LEMMA AskStep ==
  ASSUME ChartAssumption, ChartInv,
         NEW from \in Chart!Asked, NEW to \in Chart!Asked, Chart!Ask(from, to)
  PROVE  ChartInv'
<1>1. /\ chartRequest' = [step |-> "count", from |-> from, to |-> to,
                          first |-> Chart!First, last |-> Chart!Last, there |-> chartBars]
      /\ answer' = Chart!NoAnswer
      /\ UNCHANGED <<chartBars, chartWrites, screen, onChart>>
  BY DEF Chart!Ask
<1>2. chartBars \subseteq Chart!Times /\ chartBars \subseteq 0 .. LastBar /\ chartBars \subseteq Nat
      /\ 0 \notin chartBars /\ LastBar \in Nat
  BY DEF ChartInv, Chart!TypeOK, Chart!Times, ChartAssumption
<1>3. /\ chartBars = {} => Chart!First = 0 /\ Chart!Last = 0
      /\ chartBars # {} => /\ Chart!First \in chartBars /\ Chart!Last \in chartBars
                           /\ \A t \in chartBars : Chart!First <= t /\ t <= Chart!Last
  <2>1. CASE chartBars = {} BY <2>1 DEF Chart!First, Chart!Last
  <2>2. CASE chartBars # {}
    <3>1. Chart!Min(chartBars) \in chartBars /\ \A y \in chartBars : Chart!Min(chartBars) <= y
      BY <1>2, <2>2, ChartLeast
    <3>2. Chart!Max(chartBars) \in chartBars /\ \A y \in chartBars : Chart!Max(chartBars) >= y
      BY <1>2, <2>2, ChartGreatest
    <3>3. Chart!First = Chart!Min(chartBars) /\ Chart!Last = Chart!Max(chartBars)
      BY <2>2 DEF Chart!First, Chart!Last
    <3>4. \A t \in chartBars : Chart!First <= t /\ t <= Chart!Last
      BY <1>2, <3>1, <3>2, <3>3
    <3> QED BY <2>2, <3>1, <3>2, <3>3, <3>4
  <2> QED BY <2>1, <2>2
<1>4. /\ Chart!First \in 0 .. LastBar /\ Chart!Last \in 0 .. LastBar
      /\ Chart!First <= Chart!Last /\ (Chart!First = 0) = (Chart!Last = 0)
      /\ Chart!First = 0 => chartBars = {}
  <2>1. CASE chartBars = {} BY <1>2, <1>3, <2>1
  <2>2. CASE chartBars # {}
    <3>1. Chart!First \in chartBars /\ Chart!Last \in chartBars /\ Chart!First <= Chart!Last
      BY <1>3, <2>2
    <3>2. Chart!First # 0 /\ Chart!Last # 0 BY <1>2, <3>1
    <3> QED BY <1>2, <2>2, <3>1, <3>2
  <2> QED BY <2>1, <2>2
<1> HIDE DEF Chart!First, Chart!Last
<1>5. Chart!TypeOK'
  <2>1. chartRequest' \in [step : {"none", "count", "select"}, from : Chart!Asked, to : Chart!Asked,
                           first : 0 .. LastBar, last : 0 .. LastBar, there : SUBSET Chart!Times]
    BY <1>1, <1>2, <1>4
  <2>2. answer' \in [from : Chart!Asked, to : Chart!Asked, bars : SUBSET Chart!Times,
                     due : SUBSET Chart!Times, tail : SUBSET Chart!Times,
                     kind : {"none", "bars", "too_large"}]
    BY <1>1 DEF Chart!NoAnswer, Chart!Asked, ChartAssumption
  <2>3. /\ (chartRequest.first = 0)' = (chartRequest.last = 0)'
        /\ chartRequest'.first <= chartRequest'.last /\ chartRequest'.step # "select"
    BY <1>1, <1>4
  <2> QED BY <1>1, <2>1, <2>2, <2>3 DEF ChartInv, Chart!TypeOK
<1>6. (Chart!AskedIsServed /\ Chart!PastTheEndShowsTheEnd /\ Chart!AnswerFits)'
  BY <1>1 DEF Chart!NoAnswer, Chart!AskedIsServed, Chart!PastTheEndShowsTheEnd, Chart!AnswerFits
<1>7. Chart!ScreenHasNoHole' BY <1>1 DEF ChartInv, Chart!ScreenHasNoHole
<1>8. BoundsHold(chartRequest)' BY <1>1, <1>3, <1>4 DEF BoundsHold
<1>9. /\ chartRequest'.there \subseteq chartBars' /\ onChart' \subseteq chartBars'
      /\ (chartRequest'.first = 0 => chartRequest'.there = {})
      /\ chartRequest'.step # "select"
  BY <1>1, <1>4 DEF ChartInv
<1> QED BY <1>5, <1>6, <1>7, <1>8, <1>9 DEF ChartInv

\* With no request under way there is nothing a request must hold.
LEMMA RequestOver ==
  ASSUME ChartAssumption, chartRequest = Chart!NoRequest
  PROVE  /\ chartRequest \in [step : {"none", "count", "select"}, from : Chart!Asked,
                              to : Chart!Asked, first : 0 .. LastBar, last : 0 .. LastBar,
                              there : SUBSET Chart!Times]
         /\ Chart!Idle /\ chartRequest.step = "none" /\ chartRequest.there = {}
         /\ BoundsHold(chartRequest)
BY DEF Chart!NoRequest, Chart!Idle, Chart!Asked, BoundsHold, ChartAssumption

\* An answer from the store, and the chart that starts over with it.
LEMMA ChartStartsOver ==
  ASSUME ChartAssumption, ChartInv, NEW found, found \subseteq Chart!Times, ~Chart!Idle,
         \A t \in chartRequest.there :
           Chart!ClampWindow(chartRequest).from <= t /\ t <= Chart!ClampWindow(chartRequest).to
             /\ ~Chart!IsEmpty(Chart!ClampWindow(chartRequest)) => t \in found,
         \A t \in chartBars, x, y \in found : x < t /\ t < y => t \in found,
         Cardinality(found) <= MaxCandles,
         chartRequest' = Chart!NoRequest, answer' = Chart!Answered(found), screen' = found,
         onChart' = chartBars, UNCHANGED <<chartBars, chartWrites>>
  PROVE  ChartInv'
<1>1. /\ Chart!Answered(found).due \subseteq found /\ Chart!Answered(found).tail \subseteq found
      /\ Chart!Answered(found).bars = found /\ Chart!Answered(found).kind = "bars"
      /\ Chart!Answered(found) \in
           [from : Chart!Asked, to : Chart!Asked, bars : SUBSET Chart!Times,
            due : SUBSET Chart!Times, tail : SUBSET Chart!Times,
            kind : {"none", "bars", "too_large"}]
  BY AnsweredWell
<1>2. /\ chartRequest' \in [step : {"none", "count", "select"}, from : Chart!Asked,
                              to : Chart!Asked, first : 0 .. LastBar, last : 0 .. LastBar,
                              there : SUBSET Chart!Times]
      /\ Chart!Idle' /\ chartRequest'.step = "none" /\ chartRequest'.there = {}
      /\ BoundsHold(chartRequest)'
  BY DEF Chart!NoRequest, Chart!Idle, Chart!Asked, BoundsHold, ChartAssumption
<1>3. Chart!TypeOK' BY <1>1, <1>2 DEF ChartInv, Chart!TypeOK
<1>4. (Chart!AskedIsServed /\ Chart!PastTheEndShowsTheEnd)'
  BY <1>1 DEF Chart!AskedIsServed, Chart!PastTheEndShowsTheEnd
<1>5. Chart!AnswerFits' BY <1>1, ChartCardinality DEF Chart!AnswerFits
<1>6. Chart!ScreenHasNoHole'
  <2>1. CASE found = {} BY <2>1 DEF Chart!ScreenHasNoHole
  <2>2. CASE found # {}
    <3>1. found \in SUBSET Nat /\ found \in SUBSET (0 .. LastBar) /\ LastBar \in Nat
      BY DEF Chart!Times, ChartAssumption
    <3>2. Chart!Min(found) \in found /\ Chart!Max(found) \in found
      BY <2>2, <3>1, ChartLeast, ChartGreatest
    <3>3. chartBars \subseteq Nat
      BY DEF ChartInv, Chart!TypeOK, Chart!Times, ChartAssumption
    <3>4. \A t \in chartBars : t > Chart!Min(found) /\ t < Chart!Max(found) => t \in found
      BY <3>1, <3>2, <3>3
    <3> QED BY <3>4 DEF Chart!ScreenHasNoHole
  <2> QED BY <2>1, <2>2
<1> QED BY <1>2, <1>3, <1>4, <1>5, <1>6 DEF ChartInv

\* A window that runs backwards.
LEMMA AnswerEmptyStep == ASSUME ChartAssumption, ChartInv, Chart!AnswerEmpty PROVE ChartInv'
<1>1. /\ chartRequest.step = "count" /\ Chart!IsEmpty(Chart!ClampWindow(chartRequest))
      /\ chartRequest' = Chart!NoRequest /\ answer' = Chart!Answered({}) /\ screen' = {}
      /\ onChart' = chartBars /\ UNCHANGED <<chartBars, chartWrites>>
  BY DEF Chart!AnswerEmpty
<1>2. ~Chart!Idle BY <1>1 DEF Chart!Idle
<1>3. Cardinality({}) <= MaxCandles BY FS_EmptySet DEF ChartAssumption
<1> DEFINE found == {}
<1>4. /\ found \subseteq Chart!Times /\ Cardinality(found) <= MaxCandles
      /\ \A t \in chartRequest.there :
           Chart!ClampWindow(chartRequest).from <= t /\ t <= Chart!ClampWindow(chartRequest).to
             /\ ~Chart!IsEmpty(Chart!ClampWindow(chartRequest)) => t \in found
      /\ \A t \in chartBars, x, y \in found : x < t /\ t < y => t \in found
      /\ answer' = Chart!Answered(found) /\ screen' = found
  BY <1>1, <1>3
<1> HIDE DEF found
<1> QED BY <1>1, <1>2, <1>4, ChartStartsOver

\* The count, and its limit.
LEMMA CountStep == ASSUME ChartAssumption, ChartInv, Chart!CountBars PROVE ChartInv'
<1> DEFINE r == Chart!IstRange(Chart!ClampWindow(chartRequest))
<1>1. /\ chartRequest.step = "count" /\ ~Chart!IsEmpty(Chart!ClampWindow(chartRequest))
      /\ UNCHANGED <<chartBars, chartWrites, screen, onChart>>
      /\ IF Chart!TooLarge(r)
           THEN chartRequest' = Chart!NoRequest
                /\ answer' = [Chart!NoAnswer EXCEPT !.kind = "too_large"]
           ELSE chartRequest' = [chartRequest EXCEPT !.step = "select"] /\ UNCHANGED answer
  BY DEF Chart!CountBars
<1>2. Chart!ScreenHasNoHole' BY <1>1 DEF ChartInv, Chart!ScreenHasNoHole
<1>3. CASE Chart!TooLarge(r)
  <2>1. /\ chartRequest' \in [step : {"none", "count", "select"}, from : Chart!Asked,
                              to : Chart!Asked, first : 0 .. LastBar, last : 0 .. LastBar,
                              there : SUBSET Chart!Times]
        /\ Chart!Idle' /\ chartRequest'.step = "none" /\ chartRequest'.there = {}
        /\ BoundsHold(chartRequest)'
    BY <1>1, <1>3 DEF Chart!NoRequest, Chart!Idle, Chart!Asked, BoundsHold, ChartAssumption
  <2>2. answer'.kind = "too_large"
        /\ answer' \in [from : Chart!Asked, to : Chart!Asked, bars : SUBSET Chart!Times,
                        due : SUBSET Chart!Times, tail : SUBSET Chart!Times,
                        kind : {"none", "bars", "too_large"}]
    BY <1>1, <1>3 DEF Chart!NoAnswer, Chart!Asked, ChartAssumption
  <2>3. Chart!TypeOK' BY <1>1, <2>1, <2>2 DEF ChartInv, Chart!TypeOK
  <2>4. (Chart!AskedIsServed /\ Chart!PastTheEndShowsTheEnd /\ Chart!AnswerFits)'
    BY <2>2 DEF Chart!AskedIsServed, Chart!PastTheEndShowsTheEnd, Chart!AnswerFits
  <2> QED BY <1>1, <1>2, <2>1, <2>3, <2>4 DEF ChartInv
<1>4. CASE ~Chart!TooLarge(r)
  <2>1. chartRequest \in [step : {"none", "count", "select"}, from : Chart!Asked,
                          to : Chart!Asked, first : 0 .. LastBar, last : 0 .. LastBar,
                          there : SUBSET Chart!Times]
    BY DEF ChartInv, Chart!TypeOK
  <2>2. chartRequest' = [chartRequest EXCEPT !.step = "select"] /\ answer' = answer
    BY <1>1, <1>4
  <2>3. /\ chartRequest'.from = chartRequest.from /\ chartRequest'.to = chartRequest.to
        /\ chartRequest'.first = chartRequest.first /\ chartRequest'.last = chartRequest.last
        /\ chartRequest'.there = chartRequest.there /\ chartRequest'.step = "select"
        /\ chartRequest' \in [step : {"none", "count", "select"}, from : Chart!Asked,
                              to : Chart!Asked, first : 0 .. LastBar, last : 0 .. LastBar,
                              there : SUBSET Chart!Times]
    BY <2>1, <2>2
  <2>4. Chart!ClampWindow(chartRequest)' = Chart!ClampWindow(chartRequest)
    BY <2>3 DEF Chart!ClampWindow
  <2>5. ~Chart!TooLarge(Chart!IstRange(Chart!ClampWindow(chartRequest)))'
    <3>1. chartBars' = chartBars BY <1>1
    <3> QED BY <3>1, <1>4, <2>4 DEF Chart!TooLarge, Chart!Between, Chart!IstRange
  <2>6. /\ chartRequest.from \in Nat /\ chartRequest.to \in Nat
        /\ chartRequest.from \in Chart!Asked /\ chartRequest.to \in Chart!Asked
        /\ chartRequest.first \in Nat /\ chartRequest.last \in Nat
        /\ chartRequest.first <= chartRequest.last
        /\ chartRequest.there \subseteq Chart!Times /\ chartRequest.there \subseteq Nat
        /\ \A t \in chartRequest.there :
             chartRequest.first # 0 /\ chartRequest.first <= t /\ t <= chartRequest.last
    BY <1>1, RequestShape DEF Chart!Idle
  <2>7. /\ Chart!ClampWindow(chartRequest).from \in Int
        /\ Chart!ClampWindow(chartRequest).to \in Int
    BY <2>6, WindowSlides
  <2>8. Chart!ClampWindow(chartRequest)'.from <= Chart!ClampWindow(chartRequest)'.to
    BY <1>1, <2>4, <2>7 DEF Chart!IsEmpty
  <2>9. Chart!TypeOK'
    <3>1. (chartRequest.first = 0) = (chartRequest.last = 0)
      BY <1>1 DEF ChartInv, Chart!TypeOK, Chart!Idle
    <3> QED BY <1>1, <2>2, <2>3, <2>6, <2>8, <3>1 DEF ChartInv, Chart!TypeOK, Chart!Idle
  <2>10. BoundsHold(chartRequest)' BY <2>3 DEF ChartInv, BoundsHold
  <2>11. (Chart!AskedIsServed /\ Chart!PastTheEndShowsTheEnd /\ Chart!AnswerFits)'
    BY <2>2 DEF ChartInv, Chart!AskedIsServed, Chart!PastTheEndShowsTheEnd, Chart!AnswerFits
  <2> QED BY <1>1, <1>2, <2>3, <2>5, <2>9, <2>10, <2>11 DEF ChartInv
<1> QED BY <1>3, <1>4

\* The bars of the window.
LEMMA SelectStep == ASSUME ChartAssumption, ChartInv, Chart!SelectBars PROVE ChartInv'
<1> DEFINE found == Chart!Between(Chart!IstRange(Chart!ClampWindow(chartRequest)))
<1>1. /\ chartRequest.step = "select" /\ chartRequest' = Chart!NoRequest
      /\ answer' = Chart!Answered(found) /\ screen' = found /\ onChart' = chartBars
      /\ UNCHANGED <<chartBars, chartWrites>>
  BY DEF Chart!SelectBars
<1>2. ~Chart!Idle BY <1>1 DEF Chart!Idle
<1>3. /\ chartRequest.from \in Nat /\ chartRequest.to \in Nat
      /\ chartRequest.from \in Chart!Asked /\ chartRequest.to \in Chart!Asked
      /\ chartRequest.first \in Nat /\ chartRequest.last \in Nat
      /\ chartRequest.first <= chartRequest.last
      /\ chartRequest.there \subseteq Chart!Times /\ chartRequest.there \subseteq Nat
      /\ \A t \in chartRequest.there :
           chartRequest.first # 0 /\ chartRequest.first <= t /\ t <= chartRequest.last
  BY <1>2, RequestShape
<1>4. /\ Chart!ClampWindow(chartRequest).from \in Int
      /\ Chart!ClampWindow(chartRequest).to \in Int
  BY <1>3, WindowSlides
<1>5. chartBars \subseteq Chart!Times /\ chartBars \subseteq Nat
      /\ chartRequest.there \subseteq chartBars
  BY DEF ChartInv, Chart!TypeOK, Chart!Times, ChartAssumption
<1>6. found = {t \in chartBars : Chart!ClampWindow(chartRequest).from <= t
                                 /\ t <= Chart!ClampWindow(chartRequest).to}
  <2> DEFINE from == Chart!ClampWindow(chartRequest).from
             to == Chart!ClampWindow(chartRequest).to
  <2>1. from \in Int /\ to \in Int /\ \A t \in chartBars : t \in Int BY <1>4, <1>5
  <2>2. found = {t \in chartBars : t >= from /\ t < to + 1}
    BY DEF Chart!Between, Chart!IstRange
  <2> HIDE DEF from, to
  <2>3. \A t \in chartBars : (t >= from /\ t < to + 1) <=> (from <= t /\ t <= to) BY <2>1
  <2>4. {t \in chartBars : t >= from /\ t < to + 1} = {t \in chartBars : from <= t /\ t <= to}
    BY <2>3
  <2> QED BY <2>2, <2>4 DEF from, to
<1>7. Cardinality(found) <= MaxCandles
  <2>1. ~(Chart!Cardinality(found) > MaxCandles)
    BY <1>1 DEF ChartInv, Chart!TooLarge
  <2>2. IsFiniteSet(found) /\ Cardinality(found) \in Nat
    <3>1. found \subseteq 1 .. LastBar BY <1>5, <1>6 DEF Chart!Times
    <3>2. IsFiniteSet(1 .. LastBar) BY FS_Interval DEF ChartAssumption
    <3> QED BY <3>1, <3>2, FS_Subset, FS_CardinalityType
  <2>3. ~(Cardinality(found) > MaxCandles) BY <2>1, ChartCardinality
  <2> QED BY <2>2, <2>3 DEF ChartAssumption
<1> HIDE DEF found
<1>8. \A t \in chartRequest.there :
        Chart!ClampWindow(chartRequest).from <= t /\ t <= Chart!ClampWindow(chartRequest).to
          /\ ~Chart!IsEmpty(Chart!ClampWindow(chartRequest)) => t \in found
  BY <1>5, <1>6
<1>9. \A t \in chartBars, x, y \in found : x < t /\ t < y => t \in found
  BY <1>4, <1>5, <1>6
<1>10. found \subseteq Chart!Times BY <1>5, <1>6
<1> QED BY <1>1, <1>2, <1>7, <1>8, <1>9, <1>10, ChartStartsOver

\* A page of history has no hole: what is newer than one of its bars and older than the
\* moment is in it too.
LEMMA PageHasNoHole ==
  ASSUME LastBar \in Nat, chartBars \subseteq 1 .. LastBar, NEW moment \in Nat,
         PageCount \in Nat,
         NEW x \in Chart!BarsBefore(moment), NEW t \in chartBars, x < t, t < moment
  PROVE  t \in Chart!BarsBefore(moment)
<1> DEFINE older == {u \in chartBars : u < moment}
           past(b) == {u \in older : u > b}
<1>1. x \in older /\ t \in older /\ Chart!Cardinality(past(x)) < PageCount
  BY DEF Chart!BarsBefore
<1>2. past(t) \subseteq past(x)
  <2>1. x \in Nat /\ t \in Nat /\ \A u \in older : u \in Nat BY <1>1
  <2>2. \A u \in older : u > t => u > x BY <2>1
  <2> QED BY <2>2
<1>3. IsFiniteSet(past(x))
  <2>1. IsFiniteSet(1 .. LastBar) BY FS_Interval
  <2>2. past(x) \subseteq 1 .. LastBar OBVIOUS
  <2> QED BY <2>1, <2>2, FS_Subset
<1>4. Cardinality(past(t)) <= Cardinality(past(x))
      /\ Cardinality(past(t)) \in Nat /\ Cardinality(past(x)) \in Nat
  <2>1. IsFiniteSet(past(t)) BY <1>2, <1>3, FS_Subset
  <2> QED BY <1>2, <1>3, <2>1, FS_Subset, FS_CardinalityType
<1> QED
  <2>1. Chart!Cardinality(past(t)) = Cardinality(past(t))
        /\ Chart!Cardinality(past(x)) = Cardinality(past(x))
    BY ChartCardinality
  <2>2. t \in chartBars /\ t < moment OBVIOUS
  <2>3. Chart!Cardinality(past(t)) < PageCount BY <1>1, <1>4, <2>1
  <2> HIDE DEF past
  <2>4. Chart!BarsBefore(moment) = {u \in older : Chart!Cardinality(past(u)) < PageCount}
    BY DEF Chart!BarsBefore, past
  <2> QED BY <1>1, <2>3, <2>4

\* A page of older bars joins the screen.
LEMMA HistoryStep == ASSUME ChartAssumption, ChartInv, Chart!LoadHistory PROVE ChartInv'
<1> DEFINE oldest == Chart!Min(screen)
           page == Chart!BarsBefore(oldest)
<1>1. /\ screen # {} /\ page # {} /\ screen' = screen \cup page /\ answer' = Chart!NoAnswer
      /\ UNCHANGED <<chartBars, chartWrites, chartRequest, onChart>>
  BY DEF Chart!LoadHistory
<1>2. /\ LastBar \in Nat /\ PageCount \in Nat
      /\ screen \subseteq 1 .. LastBar /\ chartBars \subseteq 1 .. LastBar
      /\ onChart \subseteq chartBars
      /\ screen \in SUBSET Nat /\ screen \in SUBSET (0 .. LastBar)
  BY DEF ChartInv, Chart!TypeOK, Chart!Times, ChartAssumption
<1>3. oldest \in screen /\ (\A y \in screen : oldest <= y) /\ oldest \in Nat
      /\ Chart!Max(screen) \in screen /\ \A y \in screen : Chart!Max(screen) >= y
  BY <1>1, <1>2, ChartLeast, ChartGreatest
<1>4. page \subseteq chartBars /\ \A t \in page : t < oldest BY DEF Chart!BarsBefore
<1>5. \A t \in onChart : t > oldest /\ t < Chart!Max(screen) => t \in screen
  BY <1>1, <1>2 DEF ChartInv, Chart!ScreenHasNoHole
<1>6. \A x \in page, t \in chartBars : x < t /\ t < oldest => t \in page
  BY <1>2, <1>3, PageHasNoHole
<1> HIDE DEF oldest, page
<1>7. screen' \subseteq 1 .. LastBar /\ screen' # {}
  BY <1>1, <1>2, <1>4
<1>8. Chart!Min(screen') \in screen' /\ Chart!Max(screen') \in screen'
      /\ \A y \in screen' : Chart!Min(screen') <= y /\ Chart!Max(screen') >= y
  <2>1. screen' \in SUBSET Nat /\ screen' \in SUBSET (0 .. LastBar) BY <1>2, <1>7
  <2>2. Chart!Min(screen') \in screen' /\ \A y \in screen' : Chart!Min(screen') <= y
    BY <1>7, <2>1, ChartLeast
  <2>3. Chart!Max(screen') \in screen' /\ \A y \in screen' : Chart!Max(screen') >= y
    BY <1>2, <1>7, <2>1, ChartGreatest
  <2> QED BY <2>2, <2>3
<1>9. /\ Chart!Max(screen') \in Nat /\ Chart!Max(screen) \in Nat /\ Chart!Min(screen') \in Nat
       /\ (\A t \in screen : t \in Nat) /\ (\A t \in page : t \in Nat)
       /\ (\A t \in screen' : t \in Nat) /\ (\A t \in onChart : t \in Nat)
  <2>1. \A t \in 1 .. LastBar : t \in Nat BY <1>2
  <2> QED BY <1>2, <1>3, <1>4, <1>7, <1>8, <2>1
<1>10. Chart!Max(screen') <= Chart!Max(screen)
  <2>1. CASE Chart!Max(screen') \in screen BY <1>3, <1>9, <2>1
  <2>2. CASE Chart!Max(screen') \in page
    <3>1. Chart!Max(screen') < oldest BY <1>4, <2>2
    <3>2. oldest <= Chart!Max(screen) BY <1>3
    <3> QED BY <1>3, <1>9, <3>1, <3>2
  <2> QED BY <1>1, <1>8, <2>1, <2>2
<1>11. Chart!Min(screen') \in page
  <2>1. PICK z \in page : TRUE BY <1>1
  <2>2. Chart!Min(screen') <= z /\ z < oldest BY <1>1, <1>4, <1>8, <2>1
  <2>3. Chart!Min(screen') < oldest BY <1>3, <1>9, <2>1, <2>2
  <2>4. Chart!Min(screen') \notin screen BY <1>3, <1>9, <2>3
  <2> QED BY <1>1, <1>8, <2>4
<1>12. Chart!ScreenHasNoHole'
  <2>1. SUFFICES ASSUME NEW t \in onChart, t > Chart!Min(screen'), t < Chart!Max(screen')
                 PROVE  t \in screen'
    BY <1>1 DEF Chart!ScreenHasNoHole
  <2>2. t \in Nat /\ Chart!Max(screen') \in Nat /\ Chart!Max(screen) \in Nat
        /\ Chart!Min(screen') \in Nat
    BY <1>9
  <2>3. CASE t > oldest
    <3>1. t < Chart!Max(screen) BY <1>10, <2>1, <2>2
    <3> QED BY <1>1, <1>5, <2>3, <3>1
  <2>4. CASE t = oldest BY <1>1, <1>3, <2>4
  <2>5. CASE t < oldest BY <1>1, <1>2, <1>6, <1>11, <2>1, <2>2, <2>5
  <2> QED BY <1>3, <2>2, <2>3, <2>4, <2>5
<1>13. (Chart!AskedIsServed /\ Chart!PastTheEndShowsTheEnd /\ Chart!AnswerFits)'
  BY <1>1 DEF Chart!NoAnswer, Chart!AskedIsServed, Chart!PastTheEndShowsTheEnd, Chart!AnswerFits
<1>14. Chart!TypeOK'
  <2>1. answer' \in [from : Chart!Asked, to : Chart!Asked, bars : SUBSET Chart!Times,
                     due : SUBSET Chart!Times, tail : SUBSET Chart!Times,
                     kind : {"none", "bars", "too_large"}]
    BY <1>1 DEF Chart!NoAnswer, Chart!Asked, ChartAssumption
  <2>2. screen' \subseteq Chart!Times BY <1>7 DEF Chart!Times
  <2>3. Chart!ClampWindow(chartRequest)' = Chart!ClampWindow(chartRequest)
    BY <1>1 DEF Chart!ClampWindow
  <2> QED BY <1>1, <2>1, <2>2, <2>3 DEF ChartInv, Chart!TypeOK, Chart!Idle
<1>15. BoundsHold(chartRequest)' BY <1>1 DEF ChartInv, BoundsHold
<1>16. chartRequest'.step # "select" BY <1>1 DEF Chart!LoadHistory, Chart!Idle
<1> QED BY <1>1, <1>12, <1>13, <1>14, <1>15, <1>16 DEF ChartInv

\* A chart is opened on nothing.
LEMMA ChartStarts == ASSUME ChartAssumption, Chart!Init PROVE ChartInv
<1>1. /\ chartBars \subseteq Chart!Times /\ chartWrites = 0 /\ chartRequest = Chart!NoRequest
      /\ answer = Chart!NoAnswer /\ screen = {} /\ onChart = {}
  BY DEF Chart!Init
<1>2. /\ chartRequest \in [step : {"none", "count", "select"}, from : Chart!Asked,
                              to : Chart!Asked, first : 0 .. LastBar, last : 0 .. LastBar,
                              there : SUBSET Chart!Times]
      /\ Chart!Idle /\ chartRequest.step = "none" /\ chartRequest.there = {}
      /\ BoundsHold(chartRequest)
  BY <1>1, RequestOver
<1>3. answer.kind = "none"
      /\ answer \in [from : Chart!Asked, to : Chart!Asked, bars : SUBSET Chart!Times,
                     due : SUBSET Chart!Times, tail : SUBSET Chart!Times,
                     kind : {"none", "bars", "too_large"}]
  BY <1>1 DEF Chart!NoAnswer, Chart!Asked, ChartAssumption
<1>4. Chart!TypeOK BY <1>1, <1>2, <1>3 DEF Chart!TypeOK, ChartAssumption
<1>5. Chart!AskedIsServed /\ Chart!PastTheEndShowsTheEnd /\ Chart!AnswerFits
  BY <1>3 DEF Chart!AskedIsServed, Chart!PastTheEndShowsTheEnd, Chart!AnswerFits
<1>6. Chart!ScreenHasNoHole BY <1>1 DEF Chart!ScreenHasNoHole
<1> QED BY <1>1, <1>2, <1>4, <1>5, <1>6 DEF ChartInv

\* Every step of a chart, its readers and the writer keeps it.
LEMMA ChartStep == ASSUME ChartAssumption, ChartInv, [Chart!Next]_(Chart!vars) PROVE ChartInv'
<1>1. CASE UNCHANGED Chart!vars
  <2>1. UNCHANGED <<chartBars, chartWrites, chartRequest, answer, screen, onChart>>
    BY <1>1 DEF Chart!vars
  <2>2. Chart!ClampWindow(chartRequest)' = Chart!ClampWindow(chartRequest)
    BY <2>1 DEF Chart!ClampWindow
  <2>3. Chart!TypeOK' BY <2>1, <2>2 DEF ChartInv, Chart!TypeOK, Chart!Idle
  <2>4. Chart!TooLarge(Chart!IstRange(Chart!ClampWindow(chartRequest)))'
          = Chart!TooLarge(Chart!IstRange(Chart!ClampWindow(chartRequest)))
    <3>1. chartBars' = chartBars BY <2>1
    <3> QED BY <2>2, <3>1 DEF Chart!TooLarge, Chart!Between, Chart!IstRange
  <2>5. (Chart!AskedIsServed /\ Chart!PastTheEndShowsTheEnd /\ Chart!ScreenHasNoHole
         /\ Chart!AnswerFits)'
    BY <2>1 DEF ChartInv, Chart!AskedIsServed, Chart!PastTheEndShowsTheEnd,
                Chart!ScreenHasNoHole, Chart!AnswerFits
  <2>6. BoundsHold(chartRequest)' BY <2>1 DEF ChartInv, BoundsHold
  <2> QED BY <2>1, <2>3, <2>4, <2>5, <2>6 DEF ChartInv
<1>2. ASSUME NEW lo \in Chart!Times, NEW hi \in Chart!Times, NEW with \in SUBSET (lo .. hi),
             Chart!Write(lo, hi, with)
      PROVE  ChartInv'
  BY <1>2, ChunkLands
<1>3. ASSUME NEW from \in Chart!Asked, NEW to \in Chart!Asked, Chart!Ask(from, to)
      PROVE  ChartInv'
  BY <1>3, AskStep
<1>4. CASE Chart!AnswerEmpty BY <1>4, AnswerEmptyStep
<1>5. CASE Chart!CountBars BY <1>5, CountStep
<1>6. CASE Chart!SelectBars BY <1>6, SelectStep
<1>7. CASE Chart!LoadHistory BY <1>7, HistoryStep
<1> QED BY <1>1, <1>2, <1>3, <1>4, <1>5, <1>6, <1>7 DEF Chart!Next

\* A chart window slid inside the data serves every bar that was asked for and there all
\* along, the chart paged back has no hole and no response is over its limit, for every
\* length of the series, limit and page, when no chunk lands between the count of a request
\* and its read (`api/v1/bars.py`).
THEOREM ChartSoundAlways == ASSUME ChartAssumption PROVE Chart!Spec => []ChartSound
<1>1. Chart!Init => ChartInv BY ChartStarts
<1>2. ChartInv /\ [Chart!Next]_(Chart!vars) => ChartInv' BY ChartStep
<1>3. ChartInv => ChartSound BY DEF ChartInv, ChartSound
<1> QED BY <1>1, <1>2, <1>3, PTL DEF Chart!Spec
-----------------------------------------------------------------------------
(* The symbol master. *)

\* The files own disjoint sets of instruments and list only their own.
MasterAssumption ==
  /\ LastDay \in Nat \ {0}
  /\ DOMAIN Order = 1 .. Len(Order) /\ Len(Order) \in Nat \ {0}
  /\ \A f \in Master!Files : \A c \in Contents[f] :
       IsFiniteSet(DOMAIN c) /\ DOMAIN c \subseteq Slice[f]
  /\ \A f, g \in Master!Files : f # g => Slice[f] \cap Slice[g] = {}
  /\ "published_meanwhile" \notin Freedoms /\ "midnight_meanwhile" \notin Freedoms

AllContents == UNION {Contents[f] : f \in Master!Files}
Attrs == UNION {{c[t] : t \in DOMAIN c} : c \in AllContents}
VersionRows == [tok : Master!Tokens, attr : Attrs, from : Nat, to : Nat]
SnapshotRows == [file : Master!Files, day : Nat, sha : AllContents, rows : Nat]
PathRows == [there : {FALSE}]
              \cup [there : {TRUE}, by : SUBSET Runs, says : AllContents, whole : BOOLEAN]
RunRows == [step : {"idle"}]
             \cup [step : {"fetch", "rebuild"}, day : Nat, k : Nat]
             \cup [step : {"loading", "loaded"}, day : Nat, k : Nat, got : AllContents]
             \cup [step : {"skip", "diff"}, day : Nat, k : Nat, got : AllContents, rows : Nat]

\* The versions on a day: none is empty or begins later, and two of one instrument follow
\* one another.
VersionsFit(vs, day) ==
  /\ vs \subseteq VersionRows
  /\ \A v \in vs : 1 <= v.from /\ v.from <= day /\ (v.to # 0 => v.from < v.to /\ v.to <= day)
  /\ \A v, w \in vs : v.tok = w.tok =>
       v = w \/ (v.to # 0 /\ v.to <= w.from) \/ (w.to # 0 /\ w.to <= v.from)

Covers(v, tok, day) == v.tok = tok /\ v.from <= day /\ (v.to = 0 \/ v.to > day)
FactsIn(vs, tok, day) == {v.attr : v \in {x \in vs : Covers(x, tok, day)}}
CurrentIn(vs, tok, attr) == \E v \in vs : v.tok = tok /\ v.to = 0 /\ v.attr = attr

\* The snapshots on a day: one a file and a day, each answered by the versions for its day,
\* the last of a file also by the current ones.
LastOf(ss, f) == {x \in ss : x.file = f /\ \A y \in ss : y.file = f => y.day <= x.day}
SnapshotsFit(ss, vs, day) ==
  /\ ss \subseteq SnapshotRows
  /\ \A x \in ss : /\ 1 <= x.day /\ x.day <= day /\ x.sha \in Contents[x.file]
                   /\ x.rows = Cardinality(DOMAIN x.sha)
                   /\ \A t \in DOMAIN x.sha : FactsIn(vs, t, x.day) = {x.sha[t]}
  /\ \A x, y \in ss : x.file = y.file /\ x.day = y.day => x = y
  /\ \A f \in Master!Files : \A x \in LastOf(ss, f) : \A t \in DOMAIN x.sha :
       CurrentIn(vs, t, x.sha[t])

\* One row after the amending and the closing of a merge.
Amended(v, s, day) ==
  IF v.to = 0 /\ v.from = day /\ v.tok \in DOMAIN s THEN [v EXCEPT !.attr = s[v.tok]] ELSE v
ClosedAsChanged(v, s, day) ==
  IF v.to = 0 /\ v.from < day /\ Master!Changed(v, s) THEN [v EXCEPT !.to = day] ELSE v
ClosedAsGone(v, f, s, day) ==
  IF v.to = 0 /\ v.from < day /\ s # <<>> /\ v.tok \in Slice[f] \ DOMAIN s
    THEN [v EXCEPT !.to = day] ELSE v
Settled(v, f, s, day) == ClosedAsGone(ClosedAsChanged(Amended(v, s, day), s, day), f, s, day)
SettledRows(vs, f, s, day) == {Settled(v, f, s, day) : v \in vs}
Fresh(vs, s, day) == DOMAIN s \ {v.tok : v \in {x \in vs : x.to = 0}}
Opened(t, s, day) == [tok |-> t, attr |-> s[t], from |-> day, to |-> 0]
Merged(vs, f, s, day) ==
  SettledRows(vs, f, s, day)
    \cup {Opened(t, s, day) : t \in Fresh(SettledRows(vs, f, s, day), s, day)}

\* What the files list.
LEMMA Listed ==
  ASSUME MasterAssumption, NEW f \in Master!Files, NEW s \in Contents[f]
  PROVE  /\ s \in AllContents /\ DOMAIN s \subseteq Slice[f] /\ DOMAIN s \subseteq Master!Tokens
         /\ Slice[f] \subseteq Master!Tokens
         /\ \A t \in DOMAIN s : s[t] \in Attrs
         /\ IsFiniteSet(DOMAIN s)
<1>1. s \in AllContents BY DEF AllContents
<1>2. \A t \in DOMAIN s : s[t] \in Attrs BY <1>1 DEF Attrs
<1>3. Slice[f] \subseteq Master!Tokens BY DEF Master!Tokens
<1> QED BY <1>1, <1>2, <1>3 DEF MasterAssumption

\* What a merge does to one row.
LEMMA RowSettles ==
  ASSUME MasterAssumption, NEW f \in Master!Files, NEW s \in Contents[f], NEW day \in Nat \ {0},
         NEW v \in VersionRows, v.from <= day, NEW w, w = Settled(v, f, s, day)
  PROVE  /\ w \in VersionRows /\ w.tok = v.tok /\ w.from = v.from
         /\ v.to # 0 => w = v
         /\ v.to = 0 => \/ w.to = 0 /\ (w.attr = v.attr \/ w.from = day)
                        \/ w.to = day /\ w.from < day /\ w.attr = v.attr
         /\ v.tok \in DOMAIN s /\ w.to = 0 => w.attr = s[v.tok] \/ v.to # 0
         /\ v.tok \notin Slice[f] => w = v
<1>1. /\ DOMAIN s \subseteq Slice[f] /\ \A t \in DOMAIN s : s[t] \in Attrs
  BY Listed
<1>2. /\ v.tok \in Master!Tokens /\ v.attr \in Attrs /\ v.from \in Nat /\ v.to \in Nat
      /\ v = [tok |-> v.tok, attr |-> v.attr, from |-> v.from, to |-> v.to]
  BY DEF VersionRows
<1> DEFINE a == Amended(v, s, day)
           c == ClosedAsChanged(a, s, day)
<1>3. /\ a \in VersionRows /\ a.tok = v.tok /\ a.from = v.from /\ a.to = v.to
      /\ a = v \/ (v.to = 0 /\ v.from = day /\ v.tok \in DOMAIN s)
      /\ v.to = 0 /\ v.from = day /\ v.tok \in DOMAIN s => a.attr = s[v.tok]
  <2>1. CASE v.to = 0 /\ v.from = day /\ v.tok \in DOMAIN s
    <3>1. a = [v EXCEPT !.attr = s[v.tok]] /\ s[v.tok] \in Attrs BY <1>1, <2>1 DEF Amended
    <3> QED BY <1>2, <2>1, <3>1 DEF VersionRows
  <2>2. CASE ~(v.to = 0 /\ v.from = day /\ v.tok \in DOMAIN s)
    <3>1. a = v BY <2>2 DEF Amended
    <3> QED BY <2>2, <3>1
  <2> QED BY <2>1, <2>2
<1> HIDE DEF a
<1>4. /\ c \in VersionRows /\ c.tok = v.tok /\ c.from = v.from /\ c.attr = a.attr
      /\ c = a \/ (v.to = 0 /\ v.from < day /\ v.tok \in DOMAIN s /\ c.to = day)
      /\ v.tok \in DOMAIN s /\ c.to = 0 => c.attr = s[v.tok]
  <2>1. CASE a.to = 0 /\ a.from < day /\ Master!Changed(a, s)
    <3>1. c = [a EXCEPT !.to = day] BY <2>1 DEF ClosedAsChanged
    <3> QED BY <1>3, <2>1, <3>1 DEF VersionRows, Master!Changed
  <2>2. CASE ~(a.to = 0 /\ a.from < day /\ Master!Changed(a, s))
    <3>1. c = a BY <2>2 DEF ClosedAsChanged
    <3> QED BY <1>2, <1>3, <2>2, <3>1 DEF Master!Changed
  <2> QED BY <2>1, <2>2
<1> HIDE DEF c
<1>5. w = ClosedAsGone(c, f, s, day) BY DEF Settled, a, c
<1>6. /\ w \in VersionRows /\ w.tok = v.tok /\ w.from = v.from /\ w.attr = a.attr
      /\ w = c \/ (c.to = 0 /\ v.from < day /\ w.to = day /\ v.tok \in Slice[f] \ DOMAIN s)
  <2>1. CASE c.to = 0 /\ c.from < day /\ s # <<>> /\ c.tok \in Slice[f] \ DOMAIN s
    <3>1. w = [c EXCEPT !.to = day] BY <1>5, <2>1 DEF ClosedAsGone
    <3> QED BY <1>4, <2>1, <3>1 DEF VersionRows
  <2>2. CASE ~(c.to = 0 /\ c.from < day /\ s # <<>> /\ c.tok \in Slice[f] \ DOMAIN s)
    <3>1. w = c BY <1>5, <2>2 DEF ClosedAsGone
    <3> QED BY <1>4, <3>1
  <2> QED BY <2>1, <2>2
<1> QED BY <1>1, <1>2, <1>3, <1>4, <1>6

\* The merge, in one formula.
LEMMA ApplyMerges ==
  ASSUME MasterAssumption, NEW f \in Master!Files, NEW s \in Contents[f], NEW day \in Nat \ {0},
         VersionsFit(versions, day)
  PROVE  Master!Apply(f, s, day) = Merged(versions, f, s, day)
<1> DEFINE R == SettledRows(versions, f, s, day)
<1>1. R = Master!CloseGone(Master!CloseChanged(Master!Amend(versions, s, day), s, day), f, s, day)
  <2>1. Master!Amend(versions, s, day) = {Amended(v, s, day) : v \in versions}
    BY DEF Master!Amend, Amended
  <2>2. \A vs : Master!CloseChanged(vs, s, day) = {ClosedAsChanged(v, s, day) : v \in vs}
    BY DEF Master!CloseChanged, ClosedAsChanged
  <2>3. \A vs : Master!CloseGone(vs, f, s, day) = {ClosedAsGone(v, f, s, day) : v \in vs}
    BY DEF Master!CloseGone, ClosedAsGone
  <2> DEFINE A == {Amended(v, s, day) : v \in versions}
             C == {ClosedAsChanged(v, s, day) : v \in A}
  <2>4. C = {ClosedAsChanged(Amended(v, s, day), s, day) : v \in versions} OBVIOUS
  <2>5. {ClosedAsGone(v, f, s, day) : v \in C} = R BY <2>4 DEF SettledRows, Settled
  <2> QED BY <2>1, <2>2, <2>3, <2>5
<1> HIDE DEF R
<1>2. {v.tok : v \in Master!Open(R)} = {v.tok : v \in {x \in R : x.to = 0}} BY DEF Master!Open
<1> DEFINE New == Fresh(R, s, day)
<1>3. New = DOMAIN s \ {v.tok : v \in Master!Open(R)} BY <1>2 DEF Fresh
<1>4. \A v \in R : ~(v.tok \in New /\ v.from = day)
  <2>1. SUFFICES ASSUME NEW v \in R, v.tok \in New, v.from = day PROVE FALSE OBVIOUS
  <2>2. PICK u \in versions : v = Settled(u, f, s, day) BY DEF R, SettledRows
  <2>3. u \in VersionRows /\ u.from <= day /\ (u.to # 0 => u.from < u.to /\ u.to <= day)
    BY DEF VersionsFit
  <2>4. /\ v \in VersionRows /\ v.tok = u.tok /\ v.from = u.from
        /\ u.to # 0 => v = u
        /\ u.to = 0 => \/ v.to = 0 /\ (v.attr = u.attr \/ v.from = day)
                       \/ v.to = day /\ v.from < day /\ v.attr = u.attr
        /\ u.tok \in DOMAIN s /\ v.to = 0 => v.attr = s[u.tok] \/ u.to # 0
        /\ u.tok \notin Slice[f] => v = u
    BY <2>2, <2>3, RowSettles
  <2>5. v.to # 0 BY <1>3, <2>1 DEF Master!Open
  <2> QED BY <2>1, <2>3, <2>4, <2>5 DEF VersionRows
<1>5. {v \in R : ~(v.tok \in New /\ v.from = day)} = R BY <1>4
<1>6. Master!OpenNew(R, s, day)
        = R \cup {[tok |-> t, attr |-> s[t], from |-> day, to |-> 0] : t \in New}
  <2>1. Master!OpenNew(R, s, day)
          = {v \in R : ~(v.tok \in New /\ v.from = day)}
              \cup {[tok |-> t, attr |-> s[t], from |-> day, to |-> 0] : t \in New}
    BY <1>3 DEF Master!OpenNew
  <2> QED BY <1>5, <2>1
<1>7. Master!OpenNew(R, s, day) = R \cup {Opened(t, s, day) : t \in New} BY <1>6 DEF Opened
<1> QED BY <1>1, <1>7 DEF Master!Apply, Merged, R

\* The rows of a merge: settled ones of before, and new ones of instruments without a current one.
LEMMA MergedRows ==
  ASSUME MasterAssumption, NEW f \in Master!Files, NEW s \in Contents[f], NEW day \in Nat \ {0},
         NEW vs, VersionsFit(vs, day), NEW w \in Merged(vs, f, s, day)
  PROVE  /\ w \in VersionRows /\ 1 <= w.from /\ w.from <= day
         /\ (w.to # 0 => w.from < w.to /\ w.to <= day)
         /\ \/ \E v \in vs : /\ w.tok = v.tok /\ w.from = v.from
                             /\ v.to # 0 => w = v
                             /\ v.to = 0 => \/ w.to = 0 /\ (w.attr = v.attr \/ w.from = day)
                                            \/ w.to = day /\ w.from < day /\ w.attr = v.attr
                             /\ v.tok \in DOMAIN s /\ w.to = 0 => w.attr = s[v.tok]
                             /\ v.tok \notin Slice[f] => w = v
            \/ /\ w.tok \in DOMAIN s /\ w.from = day /\ w.to = 0 /\ w.attr = s[w.tok]
               /\ \A x \in SettledRows(vs, f, s, day) : x.tok = w.tok => x.to # 0
<1>1. /\ DOMAIN s \subseteq Master!Tokens /\ \A t \in DOMAIN s : s[t] \in Attrs
  BY Listed
<1>2. CASE w \in SettledRows(vs, f, s, day)
  <2>1. PICK v \in vs : w = Settled(v, f, s, day) BY <1>2 DEF SettledRows
  <2>2. /\ v \in VersionRows /\ 1 <= v.from /\ v.from <= day
        /\ (v.to # 0 => v.from < v.to /\ v.to <= day)
    BY DEF VersionsFit
  <2>3. /\ w \in VersionRows /\ w.tok = v.tok /\ w.from = v.from
        /\ v.to # 0 => w = v
        /\ v.to = 0 => \/ w.to = 0 /\ (w.attr = v.attr \/ w.from = day)
                       \/ w.to = day /\ w.from < day /\ w.attr = v.attr
        /\ v.tok \in DOMAIN s /\ w.to = 0 => w.attr = s[v.tok] \/ v.to # 0
        /\ v.tok \notin Slice[f] => w = v
    BY <2>1, <2>2, RowSettles
  <2>4. v.tok \in DOMAIN s /\ w.to = 0 => w.attr = s[v.tok] BY <2>3
  <2>5. w.to # 0 => w.from < w.to /\ w.to <= day BY <2>2, <2>3
  <2> QED BY <2>2, <2>3, <2>4, <2>5
<1>3. CASE w \notin SettledRows(vs, f, s, day)
  <2>1. PICK t \in Fresh(SettledRows(vs, f, s, day), s, day) : w = Opened(t, s, day)
    BY <1>3 DEF Merged
  <2>2. t \in DOMAIN s /\ t \in Master!Tokens /\ s[t] \in Attrs
        /\ \A x \in SettledRows(vs, f, s, day) : x.tok = t => x.to # 0
    BY <1>1, <2>1 DEF Fresh
  <2>3. w = [tok |-> t, attr |-> s[t], from |-> day, to |-> 0] BY <2>1 DEF Opened
  <2> QED BY <2>2, <2>3 DEF VersionRows
<1> QED BY <1>2, <1>3

\* Each row of before is settled, and stands in the merge.
LEMMA MergedKeeps ==
  ASSUME MasterAssumption, NEW f \in Master!Files, NEW s \in Contents[f], NEW day \in Nat \ {0},
         NEW vs, VersionsFit(vs, day), NEW v \in vs
  PROVE  \E w \in SettledRows(vs, f, s, day) :
           /\ w \in Merged(vs, f, s, day)
           /\ w.tok = v.tok /\ w.from = v.from
           /\ v.to # 0 => w = v
           /\ v.to = 0 => \/ w.to = 0 /\ (w.attr = v.attr \/ w.from = day)
                          \/ w.to = day /\ w.from < day /\ w.attr = v.attr
           /\ v.tok \in DOMAIN s /\ w.to = 0 => w.attr = s[v.tok]
           /\ v.tok \notin Slice[f] => w = v
<1> DEFINE w == Settled(v, f, s, day)
<1>1. w \in SettledRows(vs, f, s, day) /\ w \in Merged(vs, f, s, day)
  BY DEF SettledRows, Merged
<1>2. v \in VersionRows /\ v.from <= day BY DEF VersionsFit
<1>3. /\ w \in VersionRows /\ w.tok = v.tok /\ w.from = v.from
      /\ v.to # 0 => w = v
      /\ v.to = 0 => \/ w.to = 0 /\ (w.attr = v.attr \/ w.from = day)
                     \/ w.to = day /\ w.from < day /\ w.attr = v.attr
      /\ v.tok \in DOMAIN s /\ w.to = 0 => w.attr = s[v.tok] \/ v.to # 0
      /\ v.tok \notin Slice[f] => w = v
  BY <1>2, RowSettles
<1> HIDE DEF w
<1> QED BY <1>1, <1>3

\* After a merge the versions still follow one another.
LEMMA MergeFits ==
  ASSUME MasterAssumption, NEW f \in Master!Files, NEW s \in Contents[f], NEW day \in Nat \ {0},
         NEW vs, VersionsFit(vs, day)
  PROVE  VersionsFit(Merged(vs, f, s, day), day)
<1> DEFINE M == Merged(vs, f, s, day)
           R == SettledRows(vs, f, s, day)
<1>1. ASSUME NEW w \in M PROVE
        /\ w \in VersionRows /\ 1 <= w.from /\ w.from <= day
        /\ (w.to # 0 => w.from < w.to /\ w.to <= day)
  BY MergedRows
<1>2. ASSUME NEW u \in vs, NEW v \in vs, u.tok = v.tok, NEW x, NEW y,
             x = Settled(u, f, s, day), y = Settled(v, f, s, day)
      PROVE  x = y \/ (x.to # 0 /\ x.to <= y.from) \/ (y.to # 0 /\ y.to <= x.from)
  <2>1. /\ u \in VersionRows /\ u.from <= day /\ v \in VersionRows /\ v.from <= day
        /\ u = v \/ (u.to # 0 /\ u.to <= v.from) \/ (v.to # 0 /\ v.to <= u.from)
    BY <1>2 DEF VersionsFit
  <2>2. x.from = u.from /\ (u.to # 0 => x = u) /\ y.from = v.from /\ (v.to # 0 => y = v)
    <3>1. /\ x \in VersionRows /\ x.tok = u.tok /\ x.from = u.from
          /\ u.to # 0 => x = u
          /\ u.to = 0 => \/ x.to = 0 /\ (x.attr = u.attr \/ x.from = day)
                         \/ x.to = day /\ x.from < day /\ x.attr = u.attr
          /\ u.tok \in DOMAIN s /\ x.to = 0 => x.attr = s[u.tok] \/ u.to # 0
          /\ u.tok \notin Slice[f] => x = u
      BY <1>2, <2>1, RowSettles
    <3>2. /\ y \in VersionRows /\ y.tok = v.tok /\ y.from = v.from
          /\ v.to # 0 => y = v
          /\ v.to = 0 => \/ y.to = 0 /\ (y.attr = v.attr \/ y.from = day)
                         \/ y.to = day /\ y.from < day /\ y.attr = v.attr
          /\ v.tok \in DOMAIN s /\ y.to = 0 => y.attr = s[v.tok] \/ v.to # 0
          /\ v.tok \notin Slice[f] => y = v
      BY <1>2, <2>1, RowSettles
    <3> QED BY <3>1, <3>2
  <2> QED BY <1>2, <2>1, <2>2
<1>3. ASSUME NEW w \in M, w \notin R
      PROVE  /\ w.tok \in Fresh(R, s, day) /\ w.from = day /\ w.to = 0
             /\ w = Opened(w.tok, s, day)
  <2>1. PICK t \in Fresh(R, s, day) : w = Opened(t, s, day) BY <1>3 DEF Merged
  <2> QED BY <2>1 DEF Opened
<1>4. \A w, x \in M : w.tok = x.tok =>
        w = x \/ (w.to # 0 /\ w.to <= x.from) \/ (x.to # 0 /\ x.to <= w.from)
  <2>1. SUFFICES ASSUME NEW w \in M, NEW x \in M, w.tok = x.tok
                 PROVE  w = x \/ (w.to # 0 /\ w.to <= x.from) \/ (x.to # 0 /\ x.to <= w.from)
    OBVIOUS
  <2>2. CASE w \in R /\ x \in R
    <3>1. PICK u \in vs : w = Settled(u, f, s, day) BY <2>2 DEF SettledRows
    <3>2. PICK v \in vs : x = Settled(v, f, s, day) BY <2>2 DEF SettledRows
    <3>3. u \in VersionRows /\ u.from <= day /\ v \in VersionRows /\ v.from <= day
      BY DEF VersionsFit
    <3>4. w.tok = u.tok
      <4>1. /\ w \in VersionRows /\ w.tok = u.tok /\ w.from = u.from
            /\ u.to # 0 => w = u
            /\ u.to = 0 => \/ w.to = 0 /\ (w.attr = u.attr \/ w.from = day)
                           \/ w.to = day /\ w.from < day /\ w.attr = u.attr
            /\ u.tok \in DOMAIN s /\ w.to = 0 => w.attr = s[u.tok] \/ u.to # 0
            /\ u.tok \notin Slice[f] => w = u
        BY <3>1, <3>3, RowSettles
      <4> QED BY <4>1
    <3>5. x.tok = v.tok
      <4>1. /\ x \in VersionRows /\ x.tok = v.tok /\ x.from = v.from
            /\ v.to # 0 => x = v
            /\ v.to = 0 => \/ x.to = 0 /\ (x.attr = v.attr \/ x.from = day)
                           \/ x.to = day /\ x.from < day /\ x.attr = v.attr
            /\ v.tok \in DOMAIN s /\ x.to = 0 => x.attr = s[v.tok] \/ v.to # 0
            /\ v.tok \notin Slice[f] => x = v
        BY <3>2, <3>3, RowSettles
      <4> QED BY <4>1
    <3> QED BY <1>2, <2>1, <3>1, <3>2, <3>4, <3>5
  <2>3. CASE w \notin R /\ x \in R
    <3>1. x.to # 0 /\ x.to <= day BY <1>1, <1>3, <2>1, <2>3 DEF Fresh
    <3> QED BY <1>3, <2>1, <2>3, <3>1
  <2>4. CASE w \in R /\ x \notin R
    <3>1. w.to # 0 /\ w.to <= day BY <1>1, <1>3, <2>1, <2>4 DEF Fresh
    <3> QED BY <1>3, <2>1, <2>4, <3>1
  <2>5. CASE w \notin R /\ x \notin R BY <1>3, <2>1, <2>5
  <2> QED BY <2>2, <2>3, <2>4, <2>5
<1> QED BY <1>1, <1>4 DEF VersionsFit

\* A merge leaves the instruments of other files alone, and everyone's earlier days.
LEMMA MergeIsLocal ==
  ASSUME MasterAssumption, NEW f \in Master!Files, NEW s \in Contents[f], NEW day \in Nat \ {0},
         NEW vs, VersionsFit(vs, day), NEW t
  PROVE  /\ t \notin Slice[f] =>
              {x \in Merged(vs, f, s, day) : x.tok = t} = {x \in vs : x.tok = t}
         /\ \A d \in 1 .. day - 1 : FactsIn(Merged(vs, f, s, day), t, d) = FactsIn(vs, t, d)
<1> DEFINE M == Merged(vs, f, s, day)
<1>1. ASSUME NEW w \in M, NEW d \in 1 .. day - 1, Covers(w, t, d)
      PROVE  \E v \in vs : Covers(v, t, d) /\ v.attr = w.attr
  <2>1. /\ w \in VersionRows /\ w.from <= d /\ d < day /\ w.from < day
    BY <1>1, MergedRows DEF Covers, VersionRows
  <2>2. PICK v \in vs : /\ w.tok = v.tok /\ w.from = v.from
                        /\ v.to # 0 => w = v
                        /\ v.to = 0 => \/ w.to = 0 /\ (w.attr = v.attr \/ w.from = day)
                                       \/ w.to = day /\ w.from < day /\ w.attr = v.attr
    BY <1>1, <2>1, MergedRows
  <2>3. w.attr = v.attr BY <2>1, <2>2
  <2>4. Covers(v, t, d) BY <1>1, <2>2 DEF Covers
  <2> QED BY <2>3, <2>4
<1>2. ASSUME NEW v \in vs, NEW d \in 1 .. day - 1, Covers(v, t, d)
      PROVE  \E w \in M : Covers(w, t, d) /\ w.attr = v.attr
  <2>1. PICK w \in M : /\ w.tok = v.tok /\ w.from = v.from
                       /\ v.to # 0 => w = v
                       /\ v.to = 0 => \/ w.to = 0 /\ (w.attr = v.attr \/ w.from = day)
                                      \/ w.to = day /\ w.from < day /\ w.attr = v.attr
    BY MergedKeeps
  <2>2. d < day /\ v.from <= d BY <1>2 DEF Covers
  <2>3. v.from \in Nat BY DEF VersionsFit, VersionRows
  <2> QED BY <1>2, <2>1, <2>2, <2>3 DEF Covers
<1>3. \A d \in 1 .. day - 1 : FactsIn(M, t, d) = FactsIn(vs, t, d)
  BY <1>1, <1>2 DEF FactsIn
<1>4. ASSUME t \notin Slice[f] PROVE {x \in M : x.tok = t} = {x \in vs : x.tok = t}
  <2>1. ASSUME NEW w \in M, w.tok = t PROVE w \in vs
    <3>1. t \notin DOMAIN s BY <1>4, Listed
    <3> QED BY <1>4, <2>1, <3>1, MergedRows
  <2>2. ASSUME NEW v \in vs, v.tok = t PROVE v \in M
    <3>1. PICK w \in M : v.tok \notin Slice[f] => w = v BY MergedKeeps
    <3> QED BY <1>4, <2>2, <3>1
  <2> QED BY <2>1, <2>2
<1> QED BY <1>3, <1>4

\* What the merged file lists is current.
LEMMA MergeLists ==
  ASSUME MasterAssumption, NEW f \in Master!Files, NEW s \in Contents[f], NEW day \in Nat \ {0},
         NEW vs, VersionsFit(vs, day), NEW t \in DOMAIN s
  PROVE  CurrentIn(Merged(vs, f, s, day), t, s[t])
<1> DEFINE R == SettledRows(vs, f, s, day)
<1>1. CASE t \in Fresh(R, s, day)
  <2>1. Opened(t, s, day) \in Merged(vs, f, s, day) BY <1>1 DEF Merged
  <2> QED BY <2>1 DEF CurrentIn, Opened
<1>2. CASE t \notin Fresh(R, s, day)
  <2>1. PICK w \in R : w.tok = t /\ w.to = 0 BY <1>2 DEF Fresh
  <2>2. PICK v \in vs : w = Settled(v, f, s, day) BY <2>1 DEF SettledRows
  <2>3. v \in VersionRows /\ v.from <= day BY DEF VersionsFit
  <2>4. /\ w \in VersionRows /\ w.tok = v.tok /\ w.from = v.from
        /\ v.to # 0 => w = v
        /\ v.to = 0 => \/ w.to = 0 /\ (w.attr = v.attr \/ w.from = day)
                       \/ w.to = day /\ w.from < day /\ w.attr = v.attr
        /\ v.tok \in DOMAIN s /\ w.to = 0 => w.attr = s[v.tok] \/ v.to # 0
        /\ v.tok \notin Slice[f] => w = v
    BY <2>2, <2>3, RowSettles
  <2>5. w.attr = s[t] BY <2>1, <2>4
  <2>6. w \in Merged(vs, f, s, day) BY <2>1 DEF Merged
  <2> QED BY <2>1, <2>5, <2>6 DEF CurrentIn
<1> QED BY <1>1, <1>2

\* An instrument that is current is answered as it is, today, and as nothing else.
LEMMA CurrentAnswers ==
  ASSUME NEW vs, NEW day \in Nat, VersionsFit(vs, day), NEW t, NEW a, CurrentIn(vs, t, a)
  PROVE  FactsIn(vs, t, day) = {a}
<1>1. PICK v \in vs : v.tok = t /\ v.to = 0 /\ v.attr = a BY DEF CurrentIn
<1>2. v \in VersionRows /\ v.from <= day BY DEF VersionsFit
<1>3. Covers(v, t, day) BY <1>1, <1>2 DEF Covers
<1>4. ASSUME NEW w \in vs, Covers(w, t, day) PROVE w = v
  <2>1. w \in VersionRows /\ (w.to # 0 => w.to <= day)
    BY DEF VersionsFit
  <2>2. w.to = 0
    <3>1. w.to \in Nat /\ (w.to = 0 \/ w.to > day) BY <1>4, <2>1 DEF Covers, VersionRows
    <3> QED BY <2>1, <3>1
  <2>3. w.tok = t BY <1>4 DEF Covers
  <2> QED BY <1>1, <2>2, <2>3 DEF VersionsFit
<1> QED BY <1>1, <1>3, <1>4 DEF FactsIn

\* The snapshots after a merge of a file that read s.
LEMMA MergeAnswers ==
  ASSUME MasterAssumption, NEW f \in Master!Files, NEW s \in Contents[f], NEW day \in Nat \ {0},
         NEW vs, VersionsFit(vs, day), NEW ss, SnapshotsFit(ss, vs, day),
         NEW ms, VersionsFit(ms, day),
         \/ ms = vs /\ \A t \in DOMAIN s : CurrentIn(vs, t, s[t])
         \/ ms = Merged(vs, f, s, day),
         NEW tt, tt = {x \in ss : ~(x.file = f /\ x.day = day)}
                        \cup {[file |-> f, day |-> day, sha |-> s, rows |-> Cardinality(DOMAIN s)]}
  PROVE  SnapshotsFit(tt, ms, day)
<1> DEFINE n == [file |-> f, day |-> day, sha |-> s, rows |-> Cardinality(DOMAIN s)]
<1>1. /\ s \in AllContents /\ DOMAIN s \subseteq Slice[f] /\ DOMAIN s \subseteq Master!Tokens
      /\ Slice[f] \subseteq Master!Tokens
      /\ \A t \in DOMAIN s : s[t] \in Attrs
      /\ IsFiniteSet(DOMAIN s)
  BY Listed
<1>2. n \in SnapshotRows
  <2>1. Cardinality(DOMAIN s) \in Nat BY <1>1, FS_CardinalityType
  <2> QED BY <1>1, <2>1 DEF SnapshotRows
<1>3. n.file = f /\ n.day = day /\ n.sha = s /\ n.rows = Cardinality(DOMAIN s) OBVIOUS
<1> HIDE DEF n
<1>4. \A x \in tt : x = n \/ (x \in ss /\ ~(x.file = f /\ x.day = day)) BY DEF n
<1>5. /\ ss \subseteq SnapshotRows
      /\ \A x \in ss : /\ 1 <= x.day /\ x.day <= day /\ x.sha \in Contents[x.file]
                       /\ x.rows = Cardinality(DOMAIN x.sha)
                       /\ \A t \in DOMAIN x.sha : FactsIn(vs, t, x.day) = {x.sha[t]}
      /\ \A x, y \in ss : x.file = y.file /\ x.day = y.day => x = y
      /\ \A g \in Master!Files : \A x \in LastOf(ss, g) : \A t \in DOMAIN x.sha :
           CurrentIn(vs, t, x.sha[t])
  BY DEF SnapshotsFit
<1>6. tt \subseteq SnapshotRows BY <1>2, <1>4, <1>5
<1>7. \A x, y \in tt : x.file = y.file /\ x.day = y.day => x = y BY <1>3, <1>4, <1>5
<1>8. \A t \in DOMAIN s : CurrentIn(ms, t, s[t]) BY MergeLists
<1>9. ASSUME NEW t, t \notin Slice[f] PROVE {x \in ms : x.tok = t} = {x \in vs : x.tok = t}
  BY <1>9, MergeIsLocal
<1>10. ASSUME NEW t, NEW d \in 1 .. day - 1 PROVE FactsIn(ms, t, d) = FactsIn(vs, t, d)
  <2>1. CASE ms = Merged(vs, f, s, day)
    <3>1. /\ t \notin Slice[f] =>
               {x \in Merged(vs, f, s, day) : x.tok = t} = {x \in vs : x.tok = t}
          /\ \A e \in 1 .. day - 1 : FactsIn(Merged(vs, f, s, day), t, e) = FactsIn(vs, t, e)
      BY MergeIsLocal
    <3> QED BY <1>10, <2>1, <3>1
  <2> QED BY <2>1
<1>11. ASSUME NEW g \in Master!Files, g # f, NEW c \in Contents[g], NEW t \in DOMAIN c
       PROVE  /\ \A d \in Nat : FactsIn(ms, t, d) = FactsIn(vs, t, d)
              /\ CurrentIn(vs, t, c[t]) => CurrentIn(ms, t, c[t])
  <2>1. t \in Slice[g] /\ Slice[g] \cap Slice[f] = {} BY <1>11, Listed DEF MasterAssumption
  <2>2. {x \in ms : x.tok = t} = {x \in vs : x.tok = t} BY <1>9, <2>1
  <2>3. \A x : x \in ms /\ x.tok = t <=> x \in vs /\ x.tok = t BY <2>2
  <2>4. \A d \in Nat : FactsIn(ms, t, d) = FactsIn(vs, t, d)
    <3>1. SUFFICES ASSUME NEW d \in Nat PROVE FactsIn(ms, t, d) = FactsIn(vs, t, d) OBVIOUS
    <3>2. {x \in ms : Covers(x, t, d)} = {x \in vs : Covers(x, t, d)} BY <2>3 DEF Covers
    <3> QED BY <3>2 DEF FactsIn
  <2> QED BY <2>3, <2>4 DEF CurrentIn
<1>12. ASSUME NEW x \in tt
       PROVE  /\ 1 <= x.day /\ x.day <= day /\ x.sha \in Contents[x.file]
              /\ x.rows = Cardinality(DOMAIN x.sha)
              /\ \A t \in DOMAIN x.sha : FactsIn(ms, t, x.day) = {x.sha[t]}
  <2>1. CASE x = n
    <3>1. \A t \in DOMAIN s : FactsIn(ms, t, day) = {s[t]} BY <1>8, CurrentAnswers
    <3> QED BY <1>3, <2>1, <3>1
  <2>2. CASE x \in ss /\ x.day < day
    <3>1. x \in SnapshotRows /\ 1 <= x.day BY <1>5, <2>2
    <3>2. x.day \in 1 .. day - 1 BY <2>2, <3>1 DEF SnapshotRows
    <3>3. \A t \in DOMAIN x.sha : FactsIn(ms, t, x.day) = FactsIn(vs, t, x.day)
      BY <1>10, <3>2
    <3> QED BY <1>5, <2>2, <3>3
  <2>3. CASE x \in ss /\ x.day = day /\ x.file # f
    <3>1. x \in SnapshotRows /\ x.sha \in Contents[x.file] BY <1>5, <2>3
    <3>2. x.file \in Master!Files BY <3>1 DEF SnapshotRows
    <3>3. \A t \in DOMAIN x.sha : FactsIn(ms, t, x.day) = FactsIn(vs, t, x.day)
      <4>1. day \in Nat /\ x.day = day BY <2>3
      <4> QED BY <1>11, <2>3, <3>1, <3>2, <4>1
    <3> QED BY <1>5, <2>3, <3>3
  <2>4. x \in ss => x.day \in Nat /\ x.day <= day BY <1>5 DEF SnapshotRows
  <2> QED BY <1>4, <2>1, <2>2, <2>3, <2>4
<1>13. ASSUME NEW g \in Master!Files, NEW x \in LastOf(tt, g), NEW t \in DOMAIN x.sha
       PROVE  CurrentIn(ms, t, x.sha[t])
  <2>1. x \in tt /\ x.file = g /\ \A y \in tt : y.file = g => y.day <= x.day BY DEF LastOf
  <2>2. CASE g = f
    <3>1. n \in tt BY DEF n
    <3>2. day <= x.day BY <1>3, <2>1, <2>2, <3>1
    <3>3. x.day <= day /\ x.day \in Nat BY <1>6, <1>12, <2>1 DEF SnapshotRows
    <3>4. x.day = day BY <3>2, <3>3
    <3>5. x = n BY <1>3, <1>7, <2>1, <2>2, <3>1, <3>4
    <3> QED BY <1>3, <1>8, <3>5
  <2>3. CASE g # f
    <3>1. x \in ss BY <1>3, <1>4, <2>1, <2>3
    <3>2. \A y \in ss : y.file = g => y \in tt BY <2>3
    <3>3. x \in LastOf(ss, g) BY <2>1, <3>1, <3>2 DEF LastOf
    <3>4. CurrentIn(vs, t, x.sha[t]) BY <1>5, <3>3
    <3>5. x.sha \in Contents[g] BY <1>12, <2>1
    <3> QED BY <1>11, <2>3, <3>4, <3>5
  <2> QED BY <2>2, <2>3
<1> QED BY <1>6, <1>7, <1>12, <1>13 DEF SnapshotsFit

-----------------------------------------------------------------------------
MasterShape ==
  /\ today \in 1 .. LastDay
  /\ published \in [Master!Files -> AllContents]
  /\ \A f \in Master!Files : published[f] \in Contents[f]
  /\ download \in [Master!Files -> PathRows] /\ target \in [Master!Files -> PathRows]
  /\ snapshotRun \in [Runs -> RunRows]
  /\ roots \subseteq Master!Tokens

\* Where a run stands: it is of today, what it read and what stands at the paths it uses is
\* what the broker serves, and what it is about to repeat is the last snapshot.
Reads(r) == published[Order[snapshotRun[r].k]]
RunFits(r) ==
  /\ snapshotRun[r].step # "idle" => snapshotRun[r].day = today
  /\ snapshotRun[r].step \in {"fetch", "loading", "loaded", "skip", "diff"} =>
       snapshotRun[r].k \in 1 .. Len(Order)
  /\ snapshotRun[r].step \in {"loading", "loaded", "skip", "diff"} => snapshotRun[r].got = Reads(r)
  /\ snapshotRun[r].step = "loading" =>
       LET x == download[Order[snapshotRun[r].k]] IN x.there => x.says = Reads(r)
  /\ snapshotRun[r].step \in {"loaded", "skip", "diff"} =>
       LET x == target[Order[snapshotRun[r].k]] IN x.there => x.says = Reads(r)
  /\ snapshotRun[r].step = "skip" =>
       /\ snapshotRun[r].rows = Cardinality(DOMAIN snapshotRun[r].got)
       /\ \E x \in LastOf(snapshots, Order[snapshotRun[r].k]) : x.sha = snapshotRun[r].got

MasterInv ==
  /\ MasterShape
  /\ VersionsFit(versions, today) /\ SnapshotsFit(snapshots, versions, today)
  /\ \A r \in Runs : RunFits(r)

\* The file a run is at is one of the files.
LEMMA FileKnown ==
  ASSUME MasterAssumption, NEW k \in 1 .. Len(Order) PROVE Order[k] \in Master!Files
BY DEF MasterAssumption, Master!Files, Master!ToSet

\* What becomes of a file while and after it is written.
LEMMA PathsStay ==
  ASSUME NEW x \in PathRows, NEW r \in Runs, NEW gone
  PROVE  /\ Master!NoFile \in PathRows /\ Master!NoFile.there = FALSE
         /\ Master!Abandoned(x, gone) \in PathRows
         /\ Master!Abandoned(x, gone).there = x.there
         /\ x.there => Master!Abandoned(x, gone).says = x.says
         /\ \A p \in Master!Written(x, r) :
              p \in PathRows /\ p.there = x.there /\ (x.there => p.says = x.says)
<1>1. Master!NoFile \in PathRows /\ Master!NoFile.there = FALSE BY DEF Master!NoFile, PathRows
<1>2. CASE x \in [there : {FALSE}]
  <2>1. x.there = FALSE BY <1>2
  <2>2. Master!Abandoned(x, gone) = x /\ Master!Written(x, r) = {x}
    BY <2>1 DEF Master!Abandoned, Master!Written
  <2> QED BY <1>1, <2>1, <2>2
<1>3. CASE x \in [there : {TRUE}, by : SUBSET Runs, says : AllContents, whole : BOOLEAN]
  <2>1. x.there = TRUE BY <1>3
  <2>2. Master!Abandoned(x, gone) = [x EXCEPT !.by = x.by \ gone]
    BY <2>1 DEF Master!Abandoned
  <2>3. /\ Master!Abandoned(x, gone) \in PathRows /\ Master!Abandoned(x, gone).there = TRUE
        /\ Master!Abandoned(x, gone).says = x.says
    BY <1>3, <2>2 DEF PathRows
  <2>4. \A p \in Master!Written(x, r) : p \in PathRows /\ p.there = TRUE /\ p.says = x.says
    <3>1. SUFFICES ASSUME NEW p \in Master!Written(x, r)
                   PROVE  p \in PathRows /\ p.there = TRUE /\ p.says = x.says
      OBVIOUS
    <3>2. \/ p = x
          \/ p = [x EXCEPT !.by = {}, !.whole = TRUE]
          \/ \E w \in BOOLEAN : p = [x EXCEPT !.by = x.by \ {r}, !.whole = w]
      BY DEF Master!Written
    <3> QED BY <1>3, <3>2 DEF PathRows
  <2> QED BY <1>1, <2>1, <2>3, <2>4
<1> QED BY <1>2, <1>3 DEF PathRows

\* A run that does not move stands well while paths and snapshots say what the broker serves.
LEMMA RunStays ==
  ASSUME MasterAssumption, MasterInv, NEW k \in Runs, snapshotRun'[k] = snapshotRun[k],
         UNCHANGED <<today, published>>,
         \A f \in Master!Files :
           /\ download'[f].there => \/ download'[f].says = published[f]
                                    \/ download[f].there /\ download'[f].says = download[f].says
           /\ target'[f].there => \/ target'[f].says = published[f]
                                  \/ target[f].there /\ target'[f].says = target[f].says
           /\ \/ LastOf(snapshots', f) = LastOf(snapshots, f)
              \/ \E x \in LastOf(snapshots', f) : x.sha = published[f]
  PROVE  RunFits(k)'
<1>1. RunFits(k) BY DEF MasterInv
<1>2. CASE snapshotRun[k].step \in {"fetch", "loading", "loaded", "skip", "diff"}
  <2>1. snapshotRun[k].k \in 1 .. Len(Order) BY <1>1, <1>2 DEF RunFits
  <2>2. Order[snapshotRun[k].k] \in Master!Files BY <2>1, FileKnown
  <2>3. Reads(k)' = Reads(k) BY DEF Reads
  <2>4. /\ snapshotRun'[k].step = "loading" =>
             (download'[Order[snapshotRun'[k].k]].there
               => download'[Order[snapshotRun'[k].k]].says = Reads(k)')
        /\ snapshotRun'[k].step \in {"loaded", "skip", "diff"} =>
             (target'[Order[snapshotRun'[k].k]].there
               => target'[Order[snapshotRun'[k].k]].says = Reads(k)')
    BY <1>1, <2>2, <2>3 DEF RunFits, Reads
  <2>5. snapshotRun'[k].step = "skip" =>
          \E x \in LastOf(snapshots', Order[snapshotRun'[k].k]) : x.sha = snapshotRun'[k].got
    BY <1>1, <2>2 DEF RunFits, Reads
  <2> QED BY <1>1, <2>1, <2>3, <2>4, <2>5 DEF RunFits
<1>3. CASE snapshotRun[k].step \notin {"fetch", "loading", "loaded", "skip", "diff"}
  BY <1>1, <1>3 DEF RunFits
<1> QED BY <1>2, <1>3

\* What the rows of a run hold at its steps.
LEMMA RunKnown ==
  ASSUME MasterAssumption, MasterInv, NEW r \in Runs,
         snapshotRun[r].step \in {"fetch", "loading", "loaded", "skip", "diff"}
  PROVE  /\ snapshotRun[r].day = today /\ today \in Nat \ {0}
         /\ snapshotRun[r].k \in 1 .. Len(Order) /\ Len(Order) \in Nat
         /\ Master!File(r) \in Master!Files
         /\ Master!File(r) = Order[snapshotRun[r].k]
         /\ Reads(r) = published[Master!File(r)] /\ Reads(r) \in Contents[Master!File(r)]
         /\ Reads(r) \in AllContents
         /\ snapshotRun[r].step # "fetch" => snapshotRun[r].got = Reads(r)
<1>1. RunFits(r) /\ today \in 1 .. LastDay /\ Len(Order) \in Nat /\ LastDay \in Nat
  BY DEF MasterInv, MasterShape, MasterAssumption
<1>2. snapshotRun[r].k \in 1 .. Len(Order) BY <1>1 DEF RunFits
<1>3. Order[snapshotRun[r].k] \in Master!Files BY <1>2, FileKnown
<1>4. Master!File(r) = Order[snapshotRun[r].k] BY DEF Master!File
<1>5. Reads(r) \in Contents[Order[snapshotRun[r].k]] BY <1>3 DEF Reads, MasterInv, MasterShape
<1>6. Reads(r) \in AllContents BY <1>3, <1>5 DEF AllContents
<1>7. snapshotRun[r].day = today BY <1>1 DEF RunFits
<1>8. snapshotRun[r].step # "fetch" => snapshotRun[r].got = Reads(r) BY <1>1 DEF RunFits
<1> QED BY <1>1, <1>2, <1>3, <1>4, <1>5, <1>6, <1>7, <1>8 DEF Reads

\* One run moves to a row of its shape.
LEMMA RunMoves ==
  ASSUME MasterInv, NEW r \in Runs, NEW e \in RunRows, snapshotRun' = [snapshotRun EXCEPT ![r] = e]
  PROVE  /\ snapshotRun' \in [Runs -> RunRows] /\ snapshotRun'[r] = e
         /\ \A k \in Runs : k # r => snapshotRun'[k] = snapshotRun[k]
<1> HIDE DEF RunRows
<1> QED BY DEF MasterInv, MasterShape

\* A run goes on to the next file or to the roots.
LEMMA NextFileFits ==
  ASSUME MasterAssumption, MasterInv, NEW r \in Runs, today' = today,
         snapshotRun[r].step \in {"fetch", "loading", "loaded", "skip", "diff"},
         Master!NextFile(r)
  PROVE  /\ snapshotRun' \in [Runs -> RunRows] /\ RunFits(r)'
         /\ \A k \in Runs : k # r => snapshotRun'[k] = snapshotRun[k]
<1> DEFINE e == [step |-> IF snapshotRun[r].k = Len(Order) THEN "rebuild" ELSE "fetch",
                 day |-> snapshotRun[r].day, k |-> snapshotRun[r].k + 1]
<1>1. snapshotRun' = [snapshotRun EXCEPT ![r] = e] BY DEF Master!NextFile
<1>2. /\ snapshotRun[r].day = today /\ today \in Nat \ {0}
      /\ snapshotRun[r].k \in 1 .. Len(Order) /\ Len(Order) \in Nat
  BY RunKnown
<1>3. e \in RunRows BY <1>2 DEF RunRows
<1>4. /\ e.step = "rebuild" \/ (e.step = "fetch" /\ e.k \in 1 .. Len(Order))
      /\ e.day = today
  BY <1>2
<1> HIDE DEF e
<1>5. /\ snapshotRun' \in [Runs -> RunRows] /\ snapshotRun'[r] = e
      /\ \A k \in Runs : k # r => snapshotRun'[k] = snapshotRun[k]
  BY <1>1, <1>3, RunMoves
<1> QED BY <1>4, <1>5 DEF RunFits

\* Nothing known, nothing answered.
LEMMA MasterStarts == ASSUME MasterAssumption PROVE Master!Init => MasterInv
<1>1. SUFFICES ASSUME Master!Init PROVE MasterInv OBVIOUS
<1>2. LastDay \in Nat \ {0} BY DEF MasterAssumption
<1>3. published \in [Master!Files -> AllContents] BY <1>1 DEF Master!Init, AllContents
<1>4. Master!NoFile \in PathRows BY DEF Master!NoFile, PathRows
<1>5. Master!Resting \in RunRows /\ Master!Resting.step = "idle" BY DEF Master!Resting, RunRows
<1>6. MasterShape
  <2> HIDE DEF PathRows, RunRows
  <2> QED BY <1>1, <1>2, <1>3, <1>4, <1>5 DEF Master!Init, MasterShape
<1>7. VersionsFit(versions, today) BY <1>1 DEF Master!Init, VersionsFit
<1>8. SnapshotsFit(snapshots, versions, today) BY <1>1 DEF Master!Init, SnapshotsFit, LastOf
<1>9. \A r \in Runs : RunFits(r)
  <2>1. \A r \in Runs : snapshotRun[r].step = "idle" BY <1>1, <1>5 DEF Master!Init
  <2> QED BY <2>1 DEF RunFits
<1> QED BY <1>6, <1>7, <1>8, <1>9 DEF MasterInv

\* The broker publishes and the day ends while no run is under way.
LEMMA DayKeepsMaster ==
  ASSUME MasterAssumption, MasterInv,
         Master!Midnight \/ \E f \in Master!Files : \E c \in Contents[f] : Master!Publish(f, c)
  PROVE  MasterInv'
<1>1. \A r \in Runs : snapshotRun[r].step = "idle"
  BY DEF Master!Midnight, Master!Publish, Master!Busy, Master!At, MasterAssumption
<1>2. UNCHANGED <<versions, snapshots, roots, download, target, snapshotRun>>
  BY DEF Master!Midnight, Master!Publish, Master!tables, Master!paths
<1>3. \A r \in Runs : RunFits(r)' BY <1>1, <1>2 DEF RunFits
<1>4. today \in Nat /\ today' \in Nat /\ today <= today' /\ today' \in 1 .. LastDay
  BY DEF MasterInv, MasterShape, MasterAssumption, Master!Midnight, Master!Publish
<1>5. MasterShape'
  <2>1. published' \in [Master!Files -> AllContents]
        /\ \A f \in Master!Files : published'[f] \in Contents[f]
    <3>1. CASE Master!Midnight BY <3>1 DEF MasterInv, MasterShape, Master!Midnight
    <3>2. ASSUME NEW f \in Master!Files, NEW c \in Contents[f], Master!Publish(f, c)
          PROVE  published' \in [Master!Files -> AllContents]
                 /\ \A g \in Master!Files : published'[g] \in Contents[g]
      <4>1. c \in AllContents BY DEF AllContents
      <4>2. published' = [published EXCEPT ![f] = c] BY <3>2 DEF Master!Publish
      <4> HIDE DEF AllContents
      <4> QED BY <4>1, <4>2 DEF MasterInv, MasterShape
    <3> QED BY <3>1, <3>2
  <2> QED BY <1>2, <1>4, <2>1 DEF MasterInv, MasterShape
<1>6. VersionsFit(versions, today')
  <2>1. VersionsFit(versions, today) BY DEF MasterInv
  <2>2. \A v \in versions : v.from \in Nat /\ v.to \in Nat BY <2>1 DEF VersionsFit, VersionRows
  <2> QED BY <1>4, <2>1, <2>2 DEF VersionsFit
<1>7. SnapshotsFit(snapshots, versions, today')
  <2>1. SnapshotsFit(snapshots, versions, today) BY DEF MasterInv
  <2>2. \A x \in snapshots : x.day \in Nat BY <2>1 DEF SnapshotsFit, SnapshotRows
  <2>3. \A x \in snapshots : x.day <= today' BY <1>4, <2>1, <2>2 DEF SnapshotsFit
  <2> QED BY <2>1, <2>3 DEF SnapshotsFit
<1> QED BY <1>2, <1>3, <1>5, <1>6, <1>7 DEF MasterInv

\* A kill leaves what stands at the paths.
LEMMA KillKeepsMaster ==
  ASSUME MasterAssumption, MasterInv, Master!Crash PROVE MasterInv'
<1>1. UNCHANGED <<today, published, versions, snapshots, roots>>
      /\ snapshotRun' = [r \in Runs |-> Master!Resting]
      /\ download' = [f \in Master!Files |-> Master!Abandoned(download[f], Runs)]
      /\ target' = [f \in Master!Files |-> Master!Abandoned(target[f], Runs)]
  BY DEF Master!Crash, Master!tables
<1>2. Master!Resting \in RunRows /\ Master!Resting.step = "idle" BY DEF Master!Resting, RunRows
<1>3. ASSUME NEW f \in Master!Files
      PROVE  Master!Abandoned(download[f], Runs) \in PathRows
             /\ Master!Abandoned(target[f], Runs) \in PathRows
  <2>1. download[f] \in PathRows /\ target[f] \in PathRows
    <3> HIDE DEF PathRows
    <3> QED BY DEF MasterInv, MasterShape
  <2>2. ASSUME NEW x \in PathRows PROVE Master!Abandoned(x, Runs) \in PathRows
    <3>1. CASE x.there
      <4>1. x \in [there : {TRUE}, by : SUBSET Runs, says : AllContents, whole : BOOLEAN]
        BY <3>1 DEF PathRows
      <4>2. Master!Abandoned(x, Runs) = [x EXCEPT !.by = x.by \ Runs]
        BY <3>1 DEF Master!Abandoned
      <4> QED BY <4>1, <4>2 DEF PathRows
    <3>2. CASE ~x.there BY <3>2 DEF Master!Abandoned
    <3> QED BY <3>1, <3>2
  <2> QED BY <2>1, <2>2
<1>4. MasterShape'
  <2> HIDE DEF PathRows, RunRows
  <2> QED BY <1>1, <1>2, <1>3 DEF MasterInv, MasterShape
<1>5. \A r \in Runs : RunFits(r)' BY <1>1, <1>2 DEF RunFits
<1> QED BY <1>1, <1>4, <1>5 DEF MasterInv

\* A run begins; its day is today.
LEMMA BeginKeepsMaster ==
  ASSUME MasterAssumption, MasterInv, NEW r \in Runs, Master!HandleSymbolMaster(r)
  PROVE  MasterInv'
<1> DEFINE e == [step |-> "fetch", day |-> today, k |-> 1]
<1>1. snapshotRun' = [snapshotRun EXCEPT ![r] = e]
      /\ UNCHANGED <<today, published, versions, snapshots, roots, download, target>>
  BY DEF Master!HandleSymbolMaster, Master!tables, Master!paths
<1>2. today \in Nat /\ 1 \in 1 .. Len(Order)
  BY DEF MasterInv, MasterShape, MasterAssumption
<1>3. e \in RunRows /\ e.step = "fetch" /\ e.day = today /\ e.k = 1 BY <1>2 DEF RunRows
<1> HIDE DEF e
<1>4. /\ snapshotRun' \in [Runs -> RunRows] /\ snapshotRun'[r] = e
      /\ \A k \in Runs : k # r => snapshotRun'[k] = snapshotRun[k]
  BY <1>1, <1>3, RunMoves
<1>5. RunFits(r)' BY <1>1, <1>2, <1>3, <1>4 DEF RunFits
<1>6. ASSUME NEW k \in Runs, k # r PROVE RunFits(k)'
  BY <1>1, <1>4, <1>6 DEF MasterInv, RunFits, Reads
<1>7. MasterShape'
  <2> HIDE DEF RunRows
  <2> QED BY <1>1, <1>4 DEF MasterInv, MasterShape
<1> QED BY <1>1, <1>5, <1>6, <1>7 DEF MasterInv

\* A run opens the .part file, and from then on it says what the broker serves.
LEMMA FetchKeepsMaster ==
  ASSUME MasterAssumption, MasterInv, NEW r \in Runs, Master!FetchMaster(r)
  PROVE  MasterInv'
<1>1. snapshotRun[r].step = "fetch" BY DEF Master!FetchMaster, Master!At
<1>2. /\ snapshotRun[r].day = today /\ today \in Nat \ {0}
      /\ snapshotRun[r].k \in 1 .. Len(Order) /\ Len(Order) \in Nat
      /\ Master!File(r) \in Master!Files
      /\ Master!File(r) = Order[snapshotRun[r].k]
      /\ Reads(r) = published[Master!File(r)] /\ Reads(r) \in Contents[Master!File(r)]
      /\ Reads(r) \in AllContents
      /\ snapshotRun[r].step # "fetch" => snapshotRun[r].got = Reads(r)
  BY <1>1, RunKnown
<1> DEFINE f == Master!File(r)
           e == [step |-> "loading", day |-> snapshotRun[r].day, k |-> snapshotRun[r].k,
                 got |-> published[f]]
           sharing == IF download[f].there THEN download[f].by ELSE {}
           p == [there |-> TRUE, by |-> sharing \cup {r}, says |-> published[f], whole |-> FALSE]
<1>3. /\ snapshotRun' = [snapshotRun EXCEPT ![r] = e]
      /\ download' = [download EXCEPT ![f] = p]
      /\ UNCHANGED <<today, published, versions, snapshots, roots, target>>
  BY DEF Master!FetchMaster, Master!tables
<1>4. /\ e \in RunRows /\ e.step = "loading" /\ e.day = today /\ e.k = snapshotRun[r].k
      /\ e.got = published[f]
  <2>1. snapshotRun[r].k \in Nat BY <1>2
  <2> QED BY <1>2, <2>1 DEF RunRows
<1>5. p \in PathRows /\ p.says = published[f]
  <2>1. download[f] \in PathRows
    <3> HIDE DEF PathRows
    <3> QED BY <1>2 DEF MasterInv, MasterShape
  <2>2. sharing \subseteq Runs BY <2>1 DEF PathRows
  <2>3. published[f] \in AllContents BY <1>2
  <2> HIDE DEF sharing, f
  <2> QED BY <2>2, <2>3 DEF PathRows
<1> HIDE DEF e, p
<1>6. /\ snapshotRun' \in [Runs -> RunRows] /\ snapshotRun'[r] = e
      /\ \A k \in Runs : k # r => snapshotRun'[k] = snapshotRun[k]
  BY <1>3, <1>4, RunMoves
<1>7. download' \in [Master!Files -> PathRows] /\ download'[f] = p
      /\ \A g \in Master!Files : g # f => download'[g] = download[g]
  <2> HIDE DEF PathRows, f
  <2> QED BY <1>2, <1>3, <1>5 DEF MasterInv, MasterShape, f
<1>8. RunFits(r)'
  <2>1. Order[snapshotRun'[r].k] = f BY <1>2, <1>4, <1>6
  <2>2. Reads(r)' = published[f] BY <1>3, <2>1 DEF Reads
  <2> HIDE DEF f
  <2> QED BY <1>2, <1>3, <1>4, <1>5, <1>6, <1>7, <2>1, <2>2 DEF RunFits
<1>9. ASSUME NEW k \in Runs, k # r PROVE RunFits(k)'
  <2>1. \A g \in Master!Files :
           /\ download'[g].there => \/ download'[g].says = published[g]
                                    \/ download[g].there /\ download'[g].says = download[g].says
           /\ target'[g].there => \/ target'[g].says = published[g]
                                  \/ target[g].there /\ target'[g].says = target[g].says
           /\ \/ LastOf(snapshots', g) = LastOf(snapshots, g)
              \/ \E x \in LastOf(snapshots', g) : x.sha = published[g]
    BY <1>3, <1>5, <1>7
  <2>2. snapshotRun'[k] = snapshotRun[k] BY <1>6, <1>9
  <2>3. UNCHANGED <<today, published>> BY <1>3
  <2> QED BY <2>1, <2>2, <2>3, RunStays
<1>10. MasterShape'
  <2> HIDE DEF RunRows, PathRows
  <2> QED BY <1>3, <1>6, <1>7 DEF MasterInv, MasterShape
<1> QED BY <1>3, <1>8, <1>9, <1>10 DEF MasterInv

\* What stands at the .part path is renamed, or is gone and the file is given up.
LEMMA DownloadedKeepsMaster ==
  ASSUME MasterAssumption, MasterInv, NEW r \in Runs, Master!Downloaded(r)
  PROVE  MasterInv'
<1>1. snapshotRun[r].step = "loading" BY DEF Master!Downloaded, Master!At
<1>2. /\ snapshotRun[r].day = today /\ today \in Nat \ {0}
      /\ snapshotRun[r].k \in 1 .. Len(Order) /\ Len(Order) \in Nat
      /\ Master!File(r) \in Master!Files
      /\ Master!File(r) = Order[snapshotRun[r].k]
      /\ Reads(r) = published[Master!File(r)] /\ Reads(r) \in Contents[Master!File(r)]
      /\ Reads(r) \in AllContents
      /\ snapshotRun[r].step # "fetch" => snapshotRun[r].got = Reads(r)
  BY <1>1, RunKnown
<1> DEFINE f == Master!File(r)
<1>3. PICK p \in Master!Written(download[f], r), t \in Master!Written(target[f], r) :
        IF p.there
          THEN /\ download' = [download EXCEPT ![f] = Master!NoFile]
               /\ target' = [target EXCEPT ![f] = p] /\ Master!GoTo(r, "loaded")
          ELSE /\ target' = [target EXCEPT ![f] = t] /\ UNCHANGED download /\ Master!NextFile(r)
  BY DEF Master!Downloaded
<1>4. UNCHANGED <<today, published, versions, snapshots, roots>>
  BY DEF Master!Downloaded, Master!tables
<1>5. download[f] \in PathRows /\ target[f] \in PathRows
  <2> HIDE DEF PathRows
  <2> QED BY <1>2 DEF MasterInv, MasterShape
<1>6. /\ Master!NoFile \in PathRows /\ Master!NoFile.there = FALSE
      /\ p \in PathRows /\ p.there = download[f].there
      /\ download[f].there => p.says = download[f].says
      /\ t \in PathRows /\ t.there = target[f].there
      /\ target[f].there => t.says = target[f].says
  BY <1>3, <1>5, PathsStay
<1>7. download[f].there => download[f].says = published[f]
  BY <1>1, <1>2 DEF MasterInv, RunFits
<1>8. \A k \in Runs : k # r => snapshotRun'[k] = snapshotRun[k]
  <2>1. CASE Master!NextFile(r)
    <3>1. /\ snapshotRun' \in [Runs -> RunRows] /\ RunFits(r)'
          /\ \A k \in Runs : k # r => snapshotRun'[k] = snapshotRun[k]
      BY <1>1, <1>4, <2>1, NextFileFits
    <3> QED BY <3>1
  <2>2. CASE Master!GoTo(r, "loaded") BY <2>2 DEF Master!GoTo, MasterInv, MasterShape
  <2> QED BY <1>3, <2>1, <2>2
<1>9. /\ download' \in [Master!Files -> PathRows] /\ target' \in [Master!Files -> PathRows]
      /\ \A g \in Master!Files :
           /\ download'[g].there => download[g].there /\ download'[g].says = download[g].says
           /\ target'[g].there => \/ target'[g].says = published[g]
                                  \/ target[g].there /\ target'[g].says = target[g].says
      /\ p.there => target'[f].says = published[f]
  <2>1. /\ download \in [Master!Files -> PathRows] /\ target \in [Master!Files -> PathRows]
        /\ f \in Master!Files
    BY <1>2 DEF MasterInv, MasterShape
  <2> HIDE DEF PathRows, f
  <2>2. CASE p.there BY <1>3, <1>6, <1>7, <2>1, <2>2
  <2>3. CASE ~p.there BY <1>3, <1>6, <2>1, <2>3
  <2> QED BY <2>2, <2>3
<1>10. ASSUME NEW k \in Runs, k # r PROVE RunFits(k)'
  <2>1. \A g \in Master!Files :
           /\ download'[g].there => \/ download'[g].says = published[g]
                                    \/ download[g].there /\ download'[g].says = download[g].says
           /\ target'[g].there => \/ target'[g].says = published[g]
                                  \/ target[g].there /\ target'[g].says = target[g].says
           /\ \/ LastOf(snapshots', g) = LastOf(snapshots, g)
              \/ \E x \in LastOf(snapshots', g) : x.sha = published[g]
    BY <1>4, <1>9
  <2>2. snapshotRun'[k] = snapshotRun[k] BY <1>8, <1>10
  <2>3. UNCHANGED <<today, published>> BY <1>4
  <2> QED BY <2>1, <2>2, <2>3, RunStays
<1>11. RunFits(r)' /\ snapshotRun' \in [Runs -> RunRows]
  <2>1. CASE ~p.there
    <3>1. Master!NextFile(r) BY <1>3, <2>1
    <3>2. /\ snapshotRun' \in [Runs -> RunRows] /\ RunFits(r)'
          /\ \A k \in Runs : k # r => snapshotRun'[k] = snapshotRun[k]
      BY <1>1, <1>4, <3>1, NextFileFits
    <3> QED BY <3>2
  <2>2. CASE p.there
    <3> DEFINE e == [snapshotRun[r] EXCEPT !.step = "loaded"]
    <3>1. snapshotRun[r] \in RunRows
      <4> HIDE DEF RunRows
      <4> QED BY DEF MasterInv, MasterShape
    <3>2. /\ e \in RunRows /\ e.step = "loaded" /\ e.day = snapshotRun[r].day
          /\ e.k = snapshotRun[r].k /\ e.got = snapshotRun[r].got
      BY <1>1, <3>1 DEF RunRows
    <3>3. snapshotRun' = [snapshotRun EXCEPT ![r] = e] BY <1>3, <2>2 DEF Master!GoTo
    <3> HIDE DEF e
    <3>4. /\ snapshotRun' \in [Runs -> RunRows] /\ snapshotRun'[r] = e
          /\ \A k \in Runs : k # r => snapshotRun'[k] = snapshotRun[k]
      BY <3>2, <3>3, RunMoves
    <3>5. Order[snapshotRun'[r].k] = f BY <1>2, <3>2, <3>4
    <3>6. Reads(r)' = published[f] BY <1>4, <3>5 DEF Reads
    <3> HIDE DEF f
    <3> QED BY <1>1, <1>2, <1>4, <1>9, <2>2, <3>2, <3>4, <3>5, <3>6 DEF RunFits, f
  <2> QED BY <2>1, <2>2
<1>12. MasterShape'
  <2> HIDE DEF RunRows, PathRows
  <2> QED BY <1>4, <1>9, <1>11 DEF MasterInv, MasterShape
<1> QED BY <1>4, <1>10, <1>11, <1>12 DEF MasterInv

\* A download that fails gives the file up.
LEMMA FailureKeepsMaster ==
  ASSUME MasterAssumption, MasterInv, NEW r \in Runs, Master!DownloadFails(r)
  PROVE  MasterInv'
<1>1. snapshotRun[r].step = "loading" BY DEF Master!DownloadFails, Master!At
<1>2. /\ snapshotRun[r].day = today /\ today \in Nat \ {0}
      /\ snapshotRun[r].k \in 1 .. Len(Order) /\ Len(Order) \in Nat
      /\ Master!File(r) \in Master!Files
      /\ Master!File(r) = Order[snapshotRun[r].k]
      /\ Reads(r) = published[Master!File(r)] /\ Reads(r) \in Contents[Master!File(r)]
      /\ Reads(r) \in AllContents
      /\ snapshotRun[r].step # "fetch" => snapshotRun[r].got = Reads(r)
  BY <1>1, RunKnown
<1> DEFINE f == Master!File(r)
           p == Master!Abandoned(download[f], {r})
           t == Master!Abandoned(target[f], {r})
<1>3. /\ download' = [download EXCEPT ![f] = p] /\ target' = [target EXCEPT ![f] = t]
      /\ Master!NextFile(r)
      /\ UNCHANGED <<today, published, versions, snapshots, roots>>
  BY DEF Master!DownloadFails, Master!tables
<1>4. download[f] \in PathRows /\ target[f] \in PathRows
  <2> HIDE DEF PathRows
  <2> QED BY <1>2 DEF MasterInv, MasterShape
<1>5. /\ p \in PathRows /\ p.there = download[f].there
      /\ t \in PathRows /\ t.there = target[f].there
      /\ download[f].there => p.says = download[f].says
      /\ target[f].there => t.says = target[f].says
  BY <1>4, PathsStay
<1> HIDE DEF p, t
<1>6. /\ download' \in [Master!Files -> PathRows] /\ target' \in [Master!Files -> PathRows]
      /\ \A g \in Master!Files :
           /\ download'[g].there => download[g].there /\ download'[g].says = download[g].says
           /\ target'[g].there => target[g].there /\ target'[g].says = target[g].says
  <2>1. /\ download \in [Master!Files -> PathRows] /\ target \in [Master!Files -> PathRows]
        /\ f \in Master!Files
    BY <1>2 DEF MasterInv, MasterShape
  <2> HIDE DEF PathRows, f
  <2> QED BY <1>3, <1>5, <2>1
<1>7. /\ snapshotRun' \in [Runs -> RunRows] /\ RunFits(r)'
      /\ \A k \in Runs : k # r => snapshotRun'[k] = snapshotRun[k]
  BY <1>1, <1>3, NextFileFits
<1>8. ASSUME NEW k \in Runs, k # r PROVE RunFits(k)'
  <2>1. \A g \in Master!Files :
           /\ download'[g].there => \/ download'[g].says = published[g]
                                    \/ download[g].there /\ download'[g].says = download[g].says
           /\ target'[g].there => \/ target'[g].says = published[g]
                                  \/ target[g].there /\ target'[g].says = target[g].says
           /\ \/ LastOf(snapshots', g) = LastOf(snapshots, g)
              \/ \E x \in LastOf(snapshots', g) : x.sha = published[g]
    BY <1>3, <1>6
  <2>2. snapshotRun'[k] = snapshotRun[k] BY <1>7, <1>8
  <2>3. UNCHANGED <<today, published>> BY <1>3
  <2> QED BY <2>1, <2>2, <2>3, RunStays
<1>9. MasterShape'
  <2> HIDE DEF RunRows, PathRows
  <2> QED BY <1>3, <1>6, <1>7 DEF MasterInv, MasterShape
<1> QED BY <1>3, <1>7, <1>8, <1>9 DEF MasterInv

\* The last snapshot is looked at.
LEMMA ReadKeepsMaster ==
  ASSUME MasterAssumption, MasterInv, NEW r \in Runs, Master!ReadLast(r)
  PROVE  MasterInv'
<1>1. snapshotRun[r].step = "loaded" BY DEF Master!ReadLast, Master!At
<1>2. /\ snapshotRun[r].day = today /\ today \in Nat \ {0}
      /\ snapshotRun[r].k \in 1 .. Len(Order) /\ Len(Order) \in Nat
      /\ Master!File(r) \in Master!Files
      /\ Master!File(r) = Order[snapshotRun[r].k]
      /\ Reads(r) = published[Master!File(r)] /\ Reads(r) \in Contents[Master!File(r)]
      /\ Reads(r) \in AllContents
      /\ snapshotRun[r].step # "fetch" => snapshotRun[r].got = Reads(r)
  BY <1>1, RunKnown
<1> DEFINE last == {x \in Master!LastSnapshot(Master!File(r)) : x.sha = snapshotRun[r].got}
           n == IF last # {} THEN (CHOOSE x \in last : TRUE).rows ELSE 0
           e == [step |-> IF last # {} THEN "skip" ELSE "diff", day |-> snapshotRun[r].day,
                 k |-> snapshotRun[r].k, got |-> snapshotRun[r].got, rows |-> n]
<1>3. /\ snapshotRun' = [snapshotRun EXCEPT ![r] = e]
      /\ UNCHANGED <<today, published, versions, snapshots, roots, download, target>>
  BY DEF Master!ReadLast, Master!tables, Master!paths
<1>4. last = {x \in LastOf(snapshots, Master!File(r)) : x.sha = snapshotRun[r].got}
  BY DEF Master!LastSnapshot, LastOf
<1>5. n \in Nat /\ (last # {} => n = Cardinality(DOMAIN snapshotRun[r].got))
  <2>1. CASE last = {} BY <2>1
  <2>2. CASE last # {}
    <3>1. PICK x : x = CHOOSE y \in last : TRUE OBVIOUS
    <3>2. x \in last BY <2>2, <3>1
    <3>3. x \in snapshots /\ x.sha = snapshotRun[r].got BY <1>4, <3>2 DEF LastOf
    <3>4. x.rows = Cardinality(DOMAIN x.sha) /\ x \in SnapshotRows
      BY <3>3 DEF MasterInv, SnapshotsFit
    <3>5. n = x.rows BY <2>2, <3>1
    <3> QED BY <3>3, <3>4, <3>5 DEF SnapshotRows
  <2> QED BY <2>1, <2>2
<1> HIDE DEF n
<1>6. /\ e \in RunRows /\ e.day = snapshotRun[r].day
      /\ e.k = snapshotRun[r].k /\ e.got = snapshotRun[r].got /\ e.rows = n
      /\ e.step \in {"skip", "diff"} /\ (e.step = "skip" => last # {})
  <2>1. snapshotRun[r].k \in Nat /\ snapshotRun[r].got \in AllContents /\ snapshotRun[r].day \in Nat
    BY <1>1, <1>2
  <2> HIDE DEF last
  <2> QED BY <1>5, <2>1 DEF RunRows
<1> HIDE DEF e
<1>7. /\ snapshotRun' \in [Runs -> RunRows] /\ snapshotRun'[r] = e
      /\ \A k \in Runs : k # r => snapshotRun'[k] = snapshotRun[k]
  BY <1>3, <1>6, RunMoves
<1>8. RunFits(r)'
  <2>1. Order[snapshotRun'[r].k] = Master!File(r) BY <1>2, <1>6, <1>7
  <2>2. Reads(r)' = published[Master!File(r)] BY <1>3, <2>1 DEF Reads
  <2>3. target'[Master!File(r)].there => target'[Master!File(r)].says = Reads(r)'
    BY <1>1, <1>2, <1>3, <2>2 DEF MasterInv, RunFits
  <2>4. e.step = "skip" => /\ e.rows = Cardinality(DOMAIN e.got)
                           /\ \E x \in LastOf(snapshots', Master!File(r)) : x.sha = e.got
    BY <1>3, <1>4, <1>5, <1>6
  <2>5. e.day = today' /\ e.got = Reads(r)' /\ e.k \in 1 .. Len(Order)
    BY <1>1, <1>2, <1>3, <1>6, <2>2
  <2> QED BY <1>6, <1>7, <2>1, <2>3, <2>4, <2>5 DEF RunFits
<1>9. ASSUME NEW k \in Runs, k # r PROVE RunFits(k)'
  BY <1>3, <1>7, <1>9 DEF MasterInv, RunFits, Reads
<1>10. MasterShape'
  <2> HIDE DEF RunRows, PathRows
  <2> QED BY <1>3, <1>7 DEF MasterInv, MasterShape
<1> QED BY <1>3, <1>8, <1>9, <1>10 DEF MasterInv

\* What the last look found is repeated, or the file is merged, or nothing changes; in any
\* case the target is removed and the run goes on.
Kept(r) == UNCHANGED <<versions, snapshots>>
Recorded(r) ==
  LET f == Master!File(r)
      s == snapshotRun[r].got
  IN  /\ \/ versions' = versions /\ \A t \in DOMAIN s : CurrentIn(versions, t, s[t])
         \/ versions' = Merged(versions, f, s, today)
      /\ snapshots' = {x \in snapshots : ~(x.file = f /\ x.day = today)}
           \cup {[file |-> f, day |-> today, sha |-> s, rows |-> Cardinality(DOMAIN s)]}

\* The file is done with.
LEMMA FileDone ==
  ASSUME MasterAssumption, MasterInv, NEW r \in Runs,
         snapshotRun[r].step \in {"fetch", "loading", "loaded", "skip", "diff"},
         snapshotRun[r].step # "fetch",
         Kept(r) \/ Recorded(r), Master!Unlink(r), Master!NextFile(r),
         UNCHANGED <<today, published, roots>>
  PROVE  MasterInv'
<1>1. /\ snapshotRun[r].day = today /\ today \in Nat \ {0}
      /\ snapshotRun[r].k \in 1 .. Len(Order) /\ Len(Order) \in Nat
      /\ Master!File(r) \in Master!Files
      /\ Master!File(r) = Order[snapshotRun[r].k]
      /\ Reads(r) = published[Master!File(r)] /\ Reads(r) \in Contents[Master!File(r)]
      /\ Reads(r) \in AllContents
      /\ snapshotRun[r].step # "fetch" => snapshotRun[r].got = Reads(r)
  BY RunKnown
<1> DEFINE f == Master!File(r)
           s == snapshotRun[r].got
<1>2. /\ f \in Master!Files /\ s \in Contents[f] /\ s = published[f]
      /\ VersionsFit(versions, today) /\ SnapshotsFit(snapshots, versions, today)
  BY <1>1 DEF MasterInv
<1>3. /\ target' = [target EXCEPT ![f] = Master!NoFile] /\ download' = download
  BY DEF Master!Unlink
<1>4. /\ snapshotRun' \in [Runs -> RunRows] /\ RunFits(r)'
      /\ \A k \in Runs : k # r => snapshotRun'[k] = snapshotRun[k]
  BY NextFileFits
<1>5. /\ target' \in [Master!Files -> PathRows]
      /\ \A g \in Master!Files :
           target'[g].there => target[g].there /\ target'[g].says = target[g].says
  <2>1. Master!NoFile \in PathRows /\ Master!NoFile.there = FALSE BY DEF Master!NoFile, PathRows
  <2>2. target \in [Master!Files -> PathRows] BY DEF MasterInv, MasterShape
  <2> HIDE DEF PathRows, f
  <2> QED BY <1>2, <1>3, <2>1, <2>2
<1> HIDE DEF f, s
<1>6. Recorded(r) =>
        /\ \/ versions' = versions /\ \A t \in DOMAIN s : CurrentIn(versions, t, s[t])
           \/ versions' = Merged(versions, f, s, today)
        /\ snapshots' = {x \in snapshots : ~(x.file = f /\ x.day = today)}
             \cup {[file |-> f, day |-> today, sha |-> s, rows |-> Cardinality(DOMAIN s)]}
  BY DEF Recorded, f, s
<1>7. VersionsFit(versions', today)
  BY <1>1, <1>2, <1>6, MergeFits DEF Kept
<1>8. SnapshotsFit(snapshots', versions', today)
  <2>1. CASE Kept(r) BY <1>2, <2>1 DEF Kept
  <2>2. CASE Recorded(r) BY <1>1, <1>2, <1>6, <1>7, <2>2, MergeAnswers
  <2> QED BY <2>1, <2>2
<1>9. \A g \in Master!Files : \/ LastOf(snapshots', g) = LastOf(snapshots, g)
                              \/ \E x \in LastOf(snapshots', g) : x.sha = published[g]
  <2>1. CASE Kept(r) BY <2>1 DEF Kept
  <2>2. CASE Recorded(r)
    <3> DEFINE n == [file |-> f, day |-> today, sha |-> s, rows |-> Cardinality(DOMAIN s)]
    <3>1. n.file = f /\ n.day = today /\ n.sha = s OBVIOUS
    <3>2. snapshots' = {x \in snapshots : ~(x.file = f /\ x.day = today)} \cup {n}
      BY <1>6, <2>2
    <3> HIDE DEF n
    <3>3. ASSUME NEW g \in Master!Files, g # f PROVE LastOf(snapshots', g) = LastOf(snapshots, g)
      <4>1. \A x : x.file = g => (x \in snapshots' <=> x \in snapshots) BY <3>1, <3>2, <3>3
      <4> QED BY <4>1 DEF LastOf
    <3>4. n \in LastOf(snapshots', f)
      <4>1. \A y \in snapshots' : y.day <= n.day BY <1>8, <3>1 DEF SnapshotsFit
      <4> QED BY <3>1, <3>2, <4>1 DEF LastOf
    <3> QED BY <1>2, <3>1, <3>3, <3>4
  <2> QED BY <2>1, <2>2
<1>10. ASSUME NEW k \in Runs, k # r PROVE RunFits(k)'
  <2>1. \A g \in Master!Files :
           /\ download'[g].there => \/ download'[g].says = published[g]
                                    \/ download[g].there /\ download'[g].says = download[g].says
           /\ target'[g].there => \/ target'[g].says = published[g]
                                  \/ target[g].there /\ target'[g].says = target[g].says
           /\ \/ LastOf(snapshots', g) = LastOf(snapshots, g)
              \/ \E x \in LastOf(snapshots', g) : x.sha = published[g]
    BY <1>3, <1>5, <1>9
  <2>2. snapshotRun'[k] = snapshotRun[k] BY <1>4, <1>10
  <2>3. UNCHANGED <<today, published>> OBVIOUS
  <2> QED BY <2>1, <2>2, <2>3, RunStays
<1>11. MasterShape'
  <2> HIDE DEF RunRows, PathRows
  <2> QED BY <1>3, <1>4, <1>5 DEF MasterInv, MasterShape
<1> QED BY <1>4, <1>7, <1>8, <1>10, <1>11 DEF MasterInv

\* A content seen before is recorded for today.
LEMMA SkipRecords ==
  ASSUME MasterAssumption, MasterInv, NEW r \in Runs, Master!SkipUnchanged(r)
  PROVE  Recorded(r) /\ versions' = versions
<1>1. snapshotRun[r].step = "skip" BY DEF Master!SkipUnchanged, Master!At
<1>2. /\ snapshotRun[r].day = today /\ today \in Nat \ {0}
      /\ snapshotRun[r].k \in 1 .. Len(Order) /\ Len(Order) \in Nat
      /\ Master!File(r) \in Master!Files
      /\ Master!File(r) = Order[snapshotRun[r].k]
      /\ Reads(r) = published[Master!File(r)] /\ Reads(r) \in Contents[Master!File(r)]
      /\ Reads(r) \in AllContents
      /\ snapshotRun[r].step # "fetch" => snapshotRun[r].got = Reads(r)
  BY <1>1, RunKnown
<1>3. PICK x \in LastOf(snapshots, Master!File(r)) : x.sha = snapshotRun[r].got
  BY <1>1, <1>2 DEF MasterInv, RunFits
<1>4. snapshotRun[r].rows = Cardinality(DOMAIN snapshotRun[r].got)
  BY <1>1 DEF MasterInv, RunFits
<1>5. \A t \in DOMAIN snapshotRun[r].got : CurrentIn(versions, t, snapshotRun[r].got[t])
  BY <1>2, <1>3 DEF MasterInv, SnapshotsFit
<1>6. snapshots' = {y \in snapshots : ~(y.file = Master!File(r) /\ y.day = today)}
        \cup {[file |-> Master!File(r), day |-> today, sha |-> snapshotRun[r].got,
               rows |-> Cardinality(DOMAIN snapshotRun[r].got)]}
  BY <1>2, <1>4 DEF Master!SkipUnchanged, Master!Snapshot
<1>7. versions' = versions BY DEF Master!SkipUnchanged
<1> QED BY <1>5, <1>6, <1>7 DEF Recorded

\* The symbol master counts as everybody does.
LEMMA CountedAlike == \A S : Master!Cardinality(S) = Cardinality(S)
BY DEF Master!Cardinality, Cardinality

\* A file that is whole and long enough is merged, and is what the run read.
LEMMA ApplyRecords ==
  ASSUME MasterAssumption, MasterInv, NEW r \in Runs, Master!ApplyMasterFile(r)
  PROVE  \/ Kept(r)
         \/ /\ Recorded(r)
            /\ versions' = Merged(versions, Master!File(r), snapshotRun[r].got, today)
            /\ ~Master!Truncated(Master!File(r), snapshotRun[r].got)
<1>1. snapshotRun[r].step = "diff" BY DEF Master!ApplyMasterFile, Master!At
<1>2. /\ snapshotRun[r].day = today /\ today \in Nat \ {0}
      /\ snapshotRun[r].k \in 1 .. Len(Order) /\ Len(Order) \in Nat
      /\ Master!File(r) \in Master!Files
      /\ Master!File(r) = Order[snapshotRun[r].k]
      /\ Reads(r) = published[Master!File(r)] /\ Reads(r) \in Contents[Master!File(r)]
      /\ Reads(r) \in AllContents
      /\ snapshotRun[r].step # "fetch" => snapshotRun[r].got = Reads(r)
  BY <1>1, RunKnown
<1> DEFINE f == Master!File(r)
           x == target[f]
<1>3. x.there => x.says = snapshotRun[r].got BY <1>1, <1>2 DEF MasterInv, RunFits
<1>4. CASE x.there => ~x.whole \/ Master!Truncated(f, x.says)
  BY <1>4 DEF Master!ApplyMasterFile, Master!tables, Kept
<1>5. CASE ~(x.there => ~x.whole \/ Master!Truncated(f, x.says))
  <2>1. x.there /\ x.says = snapshotRun[r].got /\ ~Master!Truncated(f, x.says) BY <1>3, <1>5
  <2>2. /\ versions' = Master!Apply(f, x.says, snapshotRun[r].day)
        /\ Master!Snapshot(f, snapshotRun[r].day, snapshotRun[r].got, Cardinality(DOMAIN x.says))
    <3>1. Master!Snapshot(f, snapshotRun[r].day, snapshotRun[r].got,
                          Master!Cardinality(DOMAIN x.says))
          /\ versions' = Master!Apply(f, x.says, snapshotRun[r].day)
      BY <1>5 DEF Master!ApplyMasterFile
    <3> QED BY <3>1, CountedAlike
  <2>3. versions' = Master!Apply(f, snapshotRun[r].got, today) BY <1>2, <2>1, <2>2
  <2>4. VersionsFit(versions, today) BY DEF MasterInv
  <2>5. versions' = Merged(versions, f, snapshotRun[r].got, today)
    BY <1>1, <1>2, <2>3, <2>4, ApplyMerges
  <2>6. snapshots' = {y \in snapshots : ~(y.file = f /\ y.day = today)}
          \cup {[file |-> f, day |-> today, sha |-> snapshotRun[r].got,
                 rows |-> Cardinality(DOMAIN snapshotRun[r].got)]}
    BY <1>2, <2>1, <2>2 DEF Master!Snapshot
  <2>7. Recorded(r) BY <2>5, <2>6 DEF Recorded
  <2> QED BY <2>1, <2>5, <2>7
<1> QED BY <1>4, <1>5

\* The roots are rebuilt from the current rows.
LEMMA RebuildKeepsMaster ==
  ASSUME MasterAssumption, MasterInv, NEW r \in Runs, Master!RebuildRootRegistry(r)
  PROVE  MasterInv'
<1>1. /\ snapshotRun' = [snapshotRun EXCEPT ![r] = Master!Resting] /\ roots' = Master!Candidates(r)
      /\ UNCHANGED <<today, published, versions, snapshots, download, target>>
  BY DEF Master!RebuildRootRegistry, Master!tables, Master!paths
<1>2. Master!Resting \in RunRows /\ Master!Resting.step = "idle" BY DEF Master!Resting, RunRows
<1>3. /\ snapshotRun' \in [Runs -> RunRows] /\ snapshotRun'[r] = Master!Resting
      /\ \A k \in Runs : k # r => snapshotRun'[k] = snapshotRun[k]
  BY <1>1, <1>2, RunMoves
<1>4. RunFits(r)' BY <1>2, <1>3 DEF RunFits
<1>5. ASSUME NEW k \in Runs, k # r PROVE RunFits(k)'
  BY <1>1, <1>3, <1>5 DEF MasterInv, RunFits, Reads
<1>6. roots' \subseteq Master!Tokens
  <2>1. \A v \in versions : v.tok \in Master!Tokens
    BY DEF MasterInv, VersionsFit, VersionRows
  <2> QED BY <1>1, <2>1 DEF Master!Candidates, Master!Open
<1>7. MasterShape'
  <2> HIDE DEF RunRows, PathRows
  <2> QED BY <1>1, <1>3, <1>6 DEF MasterInv, MasterShape
<1> QED BY <1>1, <1>4, <1>5, <1>7 DEF MasterInv

\* Every step keeps the invariant.
LEMMA MasterStep ==
  ASSUME MasterAssumption PROVE MasterInv /\ [Master!Next]_(Master!vars) => MasterInv'
<1>1. SUFFICES ASSUME MasterInv, [Master!Next]_(Master!vars) PROVE MasterInv' OBVIOUS
<1>2. CASE \/ Master!Midnight
           \/ \E f \in Master!Files : \E c \in Contents[f] : Master!Publish(f, c)
  BY <1>1, <1>2, DayKeepsMaster
<1>3. CASE Master!Crash BY <1>1, <1>3, KillKeepsMaster
<1>4. ASSUME NEW r \in Runs,
             \/ Master!HandleSymbolMaster(r) \/ Master!FetchMaster(r) \/ Master!Downloaded(r)
             \/ Master!DownloadFails(r) \/ Master!ReadLast(r) \/ Master!RebuildRootRegistry(r)
      PROVE  MasterInv'
  BY <1>1, <1>4, BeginKeepsMaster, FetchKeepsMaster, DownloadedKeepsMaster, FailureKeepsMaster,
     ReadKeepsMaster, RebuildKeepsMaster
<1>5. ASSUME NEW r \in Runs, Master!SkipUnchanged(r) PROVE MasterInv'
  <2>1. Recorded(r) /\ versions' = versions BY <1>1, <1>5, SkipRecords
  <2>2. /\ snapshotRun[r].step = "skip" /\ Master!Unlink(r) /\ Master!NextFile(r)
        /\ UNCHANGED <<today, published, roots>>
    BY <1>5 DEF Master!SkipUnchanged, Master!At
  <2> QED BY <1>1, <2>1, <2>2, FileDone
<1>6. ASSUME NEW r \in Runs, Master!ApplyMasterFile(r) PROVE MasterInv'
  <2>1. Kept(r) \/ Recorded(r) BY <1>1, <1>6, ApplyRecords
  <2>2. /\ snapshotRun[r].step = "diff" /\ Master!Unlink(r) /\ Master!NextFile(r)
        /\ UNCHANGED <<today, published, roots>>
    BY <1>6 DEF Master!ApplyMasterFile, Master!At
  <2> QED BY <1>1, <2>1, <2>2, FileDone
<1>7. CASE UNCHANGED Master!vars
  <2>1. UNCHANGED <<today, published, versions, snapshots, roots, download, target, snapshotRun>>
    BY <1>7 DEF Master!vars, Master!tables, Master!paths
  <2> QED BY <1>1, <2>1 DEF MasterInv, MasterShape, RunFits, Reads
<1> QED BY <1>1, <1>2, <1>3, <1>4, <1>5, <1>6, <1>7 DEF Master!Next

\* The versions are as they were, or one file has been merged that is long enough.
LEMMA VersionsMove ==
  ASSUME MasterAssumption, MasterInv, [Master!Next]_(Master!vars)
  PROVE  \/ versions' = versions
         \/ \E f \in Master!Files : \E s \in Contents[f] :
              versions' = Merged(versions, f, s, today) /\ ~Master!Truncated(f, s)
<1>1. ASSUME NEW r \in Runs, Master!ApplyMasterFile(r)
      PROVE  \/ versions' = versions
             \/ \E f \in Master!Files : \E s \in Contents[f] :
                  versions' = Merged(versions, f, s, today) /\ ~Master!Truncated(f, s)
  <2>1. snapshotRun[r].step = "diff" BY <1>1 DEF Master!ApplyMasterFile, Master!At
  <2>2. /\ snapshotRun[r].day = today /\ today \in Nat \ {0}
        /\ snapshotRun[r].k \in 1 .. Len(Order) /\ Len(Order) \in Nat
        /\ Master!File(r) \in Master!Files
        /\ Master!File(r) = Order[snapshotRun[r].k]
        /\ Reads(r) = published[Master!File(r)] /\ Reads(r) \in Contents[Master!File(r)]
        /\ Reads(r) \in AllContents
        /\ snapshotRun[r].step # "fetch" => snapshotRun[r].got = Reads(r)
    BY <2>1, RunKnown
  <2>3. snapshotRun[r].got \in Contents[Master!File(r)] BY <2>1, <2>2
  <2>4. \/ Kept(r)
        \/ /\ Recorded(r)
           /\ versions' = Merged(versions, Master!File(r), snapshotRun[r].got, today)
           /\ ~Master!Truncated(Master!File(r), snapshotRun[r].got)
    BY <1>1, ApplyRecords
  <2> QED BY <2>2, <2>3, <2>4 DEF Kept
<1>2. CASE ~\E r \in Runs : Master!ApplyMasterFile(r)
  BY <1>2 DEF Master!Next, Master!vars, Master!Publish, Master!Midnight, Master!HandleSymbolMaster,
     Master!FetchMaster, Master!Downloaded, Master!DownloadFails, Master!ReadLast,
     Master!SkipUnchanged, Master!RebuildRootRegistry, Master!Crash, Master!tables
<1> QED BY <1>1, <1>2

\* Two versions that answer for one day are one.
LEMMA OneAnswers ==
  ASSUME NEW vs, NEW day \in Nat, VersionsFit(vs, day), NEW t, NEW d \in Nat
  PROVE  Cardinality(FactsIn(vs, t, d)) <= 1
<1>1. ASSUME NEW v \in vs, NEW w \in vs, Covers(v, t, d), Covers(w, t, d) PROVE v = w
  <2>1. v \in VersionRows /\ w \in VersionRows BY DEF VersionsFit
  <2>2. v = w \/ (v.to # 0 /\ v.to <= w.from) \/ (w.to # 0 /\ w.to <= v.from)
    BY <1>1 DEF VersionsFit, Covers
  <2> QED BY <1>1, <2>1, <2>2 DEF Covers, VersionRows
<1>2. CASE \E v \in vs : Covers(v, t, d)
  <2>1. PICK v \in vs : Covers(v, t, d) BY <1>2
  <2>2. FactsIn(vs, t, d) = {v.attr} BY <1>1, <2>1 DEF FactsIn
  <2>3. Cardinality({v.attr}) = 1 BY FS_Singleton
  <2> QED BY <2>2, <2>3
<1>3. CASE ~\E v \in vs : Covers(v, t, d)
  <2>1. FactsIn(vs, t, d) = {} BY <1>3 DEF FactsIn
  <2> QED BY <2>1, FS_EmptySet
<1> QED BY <1>2, <1>3

\* What the invariant says of the versions and the snapshots.
LEMMA MasterPromises == ASSUME MasterAssumption PROVE MasterInv => VersionsSound
<1>1. SUFFICES ASSUME MasterInv PROVE VersionsSound OBVIOUS
<1>2. /\ MasterShape /\ VersionsFit(versions, today) /\ SnapshotsFit(snapshots, versions, today)
      /\ today \in 1 .. LastDay /\ LastDay \in Nat /\ today \in Nat
  BY <1>1 DEF MasterInv, MasterShape, MasterAssumption
<1>3. \A t, d : Master!FactOn(t, d) = FactsIn(versions, t, d)
  BY DEF Master!FactOn, FactsIn, Covers
<1>4. \A v \in versions : /\ v.tok \in Master!Tokens /\ v.from \in 1 .. LastDay
                          /\ v.to \in (1 .. LastDay) \cup {0} /\ (v.to = 0 \/ v.from < v.to)
  BY <1>2 DEF VersionsFit, VersionRows
<1>5. \A v, w \in versions :
        v.tok = w.tok /\ (v.from = w.from \/ (v.to = 0 /\ w.to = 0)) => v = w
  <2>1. SUFFICES ASSUME NEW v \in versions, NEW w \in versions, v.tok = w.tok,
                        v.from = w.from \/ (v.to = 0 /\ w.to = 0)
                 PROVE  v = w
    OBVIOUS
  <2>2. v = w \/ (v.to # 0 /\ v.to <= w.from) \/ (w.to # 0 /\ w.to <= v.from)
    BY <1>2, <2>1 DEF VersionsFit
  <2>3. /\ v.from \in Nat /\ v.to \in Nat /\ w.from \in Nat /\ w.to \in Nat
        /\ (v.to = 0 \/ v.from < v.to) /\ (w.to = 0 \/ w.from < w.to)
    BY <1>4
  <2> QED BY <2>1, <2>2, <2>3
<1>6. /\ \A x \in snapshots : x.file \in Master!Files /\ x.day \in 1 .. LastDay /\ x.rows \in Nat
      /\ \A x, y \in snapshots : x.file = y.file /\ x.day = y.day => x = y
  <2>1. \A x \in snapshots : x \in SnapshotRows /\ 1 <= x.day /\ x.day <= today
    BY <1>2 DEF SnapshotsFit
  <2> QED BY <1>2, <2>1 DEF SnapshotsFit, SnapshotRows
<1>7. Master!TypeOK
  <2>1. \A r \in Runs : snapshotRun[r].step \in
                          {"idle", "fetch", "loading", "loaded", "skip", "diff", "rebuild"}
    <3>1. \A r \in Runs : snapshotRun[r] \in RunRows BY <1>2 DEF MasterShape
    <3> QED BY <3>1 DEF RunRows
  <2>2. \A v, w \in versions : v.tok = w.tok /\ v.from = w.from => v = w BY <1>5
  <2>3. roots \subseteq Master!Tokens /\ \A f \in Master!Files : published[f] \in Contents[f]
    BY <1>2 DEF MasterShape
  <2> QED BY <1>2, <1>4, <1>6, <2>1, <2>2, <2>3 DEF Master!TypeOK, Master!Days
<1>8. Master!OneAnswerPerDay
  <2>1. \A t \in Master!Tokens, d \in 1 .. LastDay : Master!Cardinality(Master!FactOn(t, d)) <= 1
    <3>1. SUFFICES ASSUME NEW t \in Master!Tokens, NEW d \in 1 .. LastDay
                   PROVE  Master!Cardinality(FactsIn(versions, t, d)) <= 1
      BY <1>3
    <3>2. d \in Nat BY <1>2
    <3> QED BY <1>2, <3>2, OneAnswers, CountedAlike
  <2>2. \A v \in versions : v.to = 0 \/ v.from < v.to BY <1>4
  <2>3. \A v, w \in Master!Open(versions) : v.tok = w.tok => v = w BY <1>5 DEF Master!Open
  <2> QED BY <2>1, <2>2, <2>3 DEF Master!OneAnswerPerDay, Master!Days
<1>9. Master!ListedIsAnswered
  BY <1>2, <1>3 DEF SnapshotsFit, Master!ListedIsAnswered
<1> QED BY <1>7, <1>8, <1>9 DEF VersionsSound

\* What the last snapshot of a file listed is current.
LEMMA LastIsCurrent ==
  ASSUME MasterAssumption, MasterInv, NEW f \in Master!Files, NEW x \in Master!LastSnapshot(f)
  PROVE  /\ x \in snapshots /\ x.file = f /\ x.sha \in Contents[f]
         /\ DOMAIN x.sha \subseteq Slice[f] /\ IsFiniteSet(DOMAIN x.sha)
         /\ x.rows = Cardinality(DOMAIN x.sha)
         /\ \A t \in DOMAIN x.sha : CurrentIn(versions, t, x.sha[t])
<1>1. x \in LastOf(snapshots, f) BY DEF Master!LastSnapshot, LastOf
<1>2. x \in snapshots /\ x.file = f BY <1>1 DEF LastOf
<1>3. x.sha \in Contents[f] /\ x.rows = Cardinality(DOMAIN x.sha)
  BY <1>2 DEF MasterInv, SnapshotsFit
<1>4. \A t \in DOMAIN x.sha : CurrentIn(versions, t, x.sha[t])
  BY <1>1 DEF MasterInv, SnapshotsFit
<1> QED BY <1>2, <1>3, <1>4 DEF MasterAssumption

\* No step changes what an earlier day is answered.
LEMMA PastStays ==
  ASSUME MasterAssumption, MasterInv, [Master!Next]_(Master!vars), NEW t, NEW d \in 1 .. today - 1
  PROVE  FactsIn(versions', t, d) = FactsIn(versions, t, d)
<1>1. today \in Nat \ {0} /\ VersionsFit(versions, today)
  BY DEF MasterInv, MasterShape, MasterAssumption
<1>2. CASE versions' = versions BY <1>2
<1>3. ASSUME NEW f \in Master!Files, NEW s \in Contents[f],
             versions' = Merged(versions, f, s, today)
      PROVE  FactsIn(versions', t, d) = FactsIn(versions, t, d)
  <2>1. /\ t \notin Slice[f] =>
             {x \in Merged(versions, f, s, today) : x.tok = t} = {x \in versions : x.tok = t}
        /\ \A e \in 1 .. today - 1 :
             FactsIn(Merged(versions, f, s, today), t, e) = FactsIn(versions, t, e)
    BY <1>1, MergeIsLocal
  <2> QED BY <1>3, <2>1
<1> QED BY <1>2, <1>3, VersionsMove

\* A file that lacks more than half of what another of its contents lists is less than half as
\* long: the broker never swaps most of a file's instruments for others.
FilesAreCut ==
  \A f \in Master!Files : \A c, d \in Contents[f] :
    \/ 2 * Cardinality(DOMAIN c \ DOMAIN d) <= Cardinality(DOMAIN c)
    \/ 2 * Cardinality(DOMAIN d) < Cardinality(DOMAIN c)

\* What a step may close of the last snapshot of a file.
LEMMA FewAreClosed ==
  ASSUME MasterAssumption, FilesAreCut, MasterInv, [Master!Next]_(Master!vars),
         NEW f \in Master!Files, NEW x \in Master!LastSnapshot(f)
  PROVE  2 * Cardinality({t \in DOMAIN x.sha : \A v \in versions' : v.to = 0 => v.tok # t})
           <= x.rows
<1> DEFINE G == {t \in DOMAIN x.sha : \A v \in versions' : v.to = 0 => v.tok # t}
<1>1. /\ x \in snapshots /\ x.file = f /\ x.sha \in Contents[f]
      /\ DOMAIN x.sha \subseteq Slice[f] /\ IsFiniteSet(DOMAIN x.sha)
      /\ x.rows = Cardinality(DOMAIN x.sha)
      /\ \A t \in DOMAIN x.sha : CurrentIn(versions, t, x.sha[t])
  BY LastIsCurrent
<1>2. today \in Nat \ {0} /\ VersionsFit(versions, today) /\ x.rows \in Nat
  <2>1. x.rows \in Nat BY <1>1, FS_CardinalityType
  <2> QED BY <2>1 DEF MasterInv, MasterShape, MasterAssumption
<1>3. ASSUME \A t \in DOMAIN x.sha : \E v \in versions' : v.tok = t /\ v.to = 0
      PROVE  2 * Cardinality(G) <= x.rows
  <2>1. G = {} BY <1>3
  <2>2. Cardinality(G) = 0 BY <2>1, FS_EmptySet
  <2> QED BY <1>2, <2>2
<1>4. CASE versions' = versions BY <1>1, <1>3, <1>4 DEF CurrentIn
<1>5. ASSUME NEW g \in Master!Files, NEW s \in Contents[g],
             versions' = Merged(versions, g, s, today), ~Master!Truncated(g, s)
      PROVE  2 * Cardinality(G) <= x.rows
  <2>1. CASE g # f
    <3>1. ASSUME NEW t \in DOMAIN x.sha PROVE \E v \in versions' : v.tok = t /\ v.to = 0
      <4>1. t \notin Slice[g] BY <1>1, <2>1 DEF MasterAssumption
      <4>2. /\ t \notin Slice[g] =>
                 {y \in Merged(versions, g, s, today) : y.tok = t} = {y \in versions : y.tok = t}
            /\ \A e \in 1 .. today - 1 :
                 FactsIn(Merged(versions, g, s, today), t, e) = FactsIn(versions, t, e)
        BY <1>2, MergeIsLocal
      <4>3. PICK v \in versions : v.tok = t /\ v.to = 0 BY <1>1 DEF CurrentIn
      <4>4. v \in {y \in Merged(versions, g, s, today) : y.tok = t} BY <4>1, <4>2, <4>3
      <4> QED BY <1>5, <4>3, <4>4
    <3> QED BY <1>3, <3>1
  <2>2. CASE g = f
    <3>1. \A t \in DOMAIN s : CurrentIn(versions', t, s[t]) BY <1>2, <1>5, MergeLists
    <3>2. G \subseteq DOMAIN x.sha \ DOMAIN s BY <3>1 DEF CurrentIn
    <3>3. ~(2 * Master!Cardinality(DOMAIN s) < x.rows) BY <1>5, <2>2 DEF Master!Truncated
    <3>4. ~(2 * Cardinality(DOMAIN s) < x.rows) BY <3>3, CountedAlike
    <3>5. 2 * Cardinality(DOMAIN x.sha \ DOMAIN s) <= x.rows
      BY <1>1, <2>2, <3>4 DEF FilesAreCut
    <3>6. IsFiniteSet(DOMAIN x.sha \ DOMAIN s) BY <1>1, FS_Subset
    <3>7. /\ Cardinality(G) <= Cardinality(DOMAIN x.sha \ DOMAIN s) /\ IsFiniteSet(G)
      BY <3>2, <3>6, FS_Subset
    <3>8. Cardinality(G) \in Nat /\ Cardinality(DOMAIN x.sha \ DOMAIN s) \in Nat
      BY <3>6, <3>7, FS_CardinalityType
    <3> QED BY <1>2, <3>5, <3>7, <3>8
  <2> QED BY <2>1, <2>2
<1> QED BY <1>4, <1>5, VersionsMove

\* Roots are rebuilt from what is current, so from what the last snapshots listed.
LEMMA RootsKnown ==
  ASSUME MasterAssumption, MasterInv, [Master!Next]_(Master!vars), roots' # roots,
         NEW x \in Master!LastSnapshot(Derivatives), NEW t \in DOMAIN x.sha,
         NEW f \in Master!Files, NEW y \in Master!LastSnapshot(f), Under[t] \in DOMAIN y.sha
  PROVE  Under[t] \in roots'
<1>1. PICK r \in Runs : Master!RebuildRootRegistry(r)
  BY DEF Master!Next, Master!vars, Master!Publish, Master!Midnight, Master!HandleSymbolMaster,
     Master!FetchMaster, Master!Downloaded, Master!DownloadFails, Master!ReadLast,
     Master!SkipUnchanged, Master!ApplyMasterFile, Master!Crash
<1>2. Derivatives \in Master!Files
  <2>1. x \in snapshots /\ x.file = Derivatives BY DEF Master!LastSnapshot
  <2> QED BY <2>1 DEF MasterInv, SnapshotsFit, SnapshotRows
<1>3. /\ x \in snapshots /\ x.file = Derivatives /\ x.sha \in Contents[Derivatives]
      /\ DOMAIN x.sha \subseteq Slice[Derivatives] /\ IsFiniteSet(DOMAIN x.sha)
      /\ x.rows = Cardinality(DOMAIN x.sha)
      /\ \A u \in DOMAIN x.sha : CurrentIn(versions, u, x.sha[u])
  BY <1>2, LastIsCurrent
<1>4. /\ y \in snapshots /\ y.file = f /\ y.sha \in Contents[f]
      /\ DOMAIN y.sha \subseteq Slice[f] /\ IsFiniteSet(DOMAIN y.sha)
      /\ y.rows = Cardinality(DOMAIN y.sha)
      /\ \A u \in DOMAIN y.sha : CurrentIn(versions, u, y.sha[u])
  BY LastIsCurrent
<1>5. roots' = Master!Candidates(r) BY <1>1 DEF Master!RebuildRootRegistry
<1>6. \E v \in Master!Open(versions) : v.tok = t BY <1>3 DEF CurrentIn, Master!Open
<1>7. \E v \in Master!Open(versions) : v.tok = Under[t] BY <1>4 DEF CurrentIn, Master!Open
<1>8. t \in Slice[Derivatives] BY <1>3
<1> QED BY <1>5, <1>6, <1>7, <1>8 DEF Master!Candidates

\* The symbol master (`_merge_dim`, `_replace_snapshot`): at any day an instrument has one
\* answer at most, and what a snapshot listed is answered for its day, whatever runs overlap,
\* fail, are killed or repeated, while the broker publishes and the day ends between runs.
THEOREM VersionsSoundAlways == ASSUME MasterAssumption PROVE Master!Spec => []VersionsSound
<1>1. Master!Init => MasterInv BY MasterStarts
<1>2. MasterInv /\ [Master!Next]_(Master!vars) => MasterInv' BY MasterStep
<1>3. MasterInv => VersionsSound BY MasterPromises
<1> QED BY <1>1, <1>2, <1>3, PTL DEF Master!Spec

\* What an earlier day was answered is never answered otherwise (`_merge_dim` closes and opens
\* rows from the run's day on), and a rebuilt registry knows every root the last snapshots know
\* of, whichever file could not be fetched (`rebuild_root_registry`).
THEOREM PastIsFixedAlways ==
  ASSUME MasterAssumption
  PROVE  Master!Spec => Master!PastIsFixed /\ Master!RootsSurviveFailures
<1>1. Master!Init => MasterInv BY MasterStarts
<1>2. MasterInv /\ [Master!Next]_(Master!vars) => MasterInv' BY MasterStep
<1>3. MasterInv /\ [Master!Next]_(Master!vars) =>
        [\A tok \in Master!Tokens : \A day \in 1 .. today - 1 :
           Master!FactOn(tok, day) = Master!FactOn(tok, day)']_(Master!vars)
  <2>1. SUFFICES ASSUME MasterInv, [Master!Next]_(Master!vars),
                        NEW tok \in Master!Tokens, NEW day \in 1 .. today - 1
                 PROVE  Master!FactOn(tok, day) = Master!FactOn(tok, day)'
    OBVIOUS
  <2>2. FactsIn(versions', tok, day) = FactsIn(versions, tok, day) BY <2>1, PastStays
  <2> QED BY <2>2 DEF Master!FactOn, FactsIn, Covers
<1>4. MasterInv /\ [Master!Next]_(Master!vars) =>
        [roots' # roots =>
           \A x \in Master!LastSnapshot(Derivatives) : \A t \in DOMAIN x.sha :
             (\E f \in Master!Files : \E y \in Master!LastSnapshot(f) : Under[t] \in DOMAIN y.sha)
               => Under[t] \in roots']_(Master!vars)
  BY RootsKnown
<1> QED BY <1>1, <1>2, <1>3, <1>4, PTL
        DEF Master!Spec, Master!PastIsFixed, Master!RootsSurviveFailures

\* All that the history promises, of a broker that does not swap most of a file for other
\* instruments: the guard of the merge (`_guard_against_shrinkage`) compares lengths, so that
\* is what a file cut short can be told by.
THEOREM HistoryKeptAlways ==
  ASSUME MasterAssumption, FilesAreCut PROVE Master!Spec => HistoryKept
<1>1. Master!Init => MasterInv BY MasterStarts
<1>2. MasterInv /\ [Master!Next]_(Master!vars) => MasterInv' BY MasterStep
<1>3. MasterInv /\ [Master!Next]_(Master!vars) =>
        [\A f \in Master!Files : \A x \in Master!LastSnapshot(f) :
           2 * Master!Cardinality({t \in DOMAIN x.sha :
                                     \A v \in Master!Open(versions') : v.tok # t})
             <= x.rows]_(Master!vars)
  <2>1. SUFFICES ASSUME MasterInv, [Master!Next]_(Master!vars),
                        NEW f \in Master!Files, NEW x \in Master!LastSnapshot(f)
                 PROVE  2 * Cardinality({t \in DOMAIN x.sha :
                                           \A v \in Master!Open(versions') : v.tok # t}) <= x.rows
    BY CountedAlike
  <2>2. {t \in DOMAIN x.sha : \A v \in Master!Open(versions') : v.tok # t}
          = {t \in DOMAIN x.sha : \A v \in versions' : v.to = 0 => v.tok # t}
    BY DEF Master!Open
  <2> QED BY <2>1, <2>2, FewAreClosed
<1>4. Master!Spec => Master!NoMassClosing
  BY <1>1, <1>2, <1>3, PTL DEF Master!Spec, Master!NoMassClosing
<1> QED BY <1>4, PastIsFixedAlways DEF HistoryKept
-----------------------------------------------------------------------------
(* The listings. *)

PagesAssumption ==
  /\ Kinds \subseteq {"contracts", "expiries", "tasks", "jobs", "exports"}
  /\ MaxRows \in Nat /\ PageSize \in Nat \ {0}
  /\ SortKeys \subseteq Nat
  /\ "ids_disagree" \notin Freedoms

\* The page a cursor is handed in for.
PastOf(k, c, r) ==
  \/ c = Listing!None
  \/ k \in {"contracts", "tasks"} /\ r.id > c.id
  \/ k = "expiries" /\ r.key > c.key
  \/ k \in {"jobs", "exports"} /\ r.key < c.key
  \/ k = "exports" /\ r.key = c.key /\ r.id < c.id
Shown(ps) == UNION {ps[i] : i \in 1 .. Len(ps)}

\* A page's cut is by what the rows are ordered by: a contract's parts stand together and its
\* id ascends with its key, no two expiries and no two jobs share theirs.
RowsFit(k, rs) ==
  /\ IsFiniteSet(rs) /\ rs \subseteq Listing!Row
  /\ \A q, r \in rs : q.id = r.id => q.key = r.key /\ (k # "contracts" => q = r)
  /\ k = "contracts" => \A q, r \in rs : q.id < r.id => q.key <= r.key
  /\ k \in {"expiries", "jobs"} => \A q, r \in rs : q.key = r.key => q = r

\* A walk: behind the cursor is what was shown, and nothing else that is there to stay.
WalkFits(k, c, rs, ps, st) ==
  /\ \A r \in rs : r.id \in Shown(ps) => ~PastOf(k, c, r)
  /\ \A r \in rs : r.id \in st /\ ~PastOf(k, c, r) => r.id \in Shown(ps)

PagesInv ==
  /\ kind \in Kinds /\ RowsFit(kind, listed) /\ left \subseteq 1 .. MaxRows
  /\ listStep \in {"new", "reading", "done"} /\ cursor \in Listing!Row \cup {Listing!None}
  /\ pages \in Seq(SUBSET (1 .. MaxRows)) /\ steady \subseteq Listing!Ids(listed)
  /\ \A i \in 1 .. Len(pages) : /\ Cardinality(pages[i]) <= PageSize
                                /\ pages[i] \subseteq Listing!Ids(listed) \cup left
  /\ Listing!OnOnePage
  /\ listStep = "new" => cursor = Listing!None /\ pages = <<>>
  /\ listStep = "done" => steady \subseteq Shown(pages)
  /\ listStep # "done" => WalkFits(kind, cursor, listed, pages, steady)

\* The listings count rows as the library counts members.
LEMMA ListingCardinality == \A S : Listing!Cardinality(S) = Cardinality(S)
BY DEF Listing!Cardinality, Cardinality

\* A row is past the cursor as the query says.
LEMMA PastIsPast == \A r : Listing!Past(r) = PastOf(kind, cursor, r)
BY DEF Listing!Past, PastOf

\* The columns of a row.
LEMMA RowColumns ==
  ASSUME PagesAssumption
  PROVE  \A r \in Listing!Row : /\ r.id \in 1 .. MaxRows /\ r.id \in Nat
                                /\ r.part \in Nat /\ r.key \in Nat
                                /\ r = [id |-> r.id, part |-> r.part, key |-> r.key]
<1>1. SUFFICES ASSUME NEW r \in [id : 1 .. MaxRows, part : 1 .. 2, key : SortKeys]
               PROVE  /\ r.id \in 1 .. MaxRows /\ r.id \in Nat
                      /\ r.part \in Nat /\ r.key \in Nat
                      /\ r = [id |-> r.id, part |-> r.part, key |-> r.key]
  BY DEF Listing!Row
<1>2. r.id \in 1 .. MaxRows /\ r.part \in 1 .. 2 /\ r.key \in SortKeys OBVIOUS
<1>3. r = [id |-> r.id, part |-> r.part, key |-> r.key] OBVIOUS
<1>4. SortKeys \subseteq Nat /\ MaxRows \in Nat BY DEF PagesAssumption
<1>5. r.id \in Nat BY <1>2, <1>4
<1>6. r.part \in Nat BY <1>2
<1> QED BY <1>2, <1>3, <1>4, <1>5, <1>6

\* The rows stand in one order.
LEMMA RowsOrdered ==
  ASSUME PagesAssumption, PagesInv, NEW a \in listed, NEW b \in listed, NEW c \in listed
  PROVE  /\ ~Listing!Before(a, a)
         /\ Listing!Before(a, b) /\ Listing!Before(b, c) => Listing!Before(a, c)
         /\ a = b \/ Listing!Before(a, b) \/ Listing!Before(b, a)
<1>1. /\ kind \in {"contracts", "expiries", "tasks", "jobs", "exports"}
      /\ RowsFit(kind, listed)
  BY DEF PagesInv, PagesAssumption
<1>2. \A r \in listed : r \in Listing!Row BY <1>1 DEF RowsFit
<1>3. \A r \in Listing!Row : /\ r.id \in Nat /\ r.part \in Nat /\ r.key \in Nat
                             /\ r = [id |-> r.id, part |-> r.part, key |-> r.key]
  BY RowColumns
<1>4. \A q, r \in listed : q.id = r.id => q.key = r.key /\ (kind # "contracts" => q = r)
  BY <1>1 DEF RowsFit
<1>5. a.id = b.id /\ a.part = b.part => a = b BY <1>2, <1>3, <1>4
<1>6. CASE kind \in {"contracts", "expiries"}
  <2>1. \A q, r : Listing!Before(q, r) <=> \/ q.key < r.key
                                           \/ q.key = r.key /\ q.id < r.id
                                           \/ q.key = r.key /\ q.id = r.id /\ q.part < r.part
    BY <1>6 DEF Listing!Before
  <2> QED BY <2>1, <1>2, <1>3, <1>4, <1>5
<1>7. CASE kind = "tasks"
  <2>1. \A q, r : Listing!Before(q, r) <=> q.id < r.id BY <1>7 DEF Listing!Before
  <2> QED BY <2>1, <1>2, <1>3, <1>4, <1>7
<1>8. CASE kind \in {"jobs", "exports"}
  <2>1. \A q, r : Listing!Before(q, r) <=> q.key > r.key \/ (q.key = r.key /\ q.id > r.id)
    BY <1>8 DEF Listing!Before
  <2> QED BY <2>1, <1>2, <1>3, <1>4, <1>8
<1> QED BY <1>1, <1>6, <1>7, <1>8

\* Where the page ends: what stands before the cursor's row is not past it, and what stands
\* after it and is not past it is a part of the same contract.
LEMMA CutFits ==
  ASSUME PagesAssumption, PagesInv, NEW c \in listed, NEW r \in listed
  PROVE  /\ r = c \/ Listing!Before(r, c) => ~PastOf(kind, c, r)
         /\ Listing!Before(c, r) /\ ~PastOf(kind, c, r) => r.id = c.id
<1>1. /\ kind \in {"contracts", "expiries", "tasks", "jobs", "exports"}
      /\ RowsFit(kind, listed)
  BY DEF PagesInv, PagesAssumption
<1>2. /\ r \in Listing!Row /\ c \in Listing!Row BY <1>1 DEF RowsFit
<1>3. \A q \in Listing!Row : q.id \in 1 .. MaxRows /\ q.part \in Nat /\ q.key \in Nat
  BY RowColumns
<1>4. c # Listing!None
  <2>1. c.id \in 1 .. MaxRows BY <1>2, <1>3
  <2> QED BY <2>1 DEF PagesAssumption, Listing!None
<1>5. /\ r.id \in Nat /\ r.part \in Nat /\ r.key \in Nat
      /\ c.id \in Nat /\ c.part \in Nat /\ c.key \in Nat
  BY <1>2, <1>3 DEF PagesAssumption
<1>6. CASE kind = "contracts"
  <2>1. \A p, q : Listing!Before(p, q) <=> \/ p.key < q.key
                                           \/ p.key = q.key /\ p.id < q.id
                                           \/ p.key = q.key /\ p.id = q.id /\ p.part < q.part
    BY <1>6 DEF Listing!Before
  <2>2. PastOf(kind, c, r) <=> r.id > c.id BY <1>4, <1>6 DEF PastOf
  <2>3. (r.id < c.id => r.key <= c.key) /\ (c.id < r.id => c.key <= r.key)
    BY <1>1, <1>6 DEF RowsFit
  <2> QED BY <2>1, <2>2, <2>3, <1>5
<1>7. CASE kind = "expiries"
  <2>1. \A p, q : Listing!Before(p, q) <=> \/ p.key < q.key
                                           \/ p.key = q.key /\ p.id < q.id
                                           \/ p.key = q.key /\ p.id = q.id /\ p.part < q.part
    BY <1>7 DEF Listing!Before
  <2>2. PastOf(kind, c, r) <=> r.key > c.key BY <1>4, <1>7 DEF PastOf
  <2>3. r.key = c.key => r = c BY <1>1, <1>7 DEF RowsFit
  <2> QED BY <2>1, <2>2, <2>3, <1>5
<1>8. CASE kind = "tasks"
  <2>1. \A p, q : Listing!Before(p, q) <=> p.id < q.id BY <1>8 DEF Listing!Before
  <2>2. PastOf(kind, c, r) <=> r.id > c.id BY <1>4, <1>8 DEF PastOf
  <2> QED BY <2>1, <2>2, <1>5
<1>9. CASE kind \in {"jobs", "exports"}
  <2>1. \A p, q : Listing!Before(p, q) <=> p.key > q.key \/ (p.key = q.key /\ p.id > q.id)
    BY <1>9 DEF Listing!Before
  <2>2. PastOf(kind, c, r) <=> \/ r.key < c.key
                               \/ kind = "exports" /\ r.key = c.key /\ r.id < c.id
    BY <1>4, <1>9 DEF PastOf
  <2>3. kind = "jobs" => (r.key = c.key => r = c) BY <1>1 DEF RowsFit
  <2> QED BY <2>1, <2>2, <2>3, <1>5, <1>9
<1> QED BY <1>1, <1>6, <1>7, <1>8, <1>9

\* What is behind a cursor is behind the next one.
LEMMA CursorMovesOn ==
  ASSUME PagesAssumption, NEW k \in Kinds, NEW c \in Listing!Row \cup {Listing!None},
         NEW d \in Listing!Row, NEW r \in Listing!Row, PastOf(k, c, d), ~PastOf(k, c, r)
  PROVE  ~PastOf(k, d, r)
<1>1. \A q \in Listing!Row : q.id \in 1 .. MaxRows /\ q.key \in Nat
  BY DEF Listing!Row, PagesAssumption
<1>2. c # Listing!None /\ d # Listing!None
  <2>1. d.id # 0 BY <1>1 DEF PagesAssumption
  <2> QED BY <2>1 DEF PastOf, Listing!None
<1>3. /\ c.id \in Nat /\ c.key \in Nat /\ d.id \in Nat /\ d.key \in Nat
      /\ r.id \in Nat /\ r.key \in Nat
  BY <1>1, <1>2 DEF PagesAssumption
<1> QED BY <1>2, <1>3 DEF PastOf, PagesAssumption

\* At most as many places as the range has.
LEMMA PlacesCounted ==
  ASSUME NEW P, NEW n \in Nat, NEW place \in [P -> 1 .. n],
         \A a, b \in P : place[a] = place[b] => a = b
  PROVE  IsFiniteSet(P) /\ Cardinality(P) <= n
<1>1. IsFiniteSet(1 .. n) /\ Cardinality(1 .. n) = n BY FS_Interval
<1>2. place \in Injection(P, 1 .. n) BY DEF Injection, IsInjective
<1> QED BY <1>1, <1>2, FS_Injection

Ahead == {r \in listed : Listing!Past(r)}

\* The place of a row past the cursor is one of theirs, and a later row's is larger.
LEMMA PlacesAscend ==
  ASSUME PagesAssumption, PagesInv
  PROVE  /\ IsFiniteSet(Ahead) /\ Cardinality(Ahead) \in Nat
         /\ \A r \in Ahead : Listing!Place(r) \in 1 .. Cardinality(Ahead)
         /\ \A q, r \in Ahead : Listing!Before(q, r) => Listing!Place(q) < Listing!Place(r)
<1> DEFINE F(r) == {q \in listed : Listing!Past(q) /\ Listing!Before(q, r)}
<1>1. IsFiniteSet(Ahead) /\ Cardinality(Ahead) \in Nat
  BY FS_Subset, FS_CardinalityType DEF PagesInv, RowsFit, Ahead
<1>2. \A r : Listing!Place(r) = 1 + Cardinality(F(r)) BY ListingCardinality DEF Listing!Place
<1>3. ASSUME NEW r \in Ahead
      PROVE  /\ F(r) \subseteq Ahead /\ r \notin F(r)
             /\ IsFiniteSet(F(r)) /\ Cardinality(F(r)) \in Nat
             /\ 1 + Cardinality(F(r)) <= Cardinality(Ahead)
  <2>1. F(r) \subseteq Ahead BY DEF Ahead
  <2>2. r \in listed BY DEF Ahead
  <2>3. r \notin F(r) BY <2>2, RowsOrdered
  <2>4. IsFiniteSet(F(r)) /\ Cardinality(F(r)) \in Nat
    BY <1>1, <2>1, FS_Subset, FS_CardinalityType
  <2>5. F(r) \cup {r} \subseteq Ahead BY <2>1
  <2>6. Cardinality(F(r) \cup {r}) = Cardinality(F(r)) + 1 BY <2>3, <2>4, FS_AddElement
  <2>7. Cardinality(F(r) \cup {r}) <= Cardinality(Ahead) BY <1>1, <2>5, FS_Subset
  <2> QED BY <2>1, <2>3, <2>4, <2>6, <2>7
<1>4. ASSUME NEW q \in Ahead, NEW r \in Ahead, Listing!Before(q, r)
      PROVE  Cardinality(F(q)) < Cardinality(F(r))
  <2>1. q \in listed /\ r \in listed /\ Listing!Past(q) BY DEF Ahead
  <2>2. F(q) \cup {q} \subseteq F(r) BY <1>4, <2>1, RowsOrdered
  <2>3. /\ IsFiniteSet(F(q)) /\ Cardinality(F(q)) \in Nat /\ q \notin F(q)
        /\ IsFiniteSet(F(r)) /\ Cardinality(F(r)) \in Nat
    BY <1>3
  <2>4. Cardinality(F(q) \cup {q}) = Cardinality(F(q)) + 1 BY <2>3, FS_AddElement
  <2>5. Cardinality(F(q) \cup {q}) <= Cardinality(F(r)) BY <2>2, <2>3, FS_Subset
  <2> QED BY <2>3, <2>4, <2>5
<1> HIDE DEF F
<1>5. \A r \in Ahead : Listing!Place(r) \in 1 .. Cardinality(Ahead) BY <1>1, <1>2, <1>3
<1>6. \A q, r \in Ahead : Listing!Before(q, r) => Listing!Place(q) < Listing!Place(r)
  BY <1>2, <1>3, <1>4
<1> QED BY <1>1, <1>5, <1>6

\* Two rows past the cursor have two places.
LEMMA PlacesDiffer ==
  ASSUME PagesAssumption, PagesInv, NEW q \in Ahead, NEW r \in Ahead,
         Listing!Place(q) = Listing!Place(r)
  PROVE  q = r
<1>1. q \in listed /\ r \in listed BY DEF Ahead
<1>2. q = r \/ Listing!Before(q, r) \/ Listing!Before(r, q) BY <1>1, RowsOrdered
<1>3. \A p \in Ahead : Listing!Place(p) \in Nat BY PlacesAscend
<1>4. /\ Listing!Before(q, r) => Listing!Place(q) < Listing!Place(r)
      /\ Listing!Before(r, q) => Listing!Place(r) < Listing!Place(q)
  BY PlacesAscend
<1> QED BY <1>2, <1>3, <1>4

\* A page: no longer than it may be, and what is past the cursor when nothing follows.
LEMMA PageFits ==
  ASSUME PagesAssumption, PagesInv
  PROVE  /\ Listing!Items \subseteq Ahead
         /\ Listing!Ids(Listing!Items) \subseteq 1 .. MaxRows
         /\ Cardinality(Listing!Ids(Listing!Items)) <= PageSize
         /\ ~Listing!HasMore => Listing!Items = Ahead
<1>1. PageSize \in Nat \ {0} BY DEF PagesAssumption
<1>2. Listing!Items \subseteq Ahead BY DEF Listing!Items, Ahead
<1>3. Listing!Ids(Listing!Items) \subseteq 1 .. MaxRows
  <2>1. \A r \in Listing!Items : r \in Listing!Row
    BY <1>2 DEF Ahead, PagesInv, RowsFit
  <2> QED BY <2>1, RowColumns DEF Listing!Ids
<1>4. Cardinality(Listing!Ids(Listing!Items)) <= PageSize
  <2> DEFINE I == Listing!Ids(Listing!Items)
             H(i) == CHOOSE r \in Listing!Items : r.id = i
             place == [i \in I |-> Listing!Place(H(i))]
  <2>1. \A i \in I : H(i) \in Listing!Items /\ H(i).id = i BY DEF Listing!Ids
  <2>2. \A r \in Listing!Items : Listing!Place(r) \in Nat /\ 1 <= Listing!Place(r)
    BY <1>2, PlacesAscend
  <2>3. \A r \in Listing!Items : Listing!Place(r) <= PageSize BY DEF Listing!Items
  <2> HIDE DEF I, H
  <2>4. place \in [I -> 1 .. PageSize] BY <1>1, <2>1, <2>2, <2>3
  <2>5. \A i, j \in I : place[i] = place[j] => i = j
    <3>1. SUFFICES ASSUME NEW i \in I, NEW j \in I, place[i] = place[j] PROVE i = j OBVIOUS
    <3>2. H(i) \in Ahead /\ H(j) \in Ahead BY <1>2, <2>1
    <3>3. Listing!Place(H(i)) = Listing!Place(H(j)) BY <3>1
    <3>4. H(i) = H(j) BY <3>2, <3>3, PlacesDiffer
    <3> QED BY <2>1, <3>4
  <2> HIDE DEF place
  <2>6. Cardinality(I) <= PageSize BY <1>1, <2>4, <2>5, PlacesCounted
  <2> QED BY <2>6 DEF I
<1>5. ASSUME ~Listing!HasMore PROVE Listing!Items = Ahead
  <2>1. ~(Cardinality(Ahead) > PageSize)
    BY <1>5, ListingCardinality DEF Listing!HasMore, Ahead
  <2>2. \A r \in Ahead : Listing!Place(r) <= PageSize BY <1>1, <2>1, PlacesAscend
  <2> QED BY <2>2 DEF Listing!Items, Ahead
<1> QED BY <1>2, <1>3, <1>4, <1>5

\* The row a page ends with: past the cursor, and what is on the page is it or stands before it.
LEMMA PageEnds ==
  ASSUME PagesAssumption, PagesInv, Listing!HasMore
  PROVE  /\ Listing!NextCursor \in Ahead /\ Listing!NextCursor \in listed
         /\ Listing!NextCursor \in Listing!Row
         /\ \A r \in Ahead : r \in Listing!Items <=> \/ r = Listing!NextCursor
                                                     \/ Listing!Before(r, Listing!NextCursor)
<1> DEFINE c == Listing!NextCursor
           place == [r \in Ahead |-> Listing!Place(r)]
<1>1. PageSize \in Nat \ {0} BY DEF PagesAssumption
<1>2. IsFiniteSet(Ahead) /\ Cardinality(Ahead) \in Nat BY PlacesAscend
<1>3. Cardinality(Ahead) > PageSize BY ListingCardinality DEF Listing!HasMore, Ahead
<1>4. c = Listing!RowAt(PageSize) BY DEF Listing!NextCursor
<1>5. \E r \in Ahead : place[r] = PageSize
  <2>1. place \in [Ahead -> 1 .. Cardinality(Ahead)] BY PlacesAscend
  <2>2. \A a, b \in Ahead : place[a] = place[b] => a = b BY PlacesDiffer
  <2>3. PageSize \in 1 .. Cardinality(Ahead) BY <1>1, <1>2, <1>3
  <2> HIDE DEF place
  <2> QED BY <1>2, <2>1, <2>2, <2>3, PlacesFilled
<1>6. \E r \in listed : Listing!Past(r) /\ Listing!Place(r) = PageSize BY <1>5 DEF Ahead
<1>7. c \in listed /\ Listing!Past(c) /\ Listing!Place(c) = PageSize
  BY <1>4, <1>6 DEF Listing!RowAt
<1> HIDE DEF c, place
<1>8. c \in Ahead BY <1>7 DEF Ahead
<1>9. c \in Listing!Row BY <1>7 DEF PagesInv, RowsFit
<1>10. ASSUME NEW r \in Ahead
       PROVE  r \in Listing!Items <=> r = c \/ Listing!Before(r, c)
  <2>1. r \in listed BY DEF Ahead
  <2>2. r \in Listing!Items <=> Listing!Place(r) <= PageSize BY DEF Listing!Items, Ahead
  <2>3. r = c \/ Listing!Before(r, c) \/ Listing!Before(c, r) BY <1>7, <2>1, RowsOrdered
  <2>4. Listing!Before(r, c) => Listing!Place(r) < PageSize BY <1>7, <1>8, PlacesAscend
  <2>5. Listing!Before(c, r) => PageSize < Listing!Place(r) BY <1>7, <1>8, PlacesAscend
  <2>6. Listing!Place(r) \in Nat BY PlacesAscend
  <2>7. r = c => Listing!Place(r) = PageSize BY <1>7
  <2> QED BY <1>1, <2>2, <2>3, <2>4, <2>5, <2>6, <2>7
<1> QED BY <1>7, <1>8, <1>9, <1>10 DEF c

\* What was shown, and what one page more adds.
LEMMA ShownGrows ==
  ASSUME NEW T, NEW ps \in Seq(T), NEW p \in T
  PROVE  /\ Append(ps, p) \in Seq(T) /\ Len(Append(ps, p)) = Len(ps) + 1
         /\ Len(ps) \in Nat
         /\ \A i \in 1 .. Len(ps) : Append(ps, p)[i] = ps[i]
         /\ Append(ps, p)[Len(ps) + 1] = p
         /\ Shown(Append(ps, p)) = Shown(ps) \cup p
<1>1. /\ Append(ps, p) \in Seq(T) /\ Len(Append(ps, p)) = Len(ps) + 1
      /\ \A i \in 1 .. Len(ps) : Append(ps, p)[i] = ps[i]
      /\ Append(ps, p)[Len(ps) + 1] = p
  BY AppendProperties
<1>2. Len(ps) \in Nat BY LenProperties
<1> DEFINE qs == Append(ps, p)
<1>3. /\ Len(qs) = Len(ps) + 1 /\ qs[Len(ps) + 1] = p
      /\ \A i \in 1 .. Len(ps) : qs[i] = ps[i]
  BY <1>1
<1> HIDE DEF qs
<1>4. \A x : x \in Shown(qs) <=> x \in Shown(ps) \cup p
  <2>1. SUFFICES ASSUME NEW x PROVE x \in Shown(qs) <=> x \in Shown(ps) \cup p OBVIOUS
  <2>2. x \in Shown(qs) <=> \E i \in 1 .. Len(qs) : x \in qs[i] BY DEF Shown
  <2>3. x \in Shown(ps) <=> \E i \in 1 .. Len(ps) : x \in ps[i] BY DEF Shown
  <2>4. 1 .. Len(qs) = 1 .. Len(ps) \cup {Len(ps) + 1} BY <1>2, <1>3
  <2> QED BY <1>3, <2>2, <2>3, <2>4
<1>5. Shown(qs) = Shown(ps) \cup p BY <1>4
<1> QED BY <1>1, <1>2, <1>5 DEF qs

LEMMA PagesStart == ASSUME PagesAssumption PROVE Listing!Init => PagesInv
<1>1. SUFFICES ASSUME Listing!Init PROVE PagesInv OBVIOUS
<1>2. /\ kind \in Kinds /\ listed = {} /\ left = {} /\ listStep = "new"
      /\ cursor = Listing!None /\ pages = <<>> /\ steady = {}
  BY <1>1 DEF Listing!Init
<1>3. Len(pages) = 0 /\ pages \in Seq(SUBSET (1 .. MaxRows)) BY <1>2
<1>4. RowsFit(kind, listed) BY <1>2, FS_EmptySet DEF RowsFit
<1>5. \A i \in 1 .. Len(pages) : FALSE BY <1>3
<1>6. Listing!OnOnePage BY <1>5 DEF Listing!OnOnePage
<1>7. steady \subseteq Listing!Ids(listed) /\ left \subseteq 1 .. MaxRows BY <1>2
<1>8. WalkFits(kind, cursor, listed, pages, steady) BY <1>2 DEF WalkFits
<1> QED BY <1>2, <1>3, <1>4, <1>5, <1>6, <1>7, <1>8 DEF PagesInv

\* What an addition leaves as it was.
LEMMA PagesStayUnder ==
  ASSUME PagesAssumption, PagesInv, NEW r \in Listing!Row, listed' = listed \cup {r},
         UNCHANGED <<kind, left, listStep, cursor, pages, steady>>,
         RowsFit(kind, listed'),
         listStep # "done" => \/ r.id \notin Shown(pages) /\ r.id \notin steady
                              \/ \E q \in listed :
                                   /\ q.id = r.id
                                   /\ PastOf(kind, cursor, q) <=> PastOf(kind, cursor, r)
  PROVE  PagesInv'
<1>1. Listing!Ids(listed) \subseteq Listing!Ids(listed') BY DEF Listing!Ids
<1>2. steady \subseteq Listing!Ids(listed') BY <1>1 DEF PagesInv
<1>3. \A i \in 1 .. Len(pages) : /\ Cardinality(pages[i]) <= PageSize
                                 /\ pages[i] \subseteq Listing!Ids(listed') \cup left
  BY <1>1 DEF PagesInv
<1>4. Listing!OnOnePage' BY DEF PagesInv, Listing!OnOnePage
<1>5. listStep # "done" => WalkFits(kind, cursor, listed', pages, steady)
  BY DEF PagesInv, WalkFits
<1>6. (Listing!Ids(listed))' = Listing!Ids(listed') BY DEF Listing!Ids
<1> QED BY <1>2, <1>3, <1>4, <1>5, <1>6 DEF PagesInv

\* A new row is on no page, and its key follows those before it.
LEMMA AddKeeps ==
  ASSUME PagesAssumption, PagesInv, NEW i \in 1 .. MaxRows, NEW k \in SortKeys, Listing!Add(i, k)
  PROVE  PagesInv'
<1> DEFINE r == [id |-> i, part |-> 1, key |-> k]
<1>1. /\ i \notin Listing!Ids(listed) \cup left /\ Listing!MayBe(r)
      /\ listed' = listed \cup {r}
      /\ UNCHANGED <<kind, left, listStep, cursor, pages, steady>>
  BY DEF Listing!Add
<1>2. r \in Listing!Row BY DEF Listing!Row
<1>3. \A q \in listed : q.id # i /\ q \in Listing!Row
  BY <1>1 DEF Listing!Ids, PagesInv, RowsFit
<1>4. /\ kind = "contracts" => \A q \in listed : q.id < i /\ q.key <= k
      /\ kind \in {"expiries", "jobs"} => \A q \in listed : q.key # k
  <2>1. \A q \in listed : q.id \in Listing!Ids(listed) /\ q.id \in Nat /\ q.key \in Nat
    BY <1>3, RowColumns DEF Listing!Ids
  <2>2. CASE kind = "contracts"
    BY <1>1, <2>1, <2>2 DEF Listing!MayBe, PagesAssumption
  <2>3. CASE kind = "expiries" BY <1>1, <2>3 DEF Listing!MayBe
  <2>4. CASE kind = "jobs" BY <1>1, <2>1, <2>4 DEF Listing!MayBe, PagesAssumption
  <2> QED BY <2>2, <2>3, <2>4
<1>5. RowsFit(kind, listed')
  <2>1. IsFiniteSet(listed') BY <1>1, FS_AddElement DEF PagesInv, RowsFit
  <2>2. listed' \subseteq Listing!Row BY <1>1, <1>2, <1>3
  <2>3. \A p, q \in listed' : p.id = q.id => p.key = q.key /\ (kind # "contracts" => p = q)
    BY <1>1, <1>3 DEF PagesInv, RowsFit
  <2>4. kind = "contracts" => \A p, q \in listed' : p.id < q.id => p.key <= q.key
    <3>1. i \in Nat /\ k \in Nat /\ \A q \in listed : q.id \in Nat /\ q.key \in Nat
      BY <1>3, RowColumns DEF PagesAssumption
    <3> QED BY <1>1, <1>4, <3>1 DEF PagesInv, RowsFit
  <2>5. kind \in {"expiries", "jobs"} => \A p, q \in listed' : p.key = q.key => p = q
    BY <1>1, <1>4 DEF PagesInv, RowsFit
  <2> QED BY <2>1, <2>2, <2>3, <2>4, <2>5 DEF RowsFit
<1>6. r.id \notin Shown(pages) /\ r.id \notin steady BY <1>1 DEF PagesInv, Shown
<1> HIDE DEF r
<1> QED BY <1>1, <1>2, <1>5, <1>6, PagesStayUnder

\* One more part of a contract stands where the contract stands.
LEMMA AddPartKeeps ==
  ASSUME PagesAssumption, PagesInv, NEW q \in listed, Listing!AddPart(q)
  PROVE  PagesInv'
<1> DEFINE r == [q EXCEPT !.part = 2]
<1>1. /\ kind = "contracts" /\ listed' = listed \cup {r}
      /\ UNCHANGED <<kind, left, listStep, cursor, pages, steady>>
  BY DEF Listing!AddPart
<1>2. q \in Listing!Row BY DEF PagesInv, RowsFit
<1>3. r \in Listing!Row /\ r.id = q.id /\ r.key = q.key BY <1>2 DEF Listing!Row
<1>4. PastOf(kind, cursor, q) <=> PastOf(kind, cursor, r) BY <1>3 DEF PastOf
<1> HIDE DEF r
<1>5. RowsFit(kind, listed')
  <2>1. IsFiniteSet(listed') BY <1>1, FS_AddElement DEF PagesInv, RowsFit
  <2>2. listed' \subseteq Listing!Row BY <1>1, <1>3 DEF PagesInv, RowsFit
  <2>3. \A p, s \in listed' : p.id = s.id => p.key = s.key /\ (kind # "contracts" => p = s)
    BY <1>1, <1>3 DEF PagesInv, RowsFit
  <2>4. \A p, s \in listed' : p.id < s.id => p.key <= s.key
    <3>1. q.key \in Nat BY <1>2, RowColumns
    <3> QED BY <1>1, <1>3, <3>1 DEF PagesInv, RowsFit
  <2> QED BY <1>1, <2>1, <2>2, <2>3, <2>4 DEF RowsFit
<1> QED BY <1>1, <1>3, <1>4, <1>5, PagesStayUnder

\* A row that leaves is no longer expected, and its number is not given again.
LEMMA LeaveKeeps ==
  ASSUME PagesAssumption, PagesInv, NEW i \in 1 .. MaxRows, Listing!LeaveFilter(i)
  PROVE  PagesInv'
<1>1. /\ listed' = {r \in listed : r.id # i} /\ left' = left \cup {i} /\ steady' = steady \ {i}
      /\ UNCHANGED <<kind, listStep, cursor, pages>>
  BY DEF Listing!LeaveFilter
<1>2. Listing!Ids(listed') = Listing!Ids(listed) \ {i} BY <1>1 DEF Listing!Ids
<1>3. RowsFit(kind, listed')
  <2>1. listed' \subseteq listed BY <1>1
  <2>2. IsFiniteSet(listed') BY <2>1, FS_Subset DEF PagesInv, RowsFit
  <2> QED BY <2>1, <2>2 DEF PagesInv, RowsFit
<1>4. steady' \subseteq Listing!Ids(listed') BY <1>1, <1>2 DEF PagesInv
<1>5. \A j \in 1 .. Len(pages) : /\ Cardinality(pages[j]) <= PageSize
                                 /\ pages[j] \subseteq Listing!Ids(listed') \cup left'
  BY <1>1, <1>2 DEF PagesInv
<1>6. Listing!OnOnePage' BY <1>1 DEF PagesInv, Listing!OnOnePage
<1>7. listStep # "done" => WalkFits(kind, cursor, listed', pages, steady')
  BY <1>1 DEF PagesInv, WalkFits
<1>8. listStep = "done" => steady' \subseteq Shown(pages) BY <1>1 DEF PagesInv
<1>9. left' \subseteq 1 .. MaxRows BY <1>1 DEF PagesInv
<1>10. (Listing!Ids(listed))' = Listing!Ids(listed') BY DEF Listing!Ids
<1> QED BY <1>1, <1>3, <1>4, <1>5, <1>6, <1>7, <1>8, <1>9, <1>10 DEF PagesInv

\* A page shows what no page has shown, and leaves behind the cursor only what was shown.
LEMMA ReadKeeps ==
  ASSUME PagesAssumption, PagesInv, Listing!ReadPage
  PROVE  PagesInv'
<1> DEFINE p == Listing!Ids(Listing!Items)
<1>1. /\ listStep # "done" /\ pages' = Append(pages, p) /\ cursor' = Listing!NextCursor
      /\ listStep' = (IF Listing!HasMore THEN "reading" ELSE "done")
      /\ steady' = (IF listStep = "new" THEN Listing!Ids(listed) ELSE steady)
      /\ UNCHANGED <<kind, listed, left>>
  BY DEF Listing!ReadPage
<1>2. /\ Listing!Items \subseteq Ahead /\ p \subseteq 1 .. MaxRows /\ Cardinality(p) <= PageSize
      /\ ~Listing!HasMore => Listing!Items = Ahead
  BY PageFits
<1>3. WalkFits(kind, cursor, listed, pages, steady) /\ pages \in Seq(SUBSET (1 .. MaxRows))
  BY <1>1 DEF PagesInv
<1>4. \A r : r \in Ahead <=> r \in listed /\ PastOf(kind, cursor, r) BY PastIsPast DEF Ahead
<1>5. p \subseteq Listing!Ids(listed) BY <1>2, <1>4 DEF Listing!Ids
<1>6. p \cap Shown(pages) = {} BY <1>2, <1>3, <1>4 DEF Listing!Ids, WalkFits
<1>7. \A r \in Listing!Items : r.id \in p BY DEF Listing!Ids
<1>8. \A x \in p : \E r \in Listing!Items : r.id = x BY DEF Listing!Ids
<1>9. steady' \subseteq Listing!Ids(listed) BY <1>1 DEF PagesInv
<1>10. \A r \in listed : r.id \in steady' /\ ~PastOf(kind, cursor, r) => r.id \in Shown(pages)
  <2>1. CASE listStep = "new"
    <3>1. cursor = Listing!None BY <2>1 DEF PagesInv
    <3> QED BY <3>1 DEF PastOf
  <2>2. CASE listStep # "new" BY <1>1, <1>3, <2>2 DEF WalkFits
  <2> QED BY <2>1, <2>2
<1> HIDE DEF p
<1>11. /\ pages' \in Seq(SUBSET (1 .. MaxRows)) /\ Len(pages') = Len(pages) + 1
       /\ Len(pages) \in Nat
       /\ \A i \in 1 .. Len(pages) : pages'[i] = pages[i]
       /\ pages'[Len(pages) + 1] = p /\ Shown(pages') = Shown(pages) \cup p
  <2> DEFINE T == SUBSET (1 .. MaxRows)
  <2>1. pages \in Seq(T) /\ p \in T BY <1>2, <1>3
  <2> HIDE DEF T
  <2>2. /\ Append(pages, p) \in Seq(T) /\ Len(Append(pages, p)) = Len(pages) + 1
        /\ Len(pages) \in Nat
        /\ \A i \in 1 .. Len(pages) : Append(pages, p)[i] = pages[i]
        /\ Append(pages, p)[Len(pages) + 1] = p
        /\ Shown(Append(pages, p)) = Shown(pages) \cup p
    BY <2>1, ShownGrows
  <2>3. pages' = Append(pages, p) BY <1>1
  <2> QED BY <2>2, <2>3 DEF T
<1>12. \A i \in 1 .. Len(pages') : /\ Cardinality(pages'[i]) <= PageSize
                                   /\ pages'[i] \subseteq Listing!Ids(listed) \cup left
  <2>1. SUFFICES ASSUME NEW i \in 1 .. Len(pages')
                 PROVE  /\ Cardinality(pages'[i]) <= PageSize
                        /\ pages'[i] \subseteq Listing!Ids(listed) \cup left
    OBVIOUS
  <2>2. CASE i \in 1 .. Len(pages) BY <1>11, <2>2 DEF PagesInv
  <2>3. CASE i = Len(pages) + 1 BY <1>2, <1>5, <1>11, <2>3
  <2> QED BY <1>11, <2>1, <2>2, <2>3
<1>13. Listing!OnOnePage'
  <2>1. SUFFICES ASSUME NEW i \in 1 .. Len(pages'), NEW j \in 1 .. Len(pages'), i # j
                 PROVE  pages'[i] \cap pages'[j] = {}
    BY DEF Listing!OnOnePage
  <2>2. \A h \in 1 .. Len(pages) : pages[h] \subseteq Shown(pages) BY DEF Shown
  <2>3. CASE i \in 1 .. Len(pages) /\ j \in 1 .. Len(pages)
    BY <1>11, <2>1, <2>3 DEF PagesInv, Listing!OnOnePage
  <2>4. CASE i = Len(pages) + 1 /\ j \in 1 .. Len(pages) BY <1>6, <1>11, <2>2, <2>4
  <2>5. CASE j = Len(pages) + 1 /\ i \in 1 .. Len(pages) BY <1>6, <1>11, <2>2, <2>5
  <2> QED BY <1>11, <2>1, <2>3, <2>4, <2>5
<1>14. cursor' \in Listing!Row \cup {Listing!None}
  <2>1. CASE Listing!HasMore BY <1>1, <2>1, PageEnds
  <2>2. CASE ~Listing!HasMore BY <1>1, <2>2 DEF Listing!NextCursor
  <2> QED BY <2>1, <2>2
<1>15. listStep' = "done" => steady' \subseteq Shown(pages')
  <2>1. SUFFICES ASSUME listStep' = "done", NEW x \in steady' PROVE x \in Shown(pages') OBVIOUS
  <2>2. Listing!Items = Ahead BY <1>1, <1>2, <2>1
  <2>3. PICK r \in listed : r.id = x BY <1>9, <2>1 DEF Listing!Ids
  <2>4. CASE PastOf(kind, cursor, r) BY <1>4, <1>7, <1>11, <2>2, <2>3, <2>4
  <2>5. CASE ~PastOf(kind, cursor, r) BY <1>10, <1>11, <2>1, <2>3, <2>5
  <2> QED BY <2>4, <2>5
<1>16. listStep' # "done" => WalkFits(kind, cursor', listed, pages', steady')
  <2>1. SUFFICES ASSUME Listing!HasMore PROVE WalkFits(kind, cursor', listed, pages', steady')
    BY <1>1
  <2>2. /\ cursor' \in Ahead /\ cursor' \in listed /\ cursor' \in Listing!Row
        /\ \A r \in Ahead : r \in Listing!Items <=> r = cursor' \/ Listing!Before(r, cursor')
    BY <1>1, <2>1, PageEnds
  <2>3. PastOf(kind, cursor, cursor') BY <1>4, <2>2
  <2>4. kind \in Kinds /\ cursor \in Listing!Row \cup {Listing!None} BY DEF PagesInv
  <2>5. \A r \in listed : r \in Listing!Row BY DEF PagesInv, RowsFit
  <2>6. \A r \in listed : ~PastOf(kind, cursor, r) => ~PastOf(kind, cursor', r)
    BY <2>2, <2>3, <2>4, <2>5, CursorMovesOn
  <2>7. \A r \in Listing!Items : ~PastOf(kind, cursor', r)
    BY <1>2, <1>4, <2>2, CutFits
  <2>8. ASSUME NEW r \in listed, r.id \in Shown(pages') PROVE ~PastOf(kind, cursor', r)
    <3>1. CASE r.id \in Shown(pages) BY <1>3, <2>6, <3>1 DEF WalkFits
    <3>2. CASE r.id \in p
      <4>1. PICK q \in Listing!Items : q.id = r.id BY <1>8, <3>2
      <4>2. q \in listed BY <1>2, <1>4
      <4>3. q.key = r.key BY <4>1, <4>2 DEF PagesInv, RowsFit
      <4>4. PastOf(kind, cursor', q) <=> PastOf(kind, cursor', r) BY <4>1, <4>3 DEF PastOf
      <4> QED BY <2>7, <4>4
    <3> QED BY <1>11, <2>8, <3>1, <3>2
  <2>9. ASSUME NEW r \in listed, r.id \in steady', ~PastOf(kind, cursor', r)
        PROVE  r.id \in Shown(pages')
    <3>1. CASE ~PastOf(kind, cursor, r) BY <1>10, <1>11, <2>9, <3>1
    <3>2. CASE PastOf(kind, cursor, r)
      <4>1. r \in Ahead BY <1>4, <3>2
      <4>2. CASE r \in Listing!Items BY <1>7, <1>11, <4>2
      <4>3. CASE r \notin Listing!Items
        <5>1. Listing!Before(cursor', r) BY <2>2, <4>1, <4>3, RowsOrdered
        <5>2. r.id = cursor'.id BY <2>2, <2>9, <5>1, CutFits
        <5>3. cursor' \in Listing!Items BY <2>2
        <5> QED BY <1>7, <1>11, <5>2, <5>3
      <4> QED BY <4>2, <4>3
    <3> QED BY <3>1, <3>2
  <2> QED BY <2>8, <2>9 DEF WalkFits
<1>17. listStep' \in {"reading", "done"} BY <1>1
<1>18. (Listing!Ids(listed))' = Listing!Ids(listed) BY <1>1 DEF Listing!Ids
<1> QED BY <1>1, <1>9, <1>11, <1>12, <1>13, <1>14, <1>15, <1>16, <1>17, <1>18 DEF PagesInv

LEMMA PagesStep ==
  ASSUME PagesAssumption, PagesInv, [Listing!Next]_(Listing!vars) PROVE PagesInv'
<1>1. ASSUME NEW i \in 1 .. MaxRows, NEW k \in SortKeys, Listing!Add(i, k) PROVE PagesInv'
  BY <1>1, AddKeeps
<1>2. ASSUME NEW q \in listed, Listing!AddPart(q) PROVE PagesInv' BY <1>2, AddPartKeeps
<1>3. ASSUME NEW i \in 1 .. MaxRows, Listing!LeaveFilter(i) PROVE PagesInv'
  BY <1>3, LeaveKeeps
<1>4. CASE Listing!ReadPage BY <1>4, ReadKeeps
<1>5. CASE UNCHANGED Listing!vars
  BY <1>5 DEF Listing!vars, PagesInv, Listing!OnOnePage, Listing!Ids
<1> QED BY <1>1, <1>2, <1>3, <1>4, <1>5 DEF Listing!Next

\* A walk through a listing shows every row that was there from its first page to its last,
\* and no row twice, whatever is added and leaves in between (db/queries/catalog.py,
\* pipeline/jobs.py), as long as the numbers of contracts ascend with their sort column.
THEOREM PagesSoundAlways == ASSUME PagesAssumption PROVE Listing!Spec => []PagesSound
<1>1. Listing!Init => PagesInv BY PagesStart
<1>2. PagesInv /\ [Listing!Next]_(Listing!vars) => PagesInv' BY PagesStep
<1>3. PagesInv => PagesSound
  <2>1. SUFFICES ASSUME PagesInv PROVE PagesSound OBVIOUS
  <2>2. \A i \in 1 .. Len(pages) : Listing!Cardinality(pages[i]) <= PageSize
    BY <2>1, ListingCardinality DEF PagesInv
  <2>3. steady \subseteq 1 .. MaxRows
    BY <2>1, RowColumns DEF PagesInv, RowsFit, Listing!Ids
  <2>4. Listing!TypeOK BY <2>1, <2>2, <2>3 DEF PagesInv, RowsFit, Listing!TypeOK
  <2>5. Listing!NothingSkipped BY <2>1 DEF PagesInv, Shown, Listing!NothingSkipped
  <2> QED BY <2>1, <2>4, <2>5 DEF PagesInv, PagesSound
<1> QED BY <1>1, <1>2, <1>3, PTL DEF Listing!Spec

=============================================================================
