------------------------------- MODULE Access -------------------------------
(***************************************************************************)
(* The local account (api/v1/auth.py, security/sessions.py,                *)
(* security/passwords.py): one row with a passcode and a count of failures, *)
(* sessions with a window that slides and one that does not, and requests  *)
(* of several browsers whose database calls run in threads one at a time.  *)
(* A passcode is the number of the change that set it.                     *)
(***************************************************************************)
EXTENDS Naturals, FiniteSets

CONSTANTS
  Browsers,
  IdleTimeout, AbsoluteTimeout, LastSeenInterval,
  LockoutThreshold, LockoutDuration,
  MaxTime, MaxSessions, MaxChanges       \* bounds

VARIABLES
  now,
  user,         \* the row of app_user, and how many were ever inserted
  session,      \* the rows of session, by id; used and under are history
  issued,       \* how many ids were issued
  cookie,       \* the id a browser presents, 0 for none
  request,      \* what a browser's request is doing
  chosen,       \* the passcode the last answered setup or change asked for
  overtaken,    \* that change found a login or another change under way
  failedAt      \* when the passcode was wrong, since it was last right or last found wrong
                \* while another was being verified

vars == <<now, user, session, issued, cookie, request, chosen, overtaken, failedAt>>

Ids == 1 .. MaxSessions
Passcodes == 1 .. MaxChanges + 1
NoRequest == [at |-> "none", passcode |-> 0, attempts |-> 0, right |-> FALSE]
Ats == {"none", "hashing", "verify", "issue", "proven", "stored", "revoked"}
Live(id) == id \in DOMAIN session /\ now < session[id].idle /\ now < session[id].absolute
Lower(a, b) == IF a < b THEN a ELSE b

TypeOK ==
  /\ now \in 0 .. MaxTime /\ issued \in 0 .. MaxSessions
  /\ user.rows \in 0 .. 1 /\ user.passcode \in {0} \cup Passcodes
  /\ user.attempts \in Nat /\ user.lockedUntil \in 0 .. MaxTime + LockoutDuration
  /\ user.attempts = 0 => user.lockedUntil = 0
  /\ DOMAIN session \subseteq 1 .. issued
  /\ cookie \in [Browsers -> 0 .. issued]
  /\ \A b \in Browsers : request[b].at \in Ats /\ request[b].passcode \in {0} \cup Passcodes
  /\ chosen \in {0} \cup Passcodes /\ overtaken \in BOOLEAN
  /\ failedAt \subseteq (0 .. MaxTime) \X (1 .. LockoutThreshold + Cardinality(Browsers))

Init ==
  /\ now = 0 /\ user = [rows |-> 0, passcode |-> 0, attempts |-> 0, lockedUntil |-> 0]
  /\ session = [id \in {} |-> 0] /\ issued = 0 /\ cookie = [b \in Browsers |-> 0]
  /\ request = [b \in Browsers |-> NoRequest] /\ chosen = 0 /\ overtaken = FALSE
  /\ failedAt = {}

Goes(b, from, to) == request[b].at = from /\ request' = [request EXCEPT ![b] = [@ EXCEPT !.at = to]]
Ends(b) == request' = [request EXCEPT ![b] = NoRequest]
Without(ids) == [id \in DOMAIN session \ ids |-> session[id]]

-----------------------------------------------------------------------------
(* SessionManager. *)

\* The row create writes, and the cookie that names it.
Create(b, rows, passcode) ==
  /\ issued < MaxSessions /\ issued' = issued + 1
  /\ session' = [id \in DOMAIN rows \cup {issued'} |->
                   IF id \in DOMAIN rows THEN rows[id]
                   ELSE [seen |-> now, idle |-> now + IdleTimeout,
                         absolute |-> now + AbsoluteTimeout, began |-> now, used |-> now,
                         under |-> passcode]]
  /\ cookie' = [cookie EXCEPT ![b] = issued']

\* Written back at most once in LastSeenInterval.
Slide(row) ==
  IF now - row.seen < LastSeenInterval THEN [row EXCEPT !.used = now]
  ELSE [row EXCEPT !.used = now, !.seen = now,
                   !.idle = Lower(now + IdleTimeout, row.absolute)]

\* The middleware in front of every request: an expired row is deleted, a live one slides.
Resolved(b) ==
  LET id == cookie[b] IN
  IF Live(id) THEN [session EXCEPT ![id] = Slide(@)] ELSE Without({id})
\* A request that does nothing else here.
Lookup(b) ==
  /\ cookie[b] \in DOMAIN session /\ session' = Resolved(b)
  /\ UNCHANGED <<now, user, issued, cookie, request, chosen, overtaken, failedAt>>
PruneExpired ==
  /\ \E id \in DOMAIN session : ~Live(id)
  /\ session' = Without({id \in DOMAIN session : ~Live(id)})
  /\ UNCHANGED <<now, user, issued, cookie, request, chosen, overtaken, failedAt>>
\* The scheduled logout.
RevokeEverySession ==
  /\ DOMAIN session # {} /\ session' = Without(DOMAIN session)
  /\ UNCHANGED <<now, user, issued, cookie, request, chosen, overtaken, failedAt>>
Logout(b) ==
  /\ cookie[b] # 0 /\ request[b] = NoRequest
  /\ session' = Without({cookie[b]}) /\ cookie' = [cookie EXCEPT ![b] = 0]
  /\ UNCHANGED <<now, user, issued, request, chosen, overtaken, failedAt>>

-----------------------------------------------------------------------------
(* POST /auth/setup and /auth/login. *)

\* The passcode is hashed first, whether or not there is an account.
Setup(b) ==
  /\ request[b] = NoRequest /\ request' = [request EXCEPT ![b].at = "hashing"]
  /\ session' = Resolved(b)
  /\ UNCHANGED <<now, user, issued, cookie, chosen, overtaken, failedAt>>
InsertFirstUser(b) ==
  /\ request[b].at = "hashing"
  /\ IF user.rows = 0
       THEN /\ request' = [request EXCEPT ![b].at = "issue", ![b].passcode = 1]
            /\ user' = [user EXCEPT !.rows = 1, !.passcode = 1] /\ chosen' = 1
       ELSE Ends(b) /\ UNCHANGED <<user, chosen>>
  /\ UNCHANGED <<now, session, issued, cookie, overtaken, failedAt>>

\* The row is read; while it is locked the passcode is not looked at.
ReadUser(b, right) ==
  /\ request[b] = NoRequest /\ user.rows > 0 /\ session' = Resolved(b)
  /\ now >= user.lockedUntil
  /\ request' = [request EXCEPT ![b] = [at |-> "verify", passcode |-> user.passcode,
                                        attempts |-> user.attempts, right |-> right]]
  /\ UNCHANGED <<now, user, issued, cookie, chosen, overtaken, failedAt>>

\* record_failure: the count read before the verification, plus one.
Failures(attempts) ==
  [attempts |-> attempts + 1,
   lockedUntil |-> IF attempts + 1 >= LockoutThreshold THEN now + LockoutDuration ELSE 0]
RecordFailure(b) ==
  LET failed == Failures(request[b].attempts)
      again == Cardinality({f \in failedAt : f[1] = now}) IN
  /\ request[b].at = "verify" /\ ~request[b].right /\ Ends(b)
  /\ user' = [user EXCEPT !.attempts = failed.attempts, !.lockedUntil = failed.lockedUntil]
  /\ failedAt' = IF \E c \in Browsers \ {b} : request[c].at = "verify" THEN {}
                 ELSE failedAt \cup {<<now, again + 1>>}
  /\ UNCHANGED <<now, session, issued, cookie, chosen, overtaken>>
\* The hash that was read is written back with the cleared count.
RecordSuccess(b) ==
  /\ request[b].right /\ Goes(b, "verify", "issue")
  /\ user' = [user EXCEPT !.passcode = request[b].passcode, !.attempts = 0, !.lockedUntil = 0]
  /\ failedAt' = {}
  /\ UNCHANGED <<now, session, issued, cookie, chosen, overtaken>>
\* The row the browser came with goes, a new one is written.
IssueSession(b) ==
  /\ request[b].at = "issue" /\ Ends(b)
  /\ Create(b, Without({cookie[b]}), request[b].passcode)
  /\ UNCHANGED <<now, user, chosen, overtaken, failedAt>>

-----------------------------------------------------------------------------
(* POST /auth/password. *)

Unsettled == {c \in Browsers : request[c].at \in {"verify", "issue", "stored", "revoked"}}
\* The session and the current passcode are checked ...
VerifyCurrent(b) ==
  /\ request[b] = NoRequest /\ Live(cookie[b]) /\ session' = Resolved(b)
  /\ request' = [request EXCEPT ![b].at = "proven"]
  /\ UNCHANGED <<now, user, issued, cookie, chosen, overtaken, failedAt>>
\* ... the new one is stored ...
StorePasscode(b) ==
  /\ request[b].at = "proven" /\ chosen <= MaxChanges
  /\ user' = [user EXCEPT !.passcode = chosen + 1, !.attempts = 0, !.lockedUntil = 0]
  /\ request' = [request EXCEPT ![b].at = "stored", ![b].passcode = chosen + 1]
  /\ chosen' = chosen + 1 /\ overtaken' = (Unsettled # {}) /\ failedAt' = {}
  /\ UNCHANGED <<now, session, issued, cookie>>
RevokeOthers(b) ==       \* mutant: the rows of other browsers stay
  /\ Goes(b, "stored", "revoked") /\ session' = Without({cookie[b]})
  /\ UNCHANGED <<now, user, issued, cookie, chosen, overtaken, failedAt>>
\* ... every session dropped ...
RevokeAll(b) ==
  /\ Goes(b, "stored", "revoked") /\ session' = Without(DOMAIN session)
  /\ UNCHANGED <<now, user, issued, cookie, chosen, overtaken, failedAt>>
\* ... and this browser given a new one.
Reissue(b) ==
  /\ request[b].at = "revoked" /\ Ends(b) /\ Create(b, session, request[b].passcode)
  /\ UNCHANGED <<now, user, chosen, overtaken, failedAt>>

-----------------------------------------------------------------------------
Tick == /\ now < MaxTime /\ now' = now + 1
        /\ UNCHANGED <<user, session, issued, cookie, request, chosen, overtaken, failedAt>>

Next ==
  \/ \E b \in Browsers :
       \/ Lookup(b) \/ Logout(b) \/ Setup(b) \/ InsertFirstUser(b)
       \/ \E right \in BOOLEAN : ReadUser(b, right)
       \/ RecordFailure(b) \/ RecordSuccess(b) \/ IssueSession(b)
       \/ VerifyCurrent(b) \/ StorePasscode(b) \/ RevokeAll(b) \/ Reissue(b)
  \/ PruneExpired \/ RevokeEverySession \/ Tick

Spec == Init /\ [][Next]_vars

-----------------------------------------------------------------------------
(* What the account promises. *)

\* Two setups at once make one account, and unless the last change found a login or
\* another change under way, nothing brings an earlier passcode back.
OneAccountOnePasscode == user.rows <= 1 /\ (~overtaken => user.passcode = chosen)

\* "Written back only when the stored hash predates the current Argon2id parameters"
\* (api/v1/auth.py:211): a login leaves the passcode what the last change made it.  It
\* writes back the hash it read, whatever was stored since.
PasscodeIsTheLastChosen == user.passcode = chosen

\* "A 7 day absolute window that never extends": whatever slides, no row outlives it, and
\* the moment a session reports as its end is one it can reach.
AbsoluteNeverExtends ==
  \A id \in DOMAIN session :
    /\ session[id].absolute = session[id].began + AbsoluteTimeout
    /\ session[id].idle <= session[id].absolute
    /\ session[id].used < session[id].absolute

\* A browser in use is not signed out: a session lives on for the idle window after its
\* last request, less the interval in which the window is not written back.
UsedStaysAlive ==
  \A id \in DOMAIN session :
    session[id].idle > Lower(session[id].used + IdleTimeout - LastSeenInterval,
                             session[id].absolute - 1)

\* Between two right ones, no stretch as long as a lockout sees more wrong passcodes than
\* the threshold, however the first failure after a lockout counts; two verified at once
\* start the count anew, since both count on from what they read.
WrongPerWindow ==
  \A t \in 0 .. MaxTime :
    Cardinality({f \in failedAt : f[1] >= t /\ f[1] < t + LockoutDuration}) <= LockoutThreshold

\* "Drop every session for the user": once a change that found no login and no other
\* change under way is answered, every session was issued for the passcode it set.
SessionsAreOfThePasscode ==
  ~overtaken /\ (\A b \in Browsers : request[b].at \notin {"stored", "revoked"}) =>
    \A id \in DOMAIN session : session[id].under = user.passcode

\* The five, with the types.
AccountSound ==
  /\ TypeOK /\ OneAccountOnePasscode /\ AbsoluteNeverExtends /\ UsedStaysAlive
  /\ WrongPerWindow /\ SessionsAreOfThePasscode
=============================================================================
