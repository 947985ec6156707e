------------------------------ MODULE BrokerLogin ------------------------------
(***************************************************************************)
(* Connecting the broker account (api/v1/broker.py, brokers/fyers/auth.py): *)
(* a state is minted for one session, the user is away at the broker, and  *)
(* the callback uses the state, exchanges the code and stores the token,   *)
(* while the registration may be replaced at any point in between.         *)
(* The registration keeps its row: a replacement is a new app in it.       *)
(***************************************************************************)
EXTENDS Naturals, FiniteSets

CONSTANTS
  Sessions,
  MaxStates, MaxApps        \* bounds

NoApp == 0
States == 1 .. MaxStates

VARIABLES
  app,         \* the app of the registration, NoApp before the first
  saving,      \* where POST /credentials stands
  connecting,  \* by session: the app a connect has read, or NoApp
  state,       \* the rows of oauth_state, by number
  minted,      \* how many there were
  callback,    \* by state: where the callback that used it stands
  codeFor,     \* by state: the app in its authorize URL, which the code is for
  presented,   \* by state: the app its code was exchanged as
  exchanges,   \* by state: how many exchanges it was good for
  crossed,     \* the states whose callback was being exchanged when the app was replaced
  token        \* the app the stored token was issued to

vars == <<app, saving, connecting, state, minted, codeFor, callback, presented, exchanges,
          crossed, token>>
loginVars == <<callback, presented, exchanges>>

TypeOK ==
  /\ app \in NoApp .. MaxApps /\ token \in NoApp .. MaxApps
  /\ saving \in {"no", "written", "cleared"} /\ connecting \in [Sessions -> NoApp .. MaxApps]
  /\ minted \in 0 .. MaxStates /\ DOMAIN state \subseteq 1 .. minted
  /\ \A s \in DOMAIN state :
       state[s].owner \in Sessions /\ state[s].fresh \in BOOLEAN
       /\ state[s].used = (callback[s] # "none")
  /\ \A s \in States : codeFor[s] \in NoApp .. app /\ (codeFor[s] = NoApp <=> s > minted)
  /\ callback \in [States -> {"none", "consumed", "exchanging", "exchanged", "over"}]
  /\ presented \in [States -> NoApp .. MaxApps]
  /\ crossed \subseteq States
  /\ \A s \in States : exchanges[s] \in 0 .. 2 /\ (callback[s] = "none" => exchanges[s] = 0)

Init ==
  /\ app = NoApp /\ saving = "no" /\ connecting = [c \in Sessions |-> NoApp]
  /\ state = [s \in {} |-> 0] /\ minted = 0 /\ token = NoApp
  /\ callback = [s \in States |-> "none"] /\ codeFor = [s \in States |-> NoApp]
  /\ presented = [s \in States |-> NoApp]
  /\ exchanges = [s \in States |-> 0] /\ crossed = {}

-----------------------------------------------------------------------------
(* POST /credentials: the row, then TokenBroker.clear and reload. *)

Exchanging == {s \in States : callback[s] \in {"exchanging", "exchanged"}}
WriteCredential ==
  /\ saving = "no" /\ app < MaxApps
  /\ app' = app + 1 /\ saving' = "written" /\ crossed' = crossed \cup Exchanging
  /\ UNCHANGED <<connecting, state, minted, codeFor, loginVars, token>>
ClearKeepingToken ==       \* mutant: the token of the old app stays
  /\ saving = "written" /\ saving' = "cleared"
  /\ UNCHANGED <<app, connecting, state, minted, codeFor, loginVars, crossed, token>>
ClearToken ==
  /\ saving = "written" /\ saving' = "cleared" /\ token' = NoApp
  /\ UNCHANGED <<app, connecting, state, minted, codeFor, loginVars, crossed>>
Reload ==
  /\ saving = "cleared" /\ saving' = "no"
  /\ UNCHANGED <<app, connecting, state, minted, codeFor, loginVars, crossed, token>>
\* The disconnect button and the scheduled logout.
ClearAtWill ==
  /\ token # NoApp /\ token' = NoApp
  /\ UNCHANGED <<app, saving, connecting, state, minted, codeFor, loginVars, crossed>>

-----------------------------------------------------------------------------
(* POST /connect. *)

\* The credentials are read ...
ReadCredentials(c) ==
  /\ app # NoApp /\ connecting[c] = NoApp /\ minted < MaxStates
  /\ connecting' = [connecting EXCEPT ![c] = app]
  /\ UNCHANGED <<app, saving, state, minted, codeFor, loginVars, crossed, token>>
Dead(s) == state[s].used \/ ~state[s].fresh
Kept(c) == {s \in DOMAIN state : ~Dead(s)}
\* ... what is used or expired is dropped, and the new state stored.
StoreState(c) ==
  /\ connecting[c] # NoApp /\ minted < MaxStates /\ minted' = minted + 1
  /\ state' = [s \in Kept(c) \cup {minted'} |->
                 IF s = minted' THEN [owner |-> c, fresh |-> TRUE, used |-> FALSE]
                 ELSE state[s]]
  /\ codeFor' = [codeFor EXCEPT ![minted'] = connecting[c]]
  /\ connecting' = [connecting EXCEPT ![c] = NoApp]
  /\ UNCHANGED <<app, saving, loginVars, crossed, token>>
StateExpires(s) ==
  /\ s \in DOMAIN state /\ state[s].fresh /\ state' = [state EXCEPT ![s].fresh = FALSE]
  /\ UNCHANGED <<app, saving, connecting, minted, codeFor, loginVars, crossed, token>>

-----------------------------------------------------------------------------
(* The callback, from the redirect or pasted by hand: complete_oauth_login. *)

\* _consume_state, one transaction; any other callback is refused and changes nothing.
Consume(s) ==
  /\ s \in DOMAIN state /\ ~Dead(s) /\ callback[s] \in {"none", "over"}
  /\ state' = [state EXCEPT ![s].used = TRUE]
  /\ callback' = [callback EXCEPT ![s] = "consumed"]
  /\ UNCHANGED <<app, saving, connecting, minted, codeFor, presented, exchanges, crossed, token>>
\* The credentials are read again: the row's id is the state's, whatever its app is now.
\* A callback without a code ends here.
Proceed(s) ==
  /\ callback[s] = "consumed"
  /\ \/ /\ callback' = [callback EXCEPT ![s] = "exchanging"]
        /\ presented' = [presented EXCEPT ![s] = app]
        /\ exchanges' = [exchanges EXCEPT ![s] = @ + 1]
     \/ callback' = [callback EXCEPT ![s] = "over"] /\ UNCHANGED <<presented, exchanges>>
  /\ UNCHANGED <<app, saving, connecting, state, minted, codeFor, crossed, token>>
\* The broker takes a code only for the app it was issued to, and may refuse it.
Exchange(s) ==
  /\ callback[s] = "exchanging"
  /\ \/ presented[s] = codeFor[s]
        /\ callback' = [callback EXCEPT ![s] = "exchanged"]
     \/ callback' = [callback EXCEPT ![s] = "over"]
  /\ UNCHANGED <<app, saving, connecting, state, minted, codeFor, presented, exchanges, crossed, token>>
StoreLogin(s) ==
  /\ callback[s] = "exchanged" /\ callback' = [callback EXCEPT ![s] = "over"]
  /\ token' = presented[s]
  /\ UNCHANGED <<app, saving, connecting, state, minted, codeFor, presented, exchanges, crossed>>
Callback(s) == Consume(s) \/ Proceed(s) \/ Exchange(s) \/ StoreLogin(s)

Next ==
  \/ WriteCredential \/ ClearToken \/ Reload \/ ClearAtWill
  \/ \E c \in Sessions : ReadCredentials(c) \/ StoreState(c)
  \/ \E s \in States : StateExpires(s) \/ Callback(s)

Spec == Init /\ [][Next]_vars

-----------------------------------------------------------------------------
(* What a connection promises. *)

\* Once a save is over, the stored token is of the app in the registration, or there is
\* none, or it was stored by a login that was being exchanged when the app was replaced.
TokenFitsCredential ==
  saving = "no" =>
    token \in {NoApp, app} \cup {presented[s] : s \in {t \in crossed : callback[t] = "over"}}

\* "Saving credentials revokes any existing token, because a token issued to the previous
\* app id cannot be used with the new one" (api/v1/broker.py:482): with no exception.  A
\* callback that has sent its code stores what it is answered after the save.
SavingRevokesToken == saving = "no" => token \in {NoApp, app}

\* "Two callbacks arriving with the same state can never both succeed": a state is good
\* for one exchange, and for none once it expired unused.
StateUsedOnce == \A s \in States : exchanges[s] <= 1

\* Both, with the types.
LoginSound == TypeOK /\ TokenFitsCredential /\ StateUsedOnce

\* complete_oauth_login: "The credentials were replaced while the user was away at the
\* Fyers login page.  The auth code belongs to the old app id": such a callback is refused
\* before it is exchanged.  The registration keeps its id when it is replaced, which is all
\* that is compared.
ReplacedIsRefused ==
  \A s \in States : callback[s] = "exchanging" => presented[s] = codeFor[s]
=============================================================================
