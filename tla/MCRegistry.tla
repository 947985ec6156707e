----------------------------- MODULE MCRegistry -----------------------------
(* Small instances of what is kept and read back.  The components share no state: one *)
(* of them moves in a behaviour, the others keep their initial state.                 *)
EXTENDS Registry, TLC
CONSTANTS CM, FO, e1, o1, o2, o3, lot1, lot2
VARIABLE part

\* The contents of the cash file; and of the derivatives: all of them, one of another lot
\* size, one that has expired, a file cut short and an empty one.
MCContents ==
  CM :> {e1 :> lot1}
  @@ FO :> {o1 :> lot1 @@ o2 :> lot1 @@ o3 :> lot1, o1 :> lot2 @@ o2 :> lot1,
            o2 :> lot1, <<>>}
MCOrder == <<CM, FO>>
MCSlice == CM :> {e1} @@ FO :> {o1, o2, o3}
MCUnder == o1 :> e1 @@ o2 :> e1 @@ o3 :> e1

masterVars == <<today, published, versions, snapshots, roots, download, target, snapshotRun, faults>>
brokerVars == <<app, saving, connecting, state, minted, codeFor, callback, presented, exchanges, crossed, token>>
keyVars == <<material, made, row, up, provider, active, loaded, field, writing, op, kills, cut, late>>
settingVars == <<table, cache, refused, pending, together, raced, writes, restarts>>
accountVars == <<now, user, session, issued, cookie, request, chosen, overtaken, failedAt>>
listingVars == <<kind, listed, left, listStep, cursor, pages, steady>>
chartVars == <<chartBars, chartWrites, chartRequest, answer, screen, onChart>>

\* No step of the account tells one browser from another.
BrowsersAlike == Permutations(Browsers)

Parts == {"catalogue", "master", "broker", "keys", "settings", "account",
          "listing", "chart"}
RegistryInit ==
  /\ part \in Parts
  /\ part # "master" => published = CM :> (e1 :> lot1) @@ FO :> <<>>
  /\ Init /\ Account!Init /\ Master!Init /\ Broker!Init /\ Keyring!Init /\ Configured!Init
  /\ Listing!Init /\ Chart!Init
  /\ part # "catalogue" => mirror = {}
  /\ part # "listing" => kind = "tasks"
  /\ part # "chart" => chartBars = {}
Only(p) ==
  /\ part = p /\ part' = part
  /\ p # "catalogue" => UNCHANGED vars
  /\ p # "master" => UNCHANGED masterVars
  /\ p # "broker" => UNCHANGED brokerVars
  /\ p # "keys" => UNCHANGED keyVars
  /\ p # "settings" => UNCHANGED settingVars
  /\ p # "account" => UNCHANGED accountVars
  /\ p # "listing" => UNCHANGED listingVars
  /\ p # "chart" => UNCHANGED chartVars
RegistryNext ==
  \/ Only("catalogue") /\ Next
  \/ Only("master") /\ Master!Next
  \/ Only("broker") /\ Broker!Next
  \/ Only("keys") /\ Keyring!Next
  \/ Only("settings") /\ Configured!Next
  \/ Only("account") /\ Account!Next
  \/ Only("listing") /\ Listing!Next
  \/ Only("chart") /\ Chart!Next
allVars == <<part, vars, accountVars, masterVars, brokerVars, keyVars, settingVars,
             listingVars, chartVars>>
RegistrySpec == RegistryInit /\ [][RegistryNext]_allVars
=============================================================================
