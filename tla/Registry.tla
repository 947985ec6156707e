------------------------------ MODULE Registry ------------------------------
(* What is kept and read back: the catalogue, the symbol master, the local account,    *)
(* the broker's credential with its login, the keys, the settings, the listings and    *)
(* the chart.  They share no state; here each has its names and its properties.        *)
EXTENDS Catalogue

CONSTANTS
  \* of the account
  Browsers, IdleTimeout, AbsoluteTimeout, LastSeenInterval, LockoutThreshold, LockoutDuration,
  MaxTime, MaxSessions, MaxChanges,
  \* of the symbol master
  Runs, Order, Slice, Contents, Derivatives, Under, LastDay, MaxRuns, MaxFaults,
  \* of the login
  Sessions, MaxStates, MaxApps,
  \* of the settings
  Keys, Writers, Good, Tight, Bad, MaxWrites, MaxRestarts,
  \* of the keys
  Fields, MaxVersion, MaxKills,
  \* of the listings
  Kinds, MaxRows, SortKeys, PageSize, MaxLeave,
  \* of the chart
  LastBar, MaxCandles, PageCount, MaxBarWrites

VARIABLES
  today, published, versions, snapshots, roots, download, target, snapshotRun, faults,
  app, saving, connecting, state, minted, codeFor, callback, presented, exchanges, crossed, token,
  material, made, row, up, provider, active, loaded, field, writing, op, kills, cut, late,
  table, cache, refused, pending, together, raced, writes, restarts,
  now, user, session, issued, cookie, request, chosen, overtaken, failedAt,
  kind, listed, left, listStep, cursor, pages, steady,
  chartBars, chartWrites, chartRequest, answer, screen, onChart

Master == INSTANCE SymbolMaster WITH
  part <- download, run <- snapshotRun, spent <- faults
Account == INSTANCE Access
Broker == INSTANCE BrokerLogin
Keyring == INSTANCE KeyRing
Configured == INSTANCE Settings
Listing == INSTANCE Listings WITH rows <- listed, step <- listStep, Keys <- SortKeys
Chart == INSTANCE ChartReads WITH
  bars <- chartBars, writes <- chartWrites, request <- chartRequest, steady <- onChart,
  MaxTime <- LastBar, MaxWrites <- MaxBarWrites
-----------------------------------------------------------------------------
\* The symbol master: an instrument has one lot size on any day and no version that ends
\* before it begins, and what the file merged last lists answers for today, whatever two
\* overlapping runs read (`_merge_dim`, `_replace_snapshot`).
VersionsSound == Master!TypeOK /\ Master!OneAnswerPerDay /\ Master!ListedIsAnswered
\* What an earlier day was answered is never answered otherwise; a file cut short closes
\* nothing (`_guard_against_shrinkage`); a file that cannot be fetched empties no roots.
HistoryKept == Master!PastIsFixed /\ Master!NoMassClosing /\ Master!RootsSurviveFailures

\* The broker's login: a state is exchanged at most once, however often its redirect is
\* followed (`_consume_state`), and the stored token is of the app that is stored but for a
\* login that was being exchanged when the app was replaced.
LoginSound == Broker!LoginSound

\* The keys: whatever was rotated, rewrapped or retired, and wherever a kill fell between two
\* statements, no usable row is wrapped under a key nobody has and every stored field is under
\* a usable row, but one stored after its version was retired (`retire_version`); a start is
\* refused only after a kill that cut an operation short.
KeysSound == Keyring!KeysSound

\* The settings: the cache answers what the table holds but for writes under way, a request
\* stores all its settings or none, and no value the running build refuses is served.
SettingsSound == Configured!SettingsSound

\* The account: one, opened by the passcode chosen last, tried wrongly at most the
\* threshold's number of times in a lockout period; every good session is of that passcode;
\* one used within every idle period is alive, none outlives its absolute expiry (`_slide`).
AccountSound == Account!AccountSound

\* The listings: a row that matches from the first page to the last is on one of them and
\* on one only, whatever is added and leaves while the pages are read.
PagesSound == Listing!TypeOK /\ Listing!OnOnePage /\ Listing!NothingSkipped

\* The chart: a bar of the window asked for is answered, a window past the end shows the
\* end, paging left leaves no hole, and no response carries more bars than it may.
ChartSound ==
  /\ Chart!TypeOK /\ Chart!AskedIsServed /\ Chart!PastTheEndShowsTheEnd
  /\ Chart!ScreenHasNoHole /\ Chart!AnswerFits
=============================================================================
