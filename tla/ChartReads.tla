----------------------------- MODULE ChartReads -----------------------------
(* The bars a chart asks for (api/v1/bars.py over db/queries/bars.py): a first        *)
(* window, slid inside the contract's first and last bar, then pages of older bars    *)
(* from the oldest one on screen.  A request is several reads and the writer may      *)
(* commit between any two; a commit replaces bars and their bounds together           *)
(* (`_refresh_bounds` in the writer's transaction).                                   *)
EXTENDS Integers, FiniteSets, FiniteSetsExt

CONSTANTS
  MaxTime,        \* seconds at which there may be a bar: 1..MaxTime
  MaxCandles,     \* MAX_CANDLES_PER_RESPONSE
  PageCount,      \* bars in a page of history
  MaxWrites,
  Freedoms        \* "written_between": a commit between the count and the read of one request

Times == 1..MaxTime
Asked == 0..(MaxTime + 1)     \* what a caller may name: before, inside and past the data
NoAnswer == [from |-> 0, to |-> 0, bars |-> {}, due |-> {}, tail |-> {}, kind |-> "none"]

VARIABLES
  bars,           \* times of the bars in the store
  writes,
  request,        \* the request under way: its step, what it asked, the bounds it read
  answer,         \* the last answered window, with the bars that were there all along
  screen,         \* the bars the chart shows
  steady          \* bars that were there when the chart was opened and ever since

vars == <<bars, writes, request, answer, screen, steady>>

NoRequest == [step |-> "none", from |-> 0, to |-> 0, first |-> 0, last |-> 0, there |-> {}]
Idle == request.step = "none"

Init ==
  /\ bars \in SUBSET Times /\ writes = 0
  /\ request = NoRequest /\ answer = NoAnswer /\ screen = {} /\ steady = {}

\* A chunk lands: its bars replace what the range held.
Write(lo, hi, with) ==
  /\ writes < MaxWrites /\ lo <= hi /\ with \subseteq lo..hi
  /\ request.step = "select" => "written_between" \in Freedoms
  /\ bars' = (bars \ (lo..hi)) \cup with
  /\ bars' # bars
  /\ writes' = writes + 1
  /\ steady' = steady \cap bars'
  /\ request' = [request EXCEPT !.there = @ \cap bars']
  /\ UNCHANGED <<answer, screen>>

\* The bounds of the series, as the writer derives them.
First == IF bars = {} THEN 0 ELSE Min(bars)
Last == IF bars = {} THEN 0 ELSE Max(bars)

\* GET /bars resolves the contract and reads its bounds.  A caller that names no window
\* gets what Ask(First, Last) gets.
Ask(from, to) ==
  /\ Idle
  /\ request' = [step |-> "count", from |-> from, to |-> to, first |-> First, last |-> Last,
                 there |-> bars]
  /\ answer' = NoAnswer
  /\ UNCHANGED <<bars, writes, screen, steady>>

\* The window inside the contract's life that keeps the span asked for; one wholly to
\* the left of the data, or of a series without bars, is left alone.
ClampWindow(q) ==
  IF q.first = 0 \/ q.to < q.first THEN [from |-> q.from, to |-> q.to]
  ELSE LET span == Max({1, q.to - q.from})
           end == Min({q.to, q.last})
       IN [from |-> Max({q.first, end - span}), to |-> end]

\* `Window.is_empty`.
IsEmpty(w) == w.from > w.to

\* The half-open window the store is read with: the bar named by `to` is in it.
IstRangeOpen(w) == [start |-> w.from, end |-> w.to]
IstRange(w) == [start |-> w.from, end |-> w.to + 1]
Between(r) == {t \in bars : t >= r.start /\ t < r.end}

Answered(found) ==
  [from |-> request.from, to |-> request.to, bars |-> found,
   due |-> {t \in request.there : t >= request.from /\ t <= request.to},
   tail |-> {t \in request.there : t = request.last /\ Min({request.from, request.to}) >= t},
   kind |-> "bars"]

\* A window that runs backwards answers empty without reading a bar.
AnswerEmpty ==
  /\ request.step = "count" /\ IsEmpty(ClampWindow(request))
  /\ request' = NoRequest
  /\ answer' = Answered({}) /\ screen' = {} /\ steady' = bars
  /\ UNCHANGED <<bars, writes>>

TooLarge(r) == Cardinality(Between(r)) > MaxCandles

\* The count and its limit.
CountBars ==
  /\ request.step = "count" /\ ~IsEmpty(ClampWindow(request))
  /\ LET r == IstRange(ClampWindow(request)) IN
       IF TooLarge(r)
         THEN request' = NoRequest /\ answer' = [NoAnswer EXCEPT !.kind = "too_large"]
         ELSE request' = [request EXCEPT !.step = "select"] /\ UNCHANGED answer
  /\ UNCHANGED <<bars, writes, screen, steady>>

\* The bars themselves.  The chart starts over with them.
SelectBars ==
  /\ request.step = "select"
  /\ LET found == Between(IstRange(ClampWindow(request))) IN
       answer' = Answered(found) /\ screen' = found /\ steady' = bars
  /\ request' = NoRequest
  /\ UNCHANGED <<bars, writes>>

\* The newest bars before a moment, oldest first.
BarsBefore(moment) ==
  LET older == {t \in bars : t < moment}
  IN {t \in older : Cardinality({u \in older : u > t}) < PageCount}

\* The chart's history loader: GET /bars/before the oldest bar on screen.
LoadHistory ==
  /\ Idle /\ screen # {} /\ BarsBefore(Min(screen)) # {}
  /\ screen' = screen \cup BarsBefore(Min(screen))
  /\ answer' = NoAnswer
  /\ UNCHANGED <<bars, writes, request, steady>>

Next ==
  \/ \E lo, hi \in Times : \E with \in SUBSET (lo..hi) : Write(lo, hi, with)
  \/ \E from, to \in Asked : Ask(from, to)
  \/ AnswerEmpty \/ CountBars \/ SelectBars
  \/ LoadHistory

Spec == Init /\ [][Next]_vars

\* The series, the request, the answer and the screen are of their types, and no range is
\* read that runs backwards.
TypeOK ==
  /\ bars \subseteq Times /\ writes \in 0..MaxWrites
  /\ request \in [step : {"none", "count", "select"}, from : Asked, to : Asked,
                  first : 0..MaxTime, last : 0..MaxTime, there : SUBSET Times]
  /\ answer \in [from : Asked, to : Asked, bars : SUBSET Times, due : SUBSET Times,
                 tail : SUBSET Times, kind : {"none", "bars", "too_large"}]
  /\ screen \subseteq Times /\ steady \subseteq Times
  /\ ~Idle => (request.first = 0) = (request.last = 0) /\ request.first <= request.last
  /\ request.step = "select" => ClampWindow(request).from <= ClampWindow(request).to

\* Sliding the window inside the data loses nothing that was asked for: a bar between
\* the two instants the caller named that is there throughout is in the answer, the one
\* at `to` included.
AskedIsServed == answer.kind = "bars" => answer.due \subseteq answer.bars

\* A window at or past the end of the data shows its last bar, not an empty chart.
PastTheEndShowsTheEnd == answer.kind = "bars" => answer.tail \subseteq answer.bars

\* However the history was paged in, the screen has no hole: between the oldest and the
\* newest bar on it there is every bar that was in the store all along.
ScreenHasNoHole ==
  screen # {} => {t \in steady : t > Min(screen) /\ t < Max(screen)} \subseteq screen

\* A response carries at most as many bars as it may.
AnswerFits == answer.kind = "bars" => Cardinality(answer.bars) <= MaxCandles
=============================================================================
