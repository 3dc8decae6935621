-------------------------- MODULE ArrivalDiagnostics --------------------------
(***************************************************************************)
(* The arithmetic of tools/backtest/arrival.py: the batch analyses of a    *)
(* whole event list, their streaming versions, and the state that one      *)
(* combined pass keeps, each as an operator on records and sequences.      *)
(*                                                                         *)
(* An event is its timestamp, source index, symbol and kind.  Rates are    *)
(* kept as events per window, a constant factor away from events per       *)
(* second; a mean is the pair of its total and count.  Of the quantiles    *)
(* the 95th stands for all.                                                *)
(***************************************************************************)
EXTENDS Integers, Sequences, FiniteSets, SequencesExt

CONSTANTS
  Symbols, Combined,   (* the groups: one per symbol, and all events together *)
  Windows,             (* windows_ns *)
  Depths,              (* finite queue depths *)
  ClockHz,             (* clock_hz *)
  ServiceNum,          (* service_num: ticks of 1 / ClockHz one event takes *)
  StreamSample, CombinedSample  (* sample_size of the two kinds of pass *)

ASSUME ArrivalAssumption ==
  /\ Combined \notin Symbols
  /\ Windows \subseteq Nat \ {0} /\ Depths \subseteq Nat \ {0}
  /\ {ClockHz, ServiceNum, StreamSample, CombinedSample} \subseteq Nat \ {0}

None == -1  (* no timestamp, no extremum, no depth limit *)
Groups == Symbols \cup {Combined}
GroupsOf(e) == {Combined, e.sym}
InGroup(events, g) == SelectSeq(events, LAMBDA e : g \in GroupsOf(e))
Seen(events) == {g \in Groups : InGroup(events, g) # <<>>}
Larger(a, b) == IF a > b THEN a ELSE b
CeilDiv(a, b) == (a + b - 1) \div b
RoundHalfEven(num, den) ==
  (num \div den) + (IF 2 * (num % den) > den \/ (2 * (num % den) = den /\ (num \div den) % 2 = 1)
                  THEN 1 ELSE 0)

----------------------------------------------------------------------------
(* Summaries of a list of values *)

percentile(values, p) ==
  LET ordered == SortSeq(values, <) IN
  IF values = <<>> THEN None ELSE ordered[1 + RoundHalfEven((Len(ordered) - 1) * p, 100)]

distribution(values) ==
  [count |-> Len(values), total |-> FoldLeft(+, 0, values),
   min |-> IF values = <<>> THEN None ELSE Min(ToSet(values)),
   max |-> IF values = <<>> THEN None ELSE Max(ToSet(values)),
   p95 |-> percentile(values, 95)]

NewStats(size) == [count |-> 0, total |-> 0, min |-> None, max |-> None, size |-> size, sample |-> <<>>]

AddStat(st, v) ==
  LET n == st.count + 1
      stride == Larger(1, st.size \div 1000)
      cell == 1 + ((n \div stride) % st.size) IN
  [st EXCEPT !.count = n, !.total = @ + v,
     !.min = IF @ = None \/ v < @ THEN v ELSE @,
     !.max = Larger(@, v),
     !.sample = IF Len(@) < st.size THEN Append(@, v)
                ELSE IF n % stride = 0 THEN [@ EXCEPT ![cell] = v] ELSE @]

StatsResult(st) ==
  [count |-> st.count, total |-> st.total, min |-> st.min, max |-> st.max,
   p95 |-> percentile(st.sample, 95)]

----------------------------------------------------------------------------
(* Events per window *)

NewRate(size) == [start |-> None, bucket |-> 0, count |-> 0, stats |-> NewStats(size)]

(* A window that ends takes the event that ended it with it. *)
BugCountsIntoOldWindow(r, t, w) ==
  IF r.start = None THEN [r EXCEPT !.start = t, !.count = 1]
  ELSE LET bucket == (t - r.start) \div w IN
       IF bucket # r.bucket
       THEN [r EXCEPT !.bucket = bucket, !.count = 0, !.stats = AddStat(@, r.count + 1)]
       ELSE [r EXCEPT !.count = @ + 1]

RateObserve(r, t, w) ==
  IF r.start = None THEN [r EXCEPT !.start = t, !.count = 1]
  ELSE LET bucket == (t - r.start) \div w IN
       IF bucket # r.bucket
       THEN [r EXCEPT !.bucket = bucket, !.count = 1,
               !.stats = IF r.count # 0 THEN AddStat(@, r.count) ELSE @]
       ELSE [r EXCEPT !.count = @ + 1]

RateFinish(r) ==
  IF r.count # 0 THEN [r EXCEPT !.count = 0, !.stats = AddStat(@, r.count)] ELSE r

(* The streaming analysis starts a group's window at its first event with nothing counted. *)
StreamRateUpdate(r, t, w) ==
  LET s == IF r.start = None THEN [r EXCEPT !.start = t] ELSE r
      bucket == (t - s.start) \div w IN
  IF s.count # 0 /\ bucket # s.bucket
  THEN [s EXCEPT !.bucket = bucket, !.count = 1, !.stats = AddStat(@, s.count)]
  ELSE [s EXCEPT !.count = @ + 1]

event_rate_analysis_stream(events) ==
  [w \in Windows |-> [g \in Seen(events) |->
     StatsResult(RateFinish(FoldLeft(LAMBDA r, e : StreamRateUpdate(r, e.t, w),
                                     NewRate(StreamSample), InGroup(events, g))).stats)]]

ByTime(events) ==
  SortSeq(events, LAMBDA a, b : a.t < b.t \/ (a.t = b.t /\ a.index < b.index))

(* Windows without an event have no entry; the others are listed as they come up. *)
window_rate(events, w) ==
  LET Bucket(e) == (e.t - events[1].t) \div w
      buckets == SetToSortSeq({Bucket(e) : e \in ToSet(events)}, <) IN
  distribution([i \in DOMAIN buckets |->
    Len(SelectSeq(events, LAMBDA e : Bucket(e) = buckets[i]))])

event_rate_analysis(events) ==
  [w \in Windows |-> [g \in Seen(events) |-> window_rate(InGroup(ByTime(events), g), w)]]

----------------------------------------------------------------------------
(* Time between neighbouring events *)

WithinService(delta) == delta * ClockHz <= ServiceNum
NewInter(size) == [last |-> None, stats |-> NewStats(size), within |-> 0]

InterObserve(i, t) ==
  IF i.last = None THEN [i EXCEPT !.last = t]
  ELSE [i EXCEPT !.last = t, !.stats = AddStat(@, t - i.last),
          !.within = IF WithinService(t - i.last) THEN @ + 1 ELSE @]

InterResult(i) == [stats |-> StatsResult(i.stats), within |-> i.within]

interarrival_analysis_stream(events) ==
  [g \in Seen(events) |->
     InterResult(FoldLeft(LAMBDA i, e : InterObserve(i, e.t), NewInter(StreamSample), InGroup(events, g)))]

interarrival_analysis(events) ==
  [g \in Seen(events) |->
     LET values == InGroup(ByTime(events), g)
         deltas == [i \in 1 .. Len(values) - 1 |-> values[i + 1].t - values[i].t] IN
     [stats |-> distribution(deltas), within |-> Len(SelectSeq(deltas, WithinService))]]

----------------------------------------------------------------------------
(* One server behind a queue of a given depth *)

NewCapacity(depth) ==
  [depth |-> depth, server |-> 0, occupancies |-> NewStats(StreamSample), overflow |-> 0,
   busy_start |-> None, busy_end |-> None, longest_busy |-> 0, last |-> None]

LongestBusy(c) ==
  IF c.busy_start # None /\ c.busy_end # None
  THEN Larger(c.longest_busy, c.busy_end \div ClockHz - c.busy_start \div ClockHz)
  ELSE c.longest_busy

(* A partly served event is not counted. *)
BugRoundsDown(c, arrival) == IF c.server <= arrival THEN 0 ELSE (c.server - arrival) \div ServiceNum
Outstanding(c, arrival) == IF c.server <= arrival THEN 0 ELSE CeilDiv(c.server - arrival, ServiceNum)

CapacityObserve(c, t) ==
  LET arrival == t * ClockHz
      idle == c.server <= arrival
      full == c.depth # None /\ Outstanding(c, arrival) >= c.depth
      server == Larger(c.server, arrival) + ServiceNum
      opened == [c EXCEPT !.last = t,
                   !.longest_busy = IF idle THEN LongestBusy(c) ELSE @,
                   !.busy_start = IF idle THEN arrival ELSE @] IN
  IF full THEN [opened EXCEPT !.overflow = @ + 1, !.occupancies = AddStat(@, Outstanding(c, arrival))]
  ELSE [opened EXCEPT !.server = server, !.busy_end = server,
          !.occupancies = AddStat(@, CeilDiv(server - arrival, ServiceNum))]

CapacityResult(c) ==
  [occupancy |-> StatsResult(c.occupancies), overflow |-> c.overflow,
   longest_busy |-> LongestBusy(c),
   backlog |-> Larger(0, c.server \div ClockHz - Larger(0, c.last))]

simulate_serialized_capacity_stream(events) ==
  [d \in Depths \cup {None} |->
     CapacityResult(FoldLeft(LAMBDA c, e : CapacityObserve(c, e.t), NewCapacity(d), events))]

(* The batch simulation keeps all occupancies and summarises them at the end. *)
simulate_depth(events, d) ==
  LET Step(s, e) ==
        LET arrival == e.t * ClockHz
            idle == s.server <= arrival
            outstanding == IF idle THEN 0 ELSE CeilDiv(s.server - arrival, ServiceNum)
            server == Larger(s.server, arrival) + ServiceNum
            busy == IF idle THEN Append(s.busy, [from |-> arrival, to |-> None]) ELSE s.busy IN
        IF d # None /\ outstanding >= d
        THEN [s EXCEPT !.overflow = @ + 1, !.list = Append(@, outstanding), !.busy = busy]
        ELSE [server |-> server, overflow |-> s.overflow,
              list |-> Append(s.list, CeilDiv(server - arrival, ServiceNum)),
              busy |-> [busy EXCEPT ![Len(busy)].to = server]]
      end == FoldLeft(Step, [server |-> 0, overflow |-> 0, list |-> <<>>, busy |-> <<>>], events) IN
  [occupancy |-> distribution(end.list), overflow |-> end.overflow,
   longest_busy |-> Max({0} \cup {b.to \div ClockHz - b.from \div ClockHz : b \in ToSet(end.busy)}),
   backlog |-> Larger(0, end.server \div ClockHz - Last(events).t)]

simulate_serialized_capacity(events) ==
  [d \in Depths \cup {None} |-> simulate_depth(ByTime(events), d)]

----------------------------------------------------------------------------
(* The state of one combined pass *)

Counted(events) ==
  [total |-> Len(events), quote |-> Len(SelectSeq(events, LAMBDA e : e.kind # "trade")),
   trade |-> Len(SelectSeq(events, LAMBDA e : e.kind = "trade")),
   bid |-> Len(SelectSeq(events, LAMBDA e : e.kind = "bid")),
   ask |-> Len(SelectSeq(events, LAMBDA e : e.kind = "ask"))]

NewDiagnostics ==
  [processed |-> 0,
   counts |-> [g \in Groups |-> Counted(<<>>)],
   rates |-> [w \in Windows |-> [g \in Groups |-> NewRate(CombinedSample)]],
   inter |-> [g \in Groups |-> NewInter(CombinedSample)],
   capacity |-> [d \in Depths \cup {None} |-> NewCapacity(d)],
   first |-> None, last |-> None, gap |-> 0]

Count(c, e) ==
  [c EXCEPT !.total = @ + 1, ![e.kind] = @ + 1,
            !.quote = IF e.kind = "trade" THEN @ ELSE @ + 1]

(* observe works through its six parts in this order; an exception can stop it after any. *)
Parts == 6
ObserveParts(s, e, k) ==
  [processed |-> IF k >= 1 THEN s.processed + 1 ELSE s.processed,
   counts |-> IF k >= 2 THEN [g \in Groups |-> IF g \in GroupsOf(e) THEN Count(s.counts[g], e)
                                               ELSE s.counts[g]] ELSE s.counts,
   rates |-> IF k >= 3 THEN [w \in Windows |-> [g \in Groups |->
               IF g \in GroupsOf(e) THEN RateObserve(s.rates[w][g], e.t, w) ELSE s.rates[w][g]]]
             ELSE s.rates,
   inter |-> IF k >= 4 THEN [g \in Groups |-> IF g \in GroupsOf(e) THEN InterObserve(s.inter[g], e.t)
                                              ELSE s.inter[g]] ELSE s.inter,
   capacity |-> IF k >= 5 THEN [d \in DOMAIN s.capacity |-> CapacityObserve(s.capacity[d], e.t)]
                ELSE s.capacity,
   first |-> IF k >= 6 /\ s.first = None THEN e.t ELSE s.first,
   gap |-> IF k >= 6 /\ s.last # None THEN Larger(s.gap, e.t - s.last) ELSE s.gap,
   last |-> IF k >= 6 THEN e.t ELSE s.last]

(* What to_dict reports; a group is reported once an event of it was seen. *)
DiagnosticsResult(s) ==
  [counts |-> s.counts,
   rates |-> [w \in Windows |-> [g \in {x \in Groups : s.rates[w][x].start # None} |->
                StatsResult(RateFinish(s.rates[w][g]).stats)]],
   inter |-> [g \in {x \in Groups : s.inter[x].last # None} |-> InterResult(s.inter[g])],
   capacity |-> [d \in DOMAIN s.capacity |-> CapacityResult(s.capacity[d])],
   first |-> s.first, last |-> s.last, gap |-> s.gap, processed |-> s.processed]
=============================================================================
