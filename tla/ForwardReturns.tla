---------------------------- MODULE ForwardReturns ----------------------------
(***************************************************************************)
(* What a candidate would have earned after each horizon, computed twice:  *)
(* by ForwardReturnAnalyzer (forward_returns.py) over the complete lists   *)
(* of candidates and quotes, and by _ForwardAccumulator (streaming.py) as  *)
(* the events pass, with one quote per symbol and a heap of open horizons. *)
(*                                                                         *)
(* A return is kept as gain and entry price, its quotient being what the   *)
(* code stores.  Candidates and quotes are records of the replay log.      *)
(***************************************************************************)
EXTENDS StrategyModel, Sequences, SequencesExt, FiniteSetsExt

CONSTANTS
  Horizons,     (* the sequence of horizons, as times *)
  NoReturn, NoPrice, NoQuote

ASSUME ForwardAssumption ==
  /\ Horizons \in Seq(Nat \ {0}) /\ NoPrice \notin Int
  /\ NoReturn \notin [gain : Int, entry : Int]
  /\ NoQuote \notin [time : Nat, sym : Nat, bid : Nat, ask : Nat]

EntryPrice(quote, action) ==
  LET price == IF action = LONG THEN quote.ask ELSE quote.bid IN
  IF price > 0 THEN price ELSE NoPrice
ExitPrice(quote, action) == IF action = LONG THEN quote.bid ELSE quote.ask

Return(action, entry, exit) ==
  [gain |-> IF action = LONG THEN exit - entry ELSE entry - exit, entry |-> entry]

Row(c, horizon, result) ==
  [time |-> c.time, sym |-> c.sym, action |-> c.action, score |-> c.score, reason |-> c.reason,
   horizon |-> horizon, result |-> result]

----------------------------------------------------------------------------
(* Over the complete lists, which are entries of the log: it is in time order,  *)
(* so that sorting the quotes by symbol and time is selecting the symbol's, and *)
(* the rows come by candidate and horizon.                                      *)

Candidates(entries) == {i \in DOMAIN entries : entries[i].action # NONE}
Quotes(entries, s) == {j \in DOMAIN entries : entries[j].kind = "quote" /\ entries[j].sym = s}

current_entry(c, entries) ==
  LET usable == {j \in Quotes(entries, c.sym) :
                   entries[j].time <= c.time /\ EntryPrice(entries[j], c.action) # NoPrice} IN
  IF usable = {} THEN NoPrice ELSE EntryPrice(entries[Max(usable)], c.action)

analyze_one(c, horizon, entries) ==
  LET entry == current_entry(c, entries)
      exits == {j \in Quotes(entries, c.sym) :
                  entries[j].time >= c.time + horizon /\ ExitPrice(entries[j], c.action) > 0} IN
  Row(c, horizon, IF entry = NoPrice \/ exits = {} THEN NoReturn
                  ELSE Return(c.action, entry, ExitPrice(entries[Min(exits)], c.action)))

analyze(entries) ==
  [p \in Candidates(entries) \X DOMAIN Horizons |->
     analyze_one(entries[p[1]], Horizons[p[2]], entries)]

----------------------------------------------------------------------------
(* As the events pass *)

NewForward(symbols) ==
  [last_quotes |-> [s \in symbols |-> NoQuote], pending |-> {}, next_id |-> 1, rows |-> <<>>]

Before(a, b) == a.target < b.target \/ (a.target = b.target /\ a.id < b.id)
InHeapOrder(items) ==
  [i \in 1 .. Cardinality(items) |->
     CHOOSE p \in items : Cardinality({q \in items : Before(q, p)}) = i - 1]

Due(forward, q) == {p \in forward.pending : p.c.sym = q.sym /\ p.target <= q.time}
Retried(p, q) == p.entry # NoPrice /\ ExitPrice(q, p.c.action) <= 0

(* An open horizon that meets a quote without a price is given up. *)
BugGivesUp(forward, q) ==
  LET due == Due(forward, q)
      Closed(p) == Row(p.c, p.horizon, IF p.entry = NoPrice \/ Retried(p, q) THEN NoReturn
                       ELSE Return(p.c.action, p.entry, ExitPrice(q, p.c.action))) IN
  [forward EXCEPT !.last_quotes[q.sym] = q, !.pending = @ \ due,
     !.rows = @ \o [i \in 1 .. Cardinality(due) |-> Closed(InHeapOrder(due)[i])]]

(* A quote closes the horizons of its symbol that are due; one that it has no   *)
(* price for goes back into the heap, under a new number, for the next quote.   *)
observe_quote(forward, q) ==
  LET due == Due(forward, q)
      retry == InHeapOrder({p \in due : Retried(p, q)})
      closed == InHeapOrder({p \in due : ~Retried(p, q)})
      Closed(p) == Row(p.c, p.horizon, IF p.entry = NoPrice THEN NoReturn
                       ELSE Return(p.c.action, p.entry, ExitPrice(q, p.c.action)))
      again == {[retry[i] EXCEPT !.id = forward.next_id + i - 1] : i \in DOMAIN retry} IN
  [last_quotes |-> [forward.last_quotes EXCEPT ![q.sym] = q],
   pending |-> (forward.pending \ due) \cup again,
   next_id |-> forward.next_id + Len(retry),
   rows |-> forward.rows \o [i \in DOMAIN closed |-> Closed(closed[i])]]

observe_candidate(forward, c) ==
  LET quote == forward.last_quotes[c.sym]
      entry == IF quote = NoQuote THEN NoPrice
               ELSE IF quote.time <= c.time THEN EntryPrice(quote, c.action) ELSE NoPrice
      opened == {[c |-> c, horizon |-> Horizons[h], target |-> c.time + Horizons[h],
                  id |-> forward.next_id + h - 1, entry |-> entry] : h \in DOMAIN Horizons} IN
  [forward EXCEPT !.pending = @ \cup opened, !.next_id = @ + Len(Horizons)]

finish(forward) ==
  LET open == InHeapOrder(forward.pending) IN
  [forward EXCEPT !.pending = {},
     !.rows = @ \o [i \in DOMAIN open |-> Row(open[i].c, open[i].horizon, NoReturn)]]
=============================================================================
