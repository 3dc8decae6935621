-------------------------- MODULE ArrivalCheckpoint --------------------------
(***************************************************************************)
(* combined_timestamp_analysis of tools/backtest/arrival.py: one pass over *)
(* an event file that saves its state as it goes, and takes a saved state  *)
(* up again.  The checkpoint and its manifest are two files, each replaced *)
(* atomically, one after the other.  A run can be hit by an exception,     *)
(* which its handler answers with a checkpoint, by another one while that  *)
(* checkpoint is written, or be killed outright, and two inputs may be     *)
(* analysed with the same pair of files in turn.                           *)
(***************************************************************************)
EXTENDS ArrivalDiagnostics

CONSTANTS
  Inputs,    (* what input_identity tells apart *)
  Traces,    (* the event streams the inputs may hold: a set of functions on Inputs *)
  Interval,  (* checkpoint_event_interval *)
  MaxLost,   (* bound: runs that end without the checkpoint they owe *)
  Absent     (* no such file *)

Event == [t : Nat, index : Nat, sym : Symbols, kind : {"bid", "ask", "trade"}]

ASSUME CheckpointAssumption ==
  Interval \in Nat \ {0} /\ MaxLost \in Nat /\ Traces \subseteq [Inputs -> Seq(Event)]

VARIABLES
  trace,     (* the events of each input *)
  pc,        (* "down", "loop", "replace", "manifest" (what is written next), "done" *)
  input,     (* input of the run under way, or of the last one *)
  mem,       (* the state in memory *)
  last_checkpoint_events,
  failing,   (* an exception is being handled *)
  checkpoint, manifest,  (* the two files *)
  result,    (* what the last completed run returned *)
  lost,      (* how many runs ended without their checkpoint *)
  pair       (* history: "whole"; "halfway" once the run under way replaced the checkpoint *)
             (* and not yet its manifest; "torn" once any run ended halfway              *)

run == <<pc, input, mem, last_checkpoint_events, failing>>
files == <<checkpoint, manifest>>
losses == <<lost, pair>>
vars == <<trace, run, files, result, losses>>

(* The diagnostics, with two facts about them the program does not know: the   *)
(* input they were begun for, and whether an event was counted in part, or one *)
(* of another input was counted.                                               *)
Fresh(i) == [diag |-> NewDiagnostics, owner |-> i, spoiled |-> FALSE]
ObserveUpTo(e, k, spoiled) ==
  mem' = [mem EXCEPT !.diag = ObserveParts(@, e, k), !.spoiled = @ \/ spoiled]

Init ==
  /\ trace \in Traces
  /\ pc = "down" /\ input \in Inputs /\ mem = Fresh(input)
  /\ last_checkpoint_events = 0 /\ failing = FALSE
  /\ checkpoint = Absent /\ manifest = Absent /\ result = Absent
  /\ lost = 0 /\ pair = "whole"

(* A file is resumed whatever it was made from. *)
BugResumesAnything(i) ==
  checkpoint # Absent /\ manifest # Absent /\ manifest.phase = "in_progress"

CanResume(i) ==
  /\ checkpoint # Absent /\ manifest # Absent
  /\ manifest.phase = "in_progress" /\ manifest.input = i

(* The state and the position in the input, which come from different files. *)
BugPositionFromManifest ==
  [checkpoint EXCEPT !.diag.processed = manifest.processed]
Resumed == checkpoint

Start(i) ==
  /\ pc \in {"down", "done"}
  /\ pc' = "loop" /\ input' = i /\ failing' = FALSE
  /\ mem' = IF CanResume(i) THEN Resumed ELSE Fresh(i)
  /\ last_checkpoint_events' = mem'.diag.processed
  /\ result' = Absent
  /\ UNCHANGED <<trace, files, losses>>

Exhausted == mem.diag.processed >= Len(trace[input])
NextEvent == trace[input][mem.diag.processed + 1]

(* One event too late. *)
BugDueLate == mem'.diag.processed - last_checkpoint_events > Interval
CheckpointDue == mem'.diag.processed - last_checkpoint_events >= Interval

(* An event, and a checkpoint when one is due. *)
Observe ==
  /\ pc = "loop" /\ ~Exhausted
  /\ ObserveUpTo(NextEvent, Parts, mem.owner # input)
  /\ pc' = IF CheckpointDue THEN "replace" ELSE "loop"
  /\ UNCHANGED <<trace, input, last_checkpoint_events, failing, files, result, losses>>

(* Only the checkpoints that fall due are written. *)
BugJustRaises == failing' = FALSE /\ pc' = "down"

(* Whatever reaches the handler is answered with a checkpoint. *)
Handle == failing' = TRUE /\ pc' = "replace"

(* The reader of the events, the progress callback or the user interrupts the *)
(* run between two events, or while a checkpoint is being written.            *)
FailBetweenEvents ==
  /\ pc \in {"loop", "replace", "manifest"} /\ ~failing
  /\ Handle
  /\ UNCHANGED <<trace, input, mem, last_checkpoint_events, files, result, losses>>

(* The user interrupts observe after some of its parts; once per saved state, *)
(* which bounds the model: a second time would add nothing to the first.      *)
FailInsideEvent ==
  /\ pc = "loop" /\ ~Exhausted /\ ~mem.spoiled
  /\ \E k \in 1 .. Parts - 1 : ObserveUpTo(NextEvent, k, TRUE)
  /\ Handle
  /\ UNCHANGED <<trace, input, last_checkpoint_events, files, result, losses>>

PairBecomes(state) == pair' = IF pair = "torn" THEN pair ELSE state

ReplaceCheckpoint ==
  /\ pc = "replace"
  /\ checkpoint' = mem /\ pc' = "manifest"
  /\ PairBecomes("halfway")
  /\ UNCHANGED <<trace, input, mem, last_checkpoint_events, failing, manifest, result, lost>>

(* The entry "phases", carried over from an older manifest and read by nobody, *)
(* is left out.                                                                 *)
write_analysis_state(phase) ==
  manifest' = [phase |-> phase, input |-> input, processed |-> mem.diag.processed]

(* The process ends and its memory with it. *)
Gone == pc' = "down" /\ mem' = Fresh(input) /\ last_checkpoint_events' = 0 /\ failing' = FALSE

(* After the handler's checkpoint the exception goes on to the caller. *)
WriteManifest ==
  /\ pc = "manifest"
  /\ write_analysis_state("in_progress")
  /\ \/ failing /\ Gone
     \/ ~failing /\ pc' = "loop" /\ last_checkpoint_events' = mem.diag.processed
        /\ UNCHANGED <<mem, failing>>
  /\ PairBecomes("whole")
  /\ UNCHANGED <<trace, input, checkpoint, result, lost>>

Finish ==
  /\ pc = "loop" /\ Exhausted
  /\ pc' = "done" /\ result' = DiagnosticsResult(mem.diag)
  /\ write_analysis_state("complete")
  /\ UNCHANGED <<trace, input, mem, last_checkpoint_events, failing, checkpoint, losses>>

(* A run that ends and leaves the files as they are. *)
EndUnsaved ==
  /\ lost < MaxLost /\ lost' = lost + 1
  /\ PairBecomes(IF pair = "halfway" THEN "torn" ELSE pair)
  /\ Gone
  /\ UNCHANGED <<trace, input, files, result>>

(* The handler's own checkpoint raises, as on a full disk: what was replaced of *)
(* the files, by this checkpoint or by the one the handler answers, stays.      *)
FailInHandler == failing /\ pc \in {"replace", "manifest"} /\ EndUnsaved

(* After the last event nothing is handled any more: not an exception of the    *)
(* progress callback, nor one of the last manifest.                             *)
FailAfterPass == pc = "loop" /\ Exhausted /\ EndUnsaved

Kill == pc \in {"loop", "replace", "manifest"} /\ EndUnsaved

Next ==
  \/ \E i \in Inputs : Start(i)
  \/ Observe \/ FailBetweenEvents \/ FailInsideEvent
  \/ ReplaceCheckpoint \/ WriteManifest \/ Finish
  \/ FailInHandler \/ FailAfterPass \/ Kill

(* The user starts a stopped analysis again, and a run that exceptions keep     *)
(* interrupting between its events does reach an event, or its end, sometimes.  *)
Fairness ==
  /\ WF_vars(pc = "down" /\ \E i \in Inputs : Start(i))
  /\ SF_vars(Observe) /\ SF_vars(Finish) /\ WF_vars(ReplaceCheckpoint) /\ WF_vars(WriteManifest)

Spec == Init /\ [][Next]_vars /\ Fairness
----------------------------------------------------------------------------
StateOK(m) ==
  /\ m.owner \in Inputs /\ m.spoiled \in BOOLEAN
  /\ m.diag.processed \in Nat /\ \E i \in Inputs : m.diag.processed <= Len(trace[i])

(* Every variable keeps its shape, and no more than an interval is ever unsaved. *)
TypeOK ==
  /\ pc \in {"down", "loop", "replace", "manifest", "done"} /\ input \in Inputs
  /\ failing \in BOOLEAN /\ lost \in 0 .. MaxLost /\ pair \in {"whole", "halfway", "torn"}
  /\ last_checkpoint_events \in 0 .. mem.diag.processed
  /\ mem.diag.processed - last_checkpoint_events <= Interval
  /\ StateOK(mem) /\ (checkpoint # Absent => StateOK(checkpoint))
  /\ manifest # Absent => manifest.phase \in {"in_progress", "complete"}

(* However often the run was interrupted between events, or lost, and            *)
(* whichever of the two files is the newer, the state in memory is the one a     *)
(* single pass has after as many events: nothing is counted twice, nothing is    *)
(* left out.  (An interrupt inside an event, and a state taken over from another *)
(* input, are the subject of the last property and of the next.)                 *)
PassOver(events) == FoldLeft(LAMBDA s, e : ObserveParts(s, e, Parts), NewDiagnostics, events)
PrefixState(i, n) == PassOver(SubSeq(trace[i], 1, n))
StateIsAPrefix ==
  ~mem.spoiled /\ mem.owner = input => mem.diag = PrefixState(input, mem.diag.processed)

(* A run takes up only its own input's state, unless some run ended between the *)
(* two writes: killed there, or by an exception in the handler's checkpoint     *)
(* after a checkpoint file was replaced.  Exceptions that end the run with the  *)
(* handler's checkpoint complete, runs that end anywhere else, and changes of   *)
(* the input in any order never mix the inputs.                                 *)
AdoptsOwnState ==
  pair # "torn" => mem.owner = input

(* The pass that is saved and taken up again, the streaming analyses and the   *)
(* batch analyses are three programs for the same figures: they agree.  Only   *)
(* the quantiles may differ, when there were more values than a sample holds.  *)
Exactly(a, size) == [a EXCEPT !.p95 = IF a.count <= size THEN @ ELSE None]
SameStats(a, b, size) == Exactly(a, size) = Exactly(b, size)
SameReport(rates, inter, capacity, batch, size) ==
  /\ \A w \in Windows : DOMAIN rates[w] = DOMAIN batch.rates[w]
       /\ \A g \in DOMAIN rates[w] : SameStats(rates[w][g], batch.rates[w][g], size)
  /\ DOMAIN inter = DOMAIN batch.inter
  /\ \A g \in DOMAIN inter : SameStats(inter[g].stats, batch.inter[g].stats, size)
       /\ inter[g].within = batch.inter[g].within
  /\ \A d \in Depths \cup {None} :
       /\ SameStats(capacity[d].occupancy, batch.capacity[d].occupancy, StreamSample)
       /\ [capacity[d] EXCEPT !.occupancy = 0] = [batch.capacity[d] EXCEPT !.occupancy = 0]
ThreeWaysAgree ==
  pc = "done" /\ ~mem.spoiled /\ mem.owner = input =>
    LET events == trace[input]
        unordered == Reverse(events)
        batch == [rates |-> event_rate_analysis(unordered), inter |-> interarrival_analysis(unordered),
                  capacity |-> simulate_serialized_capacity(unordered)] IN
    /\ SameReport(result.rates, result.inter, result.capacity, batch, CombinedSample)
    /\ SameReport(event_rate_analysis_stream(events), interarrival_analysis_stream(events),
                  simulate_serialized_capacity_stream(events), batch, StreamSample)
    /\ \A g \in Groups : result.counts[g] = Counted(InGroup(events, g))

(* The occupancies are those of a real queue.  Count the events themselves: an  *)
(* accepted event leaves one service time after it or those before it, whoever  *)
(* is later; an arrival finds those that have not left yet, and is turned away  *)
(* when there are as many as the queue holds.  The events come in the order of  *)
(* time, as both passes expect them (arrival.py:90).                            *)
Waiting(left, arrival) == Cardinality({i \in DOMAIN left : left[i] > arrival})
Joined(left, arrival, d) ==
  Append(left, IF d # None /\ Waiting(left, arrival) >= d THEN None
               ELSE ServiceNum + Max({arrival} \cup ToSet(left)))
Departures(events, d) ==
  LET left[n \in 0 .. Len(events)] ==
        IF n = 0 THEN <<>> ELSE Joined(left[n - 1], events[n].t * ClockHz, d)
  IN  left
Present(left, events, i) == Cardinality({j \in 1 .. i : left[j] > events[i].t * ClockHz})
Total(numbers) ==
  LET sum[n \in 0 .. Len(numbers)] == IF n = 0 THEN 0 ELSE sum[n - 1] + numbers[n]
  IN  sum[Len(numbers)]
QueueOf(c, left, events, n) ==
  LET present == [i \in 1 .. n |-> Present(left, events, i)] IN
  /\ c.server = Max({0} \cup ToSet(left))
  /\ c.overflow = Cardinality({i \in 1 .. n : left[i] = None})
  /\ c.occupancies.total = Total(present)
  /\ c.occupancies.max = Max({None} \cup ToSet(present))
InTimeOrder(events) == \A i \in 1 .. Len(events) - 1 : events[i].t <= events[i + 1].t
QueueIsReal ==
  ~mem.spoiled /\ mem.owner = input /\ InTimeOrder(trace[input]) =>
    \A d \in Depths \cup {None} :
      LET n == mem.diag.processed IN
      QueueOf(mem.diag.capacity[d], Departures(trace[input], d)[n], trace[input], n)

(* Handled exceptions cost no progress: if the user stays with one input, the   *)
(* analysis is finished however often it is interrupted, since an interrupt     *)
(* leaves a checkpoint and the next run goes on from it, unless the run is lost, *)
(* which happens at most MaxLost times.                                         *)
InterruptedRunsFinish == \A i \in Inputs : <>[](input = i) => []<>(pc = "done")

(* "A user interrupt or worker failure must leave a resumable checkpoint behind" *)
(* (arrival.py:437-438): a run that finishes from such a checkpoint reports what *)
(* an uninterrupted one does.                                                    *)
InterruptLeavesResumableState ==
  pc = "done" /\ mem.owner = input =>
    result = DiagnosticsResult(PrefixState(input, Len(trace[input])))
=============================================================================
