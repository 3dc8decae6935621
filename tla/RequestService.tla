--------------------------- MODULE RequestService ---------------------------
(***************************************************************************)
(* What the fabric promises the host: every packet that deserves a status  *)
(* answer gets exactly one, the right one, in the order the packets were   *)
(* sent; market events, fillers and nothing else go unanswered.            *)
(***************************************************************************)
EXTENDS Naturals, Sequences

CONSTANTS
  Answers,      (* the answers the protocol knows *)
  AnswerDepth   (* how many answers wait for the host *)

VARIABLES
  owed,         (* answers owed for packets already sent, oldest first *)
  answers       (* answers given and not yet fetched, oldest first *)

vars == <<owed, answers>>

Init == owed = << >> /\ answers = << >>

Request == \E a \in Answers : owed' = Append(owed, a) /\ UNCHANGED answers

Answer ==
  /\ owed # << >>
  /\ Len(answers) < AnswerDepth
  /\ answers' = Append(answers, Head(owed))
  /\ owed' = Tail(owed)

Fetch == answers # << >> /\ answers' = Tail(answers) /\ UNCHANGED owed

Next == Request \/ Answer \/ Fetch

Spec == Init /\ [][Next]_vars
=============================================================================
