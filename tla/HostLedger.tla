------------------------------ MODULE HostLedger ------------------------------
(***************************************************************************)
(* Host implements AnswerLedger: a request is a row of the turns table,    *)
(* and what the channel shows for it is what the relay stored.             *)
(***************************************************************************)
EXTENDS Host

CONSTANT NoSession

ASSUME NoSessionAssumption == NoSession \notin Channels

StatusOf(s) ==
  CASE s = "absent" -> "none"
    [] s = "queued" -> "waiting"
    [] s = "open" -> "working"
    [] s = "posted" -> "answered"
    [] OTHER -> "closed"

Ledger == INSTANCE AnswerLedger WITH
  Requests <- Seqs,
  Sessions <- Channels,
  Answers <- EventIds \cup {NoEvent},
  status <- [n \in Seqs |-> StatusOf(state[n])],
  session <- [n \in Seqs |-> IF state[n] = "absent" THEN NoSession ELSE ChannelOfTurn(n)],
  shown <- [n \in Seqs |-> {event.id : event \in {x \in relay : x.key = n}}]

\* Edits, retries, crashes and replays stay within what the channel is
\* promised: one request at a time, in order, at most one answer each.
ImplementsLedger == Ledger!Spec
=============================================================================
