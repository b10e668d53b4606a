--------------------------------- MODULE Host ---------------------------------
(***************************************************************************)
(* The serving host: the outbox and the dispatcher share one task and one  *)
(* database, Kelpie's inbox thread offers messages to that task, and the   *)
(* relay, the occupants and the operator act on their own.  The process    *)
(* may stop between any two commits, and any commit may fail.              *)
(***************************************************************************)
EXTENDS Outbox, Dispatch

CONSTANTS
  Revocable,    \* triggers whose requester a restart may admit or drop
  MaxCrashes,   \* bound: times the process stops
  MaxErrors,    \* bound: commits that fail
  Upgraded      \* whether the database may come from an older version

ASSUME HostAssumption ==
  /\ Revocable \subseteq Triggers
  /\ MaxCrashes \in Nat /\ MaxErrors \in Nat
  /\ Upgraded \in BOOLEAN

VARIABLES crashes, errors

vars == <<tableVars, outVars, kelpieVars, authorized, taskVars, crashes, errors>>

Admitted == {set \in SUBSET Triggers : Triggers \ Revocable \subseteq set}

-----------------------------------------------------------------------------
\* A database this version created.
FreshDatabase ==
  /\ state = [n \in Seqs |-> "absent"]
  /\ trigger = [n \in Seqs |-> CHOOSE e \in Triggers : TRUE]
  /\ claimed = [n \in Seqs |-> FALSE]
  /\ opened = {} /\ lastSeq = 0 /\ failedAt = {} /\ processed = {}
  /\ attempt = [k \in Keys |-> NoAttempt]
  /\ relay = {} /\ held = {}
  /\ ask = [n \in Seqs |-> "none"]

\* A database whose only turn was being answered when the host was replaced
\* by the version that records the prepared id before it sends.
UpgradedDatabase ==
  \E e \in Triggers, body \in Bodies \ ({Empty} \cup Refused) :
    /\ state = [n \in Seqs |-> IF n = 1 THEN "open" ELSE "absent"]
    /\ trigger = [n \in Seqs |-> e]
    /\ claimed \in [Seqs -> BOOLEAN] /\ \A n \in Seqs \ {1} : ~claimed[n]
    /\ opened = {1} /\ lastSeq = 1 /\ failedAt = {} /\ processed = {e}
    /\ attempt = [k \in Keys |-> IF k = 1
         THEN [NoAttempt EXCEPT !.recorded = TRUE, !.body = body, !.dispatched = TRUE]
         ELSE NoAttempt]
    /\ relay \in {{}, {[key |-> 1, id |-> NoEvent]}}
    /\ held = {[kind |-> "final", key |-> 1, body |-> body]}
    /\ ask = [n \in Seqs |-> IF n = 1 THEN "asked" ELSE "none"]

Init ==
  /\ FreshDatabase \/ (Upgraded /\ UpgradedDatabase)
  /\ settled = {} /\ offered = {}
  /\ authorized \in Admitted
  /\ at = "down" /\ cur = NoKey /\ msg = NoMsg /\ todo = {}
  /\ crashes = 0 /\ errors = 0

-----------------------------------------------------------------------------
\* `serve` starts: the inbox is claimed, so everything unacknowledged is
\* offered, and the queue is resumed with the configuration just loaded.
Restart ==
  /\ at = "down"
  /\ authorized' \in Admitted
  /\ offered' = held
  /\ StartResume
  /\ UNCHANGED <<tableVars, outVars, ask, held, settled, crashes, errors>>

Crash ==
  /\ at # "down" /\ crashes < MaxCrashes
  /\ crashes' = crashes + 1
  /\ at' = "down" /\ cur' = NoKey /\ msg' = NoMsg /\ todo' = {}
  /\ offered' = {}
  /\ UNCHANGED <<tableVars, outVars, ask, held, settled, authorized, errors>>

CommitSteps ==
  {"save", "claim", "prepare", "undo", "release", "accept", "post", "fail",
   "stop", "unclaim", "drop", "askFailed", "failQueued", "notice", "openTurn"}

\* A failed commit ends the handler: nothing is acknowledged.  The resume loop
\* counts a turn it could not open as one it could not dispatch.
StorageError ==
  /\ at \in CommitSteps /\ errors < MaxErrors
  /\ errors' = errors + 1
  /\ IF at = "openTurn" /\ todo # {} THEN Goto("askFailed") ELSE Return
  /\ UNCHANGED <<tableVars, outVars, kelpieVars, authorized, crashes>>

\* What the inbox thread does during a handler is seen when the handler is
\* over, or lost with it: its steps are taken while none runs.
Unseen == at \in {"idle", "down"}

\* The inbox thread reconnects and Kelpie offers what is unacknowledged.
Reconnect ==
  /\ at = "idle" /\ ~(held \subseteq offered)
  /\ offered' = offered \cup held
  /\ UNCHANGED <<tableVars, outVars, ask, held, settled, authorized, taskVars, crashes, errors>>

\* A message reaches Kelpie, and the host at once if it is connected.
Arrives(m) ==
  /\ Unseen
  /\ m \notin held \cup settled
  /\ held' = held \cup {m}
  /\ offered' = IF at = "down" THEN offered ELSE offered \cup {m}
  /\ UNCHANGED <<tableVars, outVars, ask, settled, authorized, taskVars, crashes, errors>>

OccupantReplies(m) == m \in Finals /\ ask[m.key] # "none" /\ Arrives(m)

OccupantTells(m) ==
  /\ m \in TellMsgs
  /\ \A other \in held \cup settled : other.key # m.key
  /\ Arrives(m)

Environment ==
  \/ Restart \/ Crash \/ StorageError \/ Reconnect
  \/ \E m \in Messages : OccupantReplies(m) \/ OccupantTells(m)

Next ==
  \/ OutboxNext /\ UNCHANGED <<crashes, errors>>
  \/ DispatchNext /\ UNCHANGED <<crashes, errors>>
  \/ Environment

Spec == Init /\ [][Next]_vars

-----------------------------------------------------------------------------
\* The task runs a handler it started to its end, and a stopped host is
\* started again.  `select!` takes ready branches in random order, so each
\* offered message, each due attempt and the queue tick get their turn; the
\* clock passes the dispatch bound of a turn that keeps failing.
Fairness ==
  /\ WF_vars((PublishStep \/ DispatchStep) /\ UNCHANGED <<crashes, errors>>)
  /\ WF_vars(Restart)
  /\ \A m \in Messages : SF_vars((TakeFinal(m) \/ TakeTell(m)) /\ UNCHANGED <<crashes, errors>>)
  /\ \A k \in Keys : SF_vars((RetryAttempt(k) \/ AbandonAttempt(k)) /\ UNCHANGED <<crashes, errors>>)
  /\ SF_vars(ResumeTick /\ UNCHANGED <<crashes, errors>>)
  /\ SF_vars(PastBound /\ UNCHANGED <<crashes, errors>>)

FairSpec == Spec /\ Fairness

-----------------------------------------------------------------------------
\* However often a final, a tell or a notice is sent, by however many retries,
\* redeliveries and restarts, the relay holds one event for it: resending
\* rebuilds the event of the id that was recorded (D43).
OneEventPerKey ==
  \A one, other \in relay : one.key = other.key => one = other

\* Whatever the relay has was recorded before it was sent, so a restarted host
\* knows the id of every event that may be out there (save_outbound_attempt
\* precedes publish in record_and_send).
RecordedBeforeSent ==
  \A event \in relay :
    event.id # NoEvent =>
      attempt[event.key].prepared = event.id /\ attempt[event.key].recorded

\* A turn is posted, and an attempt accepted, only for an event on the relay.
PostedIsOnRelay ==
  \A k \in Keys :
    attempt[k].accepted \/ (k \in Seqs /\ state[k] = "posted") =>
      \E event \in relay : event.key = k

\* What the database knows of the relay: every event that may be out, and none
\* that is not.
RelayIsKnown == RecordedBeforeSent /\ PostedIsOnRelay

\* An answer the channel accepted is not disowned: no edit, deletion, retry or
\* abandonment ends its turn otherwise than posted (the claim, D14).  Only a
\* second final, one the output guard refuses, fails a turn already answered.
ShownTurnKeepsItsAnswer ==
  \A n \in Seqs : attempt[n].accepted =>
    \/ state[n] \in {"open", "posted"}
    \/ /\ state[n] = "failed"
       /\ \E m \in held \cup settled : m.key = n /\ m.body \in Refused

\* Kelpie forgets a message only when nothing about it is left to do: its turn
\* has ended, or the tell went out or was given up.
AckedIsSettled ==
  \A m \in settled :
    IF m.kind = "final" THEN state[m.key] \in Terminal
    ELSE \/ m.body \in Refused \cup {Empty}
         \/ attempt[m.key].accepted \/ attempt[m.key].abandoned

\* The partial unique indexes of the turns table are never violated: one open
\* turn in a session, one live turn for a trigger.
IndexesHold ==
  \A n, m \in Seqs : n # m =>
    /\ ~(state[n] = "open" /\ state[m] = "open" /\ ChannelOfTurn(n) = ChannelOfTurn(m))
    /\ ~(Live(n) /\ Live(m) /\ trigger[n] = trigger[m])

\* A session answers in order: nothing is queued before a turn that was opened.
OldestOpensFirst ==
  \A n, m \in Seqs :
    n < m /\ ChannelOfTurn(n) = ChannelOfTurn(m) /\ m \in opened => state[n] # "queued"

\* A session's queue: one turn open, one turn for a trigger, oldest first, by
\* whichever of the three paths it is drained.
QueueIsOrdered == IndexesHold /\ OldestOpensFirst

\* An open turn is waiting for an ask the occupant holds, not for one that
\* failed or that an edit took back.
OpenTurnWasAsked ==
  \A n \in Seqs : state[n] = "open" => ask[n] = "asked"

\* A trigger is answered by at most one posted turn, edits and replays included.
OnePostedPerTrigger ==
  \A n, m \in Seqs :
    state[n] = "posted" /\ state[m] = "posted" /\ trigger[n] = trigger[m] => n = m

\* The requester is told "could not be started" only of a request that failed
\* in the queue: none of its turns is live, none was posted.
NoticeOnlyForFailed ==
  \A e \in Triggers : attempt[e].recorded =>
    /\ \E n \in Seqs \ opened : trigger[n] = e /\ state[n] = "failed"
    /\ \A n \in Seqs : trigger[n] = e => ~Live(n) /\ state[n] # "posted"

\* An event of a turn is sent only while the turn is open and claimed, so a
\* cancelled or replaced turn never speaks afterwards (I10).
SpeaksOnlyOpen ==
  [][\A event \in relay' \ relay :
       event.key \in Seqs => state[event.key] = "open" /\ claimed[event.key]]_vars

\* An attempt given up stays silent: no later tick or redelivery sends it.
AbandonedIsSilent ==
  [][\A event \in relay' \ relay : ~attempt[event.key].abandoned]_vars

\* Refuted by TLC (README, "Where the code parts from its documents"):
\* "at most one final for that triggering event" (D14): the channel shows one
\* final for a trigger, whichever of its turns published it.
OneFinalPerTrigger ==
  \A one, other \in {event \in relay : event.key \in Seqs} :
    trigger[one.key] = trigger[other.key] => one.key = other.key

\* Once an answer is recorded its turn ends, posted or failed, however the
\* relay, the clock and the restarts fall (D48).
AnswerEndsTurn ==
  \A n \in Seqs : state[n] = "open" /\ attempt[n].recorded ~> state[n] # "open"

\* Every recorded attempt is accepted or given up, tells and notices included.
AttemptsSettle ==
  \A k \in Keys : attempt[k].recorded ~> attempt[k].accepted \/ attempt[k].abandoned

\* What was answered is dealt with, in the attempt and in its turn.
AnswersSettle == AnswerEndsTurn /\ AttemptsSettle

\* The turn at the head of an idle session is opened, failed or cancelled,
\* even when every ask fails (D75).
HeadLeavesQueue ==
  \A n \in Seqs : IsNext(n) ~> state[n] # "queued"
=============================================================================
