-------------------------------- MODULE Outbox --------------------------------
(***************************************************************************)
(* From an occupant's answer to the channel: handle_delivery_with_feedback *)
(* takes a message Kelpie offered, complete_outbound or publish_initiated  *)
(* persists, claims, prepares, sends and closes, and the tick resends what *)
(* was not accepted (retry_outbound).  One action per commit or call.      *)
(***************************************************************************)
EXTENDS HostState

Idle == at = "idle"

\* An event prepared once is never prepared with another payload.
PayloadIsMutable(row) ==
  ~row.accepted /\ row.prepared = NoEvent /\ ~row.dispatched

\* Mutant: rows of the old path are resent like any other.
SentUnderNoOldPath(row) == FALSE

\* A row written before prepared ids existed: its send may have landed.
SentUnderOldPath(row) == row.dispatched /\ row.prepared = NoEvent

\* turn_by_ask_id finds a turn only once open_next_turn stored the ask id.
HasTurn(key) == key \in Seqs /\ key \in opened

Ended(k) == HasTurn(k) /\ state[k] \in {"posted", "failed"}

\* What follows the last commit: a delivery is acknowledged, the tick goes on.
Finish(ended) ==
  IF msg # NoMsg THEN Goto("ack") ELSE IF ended THEN StartResume ELSE Return

(* -------------------------- the inbox delivery -------------------------- *)

\* `decide` on a final: hold it, acknowledge it unpublished, or publish it.
Decide(m) ==
  IF ~HasTurn(m.key) THEN "hold"
  ELSE IF m.body = Empty
    THEN IF state[m.key] = "posted" THEN "ack" ELSE "hold"
    ELSE IF state[m.key] \in Terminal THEN "ack"
    ELSE IF m.body \in Refused THEN "fail" ELSE "save"

TakeFinal(m) ==
  /\ Idle /\ m \in offered /\ m.kind = "final"
  /\ offered' = offered \ {m}
  /\ IF Decide(m) = "hold"
       THEN UNCHANGED taskVars
       ELSE at' = Decide(m) /\ cur' = m.key /\ msg' = m /\ todo' = {}
  /\ UNCHANGED <<tableVars, outVars, ask, held, settled, authorized>>

\* A tell with nothing to publish, or refused, is acknowledged unpublished.
TakeTell(m) ==
  /\ Idle /\ m \in offered /\ m.kind = "tell"
  /\ offered' = offered \ {m}
  /\ at' = IF m.body \in Refused \cup {Empty} THEN "ack" ELSE "save"
  /\ cur' = m.key /\ msg' = m /\ todo' = {}
  /\ UNCHANGED <<tableVars, outVars, ask, held, settled, authorized>>

\* Acknowledging closes the message in Kelpie; a lost or repeated ack breaks
\* the connection, and the new one is offered whatever is still open.
Ack ==
  /\ at = "ack"
  /\ \/ /\ msg \in held
        /\ held' = held \ {msg} /\ settled' = settled \cup {msg}
        /\ UNCHANGED offered
     \/ offered' = offered \cup held /\ UNCHANGED <<held, settled>>
  /\ IF HasTurn(cur) /\ state[cur] = "posted" THEN StartResume ELSE Return
  /\ UNCHANGED <<tableVars, outVars, ask, authorized>>

(* --------------------------- the publish path --------------------------- *)

\* The stored row decides: a later body replaces only an unprepared one.
SaveAttempt ==
  /\ at = "save"
  /\ LET row == attempt[cur]
         body == IF msg # NoMsg /\ PayloadIsMutable(row) THEN msg.body ELSE row.body
     IN /\ attempt' = [attempt EXCEPT ![cur].recorded = TRUE, ![cur].body = body]
        /\ IF cur \in Seqs
             THEN Goto(IF row.abandoned THEN "fail"
                       ELSE IF row.accepted THEN "post"
                       ELSE IF SentUnderOldPath(row) THEN "fail" ELSE "claim")
             ELSE Goto(IF row.accepted \/ row.abandoned \/ SentUnderOldPath(row)
                       THEN "ack" ELSE "prepare")
  /\ UNCHANGED <<tableVars, relay, kelpieVars, authorized>>

\* Mutant: the open turn is published without a claim.
PublishUnclaimed ==
  /\ at = "claim"
  /\ IF state[cur] = "open" THEN Goto("prepare") ELSE Finish(Ended(cur))
  /\ UNCHANGED <<tableVars, outVars, kelpieVars, authorized>>

\* A claim left by a crash is kept; without one the turn must still be open.
ClaimTurn ==
  /\ at = "claim"
  /\ ClaimForPublish(cur)
  /\ IF state[cur] = "open" THEN Goto("prepare") ELSE Finish(Ended(cur))
  /\ UNCHANGED <<outVars, kelpieVars, authorized>>

\* The event a row prepares: its timestamp is fixed the first time.
Rebuilt(row, now) ==
  [body |-> row.body, created |-> IF row.prepared = NoEvent THEN now ELSE row.prepared.created]

\* Record before send: the id and `dispatched` are durable before the call.
Prepare ==
  /\ at = "prepare"
  /\ \E now \in Times :
       LET id == Rebuilt(attempt[cur], now)
       IN /\ attempt[cur].prepared \in {NoEvent, id}
          /\ attempt' = [attempt EXCEPT ![cur].prepared = id, ![cur].dispatched = TRUE]
  /\ Goto("send")
  /\ UNCHANGED <<tableVars, relay, kelpieVars, authorized>>

GiveUp == Goto(IF cur \in Seqs THEN "fail" ELSE "stop")

\* The event cannot be built, or no longer matches the recorded id.
PrepareFails ==
  /\ at = "prepare"
  /\ GiveUp
  /\ UNCHANGED <<tableVars, outVars, kelpieVars, authorized>>

Sent == [key |-> cur, id |-> attempt[cur].prepared]

SendAccepted ==
  /\ at = "send"
  /\ relay' = relay \cup {Sent}
  /\ Goto("accept")
  /\ UNCHANGED <<tableVars, attempt, kelpieVars, authorized>>

\* Mutant: a timeout is taken for the relay's acceptance.
SendPresumedAccepted ==
  /\ at = "send"
  /\ relay' \in {relay, relay \cup {Sent}}
  /\ Goto("accept")
  /\ UNCHANGED <<tableVars, attempt, kelpieVars, authorized>>

\* A drop or a timeout: the relay may or may not have stored the event.
SendNotAccepted ==
  /\ at = "send"
  /\ relay' \in {relay, relay \cup {Sent}}
  /\ Goto("undo")
  /\ UNCHANGED <<tableVars, attempt, kelpieVars, authorized>>

SendRejected ==
  /\ at = "send"
  /\ GiveUp
  /\ UNCHANGED <<tableVars, outVars, kelpieVars, authorized>>

\* Mutant: the recorded id is reset together with the flag.
UndoPrepare ==
  /\ at = "undo"
  /\ attempt' = [attempt EXCEPT ![cur].dispatched = FALSE, ![cur].prepared = NoEvent]
  /\ IF cur \in Seqs THEN Goto("release") ELSE Return
  /\ UNCHANGED <<tableVars, relay, kelpieVars, authorized>>

\* After a retryable failure the row is undispatched again.
UndoDispatch ==
  /\ at = "undo"
  /\ attempt' = [attempt EXCEPT ![cur].dispatched = FALSE]
  /\ IF cur \in Seqs THEN Goto("release") ELSE Return
  /\ UNCHANGED <<tableVars, relay, kelpieVars, authorized>>

\* Mutant: the failed delivery is acknowledged all the same.
ReleaseAndAck ==
  /\ at = "release"
  /\ ReleasePublishClaim(cur)
  /\ Finish(FALSE)
  /\ UNCHANGED <<outVars, kelpieVars, authorized>>

\* The claim is dropped and the delivery is not acknowledged.
ReleaseClaim ==
  /\ at = "release"
  /\ ReleasePublishClaim(cur)
  /\ Return
  /\ UNCHANGED <<outVars, kelpieVars, authorized>>

MarkAccepted ==
  /\ at = "accept"
  /\ attempt' = [attempt EXCEPT ![cur].accepted = TRUE]
  /\ IF cur \in Seqs THEN Goto("post") ELSE Finish(FALSE)
  /\ UNCHANGED <<tableVars, relay, kelpieVars, authorized>>

MarkPosted ==
  /\ at = "post"
  /\ SetTurnState(cur, "posted")
  /\ Finish(TRUE)
  /\ UNCHANGED <<outVars, kelpieVars, authorized>>

FailTurn ==
  /\ at = "fail"
  /\ SetTurnState(cur, "failed")
  /\ Finish(TRUE)
  /\ UNCHANGED <<outVars, kelpieVars, authorized>>

\* stop_tell_retries
StopRetries ==
  /\ at = "stop"
  /\ attempt' = [attempt EXCEPT ![cur].abandoned = TRUE]
  /\ Finish(FALSE)
  /\ UNCHANGED <<tableVars, relay, kelpieVars, authorized>>

(* ------------------------------- the tick ------------------------------- *)

\* Mutant: an abandoned attempt is still pending.
PendingForever(row) == row.recorded /\ ~row.accepted

\* pending_outbound_attempts
Pending(row) == row.recorded /\ ~row.accepted /\ ~row.abandoned

\* Mutant: off by one at the cap.
BoundPassed(row) == row.retries > RetryCap \/ SentUnderOldPath(row)

BoundReached(row) == row.retries >= RetryCap \/ SentUnderOldPath(row)

\* Pace the attempt, then resend it if its turn is still open.
RetryAttempt(k) ==
  /\ Idle /\ Pending(attempt[k]) /\ ~BoundReached(attempt[k])
  /\ attempt' = [attempt EXCEPT ![k].retries = @ + 1]
  /\ at' = IF ~HasTurn(k) THEN "prepare" ELSE IF state[k] = "open" THEN "save" ELSE "drop"
  /\ cur' = k /\ msg' = NoMsg /\ todo' = {}
  /\ UNCHANGED <<tableVars, relay, kelpieVars, authorized>>

\* The turn closed without the attempt: nothing will resend it.
DropAttempt ==
  /\ at = "drop"
  /\ attempt' = [attempt EXCEPT ![cur].abandoned = TRUE]
  /\ Finish(Ended(cur))
  /\ UNCHANGED <<tableVars, relay, kelpieVars, authorized>>

AbandonAttempt(k) ==
  /\ Idle /\ Pending(attempt[k]) /\ BoundReached(attempt[k])
  /\ attempt' = [attempt EXCEPT ![k].abandoned = TRUE]
  /\ IF HasTurn(k) /\ state[k] = "open"
       THEN at' = "unclaim" /\ cur' = k /\ msg' = NoMsg /\ todo' = {}
       ELSE IF Ended(k) THEN StartResume ELSE Return
  /\ UNCHANGED <<tableVars, relay, kelpieVars, authorized>>

\* Mutant: the abandoned turn is left open.
AbandonOnlyReleases ==
  /\ at = "unclaim"
  /\ ReleasePublishClaim(cur)
  /\ Finish(FALSE)
  /\ UNCHANGED <<outVars, kelpieVars, authorized>>

AbandonReleases ==
  /\ at = "unclaim"
  /\ ReleasePublishClaim(cur)
  /\ Goto("fail")
  /\ UNCHANGED <<outVars, kelpieVars, authorized>>

PublishStep ==
  \/ Ack \/ SaveAttempt \/ ClaimTurn \/ Prepare \/ PrepareFails
  \/ SendAccepted \/ SendNotAccepted \/ SendRejected
  \/ UndoDispatch \/ ReleaseClaim \/ MarkAccepted \/ MarkPosted \/ FailTurn
  \/ StopRetries \/ DropAttempt \/ AbandonReleases

OutboxNext ==
  \/ \E m \in offered : TakeFinal(m) \/ TakeTell(m)
  \/ \E k \in Keys : RetryAttempt(k) \/ AbandonAttempt(k)
  \/ PublishStep
=============================================================================
