------------------------------- MODULE Dispatch -------------------------------
(***************************************************************************)
(* From a trigger to an open turn: handle_ingest queues, replaces or       *)
(* cancels a turn, and ask_oldest_queued asks the occupant through Kelpie  *)
(* and opens the turn on the ask it got back.  resume_queued drains the    *)
(* queue, stamps dispatch failures and fails a turn past the bound.        *)
(***************************************************************************)
EXTENDS HostState

Free == at = "idle"

\* should_ask_event: nothing is open and this turn is the oldest queued, seen
\* in the table after the commit that queued row n.
ShouldAskNew(n) ==
  \A m \in Seqs \ {n} : ChannelOfTurn(m) = ChannelOf[trigger'[n]] => ~(state'[m] \in {"queued", "open"})

(* ---------------------------- relay traffic ----------------------------- *)

\* handle_trigger; a replayed trigger event finds itself processed.
HandleTrigger(e) ==
  /\ Free
  /\ e \in authorized
  /\ EnqueueUnprocessed(e)
  /\ IF ShouldAskNew(lastSeq + 1)
       THEN at' = "ask" /\ cur' = lastSeq + 1 /\ msg' = NoMsg /\ todo' = {}
       ELSE UNCHANGED taskVars
  /\ UNCHANGED <<outVars, kelpieVars, authorized>>

\* An unauthorized requester is declined: processed, and never queued.
DeclineTrigger(e) ==
  /\ Free
  /\ e \notin authorized /\ e \notin processed
  /\ processed' = processed \cup {e}
  /\ UNCHANGED <<state, trigger, claimed, opened, lastSeq, failedAt>>
  /\ UNCHANGED <<outVars, kelpieVars, authorized, taskVars>>

\* After a replacement the new row is asked if it is first, or the queue drains.
AskReplacement(n) ==
  IF ShouldAskNew(n)
    THEN at' = "ask" /\ cur' = n /\ msg' = NoMsg /\ todo' = {}
    ELSE StartResume

\* handle_edit: the turn of an edited trigger is replaced unless it is claimed.
HandleEdit(n) ==
  /\ Free
  /\ trigger[n] \in authorized
  /\ ReplaceUnclaimed(n)
  /\ IF n \in opened
       THEN at' = "cancelAsk" /\ cur' = n /\ msg' = NoMsg /\ todo' = {}
       ELSE AskReplacement(lastSeq + 1)
  /\ UNCHANGED <<outVars, kelpieVars, authorized>>

\* abandon_unclaimed: a deletion, or an edit that is no longer a trigger.
HandleDelete(n) ==
  /\ Free
  /\ CancelUnclaimed(n)
  /\ IF n \in opened
       THEN at' = "cancelAsk" /\ cur' = n /\ msg' = NoMsg /\ todo' = {}
       ELSE StartResume
  /\ UNCHANGED <<outVars, kelpieVars, authorized>>

\* `kelpie cancel` of the ask of the turn just cancelled.  When it fails the
\* handler returns its error and does nothing more.
CancelAsk ==
  /\ at = "cancelAsk"
  /\ ask' = [ask EXCEPT ![cur] = "cancelled"]
  /\ LET replaced == {n \in Seqs : Live(n) /\ trigger[n] = trigger[cur]}
     IN IF replaced = {} THEN StartResume
        ELSE \E n \in replaced : IF IsNext(n)
               THEN at' = "ask" /\ cur' = n /\ UNCHANGED <<msg, todo>>
               ELSE StartResume
  /\ UNCHANGED <<tableVars, outVars, held, settled, offered, authorized>>

CancelAskFails ==
  /\ at = "cancelAsk"
  /\ \E left \in {ask[cur], "cancelled"} : ask' = [ask EXCEPT ![cur] = left]
  /\ Return
  /\ UNCHANGED <<tableVars, outVars, held, settled, offered, authorized>>

(* ------------------------------- the queue ------------------------------ *)

\* Every 30 s, at startup, and after a turn ended.
ResumeTick ==
  /\ Free /\ StartResume
  /\ UNCHANGED <<tableVars, outVars, kelpieVars, authorized>>

Candidates == {n \in Seqs : IsNext(n) /\ ChannelOfTurn(n) \in todo}

ResumeNext(n) ==
  /\ at = "resume" /\ n \in Candidates
  /\ trigger[n] \in authorized
  /\ at' = "resumeAsk" /\ cur' = n /\ UNCHANGED <<msg, todo>>
  /\ UNCHANGED <<tableVars, outVars, kelpieVars, authorized>>

\* Queued work whose requester lost authorization is cancelled, unasked.
ResumeCancels(n) ==
  /\ at = "resume" /\ n \in Candidates
  /\ trigger[n] \notin authorized
  /\ CloseQueued(n, "cancelled")
  /\ at' = "resume" /\ cur' = NoKey /\ msg' = NoMsg
  /\ todo' = todo \ {ChannelOfTurn(n)}
  /\ UNCHANGED <<outVars, kelpieVars, authorized>>

ResumeEnds ==
  /\ at = "resume" /\ Candidates = {}
  /\ Return
  /\ UNCHANGED <<tableVars, outVars, kelpieVars, authorized>>

\* `kelpie ask` with the key <event>:<sequence>: asking again returns the
\* message of the first ask, so a turn has one ask however often it is tried.
Asking == at \in {"ask", "resumeAsk"}

AskDelivered ==
  /\ Asking
  /\ ask' = [ask EXCEPT ![cur] = "asked"]
  /\ Goto("openTurn")
  /\ UNCHANGED <<tableVars, outVars, held, settled, offered, authorized>>

\* Mutant: a refused ask is taken for a delivered one.
AskRefusalIgnored ==
  /\ Asking
  /\ \E left \in {ask[cur], "asked", "cancelled"} : ask' = [ask EXCEPT ![cur] = left]
  /\ Goto("openTurn")
  /\ UNCHANGED <<tableVars, outVars, held, settled, offered, authorized>>

\* The ask was refused and cancelled, or delivered with its receipt lost, or
\* the occupant could not be started: the error ends a trigger's handler, and
\* the resume loop records it.
AskFails ==
  /\ Asking
  /\ \E left \in {ask[cur], "asked", "cancelled"} : ask' = [ask EXCEPT ![cur] = left]
  /\ IF at = "ask" THEN Return ELSE Goto("askFailed")
  /\ UNCHANGED <<tableVars, outVars, held, settled, offered, authorized>>

\* open_next_turn picks its own row; the cursor of the ask does not choose it.
OpenTurn ==
  /\ at = "openTurn"
  /\ \E n \in Seqs : ChannelOfTurn(n) = ChannelOfTurn(cur) /\ OpenNextTurn(n)
  /\ Return
  /\ UNCHANGED <<outVars, kelpieVars, authorized>>

\* Go on with the sessions resume_queued has not looked at.
Continue ==
  /\ at' = "resume" /\ cur' = NoKey /\ msg' = NoMsg
  /\ todo' = todo \ {ChannelOfTurn(cur)}

DispatchFailed ==
  /\ at = "askFailed"
  /\ RecordDispatchFailure(cur)
  /\ Continue
  /\ UNCHANGED <<outVars, kelpieVars, authorized>>

\* The recorded first failure is DISPATCH_FAILURE_BOUND_SECS old.
PastBound ==
  /\ LongOutage
  /\ at = "askFailed" /\ cur \in failedAt
  /\ Goto("failQueued")
  /\ UNCHANGED <<tableVars, outVars, kelpieVars, authorized>>

\* Mutant: the requester is told, and the turn stays queued.
NoticeWithoutFailing ==
  /\ at = "failQueued"
  /\ Goto("notice")
  /\ UNCHANGED <<tableVars, outVars, kelpieVars, authorized>>

FailUndispatched ==
  /\ at = "failQueued"
  /\ CloseQueued(cur, "failed")
  /\ Goto("notice")
  /\ UNCHANGED <<outVars, kelpieVars, authorized>>

\* The requester's notice is an attempt of its own, sent by the next tick.
RecordNotice ==
  /\ at = "notice"
  /\ attempt' = [attempt EXCEPT ![trigger[cur]] =
       [@ EXCEPT !.recorded = TRUE, !.body = NoticeBody, !.dispatched = FALSE, !.retries = 0]]
  /\ Continue
  /\ UNCHANGED <<tableVars, relay, kelpieVars, authorized>>

DispatchStep ==
  \/ CancelAsk \/ CancelAskFails
  \/ \E n \in Seqs : ResumeNext(n) \/ ResumeCancels(n)
  \/ ResumeEnds \/ AskDelivered \/ AskFails \/ OpenTurn
  \/ DispatchFailed \/ PastBound \/ FailUndispatched \/ RecordNotice

DispatchNext ==
  \/ \E e \in Triggers : HandleTrigger(e) \/ DeclineTrigger(e)
  \/ \E n \in Seqs : HandleEdit(n) \/ HandleDelete(n)
  \/ ResumeTick \/ DispatchStep
=============================================================================
