------------------------------ MODULE HostSafety ------------------------------
(***************************************************************************)
(* The safety of the host, for every set of triggers, sessions, bodies and *)
(* tells, every retry cap and any number of edits, deletions, replays,     *)
(* crashes and failed commits.  Publishing: one event for each key,        *)
(* recorded before it is sent, posted only when the relay has it, and sent *)
(* only for an open, claimed turn.  The queue: the partial unique indexes  *)
(* of the turns table are never violated, no turn overtakes an older one   *)
(* of its session, an open turn has its ask, and the requester is told of  *)
(* a failure only when the request failed.  The answers: one the channel   *)
(* accepted keeps its turn, Kelpie is told to forget a message only when   *)
(* nothing about it is left to do, and with the order of the queue the     *)
(* host implements AnswerLedger.                                           *)
(***************************************************************************)
EXTENDS HostLedger, TLAPS

-----------------------------------------------------------------------------
(* --------------------------- type correctness -------------------------- *)

\* A handler that is under way has something to work on.
CursorOK ==
  /\ at \in PublishSteps => cur \in Keys
  /\ at \in DispatchSteps \ {"resume"} => cur \in Seqs
  /\ at = "ack" \/ (at = "save" /\ cur \notin Seqs) => msg \in Messages

TypeInv == HostTypeOK /\ CursorOK

-----------------------------------------------------------------------------
(* The statements of the turns table keep its rows well formed.            *)

LEMMA SeqsAreNat == Seqs \subseteq Nat /\ \A n \in Nat : n < MaxTurns => n + 1 \in Seqs
  BY TurnTableAssumption DEF TurnTableAssumption, Seqs

LEMMA InsertKeepsType ==
  ASSUME TableTypeOK, NEW e \in Triggers, InsertQueued(e)
  PROVE  /\ lastSeq' \in 0..MaxTurns /\ trigger' \in [Seqs -> Triggers]
         /\ lastSeq + 1 \in Seqs
  BY TurnTableAssumption DEF TurnTableAssumption, TableTypeOK, InsertQueued, Seqs

LEMMA EnqueueKeepsType ==
  ASSUME TableTypeOK, NEW e \in Triggers, EnqueueUnprocessed(e)
  PROVE  TableTypeOK'
  BY InsertKeepsType DEF TableTypeOK, EnqueueUnprocessed, States, Seqs

LEMMA SetTurnStateKeepsType ==
  ASSUME TableTypeOK, NEW n, NEW to \in States, SetTurnState(n, to)
  PROVE  TableTypeOK'
  BY DEF TableTypeOK, SetTurnState, Seqs

LEMMA ClaimKeepsType ==
  ASSUME TableTypeOK, NEW n, ClaimForPublish(n) \/ ReleasePublishClaim(n)
  PROVE  TableTypeOK'
  BY DEF TableTypeOK, ClaimForPublish, ReleasePublishClaim, Seqs

LEMMA OpenKeepsType ==
  ASSUME TableTypeOK, NEW n \in Seqs, OpenNextTurn(n)
  PROVE  TableTypeOK'
  BY DEF TableTypeOK, OpenNextTurn, States, Seqs

LEMMA CancelKeepsType ==
  ASSUME TableTypeOK, NEW n \in Seqs, CancelUnclaimed(n)
  PROVE  TableTypeOK'
  BY DEF TableTypeOK, CancelUnclaimed, States, Seqs

LEMMA ReplaceKeepsType ==
  ASSUME TableTypeOK, NEW n \in Seqs, ReplaceUnclaimed(n)
  PROVE  TableTypeOK'
<1>1. trigger[n] \in Triggers
  BY DEF TableTypeOK
<1> QED
  BY <1>1, InsertKeepsType DEF TableTypeOK, ReplaceUnclaimed, States, Seqs

LEMMA RecordFailureKeepsType ==
  ASSUME TableTypeOK, NEW n \in Seqs, RecordDispatchFailure(n)
  PROVE  TableTypeOK'
  BY DEF TableTypeOK, RecordDispatchFailure, Seqs

LEMMA CloseKeepsType ==
  ASSUME TableTypeOK, NEW n \in Seqs, NEW to \in States, CloseQueued(n, to)
  PROVE  TableTypeOK'
  BY DEF TableTypeOK, CloseQueued, Seqs

LEMMA TableUnchanged ==
  ASSUME TableTypeOK, UNCHANGED tableVars
  PROVE  TableTypeOK'
  BY DEF TableTypeOK, tableVars, Seqs

-----------------------------------------------------------------------------
(* Each step of the outbox.                                                *)

LEMMA TakeFinalType ==
  ASSUME TypeInv, NEW m \in Messages, TakeFinal(m)
  PROVE  TypeInv'
<1>1. m.key \in Seqs /\ m.key \in Keys
  BY DEF TakeFinal, Messages, Finals, TellMsgs, Keys
<1>2. Decide(m) \in {"hold", "ack", "fail", "save"}
  BY DEF Decide
<1> QED
  BY <1>1, <1>2, TableUnchanged
  DEF TypeInv, HostTypeOK, CursorOK, TakeFinal, outVars, taskVars, Steps, PublishSteps, DispatchSteps

LEMMA TakeTellType ==
  ASSUME TypeInv, NEW m \in Messages, TakeTell(m)
  PROVE  TypeInv'
<1>1. m.key \in Keys
  BY DEF TakeTell, Messages, Finals, TellMsgs, Keys
<1> QED
  BY <1>1, TableUnchanged
  DEF TypeInv, HostTypeOK, CursorOK, TakeTell, outVars, Steps, PublishSteps, DispatchSteps

\* Writing one column of an attempt keeps the rows well formed.
LEMMA AttemptFields ==
  ASSUME attempt \in [Keys -> Attempts], NEW k \in Keys
  PROVE  /\ \A body \in Texts :
              [attempt EXCEPT ![k].recorded = TRUE, ![k].body = body] \in [Keys -> Attempts]
         /\ \A id \in EventIds :
              [attempt EXCEPT ![k].prepared = id, ![k].dispatched = TRUE] \in [Keys -> Attempts]
         /\ [attempt EXCEPT ![k].dispatched = FALSE] \in [Keys -> Attempts]
         /\ [attempt EXCEPT ![k].accepted = TRUE] \in [Keys -> Attempts]
         /\ [attempt EXCEPT ![k].abandoned = TRUE] \in [Keys -> Attempts]
  BY DEF Attempts

\* The two places a handler ends at, and where it goes next.
LEMMA FinishType ==
  ASSUME TypeInv, NEW ended, Finish(ended), cur \in Keys
  PROVE  /\ at' \in Steps /\ cur' \in Keys \cup {NoKey} /\ msg' \in Messages \cup {NoMsg}
         /\ todo' \subseteq Channels /\ CursorOK'
  BY DEF TypeInv, HostTypeOK, CursorOK, Finish, Goto, Return, StartResume, Steps, PublishSteps, DispatchSteps

LEMMA PublishStepType ==
  ASSUME TypeInv, PublishStep
  PROVE  TypeInv'
<1> USE DEF TypeInv
<1>0. at \in PublishSteps /\ cur \in Keys
  BY DEF HostTypeOK, CursorOK, PublishStep, PublishSteps, Ack, SaveAttempt, ClaimTurn, Prepare,
    PrepareFails, SendAccepted, SendNotAccepted, SendRejected, UndoDispatch, ReleaseClaim,
    MarkAccepted, MarkPosted, FailTurn, StopRetries, DropAttempt, AbandonReleases
<1>1. CASE Ack
  BY <1>0, <1>1, TableUnchanged DEF Ack, HostTypeOK, CursorOK, StartResume, Return, outVars, Steps,
    PublishSteps, DispatchSteps
<1>2. CASE SaveAttempt
  <2> DEFINE row == attempt[cur]
             body == IF msg # NoMsg /\ PayloadIsMutable(row) THEN msg.body ELSE row.body
  <2>1. body \in Texts
    BY <1>0 DEF HostTypeOK, Attempts, Messages, Finals, TellMsgs, Texts
  <2>2. attempt' \in [Keys -> Attempts]
    BY <1>0, <1>2, <2>1, AttemptFields DEF SaveAttempt, HostTypeOK
  <2>3. /\ at' \in {"fail", "post", "claim", "ack", "prepare"}
        /\ at' = "ack" => cur \notin Seqs
        /\ UNCHANGED <<cur, msg, todo>>
    BY <1>2 DEF SaveAttempt, Goto
  <2> QED
    BY <1>0, <1>2, <2>2, <2>3, TableUnchanged
    DEF SaveAttempt, HostTypeOK, CursorOK, kelpieVars, Steps, PublishSteps, DispatchSteps
<1>3. CASE ClaimTurn
  <2>1. TableTypeOK'
    BY <1>3, ClaimKeepsType DEF ClaimTurn, HostTypeOK
  <2>2. CASE state[cur] = "open"
    BY <1>0, <1>3, <2>1, <2>2 DEF ClaimTurn, Goto, HostTypeOK, CursorOK, outVars, kelpieVars,
      Steps, PublishSteps, DispatchSteps
  <2>3. CASE state[cur] # "open"
    BY <1>0, <1>3, <2>1, <2>3, FinishType DEF ClaimTurn, HostTypeOK, outVars, kelpieVars
  <2> QED
    BY <2>2, <2>3
<1>4. CASE Prepare
  <2>1. PICK now \in Times :
          LET id == Rebuilt(attempt[cur], now)
          IN  attempt' = [attempt EXCEPT ![cur].prepared = id, ![cur].dispatched = TRUE]
    BY <1>4 DEF Prepare
  <2>2. Rebuilt(attempt[cur], now) \in EventIds
    BY <1>0 DEF Rebuilt, EventIds, HostTypeOK, Attempts
  <2>3. attempt' \in [Keys -> Attempts]
    BY <1>0, <2>1, <2>2, AttemptFields DEF HostTypeOK
  <2> QED
    BY <1>0, <1>4, <2>3, TableUnchanged DEF Prepare, Goto, HostTypeOK, CursorOK, kelpieVars,
      Steps, PublishSteps, DispatchSteps
<1>5. CASE PrepareFails
  BY <1>0, <1>5, TableUnchanged DEF PrepareFails, GiveUp, Goto, HostTypeOK, CursorOK, outVars,
    kelpieVars, Steps, PublishSteps, DispatchSteps
<1>6. CASE SendAccepted \/ SendNotAccepted
  <2>1. Sent \in RelayEvents
    BY <1>0 DEF Sent, RelayEvents, HostTypeOK, Attempts
  <2>2. /\ at' \in {"accept", "undo"} /\ UNCHANGED <<cur, msg, todo>>
        /\ relay' \subseteq relay \cup {Sent}
    BY <1>6 DEF SendAccepted, SendNotAccepted, Goto
  <2> QED
    BY <1>0, <1>6, <2>1, <2>2, TableUnchanged DEF SendAccepted, SendNotAccepted, HostTypeOK,
      CursorOK, kelpieVars, Steps, PublishSteps, DispatchSteps
<1>7. CASE SendRejected
  BY <1>0, <1>7, TableUnchanged DEF SendRejected, GiveUp, Goto, HostTypeOK, CursorOK, outVars,
    kelpieVars, Steps, PublishSteps, DispatchSteps
<1>8. CASE UndoDispatch
  <2>1. attempt' \in [Keys -> Attempts]
    BY <1>0, <1>8, AttemptFields DEF UndoDispatch, HostTypeOK
  <2> QED
    BY <1>0, <1>8, <2>1, TableUnchanged DEF UndoDispatch, Goto, Return, HostTypeOK, CursorOK,
      kelpieVars, Steps, PublishSteps, DispatchSteps
<1>9. CASE ReleaseClaim
  <2>1. TableTypeOK'
    BY <1>9, ClaimKeepsType DEF ReleaseClaim, HostTypeOK
  <2> QED
    BY <1>9, <2>1 DEF ReleaseClaim, Return, HostTypeOK, CursorOK, outVars, kelpieVars, Steps,
      PublishSteps, DispatchSteps
<1>10. CASE MarkAccepted
  <2>1. attempt' \in [Keys -> Attempts]
    BY <1>0, <1>10, AttemptFields DEF MarkAccepted, HostTypeOK
  <2>2. CASE cur \in Seqs
    BY <1>0, <1>10, <2>1, <2>2, TableUnchanged DEF MarkAccepted, Goto, HostTypeOK, CursorOK,
      kelpieVars, Steps, PublishSteps, DispatchSteps
  <2>3. CASE cur \notin Seqs
    BY <1>0, <1>10, <2>1, <2>3, TableUnchanged, FinishType DEF MarkAccepted, HostTypeOK, kelpieVars
  <2> QED
    BY <2>2, <2>3
<1>11. CASE MarkPosted
  <2>1. TableTypeOK'
    BY <1>11, SetTurnStateKeepsType DEF MarkPosted, HostTypeOK, States
  <2> QED
    BY <1>0, <1>11, <2>1, FinishType DEF MarkPosted, HostTypeOK, outVars, kelpieVars
<1>12. CASE FailTurn
  <2>1. TableTypeOK'
    BY <1>12, SetTurnStateKeepsType DEF FailTurn, HostTypeOK, States
  <2> QED
    BY <1>0, <1>12, <2>1, FinishType DEF FailTurn, HostTypeOK, outVars, kelpieVars
<1>13. CASE StopRetries
  <2>1. attempt' \in [Keys -> Attempts]
    BY <1>0, <1>13, AttemptFields DEF StopRetries, HostTypeOK
  <2> QED
    BY <1>0, <1>13, <2>1, TableUnchanged, FinishType DEF StopRetries, HostTypeOK, kelpieVars
<1>14. CASE DropAttempt
  <2>1. attempt' \in [Keys -> Attempts]
    BY <1>0, <1>14, AttemptFields DEF DropAttempt, HostTypeOK
  <2> QED
    BY <1>0, <1>14, <2>1, TableUnchanged, FinishType DEF DropAttempt, HostTypeOK, kelpieVars
<1>15. CASE AbandonReleases
  <2>1. TableTypeOK'
    BY <1>15, ClaimKeepsType DEF AbandonReleases, HostTypeOK
  <2> QED
    BY <1>0, <1>15, <2>1 DEF AbandonReleases, Goto, HostTypeOK, CursorOK, outVars, kelpieVars,
      Steps, PublishSteps, DispatchSteps
<1> QED
  BY <1>1, <1>2, <1>3, <1>4, <1>5, <1>6, <1>7, <1>8, <1>9, <1>10, <1>11, <1>12, <1>13, <1>14,
    <1>15 DEF PublishStep

LEMMA RetryAttemptType ==
  ASSUME TypeInv, NEW k \in Keys, RetryAttempt(k)
  PROVE  TypeInv'
<1> USE DEF TypeInv
<1>1. attempt[k] \in Attempts /\ attempt[k].retries + 1 \in 0..RetryCap
  BY HostStateAssumption DEF RetryAttempt, BoundReached, HostTypeOK, Attempts, HostStateAssumption
<1>2. attempt' \in [Keys -> Attempts]
  BY <1>1 DEF RetryAttempt, HostTypeOK, Attempts
<1>3. at' \in {"prepare", "save", "drop"} /\ (at' = "save" => k \in Seqs)
  BY DEF RetryAttempt, HasTurn
<1> QED
  BY <1>2, <1>3, TableUnchanged DEF RetryAttempt, HostTypeOK, CursorOK, kelpieVars, Steps,
    PublishSteps, DispatchSteps

LEMMA AbandonAttemptType ==
  ASSUME TypeInv, NEW k \in Keys, AbandonAttempt(k)
  PROVE  TypeInv'
<1> USE DEF TypeInv
<1>1. attempt' \in [Keys -> Attempts]
  BY AttemptFields DEF AbandonAttempt, HostTypeOK
<1> QED
  BY <1>1, TableUnchanged DEF AbandonAttempt, StartResume, Return, HostTypeOK, CursorOK, kelpieVars,
    Steps, PublishSteps, DispatchSteps

LEMMA OutboxType ==
  ASSUME TypeInv, OutboxNext
  PROVE  TypeInv'
<1>1. offered \subseteq Messages
  BY DEF TypeInv, HostTypeOK
<1> QED
  BY <1>1, TakeFinalType, TakeTellType, RetryAttemptType, AbandonAttemptType, PublishStepType
  DEF OutboxNext

-----------------------------------------------------------------------------
(* Each step of the dispatcher.                                            *)

\* Where a handler of the dispatcher goes, and on which row.
LEMMA DispatchGoes ==
  ASSUME TypeInv, at' \in {"idle", "resume"} \/ (at' \in DispatchSteps /\ cur' \in Seqs),
         at' \in {"idle", "resume"} => cur' = NoKey,
         msg' \in {msg, NoMsg}, todo' \subseteq Channels
  PROVE  /\ at' \in Steps /\ cur' \in Keys \cup {NoKey} /\ msg' \in Messages \cup {NoMsg}
         /\ CursorOK'
  BY DEF TypeInv, HostTypeOK, CursorOK, Keys, Steps, PublishSteps, DispatchSteps

LEMMA RelayTrafficType ==
  ASSUME TypeInv,
         \/ \E e \in Triggers : HandleTrigger(e) \/ DeclineTrigger(e)
         \/ \E n \in Seqs : HandleEdit(n) \/ HandleDelete(n)
  PROVE  TypeInv'
<1> USE DEF TypeInv
<1>1. ASSUME NEW e \in Triggers, HandleTrigger(e)
      PROVE  TypeInv'
  <2>1. TableTypeOK' /\ lastSeq + 1 \in Seqs
    BY <1>1, EnqueueKeepsType, InsertKeepsType DEF HandleTrigger, EnqueueUnprocessed, HostTypeOK
  <2> QED
    BY <1>1, <2>1 DEF HandleTrigger, HostTypeOK, CursorOK, outVars, kelpieVars, taskVars, Keys,
      Steps, PublishSteps, DispatchSteps
<1>2. ASSUME NEW e \in Triggers, DeclineTrigger(e)
      PROVE  TypeInv'
  <2>1. TableTypeOK'
    BY <1>2 DEF DeclineTrigger, HostTypeOK, TableTypeOK, Seqs
  <2> QED
    BY <1>2, <2>1 DEF DeclineTrigger, HostTypeOK, CursorOK, outVars, kelpieVars, taskVars
<1>3. ASSUME NEW n \in Seqs, HandleEdit(n)
      PROVE  TypeInv'
  <2>1. TableTypeOK' /\ lastSeq + 1 \in Seqs
    <3>1. trigger[n] \in Triggers
      BY DEF HostTypeOK, TableTypeOK
    <3> QED
      BY <1>3, <3>1, ReplaceKeepsType, InsertKeepsType DEF HandleEdit, ReplaceUnclaimed, HostTypeOK
  <2> QED
    BY <1>3, <2>1 DEF HandleEdit, AskReplacement, StartResume, HostTypeOK, CursorOK, outVars,
      kelpieVars, Keys, Steps, PublishSteps, DispatchSteps
<1>4. ASSUME NEW n \in Seqs, HandleDelete(n)
      PROVE  TypeInv'
  <2>1. TableTypeOK'
    BY <1>4, CancelKeepsType DEF HandleDelete, HostTypeOK
  <2> QED
    BY <1>4, <2>1 DEF HandleDelete, StartResume, HostTypeOK, CursorOK, outVars,
      kelpieVars, Keys, Steps, PublishSteps, DispatchSteps
<1> QED
  BY <1>1, <1>2, <1>3, <1>4

LEMMA DispatchStepType ==
  ASSUME TypeInv, DispatchStep \/ ResumeTick
  PROVE  TypeInv'
<1> USE DEF TypeInv
<1>0. at \notin {"resume", "idle"} /\ DispatchStep => cur \in Seqs
  BY DEF HostTypeOK, CursorOK, DispatchStep, DispatchSteps, CancelAsk, CancelAskFails, ResumeNext,
    ResumeCancels, ResumeEnds, Asking, AskDelivered, AskFails, OpenTurn, DispatchFailed, PastBound,
    FailUndispatched, RecordNotice
<1>1. CASE CancelAsk
  <2>1. ask' \in [Seqs -> {"none", "asked", "cancelled"}]
    BY <1>1 DEF CancelAsk, HostTypeOK
  <2>2. /\ \/ at' = "resume" /\ cur' = NoKey
           \/ at' = "ask" /\ cur' \in Seqs
        /\ msg' \in {msg, NoMsg} /\ todo' \in {todo, Channels}
    BY <1>1 DEF CancelAsk, StartResume
  <2> QED
    BY <1>1, <2>1, <2>2, TableUnchanged, DispatchGoes DEF CancelAsk, HostTypeOK, outVars, DispatchSteps
<1>2. CASE CancelAskFails
  <2>1. ask' \in [Seqs -> {"none", "asked", "cancelled"}]
    BY <1>0, <1>2 DEF CancelAskFails, HostTypeOK
  <2> QED
    BY <1>2, <2>1, TableUnchanged, DispatchGoes DEF CancelAskFails, Return, HostTypeOK, outVars
<1>3. CASE ResumeTick
  BY <1>3, TableUnchanged, DispatchGoes DEF ResumeTick, StartResume, HostTypeOK, outVars, kelpieVars
<1>4. ASSUME NEW n \in Seqs, ResumeNext(n)
      PROVE  TypeInv'
  BY <1>4, TableUnchanged, DispatchGoes DEF ResumeNext, HostTypeOK, outVars, kelpieVars, DispatchSteps
<1>5. ASSUME NEW n \in Seqs, ResumeCancels(n)
      PROVE  TypeInv'
  <2>1. TableTypeOK'
    BY <1>5, CloseKeepsType DEF ResumeCancels, HostTypeOK, States
  <2> QED
    BY <1>5, <2>1, DispatchGoes DEF ResumeCancels, HostTypeOK, outVars, kelpieVars
<1>6. CASE ResumeEnds
  BY <1>6, TableUnchanged, DispatchGoes DEF ResumeEnds, Return, HostTypeOK, outVars, kelpieVars
<1>7. CASE AskDelivered
  <2>1. ask' \in [Seqs -> {"none", "asked", "cancelled"}]
    BY <1>7 DEF AskDelivered, HostTypeOK
  <2> QED
    BY <1>0, <1>7, <2>1, TableUnchanged, DispatchGoes DEF AskDelivered, Asking, DispatchStep, Goto,
      HostTypeOK, outVars, DispatchSteps
<1>8. CASE AskFails
  <2>1. ask' \in [Seqs -> {"none", "asked", "cancelled"}]
    BY <1>0, <1>8 DEF AskFails, Asking, DispatchStep, HostTypeOK
  <2> QED
    BY <1>0, <1>8, <2>1, TableUnchanged, DispatchGoes DEF AskFails, Asking, DispatchStep, Goto, Return,
      HostTypeOK, outVars, DispatchSteps
<1>9. CASE OpenTurn
  <2>1. TableTypeOK'
    BY <1>9, OpenKeepsType DEF OpenTurn, HostTypeOK
  <2> QED
    BY <1>9, <2>1, DispatchGoes DEF OpenTurn, Return, HostTypeOK, outVars, kelpieVars
<1>10. CASE DispatchFailed
  <2>1. TableTypeOK'
    BY <1>0, <1>10, RecordFailureKeepsType DEF DispatchFailed, DispatchStep, HostTypeOK
  <2> QED
    BY <1>10, <2>1, DispatchGoes DEF DispatchFailed, Continue, HostTypeOK, outVars, kelpieVars
<1>11. CASE PastBound
  BY <1>0, <1>11, TableUnchanged, DispatchGoes DEF PastBound, DispatchStep, Goto, HostTypeOK, outVars,
    kelpieVars, DispatchSteps
<1>12. CASE FailUndispatched
  <2>1. TableTypeOK'
    BY <1>0, <1>12, CloseKeepsType DEF FailUndispatched, DispatchStep, HostTypeOK, States
  <2> QED
    BY <1>0, <1>12, <2>1, DispatchGoes DEF FailUndispatched, DispatchStep, Goto, HostTypeOK, outVars,
      kelpieVars, DispatchSteps
<1>13. CASE RecordNotice
  <2>1. trigger[cur] \in Keys
    BY <1>0, <1>13 DEF RecordNotice, DispatchStep, HostTypeOK, TableTypeOK, Keys
  <2> DEFINE notice == [attempt[trigger[cur]] EXCEPT
               !.recorded = TRUE, !.body = NoticeBody, !.dispatched = FALSE, !.retries = 0]
  <2>2. notice \in Attempts
    <3>1. attempt[trigger[cur]] \in Attempts
      BY <2>1 DEF HostTypeOK
    <3>2. 0 \in 0..RetryCap
      BY HostStateAssumption DEF HostStateAssumption
    <3> QED
      BY <3>1, <3>2 DEF Attempts, Texts
  <2>3. attempt' \in [Keys -> Attempts]
    BY <1>13, <2>1, <2>2 DEF RecordNotice, HostTypeOK
  <2> QED
    BY <1>13, <2>3, TableUnchanged, DispatchGoes DEF RecordNotice, Continue, HostTypeOK, kelpieVars
<1> QED
  BY <1>1, <1>2, <1>3, <1>4, <1>5, <1>6, <1>7, <1>8, <1>9, <1>10, <1>11, <1>12, <1>13
  DEF DispatchStep

LEMMA DispatchType ==
  ASSUME TypeInv, DispatchNext
  PROVE  TypeInv'
  BY RelayTrafficType, DispatchStepType DEF DispatchNext

-----------------------------------------------------------------------------
(* Crashes, restarts, Kelpie and the occupants.                            *)

LEMMA EnvironmentType ==
  ASSUME TypeInv, Environment
  PROVE  TypeInv'
<1> USE DEF TypeInv
<1>1. CASE Restart
  BY <1>1, TableUnchanged DEF Restart, Admitted, StartResume, HostTypeOK, CursorOK, outVars, Steps,
    PublishSteps, DispatchSteps
<1>2. CASE Crash
  BY <1>2, TableUnchanged DEF Crash, HostTypeOK, CursorOK, outVars, Steps, PublishSteps, DispatchSteps
<1>3. CASE StorageError
  BY <1>3, TableUnchanged DEF StorageError, Goto, Return, HostTypeOK, CursorOK, outVars, kelpieVars,
    Steps, PublishSteps, DispatchSteps
<1>4. CASE Reconnect
  BY <1>4, TableUnchanged DEF Reconnect, HostTypeOK, CursorOK, outVars, taskVars
<1>5. ASSUME NEW m \in Messages, Arrives(m)
      PROVE  TypeInv'
  BY <1>5, TableUnchanged DEF Arrives, HostTypeOK, CursorOK, outVars, taskVars
<1> QED
  BY <1>1, <1>2, <1>3, <1>4, <1>5 DEF Environment, OccupantReplies, OccupantTells

LEMMA InitType == Init => TypeInv
<1> SUFFICES ASSUME Init PROVE TypeInv
  OBVIOUS
<1> USE TurnTableAssumption, HostStateAssumption DEF TurnTableAssumption, HostStateAssumption
<1>1. NoAttempt \in Attempts
  BY DEF NoAttempt, Attempts, Texts
<1>2. CASE FreshDatabase
  <2>1. (CHOOSE e \in Triggers : TRUE) \in Triggers
    OBVIOUS
  <2>2. TableTypeOK
    <3>1. trigger \in [Seqs -> Triggers]
      BY <1>2, <2>1 DEF FreshDatabase
    <3>2. state \in [Seqs -> States] /\ claimed \in [Seqs -> BOOLEAN]
      BY <1>2 DEF FreshDatabase, States
    <3>3. lastSeq \in 0..MaxTurns
      BY <1>2 DEF FreshDatabase
    <3> QED
      BY <1>2, <3>1, <3>2, <3>3 DEF FreshDatabase, TableTypeOK
  <2> QED
    BY <1>1, <1>2, <2>2 DEF Init, FreshDatabase, TypeInv, HostTypeOK, CursorOK, Admitted, Steps,
      PublishSteps, DispatchSteps
<1>3. CASE UpgradedDatabase
  <2>1. PICK e \in Triggers, body \in Bodies \ ({Empty} \cup Refused) : UpgradedDatabase!(e, body)
    BY <1>3 DEF UpgradedDatabase
  <2>2. 1 \in Seqs
    BY DEF Seqs
  <2>3. TableTypeOK
    BY <2>1, <2>2 DEF TableTypeOK, States, Seqs
  <2>4. attempt \in [Keys -> Attempts]
    BY <1>1, <2>1 DEF NoAttempt, Attempts, Texts
  <2>5. relay \subseteq RelayEvents /\ held \subseteq Messages
    BY <2>1, <2>2 DEF RelayEvents, Keys, Messages, Finals
  <2> QED
    BY <2>1, <2>2, <2>3, <2>4, <2>5 DEF Init, TypeInv, HostTypeOK, CursorOK, Admitted, Steps,
      PublishSteps, DispatchSteps
<1> QED
  BY <1>2, <1>3 DEF Init

\* Every reachable state is well formed: rows, attempts within the retry cap,
\* messages, and a handler that always knows what it works on.
THEOREM TypeCorrect == Spec => []TypeInv
<1>1. TypeInv /\ [Next]_vars => TypeInv'
  <2> SUFFICES ASSUME TypeInv, [Next]_vars PROVE TypeInv'
    OBVIOUS
  <2>1. CASE Next
    BY <2>1, OutboxType, DispatchType, EnvironmentType DEF Next
  <2>2. CASE UNCHANGED vars
    BY <2>2, TableUnchanged DEF vars, TypeInv, HostTypeOK, CursorOK, outVars, kelpieVars, taskVars
  <2> QED
    BY <2>1, <2>2
<1> QED
  BY InitType, <1>1, PTL DEF Spec

\* The type invariant the runs check: every row, message and step of the host
\* stays in its set, so no attempt is ever retried past the cap.
THEOREM HostTypeCorrect == Spec => []HostTypeOK
<1>1. TypeInv => HostTypeOK
  BY DEF TypeInv
<1> QED
  BY TypeCorrect, <1>1, PTL

-----------------------------------------------------------------------------
(* ------------------------------- publishing ---------------------------- *)

OnRelay(k) == \E event \in relay : event.key = k

\* The steps of a handler that is publishing the attempt `cur`.
Publishing == {"save", "claim", "prepare", "send", "undo", "accept", "post"}

\* The row of an event the relay has: it holds the event's id, or it is a row
\* of the older version, which is never prepared.
RelayKnown ==
  \A event \in relay :
    /\ attempt[event.key].recorded
    /\ event.id # NoEvent => attempt[event.key].prepared = event.id
    /\ event.id = NoEvent => event.key \in Seqs /\ SentUnderOldPath(attempt[event.key])

\* What the handler established about the row on its way to the send.
CursorKnown ==
  /\ at \in {"claim", "prepare", "send", "undo", "accept"} => attempt[cur].recorded
  /\ at \in {"claim", "prepare"} => ~SentUnderOldPath(attempt[cur])
  /\ at \in {"claim", "prepare", "send"} => ~attempt[cur].abandoned
  /\ at \in {"send", "undo", "accept"} => attempt[cur].prepared # NoEvent

AcceptedKnown ==
  /\ \A k \in Keys : attempt[k].accepted => OnRelay(k)
  /\ \A n \in Seqs : state[n] = "posted" => OnRelay(n)
  /\ at \in {"accept", "post"} => OnRelay(cur)

\* Only an opened turn has an attempt, and it is sent only while claimed.
ClaimKnown ==
  /\ \A n \in Seqs : attempt[n].recorded => n \in opened
  /\ at = "save" /\ cur \in Seqs => cur \in opened
  /\ at \in {"prepare", "send"} /\ cur \in Seqs => state[cur] = "open" /\ claimed[cur]

SafetyInv == RelayKnown /\ CursorKnown /\ AcceptedKnown /\ ClaimKnown

-----------------------------------------------------------------------------
LEMMA KeysDisjoint ==
  /\ NoEvent \notin EventIds
  /\ \A e \in Triggers : e \notin Seqs
  /\ \A t \in Tells : t \notin Seqs
  BY HostStateAssumption, SeqsAreNat DEF HostStateAssumption, EventIds, Texts

\* A step that touches neither the attempts nor the relay and publishes
\* nothing keeps the invariant, whatever else it does, if it posts no turn.
LEMMA QuietStep ==
  ASSUME TypeInv, SafetyInv, UNCHANGED outVars, at' \notin Publishing, opened \subseteq opened',
         \A n \in Seqs : state'[n] = "posted" => state[n] = "posted"
  PROVE  SafetyInv'
<1>1. UNCHANGED <<attempt, relay>>
  BY DEF outVars
<1>2. RelayKnown'
  BY <1>1 DEF SafetyInv, RelayKnown, SentUnderOldPath
<1>3. CursorKnown'
  BY DEF CursorKnown, Publishing
<1>4. AcceptedKnown'
  BY <1>1 DEF SafetyInv, AcceptedKnown, OnRelay, Publishing
<1>5. ClaimKnown'
  BY <1>1 DEF SafetyInv, ClaimKnown, Publishing
<1> QED
  BY <1>2, <1>3, <1>4, <1>5 DEF SafetyInv

\* A step that keeps the ids and the old rows, and forgets no row, keeps what
\* is known of the events already on the relay.
LEMMA RowsKept ==
  ASSUME RelayKnown, relay \subseteq RelayEvents, relay' = relay,
         \A k \in Keys :
           /\ attempt[k].recorded => attempt'[k].recorded
           /\ OnRelay(k) /\ attempt[k].prepared # NoEvent => attempt'[k].prepared = attempt[k].prepared
           /\ OnRelay(k) /\ SentUnderOldPath(attempt[k]) => SentUnderOldPath(attempt'[k])
  PROVE  RelayKnown'
<1> SUFFICES ASSUME NEW event \in relay
             PROVE  /\ attempt'[event.key].recorded
                    /\ event.id # NoEvent => attempt'[event.key].prepared = event.id
                    /\ event.id = NoEvent => event.key \in Seqs /\ SentUnderOldPath(attempt'[event.key])
  BY DEF RelayKnown, SentUnderOldPath
<1>1. event.key \in Keys /\ OnRelay(event.key)
  BY DEF RelayEvents, OnRelay
<1> QED
  BY <1>1 DEF RelayKnown

\* Giving up an attempt, or pacing one, publishes nothing.
LEMMA RowStep ==
  ASSUME TypeInv, SafetyInv, relay' = relay, UNCHANGED tableVars,
         \A k \in Keys :
           /\ attempt'[k].accepted = attempt[k].accepted
           /\ attempt'[k].prepared = attempt[k].prepared
           /\ attempt[k].recorded => attempt'[k].recorded
           /\ k \in Seqs => attempt'[k].recorded = attempt[k].recorded
           /\ k \in Seqs => attempt'[k].dispatched = attempt[k].dispatched
  PROVE  /\ RelayKnown'
         /\ at' \notin Publishing => SafetyInv'
<1>1. RelayKnown'
  <2>1. \A k \in Keys : OnRelay(k) /\ SentUnderOldPath(attempt[k]) => k \in Seqs
    BY DEF SafetyInv, RelayKnown, OnRelay, SentUnderOldPath
  <2> QED
    BY <2>1, RowsKept DEF TypeInv, HostTypeOK, SafetyInv, SentUnderOldPath
<1>2. ASSUME at' \notin Publishing PROVE SafetyInv'
  <2>1. CursorKnown'
    BY <1>2 DEF CursorKnown, Publishing
  <2>2. AcceptedKnown'
    BY <1>2 DEF SafetyInv, AcceptedKnown, OnRelay, Publishing, tableVars, Seqs
  <2>3. ClaimKnown'
    BY <1>2 DEF SafetyInv, ClaimKnown, Publishing, tableVars, Keys, Seqs
  <2> QED
    BY <1>1, <2>1, <2>2, <2>3 DEF SafetyInv
<1> QED
  BY <1>1, <1>2

-----------------------------------------------------------------------------
(* The steps that publish.                                                 *)

LEMMA TakeSafety ==
  ASSUME TypeInv, SafetyInv, NEW m \in Messages, TakeFinal(m) \/ TakeTell(m)
  PROVE  SafetyInv'
<1>1. UNCHANGED <<attempt, relay, tableVars>>
  BY DEF TakeFinal, TakeTell, outVars
<1>2. /\ at' \in {"idle", "ack", "fail", "save"}
      /\ at' = "save" /\ cur' \in Seqs => cur' \in opened
  <2>1. CASE TakeFinal(m)
    BY <2>1 DEF TakeFinal, Decide, HasTurn, Idle, taskVars
  <2>2. CASE TakeTell(m)
    BY <2>2, KeysDisjoint DEF TakeTell, Messages, Finals, TellMsgs
  <2> QED
    BY <2>1, <2>2
<1>3. RelayKnown' /\ CursorKnown' /\ AcceptedKnown'
  BY <1>1, <1>2 DEF SafetyInv, RelayKnown, SentUnderOldPath, CursorKnown, AcceptedKnown, OnRelay,
    tableVars, Seqs
<1>4. ClaimKnown'
  BY <1>1, <1>2 DEF SafetyInv, ClaimKnown, tableVars, Seqs
<1> QED
  BY <1>3, <1>4 DEF SafetyInv

LEMMA SaveSafety ==
  ASSUME TypeInv, SafetyInv, SaveAttempt
  PROVE  SafetyInv'
<1>1. cur \in Keys /\ attempt \in [Keys -> Attempts]
  BY DEF TypeInv, HostTypeOK, CursorOK, SaveAttempt, PublishSteps
<1>2. /\ \A k \in Keys : /\ attempt'[k].accepted = attempt[k].accepted
                         /\ attempt'[k].prepared = attempt[k].prepared
                         /\ attempt'[k].dispatched = attempt[k].dispatched
                         /\ attempt'[k].abandoned = attempt[k].abandoned
                         /\ attempt[k].recorded => attempt'[k].recorded
                         /\ k # cur => attempt'[k].recorded = attempt[k].recorded
      /\ attempt'[cur].recorded
  BY <1>1 DEF SaveAttempt, Attempts
<1>3. /\ UNCHANGED <<relay, tableVars, cur>>
      /\ cur \in Seqs => at' \in {"fail", "post", "claim"}
      /\ cur \notin Seqs => at' \in {"ack", "prepare"}
      /\ at' = "post" => attempt[cur].accepted
      /\ at' \in {"claim", "prepare"} => ~SentUnderOldPath(attempt[cur]) /\ ~attempt[cur].abandoned
  BY DEF SaveAttempt, Goto
<1>4. RelayKnown'
  BY <1>2, <1>3, RowsKept DEF TypeInv, HostTypeOK, SafetyInv, SentUnderOldPath
<1>5. CursorKnown'
  BY <1>1, <1>2, <1>3 DEF CursorKnown, SentUnderOldPath
<1>6. AcceptedKnown'
  BY <1>1, <1>2, <1>3 DEF SafetyInv, AcceptedKnown, OnRelay, tableVars, Seqs
<1>7. ClaimKnown'
  <2>1. cur \in Seqs => cur \in opened
    BY DEF SafetyInv, ClaimKnown, SaveAttempt
  <2> QED
    BY <1>1, <1>2, <1>3, <2>1 DEF SafetyInv, ClaimKnown, tableVars, Keys, Seqs
<1> QED
  BY <1>4, <1>5, <1>6, <1>7 DEF SafetyInv

LEMMA ClaimSafety ==
  ASSUME TypeInv, SafetyInv, ClaimTurn
  PROVE  SafetyInv'
<1>1. CASE state[cur] = "open"
  <2>1. /\ at' = "prepare" /\ UNCHANGED <<attempt, relay, state, opened, cur>>
        /\ at = "claim" /\ claimed' = [claimed EXCEPT ![cur] = TRUE]
    BY <1>1 DEF ClaimTurn, ClaimForPublish, Goto, outVars, TypeInv, HostTypeOK, TableTypeOK
  <2>2. RelayKnown' /\ CursorKnown' /\ AcceptedKnown'
    BY <2>1 DEF SafetyInv, RelayKnown, SentUnderOldPath, CursorKnown, AcceptedKnown, OnRelay, Seqs
  <2>3. ClaimKnown'
    BY <1>1, <2>1 DEF SafetyInv, ClaimKnown, TypeInv, HostTypeOK, TableTypeOK, Seqs
  <2> QED
    BY <2>2, <2>3 DEF SafetyInv
<1>2. CASE state[cur] # "open"
  <2>1. at' \notin Publishing
    BY <1>2 DEF ClaimTurn, Finish, Goto, StartResume, Return, Publishing
  <2> QED
    BY <1>2, <2>1, QuietStep DEF ClaimTurn, ClaimForPublish, Seqs
<1> QED
  BY <1>1, <1>2

LEMMA PrepareSafety ==
  ASSUME TypeInv, SafetyInv, Prepare
  PROVE  SafetyInv'
<1>1. cur \in Keys /\ attempt \in [Keys -> Attempts]
  BY DEF TypeInv, HostTypeOK, CursorOK, Prepare, PublishSteps
<1>2. PICK id \in EventIds :
        /\ attempt[cur].prepared \in {NoEvent, id}
        /\ attempt' = [attempt EXCEPT ![cur].prepared = id, ![cur].dispatched = TRUE]
  <2>1. \A now \in Times : Rebuilt(attempt[cur], now) \in EventIds
    BY <1>1 DEF Rebuilt, EventIds, Attempts
  <2> QED
    BY <2>1 DEF Prepare
<1>3. /\ attempt'[cur].prepared = id /\ attempt'[cur].recorded = attempt[cur].recorded
      /\ attempt'[cur].abandoned = attempt[cur].abandoned
      /\ \A k \in Keys : k # cur => attempt'[k] = attempt[k]
  BY <1>1, <1>2 DEF Attempts
<1>4. \A k \in Keys : /\ attempt'[k].accepted = attempt[k].accepted
                      /\ attempt'[k].recorded = attempt[k].recorded
  BY <1>1, <1>2 DEF Attempts
<1>5. /\ at = "prepare" /\ at' = "send" /\ UNCHANGED <<relay, state, claimed, opened, cur>>
  BY DEF Prepare, Goto, tableVars
<1>6. RelayKnown'
  <2>1. ~SentUnderOldPath(attempt[cur])
    BY <1>5 DEF SafetyInv, CursorKnown
  <2> QED
    BY <1>2, <1>3, <1>4, <1>5, <2>1, RowsKept DEF TypeInv, HostTypeOK, SafetyInv, SentUnderOldPath
<1>7. CursorKnown'
  BY <1>3, <1>5, KeysDisjoint DEF SafetyInv, CursorKnown
<1>8. AcceptedKnown'
  BY <1>4, <1>5 DEF SafetyInv, AcceptedKnown, OnRelay, Seqs
<1>9. ClaimKnown'
  BY <1>4, <1>5 DEF SafetyInv, ClaimKnown, Keys, Seqs
<1> QED
  BY <1>6, <1>7, <1>8, <1>9 DEF SafetyInv

LEMMA SendSafety ==
  ASSUME TypeInv, SafetyInv, SendAccepted \/ SendNotAccepted
  PROVE  SafetyInv'
<1>1. /\ at = "send" /\ at' \in {"accept", "undo"}
      /\ UNCHANGED <<attempt, state, claimed, opened, cur>>
      /\ relay' \in {relay, relay \cup {Sent}} /\ (at' = "accept" => Sent \in relay')
  BY DEF SendAccepted, SendNotAccepted, Goto, tableVars
<1>2. /\ Sent.key = cur /\ Sent.id = attempt[cur].prepared /\ Sent.id # NoEvent
      /\ attempt[cur].recorded
  BY <1>1 DEF SafetyInv, CursorKnown, Sent
<1>3. RelayKnown'
  BY <1>1, <1>2 DEF SafetyInv, RelayKnown, SentUnderOldPath, Seqs
<1>4. CursorKnown'
  BY <1>1, <1>2 DEF CursorKnown
<1>5. AcceptedKnown'
  BY <1>1, <1>2 DEF SafetyInv, AcceptedKnown, OnRelay, Seqs
<1>6. ClaimKnown'
  BY <1>1 DEF SafetyInv, ClaimKnown, Seqs
<1> QED
  BY <1>3, <1>4, <1>5, <1>6 DEF SafetyInv

LEMMA UndoSafety ==
  ASSUME TypeInv, SafetyInv, UndoDispatch
  PROVE  SafetyInv'
<1>1. cur \in Keys /\ attempt \in [Keys -> Attempts]
  BY DEF TypeInv, HostTypeOK, CursorOK, UndoDispatch, PublishSteps
<1>2. \A k \in Keys : /\ attempt'[k].accepted = attempt[k].accepted
                      /\ attempt'[k].prepared = attempt[k].prepared
                      /\ attempt'[k].recorded = attempt[k].recorded
                      /\ k # cur => attempt'[k] = attempt[k]
  BY <1>1 DEF UndoDispatch, Attempts
<1>3. /\ at = "undo" /\ at' \in {"release", "idle"} /\ UNCHANGED <<relay, state, claimed, opened>>
  BY DEF UndoDispatch, Goto, Return, tableVars
<1>4. RelayKnown'
  <2>1. ~SentUnderOldPath(attempt[cur])
    BY <1>3 DEF SafetyInv, CursorKnown, SentUnderOldPath
  <2> QED
    BY <1>2, <1>3, <2>1, RowsKept DEF TypeInv, HostTypeOK, SafetyInv, SentUnderOldPath
<1>5. CursorKnown'
  BY <1>3 DEF CursorKnown
<1>6. AcceptedKnown'
  BY <1>2, <1>3 DEF SafetyInv, AcceptedKnown, OnRelay, Seqs
<1>7. ClaimKnown'
  BY <1>2, <1>3 DEF SafetyInv, ClaimKnown, Keys, Seqs
<1> QED
  BY <1>4, <1>5, <1>6, <1>7 DEF SafetyInv

LEMMA AcceptSafety ==
  ASSUME TypeInv, SafetyInv, MarkAccepted
  PROVE  SafetyInv'
<1>1. cur \in Keys /\ attempt \in [Keys -> Attempts]
  BY DEF TypeInv, HostTypeOK, CursorOK, MarkAccepted, PublishSteps
<1>2. \A k \in Keys : /\ attempt'[k].prepared = attempt[k].prepared
                      /\ attempt'[k].recorded = attempt[k].recorded
                      /\ attempt'[k].dispatched = attempt[k].dispatched
                      /\ k # cur => attempt'[k] = attempt[k]
  BY <1>1 DEF MarkAccepted, Attempts
<1>3. /\ at = "accept" /\ UNCHANGED <<relay, state, claimed, opened>>
      /\ at' \in {"post", "ack", "idle"} /\ (at' = "post" => cur' = cur)
  BY DEF MarkAccepted, Finish, Goto, Return, tableVars
<1>4. OnRelay(cur)
  BY <1>3 DEF SafetyInv, AcceptedKnown
<1>5. RelayKnown'
  BY <1>2, <1>3, RowsKept DEF TypeInv, HostTypeOK, SafetyInv, SentUnderOldPath
<1>6. CursorKnown'
  BY <1>3 DEF CursorKnown
<1>7. AcceptedKnown'
  BY <1>2, <1>3, <1>4 DEF SafetyInv, AcceptedKnown, OnRelay, Seqs
<1>8. ClaimKnown'
  BY <1>2, <1>3 DEF SafetyInv, ClaimKnown, Keys, Seqs
<1> QED
  BY <1>5, <1>6, <1>7, <1>8 DEF SafetyInv

LEMMA PostSafety ==
  ASSUME TypeInv, SafetyInv, MarkPosted
  PROVE  SafetyInv'
<1>1. /\ at = "post" /\ at' \notin Publishing /\ UNCHANGED <<attempt, relay, opened>>
      /\ \A n \in Seqs : state'[n] = "posted" => state[n] = "posted" \/ n = cur
  BY DEF MarkPosted, SetTurnState, Finish, Goto, Return, StartResume, Publishing, outVars, TypeInv,
    HostTypeOK, TableTypeOK
<1>2. RelayKnown' /\ CursorKnown'
  BY <1>1 DEF SafetyInv, RelayKnown, SentUnderOldPath, CursorKnown, Publishing
<1>3. AcceptedKnown'
  BY <1>1 DEF SafetyInv, AcceptedKnown, OnRelay, Publishing, Seqs
<1>4. ClaimKnown'
  BY <1>1 DEF SafetyInv, ClaimKnown, Publishing, Seqs
<1> QED
  BY <1>2, <1>3, <1>4 DEF SafetyInv

-----------------------------------------------------------------------------
(* The other steps of the outbox.                                          *)

LEMMA GiveUpSafety ==
  ASSUME TypeInv, SafetyInv, StopRetries \/ DropAttempt \/ (\E k \in Keys : AbandonAttempt(k))
  PROVE  SafetyInv'
<1>1. PICK k \in Keys : attempt' = [attempt EXCEPT ![k].abandoned = TRUE]
  BY DEF StopRetries, DropAttempt, AbandonAttempt, TypeInv, CursorOK, PublishSteps
<1>2. at' \notin Publishing /\ relay' = relay /\ UNCHANGED tableVars
  BY DEF StopRetries, DropAttempt, AbandonAttempt, Finish, Goto, Return, StartResume, Publishing
<1>3. attempt \in [Keys -> Attempts]
  BY DEF TypeInv, HostTypeOK
<1> QED
  BY <1>1, <1>2, <1>3, RowStep DEF Attempts

LEMMA RetrySafety ==
  ASSUME TypeInv, SafetyInv, NEW k \in Keys, RetryAttempt(k)
  PROVE  SafetyInv'
<1>1. attempt \in [Keys -> Attempts]
  BY DEF TypeInv, HostTypeOK
<1>2. \A x \in Keys : /\ attempt'[x].accepted = attempt[x].accepted
                      /\ attempt'[x].prepared = attempt[x].prepared
                      /\ attempt'[x].recorded = attempt[x].recorded
                      /\ attempt'[x].dispatched = attempt[x].dispatched
                      /\ attempt'[x].abandoned = attempt[x].abandoned
  BY <1>1 DEF RetryAttempt, Attempts
<1>3. RelayKnown'
  BY <1>2, RowStep DEF RetryAttempt
<1>4. /\ attempt[k].recorded /\ ~attempt[k].abandoned /\ ~SentUnderOldPath(attempt[k])
      /\ cur' = k /\ at' \in {"prepare", "save", "drop"} /\ UNCHANGED <<relay, tableVars>>
      /\ k \in Seqs => at' # "prepare" /\ k \in opened
  BY DEF RetryAttempt, Pending, BoundReached, HasTurn, SafetyInv, ClaimKnown
<1>5. CursorKnown'
  BY <1>2, <1>4 DEF CursorKnown, SentUnderOldPath
<1>6. AcceptedKnown'
  BY <1>2, <1>4 DEF SafetyInv, AcceptedKnown, OnRelay, tableVars, Seqs
<1>7. ClaimKnown'
  BY <1>2, <1>4 DEF SafetyInv, ClaimKnown, tableVars, Keys, Seqs
<1> QED
  BY <1>3, <1>5, <1>6, <1>7 DEF SafetyInv

LEMMA OutboxSafety ==
  ASSUME TypeInv, SafetyInv, OutboxNext
  PROVE  SafetyInv'
<1>1. offered \subseteq Messages
  BY DEF TypeInv, HostTypeOK
<1>2. ASSUME Ack \/ PrepareFails \/ SendRejected \/ ReleaseClaim \/ FailTurn \/ AbandonReleases
      PROVE  SafetyInv'
  <2>1. at' \notin Publishing /\ UNCHANGED outVars /\ opened' = opened
    BY <1>2 DEF Ack, PrepareFails, SendRejected, ReleaseClaim, FailTurn, AbandonReleases, GiveUp,
      Finish, Goto, Return, StartResume, Publishing, tableVars, ReleasePublishClaim, SetTurnState
  <2>2. \A n \in Seqs : state'[n] = "posted" => state[n] = "posted"
    BY <1>2 DEF Ack, PrepareFails, SendRejected, ReleaseClaim, FailTurn, AbandonReleases,
      tableVars, ReleasePublishClaim, SetTurnState, TypeInv, HostTypeOK, TableTypeOK
  <2> QED
    BY <2>1, <2>2, QuietStep
<1> QED
  BY <1>1, <1>2, TakeSafety, SaveSafety, ClaimSafety, PrepareSafety, SendSafety, UndoSafety,
    AcceptSafety, PostSafety, GiveUpSafety, RetrySafety DEF OutboxNext, PublishStep

-----------------------------------------------------------------------------
(* Dispatch, crashes and the occupants publish nothing.                    *)

\* What the statements of the dispatcher do to the turns.
LEMMA TableKeeps ==
  ASSUME TableTypeOK, NEW n \in Seqs,
         \/ \E e \in Triggers : EnqueueUnprocessed(e)
         \/ ReplaceUnclaimed(n) \/ CancelUnclaimed(n) \/ OpenNextTurn(n) \/ RecordDispatchFailure(n)
         \/ CloseQueued(n, "cancelled") \/ CloseQueued(n, "failed") \/ UNCHANGED tableVars
  PROVE  /\ opened \subseteq opened'
         /\ \A k \in Seqs : state'[k] = "posted" => state[k] = "posted"
  BY DEF TableTypeOK, EnqueueUnprocessed, InsertQueued, ReplaceUnclaimed, CancelUnclaimed,
    OpenNextTurn, RecordDispatchFailure, CloseQueued, tableVars

LEMMA NoticeSafety ==
  ASSUME TypeInv, SafetyInv, RecordNotice
  PROVE  SafetyInv'
<1>1. cur \in Seqs /\ trigger[cur] \in Triggers /\ attempt \in [Keys -> Attempts]
  BY DEF RecordNotice, TypeInv, CursorOK, DispatchSteps, HostTypeOK, TableTypeOK
<1>2. trigger[cur] \in Keys /\ trigger[cur] \notin Seqs
  BY <1>1, KeysDisjoint DEF Keys
<1>3. attempt' = [attempt EXCEPT ![trigger[cur]] = attempt'[trigger[cur]]]
  BY <1>1, <1>2 DEF RecordNotice
<1>4. /\ attempt'[trigger[cur]].accepted = attempt[trigger[cur]].accepted
      /\ attempt'[trigger[cur]].prepared = attempt[trigger[cur]].prepared
      /\ attempt'[trigger[cur]].recorded
  <2>1. attempt[trigger[cur]] \in Attempts
    BY <1>1, <1>2
  <2>2. attempt'[trigger[cur]] = [attempt[trigger[cur]] EXCEPT
          !.recorded = TRUE, !.body = NoticeBody, !.dispatched = FALSE, !.retries = 0]
    BY <1>1, <1>2 DEF RecordNotice
  <2> QED
    BY <2>1, <2>2 DEF Attempts
<1>5. at' \notin Publishing /\ relay' = relay /\ UNCHANGED tableVars
  BY DEF RecordNotice, Continue, Publishing
<1> QED
  BY <1>1, <1>2, <1>3, <1>4, <1>5, RowStep

LEMMA DispatchSafety ==
  ASSUME TypeInv, SafetyInv, DispatchNext
  PROVE  SafetyInv'
<1>1. CASE RecordNotice
  BY <1>1, NoticeSafety
<1>2. CASE ~RecordNotice
  <2>1. UNCHANGED outVars
    BY <1>2 DEF DispatchNext, DispatchStep, HandleTrigger, DeclineTrigger, HandleEdit, HandleDelete,
      ResumeTick, CancelAsk, CancelAskFails, ResumeNext, ResumeCancels, ResumeEnds, AskDelivered,
      AskFails, OpenTurn, DispatchFailed, PastBound, FailUndispatched
  <2>2. at' \notin Publishing
    BY <1>2 DEF DispatchNext, DispatchStep, HandleTrigger, DeclineTrigger, HandleEdit, HandleDelete,
      ResumeTick, CancelAsk, CancelAskFails, ResumeNext, ResumeCancels, ResumeEnds, AskDelivered,
      AskFails, OpenTurn, DispatchFailed, PastBound, FailUndispatched, Free, taskVars, Goto, Return,
      StartResume, Continue, AskReplacement, Publishing
  <2>3. opened \subseteq opened' /\ \A k \in Seqs : state'[k] = "posted" => state[k] = "posted"
    <3>1. at \in {"askFailed", "failQueued"} => cur \in Seqs
      BY DEF TypeInv, CursorOK, DispatchSteps
    <3>2. \/ \E n \in Seqs : \/ \E e \in Triggers : EnqueueUnprocessed(e)
                           \/ ReplaceUnclaimed(n) \/ CancelUnclaimed(n) \/ OpenNextTurn(n)
                           \/ RecordDispatchFailure(n) \/ CloseQueued(n, "cancelled")
                           \/ CloseQueued(n, "failed") \/ UNCHANGED tableVars
          \/ UNCHANGED <<state, opened>>
      BY <1>2, <3>1, InsertKeepsType DEF DispatchNext, DispatchStep, HandleTrigger, DeclineTrigger, HandleEdit,
        HandleDelete, ResumeTick, CancelAsk, CancelAskFails, ResumeNext, ResumeCancels, ResumeEnds,
        AskDelivered, AskFails, OpenTurn, DispatchFailed, PastBound, FailUndispatched, tableVars,
        EnqueueUnprocessed, TypeInv, HostTypeOK
    <3> QED
      BY <3>2, TableKeeps DEF TypeInv, HostTypeOK
  <2> QED
    BY <2>1, <2>2, <2>3, QuietStep
<1> QED
  BY <1>1, <1>2

LEMMA EnvironmentSafety ==
  ASSUME TypeInv, SafetyInv, Environment
  PROVE  SafetyInv'
<1>1. CASE Restart \/ Crash \/ StorageError
  BY <1>1, QuietStep DEF Restart, Crash, StorageError, Goto, Return, StartResume, Publishing, tableVars
<1>2. ASSUME Reconnect \/ \E m \in Messages : Arrives(m)
      PROVE  SafetyInv'
  BY <1>2, QuietStep DEF Reconnect, Arrives, Unseen, Publishing, taskVars, tableVars
<1> QED
  BY <1>1, <1>2 DEF Environment, OccupantReplies, OccupantTells

LEMMA InitSafety == Init => SafetyInv
<1> SUFFICES ASSUME Init PROVE SafetyInv
  OBVIOUS
<1>1. CursorKnown
  BY DEF Init, CursorKnown
<1>2. CASE FreshDatabase
  <2>1. relay = {} /\ \A k \in Keys : ~attempt[k].recorded /\ ~attempt[k].accepted
    BY <1>2 DEF FreshDatabase, NoAttempt
  <2>2. \A n \in Seqs : state[n] = "absent" /\ n \in Keys
    BY <1>2 DEF FreshDatabase, Keys
  <2> QED
    BY <1>1, <2>1, <2>2 DEF Init, SafetyInv, RelayKnown, AcceptedKnown, ClaimKnown
<1>3. CASE UpgradedDatabase
  <2>1. 1 \in Seqs /\ \A n \in Seqs : n \in Keys
    BY TurnTableAssumption DEF TurnTableAssumption, Seqs, Keys
  <2>2. /\ \A k \in Keys : k # 1 => ~attempt[k].recorded
        /\ \A k \in Keys : ~attempt[k].accepted
        /\ attempt[1].recorded /\ attempt[1].dispatched /\ attempt[1].prepared = NoEvent
    BY <1>3, <2>1 DEF UpgradedDatabase, NoAttempt
  <2>3. /\ relay \subseteq {[key |-> 1, id |-> NoEvent]} /\ opened = {1}
        /\ \A n \in Seqs : state[n] # "posted"
    BY <1>3 DEF UpgradedDatabase
  <2> QED
    BY <1>1, <2>1, <2>2, <2>3 DEF Init, SafetyInv, RelayKnown, SentUnderOldPath, AcceptedKnown, ClaimKnown
<1> QED
  BY <1>2, <1>3 DEF Init

-----------------------------------------------------------------------------
\* The inductive invariant: what a row and a handler know of the relay.
THEOREM SafetyHolds == Spec => [](TypeInv /\ SafetyInv)
<1>1. TypeInv /\ SafetyInv /\ [Next]_vars => SafetyInv'
  <2> SUFFICES ASSUME TypeInv, SafetyInv, [Next]_vars PROVE SafetyInv'
    OBVIOUS
  <2>1. CASE Next
    BY <2>1, OutboxSafety, DispatchSafety, EnvironmentSafety DEF Next
  <2>2. CASE UNCHANGED vars
    BY <2>2 DEF vars, outVars, tableVars, taskVars, SafetyInv, RelayKnown, SentUnderOldPath,
      CursorKnown, AcceptedKnown, OnRelay, ClaimKnown, Seqs
  <2> QED
    BY <2>1, <2>2
<1> QED
  BY InitSafety, <1>1, TypeCorrect, PTL DEF Spec

\* Resends, redeliveries and restarts never put two events for one final, tell
\* or notice on the relay: a known row names the one event it stands for.
THEOREM OneEventPerKeyHolds == Spec => []OneEventPerKey
<1>1. TypeInv /\ SafetyInv => OneEventPerKey
  BY DEF TypeInv, HostTypeOK, RelayEvents, SafetyInv, RelayKnown, SentUnderOldPath, OneEventPerKey
<1> QED
  BY <1>1, SafetyHolds, PTL

\* Whatever the relay has, the database knew before it was sent.
THEOREM RecordedBeforeSentHolds == Spec => []RecordedBeforeSent
<1>1. SafetyInv => RecordedBeforeSent
  BY DEF SafetyInv, RelayKnown, RecordedBeforeSent
<1> QED
  BY <1>1, SafetyHolds, PTL

\* No turn is posted, and no attempt accepted, without its event on the relay.
THEOREM PostedIsOnRelayHolds == Spec => []PostedIsOnRelay
<1>1. SafetyInv => PostedIsOnRelay
  BY DEF SafetyInv, AcceptedKnown, OnRelay, PostedIsOnRelay
<1> QED
  BY <1>1, SafetyHolds, PTL

-----------------------------------------------------------------------------
(* What a step may put on the relay.                                       *)

LEMMA OnlySendsReachRelay ==
  ASSUME [Next]_vars
  PROVE  relay' \subseteq relay \/ (at = "send" /\ relay' \subseteq relay \cup {Sent})
<1>1. CASE OutboxNext
  BY <1>1 DEF OutboxNext, PublishStep, TakeFinal, TakeTell, RetryAttempt, AbandonAttempt, Ack,
    SaveAttempt, ClaimTurn, Prepare, PrepareFails, SendAccepted, SendNotAccepted, SendRejected,
    UndoDispatch, ReleaseClaim, MarkAccepted, MarkPosted, FailTurn, StopRetries, DropAttempt,
    AbandonReleases, outVars
<1>2. CASE DispatchNext
  BY <1>2 DEF DispatchNext, DispatchStep, HandleTrigger, DeclineTrigger, HandleEdit, HandleDelete,
    ResumeTick, CancelAsk, CancelAskFails, ResumeNext, ResumeCancels, ResumeEnds, AskDelivered,
    AskFails, OpenTurn, DispatchFailed, PastBound, FailUndispatched, RecordNotice, outVars
<1>3. CASE Environment
  BY <1>3 DEF Environment, Restart, Crash, StorageError, Reconnect, OccupantReplies, OccupantTells,
    Arrives, outVars
<1> QED
  BY <1>1, <1>2, <1>3 DEF Next, vars, outVars

\* What the database knows of the relay, in both directions: a restarted host
\* finds a record of every event that may be out, and claims none that is not.
THEOREM RelayIsKnownHolds == Spec => []RelayIsKnown
BY RecordedBeforeSentHolds, PostedIsOnRelayHolds, PTL DEF RelayIsKnown

\* A cancelled, replaced or failed turn never speaks: its event is sent only
\* while the turn is open and the host holds its claim.
THEOREM SpeaksOnlyOpenHolds == Spec => SpeaksOnlyOpen
<1>1. SafetyInv /\ [Next]_vars =>
        \A event \in relay' \ relay :
          event.key \in Seqs => state[event.key] = "open" /\ claimed[event.key]
  BY OnlySendsReachRelay DEF Sent, SafetyInv, ClaimKnown
<1> QED
  BY <1>1, SafetyHolds, PTL DEF Spec, SpeaksOnlyOpen

\* An attempt given up at the retry cap is never sent again.
THEOREM AbandonedIsSilentHolds == Spec => AbandonedIsSilent
<1>1. SafetyInv /\ [Next]_vars => \A event \in relay' \ relay : ~attempt[event.key].abandoned
  BY OnlySendsReachRelay DEF Sent, SafetyInv, CursorKnown
<1> QED
  BY <1>1, SafetyHolds, PTL DEF Spec, AbandonedIsSilent

-----------------------------------------------------------------------------
(* -------------------------- the order of the queue --------------------- *)

\* The rows of a table that only the statements of TurnTable have changed.
RowsInOrder == \A n \in Seqs : state[n] = "absent" <=> n > lastSeq

OpenedRows ==
  \A n \in Seqs :
    /\ state[n] \in {"absent", "queued"} => n \notin opened
    /\ state[n] \in {"open", "posted"} => n \in opened

RowsProcessed == \A n \in Seqs : state[n] # "absent" => trigger[n] \in processed

\* All turns of a trigger but one were cancelled, by the edits that replaced
\* them: this is stronger than the index on live turns, and an edit needs it.
OneCurrentRow ==
  \A n, m \in Seqs :
    n # m /\ trigger[n] = trigger[m] =>
      \/ state[n] \in {"absent", "cancelled"}
      \/ state[m] \in {"absent", "cancelled"}

OneOpen ==
  \A n, m \in Seqs :
    state[n] = "open" /\ state[m] = "open" /\ ChannelOfTurn(n) = ChannelOfTurn(m) => n = m

TableInv ==
  RowsInOrder /\ OpenedRows /\ RowsProcessed /\ OneCurrentRow /\ OneOpen /\ OldestOpensFirst

\* What the dispatcher established about the row it works on: nothing else
\* runs, so the row it asks about stays the next one until it is opened.
HeadKnown ==
  /\ at \in {"ask", "resumeAsk", "openTurn", "askFailed", "failQueued"} => IsNext(cur)
  /\ at = "openTurn" => ask[cur] = "asked"
  /\ at = "cancelAsk" => state[cur] = "cancelled"
  /\ at = "notice" => state[cur] = "failed" /\ cur \notin opened
  /\ at = "save" => cur \in Seqs \cup Tells

\* A notice is recorded for a request whose turn failed before it was opened.
NoticeKnown ==
  \A e \in Triggers : attempt[e].recorded =>
    \E n \in Seqs \ opened : trigger[n] = e /\ state[n] = "failed"

QueueInv == TableInv /\ HeadKnown /\ OpenTurnWasAsked /\ NoticeKnown

-----------------------------------------------------------------------------
(* Each statement of the turns table keeps the table in order.             *)

LEMMA RowsAreIntegers == \A n, m \in Seqs : n \in Int /\ m \in Int /\ (n <= m /\ m <= n => n = m)
  BY SeqsAreNat

\* The new row is past every row there is, so it opens no gap and overtakes none.
LEMMA EnqueueKeepsTable ==
  ASSUME TableTypeOK, TableInv, NEW e \in Triggers, EnqueueUnprocessed(e)
  PROVE  TableInv'
<1> DEFINE new == lastSeq + 1
<1>1. /\ new \in Seqs /\ new > lastSeq /\ lastSeq' = new /\ state[new] = "absent"
      /\ lastSeq \in Int
  BY InsertKeepsType, SeqsAreNat
  DEF TableInv, RowsInOrder, EnqueueUnprocessed, InsertQueued, TableTypeOK, Seqs
<1>2. /\ state'[new] = "queued" /\ trigger'[new] = e
      /\ \A n \in Seqs \ {new} : state'[n] = state[n] /\ trigger'[n] = trigger[n]
      /\ processed' = processed \cup {e} /\ opened' = opened /\ e \notin processed
  BY <1>1 DEF EnqueueUnprocessed, InsertQueued, TableTypeOK
<1>3. RowsInOrder'
  BY <1>1, <1>2, SeqsAreNat DEF TableInv, RowsInOrder, Seqs
<1>4. OpenedRows' /\ RowsProcessed'
  BY <1>1, <1>2 DEF TableInv, OpenedRows, RowsProcessed, Seqs
<1>5. OneCurrentRow'
  BY <1>1, <1>2 DEF TableInv, OneCurrentRow, RowsProcessed, Seqs
<1>6. OneOpen'
  BY <1>1, <1>2 DEF TableInv, OneOpen, ChannelOfTurn, Seqs
<1>7. OldestOpensFirst'
  <2>1. \A m \in Seqs : m \in opened => m <= lastSeq /\ m # new
    BY <1>1, SeqsAreNat DEF TableInv, RowsInOrder, OpenedRows
  <2>2. \A n, m \in Seqs : m \in opened /\ n < m => n # new
    BY <1>1, <2>1, SeqsAreNat
  <2> QED
    BY <1>2, <2>1, <2>2 DEF TableInv, OldestOpensFirst, ChannelOfTurn, Seqs
<1> QED
  BY <1>3, <1>4, <1>5, <1>6, <1>7 DEF TableInv

LEMMA ReplaceKeepsTable ==
  ASSUME TableTypeOK, TableInv, NEW r \in Seqs, ReplaceUnclaimed(r)
  PROVE  TableInv'
<1> DEFINE new == lastSeq + 1
<1>0. trigger[r] \in Triggers
  BY DEF TableTypeOK
<1>1. /\ new \in Seqs /\ new > lastSeq /\ lastSeq' = new /\ state[new] = "absent"
      /\ lastSeq \in Int /\ state[r] \in {"queued", "open"} /\ r # new
  BY <1>0, InsertKeepsType, SeqsAreNat
  DEF TableInv, RowsInOrder, ReplaceUnclaimed, Unclaimed, InsertQueued, TableTypeOK, Seqs
<1>2. /\ state'[new] = "queued" /\ trigger'[new] = trigger[r] /\ state'[r] = "cancelled"
      /\ \A n \in Seqs \ {new, r} : state'[n] = state[n]
      /\ \A n \in Seqs \ {new} : trigger'[n] = trigger[n]
      /\ processed' = processed /\ opened' = opened
  BY <1>1 DEF ReplaceUnclaimed, InsertQueued, TableTypeOK
<1>3. RowsInOrder'
  BY <1>1, <1>2, SeqsAreNat DEF TableInv, RowsInOrder, Seqs
<1>4. OpenedRows' /\ RowsProcessed'
  BY <1>1, <1>2 DEF TableInv, OpenedRows, RowsProcessed, Seqs
<1>5. OneCurrentRow'
  BY <1>1, <1>2 DEF TableInv, OneCurrentRow, Seqs
<1>6. OneOpen'
  BY <1>1, <1>2 DEF TableInv, OneOpen, ChannelOfTurn, Seqs
<1>7. OldestOpensFirst'
  <2>1. \A m \in Seqs : m \in opened => m <= lastSeq /\ m # new
    BY <1>1, SeqsAreNat DEF TableInv, RowsInOrder, OpenedRows
  <2>2. \A n, m \in Seqs : m \in opened /\ n < m => n # new
    BY <1>1, <2>1, SeqsAreNat
  <2> QED
    BY <1>2, <2>1, <2>2 DEF TableInv, OldestOpensFirst, ChannelOfTurn, Seqs
<1> QED
  BY <1>3, <1>4, <1>5, <1>6, <1>7 DEF TableInv

\* What a statement that opens and inserts nothing may do to a row.
StaysOrEnds(n) ==
  \/ state'[n] = state[n]
  \/ state[n] = "queued" /\ state'[n] \in {"failed", "cancelled"}
  \/ state[n] = "open" /\ state'[n] \in Terminal

\* A row that ends, or is paced, leaves the order of the others alone.
LEMMA EndingKeepsTable ==
  ASSUME TableInv, NEW r, opened' = opened,
         UNCHANGED <<trigger, lastSeq, processed>>,
         \A n \in Seqs : n # r => state'[n] = state[n],
         r \in Seqs => StaysOrEnds(r)
  PROVE  TableInv'
<1>1. RowsInOrder' /\ OpenedRows' /\ RowsProcessed'
  BY DEF TableInv, RowsInOrder, OpenedRows, RowsProcessed, StaysOrEnds, Terminal, Seqs
<1>2. OneCurrentRow'
  BY DEF TableInv, OneCurrentRow, StaysOrEnds, Terminal, Seqs
<1>3. OneOpen' /\ OldestOpensFirst'
  BY DEF TableInv, OneOpen, OldestOpensFirst, ChannelOfTurn, StaysOrEnds, Terminal, Seqs
<1> QED
  BY <1>1, <1>2, <1>3 DEF TableInv

LEMMA OpenKeepsTable ==
  ASSUME TableTypeOK, TableInv, NEW r \in Seqs, OpenNextTurn(r)
  PROVE  TableInv'
<1>1. /\ state[r] = "queued" /\ state'[r] = "open" /\ opened' = opened \cup {r}
      /\ \A n \in Seqs \ {r} : state'[n] = state[n]
      /\ UNCHANGED <<trigger, lastSeq, processed>>
  BY DEF OpenNextTurn, IsNext, TableTypeOK
<1>2. RowsInOrder' /\ OpenedRows' /\ RowsProcessed'
  BY <1>1 DEF TableInv, RowsInOrder, OpenedRows, RowsProcessed, Seqs
<1>3. OneCurrentRow'
  BY <1>1 DEF TableInv, OneCurrentRow, Seqs
<1>4. OneOpen'
  BY <1>1 DEF TableInv, OneOpen, OpenNextTurn, IsNext, HasOpen, ChannelOfTurn, Seqs
<1>5. OldestOpensFirst'
  <2>1. \A n \in Seqs : n < r /\ ChannelOfTurn(n) = ChannelOfTurn(r) => state[n] # "queued"
    BY SeqsAreNat DEF OpenNextTurn, IsNext
  <2> QED
    BY <1>1, <2>1 DEF TableInv, OldestOpensFirst, ChannelOfTurn, Seqs
<1> QED
  BY <1>2, <1>3, <1>4, <1>5 DEF TableInv

-----------------------------------------------------------------------------
(* The steps of the outbox: they end turns and open none.                  *)

\* What a step of the outbox may do to the turns: end the one it works on.
LEMMA OutboxEnds ==
  ASSUME TypeInv, OutboxNext
  PROVE  /\ UNCHANGED <<trigger, opened, lastSeq, processed, ask>>
         /\ \A n \in Seqs : n # cur => state'[n] = state[n]
         /\ cur \in Seqs => StaysOrEnds(cur)
<1>1. \/ UNCHANGED <<tableVars, ask>>
      \/ UNCHANGED <<state, trigger, opened, lastSeq, processed, ask>>
      \/ (SetTurnState(cur, "posted") \/ SetTurnState(cur, "failed")) /\ UNCHANGED ask
  BY DEF OutboxNext, PublishStep, TakeFinal, TakeTell, RetryAttempt, AbandonAttempt, Ack,
    SaveAttempt, ClaimTurn, ClaimForPublish, Prepare, PrepareFails, SendAccepted, SendNotAccepted,
    SendRejected, UndoDispatch, ReleaseClaim, ReleasePublishClaim, MarkAccepted, MarkPosted,
    FailTurn, StopRetries, DropAttempt, AbandonReleases, kelpieVars
<1>2. CASE UNCHANGED <<state, trigger, opened, lastSeq, processed, ask>>
  BY <1>2 DEF StaysOrEnds
<1>3. ASSUME NEW to \in {"posted", "failed"}, SetTurnState(cur, to), UNCHANGED ask
      PROVE  /\ UNCHANGED <<trigger, opened, lastSeq, processed, ask>>
             /\ \A n \in Seqs : n # cur => state'[n] = state[n]
             /\ cur \in Seqs => StaysOrEnds(cur)
  BY <1>3 DEF SetTurnState, LegalTransitions, StaysOrEnds, Terminal, TypeInv, HostTypeOK, TableTypeOK
<1> QED
  BY <1>1, <1>2, <1>3 DEF tableVars

\* The outbox leaves the dispatcher's steps to the dispatcher, and records no
\* notice: only a final or a tell is saved.
LEMMA OutboxGoes ==
  ASSUME TypeInv, HeadKnown, OutboxNext
  PROVE  /\ at' \notin DispatchSteps \ {"resume"}
         /\ at' = "save" => cur' \in Seqs \cup Tells
         /\ \A e \in Triggers : attempt'[e].recorded => attempt[e].recorded
<1>0. attempt \in [Keys -> Attempts] /\ offered \subseteq Messages
  BY DEF TypeInv, HostTypeOK
<1>1. at' \notin DispatchSteps \ {"resume"}
  <2>1. CASE \E m \in offered : TakeFinal(m) \/ TakeTell(m)
    BY <2>1 DEF TakeFinal, TakeTell, Decide, Idle, taskVars, DispatchSteps
  <2>2. CASE \E k \in Keys : RetryAttempt(k) \/ AbandonAttempt(k)
    BY <2>2 DEF RetryAttempt, AbandonAttempt, StartResume, Return, DispatchSteps
  <2>3. CASE PublishStep
    BY <2>3 DEF PublishStep, Ack, SaveAttempt, ClaimTurn, Prepare, PrepareFails, SendAccepted,
      SendNotAccepted, SendRejected, UndoDispatch, ReleaseClaim, MarkAccepted, MarkPosted, FailTurn,
      StopRetries, DropAttempt, AbandonReleases, GiveUp, Finish, Goto, Return, StartResume,
      DispatchSteps
  <2> QED
    BY <2>1, <2>2, <2>3 DEF OutboxNext
<1>2. at' = "save" => cur' \in Seqs \cup Tells
  <2>1. ASSUME NEW m \in offered, TakeFinal(m) \/ TakeTell(m), at' = "save"
        PROVE  cur' \in Seqs \cup Tells
    BY <1>0, <2>1 DEF TakeFinal, TakeTell, Idle, taskVars, Messages, Finals, TellMsgs
  <2>2. CASE \E k \in Keys : RetryAttempt(k) \/ AbandonAttempt(k)
    BY <2>2 DEF RetryAttempt, AbandonAttempt, HasTurn, StartResume, Return
  <2>3. CASE PublishStep
    BY <2>3 DEF PublishStep, Ack, SaveAttempt, ClaimTurn, Prepare, PrepareFails, SendAccepted,
      SendNotAccepted, SendRejected, UndoDispatch, ReleaseClaim, MarkAccepted, MarkPosted, FailTurn,
      StopRetries, DropAttempt, AbandonReleases, GiveUp, Finish, Goto, Return, StartResume
  <2> QED
    BY <2>1, <2>2, <2>3 DEF OutboxNext
<1>3. ASSUME NEW e \in Triggers, attempt'[e].recorded
      PROVE  attempt[e].recorded
  <2>1. e \in Keys
    BY DEF Keys
  <2>2. CASE SaveAttempt
    <3>1. cur # e
      BY <2>2, KeysDisjoint, HostStateAssumption DEF SaveAttempt, HeadKnown, HostStateAssumption
    <3>2. attempt'[e] = attempt[e]
      BY <1>0, <2>1, <2>2, <3>1 DEF SaveAttempt
    <3> QED
      BY <1>3, <3>2
  <2>3. CASE \E k \in Keys : RetryAttempt(k) \/ AbandonAttempt(k)
    BY <1>0, <1>3, <2>1, <2>3 DEF RetryAttempt, AbandonAttempt, Attempts
  <2>4. CASE Prepare \/ UndoDispatch \/ MarkAccepted \/ StopRetries \/ DropAttempt
    BY <1>0, <1>3, <2>1, <2>4 DEF Prepare, UndoDispatch, MarkAccepted, StopRetries, DropAttempt, Attempts
  <2>5. ASSUME attempt' = attempt
        PROVE  attempt[e].recorded
    BY <1>3, <2>5
  <2>6. \/ SaveAttempt \/ \E k \in Keys : RetryAttempt(k) \/ AbandonAttempt(k)
        \/ Prepare \/ UndoDispatch \/ MarkAccepted \/ StopRetries \/ DropAttempt
        \/ attempt' = attempt
    BY DEF OutboxNext, PublishStep, TakeFinal, TakeTell, Ack, ClaimTurn, PrepareFails, SendAccepted,
      SendNotAccepted, SendRejected, ReleaseClaim, MarkPosted, FailTurn, AbandonReleases, outVars
  <2> QED
    BY <2>2, <2>3, <2>4, <2>5, <2>6
<1> QED
  BY <1>1, <1>2, <1>3

\* A failed turn that was never opened stays that way when no row reopens.
LEMMA NoticeStays ==
  ASSUME NoticeKnown, trigger' = trigger, opened' = opened,
         \A n \in Seqs : state[n] = "failed" => state'[n] = "failed",
         \A e \in Triggers : attempt'[e].recorded => attempt[e].recorded
  PROVE  NoticeKnown'
  BY DEF NoticeKnown, Seqs

LEMMA OutboxQueue ==
  ASSUME TypeInv, QueueInv, OutboxNext
  PROVE  QueueInv'
<1>1. TableInv'
  BY OutboxEnds, EndingKeepsTable DEF QueueInv
<1>2. HeadKnown'
  BY OutboxGoes DEF QueueInv, HeadKnown, DispatchSteps
<1>3. OpenTurnWasAsked'
  BY OutboxEnds DEF QueueInv, OpenTurnWasAsked, StaysOrEnds, Terminal, Seqs
<1>4. NoticeKnown'
  <2>1. \A n \in Seqs : state[n] = "failed" => state'[n] = "failed"
    BY OutboxEnds DEF StaysOrEnds
  <2> QED
    BY <2>1, OutboxEnds, OutboxGoes, NoticeStays DEF QueueInv
<1> QED
  BY <1>1, <1>2, <1>3, <1>4 DEF QueueInv

-----------------------------------------------------------------------------
(* The steps of the dispatcher.                                            *)

\* A row asked at once after its insertion is the next one of its session.
LEMMA NewRowIsNext ==
  ASSUME TableTypeOK', NEW n \in Seqs, state'[n] = "queued", ShouldAskNew(n),
         \A m \in Seqs \ {n} : trigger'[m] = trigger[m]
  PROVE  IsNext(n)'
<1>1. \A m \in Seqs \ {n} :
        ChannelOf[trigger'[m]] = ChannelOf[trigger'[n]] => state'[m] \notin {"queued", "open"}
  BY DEF ShouldAskNew, ChannelOfTurn
<1> QED
  BY <1>1, SeqsAreNat DEF IsNext, HasOpen, ChannelOfTurn, Seqs

\* Two rows of a session cannot both be next.
LEMMA NextIsUnique ==
  ASSUME NEW n \in Seqs, NEW m \in Seqs, IsNext(n), IsNext(m), ChannelOfTurn(n) = ChannelOfTurn(m)
  PROVE  n = m
  BY RowsAreIntegers DEF IsNext

\* A step that leaves the turns, the asks and the attempts alone.
LEMMA TablesKept ==
  ASSUME QueueInv, UNCHANGED <<state, trigger, opened, lastSeq, processed>>,
         \A n \in Seqs : state[n] = "open" => ask'[n] = ask[n],
         \A e \in Triggers : attempt'[e].recorded => attempt[e].recorded
  PROVE  TableInv' /\ OpenTurnWasAsked' /\ NoticeKnown'
<1>1. TableInv'
  BY DEF QueueInv, TableInv, RowsInOrder, OpenedRows, RowsProcessed, OneCurrentRow, OneOpen,
    OldestOpensFirst, ChannelOfTurn, Seqs
<1>2. OpenTurnWasAsked'
  BY DEF QueueInv, OpenTurnWasAsked, Seqs
<1>3. NoticeKnown'
  BY NoticeStays DEF QueueInv
<1> QED
  BY <1>1, <1>2, <1>3

\* The handlers of relay traffic: insert, replace or cancel.
LEMMA HandleTriggerQueue ==
  ASSUME TypeInv, QueueInv, NEW e \in Triggers, HandleTrigger(e)
  PROVE  QueueInv'
<1>0. TableTypeOK /\ EnqueueUnprocessed(e)
  BY DEF TypeInv, HostTypeOK, HandleTrigger
<1> PICK new \in Seqs : new = lastSeq + 1
  BY <1>0, InsertKeepsType DEF EnqueueUnprocessed
<1>1. /\ TableTypeOK' /\ TableInv'
  BY <1>0, EnqueueKeepsType, InsertKeepsType, EnqueueKeepsTable DEF QueueInv, EnqueueUnprocessed
<1>2. /\ state'[new] = "queued" /\ opened' = opened
      /\ \A n \in Seqs \ {new} : state'[n] = state[n] /\ trigger'[n] = trigger[n]
  BY <1>0, <1>1 DEF EnqueueUnprocessed, InsertQueued, TableTypeOK
<1>3. HeadKnown'
  <2>1. CASE ShouldAskNew(new)
    <3>1. IsNext(new)'
      BY <1>1, <1>2, <2>1, NewRowIsNext
    <3> QED
      BY <2>1, <3>1 DEF HandleTrigger, HeadKnown
  <2>2. CASE ~ShouldAskNew(new)
    BY <2>2 DEF HandleTrigger, Free, HeadKnown, taskVars
  <2> QED
    BY <2>1, <2>2
<1>4. OpenTurnWasAsked'
  BY <1>1, <1>2 DEF HandleTrigger, kelpieVars, QueueInv, OpenTurnWasAsked, Seqs
<1>5. NoticeKnown'
  <2>1. state[new] = "absent"
    BY <1>0, <1>1, SeqsAreNat DEF QueueInv, TableInv, RowsInOrder, TableTypeOK
  <2>2. attempt' = attempt
    BY DEF HandleTrigger, outVars
  <2> QED
    BY <1>2, <2>1, <2>2 DEF QueueInv, NoticeKnown, Seqs
<1> QED
  BY <1>1, <1>3, <1>4, <1>5 DEF QueueInv

LEMMA HandleEditQueue ==
  ASSUME TypeInv, QueueInv, NEW r \in Seqs, HandleEdit(r)
  PROVE  QueueInv'
<1>0. TableTypeOK /\ ReplaceUnclaimed(r) /\ trigger[r] \in Triggers
  BY DEF TypeInv, HostTypeOK, HandleEdit, TableTypeOK
<1> PICK new \in Seqs : new = lastSeq + 1
  BY <1>0, InsertKeepsType DEF ReplaceUnclaimed
<1>1. /\ TableTypeOK' /\ TableInv' /\ state[new] = "absent"
      /\ state[r] \in {"queued", "open"}
  <2>1. TableTypeOK' /\ TableInv'
    BY <1>0, ReplaceKeepsType, InsertKeepsType, ReplaceKeepsTable DEF QueueInv, ReplaceUnclaimed
  <2> QED
    BY <1>0, <2>1, SeqsAreNat
    DEF QueueInv, TableInv, RowsInOrder, TableTypeOK, ReplaceUnclaimed, Unclaimed
<1>2. /\ state'[new] = "queued" /\ state'[r] = "cancelled" /\ opened' = opened
      /\ \A n \in Seqs \ {new, r} : state'[n] = state[n]
      /\ \A n \in Seqs \ {new} : trigger'[n] = trigger[n]
  BY <1>0, <1>1 DEF ReplaceUnclaimed, InsertQueued, TableTypeOK
<1>3. HeadKnown'
  <2>1. CASE r \in opened
    BY <1>2, <2>1 DEF HandleEdit, HeadKnown
  <2>2. CASE r \notin opened /\ ShouldAskNew(new)
    <3>1. IsNext(new)'
      BY <1>1, <1>2, <2>2, NewRowIsNext
    <3> QED
      BY <2>2, <3>1 DEF HandleEdit, AskReplacement, HeadKnown
  <2>3. CASE r \notin opened /\ ~ShouldAskNew(new)
    BY <2>3 DEF HandleEdit, AskReplacement, StartResume, HeadKnown
  <2> QED
    BY <2>1, <2>2, <2>3
<1>4. OpenTurnWasAsked'
  BY <1>1, <1>2 DEF HandleEdit, kelpieVars, QueueInv, OpenTurnWasAsked, Seqs
<1>5. NoticeKnown'
  <2>1. attempt' = attempt
    BY DEF HandleEdit, outVars
  <2> QED
    BY <1>1, <1>2, <2>1 DEF QueueInv, NoticeKnown, Seqs
<1> QED
  BY <1>1, <1>3, <1>4, <1>5 DEF QueueInv

\* A row of the queue, or an open one, is closed; nothing else moves.
LEMMA ClosingKeepsQueue ==
  ASSUME TypeInv, QueueInv, NEW r \in Seqs, NEW to \in {"failed", "cancelled"},
         (CancelUnclaimed(r) /\ to = "cancelled") \/ CloseQueued(r, to), UNCHANGED <<ask, attempt>>
  PROVE  /\ TableInv' /\ OpenTurnWasAsked' /\ NoticeKnown'
         /\ state'[r] = to /\ opened' = opened /\ trigger' = trigger
         /\ state[r] = "queued" => r \notin opened'
<1>1. /\ state[r] \in {"queued", "open"} /\ (to = "failed" => state[r] = "queued")
      /\ UNCHANGED <<trigger, opened, lastSeq, processed>>
      /\ state'[r] = to /\ \A n \in Seqs \ {r} : state'[n] = state[n]
  BY DEF CancelUnclaimed, Unclaimed, CloseQueued, TypeInv, HostTypeOK, TableTypeOK
<1>2. TableInv'
  BY <1>1, EndingKeepsTable DEF QueueInv, StaysOrEnds, Terminal
<1>3. OpenTurnWasAsked'
  BY <1>1 DEF QueueInv, OpenTurnWasAsked, Seqs
<1>4. NoticeKnown'
  BY <1>1, NoticeStays DEF QueueInv
<1>5. state[r] = "queued" => r \notin opened'
  BY <1>1 DEF QueueInv, TableInv, OpenedRows
<1> QED
  BY <1>1, <1>2, <1>3, <1>4, <1>5

LEMMA HandleDeleteQueue ==
  ASSUME TypeInv, QueueInv, NEW r \in Seqs, HandleDelete(r)
  PROVE  QueueInv'
<1>1. CancelUnclaimed(r) /\ UNCHANGED <<ask, attempt>>
  BY DEF HandleDelete, kelpieVars, outVars
<1>2. /\ TableInv' /\ OpenTurnWasAsked' /\ NoticeKnown' /\ state'[r] = "cancelled"
  BY <1>1, ClosingKeepsQueue
<1>3. HeadKnown'
  BY <1>2 DEF HandleDelete, StartResume, HeadKnown
<1> QED
  BY <1>2, <1>3 DEF QueueInv

\* The ask of a cancelled turn is cancelled: no open turn loses its ask.
LEMMA CancelAskQueue ==
  ASSUME TypeInv, QueueInv, CancelAsk \/ CancelAskFails
  PROVE  QueueInv'
<1>1. /\ UNCHANGED tableVars /\ attempt' = attempt /\ state[cur] = "cancelled"
      /\ \A n \in Seqs \ {cur} : ask'[n] = ask[n]
  BY DEF CancelAsk, CancelAskFails, QueueInv, HeadKnown, outVars, TypeInv, HostTypeOK
<1>2. TableInv' /\ OpenTurnWasAsked' /\ NoticeKnown'
  BY <1>1, TablesKept DEF tableVars
<1>3. \/ at' \in {"resume", "idle"}
      \/ at' = "ask" /\ IsNext(cur')
  BY DEF CancelAsk, CancelAskFails, StartResume, Return
<1>4. IsNext(cur') => IsNext(cur)'
  BY <1>1 DEF tableVars, IsNext, HasOpen, ChannelOfTurn, Seqs
<1> QED
  BY <1>2, <1>3, <1>4 DEF QueueInv, HeadKnown

\* The steps of the resume loop and of an ask that change no turn.
LEMMA AskingQueue ==
  ASSUME TypeInv, QueueInv,
         \/ ResumeTick \/ ResumeEnds \/ AskDelivered \/ AskFails \/ DispatchFailed \/ PastBound
         \/ \E n \in Seqs : ResumeNext(n)
  PROVE  QueueInv'
<1>1. /\ UNCHANGED <<state, trigger, opened, lastSeq, processed>> /\ attempt' = attempt
      /\ ask' = ask \/ (state[cur] = "queued" /\ \A n \in Seqs \ {cur} : ask'[n] = ask[n])
  BY DEF ResumeTick, ResumeEnds, AskDelivered, AskFails, DispatchFailed, PastBound, ResumeNext, Asking,
    RecordDispatchFailure, tableVars, kelpieVars, outVars, QueueInv, HeadKnown, IsNext, TypeInv, HostTypeOK
<1>2. TableInv' /\ OpenTurnWasAsked' /\ NoticeKnown'
  BY <1>1, TablesKept
<1>3. IsNext(cur') => IsNext(cur)'
  BY <1>1 DEF IsNext, HasOpen, ChannelOfTurn, Seqs
<1>4. HeadKnown'
  <2>1. CASE ResumeTick \/ ResumeEnds \/ DispatchFailed
    BY <2>1 DEF ResumeTick, ResumeEnds, DispatchFailed, Continue, StartResume, Return, HeadKnown
  <2>2. CASE AskDelivered
    <3>1. cur \in Seqs
      BY <2>2 DEF AskDelivered, Asking, TypeInv, CursorOK, DispatchSteps
    <3>2. at' = "openTurn" /\ cur' = cur /\ IsNext(cur) /\ ask'[cur] = "asked"
      BY <2>2, <3>1 DEF AskDelivered, Asking, Goto, QueueInv, HeadKnown, TypeInv, HostTypeOK
    <3> QED
      BY <1>3, <3>2 DEF HeadKnown
  <2>3. CASE AskFails \/ PastBound
    <3>1. at' \in {"idle", "askFailed", "failQueued"} /\ (at' # "idle" => cur' = cur /\ IsNext(cur))
      BY <2>3 DEF AskFails, PastBound, Asking, Goto, Return, QueueInv, HeadKnown
    <3> QED
      BY <1>3, <3>1 DEF HeadKnown
  <2>4. CASE \E n \in Seqs : ResumeNext(n)
    <3>1. at' = "resumeAsk" /\ IsNext(cur')
      BY <2>4 DEF ResumeNext, Candidates
    <3> QED
      BY <1>3, <3>1 DEF HeadKnown
  <2> QED
    BY <2>1, <2>2, <2>3, <2>4
<1> QED
  BY <1>2, <1>4 DEF QueueInv

\* open_next_turn chooses the row that was asked, though it looks for itself.
LEMMA OpenTurnQueue ==
  ASSUME TypeInv, QueueInv, OpenTurn
  PROVE  QueueInv'
<1>0. cur \in Seqs /\ IsNext(cur) /\ ask[cur] = "asked" /\ TableTypeOK
  BY DEF OpenTurn, TypeInv, HostTypeOK, CursorOK, DispatchSteps, QueueInv, HeadKnown
<1>1. OpenNextTurn(cur)
  BY <1>0, NextIsUnique DEF OpenTurn, OpenNextTurn
<1>2. TableInv'
  BY <1>0, <1>1, OpenKeepsTable DEF QueueInv
<1>3. /\ state[cur] = "queued" /\ \A n \in Seqs \ {cur} : state'[n] = state[n]
      /\ opened' = opened \cup {cur} /\ UNCHANGED <<trigger, ask, attempt>>
  BY <1>0, <1>1 DEF OpenNextTurn, IsNext, TableTypeOK, OpenTurn, kelpieVars, outVars
<1>4. OpenTurnWasAsked'
  BY <1>0, <1>3 DEF QueueInv, OpenTurnWasAsked, Seqs
<1>5. NoticeKnown'
  BY <1>3 DEF QueueInv, NoticeKnown, Seqs
<1>6. HeadKnown'
  BY DEF OpenTurn, Return, HeadKnown
<1> QED
  BY <1>2, <1>4, <1>5, <1>6 DEF QueueInv

\* Queued work is closed: cancelled unasked, or failed past the bound.
LEMMA CloseQueue ==
  ASSUME TypeInv, QueueInv, FailUndispatched \/ \E n \in Seqs : ResumeCancels(n)
  PROVE  QueueInv'
<1>1. CASE FailUndispatched
  <2>1. /\ cur \in Seqs /\ CloseQueued(cur, "failed") /\ UNCHANGED <<ask, attempt>>
        /\ at' = "notice" /\ cur' = cur
    BY <1>1 DEF FailUndispatched, TypeInv, CursorOK, DispatchSteps, Goto, kelpieVars, outVars
  <2>2. state[cur] = "queued"
    BY <2>1 DEF CloseQueued
  <2> QED
    BY <2>1, <2>2, ClosingKeepsQueue DEF QueueInv, HeadKnown
<1>2. ASSUME NEW n \in Seqs, ResumeCancels(n)
      PROVE  QueueInv'
  <2>1. CloseQueued(n, "cancelled") /\ UNCHANGED <<ask, attempt>> /\ at' = "resume"
    BY <1>2 DEF ResumeCancels, kelpieVars, outVars
  <2> QED
    BY <2>1, ClosingKeepsQueue DEF QueueInv, HeadKnown
<1> QED
  BY <1>1, <1>2

LEMMA NoticeQueue ==
  ASSUME TypeInv, QueueInv, RecordNotice
  PROVE  QueueInv'
<1>0. /\ cur \in Seqs /\ state[cur] = "failed" /\ cur \notin opened
      /\ trigger[cur] \in Keys /\ attempt \in [Keys -> Attempts]
  BY DEF RecordNotice, TypeInv, CursorOK, DispatchSteps, QueueInv, HeadKnown, HostTypeOK, TableTypeOK, Keys
<1>1. /\ UNCHANGED tableVars /\ ask' = ask /\ at' = "resume"
      /\ \A e \in Triggers : e # trigger[cur] => attempt'[e] = attempt[e]
  BY <1>0 DEF RecordNotice, Continue, kelpieVars, Keys
<1>2. NoticeKnown'
  BY <1>0, <1>1 DEF QueueInv, NoticeKnown, tableVars, Seqs
<1>3. TableInv' /\ OpenTurnWasAsked'
  BY <1>1 DEF tableVars, QueueInv, TableInv, RowsInOrder, OpenedRows, RowsProcessed, OneCurrentRow,
    OneOpen, OldestOpensFirst, OpenTurnWasAsked, ChannelOfTurn, Seqs
<1>4. HeadKnown'
  BY <1>1 DEF HeadKnown
<1> QED
  BY <1>2, <1>3, <1>4 DEF QueueInv

LEMMA DeclineQueue ==
  ASSUME TypeInv, QueueInv, NEW e \in Triggers, DeclineTrigger(e)
  PROVE  QueueInv'
<1>1. /\ UNCHANGED <<state, trigger, opened, lastSeq, ask, attempt, at, cur>>
      /\ processed' = processed \cup {e}
  BY DEF DeclineTrigger, kelpieVars, outVars, taskVars
<1>2. TableInv'
  BY <1>1 DEF QueueInv, TableInv, RowsInOrder, OpenedRows, RowsProcessed, OneCurrentRow, OneOpen,
    OldestOpensFirst, ChannelOfTurn, Seqs
<1>3. OpenTurnWasAsked' /\ NoticeKnown'
  BY <1>1 DEF QueueInv, OpenTurnWasAsked, NoticeKnown, Seqs
<1>4. HeadKnown'
  BY <1>1 DEF DeclineTrigger, Free, HeadKnown
<1> QED
  BY <1>2, <1>3, <1>4 DEF QueueInv

LEMMA DispatchQueue ==
  ASSUME TypeInv, QueueInv, DispatchNext
  PROVE  QueueInv'
  BY HandleTriggerQueue, HandleEditQueue, HandleDeleteQueue, CancelAskQueue, AskingQueue, OpenTurnQueue,
    CloseQueue, NoticeQueue, DeclineQueue DEF DispatchNext, DispatchStep

-----------------------------------------------------------------------------
(* Crashes, restarts, Kelpie and the occupants; the first state.           *)

LEMMA EnvironmentQueue ==
  ASSUME TypeInv, QueueInv, Environment
  PROVE  QueueInv'
<1>1. UNCHANGED <<tableVars, ask, attempt>>
  BY DEF Environment, Restart, Crash, StorageError, Reconnect, OccupantReplies, OccupantTells, Arrives,
    outVars, kelpieVars
<1>2. TableInv' /\ OpenTurnWasAsked' /\ NoticeKnown'
  BY <1>1, TablesKept DEF tableVars
<1>3. IsNext(cur') => IsNext(cur)'
  BY <1>1 DEF tableVars, IsNext, HasOpen, ChannelOfTurn, Seqs
<1>4. HeadKnown'
  <2>1. CASE Restart \/ Crash
    BY <2>1 DEF Restart, Crash, StartResume, HeadKnown
  <2>2. CASE StorageError
    <3>1. at' \in {"idle", "askFailed"} /\ (at' = "askFailed" => IsNext(cur) /\ cur' = cur)
      BY <2>2 DEF StorageError, Goto, Return, QueueInv, HeadKnown
    <3> QED
      BY <1>3, <3>1 DEF HeadKnown
  <2>3. CASE Reconnect \/ \E m \in Messages : Arrives(m)
    BY <2>3 DEF Reconnect, Arrives, Unseen, taskVars, HeadKnown
  <2> QED
    BY <2>1, <2>2, <2>3 DEF Environment, OccupantReplies, OccupantTells
<1> QED
  BY <1>2, <1>4 DEF QueueInv

LEMMA InitQueue == Init => QueueInv
<1> SUFFICES ASSUME Init PROVE QueueInv
  OBVIOUS
<1>1. HeadKnown
  BY DEF Init, HeadKnown
<1>2. CASE FreshDatabase
  <2>1. TableInv /\ OpenTurnWasAsked
    BY <1>2, SeqsAreNat DEF FreshDatabase, TableInv, RowsInOrder, OpenedRows, RowsProcessed, OneCurrentRow,
      OneOpen, OldestOpensFirst, OpenTurnWasAsked, Seqs
  <2>2. NoticeKnown
    BY <1>2 DEF FreshDatabase, NoticeKnown, NoAttempt, Keys
  <2> QED
    BY <1>1, <2>1, <2>2 DEF QueueInv
<1>3. CASE UpgradedDatabase
  <2>1. /\ \A n \in Seqs : state[n] = IF n = 1 THEN "open" ELSE "absent"
        /\ opened = {1} /\ lastSeq = 1 /\ (\A n \in Seqs : trigger[n] \in processed)
        /\ \A n \in Seqs : n = 1 => ask[n] = "asked"
        /\ \A k \in Keys : k # 1 => ~attempt[k].recorded
    BY <1>3 DEF UpgradedDatabase, NoAttempt
  <2>2. TableInv /\ OpenTurnWasAsked
    BY <2>1, SeqsAreNat DEF TableInv, RowsInOrder, OpenedRows, RowsProcessed, OneCurrentRow,
      OneOpen, OldestOpensFirst, OpenTurnWasAsked, Seqs
  <2>3. NoticeKnown
    <3>1. 1 \in Seqs
      BY TurnTableAssumption DEF TurnTableAssumption, Seqs
    <3> QED
      BY <2>1, <3>1, KeysDisjoint DEF NoticeKnown, Keys
  <2> QED
    BY <1>1, <2>2, <2>3 DEF QueueInv
<1> QED
  BY <1>2, <1>3 DEF Init

-----------------------------------------------------------------------------
\* The inductive invariant of the queue: the rows in order, and what the
\* dispatcher knows of the row it asks about.
THEOREM QueueHolds == Spec => [](TypeInv /\ QueueInv)
<1>1. TypeInv /\ QueueInv /\ [Next]_vars => QueueInv'
  <2> SUFFICES ASSUME TypeInv, QueueInv, [Next]_vars PROVE QueueInv'
    OBVIOUS
  <2>1. CASE Next
    BY <2>1, OutboxQueue, DispatchQueue, EnvironmentQueue DEF Next
  <2>2. CASE UNCHANGED vars
    BY <2>2 DEF vars, outVars, tableVars, taskVars, kelpieVars, QueueInv, TableInv, RowsInOrder,
      OpenedRows, RowsProcessed, OneCurrentRow, OneOpen, OldestOpensFirst, ChannelOfTurn, HeadKnown,
      OpenTurnWasAsked, NoticeKnown, IsNext, HasOpen, Seqs
  <2> QED
    BY <2>1, <2>2
<1> QED
  BY InitQueue, <1>1, TypeCorrect, PTL DEF Spec

\* Whichever of the three paths drains a session, it has one open turn and one
\* live turn for a trigger, and opens its turns in the order they were queued.
THEOREM QueueIsOrderedHolds == Spec => []QueueIsOrdered
<1>1. QueueInv => QueueIsOrdered
  <2> SUFFICES ASSUME QueueInv PROVE QueueIsOrdered
    OBVIOUS
  <2>1. IndexesHold
    BY DEF QueueInv, TableInv, OneOpen, OneCurrentRow, IndexesHold, Live
  <2> QED
    BY <2>1 DEF QueueInv, TableInv, QueueIsOrdered
<1> QED
  BY <1>1, QueueHolds, PTL

\* An open turn waits for an ask the occupant holds: open_next_turn, which
\* picks a row itself, never opens another row than the one that was asked.
THEOREM OpenTurnWasAskedHolds == Spec => []OpenTurnWasAsked
<1>1. QueueInv => OpenTurnWasAsked
  BY DEF QueueInv
<1> QED
  BY <1>1, QueueHolds, PTL

\* A trigger has at most one posted turn, however often it was edited or
\* replayed: the edits cancelled all its turns but one.
THEOREM OnePostedPerTriggerHolds == Spec => []OnePostedPerTrigger
<1>1. QueueInv => OnePostedPerTrigger
  BY DEF QueueInv, TableInv, OneCurrentRow, OnePostedPerTrigger
<1> QED
  BY <1>1, QueueHolds, PTL

\* "Could not be started" is said only of a request that has no live and no
\* posted turn, however the failure raced edits, replays and restarts.
THEOREM NoticeOnlyForFailedHolds == Spec => []NoticeOnlyForFailed
<1>1. QueueInv => NoticeOnlyForFailed
  <2> SUFFICES ASSUME QueueInv, NEW e \in Triggers, attempt[e].recorded
               PROVE  /\ \E n \in Seqs \ opened : trigger[n] = e /\ state[n] = "failed"
                      /\ \A n \in Seqs : trigger[n] = e => ~Live(n) /\ state[n] # "posted"
    BY DEF NoticeOnlyForFailed
  <2>1. PICK n \in Seqs \ opened : trigger[n] = e /\ state[n] = "failed"
    BY DEF QueueInv, NoticeKnown
  <2> QED
    BY <2>1 DEF QueueInv, TableInv, OneCurrentRow, Live
<1> QED
  BY <1>1, QueueHolds, PTL

-----------------------------------------------------------------------------
(* ------------------------- what becomes of an answer ------------------- *)

\* A message the task handles is one Kelpie still knows, and names its row.
DeliveryKnown ==
  /\ offered \subseteq held \cup settled
  /\ msg # NoMsg => msg \in held \cup settled
  /\ at \in PublishSteps /\ msg # NoMsg => msg.key = cur

\* Which rows the steps of the outbox work on: turns that were opened, and
\* until the acceptance is recorded the turn stays open and claimed.
CursorOpened ==
  /\ at \in {"claim", "release", "post", "fail", "unclaim", "drop"} => cur \in Seqs
  /\ at = "stop" => cur \notin Seqs
  /\ at \in PublishSteps /\ cur \in Seqs => cur \in opened
  /\ at = "accept" /\ cur \in Seqs => state[cur] = "open" /\ claimed[cur]

\* A row the handler may still give up, release or fail is not accepted; only
\* a refused final fails a turn whose answer is.
NotYetAccepted ==
  /\ at \in {"claim", "prepare", "send", "undo", "release", "accept", "stop", "unclaim", "drop"} =>
       ~attempt[cur].accepted
  /\ at = "accept" => ~attempt[cur].abandoned
  /\ at = "fail" => ~attempt[cur].accepted \/ (msg # NoMsg /\ msg.body \in Refused)

\* An accepted answer is never given up, and its turn, while open, stays claimed.
AnswersKept ==
  \A n \in Seqs : attempt[n].accepted =>
    ~attempt[n].abandoned /\ (state[n] = "open" => claimed[n])

\* Nothing is left to do about m.
Done(m) ==
  IF m.kind = "final" THEN state[m.key] \in Terminal
  ELSE \/ m.body \in Refused \cup {Empty}
       \/ attempt[m.key].accepted \/ attempt[m.key].abandoned

\* The task acknowledges only what is done; tells know no older version's rows.
AckKnown ==
  /\ at = "ack" => Done(msg)
  /\ \A t \in Tells : attempt[t].dispatched => attempt[t].prepared # NoEvent
  /\ at \in {"unclaim", "drop"} => msg = NoMsg

AnswerInv ==
  /\ DeliveryKnown /\ CursorOpened /\ NotYetAccepted /\ AnswersKept
  /\ AckKnown /\ ShownTurnKeepsItsAnswer /\ AckedIsSettled

\* What the earlier proofs established of every reachable state.
Known == TypeInv /\ SafetyInv /\ QueueInv

-----------------------------------------------------------------------------
(* What any step of the host leaves alone.                                 *)

\* An attempt is accepted only for a turn that was opened.
LEMMA AcceptedWasOpened ==
  ASSUME Known, NEW n \in Seqs, attempt[n].accepted
  PROVE  n \in opened /\ state[n] \notin {"absent", "queued"}
<1>1. n \in Keys
  BY DEF Keys
<1>2. PICK event \in relay : event.key = n
  BY <1>1 DEF Known, SafetyInv, AcceptedKnown, OnRelay
<1>3. n \in opened
  BY <1>2 DEF Known, SafetyInv, RelayKnown, ClaimKnown
<1> QED
  BY <1>3 DEF Known, QueueInv, TableInv, OpenedRows

\* How each step changes the turns: by one statement of the table, or not.
LEMMA TurnsMove ==
  ASSUME TypeInv, [Next]_vars
  PROVE  \/ OutboxNext
         \/ \E e \in Triggers : HandleTrigger(e) /\ EnqueueUnprocessed(e)
         \/ \E n \in Seqs : HandleEdit(n) /\ ReplaceUnclaimed(n)
         \/ \E n \in Seqs : CancelUnclaimed(n) /\ HandleDelete(n)
         \/ \E n \in Seqs : CloseQueued(n, "cancelled") \/ CloseQueued(n, "failed")
         \/ \E n \in Seqs : OpenTurn /\ OpenNextTurn(n)
         \/ UNCHANGED <<state, trigger, claimed, opened>>
<1>1. CASE OutboxNext
  BY <1>1
<1>2. CASE DispatchNext
  <2>1. FailUndispatched => cur \in Seqs
    BY DEF FailUndispatched, TypeInv, CursorOK, DispatchSteps
  <2> QED
    BY <1>2, <2>1 DEF DispatchNext, DispatchStep, HandleTrigger, DeclineTrigger, HandleEdit, HandleDelete,
      ResumeTick, CancelAsk, CancelAskFails, ResumeNext, ResumeCancels, ResumeEnds, AskDelivered,
      AskFails, OpenTurn, DispatchFailed, RecordDispatchFailure, PastBound, FailUndispatched,
      RecordNotice, tableVars
<1>3. CASE Environment \/ UNCHANGED vars
  BY <1>3 DEF Environment, Restart, Crash, StorageError, Reconnect, OccupantReplies, OccupantTells,
    Arrives, vars, tableVars
<1> QED
  BY <1>1, <1>2, <1>3 DEF Next

\* A turn that ended stays as it ended.
LEMMA TerminalStays ==
  ASSUME Known, [Next]_vars, NEW n \in Seqs, state[n] \in Terminal
  PROVE  state'[n] = state[n]
<1> USE DEF Known
<1>0. TableTypeOK
  BY DEF TypeInv, HostTypeOK
<1>1. CASE OutboxNext
  BY <1>1, OutboxEnds DEF StaysOrEnds, Terminal
<1>2. ASSUME NEW e \in Triggers, EnqueueUnprocessed(e)
      PROVE  state'[n] = state[n]
  <2>1. lastSeq + 1 \in Seqs /\ state[lastSeq + 1] = "absent"
    BY <1>0, <1>2, InsertKeepsType, SeqsAreNat
    DEF EnqueueUnprocessed, QueueInv, TableInv, RowsInOrder, TableTypeOK
  <2> QED
    BY <1>0, <1>2, <2>1 DEF EnqueueUnprocessed, TableTypeOK, Terminal
<1>3. ASSUME NEW m \in Seqs, ReplaceUnclaimed(m)
      PROVE  state'[n] = state[n]
  <2>1. trigger[m] \in Triggers
    BY <1>0 DEF TableTypeOK
  <2>2. lastSeq + 1 \in Seqs /\ state[lastSeq + 1] = "absent"
    BY <1>0, <1>3, <2>1, InsertKeepsType, SeqsAreNat
    DEF ReplaceUnclaimed, QueueInv, TableInv, RowsInOrder, TableTypeOK
  <2> QED
    BY <1>0, <1>3, <2>2 DEF ReplaceUnclaimed, Unclaimed, TableTypeOK, Terminal
<1>4. ASSUME NEW m \in Seqs,
             \/ CancelUnclaimed(m) \/ OpenNextTurn(m)
             \/ CloseQueued(m, "cancelled") \/ CloseQueued(m, "failed")
      PROVE  state'[n] = state[n]
  BY <1>0, <1>4 DEF CancelUnclaimed, Unclaimed, OpenNextTurn, IsNext, CloseQueued, TableTypeOK, Terminal
<1> QED
  BY <1>1, <1>2, <1>3, <1>4, TurnsMove

\* How each step changes the attempts: one column of one row, or not.
LEMMA AttemptsMove ==
  ASSUME TypeInv, [Next]_vars
  PROVE  \/ SaveAttempt \/ Prepare \/ UndoDispatch \/ MarkAccepted \/ StopRetries \/ DropAttempt
         \/ \E k \in Keys : RetryAttempt(k) \/ AbandonAttempt(k)
         \/ RecordNotice
         \/ attempt' = attempt
<1>1. CASE OutboxNext
  BY <1>1 DEF OutboxNext, PublishStep, TakeFinal, TakeTell, Ack, ClaimTurn, PrepareFails, SendAccepted,
    SendNotAccepted, SendRejected, ReleaseClaim, MarkPosted, FailTurn, AbandonReleases, outVars
<1>2. CASE DispatchNext
  BY <1>2 DEF DispatchNext, DispatchStep, HandleTrigger, DeclineTrigger, HandleEdit, HandleDelete,
    ResumeTick, CancelAsk, CancelAskFails, ResumeNext, ResumeCancels, ResumeEnds, AskDelivered,
    AskFails, OpenTurn, DispatchFailed, PastBound, FailUndispatched, outVars
<1>3. CASE Environment \/ UNCHANGED vars
  BY <1>3 DEF Environment, Restart, Crash, StorageError, Reconnect, OccupantReplies, OccupantTells,
    Arrives, vars, outVars
<1> QED
  BY <1>1, <1>2, <1>3 DEF Next

\* The notice of a trigger is a row of its own.
LEMMA NoticeRow ==
  ASSUME TypeInv, RecordNotice
  PROVE  /\ trigger[cur] \in Triggers /\ trigger[cur] \in Keys
         /\ \A k \in Keys : k # trigger[cur] => attempt'[k] = attempt[k]
         /\ attempt'[trigger[cur]].accepted = attempt[trigger[cur]].accepted
         /\ attempt'[trigger[cur]].abandoned = attempt[trigger[cur]].abandoned
<1>1. cur \in Seqs /\ attempt \in [Keys -> Attempts]
  BY DEF RecordNotice, TypeInv, CursorOK, DispatchSteps, HostTypeOK
<1>2. trigger[cur] \in Triggers /\ trigger[cur] \in Keys
  BY <1>1 DEF TypeInv, HostTypeOK, TableTypeOK, Keys
<1>3. attempt[trigger[cur]] \in Attempts
  BY <1>1, <1>2
<1>4. attempt'[trigger[cur]] = [attempt[trigger[cur]] EXCEPT
        !.recorded = TRUE, !.body = NoticeBody, !.dispatched = FALSE, !.retries = 0]
  BY <1>1, <1>2 DEF RecordNotice
<1>5. \A k \in Keys : k # trigger[cur] => attempt'[k] = attempt[k]
  BY <1>1, <1>2 DEF RecordNotice
<1> QED
  BY <1>2, <1>3, <1>4, <1>5 DEF Attempts

\* Accepted and abandoned are never taken back, and set by one step each.
LEMMA FlagsStay ==
  ASSUME TypeInv, [Next]_vars, NEW k \in Keys
  PROVE  /\ attempt[k].accepted => attempt'[k].accepted
         /\ attempt[k].abandoned => attempt'[k].abandoned
         /\ attempt'[k].accepted => attempt[k].accepted \/ (MarkAccepted /\ k = cur)
         /\ attempt'[k].abandoned =>
              \/ attempt[k].abandoned
              \/ (StopRetries \/ DropAttempt) /\ k = cur
              \/ AbandonAttempt(k)
<1>0. attempt \in [Keys -> Attempts]
  BY DEF TypeInv, HostTypeOK
<1>1. CASE SaveAttempt \/ Prepare \/ UndoDispatch
  <2>1. cur \in Keys
    BY <1>1 DEF SaveAttempt, Prepare, UndoDispatch, TypeInv, CursorOK, PublishSteps
  <2>2. CASE SaveAttempt
    BY <1>0, <2>1, <2>2 DEF SaveAttempt, Attempts
  <2>3. CASE Prepare
    BY <1>0, <2>1, <2>3 DEF Prepare, Attempts
  <2>4. CASE UndoDispatch
    BY <1>0, <2>1, <2>4 DEF UndoDispatch, Attempts
  <2> QED
    BY <1>1, <2>2, <2>3, <2>4
<1>2. CASE MarkAccepted
  BY <1>0, <1>2 DEF MarkAccepted, Attempts
<1>3. CASE StopRetries \/ DropAttempt
  BY <1>0, <1>3 DEF StopRetries, DropAttempt, Attempts
<1>4. ASSUME NEW x \in Keys, RetryAttempt(x)
      PROVE  attempt'[k].accepted = attempt[k].accepted /\ attempt'[k].abandoned = attempt[k].abandoned
  BY <1>0, <1>4 DEF RetryAttempt, Attempts
<1>5. ASSUME NEW x \in Keys, AbandonAttempt(x)
      PROVE  /\ attempt'[k].accepted = attempt[k].accepted
             /\ attempt[k].abandoned => attempt'[k].abandoned
             /\ k # x => attempt'[k].abandoned = attempt[k].abandoned
  BY <1>0, <1>5 DEF AbandonAttempt, Attempts
<1>6. CASE RecordNotice
  BY <1>6, NoticeRow
<1>7. CASE attempt' = attempt
  BY <1>7
<1> QED
  BY <1>1, <1>2, <1>3, <1>4, <1>5, <1>6, <1>7, AttemptsMove

-----------------------------------------------------------------------------
(* Where the handler of the outbox goes.                                   *)

\* A handler that goes on publishing works on the same row and message.
LEMMA PublishGoes ==
  ASSUME PublishStep
  PROVE  /\ at \in PublishSteps
         /\ \/ at' \in {"idle", "resume"} /\ msg' = NoMsg
            \/ at' \in PublishSteps /\ UNCHANGED <<cur, msg>>
  BY DEF PublishStep, Ack, SaveAttempt, ClaimTurn, Prepare, PrepareFails, SendAccepted,
    SendNotAccepted, SendRejected, UndoDispatch, ReleaseClaim, MarkAccepted, MarkPosted, FailTurn,
    StopRetries, DropAttempt, AbandonReleases, GiveUp, Finish, Goto, Return, StartResume, PublishSteps

\* Only the outbox publishes.
LEMMA OthersDoNotPublish ==
  ASSUME [Next]_vars, ~OutboxNext
  PROVE  /\ at' \notin PublishSteps \/ UNCHANGED <<at, cur, msg, attempt, state, claimed, opened>>
         /\ msg' \in {msg, NoMsg}
<1>1. CASE DispatchNext
  BY <1>1 DEF DispatchNext, DispatchStep, HandleTrigger, DeclineTrigger, HandleEdit, HandleDelete,
    ResumeTick, CancelAsk, CancelAskFails, ResumeNext, ResumeCancels, ResumeEnds, AskDelivered,
    AskFails, OpenTurn, DispatchFailed, PastBound, FailUndispatched, RecordNotice, Free, taskVars,
    Goto, Return, StartResume, Continue, AskReplacement, PublishSteps
<1>2. CASE Environment
  BY <1>2 DEF Environment, Restart, Crash, StorageError, Reconnect, OccupantReplies, OccupantTells,
    Arrives, Unseen, Goto, Return, StartResume, taskVars, PublishSteps
<1>3. CASE UNCHANGED vars
  BY <1>3 DEF vars, taskVars, outVars, tableVars
<1> QED
  BY <1>1, <1>2, <1>3 DEF Next

\* The outbox takes a message, resends an attempt, or goes on with a handler.
LEMMA OutboxMoves ==
  ASSUME TypeInv, OutboxNext
  PROVE  \/ \E m \in offered : m \in Messages /\ (TakeFinal(m) \/ TakeTell(m))
         \/ \E k \in Keys : RetryAttempt(k) \/ AbandonAttempt(k)
         \/ PublishStep
  BY DEF OutboxNext, TypeInv, HostTypeOK

LEMMA DeliveryStep ==
  ASSUME TypeInv, DeliveryKnown, [Next]_vars
  PROVE  DeliveryKnown' /\ held \cup settled \subseteq held' \cup settled'
<1>1. ASSUME NEW m \in offered, TakeFinal(m) \/ TakeTell(m)
      PROVE  DeliveryKnown' /\ held \cup settled \subseteq held' \cup settled'
  BY <1>1 DEF TakeFinal, TakeTell, taskVars, Idle, PublishSteps, DeliveryKnown
<1>2. ASSUME NEW k \in Keys, RetryAttempt(k) \/ AbandonAttempt(k)
      PROVE  DeliveryKnown' /\ held \cup settled \subseteq held' \cup settled'
  BY <1>2 DEF RetryAttempt, AbandonAttempt, StartResume, Return, kelpieVars, DeliveryKnown
<1>3. CASE PublishStep
  <2>1. CASE Ack
    BY <1>3, <2>1, PublishGoes DEF Ack, DeliveryKnown
  <2>2. CASE ~Ack
    <3>1. UNCHANGED kelpieVars
      BY <1>3, <2>2 DEF PublishStep, SaveAttempt, ClaimTurn, Prepare, PrepareFails, SendAccepted,
        SendNotAccepted, SendRejected, UndoDispatch, ReleaseClaim, MarkAccepted, MarkPosted, FailTurn,
        StopRetries, DropAttempt, AbandonReleases
    <3> QED
      BY <1>3, <3>1, PublishGoes DEF kelpieVars, DeliveryKnown
  <2> QED
    BY <2>1, <2>2
<1>4. CASE ~OutboxNext
  <2>1. /\ held \cup settled \subseteq held' \cup settled'
        /\ offered' \subseteq offered \cup held' \cup settled'
    BY <1>4 DEF Next, DispatchNext, DispatchStep, HandleTrigger, DeclineTrigger, HandleEdit,
      HandleDelete, ResumeTick, CancelAsk, CancelAskFails, ResumeNext, ResumeCancels, ResumeEnds,
      AskDelivered, AskFails, OpenTurn, DispatchFailed, PastBound, FailUndispatched, RecordNotice,
      Environment, Restart, Crash, StorageError, Reconnect, OccupantReplies, OccupantTells, Arrives,
      kelpieVars, vars
  <2> QED
    BY <1>4, <2>1, OthersDoNotPublish DEF DeliveryKnown
<1> QED
  BY <1>1, <1>2, <1>3, <1>4 DEF OutboxNext

LEMMA CursorOpenedStep ==
  ASSUME Known, SafetyInv', AnswerInv, [Next]_vars
  PROVE  CursorOpened'
<1> USE DEF Known
<1>1. ASSUME NEW m \in offered, TakeFinal(m) \/ TakeTell(m)
      PROVE  CursorOpened'
  <2>1. m \in Messages /\ m.kind = "final" => m.key \in Seqs
    BY DEF Messages, Finals, TellMsgs
  <2>2. m \in Messages /\ m.kind = "tell" => m.key \notin Seqs
    BY KeysDisjoint DEF Messages, Finals, TellMsgs
  <2>3. m \in Messages
    BY DEF TypeInv, HostTypeOK
  <2>4. /\ at' \in {"idle", "ack", "fail", "save"} /\ UNCHANGED opened
        /\ at' \in {"ack", "save"} => cur' \in opened \/ cur' \notin Seqs
        /\ at' = "fail" => cur' \in Seqs /\ cur' \in opened
    BY <1>1, <2>1, <2>2, <2>3 DEF TakeFinal, TakeTell, Decide, HasTurn, Idle, taskVars, tableVars
  <2> QED
    BY <2>4 DEF CursorOpened, PublishSteps, Seqs
<1>2. ASSUME NEW k \in Keys, RetryAttempt(k) \/ AbandonAttempt(k)
      PROVE  CursorOpened'
  <2>1. /\ UNCHANGED opened /\ at' \in {"prepare", "save", "drop", "unclaim", "resume", "idle"}
        /\ at' \in {"prepare", "save", "drop", "unclaim"} =>
             cur' = k /\ (k \in Seqs => attempt[k].recorded)
        /\ at' \in {"drop", "unclaim"} => k \in Seqs
    BY <1>2 DEF RetryAttempt, AbandonAttempt, StartResume, Return, tableVars, Pending, HasTurn
  <2> QED
    BY <2>1 DEF CursorOpened, SafetyInv, ClaimKnown, PublishSteps, Seqs
<1>3. CASE PublishStep
  <2>1. opened' = opened
    BY <1>3, OutboxEnds DEF OutboxNext
  <2>2. at' = "accept" /\ cur' \in Seqs => state'[cur'] = "open" /\ claimed'[cur']
    BY <1>3 DEF PublishStep, Ack, SaveAttempt, ClaimTurn, Prepare, PrepareFails, SendAccepted,
      SendNotAccepted, SendRejected, UndoDispatch, ReleaseClaim, MarkAccepted, MarkPosted, FailTurn,
      StopRetries, DropAttempt, AbandonReleases, GiveUp, Finish, Goto, Return, StartResume,
      SafetyInv, ClaimKnown, tableVars
  <2>3. at' \in PublishSteps => at \in PublishSteps /\ cur' = cur
    BY <1>3, PublishGoes DEF PublishSteps
  <2>4. /\ at' \in {"claim", "release", "post", "fail", "unclaim", "drop"} => cur \in Seqs
        /\ at' = "stop" => cur \notin Seqs
    BY <1>3 DEF PublishStep, Ack, SaveAttempt, ClaimTurn, Prepare, PrepareFails, SendAccepted,
      SendNotAccepted, SendRejected, UndoDispatch, ReleaseClaim, MarkAccepted, MarkPosted, FailTurn,
      StopRetries, DropAttempt, AbandonReleases, GiveUp, Finish, Goto, Return, StartResume,
      AnswerInv, CursorOpened
  <2> QED
    BY <2>1, <2>2, <2>3, <2>4 DEF AnswerInv, CursorOpened, PublishSteps, Seqs
<1>4. CASE ~OutboxNext
  BY <1>4, OthersDoNotPublish DEF AnswerInv, CursorOpened, PublishSteps, Seqs
<1> QED
  BY <1>1, <1>2, <1>3, <1>4 DEF OutboxNext

LEMMA NotYetAcceptedStep ==
  ASSUME Known, SafetyInv', AnswerInv, [Next]_vars
  PROVE  NotYetAccepted'
<1> USE DEF Known
<1>0. attempt \in [Keys -> Attempts]
  BY DEF TypeInv, HostTypeOK
<1>1. ASSUME NEW m \in offered, TakeFinal(m) \/ TakeTell(m)
      PROVE  NotYetAccepted'
  <2>1. /\ at' \in {"idle", "ack", "fail", "save"}
        /\ at' = "fail" => msg' = m /\ m.body \in Refused
    BY <1>1 DEF TakeFinal, TakeTell, Decide, Idle, taskVars
  <2>2. m # NoMsg
    BY HostStateAssumption DEF HostStateAssumption, TypeInv, HostTypeOK, Messages, Finals, TellMsgs, Seqs
  <2> QED
    BY <2>1, <2>2 DEF NotYetAccepted
<1>2. ASSUME NEW k \in Keys, RetryAttempt(k) \/ AbandonAttempt(k)
      PROVE  NotYetAccepted'
  <2>1. /\ ~attempt[k].accepted /\ attempt'[k].accepted = attempt[k].accepted
        /\ at' \notin {"accept", "fail"}
        /\ at' \in PublishSteps => cur' = k
    BY <1>0, <1>2 DEF RetryAttempt, AbandonAttempt, Pending, StartResume, Return, Attempts, PublishSteps
  <2> QED
    BY <2>1 DEF NotYetAccepted, PublishSteps
<1>3. CASE PublishStep
  <2>0. cur \in Keys /\ (at' \in PublishSteps => cur' = cur /\ msg' = msg)
    BY <1>3, PublishGoes DEF TypeInv, CursorOK, PublishSteps
  <2>1. CASE SaveAttempt
    <3>1. /\ attempt'[cur].accepted = attempt[cur].accepted
          /\ attempt'[cur].abandoned = attempt[cur].abandoned
      BY <2>0, <1>0, <2>1 DEF SaveAttempt, Attempts
    <3>2. /\ at' \in {"fail", "post", "claim", "ack", "prepare"}
          /\ at' \in {"claim", "prepare"} => ~attempt[cur].accepted
          /\ at' = "fail" => cur \in Seqs /\ (attempt[cur].abandoned \/ ~attempt[cur].accepted)
      BY <2>1 DEF SaveAttempt, Goto
    <3> QED
      BY <2>0, <3>1, <3>2 DEF NotYetAccepted, AnswerInv, AnswersKept, PublishSteps
  <2>2. CASE Prepare
    <3>1. /\ attempt'[cur].accepted = attempt[cur].accepted
          /\ at = "prepare" /\ at' = "send"
      BY <2>0, <1>0, <2>2 DEF Prepare, Goto, Attempts
    <3> QED
      BY <2>0, <3>1 DEF NotYetAccepted, AnswerInv, PublishSteps
  <2>3. CASE UndoDispatch
    <3>1. /\ attempt'[cur].accepted = attempt[cur].accepted
          /\ at = "undo" /\ at' \in {"release", "idle"}
      BY <2>0, <1>0, <2>3 DEF UndoDispatch, Goto, Return, Attempts
    <3> QED
      BY <2>0, <3>1 DEF NotYetAccepted, AnswerInv, PublishSteps
  <2>4. CASE SendAccepted
    <3>1. attempt' = attempt /\ at = "send" /\ at' = "accept"
      BY <2>4 DEF SendAccepted, Goto
    <3> QED
      BY <2>0, <3>1 DEF NotYetAccepted, AnswerInv, SafetyInv, CursorKnown, PublishSteps
  <2>5. CASE PrepareFails \/ SendNotAccepted \/ SendRejected \/ ClaimTurn \/ AbandonReleases
    <3>1. /\ attempt' = attempt /\ at \in {"prepare", "send", "claim", "unclaim"}
          /\ at' \in {"fail", "stop", "undo", "prepare", "ack", "resume", "idle"}
      BY <2>5 DEF PrepareFails, SendNotAccepted, SendRejected, ClaimTurn, AbandonReleases, GiveUp, Goto,
        Finish, Return, StartResume, outVars
    <3> QED
      BY <2>0, <3>1 DEF NotYetAccepted, AnswerInv, PublishSteps
  <2>6. CASE Ack \/ ReleaseClaim \/ MarkAccepted \/ MarkPosted \/ FailTurn \/ StopRetries \/ DropAttempt
    <3>1. at' \in {"ack", "post", "resume", "idle"}
      BY <2>6 DEF Ack, ReleaseClaim, MarkAccepted, MarkPosted, FailTurn, StopRetries, DropAttempt, Goto,
        Finish, Return, StartResume
    <3> QED
      BY <3>1 DEF NotYetAccepted
  <2> QED
    BY <1>3, <2>1, <2>2, <2>3, <2>4, <2>5, <2>6 DEF PublishStep
<1>4. CASE ~OutboxNext
  BY <1>4, OthersDoNotPublish DEF AnswerInv, NotYetAccepted, PublishSteps
<1> QED
  BY <1>1, <1>2, <1>3, <1>4 DEF OutboxNext

-----------------------------------------------------------------------------
(* What is done stays done, and only what is done is acknowledged.         *)

LEMMA DoneStays ==
  ASSUME Known, [Next]_vars, NEW m \in Messages, Done(m)
  PROVE  Done(m)'
<1>1. CASE m.kind = "final"
  <2>1. m.key \in Seqs
    BY <1>1 DEF Messages, Finals, TellMsgs
  <2> QED
    BY <1>1, <2>1, TerminalStays DEF Done, Terminal
<1>2. CASE m.kind # "final"
  <2>1. m.key \in Keys
    BY DEF Messages, Finals, TellMsgs, Keys
  <2>2. /\ attempt[m.key].accepted => attempt'[m.key].accepted
        /\ attempt[m.key].abandoned => attempt'[m.key].abandoned
    BY <2>1, FlagsStay DEF Known
  <2> QED
    BY <1>2, <2>2 DEF Done
<1> QED
  BY <1>1, <1>2

\* A turn whose publishing ends is closed, however the statement found it.
LEMMA EndedTurn ==
  ASSUME Known, NEW n \in Seqs, n \in opened, NEW to \in {"posted", "failed"}, SetTurnState(n, to)
  PROVE  state'[n] \in Terminal
<1>1. state[n] \in {"open"} \cup Terminal
  BY DEF Known, TypeInv, HostTypeOK, TableTypeOK, States, Terminal, QueueInv, TableInv, OpenedRows
<1> QED
  BY <1>1 DEF SetTurnState, LegalTransitions, Terminal, Known, TypeInv, HostTypeOK, TableTypeOK

\* Every step that goes on to acknowledge has nothing left to do.
LEMMA AckGoes ==
  ASSUME Known, AnswerInv, PublishStep, at' = "ack"
  PROVE  Done(msg)'
<1> USE DEF Known
<1>0. /\ cur \in Keys /\ cur' = cur /\ msg' = msg /\ attempt \in [Keys -> Attempts]
      /\ at \in PublishSteps
  BY PublishGoes DEF TypeInv, HostTypeOK, CursorOK, PublishSteps
<1>1. CASE SaveAttempt
  <2>1. /\ cur \notin Seqs
        /\ attempt[cur].accepted \/ attempt[cur].abandoned \/ SentUnderOldPath(attempt[cur])
    BY <1>1 DEF SaveAttempt, Goto
  <2>2. msg \in Messages /\ msg.key = cur /\ msg # NoMsg
    <3>1. msg \in Messages
      BY <1>1, <2>1 DEF SaveAttempt, TypeInv, CursorOK
    <3>2. msg # NoMsg
      BY <3>1, HostStateAssumption, SeqsAreNat
      DEF HostStateAssumption, Messages, Finals, TellMsgs
    <3> QED
      BY <1>0, <3>1, <3>2 DEF AnswerInv, DeliveryKnown
  <2>3. cur \in Tells /\ msg.kind # "final"
    BY <2>1, <2>2 DEF Messages, Finals, TellMsgs
  <2>4. ~SentUnderOldPath(attempt[cur])
    BY <2>3 DEF SentUnderOldPath, AnswerInv, AckKnown
  <2>5. /\ attempt'[cur].accepted = attempt[cur].accepted
        /\ attempt'[cur].abandoned = attempt[cur].abandoned
    BY <1>0, <1>1 DEF SaveAttempt, Attempts
  <2> QED
    BY <1>0, <2>1, <2>2, <2>3, <2>4, <2>5 DEF Done
<1>2. CASE MarkAccepted \/ StopRetries
  <2>1. cur \notin Seqs /\ msg # NoMsg
    BY <1>2 DEF MarkAccepted, StopRetries, Finish, Goto, Return, AnswerInv, CursorOpened
  <2>2. msg.key = cur /\ msg.kind # "final"
    <3>1. msg.key = cur /\ msg \in Messages
      BY <1>0, <2>1 DEF AnswerInv, DeliveryKnown, TypeInv, HostTypeOK
    <3> QED
      BY <2>1, <3>1 DEF Messages, Finals, TellMsgs
  <2>3. attempt'[cur].accepted \/ attempt'[cur].abandoned
    BY <1>0, <1>2 DEF MarkAccepted, StopRetries, Attempts
  <2> QED
    BY <1>0, <2>2, <2>3 DEF Done
<1>3. CASE ClaimTurn \/ MarkPosted \/ FailTurn
  <2>1. /\ cur \in Seqs /\ cur \in opened /\ msg # NoMsg
    BY <1>0, <1>3 DEF ClaimTurn, MarkPosted, FailTurn, Finish, Goto, Return, StartResume, AnswerInv,
      CursorOpened
  <2>2. msg.key = cur /\ msg.kind = "final"
    <3>1. msg.key = cur /\ msg \in Messages
      BY <1>0, <2>1 DEF AnswerInv, DeliveryKnown, TypeInv, HostTypeOK
    <3> QED
      BY <2>1, <3>1, KeysDisjoint DEF Messages, Finals, TellMsgs
  <2>3. state'[cur] \in Terminal
    <3>1. CASE ClaimTurn
      <4>1. state[cur] # "open" /\ state' = state
        BY <3>1 DEF ClaimTurn, ClaimForPublish, Goto
      <4> QED
        BY <2>1, <4>1 DEF TypeInv, HostTypeOK, TableTypeOK, States, Terminal, QueueInv, TableInv, OpenedRows
    <3>2. CASE MarkPosted \/ FailTurn
      BY <2>1, <3>2, EndedTurn DEF MarkPosted, FailTurn
    <3> QED
      BY <1>3, <3>1, <3>2
  <2> QED
    BY <1>0, <2>2, <2>3 DEF Done
<1>4. ~DropAttempt
  BY DEF DropAttempt, Finish, Goto, StartResume, Return, AnswerInv, AckKnown
<1>5. SaveAttempt \/ MarkAccepted \/ StopRetries \/ ClaimTurn \/ MarkPosted \/ FailTurn \/ DropAttempt
  BY DEF PublishStep, Ack, SaveAttempt, Prepare, PrepareFails, SendAccepted, SendNotAccepted,
    SendRejected, UndoDispatch, ReleaseClaim, AbandonReleases, GiveUp, Goto, Return, StartResume
<1> QED
  BY <1>1, <1>2, <1>3, <1>4, <1>5

\* What a tell sent has its event's id in its row, whatever happens to it.
LEMMA TellRowsStep ==
  ASSUME Known, AnswerInv, [Next]_vars, NEW t \in Tells, attempt'[t].dispatched
  PROVE  attempt'[t].prepared # NoEvent
<1> USE DEF Known
<1>0. /\ attempt \in [Keys -> Attempts] /\ t \in Keys /\ t \notin Triggers
      /\ attempt[t].dispatched => attempt[t].prepared # NoEvent
  BY HostStateAssumption DEF TypeInv, HostTypeOK, Keys, AnswerInv, AckKnown, HostStateAssumption
<1>1. CASE Prepare
  <2>1. cur \in Keys
    BY <1>1 DEF Prepare, TypeInv, CursorOK, PublishSteps
  <2>2. PICK now \in Times : /\ attempt' = [attempt EXCEPT ![cur].prepared = Rebuilt(attempt[cur], now),
                                                          ![cur].dispatched = TRUE]
    BY <1>1 DEF Prepare
  <2>3. Rebuilt(attempt[cur], now) # NoEvent
    BY <1>0, <2>1, KeysDisjoint DEF Rebuilt, EventIds, Attempts
  <2> QED
    BY <1>0, <2>1, <2>2, <2>3 DEF Attempts
<1>2. CASE SaveAttempt
  <2>1. cur \in Keys
    BY <1>2 DEF SaveAttempt, TypeInv, CursorOK, PublishSteps
  <2> QED
    BY <1>0, <1>2, <2>1 DEF SaveAttempt, Attempts
<1>3. CASE UndoDispatch \/ MarkAccepted \/ StopRetries \/ DropAttempt
  <2>1. cur \in Keys
    BY <1>3 DEF UndoDispatch, MarkAccepted, StopRetries, DropAttempt, TypeInv, CursorOK, PublishSteps
  <2>2. CASE UndoDispatch
    BY <1>0, <2>1, <2>2 DEF UndoDispatch, Attempts
  <2>3. CASE MarkAccepted
    BY <1>0, <2>1, <2>3 DEF MarkAccepted, Attempts
  <2>4. CASE StopRetries \/ DropAttempt
    <3>1. attempt' = [attempt EXCEPT ![cur].abandoned = TRUE]
      BY <2>4 DEF StopRetries, DropAttempt
    <3> QED
      BY <1>0, <2>1, <3>1 DEF Attempts
  <2> QED
    BY <1>3, <2>2, <2>3, <2>4
<1>4. ASSUME NEW k \in Keys, RetryAttempt(k) \/ AbandonAttempt(k)
      PROVE  attempt'[t].prepared # NoEvent
  BY <1>0, <1>4 DEF RetryAttempt, AbandonAttempt, Attempts
<1>5. CASE RecordNotice
  BY <1>0, <1>5, NoticeRow
<1>6. CASE attempt' = attempt
  BY <1>0, <1>6
<1> QED
  BY <1>1, <1>2, <1>3, <1>4, <1>5, <1>6, AttemptsMove

LEMMA AckKnownStep ==
  ASSUME Known, AnswerInv, [Next]_vars
  PROVE  AckKnown'
<1>1. at' = "ack" => Done(msg)'
  <2> SUFFICES ASSUME at' = "ack" PROVE Done(msg)'
    OBVIOUS
  <2>1. ASSUME NEW m \in offered, m \in Messages, TakeFinal(m) \/ TakeTell(m)
        PROVE  Done(msg)'
    BY <2>1 DEF TakeFinal, TakeTell, Decide, Idle, taskVars, tableVars, outVars, Done, Terminal, Messages,
      Finals, TellMsgs
  <2>2. ASSUME NEW k \in Keys, RetryAttempt(k) \/ AbandonAttempt(k)
        PROVE  Done(msg)'
    BY <2>2 DEF RetryAttempt, AbandonAttempt, StartResume, Return
  <2>3. CASE ~OutboxNext
    BY <2>3, OthersDoNotPublish DEF AnswerInv, AckKnown, Done, PublishSteps
  <2> QED
    BY <2>1, <2>2, <2>3, AckGoes, OutboxMoves DEF Known
<1>2. \A t \in Tells : attempt'[t].dispatched => attempt'[t].prepared # NoEvent
  BY TellRowsStep
<1>3. at' \in {"unclaim", "drop"} => msg' = NoMsg
  <2>1. CASE \E m \in offered : TakeFinal(m) \/ TakeTell(m)
    BY <2>1 DEF TakeFinal, TakeTell, Decide, Idle, taskVars
  <2>2. CASE \E k \in Keys : RetryAttempt(k) \/ AbandonAttempt(k)
    BY <2>2 DEF RetryAttempt, AbandonAttempt, StartResume, Return
  <2>3. CASE PublishStep
    BY <2>3 DEF PublishStep, Ack, SaveAttempt, ClaimTurn, Prepare, PrepareFails, SendAccepted,
      SendNotAccepted, SendRejected, UndoDispatch, ReleaseClaim, MarkAccepted, MarkPosted, FailTurn,
      StopRetries, DropAttempt, AbandonReleases, GiveUp, Finish, Goto, Return, StartResume
  <2>4. CASE ~OutboxNext
    BY <2>4, OthersDoNotPublish DEF AnswerInv, AckKnown, PublishSteps
  <2> QED
    BY <2>1, <2>2, <2>3, <2>4 DEF OutboxNext
<1> QED
  BY <1>1, <1>2, <1>3 DEF AckKnown

LEMMA AckedStep ==
  ASSUME Known, AnswerInv, [Next]_vars
  PROVE  AckedIsSettled'
<1>1. settled \subseteq Messages /\ \A m \in settled : Done(m)
  BY DEF AnswerInv, AckedIsSettled, Done, Known, TypeInv, HostTypeOK
<1>2. ASSUME NEW m \in settled', m \notin settled
      PROVE  m \in Messages /\ Done(m)
  <2>1. Ack
    BY <1>2 DEF Next, OutboxNext, PublishStep, TakeFinal, TakeTell, RetryAttempt, AbandonAttempt,
      SaveAttempt, ClaimTurn, Prepare, PrepareFails, SendAccepted, SendNotAccepted, SendRejected,
      UndoDispatch, ReleaseClaim, MarkAccepted, MarkPosted, FailTurn, StopRetries, DropAttempt,
      AbandonReleases, DispatchNext, DispatchStep, HandleTrigger, DeclineTrigger, HandleEdit,
      HandleDelete, ResumeTick, CancelAsk, CancelAskFails, ResumeNext, ResumeCancels, ResumeEnds,
      AskDelivered, AskFails, OpenTurn, DispatchFailed, PastBound, FailUndispatched, RecordNotice,
      Environment, Restart, Crash, StorageError, Reconnect, OccupantReplies, OccupantTells, Arrives,
      kelpieVars, vars
  <2> QED
    BY <1>2, <2>1 DEF Ack, AnswerInv, AckKnown, Known, TypeInv, HostTypeOK, CursorOK
<1>3. \A m \in settled' : Done(m)'
  BY <1>1, <1>2, DoneStays
<1> QED
  BY <1>3 DEF AckedIsSettled, Done

-----------------------------------------------------------------------------
(* An accepted answer keeps its turn.                                      *)

\* The only ways on for a turn whose answer is accepted.
LEMMA AnsweredMoves ==
  ASSUME Known, AnswerInv, [Next]_vars, NEW n \in Seqs, attempt[n].accepted
  PROVE  /\ \/ state'[n] = state[n]
            \/ state'[n] = "posted"
            \/ state'[n] = "failed" /\ at = "fail" /\ cur = n
         /\ state'[n] = "open" => claimed'[n]
<1> USE DEF Known
<1>0. /\ TableTypeOK /\ n \in opened /\ state[n] \notin {"absent", "queued"}
      /\ state[n] = "open" => claimed[n]
      /\ state[n] \in Terminal => state'[n] = state[n]
  BY AcceptedWasOpened, TerminalStays DEF TypeInv, HostTypeOK, AnswerInv, AnswersKept
<1>1. CASE OutboxNext
  <2>1. \/ MarkPosted \/ FailTurn \/ ClaimTurn \/ ReleaseClaim \/ AbandonReleases
        \/ UNCHANGED <<state, claimed>>
    BY <1>1 DEF OutboxNext, PublishStep, TakeFinal, TakeTell, RetryAttempt, AbandonAttempt, Ack,
      SaveAttempt, Prepare, PrepareFails, SendAccepted, SendNotAccepted, SendRejected, UndoDispatch,
      MarkAccepted, StopRetries, DropAttempt, tableVars
  <2>2. CASE MarkPosted \/ FailTurn
    BY <1>0, <2>2 DEF MarkPosted, FailTurn, SetTurnState, LegalTransitions, TableTypeOK
  <2>3. CASE ClaimTurn
    BY <1>0, <2>3 DEF ClaimTurn, ClaimForPublish, TableTypeOK
  <2>4. CASE ReleaseClaim \/ AbandonReleases
    <3>1. cur # n
      BY <2>4 DEF ReleaseClaim, AbandonReleases, AnswerInv, NotYetAccepted
    <3> QED
      BY <1>0, <2>4, <3>1 DEF ReleaseClaim, AbandonReleases, ReleasePublishClaim, TableTypeOK
  <2> QED
    BY <1>0, <2>1, <2>2, <2>3, <2>4
<1>2. ASSUME NEW e \in Triggers, EnqueueUnprocessed(e)
      PROVE  state'[n] = state[n] /\ claimed' = claimed
  <2>1. lastSeq + 1 # n
    BY <1>0, <1>2, SeqsAreNat DEF EnqueueUnprocessed, QueueInv, TableInv, RowsInOrder, TableTypeOK
  <2> QED
    BY <1>0, <1>2, <2>1 DEF EnqueueUnprocessed, TableTypeOK
<1>3. ASSUME NEW m \in Seqs, ReplaceUnclaimed(m)
      PROVE  state'[n] = state[n] /\ claimed' = claimed
  <2>1. lastSeq + 1 # n
    BY <1>0, <1>3, SeqsAreNat DEF QueueInv, TableInv, RowsInOrder, TableTypeOK
  <2>2. m = n => state[n] \in Terminal
    BY <1>0, <1>3 DEF ReplaceUnclaimed, Unclaimed, Terminal
  <2> QED
    BY <1>0, <1>3, <2>1, <2>2 DEF ReplaceUnclaimed, TableTypeOK
<1>4. ASSUME NEW m \in Seqs,
             \/ CancelUnclaimed(m) \/ OpenNextTurn(m)
             \/ CloseQueued(m, "cancelled") \/ CloseQueued(m, "failed")
      PROVE  state'[n] = state[n] /\ claimed' = claimed
  BY <1>0, <1>4 DEF CancelUnclaimed, Unclaimed, OpenNextTurn, IsNext, CloseQueued, TableTypeOK, Terminal
<1> QED
  BY <1>0, <1>1, <1>2, <1>3, <1>4, TurnsMove

LEMMA AnswersStep ==
  ASSUME Known, AnswerInv, [Next]_vars
  PROVE  AnswersKept' /\ ShownTurnKeepsItsAnswer'
<1> SUFFICES ASSUME NEW n \in Seqs, attempt'[n].accepted
             PROVE  /\ ~attempt'[n].abandoned /\ (state'[n] = "open" => claimed'[n])
                    /\ \/ state'[n] \in {"open", "posted"}
                       \/ /\ state'[n] = "failed"
                          /\ \E m \in held' \cup settled' : m.key = n /\ m.body \in Refused
  BY DEF AnswersKept, ShownTurnKeepsItsAnswer, Seqs
<1> USE DEF Known
<1>0. n \in Keys
  BY DEF Keys
<1>1. CASE attempt[n].accepted
  <2>1. ~attempt'[n].abandoned
    <3>1. ~attempt[n].abandoned
      BY <1>1 DEF AnswerInv, AnswersKept
    <3>2. ~((StopRetries \/ DropAttempt) /\ n = cur) /\ ~AbandonAttempt(n)
      BY <1>1 DEF StopRetries, DropAttempt, AbandonAttempt, Pending, AnswerInv, NotYetAccepted
    <3> QED
      BY <1>0, <3>1, <3>2, FlagsStay
  <2>2. held \cup settled \subseteq held' \cup settled'
    BY DeliveryStep DEF AnswerInv
  <2>3. /\ state[n] \in {"open", "posted", "failed"}
        /\ state[n] = "failed" => \E m \in held \cup settled : m.key = n /\ m.body \in Refused
    BY <1>1 DEF AnswerInv, ShownTurnKeepsItsAnswer
  <2>4. CASE state'[n] \in {state[n], "posted"}
    BY <1>1, <2>1, <2>2, <2>3, <2>4, AnsweredMoves
  <2>5. CASE state'[n] = "failed" /\ at = "fail" /\ cur = n
    <3>1. msg # NoMsg /\ msg.body \in Refused /\ msg \in held \cup settled /\ msg.key = n
      BY <1>1, <2>5 DEF AnswerInv, NotYetAccepted, DeliveryKnown, PublishSteps
    <3> QED
      BY <2>1, <2>2, <2>5, <3>1
  <2> QED
    BY <1>1, <2>4, <2>5, AnsweredMoves
<1>2. CASE ~attempt[n].accepted
  <2>1. MarkAccepted /\ n = cur
    BY <1>0, <1>2, FlagsStay
  <2>2. /\ state[n] = "open" /\ claimed[n] /\ ~attempt[n].abandoned /\ UNCHANGED <<state, claimed>>
    BY <2>1 DEF MarkAccepted, AnswerInv, CursorOpened, NotYetAccepted, tableVars
  <2>3. ~attempt'[n].abandoned
    <3>1. ~StopRetries /\ ~DropAttempt /\ ~AbandonAttempt(n)
      BY <2>1 DEF MarkAccepted, StopRetries, DropAttempt, AbandonAttempt, Idle
    <3> QED
      BY <1>0, <2>2, <3>1, FlagsStay
  <2> QED
    BY <2>2, <2>3
<1> QED
  BY <1>1, <1>2

-----------------------------------------------------------------------------
LEMMA InitAnswers == Init => AnswerInv
<1> SUFFICES ASSUME Init PROVE AnswerInv
  OBVIOUS
<1>1. DeliveryKnown /\ CursorOpened /\ NotYetAccepted /\ AckedIsSettled
  BY DEF Init, DeliveryKnown, CursorOpened, NotYetAccepted, AckedIsSettled, PublishSteps
<1>2. \A k \in Keys : ~attempt[k].accepted /\ (k \in Tells => ~attempt[k].dispatched)
  <2>1. CASE FreshDatabase
    BY <2>1 DEF FreshDatabase, NoAttempt
  <2>2. CASE UpgradedDatabase
    <3>1. 1 \in Seqs
      BY TurnTableAssumption DEF TurnTableAssumption, Seqs
    <3> QED
      BY <2>2, <3>1, KeysDisjoint DEF UpgradedDatabase, NoAttempt
  <2> QED
    BY <2>1, <2>2 DEF Init
<1>3. AnswersKept /\ ShownTurnKeepsItsAnswer /\ AckKnown
  BY <1>2 DEF Init, AnswersKept, ShownTurnKeepsItsAnswer, AckKnown, Keys
<1> QED
  BY <1>1, <1>3 DEF AnswerInv

\* The inductive invariant of the answers: what the outbox knows of the row it
\* works on, and of the message it will acknowledge.
THEOREM AnswersHold == Spec => [](Known /\ AnswerInv)
<1>1. Known /\ SafetyInv' /\ AnswerInv /\ [Next]_vars => AnswerInv'
  <2> SUFFICES ASSUME Known, SafetyInv', AnswerInv, [Next]_vars PROVE AnswerInv'
    OBVIOUS
  <2>1. DeliveryKnown'
    BY DeliveryStep DEF Known, AnswerInv
  <2> QED
    BY <2>1, CursorOpenedStep, NotYetAcceptedStep, AnswersStep, AckKnownStep, AckedStep DEF AnswerInv
<1>2. Spec => []Known
  BY SafetyHolds, QueueHolds, PTL DEF Known
<1>3. Known => SafetyInv
  BY DEF Known
<1> QED
  BY InitAnswers, <1>1, <1>2, <1>3, PTL DEF Spec

\* An answer the channel accepted is not disowned: whatever edit, deletion,
\* retry or abandonment follows, its turn ends posted, unless a second final
\* that the output guard refuses fails it.
THEOREM ShownTurnKeepsItsAnswerHolds == Spec => []ShownTurnKeepsItsAnswer
<1>1. AnswerInv => ShownTurnKeepsItsAnswer
  BY DEF AnswerInv
<1> QED
  BY <1>1, AnswersHold, PTL

\* Kelpie forgets a message only once its turn ended, or its tell went out or
\* was given up: a crash before the acknowledgement repeats the delivery.
THEOREM AckedIsSettledHolds == Spec => []AckedIsSettled
<1>1. AnswerInv => AckedIsSettled
  BY DEF AnswerInv
<1> QED
  BY <1>1, AnswersHold, PTL

-----------------------------------------------------------------------------
(* The host implements AnswerLedger: each statement of the turns table is  *)
(* one step of the ledger, or none, and so is each send.                   *)

LEMMA StatusIs ==
  /\ StatusOf("absent") = "none" /\ StatusOf("queued") = "waiting" /\ StatusOf("open") = "working"
  /\ StatusOf("posted") = "answered"
  /\ StatusOf("failed") = "closed" /\ StatusOf("cancelled") = "closed"
  BY DEF StatusOf

\* A trigger accepted is a request accepted.
LEMMA LedgerAccepts ==
  ASSUME Known, NEW e \in Triggers, EnqueueUnprocessed(e), relay' = relay
  PROVE  Ledger!Next
<1> USE DEF Known
<1>0. TableTypeOK
  BY DEF TypeInv, HostTypeOK
<1> PICK new \in Seqs : new = lastSeq + 1
  BY <1>0, InsertKeepsType DEF EnqueueUnprocessed
<1>1. /\ state[new] = "absent" /\ state'[new] = "queued" /\ trigger'[new] = e
      /\ \A n \in Seqs \ {new} : state'[n] = state[n] /\ trigger'[n] = trigger[n]
      /\ \A n \in Seqs : state[n] # "absent" => n < new
  BY <1>0, SeqsAreNat
  DEF EnqueueUnprocessed, InsertQueued, TableTypeOK, QueueInv, TableInv, RowsInOrder
<1>2. Ledger!Accept(new, ChannelOf[e], {})
  BY <1>1, StatusIs, TurnTableAssumption
  DEF Ledger!Accept, Ledger!Accepted, TurnTableAssumption, ChannelOfTurn
<1> QED
  BY <1>2, TurnTableAssumption DEF Ledger!Next, TurnTableAssumption

\* An edit closes the request it replaces in the step that accepts the new one.
LEMMA LedgerReplaces ==
  ASSUME Known, NEW r \in Seqs, ReplaceUnclaimed(r), relay' = relay
  PROVE  Ledger!Next
<1> USE DEF Known
<1>0. TableTypeOK /\ trigger[r] \in Triggers
  BY DEF TypeInv, HostTypeOK, TableTypeOK
<1> PICK new \in Seqs : new = lastSeq + 1
  BY <1>0, InsertKeepsType DEF ReplaceUnclaimed
<1>1. /\ state[new] = "absent" /\ state'[new] = "queued" /\ trigger'[new] = trigger[r]
      /\ state[r] \in {"queued", "open"} /\ state'[r] = "cancelled" /\ r # new
      /\ \A n \in Seqs \ {new, r} : state'[n] = state[n]
      /\ \A n \in Seqs \ {new} : trigger'[n] = trigger[n]
      /\ \A n \in Seqs : state[n] # "absent" => n < new
  <2>1. state[new] = "absent" /\ state[r] \in {"queued", "open"}
    BY <1>0, SeqsAreNat
    DEF ReplaceUnclaimed, Unclaimed, TableTypeOK, QueueInv, TableInv, RowsInOrder
  <2>2. \A n \in Seqs : state[n] # "absent" => n < new
    BY <1>0, SeqsAreNat DEF TableTypeOK, QueueInv, TableInv, RowsInOrder
  <2> QED
    BY <1>0, <2>1, <2>2 DEF ReplaceUnclaimed, InsertQueued, TableTypeOK
<1>2. Ledger!Accept(new, ChannelOf[trigger[r]], {r})
  BY <1>0, <1>1, StatusIs, TurnTableAssumption
  DEF Ledger!Accept, Ledger!Accepted, TurnTableAssumption, ChannelOfTurn
<1> QED
  BY <1>0, <1>2, TurnTableAssumption DEF Ledger!Next, TurnTableAssumption

\* open_next_turn begins the oldest waiting request of an idle session.
LEMMA LedgerBegins ==
  ASSUME Known, NEW r \in Seqs, OpenNextTurn(r), relay' = relay
  PROVE  Ledger!Next
<1>1. /\ state[r] = "queued" /\ state'[r] = "open"
      /\ \A n \in Seqs \ {r} : state'[n] = state[n]
      /\ trigger' = trigger
  BY DEF OpenNextTurn, IsNext, Known, TypeInv, HostTypeOK, TableTypeOK
<1>2. \A n \in Seqs : StatusOf(state[n]) = "working" => state[n] = "open"
  BY StatusIs DEF Known, TypeInv, HostTypeOK, TableTypeOK, States
<1>3. \A n \in Seqs : StatusOf(state[n]) = "waiting" => state[n] = "queued"
  BY StatusIs DEF Known, TypeInv, HostTypeOK, TableTypeOK, States
<1>4. \A n \in Seqs : state[n] \in {"open", "queued"} /\ ChannelOfTurn(n) = ChannelOfTurn(r) =>
        state[n] = "queued" /\ r <= n
  BY DEF OpenNextTurn, IsNext, HasOpen
<1>5. ChannelOfTurn(r) # NoSession
  BY TurnTableAssumption, NoSessionAssumption
  DEF TurnTableAssumption, NoSessionAssumption, ChannelOfTurn, Known, TypeInv, HostTypeOK, TableTypeOK
<1>6. Ledger!Begin(r)
  BY <1>1, <1>2, <1>3, <1>4, <1>5, StatusIs DEF Ledger!Begin, Ledger!Working, Ledger!Waiting, ChannelOfTurn
<1> QED
  BY <1>6 DEF Ledger!Next

\* A turn cancelled or failed is a request closed.
LEMMA LedgerCloses ==
  ASSUME Known, NEW r \in Seqs, state[r] \in {"queued", "open"}, state'[r] \in {"failed", "cancelled"},
         \A n \in Seqs \ {r} : state'[n] = state[n], trigger' = trigger, relay' = relay
  PROVE  Ledger!Next
<1>1. Ledger!Close(r)
  BY StatusIs DEF Ledger!Close, ChannelOfTurn
<1> QED
  BY <1>1 DEF Ledger!Next

\* A turn is posted only once the channel shows its answer.
LEMMA LedgerAnswers ==
  ASSUME Known, MarkPosted, cur \in Seqs, state[cur] = "open"
  PROVE  Ledger!Next
<1>1. /\ state'[cur] = "posted" /\ \A n \in Seqs \ {cur} : state'[n] = state[n]
      /\ trigger' = trigger /\ relay' = relay
  BY DEF MarkPosted, SetTurnState, LegalTransitions, outVars, Known, TypeInv, HostTypeOK, TableTypeOK
<1>2. PICK event \in relay : event.key = cur
  BY DEF MarkPosted, Known, SafetyInv, AcceptedKnown, OnRelay
<1>3. Ledger!Answer(cur)
  BY <1>1, <1>2, StatusIs DEF Ledger!Answer, ChannelOfTurn
<1> QED
  BY <1>3 DEF Ledger!Next

\* A send shows the answer of the request worked on, or shows it once more.
LEMMA LedgerShows ==
  ASSUME Known, at = "send", relay' = relay \cup {Sent}, UNCHANGED <<state, trigger>>
  PROVE  Ledger!Next \/ UNCHANGED Ledger!ledger
<1> USE DEF Known
<1>0. /\ Sent.key = cur /\ Sent.id = attempt[cur].prepared /\ Sent.id # NoEvent
      /\ Sent.id \in EventIds \cup {NoEvent}
      /\ \A event \in relay : event.key = cur => event = Sent
  <2>1. cur \in Keys /\ attempt[cur].prepared # NoEvent
    BY DEF TypeInv, CursorOK, PublishSteps, SafetyInv, CursorKnown
  <2>2. attempt[cur].prepared \in EventIds \cup {NoEvent}
    BY <2>1 DEF TypeInv, HostTypeOK, Attempts
  <2>3. ASSUME NEW event \in relay, event.key = cur
        PROVE  event = Sent
    <3>1. event.id = attempt[cur].prepared /\ event \in RelayEvents
      BY <2>1, <2>3 DEF SafetyInv, RelayKnown, SentUnderOldPath, TypeInv, HostTypeOK
    <3> QED
      BY <2>3, <3>1 DEF RelayEvents, Sent
  <2> QED
    BY <2>1, <2>2, <2>3 DEF Sent
<1>1. CASE cur \in Seqs /\ Sent \notin relay
  <2>1. PICK r \in Seqs, id \in EventIds \cup {NoEvent} : r = cur /\ id = Sent.id
    BY <1>0, <1>1
  <2>2. state[r] = "open"
    BY <1>1, <2>1 DEF SafetyInv, ClaimKnown
  <2> DEFINE shows == [n \in Seqs |-> {event.id : event \in {x \in relay : x.key = n}}]
  <2>3. shows[r] = {} /\ shows' = [shows EXCEPT ![r] = {id}]
    <3>1. {event.id : event \in {x \in relay : x.key = r}} = {}
      BY <1>0, <1>1, <2>1
    <3>2. {event.id : event \in {x \in relay' : x.key = r}} = {id}
      BY <1>0, <1>1, <2>1
    <3>3. \A n \in Seqs \ {r} : {x \in relay' : x.key = n} = {x \in relay : x.key = n}
      BY <1>0, <2>1
    <3> QED
      BY <3>1, <3>2, <3>3 DEF Seqs
  <2> HIDE DEF shows
  <2>4. Ledger!Show(r, id)
    BY <2>2, <2>3, StatusIs DEF Ledger!Show, ChannelOfTurn, shows
  <2> QED
    BY <2>4 DEF Ledger!Next
<1>2. CASE cur \notin Seqs \/ Sent \in relay
  <2>1. \A n \in Seqs : {x \in relay' : x.key = n} = {x \in relay : x.key = n}
    BY <1>0, <1>2
  <2> QED
    BY <2>1 DEF Ledger!ledger, ChannelOfTurn
<1> QED
  BY <1>1, <1>2

\* Every step of the host is a step of the ledger, or leaves it as it is.
LEMMA LedgerStep ==
  ASSUME Known, AnswerInv, [Next]_vars
  PROVE  Ledger!Next \/ UNCHANGED Ledger!ledger
<1> USE DEF Known
<1>0. TableTypeOK
  BY DEF TypeInv, HostTypeOK
<1>1. CASE UNCHANGED <<state, trigger>>
  <2>1. CASE relay' = relay
    BY <1>1, <2>1 DEF Ledger!ledger, ChannelOfTurn
  <2>2. CASE relay' # relay
    <3>1. at = "send" /\ relay' = relay \cup {Sent}
      BY <2>2 DEF Next, OutboxNext, PublishStep, TakeFinal, TakeTell, RetryAttempt, AbandonAttempt, Ack,
        SaveAttempt, ClaimTurn, Prepare, PrepareFails, SendAccepted, SendNotAccepted, SendRejected,
        UndoDispatch, ReleaseClaim, MarkAccepted, MarkPosted, FailTurn, StopRetries, DropAttempt,
        AbandonReleases, DispatchNext, DispatchStep, HandleTrigger, DeclineTrigger, HandleEdit,
        HandleDelete, ResumeTick, CancelAsk, CancelAskFails, ResumeNext, ResumeCancels, ResumeEnds,
        AskDelivered, AskFails, OpenTurn, DispatchFailed, PastBound, FailUndispatched, RecordNotice,
        Environment, Restart, Crash, StorageError, Reconnect, OccupantReplies, OccupantTells, Arrives,
        outVars, vars
    <3> QED
      BY <1>1, <3>1, LedgerShows
  <2> QED
    BY <2>1, <2>2
<1>2. CASE OutboxNext /\ ~UNCHANGED <<state, trigger>>
  <2>1. (MarkPosted \/ FailTurn) /\ relay' = relay
    BY <1>2 DEF OutboxNext, PublishStep, TakeFinal, TakeTell, RetryAttempt, AbandonAttempt, Ack,
      SaveAttempt, ClaimTurn, ClaimForPublish, Prepare, PrepareFails, SendAccepted, SendNotAccepted,
      SendRejected, UndoDispatch, ReleaseClaim, ReleasePublishClaim, MarkAccepted, MarkPosted,
      FailTurn, StopRetries, DropAttempt, AbandonReleases, tableVars, outVars
  <2>2. cur \in Seqs /\ cur \in opened
    BY <2>1 DEF MarkPosted, FailTurn, AnswerInv, CursorOpened, PublishSteps
  <2>3. state[cur] \in {"queued", "open"} /\ state[cur] # "queued"
    <3>1. state[cur] # "queued"
      BY <2>2 DEF QueueInv, TableInv, OpenedRows
    <3> QED
      BY <1>2, <2>1, <3>1 DEF MarkPosted, FailTurn, SetTurnState, LegalTransitions
  <2>4. CASE MarkPosted
    BY <2>2, <2>3, <2>4, LedgerAnswers
  <2>5. CASE FailTurn
    <3>1. /\ state'[cur] = "failed" /\ \A n \in Seqs \ {cur} : state'[n] = state[n]
          /\ trigger' = trigger
      BY <1>0, <2>2, <2>3, <2>5 DEF FailTurn, SetTurnState, LegalTransitions, TableTypeOK
    <3> QED
      BY <2>1, <2>2, <2>3, <3>1, LedgerCloses
  <2> QED
    BY <2>1, <2>4, <2>5
<1>3. CASE ~OutboxNext /\ ~UNCHANGED <<state, trigger>>
  <2>1. relay' = relay
    BY <1>3 DEF Next, DispatchNext, DispatchStep, HandleTrigger, DeclineTrigger, HandleEdit,
      HandleDelete, ResumeTick, CancelAsk, CancelAskFails, ResumeNext, ResumeCancels, ResumeEnds,
      AskDelivered, AskFails, OpenTurn, DispatchFailed, PastBound, FailUndispatched, RecordNotice,
      Environment, Restart, Crash, StorageError, Reconnect, OccupantReplies, OccupantTells, Arrives,
      outVars, vars
  <2>2. ASSUME NEW n \in Seqs,
               CancelUnclaimed(n) \/ CloseQueued(n, "cancelled") \/ CloseQueued(n, "failed")
        PROVE  Ledger!Next
    <3>1. /\ state[n] \in {"queued", "open"} /\ state'[n] \in {"failed", "cancelled"}
          /\ trigger' = trigger /\ \A m \in Seqs \ {n} : state'[m] = state[m]
      BY <1>0, <2>2 DEF CancelUnclaimed, Unclaimed, CloseQueued, TableTypeOK
    <3> QED
      BY <2>1, <3>1, LedgerCloses
  <2> QED
    BY <1>3, <2>1, <2>2, TurnsMove, LedgerAccepts, LedgerReplaces, LedgerBegins
<1> QED
  BY <1>1, <1>2, <1>3

LEMMA InitLedger == Init => Ledger!Init
<1> SUFFICES ASSUME Init PROVE Ledger!Init
  OBVIOUS
<1>0. 1 \in Seqs /\ \A e \in Triggers : ChannelOf[e] \in Channels /\ ChannelOf[e] # NoSession
  BY TurnTableAssumption, NoSessionAssumption DEF TurnTableAssumption, NoSessionAssumption, Seqs
<1>1. CASE FreshDatabase
  <2>1. /\ \A n \in Seqs : state[n] = "absent"
        /\ relay = {}
    BY <1>1 DEF FreshDatabase
  <2> QED
    BY <1>0, <2>1, StatusIs DEF Ledger!Init, Ledger!Accepted
<1>2. CASE UpgradedDatabase
  <2>1. PICK e \in Triggers : trigger = [n \in Seqs |-> e]
    BY <1>2 DEF UpgradedDatabase
  <2>2. /\ state = [n \in Seqs |-> IF n = 1 THEN "open" ELSE "absent"]
        /\ relay \in {{}, {[key |-> 1, id |-> NoEvent]}}
    BY <1>2 DEF UpgradedDatabase
  <2> DEFINE before == {event.id : event \in relay}
             sessions == [n \in Seqs |-> IF state[n] = "absent" THEN NoSession ELSE ChannelOfTurn(n)]
             shows == [n \in Seqs |-> {event.id : event \in {x \in relay : x.key = n}}]
  <2>3. before \in {{}, {NoEvent}}
    BY <2>2
  <2>4. shows = [x \in Seqs |-> IF x = 1 /\ StatusOf(state[x]) = "working" THEN before ELSE {}]
    <3>1. \A n \in Seqs : shows[n] = IF n = 1 THEN before ELSE {}
      BY <2>2
    <3> QED
      BY <1>0, <2>2, <3>1, StatusIs
  <2>5. /\ sessions \in [Seqs -> Channels \cup {NoSession}]
        /\ \A n \in Seqs : sessions[n] = NoSession <=> n # 1
    BY <1>0, <2>1, <2>2 DEF ChannelOfTurn
  <2>6. \A n \in Seqs : StatusOf(state[n]) = IF n = 1 THEN "working" ELSE "none"
    BY <2>2, StatusIs
  <2>7. [n \in Seqs |-> StatusOf(state[n])] =
          [n \in Seqs |-> IF sessions[n] = NoSession THEN "none" ELSE "working"]
    BY <2>5, <2>6
  <2>8. /\ \A one, other \in before : one = other
        /\ before \in SUBSET (EventIds \cup {NoEvent})
    BY <2>3
  <2>9. \A n, m \in Seqs : StatusOf(state[n]) # "none" /\ StatusOf(state[m]) # "none" => n = m
    BY <2>6
  <2> HIDE DEF before, sessions, shows
  <2>10. \E r \in Seqs, b \in SUBSET (EventIds \cup {NoEvent}) :
           /\ \A one, other \in b : one = other
           /\ shows = [x \in Seqs |-> IF x = r /\ StatusOf(state[x]) = "working" THEN b ELSE {}]
    BY <1>0, <2>4, <2>8
  <2> QED
    BY <2>5, <2>7, <2>9, <2>10 DEF Ledger!Init, Ledger!Accepted, sessions, shows
<1> QED
  BY <1>1, <1>2 DEF Init

\* The host keeps its promise to the channels: whatever edits, retries,
\* crashes and replays do, every behaviour of it is one of AnswerLedger's.
THEOREM ImplementsLedgerHolds == Spec => ImplementsLedger
<1>1. Known /\ AnswerInv /\ [Next]_vars => [Ledger!Next]_Ledger!ledger
  BY LedgerStep
<1> QED
  BY InitLedger, <1>1, AnswersHold, PTL DEF Spec, ImplementsLedger, Ledger!Spec
=============================================================================
