---------------------------- MODULE OccupantsSafety ----------------------------
(***************************************************************************)
(* The safety of the seat of a session, for any number of turns, failed    *)
(* commands, runtimes that end and crashes: one runtime at a time behind   *)
(* the name, no working occupant closed, and an obligation that stands for *)
(* the open turn.                                                          *)
(***************************************************************************)
EXTENDS Occupants, FiniteSetTheorems, TLAPS

\* Only the runtime whose pane holds the name runs, and it is Ready unless its
\* start was given up; a seat is taken from no other.
SeatKnown ==
  /\ alive \subseteq {holder}
  /\ alive \subseteq ready \cup late
  /\ at \in {"cancel", "retire", "seat"} => alive \subseteq late
  /\ at \in {"cancel", "retire"} => seen \notin alive
  /\ at = "start" => holder = Nobody

\* A start follows a failed one or the end of a runtime, but for the first.
StartsCounted ==
  /\ late \subseteq 1..started
  /\ started <= failures + deaths + (IF alive \subseteq late THEN 0 ELSE 1)

Standing == {"failed", "held", "answered"}

\* The turn and the obligation the handler works on.
HandlerKnown ==
  /\ at \in {"ask", "again", "cancel", "retire", "refuse", "rearm", "open"} => cur \in Turns
  /\ at \in {"cancel", "refuse", "rearm", "open"} => msg \in Turns
  /\ at \in {"rearm", "open"} => ask[msg] \in Standing
  /\ at # "idle" /\ cur # Nobody => Opened = {} /\ turn[cur] = "queued"

\* One turn is open at a time, for an obligation that was not cancelled; an
\* obligation is recorded once, and only for a turn that was opened.
OneOpen ==
  /\ \A i, j \in Opened : i = j
  /\ \A i \in Opened : askId[i] \in Turns /\ ask[askId[i]] \in Standing
  /\ \A i, j \in Turns : askId[i] = askId[j] /\ askId[i] # Nobody => i = j
  /\ \A i \in Turns : turn[i] \in {"none", "queued"} => askId[i] = Nobody

\* Short of a failure, only the ask of the running handler stands failed, only
\* that of the handler or of the open turn is held, so that the one a lookup
\* finds is the turn's own, and each turn is recorded with its own.
Undisturbed == failures = 0 /\ crashes = 0

FailedIsHandled ==
  Undisturbed =>
    /\ \A i \in Turns : ask[i] = "failed" => at \in {"cancel", "refuse"} /\ msg = i
    /\ \A i \in Turns : ask[i] = "held" =>
         (at \in {"rearm", "open"} /\ msg = i) \/ \E j \in Opened : askId[j] = i
    /\ at \in {"cancel", "refuse", "rearm", "open"} => msg = cur
    /\ \A i \in Turns : askId[i] \in {i, Nobody}

OccupantsInv ==
  /\ OccupantsTypeOK /\ agents <= 1
  /\ SeatKnown /\ StartsCounted /\ HandlerKnown /\ OneOpen /\ FailedIsHandled

-----------------------------------------------------------------------------
LEMMA ConstantTypes ==
  /\ MaxTurns \in Nat /\ MaxFailures \in Nat /\ MaxDeaths \in Nat /\ MaxCrashes \in Nat
  /\ Turns \subseteq Nat \ {0} /\ Runtimes \subseteq Nat \ {0}
  /\ Nobody \notin Turns /\ Nobody \notin Runtimes
  BY OccupantsAssumption DEF OccupantsAssumption, Turns, Runtimes, Nobody

\* What a receipt names is an obligation of the agent, the turn's or another's.
LEMMA ReceiptEffect ==
  ASSUME OccupantsTypeOK, cur \in Turns, NEW outcome \in {"failed", "held"}, Receipt(outcome)
  PROVE  /\ ask' \in [Turns -> Obligations] /\ UNCHANGED <<cur, renew>>
         /\ ask' \in {ask, [ask EXCEPT ![cur] = outcome]}
         /\ msg' \in Turns /\ ask'[msg'] \in {"failed", "held"}
<1> USE DEF OccupantsTypeOK, Obligations
<1>1. ask' \in {ask, [ask EXCEPT ![cur] = outcome]} /\ UNCHANGED <<cur, renew>>
  BY DEF Receipt
<1>2. ask' \in [Turns -> Obligations]
  BY <1>1
<1>3. CASE ask' = [ask EXCEPT ![cur] = outcome] /\ msg' = cur
  BY <1>1, <1>2, <1>3
<1>4. CASE \E m \in Turns : Pending' = {m} /\ msg' = m
  <2>1. msg' \in Turns /\ msg' \in Pending'
    BY <1>4
  <2> QED
    BY <1>1, <1>2, <2>1 DEF Pending
<1> QED
  BY <1>3, <1>4 DEF Receipt

LEMMA NoReceiptEffect ==
  ASSUME OccupantsTypeOK, cur \in Turns, NEW outcome \in {"failed", "held"}, NoReceipt(outcome)
  PROVE  /\ ask' \in [Turns -> Obligations] /\ ask' \in {ask, [ask EXCEPT ![cur] = outcome]}
         /\ at' = "idle" /\ cur' = Nobody /\ msg' = Nobody /\ renew' = Nobody
  BY DEF NoReceipt, GiveUp, OccupantsTypeOK, Obligations

\* An uncertain ask leaves its turn alone, and one whose obligation is taken
\* for it stands.
LEMMA UncertainEffect ==
  ASSUME OccupantsTypeOK, HandlerKnown, AskUncertain
  PROVE  /\ ask' \in [Turns -> Obligations]
         /\ told' \in [Turns -> SUBSET Runtimes]
         /\ seen' \in Runtimes
         /\ failures' = failures + 1 /\ failures' \in 0..MaxFailures
         /\ \/ /\ msg' \in Turns /\ ask'[msg'] \in {"failed", "held"}
               /\ at' \in {"rearm", "open"} /\ UNCHANGED <<cur, renew>>
            \/ at' = "idle" /\ cur' = Nobody /\ msg' = Nobody /\ renew' = Nobody
         /\ unconfirmed' \subseteq Turns
<1> USE DEF OccupantsTypeOK
<1>1. cur \in Turns /\ seen' \in Runtimes
  BY DEF AskUncertain, Asking, HandlerKnown
<1>2. told' \in [Turns -> SUBSET Runtimes]
  BY <1>1 DEF AskUncertain
<1>3. failures' = failures + 1 /\ failures' \in 0..MaxFailures
  BY ConstantTypes DEF AskUncertain, Fails
<1>4. CASE Receipt("held") /\ at' = Accepted /\ unconfirmed' = unconfirmed \cup {cur}
  <2>1. at' \in {"rearm", "open"} /\ unconfirmed' \subseteq Turns
    BY <1>1, <1>4 DEF Accepted
  <2>2. /\ ask' \in [Turns -> Obligations] /\ UNCHANGED <<cur, renew>>
        /\ msg' \in Turns /\ ask'[msg'] \in {"failed", "held"}
    BY <1>1, <1>4, ReceiptEffect
  <2> QED
    BY <1>1, <1>2, <1>3, <2>1, <2>2
<1>5. CASE NoReceipt("held") /\ UNCHANGED unconfirmed
  <2>1. /\ ask' \in [Turns -> Obligations]
        /\ at' = "idle" /\ cur' = Nobody /\ msg' = Nobody /\ renew' = Nobody
    BY <1>1, <1>5, NoReceiptEffect
  <2> QED
    BY <1>1, <1>2, <1>3, <1>5, <2>1
<1> QED
  BY <1>4, <1>5 DEF AskUncertain

\* A refused ask and one whose recipient is gone end in a step that cancels an
\* obligation there is, or end the handler.
LEMMA RefusedEffect ==
  ASSUME OccupantsTypeOK, HandlerKnown, AskUnavailable \/ AskRejected
  PROVE  /\ ask' \in [Turns -> Obligations] /\ ask' \in {ask, [ask EXCEPT ![cur] = "failed"]}
         /\ seen' \in Runtimes
         /\ failures' \in 0..MaxFailures
         /\ \/ AskUnavailable /\ failures' = failures
            \/ failures' = failures + 1
         /\ \/ /\ (at' = "cancel" /\ seen' \notin alive) \/ at' = "refuse"
               /\ Receipt("failed")
               /\ msg' \in Turns /\ ask'[msg'] \in {"failed", "held"} /\ UNCHANGED <<cur, renew>>
            \/ /\ at' = "idle" /\ cur' = Nobody /\ msg' = Nobody /\ renew' = Nobody
               /\ NoReceipt("failed")
<1> USE DEF OccupantsTypeOK
<1>1. cur \in Turns /\ seen' \in Runtimes
  BY DEF AskUnavailable, AskRejected, Asking, HandlerKnown
<1>2. /\ failures' \in 0..MaxFailures
      /\ (AskUnavailable /\ failures' = failures) \/ failures' = failures + 1
  BY ConstantTypes DEF AskUnavailable, AskRejected, Fails, bounds
<1>3. CASE NoReceipt("failed")
  BY <1>1, <1>2, <1>3, NoReceiptEffect
<1>4. CASE Receipt("failed") /\ ((at' = "cancel" /\ seen' \notin alive) \/ at' = "refuse")
  BY <1>1, <1>2, <1>4, ReceiptEffect
<1> QED
  BY <1>3, <1>4 DEF AskUnavailable, AskRejected

LEMMA AskTypes ==
  ASSUME OccupantsTypeOK, HandlerKnown,
         \/ AskUnbound \/ AskAmbiguous \/ AskReplayed \/ AskDelivered \/ AskUnavailable
         \/ AskRejected
  PROVE  OccupantsTypeOK'
<1> USE ConstantTypes DEF OccupantsTypeOK, HandlerKnown, Obligations, turns, kelpie, runtimes,
                          handler, bounds
<1>1. CASE AskUnbound
  BY <1>1 DEF AskUnbound, Go, Stop, GiveUp
<1>2. CASE AskAmbiguous
  BY <1>2 DEF AskAmbiguous, Stop, GiveUp
<1>3. CASE AskReplayed
  BY <1>3 DEF AskReplayed, Asking, Accepted
<1>4. CASE AskDelivered
  BY <1>4 DEF AskDelivered, Asking, Accepted
<1>5. CASE AskUnavailable \/ AskRejected
  <2>1. /\ ask' \in [Turns -> Obligations] /\ seen' \in Runtimes /\ failures' \in 0..MaxFailures
        /\ at' \in {"cancel", "refuse", "idle"} /\ msg' \in Turns \cup {Nobody}
        /\ cur' \in {cur, Nobody} /\ renew' \in {renew, Nobody}
    BY <1>5, RefusedEffect
  <2>2. UNCHANGED <<turns, told, ready, agents, unconfirmed, runtimes, row, deaths, crashes>>
    BY <1>5 DEF AskUnavailable, AskRejected, Fails
  <2> QED
    BY <2>1, <2>2
<1> QED
  BY <1>1, <1>2, <1>3, <1>4, <1>5

LEMMA StartTypes ==
  ASSUME OccupantsTypeOK, HandlerKnown, agents <= 1, NEW r \in Runtimes,
         StartSucceeds(r) \/ StartFails(r)
  PROVE  OccupantsTypeOK'
<1> USE ConstantTypes DEF OccupantsTypeOK, turns, kelpie, runtimes, handler, bounds
<1>1. told' \in [Turns -> SUBSET Runtimes] /\ agents' \in Nat /\ started' \in Nat
  BY DEF StartSucceeds, StartFails, Launch, Bootstrap, Minted
<1>2. CASE StartSucceeds(r)
  BY <1>1, <1>2 DEF StartSucceeds, Launch
<1>3. CASE StartFails(r)
  BY <1>1, <1>3 DEF StartFails, Launch, Fails, Stop, GiveUp
<1> QED
  BY <1>2, <1>3

LEMMA HandlerTypes ==
  ASSUME OccupantsTypeOK, HandlerKnown,
         \/ CancelGone \/ RetireGone \/ Reclaim \/ ArmStarted \/ ArmAsked \/ Refuse \/ OpenTurn
         \/ OpenFails \/ CommandFails \/ Crash
  PROVE  OccupantsTypeOK'
<1> USE ConstantTypes DEF OccupantsTypeOK, HandlerKnown, Obligations, turns, kelpie, runtimes,
                          handler, bounds
<1>1. CASE CancelGone \/ RetireGone \/ Reclaim
  BY <1>1 DEF CancelGone, RetireGone, Reclaim, Go
<1>2. CASE ArmStarted \/ ArmAsked
  <2>1. /\ {row', renew'} \subseteq Runtimes \cup {Nobody}
        /\ UNCHANGED <<turn, askId, ask, told, ready, agents, unconfirmed, alive, late, holder,
                       started, cur, seen, msg, deaths, crashes>>
    BY <1>2 DEF ArmStarted, ArmAsked, Arm, Fails
  <2>2. at' \in {"idle", "again", "open"} /\ failures' \in 0..MaxFailures
    BY <1>2 DEF ArmStarted, ArmAsked, Arm, Fails
  <2> QED
    BY <2>1, <2>2
<1>3. CASE Refuse
  BY <1>3 DEF Refuse, Stop, GiveUp
<1>4. CASE OpenTurn
  BY <1>4 DEF OpenTurn, Stop, GiveUp
<1>5. CASE CommandFails
  BY <1>5 DEF CommandFails, Fails, Stop, GiveUp
<1>6. CASE Crash
  BY <1>6 DEF Crash, Stop, GiveUp
<1>7. CASE OpenFails
  BY <1>7 DEF OpenFails, Stop, GiveUp
<1> QED
  BY <1>1, <1>2, <1>3, <1>4, <1>5, <1>6, <1>7

LEMMA TurnTypes ==
  ASSUME OccupantsTypeOK, NEW i \in Turns,
         Enqueue(i) \/ Withdraw(i) \/ Finish(i) \/ Answer(i) \/ \E r \in Runtimes : Remind(i, r)
  PROVE  OccupantsTypeOK'
<1> USE ConstantTypes DEF OccupantsTypeOK, Obligations, turns, kelpie, runtimes, handler, bounds
<1>1. CASE Enqueue(i) \/ Finish(i)
  <2>1. turn' \in [Turns -> {"none", "queued", "open", "ended"}]
    BY <1>1 DEF Enqueue, Finish
  <2>2. UNCHANGED <<askId, kelpie, unconfirmed, runtimes, row, handler, bounds>>
    BY <1>1 DEF Enqueue, Finish
  <2> QED
    BY <2>1, <2>2
<1>2. CASE Withdraw(i)
  BY <1>2 DEF Withdraw, Fails
<1>3. CASE Answer(i)
  BY <1>3 DEF Answer
<1>4. CASE \E r \in Runtimes : Remind(i, r)
  BY <1>4 DEF Remind
<1> QED
  BY <1>1, <1>2, <1>3, <1>4

LEMMA RuntimeTypes ==
  ASSUME OccupantsTypeOK, NEW r \in Runtimes, Dies(r) \/ Notice(r) \/ ComesUp(r)
  PROVE  OccupantsTypeOK'
<1> USE ConstantTypes DEF OccupantsTypeOK, turns, kelpie, runtimes, handler, bounds
<1>1. CASE Dies(r)
  BY <1>1 DEF Dies
<1>2. CASE Notice(r) \/ ComesUp(r)
  BY <1>2 DEF Notice, ComesUp
<1> QED
  BY <1>1, <1>2

LEMMA TypesKept ==
  ASSUME OccupantsTypeOK, HandlerKnown, agents <= 1, [Next]_vars
  PROVE  OccupantsTypeOK'
<1>1. CASE AskUncertain
  <2>1. /\ ask' \in [Turns -> Obligations] /\ told' \in [Turns -> SUBSET Runtimes]
        /\ seen' \in Runtimes /\ failures' \in 0..MaxFailures /\ unconfirmed' \subseteq Turns
        /\ at' \in {"idle", "rearm", "open"}
        /\ {cur', msg'} \subseteq Turns \cup {Nobody} /\ renew' \in Runtimes \cup {Nobody}
    BY <1>1, UncertainEffect DEF OccupantsTypeOK
  <2>2. UNCHANGED <<turn, askId, ready, agents, alive, late, holder, started, row, deaths, crashes>>
    BY <1>1 DEF AskUncertain, Fails, turns, runtimes
  <2> QED
    BY <2>1, <2>2 DEF OccupantsTypeOK
<1>2. CASE \/ \E i \in Turns : BeginAsk(i)
           \/ BeginRecovery
  BY <1>2 DEF BeginAsk, BeginRecovery, OccupantsTypeOK, turns, kelpie, runtimes, bounds
<1>3. CASE UNCHANGED vars
  BY <1>3 DEF vars, OccupantsTypeOK, turns, kelpie, runtimes, handler, bounds
<1> QED
  BY <1>1, <1>2, <1>3, AskTypes, StartTypes, HandlerTypes, TurnTypes, RuntimeTypes
     DEF Next, Dispatch

-----------------------------------------------------------------------------
(* -------------------------------- the seat ----------------------------- *)

\* A step that ends no wait of the seat, starts nothing, and at most ends
\* runtimes or readies and unreadies others keeps the seat.
LEMMA SeatSteps ==
  ASSUME OccupantsTypeOK, SeatKnown, HandlerKnown, [Next]_vars
  PROVE  SeatKnown'
<1> USE ConstantTypes DEF turns, kelpie, runtimes, handler, bounds
<1>1. CASE AskUnbound \/ BeginRecovery
  BY <1>1 DEF AskUnbound, BeginRecovery, Go, Stop, GiveUp, SeatKnown
<1>2. CASE AskUnavailable \/ AskRejected
  <2>1. (at' = "cancel" /\ seen' \notin alive) \/ at' \in {"refuse", "idle"}
    BY <1>2, RefusedEffect
  <2>2. UNCHANGED <<alive, ready, late, holder>> /\ at \in {"ask", "again"}
    BY <1>2 DEF AskUnavailable, AskRejected, Asking
  <2>3. at' = "cancel" => alive \subseteq late
    <3>1. AskRejected => at' # "cancel"
      BY DEF AskRejected, NoReceipt, GiveUp
    <3>2. AskUnavailable => ready \cap alive = {}
      BY DEF AskUnavailable, Asking
    <3> QED
      BY <1>2, <3>1, <3>2 DEF SeatKnown
  <2> QED
    BY <2>1, <2>2, <2>3 DEF SeatKnown
<1>3. CASE (\E i \in Turns : BeginAsk(i)) \/ AskAmbiguous \/ AskReplayed \/ AskDelivered
  BY <1>3 DEF BeginAsk, AskAmbiguous, AskReplayed, AskDelivered, Accepted, Stop, GiveUp, SeatKnown
<1>4. CASE AskUncertain
  <2>1. at' \in {"idle", "rearm", "open"}
    BY <1>4, UncertainEffect
  <2> QED
    BY <1>4, <2>1 DEF AskUncertain, SeatKnown
<1>5. CASE CancelGone \/ RetireGone
  BY <1>5 DEF CancelGone, RetireGone, Go, SeatKnown
<1>6. CASE Reclaim
  BY <1>6 DEF Reclaim, Go, SeatKnown
<1>7. ASSUME NEW r \in Runtimes, StartSucceeds(r) \/ StartFails(r)
      PROVE  SeatKnown'
  <2>1. alive = {} /\ alive' = {r} /\ holder' = r
    BY <1>7 DEF StartSucceeds, StartFails, Launch, SeatKnown, OccupantsTypeOK
  <2>2. r \in ready' \cup late' /\ at' \in {"arm", "idle"}
    BY <1>7 DEF StartSucceeds, StartFails, Stop, GiveUp
  <2> QED
    BY <2>1, <2>2 DEF SeatKnown
<1>8. CASE ArmStarted \/ ArmAsked
  <2>1. at' \in {"idle", "again", "open"} /\ UNCHANGED <<alive, ready, late, holder>>
    BY <1>8 DEF ArmStarted, ArmAsked, Arm
  <2> QED
    BY <2>1 DEF SeatKnown
<1>9. CASE Refuse \/ OpenTurn \/ OpenFails \/ CommandFails \/ Crash
  <2>1. at' = "idle" /\ UNCHANGED <<alive, ready, late, holder>>
    BY <1>9 DEF Refuse, OpenTurn, OpenFails, CommandFails, Crash, Stop, GiveUp
  <2> QED
    BY <2>1 DEF SeatKnown
<1>10. CASE \E i \in Turns : Enqueue(i) \/ Withdraw(i) \/ Finish(i) \/ Answer(i)
                            \/ \E r \in Runtimes : Remind(i, r)
  <2>1. UNCHANGED <<alive, ready, late, holder, at, seen>>
    BY <1>10 DEF Enqueue, Withdraw, Finish, Answer, Remind
  <2> QED
    BY <2>1 DEF SeatKnown
<1>11. CASE \E r \in Runtimes : Dies(r) \/ Notice(r) \/ ComesUp(r)
  BY <1>11 DEF Dies, Notice, ComesUp, SeatKnown
<1>12. CASE UNCHANGED vars
  BY <1>12 DEF vars, SeatKnown
<1> QED
  BY <1>1, <1>2, <1>3, <1>4, <1>5, <1>6, <1>7, <1>8, <1>9, <1>10, <1>11, <1>12 DEF Next, Dispatch

LEMMA StartsKept ==
  ASSUME OccupantsTypeOK, SeatKnown, StartsCounted, HandlerKnown, [Next]_vars
  PROVE  StartsCounted'
<1> USE ConstantTypes DEF turns, kelpie, runtimes, handler, bounds
<1>0. failures \in Nat /\ deaths \in Nat /\ started \in Nat
  BY DEF OccupantsTypeOK
<1>1. ASSUME NEW r \in Runtimes, StartSucceeds(r) \/ StartFails(r)
      PROVE  StartsCounted'
  <2>1. alive = {} /\ alive' = {r} /\ started' = started + 1 /\ r = started + 1 /\ deaths' = deaths
    BY <1>1 DEF StartSucceeds, StartFails, Launch, SeatKnown, OccupantsTypeOK, Fails
  <2>2. started <= failures + deaths /\ late \subseteq 1..started
    BY <2>1, <1>0 DEF StartsCounted
  <2>3. CASE StartSucceeds(r)
    <3>1. late' = late /\ failures' = failures
      BY <2>3 DEF StartSucceeds
    <3> QED
      BY <1>0, <2>1, <2>2, <3>1 DEF StartsCounted
  <2>4. CASE StartFails(r)
    <3>1. late' = late \cup {r} /\ failures' = failures + 1
      BY <2>4 DEF StartFails, Fails
    <3> QED
      BY <1>0, <2>1, <2>2, <3>1 DEF StartsCounted
  <2> QED
    BY <1>1, <2>3, <2>4
<1>2. ASSUME NEW r \in Runtimes, Dies(r)
      PROVE  StartsCounted'
  <2>1. UNCHANGED <<late, started, failures>> /\ deaths' = deaths + 1
    BY <1>2 DEF Dies
  <2> QED
    BY <1>0, <2>1 DEF StartsCounted
<1>3. CASE Reclaim
  <2>1. UNCHANGED <<late, started, failures, deaths>> /\ alive \subseteq late /\ alive' \subseteq alive
    BY <1>3 DEF Reclaim, SeatKnown
  <2> QED
    BY <1>0, <2>1 DEF StartsCounted
<1>4. ASSUME UNCHANGED <<late, started, alive, deaths>>, failures' \in {failures, failures + 1}
      PROVE  StartsCounted'
  <2>1. started <= failures + deaths + (IF alive \subseteq late THEN 0 ELSE 1)
    BY DEF StartsCounted
  <2>2. failures' = failures \/ failures' = failures + 1
    BY <1>4
  <2>3. /\ alive' = alive /\ late' = late /\ started' = started /\ deaths' = deaths
        /\ late \subseteq 1..started
    BY <1>4 DEF StartsCounted
  <2>4. CASE failures' = failures
    BY <2>1, <2>3, <2>4 DEF StartsCounted
  <2>5. CASE failures' = failures + 1
    <3>1. started <= failures + 1 + deaths + (IF alive \subseteq late THEN 0 ELSE 1)
      BY <1>0, <2>1
    <3> QED
      BY <2>3, <2>5, <3>1 DEF StartsCounted
  <2> QED
    BY <2>2, <2>4, <2>5
<1>5. \/ UNCHANGED <<late, started, alive, deaths>> /\ failures' \in {failures, failures + 1}
      \/ \E r \in Runtimes : StartSucceeds(r) \/ StartFails(r) \/ Dies(r)
      \/ Reclaim
  <2>1. CASE \/ \E i \in Turns : BeginAsk(i)
             \/ BeginRecovery \/ AskUnbound \/ AskAmbiguous \/ AskReplayed \/ AskDelivered
             \/ AskUnavailable
    BY <2>1 DEF BeginAsk, BeginRecovery, AskUnbound, AskAmbiguous, AskReplayed, AskDelivered,
                AskUnavailable
  <2>2. CASE AskRejected \/ AskUncertain \/ CommandFails \/ Crash
    BY <2>2 DEF AskRejected, AskUncertain, CommandFails, Crash, Fails
  <2>3. CASE CancelGone \/ RetireGone \/ Refuse \/ OpenTurn \/ OpenFails
    BY <2>3 DEF CancelGone, RetireGone, Refuse, OpenTurn, OpenFails
  <2>4. CASE ArmStarted \/ ArmAsked
    BY <2>4 DEF ArmStarted, ArmAsked, Arm, Fails
  <2>5. CASE \E i \in Turns : Enqueue(i) \/ Withdraw(i) \/ Finish(i) \/ Answer(i)
                              \/ \E r \in Runtimes : Remind(i, r)
    BY <2>5 DEF Enqueue, Withdraw, Finish, Answer, Remind, Fails
  <2>6. CASE \E r \in Runtimes : Notice(r) \/ ComesUp(r)
    BY <2>6 DEF Notice, ComesUp
  <2>7. CASE UNCHANGED vars
    BY <2>7 DEF vars
  <2> QED
    BY <2>1, <2>2, <2>3, <2>4, <2>5, <2>6, <2>7 DEF Next, Dispatch
<1> QED
  BY <1>1, <1>2, <1>3, <1>4, <1>5

-----------------------------------------------------------------------------
(* -------------------------- turns and obligations ---------------------- *)

\* What the handler and the turns wait for in Kelpie.
TurnsKnown == HandlerKnown /\ OneOpen /\ FailedIsHandled

\* A step of the handler that changes no obligation and no turn, and either
\* ends it or goes on with the same turn to a step that asks no more of it.
LEMMA QuietTurns ==
  ASSUME OccupantsTypeOK, TurnsKnown, UNCHANGED <<turns, ask>>,
         failures' >= failures, crashes' >= crashes,
         \/ UNCHANGED <<at, cur, msg>>
         \/ at \notin {"cancel", "refuse", "rearm", "open"} /\ at' = "idle" /\ cur' = Nobody
         \/ at' = "idle" /\ failures' + crashes' > 0
         \/ at \notin {"cancel", "refuse", "rearm", "open"} /\ UNCHANGED <<cur, msg>> /\ at # "idle"
            /\ at' \in {"seat", "start", "arm"}
  PROVE  TurnsKnown'
<1> USE ConstantTypes DEF turns
<1>0. /\ Opened' = Opened /\ failures \in Nat /\ crashes \in Nat
  BY DEF Opened, OccupantsTypeOK
<1>1. HandlerKnown'
  BY <1>0 DEF TurnsKnown, HandlerKnown
<1>2. OneOpen'
  BY <1>0 DEF TurnsKnown, OneOpen
<1>3. FailedIsHandled'
  <2>1. CASE at' = "idle" /\ failures' + crashes' > 0
    BY <2>1 DEF FailedIsHandled, Undisturbed
  <2>2. CASE ~(at' = "idle" /\ failures' + crashes' > 0)
    <3>1. Undisturbed' => Undisturbed
      BY <1>0 DEF Undisturbed
    <3> QED
      BY <1>0, <2>2, <3>1 DEF TurnsKnown, FailedIsHandled
  <2> QED
    BY <2>1, <2>2
<1> QED
  BY <1>1, <1>2, <1>3 DEF TurnsKnown

LEMMA HandlerTurns ==
  ASSUME OccupantsTypeOK, TurnsKnown,
         \/ AskUnbound \/ AskAmbiguous \/ RetireGone \/ Reclaim
         \/ (\E r \in Runtimes : StartSucceeds(r) \/ StartFails(r))
         \/ CommandFails \/ Crash
  PROVE  TurnsKnown'
<1> USE DEF turns, kelpie, runtimes, handler, bounds
<1>0. failures \in Nat /\ crashes \in Nat
  BY ConstantTypes DEF OccupantsTypeOK
<1>1. CASE AskUnbound \/ AskAmbiguous \/ RetireGone \/ Reclaim
  <2>1. UNCHANGED <<turns, ask, failures, crashes>>
    BY <1>1 DEF AskUnbound, AskAmbiguous, RetireGone, Reclaim
  <2>2. /\ at \notin {"cancel", "refuse", "rearm", "open"} /\ at # "idle"
        /\ \/ at' = "idle" /\ cur' = Nobody
           \/ UNCHANGED <<cur, msg>> /\ at' \in {"seat", "start", "arm"}
    BY <1>1 DEF AskUnbound, AskAmbiguous, RetireGone, Reclaim, Go, Stop, GiveUp
  <2> QED
    BY <1>0, <2>1, <2>2, QuietTurns
<1>2. CASE \E r \in Runtimes : StartSucceeds(r) \/ StartFails(r)
  <2>1. UNCHANGED <<turns, ask, crashes>> /\ failures' >= failures
    BY <1>0, <1>2 DEF StartSucceeds, StartFails, Launch, Fails
  <2>2. /\ at \notin {"cancel", "refuse", "rearm", "open"} /\ at # "idle"
        /\ \/ at' = "idle" /\ cur' = Nobody
           \/ UNCHANGED <<cur, msg>> /\ at' \in {"seat", "start", "arm"}
    BY <1>2 DEF StartSucceeds, StartFails, Launch, Stop, GiveUp
  <2> QED
    BY <1>0, <2>1, <2>2, QuietTurns
<1>3. CASE CommandFails \/ Crash
  <2>1. /\ UNCHANGED <<turns, ask>> /\ failures' >= failures /\ crashes' >= crashes
        /\ at' = "idle" /\ failures' + crashes' > 0
    BY <1>0, <1>3 DEF CommandFails, Crash, Fails, Stop, GiveUp
  <2> QED
    BY <2>1, QuietTurns
<1> QED
  BY <1>1, <1>2, <1>3

LEMMA ArmTurns ==
  ASSUME OccupantsTypeOK, TurnsKnown, ArmStarted \/ ArmAsked
  PROVE  TurnsKnown'
<1> USE ConstantTypes DEF turns, kelpie, runtimes, handler, bounds
<1>1. /\ UNCHANGED <<turns, ask, cur, msg, crashes>> /\ Opened' = Opened
      /\ failures' = failures \/ failures' = failures + 1
  BY DEF ArmStarted, ArmAsked, Arm, Fails, Opened
<1>2. \/ at = "arm" /\ cur = Nobody /\ at' = "idle"
      \/ at = "arm" /\ cur # Nobody /\ at' = "again"
      \/ at = "rearm" /\ at' = "open"
  BY DEF ArmStarted, ArmAsked, Arm
<1>3. cur \in Turns \cup {Nobody} /\ failures \in Nat /\ crashes \in Nat
  BY DEF OccupantsTypeOK
<1>4. HandlerKnown'
  BY <1>1, <1>2, <1>3 DEF TurnsKnown, HandlerKnown
<1>5. OneOpen'
  BY <1>1 DEF TurnsKnown, OneOpen
<1>6. FailedIsHandled'
  <2>1. Undisturbed' => Undisturbed
    BY <1>1, <1>3 DEF Undisturbed
  <2> QED
    BY <1>1, <1>2, <2>1 DEF TurnsKnown, FailedIsHandled
<1> QED
  BY <1>4, <1>5, <1>6 DEF TurnsKnown

\* While a turn is being asked none is open, so an obligation may change; short
\* of a failure none stood before, so the one that is found is the turn's own.
LEMMA AskTurns ==
  ASSUME OccupantsTypeOK, TurnsKnown,
         AskReplayed \/ AskDelivered \/ AskUnavailable \/ AskRejected \/ AskUncertain
  PROVE  TurnsKnown'
<1> USE ConstantTypes DEF turns, kelpie, runtimes, handler, bounds
<1>1. /\ at \in {"ask", "again"} /\ cur \in Turns /\ Opened = {} /\ Opened' = {}
      /\ turn' = turn /\ askId' = askId /\ turn[cur] = "queued" /\ cur # Nobody
      /\ failures \in Nat /\ crashes \in Nat /\ crashes' = crashes
  BY DEF AskReplayed, AskDelivered, AskUnavailable, AskRejected, AskUncertain, Asking, Fails,
         TurnsKnown, HandlerKnown, Opened, OccupantsTypeOK
<1>2. OneOpen'
  BY <1>1 DEF TurnsKnown, OneOpen
<1>3. ASSUME failures' = failures + 1 PROVE FailedIsHandled'
  BY <1>1, <1>3 DEF FailedIsHandled, Undisturbed
<1>4. ASSUME failures' = failures
      PROVE  /\ Undisturbed' => Undisturbed
             /\ Undisturbed => /\ \A i \in Turns : ask[i] \notin {"failed", "held"}
                               /\ \A i \in Turns : askId'[i] \in {i, Nobody}
  BY <1>1, <1>4 DEF TurnsKnown, FailedIsHandled, Undisturbed
<1>5. CASE AskReplayed \/ AskDelivered
  <2>1. /\ at' \in {"rearm", "open"} /\ msg' = cur /\ cur' = cur /\ failures' = failures
        /\ \/ ask' = ask /\ ask[cur] \in Standing
           \/ ask' = [ask EXCEPT ![cur] = "held"]
    BY <1>5 DEF AskReplayed, AskDelivered, Accepted, Standing
  <2>2. HandlerKnown'
    BY <1>1, <2>1 DEF HandlerKnown, Standing, OccupantsTypeOK
  <2>3. FailedIsHandled'
    BY <1>1, <1>4, <2>1 DEF FailedIsHandled, OccupantsTypeOK
  <2> QED
    BY <1>2, <2>2, <2>3 DEF TurnsKnown
<1>6. CASE AskUnavailable \/ AskRejected
  <2>1. HandlerKnown
    BY DEF TurnsKnown
  <2>2. /\ ask' \in [Turns -> Obligations] /\ ask' \in {ask, [ask EXCEPT ![cur] = "failed"]}
        /\ failures' \in {failures, failures + 1}
        /\ \/ /\ at' \in {"cancel", "refuse"} /\ msg' \in Turns /\ cur' = cur /\ Receipt("failed")
           \/ /\ at' = "idle" /\ cur' = Nobody /\ NoReceipt("failed")
    BY <1>6, <2>1, RefusedEffect
  <2>3. HandlerKnown'
    BY <1>1, <2>2 DEF HandlerKnown
  <2>4. ASSUME failures' = failures, Undisturbed
        PROVE  /\ Undisturbed' => Undisturbed
               /\ \A i \in Turns : askId'[i] \in {i, Nobody}
               /\ \A i \in Turns : ask'[i] # "held"
               /\ \A i \in Turns : ask'[i] = "failed" =>
                    i = cur /\ at' \in {"cancel", "refuse"} /\ msg' = cur
               /\ at' = "idle" \/ msg' = cur
    <3>1. /\ \A i \in Turns : ask[i] \notin {"failed", "held"}
          /\ \A i \in Turns : askId'[i] \in {i, Nobody}
          /\ ask \in [Turns -> Obligations]
      BY <1>4, <2>4 DEF OccupantsTypeOK
    <3>2. CASE ask' = ask
      <4>1. Pending' = {}
        BY <3>1, <3>2 DEF Pending
      <4>2. Receipt("failed") => msg' = cur
        <5>1. Receipt("failed") => msg' = cur \/ \E m \in Turns : Pending' = {m}
          BY DEF Receipt
        <5> QED
          BY <4>1, <5>1
      <4> QED
        BY <2>2, <2>4, <3>1, <3>2, <4>2
    <3>3. CASE ask' = [ask EXCEPT ![cur] = "failed"]
      <4>1. /\ ask'[cur] = "failed"
            /\ \A i \in Turns : i # cur => ask'[i] = ask[i]
        BY <1>1, <3>1, <3>3
      <4>2. Pending' = {cur}
        BY <1>1, <3>1, <4>1 DEF Pending
      <4>3. ~NoReceipt("failed")
        BY <1>1, <4>2 DEF NoReceipt
      <4>4. msg' = cur
        <5>1. msg' = cur \/ \E m \in Turns : Pending' = {m} /\ msg' = m
          BY <2>2, <4>3 DEF Receipt
        <5> QED
          BY <4>2, <5>1
      <4> QED
        BY <2>2, <2>4, <3>1, <4>1, <4>3, <4>4
    <3> QED
      BY <2>2, <3>2, <3>3
  <2>5. CASE failures' = failures
    <3>1. Undisturbed' => Undisturbed
      BY <1>4, <2>5
    <3> QED
      BY <1>1, <1>2, <2>2, <2>3, <2>4, <2>5, <3>1 DEF TurnsKnown, FailedIsHandled
  <2>6. CASE failures' = failures + 1
    BY <1>2, <1>3, <2>3, <2>6 DEF TurnsKnown
  <2> QED
    BY <2>2, <2>5, <2>6
<1>7. CASE AskUncertain
  <2>1. /\ failures' = failures + 1
        /\ \/ /\ msg' \in Turns /\ ask'[msg'] \in {"failed", "held"}
              /\ at' \in {"rearm", "open"} /\ cur' = cur
           \/ at' = "idle" /\ cur' = Nobody
    BY <1>7, UncertainEffect DEF TurnsKnown
  <2>2. HandlerKnown'
    BY <1>1, <2>1 DEF HandlerKnown, Standing
  <2> QED
    BY <1>2, <1>3, <2>1, <2>2 DEF TurnsKnown
<1> QED
  BY <1>5, <1>6, <1>7

LEMMA EndTurns ==
  ASSUME OccupantsTypeOK, TurnsKnown, CancelGone \/ Refuse \/ OpenTurn \/ OpenFails
  PROVE  TurnsKnown'
<1> USE ConstantTypes DEF turns, kelpie, runtimes, handler, bounds
<1>0. failures \in Nat /\ crashes \in Nat
  BY DEF OccupantsTypeOK
<1>1. CASE CancelGone \/ Refuse
  <2>1. /\ at \in {"cancel", "refuse"} /\ cur \in Turns /\ cur # Nobody /\ msg \in Turns
        /\ (at' = "retire" /\ cur' = cur) \/ at' = "idle"
        /\ turn' = turn /\ askId' = askId /\ turn[cur] = "queued"
        /\ ask' = [ask EXCEPT ![msg] = "cancelled"] /\ Opened' = Opened /\ Opened = {}
        /\ failures' = failures /\ crashes' = crashes
    BY <1>1 DEF CancelGone, Refuse, Go, Stop, GiveUp, TurnsKnown, HandlerKnown, Opened
  <2>2. HandlerKnown' /\ OneOpen'
    BY <2>1 DEF TurnsKnown, HandlerKnown, OneOpen
  <2>3. FailedIsHandled'
    <3>1. \A i \in Turns : ask'[i] = IF i = msg THEN "cancelled" ELSE ask[i]
      BY <2>1 DEF OccupantsTypeOK
    <3>2. Undisturbed' => Undisturbed
      BY <2>1 DEF Undisturbed
    <3> QED
      BY <2>1, <3>1, <3>2 DEF TurnsKnown, FailedIsHandled
  <2> QED
    BY <2>2, <2>3 DEF TurnsKnown
<1>2. CASE OpenTurn
  <2>1. /\ at = "open" /\ at' = "idle" /\ cur \in Turns /\ msg \in Turns /\ ask[msg] \in Standing
        /\ ask' = ask /\ askId' = [askId EXCEPT ![cur] = msg] /\ Opened = {}
        /\ turn' = [turn EXCEPT ![cur] = "open"]
        /\ \A j \in Turns : askId[j] # msg
        /\ failures' = failures /\ crashes' = crashes
    BY <1>2 DEF OpenTurn, Recorded, Stop, GiveUp, TurnsKnown, HandlerKnown
  <2>2. Opened' = {cur}
    BY <2>1 DEF Opened, OccupantsTypeOK
  <2>3. /\ \A j \in Turns : askId'[j] = IF j = cur THEN msg ELSE askId[j]
        /\ \A j \in Turns : turn'[j] = IF j = cur THEN "open" ELSE turn[j]
    BY <2>1 DEF OccupantsTypeOK
  <2>4. OneOpen'
    BY <2>1, <2>2, <2>3 DEF TurnsKnown, OneOpen
  <2>5. HandlerKnown'
    BY <2>1 DEF HandlerKnown
  <2>6. FailedIsHandled'
    <3>1. Undisturbed' => Undisturbed
      BY <2>1 DEF Undisturbed
    <3> QED
      BY <2>1, <2>2, <2>3, <3>1 DEF TurnsKnown, FailedIsHandled
  <2> QED
    BY <2>4, <2>5, <2>6 DEF TurnsKnown
\* Short of a failure the ask that is recorded already would be the turn's own.
<1>3. CASE OpenFails
  <2>1. at = "open" /\ at' = "idle" /\ Recorded(msg) /\ cur \in Turns /\ cur # Nobody /\ msg \in Turns
    BY <1>3 DEF OpenFails, Stop, GiveUp, TurnsKnown, HandlerKnown
  <2>2. UNCHANGED <<turns, ask, failures, crashes>>
    BY <1>3 DEF OpenFails
  <2>3. ~Undisturbed
    <3> SUFFICES ASSUME Undisturbed PROVE FALSE
      OBVIOUS
    <3>1. PICK j \in Turns : askId[j] = msg
      BY <2>1 DEF Recorded
    <3>2. msg = cur /\ askId[j] \in {j, Nobody}
      BY <2>1 DEF TurnsKnown, FailedIsHandled
    <3>3. j = cur
      BY <2>1, <3>1, <3>2
    <3>4. askId[cur] = Nobody
      BY <2>1 DEF TurnsKnown, HandlerKnown, OneOpen
    <3> QED
      BY <2>1, <3>1, <3>2, <3>3, <3>4
  <2>4. failures' + crashes' > 0
    BY <1>0, <2>2, <2>3 DEF Undisturbed
  <2> QED
    BY <1>0, <2>1, <2>2, <2>4, QuietTurns
<1> QED
  BY <1>1, <1>2, <1>3

LEMMA BeginTurns ==
  ASSUME OccupantsTypeOK, TurnsKnown, BeginRecovery \/ \E i \in Turns : BeginAsk(i)
  PROVE  TurnsKnown'
<1> USE ConstantTypes DEF turns, kelpie, runtimes, handler, bounds
<1>1. /\ at = "idle" /\ UNCHANGED <<turn, askId, ask, failures, crashes>> /\ Opened' = Opened
      /\ \/ at' = "seat" /\ cur' = Nobody
         \/ at' = "ask" /\ cur' \in Turns /\ Opened = {} /\ turn[cur'] = "queued"
  BY DEF BeginRecovery, BeginAsk, Oldest, Opened
<1>2. Undisturbed' => Undisturbed
  BY <1>1 DEF Undisturbed
<1>3. HandlerKnown' /\ OneOpen'
  BY <1>1 DEF TurnsKnown, HandlerKnown, OneOpen
<1>4. FailedIsHandled'
  BY <1>1, <1>2 DEF TurnsKnown, FailedIsHandled
<1> QED
  BY <1>3, <1>4 DEF TurnsKnown

\* An edit cancels the obligation of the only open turn.
LEMMA WithdrawTurns ==
  ASSUME OccupantsTypeOK, TurnsKnown, NEW i \in Turns, Withdraw(i)
  PROVE  TurnsKnown'
<1> USE ConstantTypes DEF turns, kelpie, runtimes, handler, bounds
<1>1. /\ at = "idle" /\ UNCHANGED <<at, cur, msg, askId, crashes>>
      /\ failures \in Nat /\ (failures' = failures \/ failures' = failures + 1)
      /\ turn' = [turn EXCEPT ![i] = "ended"]
  BY DEF Withdraw, Fails, OccupantsTypeOK
<1>2. \/ i \notin Opened /\ ask' = ask
      \/ i \in Opened /\ ask' = [ask EXCEPT ![askId[i]] = "cancelled"]
      \/ failures' = failures + 1 /\ ask' = ask
  BY DEF Withdraw, Fails, Opened
<1>3. Opened' = Opened \ {i} /\ \A j \in Turns : turn'[j] = IF j = i THEN "ended" ELSE turn[j]
  BY <1>1 DEF Opened, OccupantsTypeOK
<1>4. OneOpen'
  BY <1>1, <1>2, <1>3 DEF TurnsKnown, OneOpen
<1>5. HandlerKnown'
  BY <1>1, <1>2 DEF TurnsKnown, HandlerKnown
<1>6. FailedIsHandled'
  <2>1. CASE failures' = failures + 1
    BY <1>1, <2>1 DEF FailedIsHandled, Undisturbed
  <2>2. CASE failures' = failures /\ i \notin Opened /\ ask' = ask
    <3>1. Opened' = Opened /\ (Undisturbed' => Undisturbed)
      BY <1>1, <1>3, <2>2 DEF Undisturbed
    <3> QED
      BY <1>1, <2>2, <3>1 DEF TurnsKnown, FailedIsHandled
  <2>3. CASE failures' = failures /\ i \in Opened /\ ask' = [ask EXCEPT ![askId[i]] = "cancelled"]
    <3>1. askId[i] \in Turns /\ \A j \in Turns : ask'[j] = IF j = askId[i] THEN "cancelled" ELSE ask[j]
      BY <2>3 DEF TurnsKnown, OneOpen, OccupantsTypeOK
    <3>2. Undisturbed' => Undisturbed
      BY <1>1, <2>3 DEF Undisturbed
    <3> QED
      BY <1>1, <1>3, <3>1, <3>2 DEF TurnsKnown, FailedIsHandled
  <2> QED
    BY <1>1, <1>2, <2>1, <2>2, <2>3
<1> QED
  BY <1>4, <1>5, <1>6 DEF TurnsKnown

LEMMA OutsideTurns ==
  ASSUME OccupantsTypeOK, TurnsKnown,
         \/ \E i \in Turns : Enqueue(i) \/ Finish(i) \/ Answer(i) \/ \E r \in Runtimes : Remind(i, r)
         \/ \E r \in Runtimes : Dies(r) \/ Notice(r) \/ ComesUp(r)
         \/ UNCHANGED vars
  PROVE  TurnsKnown'
<1> USE ConstantTypes DEF turns, kelpie, runtimes, handler, bounds
<1>0. failures \in Nat /\ crashes \in Nat
  BY DEF OccupantsTypeOK
<1>1. ASSUME NEW i \in Turns, Enqueue(i)
      PROVE  TurnsKnown'
  <2>1. /\ UNCHANGED <<at, cur, msg, ask, askId, failures, crashes>> /\ turn[i] = "none"
        /\ Opened' = Opened /\ \A j \in Turns : turn'[j] = IF j = i THEN "queued" ELSE turn[j]
    BY <1>1 DEF Enqueue, Opened, OccupantsTypeOK
  <2>2. HandlerKnown'
    <3>1. cur \in Turns \cup {Nobody}
      BY DEF OccupantsTypeOK
    <3> QED
      BY <2>1, <3>1 DEF TurnsKnown, HandlerKnown
  <2>3. OneOpen'
    BY <2>1 DEF TurnsKnown, OneOpen
  <2>4. FailedIsHandled'
    <3>1. Undisturbed' => Undisturbed
      BY <2>1 DEF Undisturbed
    <3> QED
      BY <2>1, <3>1 DEF TurnsKnown, FailedIsHandled
  <2> QED
    BY <2>2, <2>3, <2>4 DEF TurnsKnown
<1>2. ASSUME NEW i \in Turns, Finish(i)
      PROVE  TurnsKnown'
  <2>1. /\ UNCHANGED <<at, cur, msg, ask, askId, failures, crashes>> /\ at = "idle"
        /\ i \in Opened /\ ask[askId[i]] = "answered" /\ Opened' = Opened \ {i}
        /\ \A j \in Turns : turn'[j] = IF j = i THEN "ended" ELSE turn[j]
    BY <1>2 DEF Finish, Opened, OccupantsTypeOK
  <2>2. HandlerKnown' /\ OneOpen'
    BY <2>1 DEF TurnsKnown, HandlerKnown, OneOpen
  <2>3. FailedIsHandled'
    <3>1. \A j \in Opened : j = i
      BY <2>1 DEF TurnsKnown, OneOpen
    <3>2. Undisturbed' => Undisturbed
      BY <2>1 DEF Undisturbed
    <3> QED
      BY <2>1, <3>1, <3>2 DEF TurnsKnown, FailedIsHandled
  <2> QED
    BY <2>2, <2>3 DEF TurnsKnown
<1>3. ASSUME NEW i \in Turns, Answer(i)
      PROVE  TurnsKnown'
  <2>1. /\ UNCHANGED <<at, cur, msg, turn, askId, failures, crashes>> /\ Opened' = Opened
        /\ ask[i] = "held" /\ ask' = [ask EXCEPT ![i] = "answered"]
    BY <1>3 DEF Answer, Opened
  <2>2. \A j \in Turns : /\ ask[j] \in Standing => ask'[j] \in Standing
                         /\ ask'[j] = "failed" => ask[j] = "failed"
                         /\ ask'[j] = "held" => ask[j] = "held"
    BY <2>1 DEF Standing, OccupantsTypeOK
  <2>3. HandlerKnown' /\ OneOpen'
    BY <2>1, <2>2 DEF TurnsKnown, HandlerKnown, OneOpen
  <2>4. FailedIsHandled'
    <3>1. Undisturbed' => Undisturbed
      BY <2>1 DEF Undisturbed
    <3> QED
      BY <2>1, <2>2, <3>1 DEF TurnsKnown, FailedIsHandled
  <2> QED
    BY <2>3, <2>4 DEF TurnsKnown
<1>4. ASSUME NEW i \in Turns, NEW r \in Runtimes, Remind(i, r)
      PROVE  TurnsKnown'
  BY <1>0, <1>4, QuietTurns DEF Remind
<1>5. ASSUME NEW r \in Runtimes, Dies(r) \/ Notice(r) \/ ComesUp(r)
      PROVE  TurnsKnown'
  <2>1. UNCHANGED <<turns, ask, at, cur, msg, failures, crashes>>
    BY <1>5 DEF Dies, Notice, ComesUp
  <2> QED
    BY <1>0, <2>1, QuietTurns
<1>6. CASE UNCHANGED vars
  BY <1>0, <1>6, QuietTurns DEF vars
<1> QED
  BY <1>1, <1>2, <1>3, <1>4, <1>5, <1>6

LEMMA TurnsKept ==
  ASSUME OccupantsTypeOK, TurnsKnown, [Next]_vars
  PROVE  TurnsKnown'
<1> QED
  BY HandlerTurns, ArmTurns, AskTurns, EndTurns, BeginTurns, WithdrawTurns, OutsideTurns
     DEF Next, Dispatch

-----------------------------------------------------------------------------
LEMMA AgentsKept ==
  ASSUME agents \in Nat, agents <= 1, [Next]_vars
  PROVE  agents' <= 1
<1>1. CASE \E r \in Runtimes : StartSucceeds(r) \/ StartFails(r)
  BY <1>1 DEF StartSucceeds, StartFails, Launch, Minted
<1>2. CASE UNCHANGED kelpie \/ UNCHANGED agents
  BY <1>2 DEF kelpie
<1>3. \/ UNCHANGED kelpie \/ UNCHANGED agents
      \/ \E r \in Runtimes : StartSucceeds(r) \/ StartFails(r)
  BY DEF Next, Dispatch, BeginAsk, BeginRecovery, AskUnbound, AskAmbiguous, AskReplayed,
         AskDelivered, AskUnavailable, AskRejected, AskUncertain, CancelGone, RetireGone, Reclaim,
         ArmStarted, ArmAsked, Refuse, OpenTurn, OpenFails, CommandFails, Crash, Enqueue, Withdraw, Finish,
         Answer, Dies, Notice, ComesUp, Remind, vars
<1> QED
  BY <1>1, <1>2, <1>3

LEMMA InitOccupantsInv == Init => OccupantsInv
<1> SUFFICES ASSUME Init PROVE OccupantsInv
  OBVIOUS
<1>1. OccupantsTypeOK
  BY ConstantTypes DEF Init, OccupantsTypeOK, Obligations
<1>2. SeatKnown /\ StartsCounted
  BY DEF Init, SeatKnown, StartsCounted
<1>3. HandlerKnown /\ OneOpen /\ FailedIsHandled
  BY DEF Init, HandlerKnown, OneOpen, FailedIsHandled, Opened
<1> QED
  BY <1>1, <1>2, <1>3 DEF Init, OccupantsInv

\* The inductive invariant of the seat: who runs behind the name, how often it
\* was started, and what the running handler and the open turn wait for.
THEOREM OccupantsInvHolds == Spec => []OccupantsInv
<1>1. OccupantsInv /\ [Next]_vars => OccupantsInv'
  <2> SUFFICES ASSUME OccupantsInv, [Next]_vars PROVE OccupantsInv'
    OBVIOUS
  <2>1. OccupantsTypeOK /\ TurnsKnown /\ agents \in Nat
    BY DEF OccupantsInv, TurnsKnown, OccupantsTypeOK
  <2>2. OccupantsTypeOK' /\ SeatKnown' /\ StartsCounted'
    BY TypesKept, SeatSteps, StartsKept DEF OccupantsInv
  <2>3. TurnsKnown' /\ agents' <= 1
    BY <2>1, TurnsKept, AgentsKept DEF OccupantsInv
  <2> QED
    BY <2>2, <2>3 DEF OccupantsInv, TurnsKnown
<1> QED
  BY <1>1, InitOccupantsInv, PTL DEF Spec

\* Restarts, failed starts and crashes never mint a second agent for the name,
\* and never leave two runtimes Ready under it.
THEOREM SeatIsSoundHolds == Spec => []SeatIsSound
<1>1. OccupantsInv => SeatIsSound
  <2> SUFFICES ASSUME OccupantsInv PROVE Cardinality(ready \cap alive) <= 1
    BY DEF OccupantsInv, SeatIsSound, OneIdentity
  <2>1. ready \cap alive \subseteq {holder}
    BY DEF OccupantsInv, SeatKnown
  <2>2. IsFiniteSet({holder}) /\ Cardinality({holder}) = 1
    BY FS_Singleton
  <2> QED
    BY <2>1, <2>2, FS_Subset
<1> QED
  BY <1>1, OccupantsInvHolds, PTL

\* The open turn waits for an obligation that stands, and no failed ask is left
\* behind by a handler that met no failure and no crash.
THEOREM ObligationsMatchTurnsHolds == Spec => []ObligationsMatchTurns
<1>1. OccupantsInv => ObligationsMatchTurns
  <2> SUFFICES ASSUME OccupantsInv PROVE ObligationsMatchTurns
    OBVIOUS
  <2>1. OpenAskStands
    <3>1. Opened \subseteq Turns /\ Nobody \notin Turns
      BY ConstantTypes DEF Opened
    <3> QED
      BY <3>1 DEF OccupantsInv, OneOpen, OpenAskStands, Standing, Pending
  <2>2. FailedAsksAreCancelled
    BY DEF OccupantsInv, FailedIsHandled, Undisturbed, FailedAsksAreCancelled
  <2> QED
    BY <2>1, <2>2 DEF ObligationsMatchTurns
<1> QED
  BY <1>1, OccupantsInvHolds, PTL

\* Reclaiming the seat ends no runtime but one whose start was given up.
THEOREM LiveSeatIsKeptHolds == Spec => LiveSeatIsKept
<1>1. OccupantsInv /\ [Next]_vars =>
        (at = "seat" => \A r \in alive \ alive' : r \in late \/ deaths' # deaths)
  BY DEF OccupantsInv, SeatKnown
<1>2. OccupantsInv /\ [Next]_vars =>
        [at = "seat" => \A r \in alive \ alive' : r \in late \/ deaths' # deaths]_vars
  BY <1>1
<1> QED
  BY <1>2, OccupantsInvHolds, PTL DEF Spec, LiveSeatIsKept

\* The bound on Runtimes never keeps the host from a start: each one before it
\* was reported as failed or has ended.
THEOREM StartsAreUnbounded ==
  Spec => [](at = "start" => started < Cardinality(Runtimes))
<1>1. OccupantsInv => (at = "start" => started < Cardinality(Runtimes))
  <2> SUFFICES ASSUME OccupantsInv, at = "start" PROVE started < Cardinality(Runtimes)
    OBVIOUS
  <2>1. alive = {} /\ failures \in 0..MaxFailures /\ deaths \in 0..MaxDeaths /\ started \in Nat
    BY ConstantTypes DEF OccupantsInv, SeatKnown, OccupantsTypeOK
  <2>2. started <= failures + deaths
    BY <2>1, ConstantTypes DEF OccupantsInv, StartsCounted
  <2>3. Cardinality(Runtimes) = 1 + MaxFailures + MaxDeaths
    <3>1. 1 \in Int /\ 1 + MaxFailures + MaxDeaths \in Int
      BY ConstantTypes
    <3>2. Cardinality(1..(1 + MaxFailures + MaxDeaths)) =
            IF 1 > 1 + MaxFailures + MaxDeaths THEN 0 ELSE (1 + MaxFailures + MaxDeaths) - 1 + 1
      BY <3>1, FS_Interval
    <3> QED
      BY <3>2, ConstantTypes DEF Runtimes
  <2> QED
    BY <2>1, <2>2, <2>3, ConstantTypes
<1> QED
  BY <1>1, OccupantsInvHolds, PTL
=============================================================================
