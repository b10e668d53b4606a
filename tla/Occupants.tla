------------------------------- MODULE Occupants -------------------------------
(***************************************************************************)
(* How the host keeps one working occupant behind the name of one session. *)
(* It asks the oldest queued turn through the name; a name that does not   *)
(* answer gets its Herdr seat reclaimed, a runtime started under the       *)
(* identity Kelpie holds for it, and a renew schedule.  Every step is a    *)
(* command of Kelpie or Herdr, or a commit, that may fail or be the last   *)
(* before a crash, and runtimes end or come up late in between.            *)
(***************************************************************************)
EXTENDS Naturals, FiniteSets

CONSTANTS
  MaxTurns,     \* bound: turns the session gets
  MaxFailures,  \* bound: commands that fail or leave a doubt
  MaxDeaths,    \* bound: runtimes that end by themselves
  MaxCrashes    \* bound: times the host stops

ASSUME OccupantsAssumption ==
  MaxTurns \in Nat /\ MaxFailures \in Nat /\ MaxDeaths \in Nat /\ MaxCrashes \in Nat

Turns == 1..MaxTurns

\* Each start needs a runtime that ended, or a start that failed, before it.
Runtimes == 1..(1 + MaxFailures + MaxDeaths)

Nobody == 0

VARIABLES
  turn,         \* the state of each turn, in the order of its sequence
  askId,        \* turns.ask_id, the turn whose obligation is recorded
  ask,          \* Kelpie: the obligation under the idempotency key of a turn
  told,         \* the runtimes that know of the obligation
  unconfirmed,  \* turns opened on a receipt that proves no delivery
  alive,        \* runtimes that run
  ready,        \* Kelpie: Ready incarnations under the name
  late,         \* runtimes whose start was reported as failed
  holder,       \* Herdr: the runtime whose pane holds the name
  started,      \* runtimes started so far
  agents,       \* logical agents minted for the name
  row,          \* sessions.renew_id: the runtime it belongs to
  renew,        \* renew_id of the handler's copy of the session
  at,           \* the next command or commit of the host
  cur,          \* the turn being asked, Nobody while an open one is recovered
  seen,         \* the incarnation of the last receipt
  msg,          \* the obligation of the last receipt
  failures, deaths, crashes

turns == <<turn, askId>>
kelpie == <<ask, told, ready, agents>>
runtimes == <<alive, late, holder, started>>
handler == <<at, cur, seen, msg, renew>>
bounds == <<failures, deaths, crashes>>
vars == <<turns, kelpie, unconfirmed, runtimes, row, handler, bounds>>

Obligations == {"none", "failed", "held", "cancelled", "answered"}
Pending == {i \in Turns : ask[i] \in {"failed", "held"}}
Opened == {i \in Turns : turn[i] = "open"}
Oldest(i) == turn[i] = "queued" /\ \A j \in 1..(i - 1) : turn[j] # "queued"

OccupantsTypeOK ==
  /\ turn \in [Turns -> {"none", "queued", "open", "ended"}]
  /\ askId \in [Turns -> Turns \cup {Nobody}]
  /\ ask \in [Turns -> Obligations]
  /\ told \in [Turns -> SUBSET Runtimes] /\ unconfirmed \subseteq Turns
  /\ alive \subseteq Runtimes /\ ready \subseteq Runtimes /\ late \subseteq Runtimes
  /\ {holder, row, renew, seen} \subseteq Runtimes \cup {Nobody}
  /\ started \in Nat /\ agents \in Nat
  /\ at \in {"idle", "ask", "cancel", "retire", "seat", "start", "arm",
             "again", "refuse", "rearm", "open"}
  /\ {cur, msg} \subseteq Turns \cup {Nobody}
  /\ failures \in 0..MaxFailures /\ deaths \in 0..MaxDeaths /\ crashes \in 0..MaxCrashes

Init ==
  /\ turn = [i \in Turns |-> "none"] /\ askId = [i \in Turns |-> Nobody]
  /\ ask = [i \in Turns |-> "none"] /\ told = [i \in Turns |-> {}] /\ unconfirmed = {}
  /\ alive = {} /\ ready = {} /\ late = {} /\ holder = Nobody /\ started = 0 /\ agents = 0
  /\ row = Nobody /\ renew = Nobody
  /\ at = "idle" /\ cur = Nobody /\ seen = Nobody /\ msg = Nobody
  /\ failures = 0 /\ deaths = 0 /\ crashes = 0

Go(step) == at' = step /\ UNCHANGED <<cur, seen, msg, renew>>

\* The handler ends; its copy of the session goes with it.
GiveUp == at' = "idle" /\ cur' = Nobody /\ msg' = Nobody /\ renew' = Nobody
Stop == GiveUp /\ seen' = Nobody

\* A command that fails, or a receipt that is lost.
Fails == failures < MaxFailures /\ failures' = failures + 1 /\ UNCHANGED <<deaths, crashes>>

-----------------------------------------------------------------------------
(* ------------------------------- the turns ------------------------------ *)

Enqueue(i) ==
  /\ turn[i] = "none" /\ \A j \in 1..(i - 1) : turn[j] # "none"
  /\ turn' = [turn EXCEPT ![i] = "queued"]
  /\ UNCHANGED <<askId, kelpie, unconfirmed, runtimes, row, handler, bounds>>

\* An edit or a deletion ends a turn and cancels the ask recorded for it.
Withdraw(i) ==
  /\ at = "idle" /\ turn[i] \in {"queued", "open"}
  /\ turn' = [turn EXCEPT ![i] = "ended"]
  /\ \/ /\ turn[i] = "queued" /\ UNCHANGED <<ask, bounds>>
     \/ /\ turn[i] = "open" /\ ask' = [ask EXCEPT ![askId[i]] = "cancelled"]
        /\ UNCHANGED bounds
     \/ turn[i] = "open" /\ Fails /\ UNCHANGED ask
  /\ UNCHANGED <<askId, told, ready, agents, unconfirmed, runtimes, row, handler>>

\* The final of the ask is posted, or the turn fails with it.
Finish(i) ==
  /\ at = "idle" /\ turn[i] = "open" /\ ask[askId[i]] = "answered"
  /\ turn' = [turn EXCEPT ![i] = "ended"]
  /\ UNCHANGED <<askId, kelpie, unconfirmed, runtimes, row, handler, bounds>>

-----------------------------------------------------------------------------
(* ------------------------- Kelpie and the runtimes ---------------------- *)

Answer(i) ==
  /\ ask[i] = "held" /\ told[i] \cap alive # {}
  /\ ask' = [ask EXCEPT ![i] = "answered"]
  /\ UNCHANGED <<turns, told, ready, agents, unconfirmed, runtimes, row, handler, bounds>>

\* Kelpie reminds a runtime of what its agent owes, late and not surely.
Remind(i, r) ==
  /\ ask[i] = "held" /\ r \in (ready \cap alive) \ told[i]
  /\ told' = [told EXCEPT ![i] = @ \cup {r}]
  /\ UNCHANGED <<turns, ask, ready, agents, unconfirmed, runtimes, row, handler, bounds>>

Dies(r) ==
  /\ r \in alive /\ deaths < MaxDeaths
  /\ deaths' = deaths + 1 /\ alive' = alive \ {r}
  /\ UNCHANGED <<turns, kelpie, unconfirmed, late, holder, started, row, handler>>
  /\ UNCHANGED <<failures, crashes>>

Notice(r) ==
  /\ r \in ready \ alive /\ ready' = ready \ {r}
  /\ UNCHANGED <<turns, ask, told, agents, unconfirmed, runtimes, row, handler, bounds>>

\* A start that was given up comes up after all.
ComesUp(r) ==
  /\ r \in (late \cap alive) \ ready /\ ready' = ready \cup {r}
  /\ UNCHANGED <<turns, ask, told, agents, unconfirmed, runtimes, row, handler, bounds>>

Crash ==
  /\ at # "idle" /\ crashes < MaxCrashes
  /\ crashes' = crashes + 1
  /\ Stop
  /\ UNCHANGED <<turns, kelpie, unconfirmed, runtimes, row, failures, deaths>>

-----------------------------------------------------------------------------
(* ----------------------------- the dispatcher --------------------------- *)

\* ask_oldest_queued, while the session has no open turn.
BeginAsk(i) ==
  /\ at = "idle" /\ Opened = {} /\ Oldest(i)
  /\ at' = "ask" /\ cur' = i /\ renew' = row
  /\ UNCHANGED <<turns, kelpie, unconfirmed, runtimes, row, seen, msg, bounds>>

\* Mutant: any refusal of whoami starts the occupant anew.
BeginRecoveryAlways ==
  /\ at = "idle" /\ Opened # {}
  /\ at' = "seat" /\ cur' = Nobody /\ renew' = row
  /\ UNCHANGED <<turns, kelpie, unconfirmed, runtimes, row, seen, msg, bounds>>

\* recover_open_session: only a name nobody answers to lost its occupant.
BeginRecovery ==
  /\ at = "idle" /\ Opened # {} /\ ready = {}
  /\ at' = "seat" /\ cur' = Nobody /\ renew' = row
  /\ UNCHANGED <<turns, kelpie, unconfirmed, runtimes, row, seen, msg, bounds>>

(* ask_named: whoami, then ask under the stable key of the turn.  A key whose  *)
(* prompt was delivered is replayed; any other outcome lets it be tried again. *)
Asking == at \in {"ask", "again"} /\ \E r \in ready : ready = {r} /\ seen' = r

Accepted == IF renew = Nobody THEN "rearm" ELSE "open"

AskUnbound ==
  /\ at \in {"ask", "again"} /\ ready = {}
  /\ IF at = "ask" THEN Go("seat") ELSE Stop
  /\ UNCHANGED <<turns, kelpie, unconfirmed, runtimes, row, bounds>>

\* Two incarnations are Ready, as long as Kelpie has not noticed: an error.
AskAmbiguous ==
  /\ at \in {"ask", "again"} /\ Cardinality(ready) > 1 /\ Stop
  /\ UNCHANGED <<turns, kelpie, unconfirmed, runtimes, row, bounds>>

AskReplayed ==
  /\ Asking /\ ask[cur] \in {"held", "answered"}
  /\ at' = Accepted /\ msg' = cur
  /\ unconfirmed' = IF told[cur] \cap alive = {} THEN unconfirmed \cup {cur} ELSE unconfirmed
  /\ UNCHANGED <<turns, kelpie, runtimes, row, cur, renew, bounds>>

AskDelivered ==
  /\ Asking /\ ask[cur] \notin {"held", "answered"} /\ seen' \in alive
  /\ at' = Accepted /\ msg' = cur
  /\ ask' = [ask EXCEPT ![cur] = "held"]
  /\ told' = [told EXCEPT ![cur] = @ \cup {seen'}]
  /\ UNCHANGED <<turns, ready, agents, unconfirmed, runtimes, row, cur, renew, bounds>>

\* An ask that is not delivered as it should be.  A command that succeeds prints
\* the message; of one that failed with a class it is not known whether the
\* obligation was recorded, and pending_ask_id takes the only one the agent owes
\* the host, whose turn it may not be, or finds none to take or several.
Receipt(outcome) ==
  /\ \/ ask' = [ask EXCEPT ![cur] = outcome] /\ msg' = cur
     \/ /\ ask' \in {ask, [ask EXCEPT ![cur] = outcome]}
        /\ \E m \in Turns : Pending' = {m} /\ msg' = m
  /\ UNCHANGED <<cur, renew>>

NoReceipt(outcome) ==
  /\ ask' \in {ask, [ask EXCEPT ![cur] = outcome]}
  /\ \A m \in Turns : Pending' # {m}
  /\ GiveUp

\* The recipient is gone: the receipt names the incarnation to retire.
AskUnavailable ==
  /\ Asking /\ ask[cur] \notin {"held", "answered"} /\ seen' \notin alive
  /\ \/ Receipt("failed") /\ at' = IF at = "ask" THEN "cancel" ELSE "refuse"
     \/ NoReceipt("failed")
  /\ UNCHANGED <<turns, told, ready, agents, unconfirmed, runtimes, row, bounds>>

AskRejected ==
  /\ Asking /\ ask[cur] \notin {"held", "answered"} /\ Fails
  /\ \/ Receipt("failed") /\ at' = "refuse"
     \/ NoReceipt("failed")
  /\ UNCHANGED <<turns, told, ready, agents, unconfirmed, runtimes, row>>

\* Mutant: an uncertain ask is its turn's without a look at what is pending.
AskUncertainTrusted ==
  /\ Asking /\ ask[cur] \notin {"held", "answered"} /\ Fails
  /\ ask' \in {ask, [ask EXCEPT ![cur] = "held"]}
  /\ msg' = cur /\ at' = Accepted /\ unconfirmed' = unconfirmed \cup {cur}
  /\ UNCHANGED <<turns, told, ready, agents, runtimes, row, cur, renew>>

\* An uncertain outcome: the obligation found is taken for the turn's.
AskUncertain ==
  /\ Asking /\ ask[cur] \notin {"held", "answered"} /\ Fails
  /\ \/ Receipt("held") /\ at' = Accepted /\ unconfirmed' = unconfirmed \cup {cur}
     \/ NoReceipt("held") /\ UNCHANGED unconfirmed
  /\ \E known \in SUBSET {seen'} :
       told' = IF ask'[cur] = "held" THEN [told EXCEPT ![cur] = @ \cup known] ELSE told
  /\ UNCHANGED <<turns, ready, agents, runtimes, row>>

(* ask_queued_with_recovery: the obligation of the failed ask is cancelled,   *)
(* the incarnation of its receipt retired, the occupant restarted.            *)
CancelGone ==
  /\ at = "cancel" /\ Go("retire")
  /\ ask' = [ask EXCEPT ![msg] = "cancelled"]
  /\ UNCHANGED <<turns, told, ready, agents, unconfirmed, runtimes, row, bounds>>

RetireGone ==
  /\ at = "retire" /\ Go("seat")
  /\ ready' = ready \ {seen}
  /\ UNCHANGED <<turns, ask, told, agents, unconfirmed, runtimes, row, bounds>>

\* Mutant: the pane that holds the name is left alone.
ReclaimNothing == at = "seat" /\ Go("start")
                  /\ UNCHANGED <<turns, kelpie, unconfirmed, runtimes, row, bounds>>

\* claimed and release: the pane that holds the name is closed.
Reclaim ==
  /\ at = "seat" /\ Go("start")
  /\ alive' = alive \ {holder} /\ holder' = Nobody
  /\ UNCHANGED <<turns, kelpie, unconfirmed, late, started, row, bounds>>

\* The bootstrap of a recovery names the open ask.
Bootstrap(r) ==
  [i \in Turns |-> IF cur = Nobody /\ i \in {askId[j] : j \in Opened} THEN told[i] \cup {r}
                   ELSE told[i]]

\* Mutant: the start carries no identity to continue.
MintAlways == agents + 1

\* resolve_name: only a name nothing ever held mints an identity.
Minted == IF agents = 0 THEN 1 ELSE agents

\* resolve_name, allocate and start on a name Herdr does not hold twice.
Launch(r) ==
  /\ at = "start" /\ holder = Nobody /\ started < Cardinality(Runtimes) /\ r = started + 1
  /\ started' = r /\ holder' = r /\ alive' = alive \cup {r}
  /\ agents' = Minted /\ told' = Bootstrap(r)
  /\ UNCHANGED <<turns, ask, unconfirmed>>

\* fresh_start saves the session as it was.
StartSucceeds(r) ==
  /\ Launch(r)
  /\ ready' = ready \cup {r} /\ row' = renew
  /\ at' = "arm" /\ seen' = r
  /\ UNCHANGED <<late, cur, msg, renew, bounds>>

\* Kelpie gives up waiting; the pane is kept.
StartFails(r) ==
  /\ Launch(r) /\ Fails
  /\ late' = late \cup {r}
  /\ Stop
  /\ UNCHANGED <<ready, row>>

\* try_arm_renew saves the session only with a schedule to save.
Arm(next) ==
  \/ /\ renew' = seen /\ row' = seen /\ UNCHANGED bounds
     /\ at' = next /\ UNCHANGED <<cur, seen, msg>>
  \/ /\ Fails /\ renew' = Nobody /\ UNCHANGED row
     /\ at' = next /\ UNCHANGED <<cur, seen, msg>>

\* restart_occupant: the new runtime does not inherit the schedule.
ArmStarted ==
  /\ at = "arm" /\ Arm(IF cur = Nobody THEN "idle" ELSE "again")
  /\ UNCHANGED <<turns, kelpie, unconfirmed, runtimes>>

\* ask_oldest_queued: a live occupant whose schedule was lost.
ArmAsked ==
  /\ at = "rearm" /\ Arm("open")
  /\ UNCHANGED <<turns, kelpie, unconfirmed, runtimes>>

\* A delivery refused in the end: the receipt's ask is cancelled, the turn stays
\* queued.
Refuse ==
  /\ at = "refuse" /\ Stop
  /\ ask' = [ask EXCEPT ![msg] = "cancelled"]
  /\ UNCHANGED <<turns, told, ready, agents, unconfirmed, runtimes, row, bounds>>

\* turns.ask_id is unique, and a turn that ended keeps it.
Recorded(m) == \E j \in Turns : askId[j] = m

\* open_next_turn, then save_session.
OpenTurn ==
  /\ at = "open" /\ ~Recorded(msg) /\ Stop
  /\ turn' = [turn EXCEPT ![cur] = "open"] /\ askId' = [askId EXCEPT ![cur] = msg]
  /\ row' = renew
  /\ UNCHANGED <<kelpie, unconfirmed, runtimes, bounds>>

\* The update fails, and the turn stays queued.
OpenFails ==
  /\ at = "open" /\ Recorded(msg) /\ Stop
  /\ UNCHANGED <<turns, kelpie, unconfirmed, runtimes, row, bounds>>

\* Any command fails and ends the handler with its error.
CommandFails ==
  /\ at \in {"ask", "again", "cancel", "retire", "seat", "start", "refuse"} /\ Fails
  /\ Stop
  /\ UNCHANGED <<turns, kelpie, unconfirmed, runtimes, row>>

Dispatch ==
  \/ \E i \in Turns : BeginAsk(i)
  \/ BeginRecovery \/ AskUnbound \/ AskAmbiguous \/ AskReplayed \/ AskDelivered \/ AskUnavailable
  \/ CancelGone \/ RetireGone \/ Reclaim
  \/ \E r \in Runtimes : StartSucceeds(r)
  \/ ArmStarted \/ ArmAsked \/ Refuse \/ OpenTurn \/ OpenFails

Next ==
  \/ Dispatch \/ AskRejected \/ AskUncertain \/ CommandFails \/ Crash
  \/ \E i \in Turns : Enqueue(i) \/ Withdraw(i) \/ Finish(i) \/ Answer(i)
  \/ \E r \in Runtimes : StartFails(r) \/ Dies(r) \/ Notice(r) \/ ComesUp(r)
  \/ \E i \in Turns, r \in Runtimes : Remind(i, r)

Spec == Init /\ [][Next]_vars

\* The tick goes on, and Kelpie finds out about the runtimes that ended.
FairSpec ==
  Spec /\ WF_vars(Dispatch) /\ \A r \in Runtimes : WF_vars(Notice(r))

-----------------------------------------------------------------------------
\* The name is the identity (D62): restarts, failed starts and crashes never
\* mint a second agent for it, and never leave two runtimes Ready under it,
\* which whoami could not tell apart.
OneIdentity == agents <= 1 /\ Cardinality(ready \cap alive) <= 1

\* What holds of the seat in every state.
SeatIsSound == OccupantsTypeOK /\ OneIdentity

\* Reclaiming a seat ends no working occupant (D74): a runtime the host closes
\* was reported to it as not started.
LiveSeatIsKept ==
  [][at = "seat" => \A r \in alive \ alive' : r \in late \/ deaths' # deaths]_vars

\* The obligation an open turn waits for stands in Kelpie, and no other turn was
\* ever opened with it: neither recovering, nor cancelling the only ask there is
\* for one that was refused, ends an ask that is waited for, and one answer ends
\* one turn.
OpenAskStands ==
  \A i \in Opened :
    /\ askId[i] \in Pending \/ ask[askId[i]] = "answered"
    /\ \A j \in Turns \ {i} : askId[j] # askId[i]

\* A turn that waits to be asked is owed nothing twice: the failed asks of a
\* queued turn were cancelled when its handler ended, short of a failure.
FailedAsksAreCancelled ==
  at = "idle" /\ failures = 0 /\ crashes = 0 => \A i \in Turns : ask[i] # "failed"

\* What Kelpie holds for the session is what its turns wait for.
ObligationsMatchTurns == OpenAskStands /\ FailedAsksAreCancelled

\* A queued turn is asked, withdrawn or waits for an open one, whatever
\* died, failed or came up late before.
QueueDrains ==
  \A i \in Turns : turn[i] = "queued" ~> turn[i] # "queued" \/ Opened # {}

\* An open turn comes to a live runtime that knows of its ask (D74), unless the
\* delivery itself was never confirmed.
OpenTurnIsKnown ==
  \A i \in Turns :
    turn[i] = "open" ~>
      \/ turn[i] # "open" \/ ask[askId[i]] = "answered" \/ i \in unconfirmed
      \/ told[askId[i]] \cap ready \cap alive # {}

\* A turn moves on, from the queue to an occupant that knows of it.
TurnsMoveOn == QueueDrains /\ OpenTurnIsKnown

\* Refuted by TLC (README, "Where the code parts from its documents"):
\* "a new runtime never inherits the old one's renew schedule."
RenewIsItsOwn ==
  at = "idle" => \A r \in ready \ late : row \in {Nobody, r}

\* Refuted by TLC (README, "Where the code parts from its documents"):
\* "to reconcile the attempt": an open turn is recorded with its own ask.
AskIsItsOwn == \A i \in Opened : askId[i] = i
=============================================================================
