-------------------------------- MODULE Ingest --------------------------------
(***************************************************************************)
(* From the relay to the turns table.  A tick polls the relay from a       *)
(* persisted cursor: it fetches messages, then the edits and deletions of  *)
(* active turns, and observes each event: it is indexed, what it asks for  *)
(* is done, and it is marked processed.  A live subscription delivers some *)
(* events as well.  The process may stop between any two commits.  Turns   *)
(* are seen here only as far as an edit or a deletion tells them apart.    *)
(***************************************************************************)
EXTENDS Integers, FiniteSetsExt

CONSTANTS
  Triggers,     \* messages that trigger a bot
  Notes,        \* other messages of the channel
  Edits,        \* edits that give their trigger a new request
  Deletes,      \* deletions and edits that leave no request; an edit whose
                \* author may lose his admission is in both
  Target,       \* the trigger an edit or a deletion names
  Overlap,      \* the relay's accepted clock drift, EMPTY_REPLAY_OVERLAP_SECS
  None,
  Fanned,       \* events that may come over the subscription as well
  MaxTime,      \* bound: the last clock reading
  MaxCrashes,   \* bound: times the process stops
  MaxFailures   \* bound: handlers that end in an error

Mutations == Edits \cup Deletes
Messages == Triggers \cup Notes
Events == Messages \cup Mutations

ASSUME IngestAssumption ==
  /\ Triggers \cap Notes = {} /\ Messages \cap Mutations = {}
  /\ Target \in [Mutations -> Triggers]
  /\ None \notin Events /\ Fanned \subseteq Events
  /\ Overlap \in Nat /\ MaxTime \in Nat /\ MaxCrashes \in Nat /\ MaxFailures \in Nat

VARIABLES
  now,          \* the clock of the relay and the authors
  created,      \* created_at of the events the relay stored, -1 before
  indexed,      \* relay_events
  processed,    \* processed_events
  pending,      \* pending_ingest_events
  turn,         \* the state of the live or last turn of a trigger
  text,         \* the event whose request that turn carries
  applied,      \* edits that replaced a turn
  at,           \* the next commit or call of the task
  since,        \* the cursor this poll uses
  scope,        \* active_event_ids of this poll
  batch,        \* events fetched or notified and not observed
  cur,          \* the event being observed
  live,         \* the filters of the live subscription
  crashes, failures

tables == <<indexed, processed, pending, turn, text, applied>>
task == <<at, since, scope, batch, cur, live>>
world == <<now, created>>
bounds == <<crashes, failures>>
vars == <<tables, task, world, bounds>>

Stored == {e \in Events : created[e] >= 0}

ActiveStates == {"queued", "open", "claimed"}

\* active_turn_for_event
Active == {t \in Triggers : turn[t] \in ActiveStates}

IngestTypeOK ==
  /\ now \in 0..MaxTime /\ created \in [Events -> -1..MaxTime]
  /\ processed \subseteq Events /\ pending \subseteq Events /\ indexed \subseteq Stored
  /\ turn \in [Triggers -> ActiveStates \cup {"none", "posted", "failed", "cancelled"}]
  /\ text \in [Triggers -> Triggers \cup Edits]
  /\ applied \subseteq Edits
  /\ at \in {"down", "idle", "messages", "mutations", "observe", "handle", "mark", "cancel"}
  /\ since \in 0..MaxTime /\ scope \subseteq Triggers
  /\ batch \subseteq Stored /\ cur \in Events \cup {None}
  /\ live \in [on : BOOLEAN, failed : BOOLEAN, since : 0..MaxTime, ids : SUBSET Triggers]
  /\ crashes \in 0..MaxCrashes /\ failures \in 0..MaxFailures

-----------------------------------------------------------------------------
NotLive == [on |-> FALSE, failed |-> FALSE, since |-> 0, ids |-> {}]

Init ==
  /\ now = 0 /\ created = [e \in Events |-> -1]
  /\ indexed = {} /\ processed = {} /\ pending = {} /\ applied = {}
  /\ turn = [t \in Triggers |-> "none"] /\ text = [t \in Triggers |-> t]
  /\ at = "down" /\ since = 0 /\ scope = {} /\ batch = {} /\ cur = None /\ live = NotLive
  /\ crashes = 0 /\ failures = 0

Restart ==
  /\ at = "down" /\ at' = "idle"
  /\ UNCHANGED <<tables, world, since, scope, batch, cur, live, bounds>>

Crash ==
  /\ at # "down" /\ crashes < MaxCrashes
  /\ crashes' = crashes + 1
  /\ at' = "down" /\ since' = 0 /\ scope' = {} /\ batch' = {} /\ cur' = None /\ live' = NotLive
  /\ UNCHANGED <<tables, world, failures>>

\* A poll is short against the overlap, the time between two need not be.
Clock ==
  /\ at \in {"idle", "down"}
  /\ now < MaxTime /\ now' = now + 1
  /\ UNCHANGED <<tables, task, created, bounds>>

\* An author publishes; a message is edited or deleted once it is there.
Publish(e) ==
  /\ e \notin Stored
  /\ e \in Mutations => Target[e] \in Stored
  /\ created' = [created EXCEPT ![e] = now]
  /\ UNCHANGED <<tables, task, now, bounds>>

-----------------------------------------------------------------------------
(* --------------------------------- a poll ------------------------------- *)

\* Mutant: only open turns can be edited.
OpenOnly == {t \in Triggers : turn[t] = "open"}

\* active_event_ids
ActiveIds == {t \in Triggers : turn[t] \in ActiveStates}

NotBefore(time) == IF time > 0 THEN time ELSE 0

\* Mutant: the cursor is the newest indexed event.
SinceNewest ==
  IF pending # {} THEN Min({created[e] : e \in pending})
  ELSE IF indexed = {} THEN NotBefore(now - Overlap)
  ELSE Max({created[e] : e \in indexed})

\* replay_since: the oldest pending action, or the newest event less the drift.
ReplaySince ==
  IF pending \ processed # {} THEN Min({created[e] : e \in pending \ processed})
  ELSE IF indexed = {} THEN NotBefore(now - Overlap)
  ELSE NotBefore(Max({created[e] : e \in indexed}) - Overlap)

\* subscription_refresh_needed
RefreshNeeded == ~live.on \/ live.failed \/ live.ids # ActiveIds

\* The live filters follow the scope.  A refresh that fails leaves those it had,
\* and the poll goes on unless there never were any.
BeginPoll ==
  /\ at = "idle"
  /\ at' = "messages" /\ since' = ReplaySince /\ scope' = ActiveIds
  /\ \/ ~RefreshNeeded /\ UNCHANGED live
     \/ /\ RefreshNeeded
        /\ live' = [on |-> TRUE, failed |-> FALSE, since |-> ReplaySince, ids |-> ActiveIds]
     \/ /\ RefreshNeeded /\ live.on
        /\ live' = [live EXCEPT !.failed = TRUE]
  /\ UNCHANGED <<tables, world, batch, cur, bounds>>

\* fetch_messages and fetch_channel_messages.
FetchMessages ==
  /\ at = "messages" /\ at' = "mutations"
  /\ batch' = {e \in Stored \cap Messages : created[e] >= since}
  /\ UNCHANGED <<tables, world, since, scope, cur, live, bounds>>

\* fetch_mutations: only what targets a turn that was active at the start.
FetchMutations ==
  /\ at = "mutations" /\ at' = "observe"
  /\ batch' = batch \cup
       {e \in Stored \cap Mutations : Target[e] \in scope /\ created[e] >= since}
  /\ UNCHANGED <<tables, world, since, scope, cur, live, bounds>>

FetchFails ==
  /\ at \in {"messages", "mutations"} /\ at' = "idle" /\ batch' = {}
  /\ UNCHANGED <<tables, world, since, scope, cur, live, bounds>>

\* The relay sends an event that matches the live filters.
Notified(e) ==
  /\ at = "idle" /\ live.on
  /\ e \in Stored \cap Fanned /\ created[e] >= live.since
  /\ e \in Mutations => Target[e] \in live.ids
  /\ at' = "observe" /\ batch' = {e}
  /\ UNCHANGED <<tables, world, since, scope, cur, live, bounds>>

(* ---------------------------- observe_event ----------------------------- *)

\* An event asks for something: a trigger always, an edit or a deletion when
\* it targets a message the host has indexed whose turn is active.
AsksFor(e) ==
  e \in Triggers \/ (e \in Mutations /\ Target[e] \in indexed \cap Active)

\* Mutant: an action is pending though its event was processed.
PendingIfAction(e) == AsksFor(e)

BecomesPending(e) == AsksFor(e) /\ e \notin processed

\* ingest: the row and its pending mark are one commit.  Triggers come before
\* mutations, messages of watched authors anywhere, each part in the order the
\* relay's answer has.
Observe(e) ==
  /\ at = "observe" /\ e \in batch
  /\ e \in Mutations => batch \cap Triggers = {}
  /\ batch' = batch \ {e}
  /\ indexed' = indexed \cup {e}
  /\ pending' = IF BecomesPending(e) THEN pending \cup {e} ELSE pending
  /\ IF AsksFor(e) /\ e \notin processed
       THEN at' = "handle" /\ cur' = e
       ELSE UNCHANGED <<at, cur>>
  /\ UNCHANGED <<processed, turn, text, applied, world, since, scope, live, bounds>>

ObserveEnds ==
  /\ at = "observe" /\ batch = {} /\ at' = "idle"
  /\ UNCHANGED <<tables, world, since, scope, batch, cur, live, bounds>>

\* mark_event_processed: the action is done or declined.
MarkProcessed ==
  /\ at = "mark" /\ at' = "observe" /\ cur' = None
  /\ processed' = processed \cup {cur} /\ pending' = pending \ {cur}
  /\ UNCHANGED <<indexed, turn, text, applied, world, since, scope, batch, live, bounds>>

\* enqueue_unprocessed_turn: turn, processed mark and pending row in one commit.
EnqueueTurn ==
  /\ at = "handle" /\ cur \in Triggers
  /\ turn' = [turn EXCEPT ![cur] = "queued"]
  /\ processed' = processed \cup {cur} /\ pending' = pending \ {cur}
  /\ at' = "observe" /\ cur' = None
  /\ UNCHANGED <<indexed, text, applied, world, since, scope, batch, live, bounds>>

\* A trigger without a request, or whose author has no name, is declined.
DeclineTrigger ==
  /\ at = "handle" /\ cur \in Triggers /\ at' = "mark"
  /\ UNCHANGED <<tables, world, since, scope, batch, cur, live, bounds>>

\* handle_edit replaces the turn; an ask it had must be cancelled in Kelpie.
ApplyEdit ==
  /\ at = "handle" /\ cur \in Edits
  /\ LET t == Target[cur]
     IN IF turn[t] \in {"queued", "open"}
          THEN /\ turn' = [turn EXCEPT ![t] = "queued"]
               /\ text' = [text EXCEPT ![t] = cur]
               /\ applied' = applied \cup {cur}
               /\ at' = IF turn[t] = "open" THEN "cancel" ELSE "mark"
          ELSE at' = "mark" /\ UNCHANGED <<turn, text, applied>>
  /\ UNCHANGED <<indexed, processed, pending, world, since, scope, batch, cur, live, bounds>>

\* abandon_unclaimed
ApplyDelete ==
  /\ at = "handle" /\ cur \in Deletes
  /\ LET t == Target[cur]
     IN IF turn[t] \in {"queued", "open"}
          THEN /\ turn' = [turn EXCEPT ![t] = "cancelled"]
               /\ at' = IF turn[t] = "open" THEN "cancel" ELSE "mark"
          ELSE at' = "mark" /\ UNCHANGED turn
  /\ UNCHANGED <<indexed, processed, pending, text, applied>>
  /\ UNCHANGED <<world, since, scope, batch, cur, live, bounds>>

CancelAsk ==
  /\ at = "cancel" /\ at' = "mark"
  /\ UNCHANGED <<tables, world, since, scope, batch, cur, live, bounds>>

\* An error of Kelpie or of a commit ends the handler before its event is
\* marked; the poll goes on with the next one.
HandlerFails ==
  /\ at \in {"handle", "cancel", "mark"} /\ failures < MaxFailures
  /\ failures' = failures + 1
  /\ at' = "observe" /\ cur' = None
  /\ UNCHANGED <<tables, world, since, scope, batch, live, crashes>>

(* ------------------------------- the turns ------------------------------ *)

\* What the dispatcher and the outbox do to a turn between two events.
TurnMoves(t) ==
  /\ at \in {"idle", "observe"}
  /\ \E to \in ActiveStates \cup {"posted", "failed", "cancelled"} :
       /\ <<turn[t], to>> \in {<<"queued", "open">>, <<"queued", "failed">>, <<"queued", "cancelled">>,
            <<"open", "claimed">>, <<"claimed", "open">>, <<"open", "failed">>,
            <<"claimed", "failed">>, <<"claimed", "posted">>}
       /\ turn' = [turn EXCEPT ![t] = to]
  /\ UNCHANGED <<indexed, processed, pending, text, applied, task, world, bounds>>

-----------------------------------------------------------------------------
Poll ==
  \/ BeginPoll \/ FetchMessages \/ FetchMutations
  \/ \E e \in Events : Observe(e)
  \/ ObserveEnds \/ MarkProcessed \/ EnqueueTurn \/ DeclineTrigger
  \/ ApplyEdit \/ ApplyDelete \/ CancelAsk

Next ==
  \/ Poll \/ FetchFails \/ HandlerFails \/ Restart \/ Crash \/ Clock
  \/ \E e \in Events : Publish(e) \/ Notified(e)
  \/ \E t \in Triggers : TurnMoves(t)

Spec == Init /\ [][Next]_vars

\* The tick is due every second, the process is restarted, a handler goes on,
\* and the relay answers a fetch again and again.
FairSpec ==
  /\ Spec
  /\ WF_vars(Restart) /\ WF_vars(Poll)
  /\ SF_vars(BeginPoll) /\ SF_vars(FetchMessages) /\ SF_vars(FetchMutations)

-----------------------------------------------------------------------------
\* An event that was processed no longer holds the replay cursor back, whatever
\* was replayed, redelivered or cut short (D24).
PendingIsUnprocessed == pending \cap processed = {}

\* What holds of the indexed events in every state.
ReplayIsSound == IngestTypeOK /\ PendingIsUnprocessed

\* A message more than the overlap newer was indexed while e was not, or the
\* host first looked when e was older than the overlap.
Passed(e) ==
  e \notin indexed /\
    IF indexed = {} THEN created[e] < now - Overlap
    ELSE \E newer \in indexed : created[e] < created[newer] - Overlap

\* Every trigger the relay stored is acted on or declined, through failed
\* fetches and restarts, unless the cursor was moved past it.
TriggersProcessedUnlessPassed ==
  \A t \in Triggers : t \in Stored ~> t \in processed \/ Passed(t)

\* An edit or a deletion reaches its turn while the turn lasts.
MutationsReachTheirTurn ==
  \A e \in Mutations :
    e \in Stored /\ Target[e] \in Active ~>
      e \in processed \/ Target[e] \notin Active \/ Passed(e)

\* What was begun and not finished is done again, while its turn lasts, through
\* crashes and failed cancels (D24).
BegunIsFinished ==
  \A e \in Events :
    e \in pending ~> e \in processed \/ (e \in Mutations /\ Target[e] \notin Active)

\* Edits and deletions are applied, and what was begun is finished.
MutationsAreApplied == MutationsReachTheirTurn /\ BegunIsFinished

\* Refuted by TLC (README, "Where the code parts from its documents"):
\* "a safe inclusive relay replay cursor": a trigger that is not behind the
\* cursor, between two polls of a database in use, is acted on or declined.
TriggersProcessed ==
  \A t \in Triggers :
    /\ at \in {"idle", "down"} /\ indexed # {}
    /\ t \in Stored /\ created[t] >= ReplaySince
    ~> t \in processed

\* Refuted by TLC (README, "Where the code parts from its documents"):
\* "edits collapse to one reply that matches the latest text" (D14): a turn
\* carries the newest edit that was applied to it.
LatestEditWins ==
  \A e \in applied : created[text[Target[e]]] >= created[e]
=============================================================================
