------------------------------- MODULE Watches --------------------------------
(***************************************************************************)
(* Author watches of one session.  A trigger declares a watch or cancels   *)
(* the older ones; a matching message records a fire, and a fire queues a  *)
(* wake turn.  The command, its turn, the fire and the wake are commits of *)
(* their own, the process may stop between them, and the relay replays     *)
(* every event of its overlap once a second.                               *)
(***************************************************************************)
EXTENDS Integers, FiniteSetsExt

CONSTANTS
  Declarations,  \* triggers that declare a watch; a watch has their id
  Cancels,       \* triggers that cancel the watches on the author
  Sources,       \* messages of other people
  Matches,       \* the sources of a watch: its authors, channel and kind
  Limit,         \* max_fires of a watch, 0 for none
  Lifetime,      \* seconds until it expires, 0 for never
  Cooldown,      \* cooldown_secs
  None,
  MaxTime,       \* bound: the last clock reading
  MaxCrashes,    \* bound: times the process stops
  MaxFailures    \* bound: commits that fail

Commands == Declarations \cup Cancels
Events == Commands \cup Sources

ASSUME WatchAssumption ==
  /\ Declarations \cap Cancels = {} /\ Commands \cap Sources = {} /\ None \notin Events
  /\ Matches \in [Declarations -> SUBSET Sources]
  /\ Limit \in [Declarations -> Nat] /\ Lifetime \in [Declarations -> Nat]
  /\ \A w \in Declarations : Limit[w] + Lifetime[w] > 0
  /\ Cooldown \in Nat \ {0} /\ IsFiniteSet(Events)
  /\ MaxTime \in Nat /\ MaxCrashes \in Nat /\ MaxFailures \in Nat

VARIABLES
  now,
  rank,        \* (created_at, event_id) order of the relay's events, 0 before
  processed,   \* processed_events
  watch,       \* watches
  fired,       \* watch_fires: fired_at, -1 before
  wakes,       \* wake turns inserted for a fire
  at,          \* the next commit of observe_event
  cur,         \* the event observed
  todo,        \* fires recorded whose wake is not queued
  crashes, failures

tables == <<processed, watch, fired, wakes>>
bounds == <<crashes, failures>>
vars == <<now, rank, tables, at, cur, todo, bounds>>

Stored == {e \in Events : rank[e] > 0}

WatchTypeOK ==
  /\ now \in 0..MaxTime /\ rank \in [Events -> 0..Cardinality(Events)]
  /\ processed \subseteq Commands
  /\ watch \in [Declarations ->
       [state : {"none", "active", "cancelled", "completed"}, expires : Int,
        count : Nat, last : -1..now]]
  /\ fired \in [Declarations -> [Sources -> -1..MaxTime]]
  /\ wakes \in [Declarations -> [Sources -> Nat]]
  /\ at \in {"down", "idle", "command", "enqueue", "record", "wake"}
  /\ cur \in Stored \cup {None} /\ todo \subseteq Declarations
  /\ crashes \in 0..MaxCrashes /\ failures \in 0..MaxFailures

-----------------------------------------------------------------------------
Init ==
  /\ now = 0 /\ rank = [e \in Events |-> 0] /\ processed = {}
  /\ watch = [w \in Declarations |-> [state |-> "none", expires |-> -1, count |-> 0, last |-> -1]]
  /\ fired = [w \in Declarations |-> [s \in Sources |-> -1]]
  /\ wakes = [w \in Declarations |-> [s \in Sources |-> 0]]
  /\ at = "down" /\ cur = None /\ todo = {}
  /\ crashes = 0 /\ failures = 0

Publish(e) ==
  /\ e \notin Stored
  /\ rank' = [rank EXCEPT ![e] = Cardinality(Stored) + 1]
  /\ UNCHANGED <<now, tables, at, cur, todo, bounds>>

Clock ==
  /\ at \in {"idle", "down"} /\ now < MaxTime /\ now' = now + 1
  /\ UNCHANGED <<rank, tables, at, cur, todo, bounds>>

Restart ==
  /\ at = "down" /\ at' = "idle"
  /\ UNCHANGED <<now, rank, tables, cur, todo, bounds>>

Crash ==
  /\ at # "down" /\ crashes < MaxCrashes
  /\ crashes' = crashes + 1 /\ at' = "down" /\ cur' = None /\ todo' = {}
  /\ UNCHANGED <<now, rank, tables, failures>>

-----------------------------------------------------------------------------
Unexpired(w) == watch[w].expires = -1 \/ watch[w].expires > now

Cooled(w) == watch[w].last = -1 \/ watch[w].last + Cooldown <= now

\* What record_matching_watch_fires selects, but for the cooldown.
Eligible(w, s) ==
  /\ watch[w].state = "active" /\ s \in Matches[w] /\ rank[w] < rank[s] /\ Unexpired(w)
  /\ Limit[w] > 0 => watch[w].count < Limit[w]

\* observe_event, for an event new or replayed.
Observe(e) ==
  /\ at = "idle" /\ e \in Stored
  /\ cur' = e
  /\ at' = IF e \in Commands \ processed THEN "command" ELSE "record"
  /\ UNCHANGED <<now, rank, tables, todo, bounds>>

\* save_watch: a watch declared once stays as it was declared.
SaveWatch ==
  IF watch[cur].state # "none" THEN watch
  ELSE [watch EXCEPT ![cur] =
         [state |-> "active", count |-> 0, last |-> -1,
          expires |-> IF Lifetime[cur] = 0 THEN -1 ELSE now + Lifetime[cur]]]

\* Mutant: a cancellation closes every watch.
CloseAllWatches ==
  [w \in Declarations |->
     IF watch[w].state = "active" THEN [watch[w] EXCEPT !.state = "cancelled"] ELSE watch[w]]

\* cancel_watches: the active watches that are older.
CancelWatches ==
  [w \in Declarations |->
     IF watch[w].state = "active" /\ rank[w] < rank[cur]
       THEN [watch[w] EXCEPT !.state = "cancelled"] ELSE watch[w]]

\* apply_watch_command
ApplyCommand ==
  /\ at = "command" /\ at' = "enqueue"
  /\ watch' = IF cur \in Declarations THEN SaveWatch ELSE CancelWatches
  /\ UNCHANGED <<now, rank, processed, fired, wakes, cur, todo, bounds>>

\* enqueue_unprocessed_turn, of the command's own turn.
EnqueueTurn ==
  /\ at = "enqueue" /\ at' = "record"
  /\ processed' = processed \cup {cur}
  /\ UNCHANGED <<now, rank, watch, fired, wakes, cur, todo, bounds>>

\* A failed commit ends the handler; the event's fires are recorded all the same.
CommandFails ==
  /\ at \in {"command", "enqueue"} /\ failures < MaxFailures
  /\ failures' = failures + 1 /\ at' = "record"
  /\ UNCHANGED <<now, rank, tables, cur, todo, crashes>>

Firing ==
  {w \in Declarations :
     cur \in Sources /\ Eligible(w, cur) /\ Cooled(w) /\ fired[w][cur] = -1}

\* Mutant: the limit is compared with the count before this fire.
FiredPastLimit(w) ==
  LET row == watch[w]
  IN [row EXCEPT !.count = @ + 1, !.last = now,
        !.state = IF Limit[w] > 0 /\ row.count >= Limit[w] THEN "completed" ELSE @]

Fired(w) ==
  LET count == watch[w].count + 1
      full == Limit[w] > 0 /\ count >= Limit[w]
  IN [state |-> IF full THEN "completed" ELSE watch[w].state,
      expires |-> watch[w].expires, count |-> count, last |-> now]

\* record_matching_watch_fires: rows, counts and completion in one commit.
RecordFires ==
  /\ at = "record"
  /\ fired' = [w \in Declarations |->
       IF w \in Firing THEN [fired[w] EXCEPT ![cur] = now] ELSE fired[w]]
  /\ watch' = [w \in Declarations |-> IF w \in Firing THEN Fired(w) ELSE watch[w]]
  /\ todo' = Firing
  /\ IF Firing = {} THEN at' = "idle" /\ cur' = None ELSE at' = "wake" /\ UNCHANGED cur
  /\ UNCHANGED <<now, rank, processed, wakes, bounds>>

\* Mutant: one wake for an event, however many watches fired.
WakesDone(w) == w \in todo /\ todo' = {} /\ at' = "idle" /\ cur' = None

WakeDone(w) ==
  /\ todo' = todo \ {w}
  /\ IF todo' = {} THEN at' = "idle" /\ cur' = None ELSE UNCHANGED <<at, cur>>

\* handle_watch_fire: enqueue_turn.
QueueWake(w) ==
  /\ at = "wake" /\ w \in todo
  /\ wakes' = [wakes EXCEPT ![w][cur] = @ + 1]
  /\ WakeDone(w)
  /\ UNCHANGED <<now, rank, processed, watch, fired, bounds>>

\* The failed commit is logged, and the next fire is handled.
QueueWakeFails(w) ==
  /\ at = "wake" /\ w \in todo /\ failures < MaxFailures
  /\ failures' = failures + 1
  /\ WakeDone(w)
  /\ UNCHANGED <<now, rank, tables, crashes>>

-----------------------------------------------------------------------------
Handler ==
  \/ ApplyCommand \/ EnqueueTurn \/ RecordFires
  \/ \E w \in Declarations : QueueWake(w)

Next ==
  \/ Handler \/ CommandFails \/ Restart \/ Crash \/ Clock
  \/ \E e \in Events : Publish(e) \/ Observe(e)
  \/ \E w \in Declarations : QueueWakeFails(w)

Spec == Init /\ [][Next]_vars

-----------------------------------------------------------------------------
SourcesOf(w) == {s \in Sources : fired[w][s] >= 0}

\* The count of a watch is the size of its ledger, stays within its limit, and
\* completes the watch when it reaches it, across replays and crashes.
LedgerAgrees ==
  \A w \in Declarations :
    /\ watch[w].count = Cardinality(SourcesOf(w))
    /\ Limit[w] > 0 =>
         /\ watch[w].count <= Limit[w]
         /\ watch[w].state = "completed" <=> watch[w].count = Limit[w]

\* What holds of the watches and their ledger in every state.
LedgerIsSound == WatchTypeOK /\ LedgerAgrees

\* "Replay cannot double-wake" (D46): one wake for a fire, and none without.
OneWakePerFire ==
  \A w \in Declarations, s \in Sources :
    wakes[w][s] <= IF fired[w][s] >= 0 THEN 1 ELSE 0

\* A fire has its wake, or is about to have it, or was cut off from it by a
\* crash or a failed commit: nothing else loses a wake.
FiresWakeUnlessCut ==
  \A w \in Declarations, s \in Sources :
    fired[w][s] >= 0 /\ wakes[w][s] = 0 => (w \in todo /\ cur = s) \/ crashes + failures > 0

\* A burst does not wake twice within a cooldown.
FiresAreApart ==
  \A w \in Declarations : \A s1, s2 \in SourcesOf(w) :
    s1 # s2 => fired[w][s1] + Cooldown <= fired[w][s2] \/ fired[w][s2] + Cooldown <= fired[w][s1]

\* Fires and wakes: each fire has its wake and each wake its fire, apart.
WakesFollowFires == OneWakePerFire /\ FiresWakeUnlessCut /\ FiresAreApart

\* "A replayed cancellation cannot close a watch declared after it" (D46).
CancelledByNewer ==
  \A w \in Declarations :
    watch[w].state = "cancelled" => \E c \in Cancels \cap Stored : rank[w] < rank[c]

\* A declaration that is processed, and so never looked at again, has its watch,
\* whichever of its two commits failed before.
ProcessedIsDeclared ==
  \A w \in Declarations \cap processed : watch[w].state # "none"

\* A declaration stands until a newer cancellation, and once it is settled.
DeclarationsStand == CancelledByNewer /\ ProcessedIsDeclared
=============================================================================
