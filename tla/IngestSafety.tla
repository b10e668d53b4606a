------------------------------ MODULE IngestSafety -----------------------------
(***************************************************************************)
(* The safety of ingest, for any events, any overlap, and any number of    *)
(* crashes and failed handlers: what is pending was not processed, and no  *)
(* poll passes by an event whose action was begun and not finished.        *)
(***************************************************************************)
EXTENDS Ingest, WellFoundedInduction, TLAPS

\* A handler that is under way has an event.
HandledKnown == at \in {"handle", "cancel", "mark"} => cur \in Events

\* An action that is pending is of an event that was indexed.
PendingIsIndexed == pending \subseteq indexed

\* A poll under way reaches back to all that is pending and looks at the turns
\* that are active: nothing else happens to either until its events are there.
PollKnown ==
  /\ at \in {"messages", "mutations"} =>
       scope = Active /\ \A e \in pending : since <= created[e]
  /\ at = "mutations" => pending \cap Messages \subseteq batch

IngestInv ==
  /\ IngestTypeOK /\ HandledKnown /\ PendingIsUnprocessed /\ PendingIsIndexed /\ PollKnown

-----------------------------------------------------------------------------
(* ------------------------------- the cursor ----------------------------- *)

LEMMA LeastTime ==
  ASSUME NEW T, T \subseteq Nat, T # {}
  PROVE  Min(T) \in T /\ \A y \in T : Min(T) <= y
<1> DEFINE R == {ss \in Nat \X Nat : ss[1] < ss[2]}
<1>1. IsWellFoundedOn(R, Nat)
  BY NatLessThanWellFounded DEF OpToRel
<1> HIDE DEF R
<1>2. PICK x \in T : \A y \in T : <<y, x>> \notin R
  BY <1>1, WFMin
<1>3. ASSUME NEW y \in T PROVE x <= y
  <2>1. ~(y < x)
    BY <1>2 DEF R
  <2> QED
    BY <2>1
<1> QED
  BY <1>3 DEF Min

LEMMA LatestTime ==
  ASSUME NEW T, NEW n \in Nat, T \subseteq 0..n, T # {}
  PROVE  Max(T) \in T
<1> DEFINE below == {n - t : t \in T}
<1>1. below \subseteq Nat /\ below # {}
  OBVIOUS
<1>2. Min(below) \in below /\ \A y \in below : Min(below) <= y
  BY <1>1, LeastTime
<1>3. PICK t \in T : Min(below) = n - t
  BY <1>2
<1>4. ASSUME NEW u \in T PROVE t >= u
  <2>1. n - t <= n - u
    BY <1>2, <1>3
  <2>2. t \in 0..n /\ u \in 0..n
    OBVIOUS
  <2> QED
    BY <2>1, <2>2
<1> QED
  BY <1>4 DEF Max

\* The cursor of a poll is a time, and not after an event that is pending.
LEMMA CursorWaits ==
  ASSUME IngestTypeOK, PendingIsUnprocessed, PendingIsIndexed
  PROVE  ReplaySince \in 0..MaxTime /\ \A e \in pending : ReplaySince <= created[e]
<1>1. MaxTime \in Nat /\ Overlap \in Nat /\ now \in 0..MaxTime
  BY IngestAssumption DEF IngestAssumption, IngestTypeOK
<1>2. \A e \in indexed : created[e] \in 0..MaxTime
  BY <1>1 DEF IngestTypeOK, Stored
<1>3. pending \ processed = pending
  BY DEF PendingIsUnprocessed
<1>4. CASE pending # {}
  <2> DEFINE T == {created[e] : e \in pending}
  <2>1. T \subseteq 0..MaxTime /\ T # {}
    BY <1>2, <1>4 DEF PendingIsIndexed
  <2>2. Min(T) \in T /\ \A y \in T : Min(T) <= y
    <3>1. T \subseteq Nat
      BY <1>1, <2>1
    <3> HIDE DEF T
    <3> QED
      BY <2>1, <3>1, LeastTime
  <2>3. ReplaySince = Min(T)
    BY <1>3, <1>4 DEF ReplaySince
  <2> QED
    BY <2>1, <2>2, <2>3
<1>5. CASE pending = {} /\ indexed = {}
  BY <1>1, <1>3, <1>5 DEF ReplaySince, NotBefore
<1>6. CASE pending = {} /\ indexed # {}
  <2> DEFINE T == {created[e] : e \in indexed}
  <2>1. T \subseteq 0..MaxTime /\ T # {}
    BY <1>2, <1>6
  <2>2. Max(T) \in 0..MaxTime
    BY <1>1, <2>1, LatestTime
  <2>3. ReplaySince = NotBefore(Max(T) - Overlap)
    BY <1>3, <1>6 DEF ReplaySince
  <2> HIDE DEF T
  <2>4. NotBefore(Max(T) - Overlap) \in 0..MaxTime
    BY <1>1, <2>2 DEF NotBefore
  <2> QED
    BY <1>6, <2>3, <2>4
<1> QED
  BY <1>4, <1>5, <1>6

-----------------------------------------------------------------------------
(* ---------------------------------- types ------------------------------- *)

LEMMA Bounds ==
  /\ MaxTime \in Nat /\ MaxCrashes \in Nat /\ MaxFailures \in Nat
  /\ Target \in [Mutations -> Triggers] /\ None \notin Events
  /\ Triggers \subseteq Events /\ Mutations \subseteq Events
  /\ \A e \in Events : e \in Triggers \/ e \in Mutations \/ e \in Notes
  BY IngestAssumption DEF IngestAssumption, Events, Messages, Mutations

\* Steps of a poll and of a handler.
LEMMA PollTypes ==
  ASSUME IngestInv, Poll \/ FetchFails \/ HandlerFails
  PROVE  IngestTypeOK' /\ HandledKnown'
<1> USE DEF IngestInv, IngestTypeOK, HandledKnown, tables, world, bounds
<1>1. CASE BeginPoll
  <2>1. ReplaySince \in 0..MaxTime
    BY CursorWaits
  <2>2. ActiveIds \subseteq Triggers
    BY DEF ActiveIds
  <2>3. live' \in [on : BOOLEAN, failed : BOOLEAN, since : 0..MaxTime, ids : SUBSET Triggers]
    <3>1. CASE UNCHANGED live
      BY <3>1
    <3>2. CASE live' = [on |-> TRUE, failed |-> FALSE, since |-> ReplaySince, ids |-> ActiveIds]
      BY <2>1, <2>2, <3>2
    <3>3. CASE live' = [live EXCEPT !.failed = TRUE]
      BY <3>3
    <3> QED
      BY <1>1, <3>1, <3>2, <3>3 DEF BeginPoll
  <2>4. /\ at' = "messages" /\ since' = ReplaySince /\ scope' = ActiveIds
        /\ UNCHANGED <<tables, world, batch, cur, bounds>>
    BY <1>1 DEF BeginPoll
  <2>5. Stored' = Stored
    BY <2>4 DEF Stored
  <2> QED
    BY <2>1, <2>2, <2>3, <2>4, <2>5
<1>2. CASE FetchMessages \/ FetchMutations \/ FetchFails \/ ObserveEnds
  <2>1. /\ batch' \subseteq Stored /\ at' \in {"mutations", "observe", "idle"}
        /\ UNCHANGED <<tables, world, since, scope, cur, live, bounds>>
    BY <1>2 DEF FetchMessages, FetchMutations, FetchFails, ObserveEnds
  <2>2. Stored' = Stored
    BY <2>1 DEF Stored
  <2> QED
    BY <2>1, <2>2
<1>3. ASSUME NEW e \in Events, Observe(e) PROVE IngestTypeOK' /\ HandledKnown'
  <2>1. /\ e \in Stored /\ batch' \subseteq Stored /\ indexed' \subseteq Stored
        /\ pending' \subseteq Events /\ at = "observe"
        /\ UNCHANGED <<processed, turn, text, applied, world, since, scope, live, bounds>>
    BY <1>3 DEF Observe
  <2>2. at' \in {"observe", "handle"} /\ cur' \in Events \cup {None} /\ (at' = "handle" => cur' \in Events)
    BY <1>3, <2>1 DEF Observe
  <2>3. Stored' = Stored
    BY <2>1 DEF Stored
  <2> QED
    BY <2>1, <2>2, <2>3
<1>4. CASE MarkProcessed \/ EnqueueTurn
  <2>1. /\ processed' \subseteq Events /\ pending' \subseteq Events /\ at' = "observe" /\ cur' = None
        /\ UNCHANGED <<indexed, text, applied, world, since, scope, batch, live, bounds>>
    BY <1>4 DEF MarkProcessed, EnqueueTurn
  <2>2. turn' \in [Triggers -> ActiveStates \cup {"none", "posted", "failed", "cancelled"}]
    BY <1>4 DEF MarkProcessed, EnqueueTurn, ActiveStates
  <2>3. Stored' = Stored
    BY <2>1 DEF Stored
  <2> QED
    BY <2>1, <2>2, <2>3
<1>5. CASE DeclineTrigger \/ CancelAsk
  BY <1>5 DEF DeclineTrigger, CancelAsk, Stored
<1>6. CASE ApplyEdit \/ ApplyDelete
  <2>1. /\ cur \in Edits \cup Deletes /\ at' \in {"cancel", "mark"}
        /\ UNCHANGED <<indexed, processed, pending, world, since, scope, batch, cur, live, bounds>>
    BY <1>6 DEF ApplyEdit, ApplyDelete
  <2>2. Target[cur] \in Triggers /\ cur \in Events
    BY <2>1, Bounds DEF Mutations
  <2>3. turn' \in [Triggers -> ActiveStates \cup {"none", "posted", "failed", "cancelled"}]
    BY <1>6, <2>2 DEF ApplyEdit, ApplyDelete, ActiveStates
  <2>4. text' \in [Triggers -> Triggers \cup Edits] /\ applied' \subseteq Edits
    BY <1>6, <2>2 DEF ApplyEdit, ApplyDelete
  <2>5. Stored' = Stored
    BY <2>1 DEF Stored
  <2> QED
    BY <2>1, <2>2, <2>3, <2>4, <2>5
<1>7. CASE HandlerFails
  BY <1>7, Bounds DEF HandlerFails, Stored
<1> QED
  BY <1>1, <1>2, <1>3, <1>4, <1>5, <1>6, <1>7 DEF Poll

\* Steps of the relay, of the other tasks, and of the process.
LEMMA WorldTypes ==
  ASSUME IngestInv,
         \/ Restart \/ Crash \/ Clock
         \/ \E e \in Events : Publish(e) \/ Notified(e)
         \/ \E t \in Triggers : TurnMoves(t)
  PROVE  IngestTypeOK' /\ HandledKnown'
<1> USE DEF IngestInv, IngestTypeOK, HandledKnown, tables, world, task, bounds
<1>1. CASE Restart
  BY <1>1 DEF Restart, Stored
<1>2. CASE Crash
  BY <1>2, Bounds DEF Crash, NotLive, Stored
<1>3. CASE Clock
  BY <1>3, Bounds DEF Clock, Stored
<1>4. ASSUME NEW e \in Events, Publish(e) PROVE IngestTypeOK' /\ HandledKnown'
  <2>1. created' = [created EXCEPT ![e] = now] /\ UNCHANGED <<tables, task, now, bounds>>
    BY <1>4 DEF Publish
  <2>2. created' \in [Events -> -1..MaxTime] /\ Stored \subseteq Stored'
    BY <2>1, Bounds DEF Stored
  <2> QED
    BY <2>1, <2>2
<1>5. ASSUME NEW e \in Events, Notified(e) PROVE IngestTypeOK' /\ HandledKnown'
  BY <1>5 DEF Notified, Stored
<1>6. ASSUME NEW t \in Triggers, TurnMoves(t) PROVE IngestTypeOK' /\ HandledKnown'
  <2>1. turn' \in [Triggers -> ActiveStates \cup {"none", "posted", "failed", "cancelled"}]
    BY <1>6 DEF TurnMoves
  <2> QED
    BY <1>6, <2>1 DEF TurnMoves, Stored
<1> QED
  BY <1>1, <1>2, <1>3, <1>4, <1>5, <1>6

-----------------------------------------------------------------------------
(* ------------------------------ what is pending ------------------------- *)

LEMMA PendingKept ==
  ASSUME IngestInv, [Next]_vars
  PROVE  PendingIsUnprocessed' /\ PendingIsIndexed'
<1> USE DEF IngestInv, PendingIsUnprocessed, PendingIsIndexed
<1>1. CASE UNCHANGED <<pending, processed, indexed>>
  BY <1>1
<1>2. ASSUME NEW e \in Events, Observe(e) PROVE PendingIsUnprocessed' /\ PendingIsIndexed'
  BY <1>2 DEF Observe, BecomesPending
<1>3. CASE MarkProcessed \/ EnqueueTurn
  BY <1>3 DEF MarkProcessed, EnqueueTurn
<1>4. CASE UNCHANGED vars
  BY <1>1, <1>4 DEF vars, tables
<1>5. CASE Next
  BY <1>1, <1>2, <1>3, <1>5
     DEF Next, Poll, BeginPoll, FetchMessages, FetchMutations, ObserveEnds, DeclineTrigger, ApplyEdit,
         ApplyDelete, CancelAsk, FetchFails, HandlerFails, Restart, Crash, Clock, Publish, Notified,
         TurnMoves, tables
<1> QED
  BY <1>4, <1>5

LEMMA PollKept ==
  ASSUME IngestInv, [Next]_vars
  PROVE  PollKnown'
<1> SUFFICES ASSUME at' \in {"messages", "mutations"} PROVE PollKnown'
  BY DEF PollKnown
<1>1. CASE BeginPoll
  <2>1. /\ at' = "messages" /\ since' = ReplaySince /\ scope' = ActiveIds
        /\ UNCHANGED <<pending, turn, created>>
    BY <1>1 DEF BeginPoll, tables, world
  <2>2. \A e \in pending : ReplaySince <= created[e]
    BY CursorWaits DEF IngestInv
  <2> QED
    BY <2>1, <2>2 DEF PollKnown, Active, ActiveIds
<1>2. CASE FetchMessages
  <2>1. /\ at = "messages" /\ at' = "mutations"
        /\ batch' = {e \in Stored \cap Messages : created[e] >= since}
        /\ UNCHANGED <<pending, turn, created, since, scope>>
    BY <1>2 DEF FetchMessages, tables, world
  <2>2. pending \subseteq Stored /\ \A e \in pending : since <= created[e]
    BY <2>1 DEF IngestInv, PollKnown, PendingIsIndexed, IngestTypeOK
  <2>3. \A e \in Stored : created[e] \in Int
    BY DEF Stored, IngestInv, IngestTypeOK
  <2>4. since \in Int
    BY DEF IngestInv, IngestTypeOK
  <2>5. pending \cap Messages \subseteq batch'
    BY <2>1, <2>2, <2>3, <2>4
  <2> QED
    BY <2>1, <2>5 DEF IngestInv, PollKnown, Active
<1>3. ASSUME NEW e \in Events, Publish(e) PROVE PollKnown'
  <2>1. /\ e \notin Stored /\ created' = [created EXCEPT ![e] = now]
        /\ UNCHANGED <<pending, turn, at, since, scope, batch>>
    BY <1>3 DEF Publish, tables, task
  <2>2. \A f \in pending : created'[f] = created[f]
    BY <2>1 DEF IngestInv, PendingIsIndexed, IngestTypeOK
  <2> QED
    BY <2>1, <2>2 DEF IngestInv, PollKnown, Active
<1>4. CASE UNCHANGED vars
  BY <1>4 DEF vars, tables, task, world, IngestInv, PollKnown, Active
<1>5. CASE Next
  BY <1>1, <1>2, <1>3, <1>5
     DEF Next, Poll, FetchMutations, Observe, ObserveEnds, MarkProcessed, EnqueueTurn, DeclineTrigger,
         ApplyEdit, ApplyDelete, CancelAsk, FetchFails, HandlerFails, Restart, Crash, Clock, Notified,
         TurnMoves, task
<1> QED
  BY <1>4, <1>5

-----------------------------------------------------------------------------
(* --------------------------------- theorems ----------------------------- *)

\* The invariant of ingest holds of every state, through crashes, failed
\* handlers and fetches, and events that come twice.
THEOREM IngestInvHolds == Spec => []IngestInv
<1>1. Init => IngestInv
  <2> SUFFICES ASSUME Init PROVE IngestInv
    OBVIOUS
  <2>1. HandledKnown /\ PendingIsUnprocessed /\ PendingIsIndexed /\ PollKnown
    BY DEF Init, HandledKnown, PendingIsUnprocessed, PendingIsIndexed, PollKnown
  <2>2. IngestTypeOK
    BY Bounds DEF Init, IngestTypeOK, NotLive, ActiveStates
  <2> QED
    BY <2>1, <2>2 DEF IngestInv
<1>2. IngestInv /\ [Next]_vars => IngestInv'
  <2> SUFFICES ASSUME IngestInv, [Next]_vars PROVE IngestInv'
    OBVIOUS
  <2>1. IngestTypeOK' /\ HandledKnown'
    <3>1. CASE UNCHANGED vars
      BY <3>1
         DEF vars, tables, task, world, bounds, IngestInv, IngestTypeOK, HandledKnown, Stored
    <3>2. CASE Next
      BY <3>2, PollTypes, WorldTypes DEF Next
    <3> QED
      BY <3>1, <3>2
  <2> QED
    BY <2>1, PendingKept, PollKept DEF IngestInv
<1> QED
  BY <1>1, <1>2, PTL DEF Spec

\* An event that was processed holds the replay cursor back no longer, and an
\* event is never both done and to be done again.
THEOREM ReplayIsSoundHolds == Spec => []ReplayIsSound
<1>1. IngestInv => ReplayIsSound
  BY DEF IngestInv, ReplayIsSound
<1> QED
  BY <1>1, IngestInvHolds, PTL

\* A poll that has made its fetches has every event whose action was begun and
\* not finished, but for edits and deletions of a turn that is over: neither
\* the cursor nor the scope of the poll leaves one out.
PendingIsFetched ==
  [][at = "mutations" /\ at' = "observe" =>
       \A e \in pending : e \in batch' \/ (e \in Mutations /\ Target[e] \notin Active)]_vars

\* What was begun is before the host again at every poll, until it is done.
THEOREM PendingIsFetchedHolds == Spec => PendingIsFetched
<1>1. ASSUME IngestInv, [Next]_vars, at = "mutations", at' = "observe", NEW e \in pending
      PROVE  e \in batch' \/ (e \in Mutations /\ Target[e] \notin Active)
  <2>1. FetchMutations
    BY <1>1
       DEF Next, Poll, BeginPoll, FetchMessages, Observe, ObserveEnds, MarkProcessed, EnqueueTurn,
           DeclineTrigger, ApplyEdit, ApplyDelete, CancelAsk, FetchFails, HandlerFails, Restart, Crash,
           Clock, Publish, Notified, TurnMoves, task, vars
  <2>2. /\ scope = Active /\ since <= created[e] /\ pending \cap Messages \subseteq batch
        /\ e \in Stored
    BY <1>1 DEF IngestInv, PollKnown, PendingIsIndexed, IngestTypeOK
  <2>3. created[e] \in Int /\ since \in Int /\ e \in Events
    BY <1>1, <2>2 DEF IngestInv, IngestTypeOK, Stored
  <2>4. e \in Messages \/ e \in Mutations
    BY <2>3 DEF Events
  <2> QED
    BY <1>1, <2>1, <2>2, <2>3, <2>4 DEF FetchMutations
<1>2. IngestInv /\ [Next]_vars =>
        [at = "mutations" /\ at' = "observe" =>
           \A e \in pending : e \in batch' \/ (e \in Mutations /\ Target[e] \notin Active)]_vars
  BY <1>1
<1> QED
  BY <1>2, IngestInvHolds, PTL DEF Spec, PendingIsFetched
=============================================================================
