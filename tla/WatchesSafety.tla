----------------------------- MODULE WatchesSafety -----------------------------
(***************************************************************************)
(* The safety of watches, for every set of watches, cancellations and      *)
(* messages, every limit, lifetime and cooldown, and any number of crashes *)
(* and failed commits: the count of a watch is its ledger, a fire wakes    *)
(* once, and a declaration stands until something newer closes it.         *)
(***************************************************************************)
EXTENDS Watches, FiniteSetTheorems, TLAPS

\* Where observe_event is: the event it holds, and the fires it has still to
\* wake for.
HandlerKnown ==
  /\ at \in {"command", "enqueue"} => cur \in Commands
  /\ at \in {"record", "wake"} => cur # None
  /\ at = "wake" <=> todo # {}
  /\ at = "wake" => cur \in Sources
  /\ at = "enqueue" /\ cur \in Declarations => watch[cur].state # "none"

\* A fire recorded by the handler that runs has no wake yet.
FiresToWake ==
  \A w \in todo : fired[w][cur] >= 0 /\ wakes[w][cur] = 0

\* A watch is declared by an event of the relay, and nothing fires before.
Declared ==
  \A w \in Declarations :
    /\ watch[w].state # "none" => w \in Stored
    /\ watch[w].state = "none" => SourcesOf(w) = {}

\* The last fire of a watch is the newest of its ledger.
LastIsNewest ==
  \A w \in Declarations : \A s \in SourcesOf(w) : fired[w][s] <= watch[w].last

LedgerInv ==
  /\ WatchTypeOK /\ HandlerKnown /\ FiresToWake /\ Declared /\ LastIsNewest
  /\ LedgerAgrees /\ WakesFollowFires /\ DeclarationsStand

-----------------------------------------------------------------------------
LEMMA EventsApart ==
  /\ Declarations \cap Cancels = {} /\ Commands \cap Sources = {}
  /\ None \notin Events /\ IsFiniteSet(Events)
  /\ Declarations \subseteq Events /\ Cancels \subseteq Events /\ Sources \subseteq Events
  BY WatchAssumption DEF WatchAssumption, Commands, Events

LEMMA ConstantTypes ==
  /\ Limit \in [Declarations -> Nat] /\ Lifetime \in [Declarations -> Nat]
  /\ Cooldown \in Nat \ {0} /\ MaxTime \in Nat /\ MaxCrashes \in Nat /\ MaxFailures \in Nat
  BY WatchAssumption DEF WatchAssumption

\* An event not stored yet has a rank left for it.
LEMMA RankLeft ==
  ASSUME NEW e \in Events, e \notin Stored
  PROVE  Cardinality(Stored) + 1 \in 1..Cardinality(Events)
<1>1. IsFiniteSet(Stored) /\ Stored \subseteq Events
  BY EventsApart, FS_Subset DEF Stored
<1>2. IsFiniteSet(Stored \cup {e}) /\ Cardinality(Stored \cup {e}) = Cardinality(Stored) + 1
  BY <1>1, FS_AddElement
<1>3. Cardinality(Stored \cup {e}) <= Cardinality(Events)
  BY <1>1, EventsApart, FS_Subset
<1> QED
  BY <1>1, <1>2, <1>3, EventsApart, FS_CardinalityType

\* Which steps touch the watches, the ledger and the wakes.
LEMMA QuietSteps ==
  ASSUME [Next]_vars, ~ApplyCommand, ~RecordFires
  PROVE  UNCHANGED <<watch, fired>>
<1>1. CASE EnqueueTurn
  BY <1>1 DEF EnqueueTurn
<1>2. CASE \E w \in Declarations : QueueWake(w) \/ QueueWakeFails(w)
  BY <1>2 DEF QueueWake, QueueWakeFails, tables
<1>3. CASE CommandFails \/ Restart \/ Crash \/ Clock
  BY <1>3 DEF CommandFails, Restart, Crash, Clock, tables
<1>4. CASE \E e \in Events : Publish(e) \/ Observe(e)
  BY <1>4 DEF Publish, Observe, tables
<1>5. CASE UNCHANGED vars
  BY <1>5 DEF vars, tables
<1> QED
  BY <1>1, <1>2, <1>3, <1>4, <1>5 DEF Next, Handler

\* The relay forgets nothing, and an event keeps its place in the order.
LEMMA RelayGrows ==
  ASSUME WatchTypeOK, [Next]_vars
  PROVE  \A e \in Stored : e \in Stored' /\ rank'[e] = rank[e]
<1>1. CASE \E e \in Events : Publish(e)
  BY <1>1 DEF Publish, Stored, WatchTypeOK
<1>2. CASE UNCHANGED rank
  BY <1>2 DEF Stored
<1>3. UNCHANGED rank \/ \E e \in Events : Publish(e)
  BY DEF Next, Handler, ApplyCommand, EnqueueTurn, RecordFires, QueueWake, QueueWakeFails,
         CommandFails, Restart, Crash, Clock, Observe, vars
<1> QED
  BY <1>1, <1>2, <1>3

-----------------------------------------------------------------------------
(* ----------------------- the type of every step ------------------------ *)

LEMMA CommandTypes ==
  ASSUME WatchTypeOK, HandlerKnown, ApplyCommand
  PROVE  watch' \in [Declarations ->
           [state : {"none", "active", "cancelled", "completed"}, expires : Int,
            count : Nat, last : -1..now]]
<1>1. now \in Int /\ -1 \in -1..now
  BY ConstantTypes DEF WatchTypeOK
<1>2. CASE cur \in Declarations
  BY <1>1, <1>2, ConstantTypes DEF ApplyCommand, SaveWatch, WatchTypeOK
<1>3. CASE cur \notin Declarations
  BY <1>1, <1>3 DEF ApplyCommand, CancelWatches, WatchTypeOK
<1> QED
  BY <1>2, <1>3

LEMMA FireTypes ==
  ASSUME WatchTypeOK, RecordFires
  PROVE  /\ watch' \in [Declarations ->
              [state : {"none", "active", "cancelled", "completed"}, expires : Int,
               count : Nat, last : -1..now]]
         /\ fired' \in [Declarations -> [Sources -> -1..MaxTime]]
         /\ todo' \subseteq Declarations
<1>1. now \in -1..now /\ now \in -1..MaxTime
  BY ConstantTypes DEF WatchTypeOK
<1>2. Firing \subseteq Declarations
  BY DEF Firing
<1>3. \A w \in Declarations :
        Fired(w) \in [state : {"none", "active", "cancelled", "completed"}, expires : Int,
                      count : Nat, last : -1..now]
  <2> TAKE w \in Declarations
  <2>1. watch[w] \in [state : {"none", "active", "cancelled", "completed"}, expires : Int,
                      count : Nat, last : -1..now]
    BY DEF WatchTypeOK
  <2> QED
    BY <1>1, <2>1 DEF Fired
<1> QED
  BY <1>1, <1>2, <1>3 DEF RecordFires, WatchTypeOK

LEMMA TypesKept ==
  ASSUME WatchTypeOK, HandlerKnown, [Next]_vars
  PROVE  WatchTypeOK'
<1> USE DEF WatchTypeOK
<1>1. CASE ApplyCommand
  BY <1>1, CommandTypes DEF ApplyCommand, Stored, bounds
<1>2. CASE EnqueueTurn
  BY <1>2 DEF EnqueueTurn, HandlerKnown, Stored, bounds
<1>3. CASE RecordFires
  BY <1>3, FireTypes DEF RecordFires, Stored, bounds
<1>4. ASSUME NEW w \in Declarations, QueueWake(w)
      PROVE  WatchTypeOK'
  <2>1. wakes' \in [Declarations -> [Sources -> Nat]]
    BY <1>4 DEF QueueWake, HandlerKnown
  <2> QED
    BY <1>4, <2>1 DEF QueueWake, WakeDone, Stored, bounds
<1>5. ASSUME NEW w \in Declarations, QueueWakeFails(w)
      PROVE  WatchTypeOK'
  BY <1>5, ConstantTypes DEF QueueWakeFails, WakeDone, Stored, tables
<1>6. CASE CommandFails \/ Restart \/ Crash
  BY <1>6, ConstantTypes DEF CommandFails, Restart, Crash, Stored, tables, bounds
<1>7. CASE Clock
  BY <1>7, ConstantTypes DEF Clock, Stored, tables, bounds
<1>8. ASSUME NEW e \in Events, Publish(e)
      PROVE  WatchTypeOK'
  <2>1. rank' \in [Events -> 0..Cardinality(Events)]
    BY <1>8, RankLeft DEF Publish
  <2>2. Stored \subseteq Stored'
    BY <1>8, RelayGrows DEF Next
  <2> QED
    BY <1>8, <2>1, <2>2 DEF Publish, tables, bounds
<1>9. ASSUME NEW e \in Events, Observe(e)
      PROVE  WatchTypeOK'
  BY <1>9 DEF Observe, Stored, tables, bounds
<1>10. CASE UNCHANGED vars
  BY <1>10 DEF vars, tables, bounds, Stored
<1> QED
  BY <1>1, <1>2, <1>3, <1>4, <1>5, <1>6, <1>7, <1>8, <1>9, <1>10 DEF Next, Handler

-----------------------------------------------------------------------------
(* -------------------- the handler and its wakes ------------------------ *)

\* What a save or a cancellation does to a watch.
LEMMA CommandEffect ==
  ASSUME WatchTypeOK, HandlerKnown, ApplyCommand, NEW w \in Declarations
  PROVE  \/ watch'[w] = watch[w]
         \/ /\ w = cur /\ watch[w].state = "none" /\ watch'[w].state = "active"
            /\ watch'[w].count = 0 /\ watch'[w].last = -1
         \/ /\ cur \in Cancels /\ rank[w] < rank[cur]
            /\ watch[w].state = "active" /\ watch'[w].state = "cancelled"
            /\ watch'[w].count = watch[w].count /\ watch'[w].last = watch[w].last
<1>1. CASE cur \in Declarations
  BY <1>1 DEF ApplyCommand, SaveWatch, WatchTypeOK
<1>2. CASE cur \notin Declarations
  BY <1>2 DEF ApplyCommand, CancelWatches, WatchTypeOK, HandlerKnown, Commands
<1> QED
  BY <1>1, <1>2

\* A command leaves a row for each declaration it handled, and unmakes none.
LEMMA RowsStay ==
  ASSUME WatchTypeOK, HandlerKnown, [Next]_vars, NEW w \in Declarations, watch[w].state # "none"
  PROVE  watch'[w].state # "none"
<1>1. CASE ApplyCommand
  BY <1>1, CommandEffect
<1>2. CASE RecordFires
  BY <1>2 DEF RecordFires, Fired, WatchTypeOK
<1>3. CASE ~ApplyCommand /\ ~RecordFires
  BY <1>3, QuietSteps
<1> QED
  BY <1>1, <1>2, <1>3

LEMMA HandlerKept ==
  ASSUME WatchTypeOK, HandlerKnown, [Next]_vars
  PROVE  HandlerKnown'
<1>1. CASE ApplyCommand
  <2>1. cur \in Declarations => watch'[cur].state # "none"
    BY <1>1 DEF ApplyCommand, SaveWatch, WatchTypeOK
  <2> QED
    BY <1>1, <2>1 DEF ApplyCommand, HandlerKnown
<1>2. CASE EnqueueTurn \/ CommandFails
  BY <1>2, EventsApart DEF EnqueueTurn, CommandFails, HandlerKnown, Commands, Events
<1>3. CASE RecordFires
  BY <1>3 DEF RecordFires, HandlerKnown, Firing
<1>4. CASE \E w \in Declarations : QueueWake(w) \/ QueueWakeFails(w)
  BY <1>4 DEF QueueWake, QueueWakeFails, WakeDone, HandlerKnown
<1>5. CASE Restart \/ Crash \/ Clock
  BY <1>5 DEF Restart, Crash, Clock, HandlerKnown, tables
<1>6. CASE \E e \in Events : Publish(e)
  BY <1>6 DEF Publish, HandlerKnown, tables
<1>7. CASE \E e \in Events : Observe(e)
  BY <1>7, EventsApart DEF Observe, HandlerKnown
<1>8. CASE UNCHANGED vars
  BY <1>8 DEF vars, tables, HandlerKnown
<1> QED
  BY <1>1, <1>2, <1>3, <1>4, <1>5, <1>6, <1>7, <1>8 DEF Next, Handler

\* What recording does to the ledger: the message is new to each watch it fires.
LEMMA FireEffect ==
  ASSUME WatchTypeOK, RecordFires, NEW w \in Declarations
  PROVE  /\ w \notin Firing =>
              watch'[w] = watch[w] /\ fired'[w] = fired[w] /\ SourcesOf(w)' = SourcesOf(w)
         /\ w \in Firing =>
              /\ cur \in Sources /\ fired[w][cur] = -1 /\ watch[w].state = "active"
              /\ watch'[w] = Fired(w) /\ fired'[w] = [fired[w] EXCEPT ![cur] = now]
              /\ SourcesOf(w)' = SourcesOf(w) \cup {cur} /\ cur \notin SourcesOf(w)
<1>1. w \notin Firing =>
        watch'[w] = watch[w] /\ fired'[w] = fired[w] /\ SourcesOf(w)' = SourcesOf(w)
  BY DEF RecordFires, SourcesOf
<1>2. ASSUME w \in Firing
      PROVE  /\ cur \in Sources /\ fired[w][cur] = -1 /\ watch[w].state = "active"
             /\ watch'[w] = Fired(w) /\ fired'[w] = [fired[w] EXCEPT ![cur] = now]
  BY <1>2 DEF RecordFires, Firing, Eligible
<1>3. ASSUME w \in Firing
      PROVE  SourcesOf(w)' = SourcesOf(w) \cup {cur} /\ cur \notin SourcesOf(w)
  <2>1. now >= 0 /\ fired[w] \in [Sources -> -1..MaxTime]
    BY ConstantTypes DEF WatchTypeOK
  <2> QED
    BY <1>2, <1>3, <2>1 DEF SourcesOf
<1> QED
  BY <1>1, <1>2, <1>3

LEMMA FiredState ==
  ASSUME WatchTypeOK, RecordFires, NEW w \in Declarations, w \in Firing
  PROVE  watch[w].state # "none" /\ watch'[w].state \in {"active", "completed"}
<1>1. watch[w].state = "active" /\ watch'[w] = Fired(w)
  BY FireEffect
<1>2. Fired(w).state \in {watch[w].state, "completed"}
  BY DEF Fired
<1> QED
  BY <1>1, <1>2

LEMMA WakesKept ==
  ASSUME WatchTypeOK, HandlerKnown, FiresToWake, OneWakePerFire, FiresWakeUnlessCut, [Next]_vars
  PROVE  FiresToWake' /\ OneWakePerFire' /\ FiresWakeUnlessCut'
<1>1. CASE RecordFires
  <2>1. UNCHANGED <<wakes, crashes, failures>> /\ todo' = Firing /\ todo = {}
    BY <1>1 DEF RecordFires, HandlerKnown, bounds
  <2>2. \A w \in Declarations, s \in Sources :
          \/ fired'[w][s] = fired[w][s] /\ ~(w \in Firing /\ s = cur)
          \/ w \in Firing /\ s = cur /\ fired'[w][s] = now /\ now >= 0 /\ fired[w][s] = -1
    <3> TAKE w \in Declarations, s \in Sources
    <3>1. CASE w \notin Firing
      BY <1>1, <3>1, FireEffect
    <3>2. CASE w \in Firing
      <4>1. /\ cur \in Sources /\ fired[w][cur] = -1
            /\ fired'[w] = [fired[w] EXCEPT ![cur] = now]
        BY <1>1, <3>2, FireEffect
      <4>2. fired[w] \in [Sources -> -1..MaxTime] /\ now >= 0
        BY ConstantTypes DEF WatchTypeOK
      <4> QED
        BY <3>2, <4>1, <4>2
    <3> QED
      BY <3>1, <3>2
  <2>3. Firing # {} => cur' = cur /\ cur \in Sources
    BY <1>1 DEF RecordFires, Firing
  <2>4. \A w \in Firing : wakes[w][cur] = 0
    <3> TAKE w \in Firing
    <3>1. w \in Declarations /\ cur \in Sources /\ fired[w][cur] = -1
      BY DEF Firing
    <3>2. wakes[w][cur] \in Nat /\ wakes[w][cur] <= 0
      BY <3>1 DEF OneWakePerFire, WatchTypeOK
    <3> QED
      BY <3>2
  <2>5. FiresToWake'
    BY <2>1, <2>2, <2>3, <2>4 DEF FiresToWake, Firing
  <2>6. OneWakePerFire'
    BY <2>1, <2>2 DEF OneWakePerFire, WatchTypeOK
  <2>7. FiresWakeUnlessCut'
    BY <2>1, <2>2, <2>3 DEF FiresWakeUnlessCut
  <2> QED
    BY <2>5, <2>6, <2>7
<1>2. ASSUME NEW w \in Declarations, QueueWake(w)
      PROVE  FiresToWake' /\ OneWakePerFire' /\ FiresWakeUnlessCut'
  <2>1. /\ w \in todo /\ cur \in Sources /\ fired[w][cur] >= 0 /\ wakes[w][cur] = 0
        /\ UNCHANGED <<fired, crashes, failures>> /\ todo' = todo \ {w}
        /\ todo' # {} => cur' = cur
    BY <1>2 DEF QueueWake, WakeDone, HandlerKnown, FiresToWake, bounds
  <2>2. \A v \in Declarations, s \in Sources :
          wakes'[v][s] = IF v = w /\ s = cur THEN 1 ELSE wakes[v][s]
    BY <1>2, <2>1 DEF QueueWake, WatchTypeOK
  <2>3. FiresToWake'
    BY <2>1, <2>2 DEF FiresToWake, WatchTypeOK
  <2>4. OneWakePerFire'
    BY <2>1, <2>2 DEF OneWakePerFire
  <2>5. FiresWakeUnlessCut'
    BY <2>1, <2>2 DEF FiresWakeUnlessCut
  <2> QED
    BY <2>3, <2>4, <2>5
<1>3. ASSUME NEW w \in Declarations, QueueWakeFails(w)
      PROVE  FiresToWake' /\ OneWakePerFire' /\ FiresWakeUnlessCut'
  <2>1. /\ UNCHANGED <<fired, wakes>> /\ crashes' + failures' > 0
        /\ todo' = todo \ {w}
        /\ todo' # {} => cur' = cur
    BY <1>3, ConstantTypes DEF QueueWakeFails, WakeDone, tables, WatchTypeOK
  <2> QED
    BY <2>1 DEF FiresToWake, OneWakePerFire, FiresWakeUnlessCut
<1>4. CASE CommandFails \/ Crash
  <2>1. UNCHANGED <<fired, wakes>> /\ crashes' + failures' > 0 /\ todo' = {}
    BY <1>4, ConstantTypes DEF CommandFails, Crash, HandlerKnown, tables, WatchTypeOK
  <2>2. FiresToWake' /\ OneWakePerFire'
    BY <2>1 DEF FiresToWake, OneWakePerFire
  <2>3. FiresWakeUnlessCut'
    BY <2>1 DEF FiresWakeUnlessCut
  <2> QED
    BY <2>2, <2>3
<1>5. CASE ApplyCommand \/ EnqueueTurn
  <2>1. UNCHANGED <<fired, wakes, cur, todo, crashes, failures>>
    BY <1>5 DEF ApplyCommand, EnqueueTurn, bounds
  <2> QED
    BY <2>1 DEF FiresToWake, OneWakePerFire, FiresWakeUnlessCut
<1>6. CASE Restart \/ Clock \/ UNCHANGED vars \/ \E e \in Events : Publish(e)
  <2>1. UNCHANGED <<fired, wakes, cur, todo, crashes, failures>>
    BY <1>6 DEF Restart, Clock, vars, Publish, tables, bounds
  <2> QED
    BY <2>1 DEF FiresToWake, OneWakePerFire, FiresWakeUnlessCut
<1>7. CASE \E e \in Events : Observe(e)
  <2>1. UNCHANGED <<fired, wakes, todo, crashes, failures>> /\ todo = {}
    BY <1>7 DEF Observe, tables, bounds, HandlerKnown
  <2> QED
    BY <2>1 DEF FiresToWake, OneWakePerFire, FiresWakeUnlessCut
<1> QED
  BY <1>1, <1>2, <1>3, <1>4, <1>5, <1>6, <1>7 DEF Next, Handler

-----------------------------------------------------------------------------
(* ------------------------------ the ledger ----------------------------- *)

LEMMA SourcesCount ==
  ASSUME NEW w \in Declarations
  PROVE  /\ IsFiniteSet(SourcesOf(w)) /\ Cardinality(SourcesOf(w)) \in Nat
         /\ SourcesOf(w) = {} => Cardinality(SourcesOf(w)) = 0
         /\ \A s : s \notin SourcesOf(w) =>
              Cardinality(SourcesOf(w) \cup {s}) = Cardinality(SourcesOf(w)) + 1
<1>1. SourcesOf(w) \subseteq Events
  BY EventsApart DEF SourcesOf
<1> QED
  BY <1>1, EventsApart, FS_Subset, FS_CardinalityType, FS_EmptySet, FS_AddElement

\* What a watch's row and ledger must agree on, for one watch.
Agrees(w) ==
  /\ watch[w].count = Cardinality(SourcesOf(w))
  /\ Limit[w] > 0 =>
       /\ watch[w].count <= Limit[w]
       /\ watch[w].state = "completed" <=> watch[w].count = Limit[w]

LEMMA FireAgrees ==
  ASSUME WatchTypeOK, RecordFires, NEW w \in Firing, Agrees(w)
  PROVE  Agrees(w)'
<1>1. /\ w \in Declarations /\ watch[w].state = "active" /\ watch'[w] = Fired(w)
      /\ SourcesOf(w)' = SourcesOf(w) \cup {cur} /\ cur \notin SourcesOf(w)
  BY FireEffect DEF Firing
<1>2. /\ Limit[w] \in Nat /\ watch[w].count \in Nat
      /\ Limit[w] > 0 => watch[w].count < Limit[w]
  <2>1. Limit[w] \in Nat /\ watch[w].count \in Nat
    BY ConstantTypes, <1>1 DEF WatchTypeOK
  <2>2. Limit[w] > 0 => watch[w].count <= Limit[w] /\ watch[w].count # Limit[w]
    BY <1>1 DEF Agrees
  <2> QED
    BY <2>1, <2>2
<1>3. Cardinality(SourcesOf(w)') = watch[w].count + 1
  BY <1>1, SourcesCount DEF Agrees
<1>4. /\ watch'[w].count = watch[w].count + 1
      /\ watch'[w].state = IF Limit[w] > 0 /\ watch[w].count + 1 >= Limit[w]
                             THEN "completed" ELSE "active"
  BY <1>1 DEF Fired
<1> QED
  BY <1>2, <1>3, <1>4 DEF Agrees

LEMMA CommandAgrees ==
  ASSUME WatchTypeOK, HandlerKnown, Declared, ApplyCommand, NEW w \in Declarations, Agrees(w)
  PROVE  Agrees(w)'
<1>1. SourcesOf(w)' = SourcesOf(w)
  BY DEF ApplyCommand, SourcesOf
<1>2. CASE watch'[w] = watch[w]
  BY <1>1, <1>2 DEF Agrees
<1>3. CASE watch[w].state = "none" /\ watch'[w].state = "active" /\ watch'[w].count = 0
  BY <1>1, <1>3, SourcesCount, ConstantTypes DEF Agrees, Declared
<1>4. CASE /\ watch[w].state = "active" /\ watch'[w].state = "cancelled"
           /\ watch'[w].count = watch[w].count
  BY <1>1, <1>4 DEF Agrees
<1> QED
  BY <1>2, <1>3, <1>4, CommandEffect

LEMMA LedgerKept ==
  ASSUME WatchTypeOK, HandlerKnown, Declared, LedgerAgrees, [Next]_vars
  PROVE  LedgerAgrees'
<1>1. LedgerAgrees <=> \A w \in Declarations : Agrees(w)
  BY DEF LedgerAgrees, Agrees
<1>2. LedgerAgrees' <=> \A w \in Declarations : Agrees(w)'
  BY DEF LedgerAgrees, Agrees
<1> SUFFICES ASSUME NEW w \in Declarations PROVE Agrees(w)'
  BY <1>2
<1>3. CASE ApplyCommand
  BY <1>1, <1>3, CommandAgrees
<1>4. CASE RecordFires /\ w \in Firing
  BY <1>1, <1>4, FireAgrees
<1>5. CASE RecordFires /\ w \notin Firing
  BY <1>1, <1>5, FireEffect DEF Agrees
<1>6. CASE ~ApplyCommand /\ ~RecordFires
  BY <1>1, <1>6, QuietSteps DEF Agrees, SourcesOf
<1> QED
  BY <1>3, <1>4, <1>5, <1>6

LEMMA ApartKept ==
  ASSUME WatchTypeOK, HandlerKnown, Declared, LastIsNewest, FiresAreApart, [Next]_vars
  PROVE  LastIsNewest' /\ FiresAreApart'
<1>1. CASE ApplyCommand
  <2>1. \A w \in Declarations : SourcesOf(w)' = SourcesOf(w) /\ fired'[w] = fired[w]
    BY <1>1 DEF ApplyCommand, SourcesOf
  <2>2. \A w \in Declarations : watch'[w].last = watch[w].last \/ SourcesOf(w) = {}
    BY <1>1, CommandEffect DEF Declared
  <2> QED
    BY <2>1, <2>2 DEF LastIsNewest, FiresAreApart
<1>2. CASE RecordFires
  <2> SUFFICES ASSUME NEW w \in Declarations
               PROVE  /\ \A s \in SourcesOf(w)' : fired'[w][s] <= watch'[w].last
                      /\ \A s1, s2 \in SourcesOf(w)' :
                           s1 # s2 => \/ fired'[w][s1] + Cooldown <= fired'[w][s2]
                                      \/ fired'[w][s2] + Cooldown <= fired'[w][s1]
    BY DEF LastIsNewest, FiresAreApart
  <2>1. CASE w \notin Firing
    BY <1>2, <2>1, FireEffect DEF LastIsNewest, FiresAreApart
  <2>2. CASE w \in Firing
    <3>1. /\ cur \in Sources /\ SourcesOf(w)' = SourcesOf(w) \cup {cur} /\ cur \notin SourcesOf(w)
          /\ fired'[w] = [fired[w] EXCEPT ![cur] = now] /\ watch'[w] = Fired(w)
      BY <1>2, <2>2, FireEffect
    <3>2. fired[w] \in [Sources -> -1..MaxTime] /\ now \in Nat /\ watch[w].last \in -1..now
      BY ConstantTypes DEF WatchTypeOK
    <3>3. watch'[w].last = now
      BY <3>1 DEF Fired
    <3>4. fired'[w][cur] = now /\ \A s \in SourcesOf(w) : fired'[w][s] = fired[w][s]
      BY <3>1, <3>2 DEF SourcesOf
    <3>5. \A s \in SourcesOf(w) :
            fired[w][s] \in Nat /\ fired[w][s] <= watch[w].last /\ fired[w][s] + Cooldown <= now
      <4> TAKE s \in SourcesOf(w)
      <4>1. fired[w][s] \in Nat /\ fired[w][s] <= watch[w].last
        BY <3>2, ConstantTypes DEF LastIsNewest, SourcesOf
      <4>2. watch[w].last + Cooldown <= now
        BY <2>2, <3>2, <4>1 DEF Firing, Cooled
      <4> QED
        BY <3>2, <4>1, <4>2, ConstantTypes
    <3>6. \A s \in SourcesOf(w)' : fired'[w][s] <= watch'[w].last
      BY <3>1, <3>2, <3>3, <3>4, <3>5
    <3>7. \A s1, s2 \in SourcesOf(w)' :
            s1 # s2 => \/ fired'[w][s1] + Cooldown <= fired'[w][s2]
                       \/ fired'[w][s2] + Cooldown <= fired'[w][s1]
      BY <3>1, <3>4, <3>5 DEF FiresAreApart
    <3> QED
      BY <3>6, <3>7
  <2> QED
    BY <2>1, <2>2
<1>3. CASE ~ApplyCommand /\ ~RecordFires
  BY <1>3, QuietSteps DEF LastIsNewest, FiresAreApart, SourcesOf
<1> QED
  BY <1>1, <1>2, <1>3

-----------------------------------------------------------------------------
(* --------------------------- the declarations -------------------------- *)

LEMMA DeclaredKept ==
  ASSUME WatchTypeOK, HandlerKnown, Declared, [Next]_vars
  PROVE  Declared'
<1> SUFFICES ASSUME NEW w \in Declarations
             PROVE  /\ watch'[w].state # "none" => w \in Stored'
                    /\ watch'[w].state = "none" => SourcesOf(w)' = {}
  BY DEF Declared
<1>1. CASE ApplyCommand
  <2>1. SourcesOf(w)' = SourcesOf(w) /\ Stored' = Stored /\ cur \in Stored
    BY <1>1, EventsApart DEF ApplyCommand, SourcesOf, Stored, WatchTypeOK, HandlerKnown, Commands,
                             Events
  <2> QED
    BY <1>1, <2>1, CommandEffect DEF Declared
<1>2. CASE RecordFires
  <2>1. Stored' = Stored
    BY <1>2 DEF RecordFires, Stored
  <2>2. w \in Firing => watch'[w].state # "none" /\ watch[w].state # "none"
    BY <1>2, FiredState
  <2> QED
    BY <1>2, <2>1, <2>2, FireEffect DEF Declared
<1>3. CASE ~ApplyCommand /\ ~RecordFires
  BY <1>3, QuietSteps, RelayGrows DEF Declared, SourcesOf
<1> QED
  BY <1>1, <1>2, <1>3

LEMMA StandKept ==
  ASSUME WatchTypeOK, HandlerKnown, Declared, DeclarationsStand, [Next]_vars
  PROVE  DeclarationsStand'
<1>1. CancelledByNewer'
  <2> SUFFICES ASSUME NEW w \in Declarations, watch'[w].state = "cancelled"
               PROVE  \E c \in Cancels \cap Stored' : rank'[w] < rank'[c]
    BY DEF CancelledByNewer
  <2>1. CASE watch[w].state = "cancelled"
    <3>1. PICK c \in Cancels \cap Stored : rank[w] < rank[c]
      BY <2>1 DEF DeclarationsStand, CancelledByNewer
    <3>2. w \in Stored
      BY <2>1 DEF Declared
    <3> QED
      BY <3>1, <3>2, RelayGrows
  <2>2. CASE watch[w].state # "cancelled"
    <3>1. ApplyCommand
      <4>1. CASE RecordFires
        BY <2>2, <4>1, FireEffect, FiredState
      <4>2. CASE ~ApplyCommand /\ ~RecordFires
        BY <2>2, <4>2, QuietSteps
      <4> QED
        BY <4>1, <4>2
    <3>2. cur \in Cancels /\ rank[w] < rank[cur]
      BY <2>2, <3>1, CommandEffect
    <3>3. cur \in Stored /\ rank' = rank /\ Stored' = Stored
      BY <3>1, <3>2, EventsApart DEF ApplyCommand, WatchTypeOK, Stored
    <3> QED
      BY <3>2, <3>3
  <2> QED
    BY <2>1, <2>2
<1>2. ProcessedIsDeclared'
  <2> SUFFICES ASSUME NEW w \in Declarations, w \in processed'
               PROVE  watch'[w].state # "none"
    BY DEF ProcessedIsDeclared
  <2>1. CASE w \in processed
    BY <2>1, RowsStay DEF DeclarationsStand, ProcessedIsDeclared
  <2>2. CASE w \notin processed
    <3>1. EnqueueTurn
      BY <2>2 DEF Next, Handler, ApplyCommand, RecordFires, QueueWake, QueueWakeFails, CommandFails,
                  Restart, Crash, Clock, Publish, Observe, vars, tables
    <3>2. w = cur /\ watch'[w] = watch[w] /\ at = "enqueue"
      BY <2>2, <3>1 DEF EnqueueTurn
    <3> QED
      BY <3>2 DEF HandlerKnown
  <2> QED
    BY <2>1, <2>2
<1> QED
  BY <1>1, <1>2 DEF DeclarationsStand

-----------------------------------------------------------------------------
LEMMA InitLedgerInv == Init => LedgerInv
<1> SUFFICES ASSUME Init PROVE LedgerInv
  OBVIOUS
<1>1. \A w \in Declarations : SourcesOf(w) = {} /\ watch[w].count = 0 /\ watch[w].state = "none"
  BY DEF Init, SourcesOf
<1>2. WatchTypeOK
  BY ConstantTypes, EventsApart, FS_CardinalityType DEF Init, WatchTypeOK
<1>3. HandlerKnown /\ FiresToWake
  BY DEF Init, HandlerKnown, FiresToWake
<1>4. Declared /\ LastIsNewest /\ LedgerAgrees
  BY <1>1, SourcesCount, ConstantTypes DEF Declared, LastIsNewest, LedgerAgrees
<1>5. WakesFollowFires
  BY <1>1 DEF Init, WakesFollowFires, OneWakePerFire, FiresWakeUnlessCut, FiresAreApart
<1>6. DeclarationsStand
  BY <1>1 DEF Init, DeclarationsStand, CancelledByNewer, ProcessedIsDeclared
<1> QED
  BY <1>2, <1>3, <1>4, <1>5, <1>6 DEF LedgerInv

\* The inductive invariant of the watches: the handler knows where it is, the
\* ledger agrees with its watch, wakes follow fires and declarations stand.
THEOREM LedgerInvHolds == Spec => []LedgerInv
<1>1. LedgerInv /\ [Next]_vars => LedgerInv'
  BY TypesKept, HandlerKept, WakesKept, DeclaredKept, LedgerKept, ApartKept, StandKept
     DEF LedgerInv, WakesFollowFires
<1> QED
  BY <1>1, InitLedgerInv, PTL DEF Spec

\* Counts, limits and completion agree with the ledger of fires, across replays
\* and crashes.
THEOREM LedgerIsSoundHolds == Spec => []LedgerIsSound
<1>1. LedgerInv => LedgerIsSound
  BY DEF LedgerInv, LedgerIsSound
<1> QED
  BY <1>1, LedgerInvHolds, PTL

\* A fire wakes once, or was cut off by a crash or a failed commit, and the
\* fires of a watch are a cooldown apart.
THEOREM WakesFollowFiresHolds == Spec => []WakesFollowFires
<1>1. LedgerInv => WakesFollowFires
  BY DEF LedgerInv
<1> QED
  BY <1>1, LedgerInvHolds, PTL

\* A watch is closed only by a newer cancellation, and a declaration that was
\* processed has its watch.
THEOREM DeclarationsStandHolds == Spec => []DeclarationsStand
<1>1. LedgerInv => DeclarationsStand
  BY DEF LedgerInv
<1> QED
  BY <1>1, LedgerInvHolds, PTL
=============================================================================
