------------------------------ MODULE AsksSafety ------------------------------
(***************************************************************************)
(* The safety of asks, for any messages, turns, limits and windows, any    *)
(* order in which the relay hands events over, and any number of crashes   *)
(* and failures: what the cursor has passed was told or is excused, and an *)
(* ask stands beside a place file that has the whole window.               *)
(***************************************************************************)
EXTENDS Asks, FiniteSetTheorems, WellFoundedInduction, TLAPS

\* A queued turn is of a message that was indexed, and one is there to ask.
QueueKnown ==
  /\ \A i \in 1..Len(queue) : queue[i].of \in Indexed
  /\ at \in {"ask", "open"} => queue # <<>>

\* A draft that is not of a first ask has read all that is after the cursor.
DraftKnown ==
  at \in {"ask", "open"} /\ ~draft.first =>
    cursor # NoCursor /\ Unread(Head(queue)) \subseteq draft.unread

\* What Kelpie holds under a key was told when it was taken.
LettersTold ==
  \A turn \in Turns :
    letters[turn] # NoLetter =>
      letters[turn].lines \subseteq told /\ (~turn.wake => turn.of \in told)

\* Once an ask was delivered, what its cursor is about to pass is accounted for.
NextIsCovered ==
  at \in {"open", "save"} =>
    \A e \in ForOccupant : After(Key(e), draft.next) \/ e \in told \cup excused

\* The place file that was written for the ask stands until it is delivered.
PlaceStands ==
  at \in {"ask", "open"} =>
    /\ \A e \in Indexed \ Posts : e \in place <=> e \notin Elsewhere /\ InWindow(e)
    /\ place \cap Posts = {}

AsksInv ==
  /\ AsksTypeOK /\ QueueKnown /\ DraftKnown /\ LettersTold /\ NextIsCovered
  /\ PassedIsTold /\ PlaceStands

-----------------------------------------------------------------------------
(* ----------------------------------- keys ------------------------------ *)

LEMMA ConstantTypes ==
  /\ Events \subseteq Nat /\ IsFiniteSet(Events) /\ Times \subseteq Nat
  /\ MaxCrashes \in Nat /\ MaxFailures \in Nat
  /\ \A turn \in Turns : turn.of \in Events
  /\ \A e \in Triggers : [of |-> e, wake |-> FALSE] \in Turns
  /\ \A e \in Watched : [of |-> e, wake |-> TRUE] \in Turns
<1>1. Events \subseteq Nat /\ IsFiniteSet(Events) /\ Watched \subseteq Events
  BY AsksAssumption DEF AsksAssumption
<1>2. MaxTime \in Nat /\ Drift \in Nat /\ MaxCrashes \in Nat /\ MaxFailures \in Nat
  BY AsksAssumption DEF AsksAssumption
<1>3. Times \subseteq Nat
  BY <1>2 DEF Times
<1>4. Triggers \subseteq Events
  BY DEF Events
<1>5. \A turn \in Turns : turn.of \in Events
  BY <1>1, <1>4 DEF Turns
<1>6. /\ \A e \in Triggers : [of |-> e, wake |-> FALSE] \in Turns
      /\ \A e \in Watched : [of |-> e, wake |-> TRUE] \in Turns
  BY DEF Turns
<1> QED
  BY <1>1, <1>2, <1>3, <1>5, <1>6

LEMMA IndexedKey ==
  ASSUME AsksTypeOK, NEW e \in Indexed
  PROVE  e \in Events /\ created[e] \in Times /\ Key(e) \in Cursors
<1>1. e \in Events /\ created[e] >= 0 /\ created[e] \in {-1} \cup Times
  BY DEF Indexed, AsksTypeOK
<1>2. created[e] # -1
  <2>1. ~(-1 >= 0)
    OBVIOUS
  <2> QED
    BY <1>1, <2>1
<1> QED
  BY <1>1, <1>2 DEF Key, Cursors

\* Among events of finitely many there is one whose key is the last.
LEMMA LastKey ==
  ASSUME AsksTypeOK, NEW S \in SUBSET Events, S # {}
  PROVE  \E key \in {Key(e) : e \in S} : \A e \in S : ~After(Key(e), key)
<1> DEFINE Later(e) == {f \in S : After(Key(f), Key(e))}
           Laters == {Later(e) : e \in S}
<1>1. IsFiniteSet(S)
  BY ConstantTypes, FS_Subset
<1>2. Laters \subseteq FiniteSubsetsOf(S) /\ Laters # {}
  <2>1. ASSUME NEW e \in S PROVE Later(e) \in SUBSET S /\ IsFiniteSet(Later(e))
    BY <1>1, FS_Subset
  <2> QED
    BY <2>1 DEF FiniteSubsetsOf
<1>3. PICK least \in Laters : \A other \in Laters : <<other, least>> \notin StrictSubsetOrdering(S)
  <2>1. IsWellFoundedOn(StrictSubsetOrdering(S), FiniteSubsetsOf(S))
    BY FS_StrictSubsetOrderingWellFounded
  <2> HIDE DEF Laters
  <2> QED
    BY <1>2, <2>1, WFMin
<1>4. PICK e \in S : least = Later(e)
  OBVIOUS
<1>5. ASSUME NEW f \in S, After(Key(f), Key(e)) PROVE FALSE
  <2>1. /\ \A g \in S : created[g] \in Int /\ g \in Int
        /\ \A g \in S : Key(g).at = created[g] /\ Key(g).id = g
    BY ConstantTypes DEF AsksTypeOK, Times, Key
  <2>2. Later(f) \subseteq Later(e)
    BY <1>5, <2>1 DEF After
  <2>3. f \in Later(e) /\ f \notin Later(f)
    BY <1>5, <2>1 DEF After
  <2>4. Later(f) \in Laters /\ Later(f) \in SUBSET S /\ Later(e) \in SUBSET S
    OBVIOUS
  <2> HIDE DEF Later, Laters
  <2>5. <<Later(f), Later(e)>> \in StrictSubsetOrdering(S)
    BY <2>2, <2>3, <2>4 DEF StrictSubsetOrdering
  <2> QED
    BY <1>3, <1>4, <2>4, <2>5
<1> QED
  BY <1>5

\* What is rendered for a turn whose message is indexed is an ask.
LEMMA RenderIsLetter ==
  ASSUME AsksTypeOK, NEW turn \in Turns, turn.of \in Indexed
  PROVE  /\ Render(turn) \in Letters
         /\ ~Render(turn).first => cursor # NoCursor /\ Render(turn).unread = Unread(turn)
<1>1. turn.of \in Events /\ Key(turn.of) \in Cursors
  BY IndexedKey
<1>2. CASE cursor = NoCursor
  BY <1>1, <1>2 DEF Render, Letters
<1>3. CASE cursor # NoCursor
  <2>1. Unread(turn) \subseteq Events /\ Unread(turn) \subseteq Indexed
    BY DEF Unread, ForOccupant, OfChannel
  <2>2. CapLines(Unread(turn)) \subseteq Events
    BY <2>1 DEF CapLines
  <2>3. NextCursor(turn, Unread(turn)) \in {Key(e) : e \in Unread(turn) \cup {turn.of}}
    <3> DEFINE S == Unread(turn) \cup {turn.of}
    <3>1. S \in SUBSET Events /\ S # {}
      BY <1>1, <2>1
    <3> HIDE DEF S
    <3>2. \E key \in {Key(e) : e \in S} : \A e \in S : ~After(Key(e), key)
      BY <3>1, LastKey
    <3> QED
      BY <3>2 DEF NextCursor, S
  <2>4. \A e \in Unread(turn) \cup {turn.of} : Key(e) \in Cursors
    BY <1>1, <2>1, IndexedKey
  <2> DEFINE lines == CapLines(Unread(turn))
             unread == Unread(turn)
             next == NextCursor(turn, Unread(turn))
  <2>5. lines \subseteq Events /\ unread \subseteq Events /\ next \in Cursors
    BY <2>1, <2>2, <2>3, <2>4
  <2>6. Render(turn) = [lines |-> lines, unread |-> unread, first |-> FALSE, next |-> next]
    BY <1>3 DEF Render
  <2> HIDE DEF lines, next
  <2> QED
    BY <1>3, <2>5, <2>6 DEF Letters
<1> QED
  BY <1>2, <1>3

-----------------------------------------------------------------------------
(* ----------------------------------- types ----------------------------- *)

LEMMA HeadIsTurn ==
  ASSUME AsksTypeOK, queue # <<>>
  PROVE  /\ Head(queue) \in Turns /\ Tail(queue) \in Seq(Turns)
         /\ Head(queue) = queue[1] /\ 1 \in 1..Len(queue)
         /\ Len(Tail(queue)) = Len(queue) - 1
         /\ \A i \in 1..Len(Tail(queue)) : i + 1 \in 1..Len(queue) /\ Tail(queue)[i] = queue[i + 1]
  BY DEF AsksTypeOK

\* The ask is taken under its key.
LEMMA TakeEffect ==
  ASSUME AsksTypeOK, NEW turn \in Turns, Take(turn)
  PROVE  letters' \in [Turns -> Letters] /\ told' \subseteq Events /\ excused' \subseteq Events
<1>1. draft \in Letters /\ draft.lines \subseteq Events /\ draft.unread \subseteq Events
  BY DEF AsksTypeOK, Letters
<1>2. turn.of \in Events
  BY ConstantTypes
<1>3. Carries(turn, draft) \subseteq Events /\ Excuses(turn, draft) \subseteq Events
  BY <1>1, <1>2 DEF Carries, Excuses, Indexed
<1> QED
  BY <1>1, <1>3 DEF Take, AsksTypeOK

LEMMA ChannelTypes ==
  ASSUME AsksTypeOK,
         \/ Tick \/ Closes \/ Decline \/ Crash \/ Restart
         \/ \E e \in Events, time \in Times : Observe(e, time)
         \/ \E e \in Watched : Wake(e)
         \/ SnapshotFails \/ AskFails \/ CommitFails
  PROVE  AsksTypeOK'
<1> USE DEF AsksTypeOK, tables, given, bounds
<1>1. CASE Tick
  BY <1>1, AsksAssumption DEF Tick, AsksAssumption
<1>2. CASE Closes
  BY <1>2 DEF Closes
<1>3. CASE Decline
  BY <1>3, HeadIsTurn DEF Decline, Due
<1>4. CASE Crash
  <2>1. NoLetter \in Letters
    BY DEF NoLetter, Letters, Cursors
  <2> QED
    BY <1>4, <2>1, ConstantTypes DEF Crash
<1>5. CASE Restart \/ SnapshotFails \/ AskFails \/ CommitFails
  BY <1>5, ConstantTypes DEF Restart, SnapshotFails, AskFails, CommitFails
<1>6. ASSUME NEW e \in Events, NEW time \in Times, Observe(e, time) PROVE AsksTypeOK'
  <2>1. queue' \in Seq(Turns)
    BY <1>6, ConstantTypes DEF Observe
  <2>2. created' \in [Events -> {-1} \cup Times] /\ excused' \subseteq Events
    BY <1>6 DEF Observe
  <2>3. UNCHANGED <<now, opened, cursor, at, draft, place, letters, told, bounds>>
    BY <1>6 DEF Observe
  <2> QED
    BY <2>1, <2>2, <2>3
<1>7. ASSUME NEW e \in Watched, Wake(e) PROVE AsksTypeOK'
  <2>1. queue' \in Seq(Turns)
    BY <1>7, ConstantTypes DEF Wake
  <2> QED
    BY <1>7, <2>1 DEF Wake
<1> QED
  BY <1>1, <1>2, <1>3, <1>4, <1>5, <1>6, <1>7

LEMMA AskTypes ==
  ASSUME AsksTypeOK, QueueKnown,
         \/ RenderAsk \/ RenderPanics \/ Delivered \/ ReceiptLost \/ Replayed \/ OpenTurn \/ SaveCursor
  PROVE  AsksTypeOK'
<1> USE DEF AsksTypeOK, tables, given, bounds
<1>1. Snapshot \subseteq Events /\ RefreshPlace = Snapshot
  BY DEF Snapshot, ForOccupant, RefreshPlace
<1>2. CASE RenderAsk
  <2>1. draft' = Render(Head(queue)) /\ queue # <<>>
    BY <1>2 DEF RenderAsk, Due
  <2>2. Head(queue) \in Turns /\ Head(queue).of \in Indexed
    BY <2>1, HeadIsTurn DEF QueueKnown
  <2>3. draft' \in Letters
    BY <2>1, <2>2, RenderIsLetter
  <2>4. /\ UNCHANGED <<now, tables, letters, told, excused, bounds>>
        /\ place' = Snapshot /\ at' = "ask"
    BY <1>1, <1>2 DEF RenderAsk
  <2> QED
    BY <1>1, <2>3, <2>4
<1>3. CASE RenderPanics
  BY <1>1, <1>3 DEF RenderPanics
<1>4. CASE Delivered \/ ReceiptLost
  <2>1. Head(queue) \in Turns /\ Take(Head(queue))
    BY <1>4, HeadIsTurn DEF Delivered, ReceiptLost, QueueKnown
  <2>2. letters' \in [Turns -> Letters] /\ told' \subseteq Events /\ excused' \subseteq Events
    BY <2>1, TakeEffect
  <2>3. /\ UNCHANGED <<now, tables, place, draft, crashes>> /\ at' \in {"open", "idle"}
        /\ failures' \in 0..MaxFailures
    BY <1>4, ConstantTypes DEF Delivered, ReceiptLost
  <2> QED
    BY <2>2, <2>3
<1>5. CASE Replayed
  <2>1. Head(queue) \in Turns
    BY <1>5, HeadIsTurn DEF Replayed, QueueKnown
  <2>2. Head(queue).of \in Events /\ draft.lines \subseteq Events /\ draft.unread \subseteq Events
    BY <2>1, ConstantTypes DEF Letters
  <2>3. excused' \subseteq Events
    BY <1>5, <2>2 DEF Replayed, Excuses, Indexed
  <2>4. UNCHANGED <<now, tables, place, letters, told, draft, bounds>> /\ at' = "open"
    BY <1>5 DEF Replayed
  <2> QED
    BY <2>3, <2>4
<1>6. CASE OpenTurn
  BY <1>6, HeadIsTurn DEF OpenTurn, QueueKnown
<1>7. CASE SaveCursor
  <2>1. draft.next \in Cursors
    BY DEF Letters
  <2> QED
    BY <1>7, <2>1 DEF SaveCursor
<1> QED
  BY <1>2, <1>3, <1>4, <1>5, <1>6, <1>7

LEMMA TypesKept ==
  ASSUME AsksTypeOK, QueueKnown, [Next]_vars
  PROVE  AsksTypeOK'
<1>1. CASE UNCHANGED vars
  BY <1>1 DEF AsksTypeOK, vars, tables, given, bounds
<1>2. CASE Next
  BY <1>2, ChannelTypes, AskTypes DEF Next, AskSteps
<1> QED
  BY <1>1, <1>2

-----------------------------------------------------------------------------
(* --------------------------------- the queue --------------------------- *)

\* What was indexed stays, with the time it was indexed at.
LEMMA IndexedStays ==
  ASSUME AsksTypeOK, [Next]_vars
  PROVE  \A e \in Indexed : e \in Indexed' /\ created'[e] = created[e]
<1>1. CASE created' = created
  BY <1>1 DEF Indexed
<1>2. ASSUME NEW e \in Events, NEW time \in Times, Observe(e, time)
      PROVE  \A f \in Indexed : f \in Indexed' /\ created'[f] = created[f]
  BY <1>2 DEF Observe, Indexed, AsksTypeOK
<1>3. CASE UNCHANGED vars
  BY <1>1, <1>3 DEF vars, tables
<1>4. CASE Next
  BY <1>1, <1>2, <1>4
     DEF Next, AskSteps, Tick, Closes, Decline, RenderAsk, RenderPanics, Delivered, Replayed,
         OpenTurn, SaveCursor, Wake, SnapshotFails, ReceiptLost, AskFails, CommitFails, Crash,
         Restart, tables
<1> QED
  BY <1>3, <1>4

LEMMA QueueKept ==
  ASSUME AsksTypeOK, QueueKnown, [Next]_vars
  PROVE  QueueKnown'
<1>1. \A e \in Indexed : e \in Indexed'
  BY IndexedStays
<1>2. CASE queue' = queue /\ (at' \in {"ask", "open"} => at \in {"ask", "open"})
  BY <1>1, <1>2 DEF QueueKnown
<1>3. CASE UNCHANGED vars
  BY <1>2, <1>3 DEF vars, tables
<1>4. CASE Decline \/ OpenTurn
  <2>1. queue # <<>> /\ queue' = Tail(queue) /\ at' \notin {"ask", "open"}
    BY <1>4 DEF Decline, Due, OpenTurn, QueueKnown
  <2>2. \A i \in 1..Len(Tail(queue)) : Tail(queue)[i].of \in Indexed
    BY <2>1, HeadIsTurn DEF QueueKnown
  <2> QED
    BY <1>1, <2>1, <2>2 DEF QueueKnown
<1>5. CASE RenderAsk
  BY <1>1, <1>5 DEF RenderAsk, Due, tables, QueueKnown
<1>6. ASSUME NEW e \in Events, NEW time \in Times, Observe(e, time) PROVE QueueKnown'
  <2>1. e \in Indexed'
    BY <1>6, ConstantTypes DEF Observe, Indexed, AsksTypeOK
  <2>2. CASE e \notin Triggers
    BY <1>2, <1>6, <2>2 DEF Observe
  <2>3. CASE e \in Triggers
    <3>1. queue' = Append(queue, [of |-> e, wake |-> FALSE]) /\ at' = "idle"
      BY <1>6, <2>3 DEF Observe
    <3>2. queue \in Seq(Turns) /\ [of |-> e, wake |-> FALSE] \in Turns
      BY <2>3, ConstantTypes DEF AsksTypeOK
    <3>3. \A i \in 1..Len(queue') : queue'[i].of \in Indexed'
      BY <1>1, <2>1, <3>1, <3>2 DEF QueueKnown
    <3> QED
      BY <3>1, <3>3 DEF QueueKnown
  <2> QED
    BY <2>2, <2>3
<1>7. ASSUME NEW e \in Watched, Wake(e) PROVE QueueKnown'
  <2>1. queue' = Append(queue, [of |-> e, wake |-> TRUE]) /\ at' = "idle" /\ e \in Indexed
    BY <1>7 DEF Wake
  <2>2. queue \in Seq(Turns) /\ [of |-> e, wake |-> TRUE] \in Turns
    BY ConstantTypes DEF AsksTypeOK
  <2>3. \A i \in 1..Len(queue') : queue'[i].of \in Indexed'
    BY <1>1, <2>1, <2>2 DEF QueueKnown
  <2> QED
    BY <2>1, <2>3 DEF QueueKnown
<1>8. CASE \/ Tick \/ Closes \/ RenderPanics \/ Delivered \/ Replayed \/ SaveCursor
           \/ SnapshotFails \/ ReceiptLost \/ AskFails \/ CommitFails \/ Crash \/ Restart
  BY <1>2, <1>8
     DEF Tick, Closes, RenderPanics, Delivered, Replayed, SaveCursor, SnapshotFails,
         ReceiptLost, AskFails, CommitFails, Crash, Restart, tables, given
<1> QED
  BY <1>3, <1>4, <1>5, <1>6, <1>7, <1>8 DEF Next, AskSteps

-----------------------------------------------------------------------------
(* ------------------------------ an ask is made -------------------------- *)

\* While an ask is on its way nothing that it was rendered from changes.
LEMMA AskIsFrozen ==
  ASSUME AsksTypeOK, [Next]_vars, at' \in {"ask", "open"}, ~RenderAsk
  PROVE  /\ at \in {"ask", "open"}
         /\ UNCHANGED <<now, created, queue, cursor, place, draft>>
<1>1. CASE UNCHANGED vars
  BY <1>1 DEF vars, tables, given
<1>2. CASE Delivered \/ Replayed
  BY <1>2 DEF Delivered, Replayed, tables
<1>3. CASE Next
  BY <1>2, <1>3
     DEF Next, AskSteps, Tick, Closes, Decline, Due, RenderPanics, OpenTurn, SaveCursor, Observe,
         Wake, SnapshotFails, ReceiptLost, AskFails, CommitFails, Crash, Restart
<1> QED
  BY <1>1, <1>3

LEMMA DraftKept ==
  ASSUME AsksTypeOK, QueueKnown, DraftKnown, [Next]_vars
  PROVE  DraftKnown'
<1> SUFFICES ASSUME at' \in {"ask", "open"}
             PROVE  DraftKnown'
  BY DEF DraftKnown
<1>1. CASE RenderAsk
  <2>1. /\ draft' = Render(Head(queue)) /\ queue # <<>>
        /\ UNCHANGED <<now, created, queue, cursor>>
    BY <1>1 DEF RenderAsk, Due, tables
  <2>2. Head(queue) \in Turns /\ Head(queue).of \in Indexed
    BY <2>1, HeadIsTurn DEF QueueKnown
  <2>3. ~draft'.first => cursor # NoCursor /\ draft'.unread = Unread(Head(queue))
    BY <2>1, <2>2, RenderIsLetter
  <2>4. Unread(Head(queue))' = Unread(Head(queue))
    BY <2>1 DEF Unread, ForOccupant, OfChannel, NotProgress, Indexed, AfterCursor, Key
  <2> QED
    BY <2>1, <2>3, <2>4 DEF DraftKnown
<1>2. CASE ~RenderAsk
  <2>1. /\ at \in {"ask", "open"} /\ UNCHANGED <<created, queue, cursor, draft>>
    BY <1>2, AskIsFrozen
  <2>2. Unread(Head(queue))' = Unread(Head(queue))
    BY <2>1 DEF Unread, ForOccupant, OfChannel, NotProgress, Indexed, AfterCursor, Key
  <2> QED
    BY <2>1, <2>2 DEF DraftKnown
<1> QED
  BY <1>1, <1>2

LEMMA PlaceKept ==
  ASSUME AsksTypeOK, PlaceStands, [Next]_vars
  PROVE  PlaceStands'
<1> SUFFICES ASSUME at' \in {"ask", "open"}
             PROVE  PlaceStands'
  BY DEF PlaceStands
<1>1. CASE RenderAsk
  <2>1. place' = Snapshot /\ UNCHANGED <<now, created>>
    BY <1>1 DEF RenderAsk, RefreshPlace, tables
  <2> QED
    BY <2>1 DEF PlaceStands, Snapshot, ForOccupant, OfChannel, NotProgress, Indexed, InWindow
<1>2. CASE ~RenderAsk
  <2>1. at \in {"ask", "open"} /\ UNCHANGED <<now, created, place>>
    BY <1>2, AskIsFrozen
  <2> QED
    BY <2>1 DEF PlaceStands, Indexed, InWindow
<1> QED
  BY <1>1, <1>2

-----------------------------------------------------------------------------
(* --------------------------- an ask is delivered ------------------------ *)

\* What was told and excused stays so.
LEMMA GivenGrows ==
  ASSUME [Next]_vars
  PROVE  told \subseteq told' /\ excused \subseteq excused'
<1>1. CASE Delivered \/ ReceiptLost
  BY <1>1 DEF Delivered, ReceiptLost, Take
<1>2. ASSUME NEW e \in Events, NEW time \in Times, Observe(e, time)
      PROVE  told \subseteq told' /\ excused \subseteq excused'
  BY <1>2 DEF Observe
<1>3. CASE Replayed
  BY <1>3 DEF Replayed
<1>4. CASE UNCHANGED vars
  BY <1>4 DEF vars, given
<1>5. CASE Next
  BY <1>1, <1>2, <1>3, <1>5
     DEF Next, AskSteps, Tick, Closes, Decline, RenderAsk, RenderPanics, OpenTurn, SaveCursor,
         Wake, SnapshotFails, AskFails, CommitFails, Crash, Restart, given
<1> QED
  BY <1>4, <1>5

LEMMA LettersKept ==
  ASSUME AsksTypeOK, QueueKnown, LettersTold, [Next]_vars
  PROVE  LettersTold'
<1>1. told \subseteq told'
  BY GivenGrows
<1>2. CASE letters' = letters
  BY <1>1, <1>2 DEF LettersTold
<1>3. CASE Delivered \/ ReceiptLost
  <2> DEFINE turn == Head(queue)
  <2>1. turn \in Turns /\ Take(turn)
    BY <1>3, HeadIsTurn DEF Delivered, ReceiptLost, QueueKnown
  <2>2. letters' = [letters EXCEPT ![turn] = draft] /\ Carries(turn, draft) \subseteq told'
    BY <2>1 DEF Take
  <2> HIDE DEF turn
  <2>3. draft.lines \subseteq told' /\ (~turn.wake => turn.of \in told')
    BY <2>2 DEF Carries
  <2> QED
    BY <1>1, <2>1, <2>2, <2>3 DEF LettersTold, AsksTypeOK
<1>4. CASE UNCHANGED vars
  BY <1>2, <1>4 DEF vars, given
<1>5. CASE Next
  BY <1>2, <1>3, <1>5
     DEF Next, AskSteps, Tick, Closes, Decline, RenderAsk, RenderPanics, Replayed, OpenTurn,
         SaveCursor, Observe, Wake, SnapshotFails, AskFails, CommitFails, Crash, Restart, given
<1> QED
  BY <1>4, <1>5

\* An event that is not after the next cursor was told by now or is excused, if
\* the ask told its request and all its lines that are not excused.
LEMMA AskCovers ==
  ASSUME AsksTypeOK, QueueKnown, DraftKnown, PassedIsTold, at = "ask",
         NEW T, NEW X, told \subseteq T, excused \subseteq X,
         Excuses(Head(queue), draft) \subseteq X,
         draft.lines \subseteq T \cup X,
         ~Head(queue).wake => Head(queue).of \in T,
         NEW e \in ForOccupant, ~After(Key(e), draft.next)
  PROVE  e \in T \cup X
<1> DEFINE turn == Head(queue)
<1>1. e \in Indexed /\ e \in Events
  BY DEF ForOccupant, OfChannel
<1>2. CASE draft.first
  BY <1>1, <1>2 DEF Excuses
<1>3. CASE e = turn.of
  BY <1>3 DEF Excuses
<1>4. CASE ~draft.first /\ e # turn.of /\ AfterCursor(e)
  <2>1. Unread(turn) \subseteq draft.unread
    BY <1>4 DEF DraftKnown
  <2>2. e \in Unread(turn)
    BY <1>1, <1>4 DEF Unread
  <2> QED
    BY <2>1, <2>2 DEF Excuses
<1>5. CASE ~draft.first /\ ~AfterCursor(e)
  <2>1. cursor # NoCursor
    BY <1>5 DEF DraftKnown
  <2> QED
    BY <1>5, <2>1 DEF PassedIsTold, AfterCursor
<1> QED
  BY <1>2, <1>3, <1>4, <1>5

LEMMA NextKept ==
  ASSUME AsksTypeOK, QueueKnown, DraftKnown, LettersTold, NextIsCovered, PassedIsTold,
         [Next]_vars
  PROVE  NextIsCovered'
<1> SUFFICES ASSUME at' \in {"open", "save"}
             PROVE  NextIsCovered'
  BY DEF NextIsCovered
<1> DEFINE turn == Head(queue)
<1>1. told \subseteq told' /\ excused \subseteq excused'
  BY GivenGrows
<1>2. CASE Delivered
  <2>1. at = "ask" /\ Take(turn) /\ UNCHANGED <<created, draft>>
    BY <1>2 DEF Delivered, tables
  <2>2. Carries(turn, draft) \subseteq told' /\ Excuses(turn, draft) \subseteq excused'
    BY <2>1 DEF Take
  <2>3. draft.lines \subseteq told' \cup excused' /\ (~turn.wake => turn.of \in told')
    BY <2>2 DEF Carries
  <2>4. \A e \in ForOccupant : After(Key(e), draft.next) \/ e \in told' \cup excused'
    BY <1>1, <2>1, <2>2, <2>3, AskCovers
  <2> QED
    BY <2>1, <2>4 DEF NextIsCovered, ForOccupant, OfChannel, NotProgress, Indexed, Key
<1>3. CASE Replayed
  <2>1. /\ at = "ask" /\ letters[turn] # NoLetter /\ UNCHANGED <<created, draft, told>>
        /\ excused' = excused \cup (draft.lines \ letters[turn].lines) \cup Excuses(turn, draft)
    BY <1>3 DEF Replayed, tables
  <2>2. turn \in Turns
    BY <2>1, HeadIsTurn DEF QueueKnown
  <2>3. letters[turn].lines \subseteq told /\ (~turn.wake => turn.of \in told)
    BY <2>1, <2>2 DEF LettersTold
  <2>4. /\ Excuses(turn, draft) \subseteq excused' /\ draft.lines \subseteq told' \cup excused'
        /\ (~turn.wake => turn.of \in told')
    BY <2>1, <2>3
  <2>5. \A e \in ForOccupant : After(Key(e), draft.next) \/ e \in told' \cup excused'
    BY <1>1, <2>1, <2>4, AskCovers
  <2> QED
    BY <2>1, <2>5 DEF NextIsCovered, ForOccupant, OfChannel, NotProgress, Indexed, Key
<1>4. CASE at \in {"open", "save"} /\ UNCHANGED <<created, draft>>
  BY <1>1, <1>4 DEF NextIsCovered, ForOccupant, OfChannel, NotProgress, Indexed, Key
<1>5. CASE UNCHANGED vars
  BY <1>4, <1>5 DEF vars, tables
<1>6. CASE Next
  BY <1>2, <1>3, <1>4, <1>6
     DEF Next, AskSteps, Tick, Closes, Decline, Due, RenderAsk, RenderPanics, OpenTurn, SaveCursor,
         Observe, Wake, SnapshotFails, ReceiptLost, AskFails, CommitFails, Crash, Restart
<1> QED
  BY <1>5, <1>6

LEMMA PassedKept ==
  ASSUME AsksTypeOK, NextIsCovered, PassedIsTold, [Next]_vars
  PROVE  PassedIsTold'
<1>1. told \subseteq told' /\ excused \subseteq excused'
  BY GivenGrows
<1>2. CASE UNCHANGED <<created, cursor>>
  BY <1>1, <1>2 DEF PassedIsTold, ForOccupant, OfChannel, NotProgress, Indexed, Key
<1>3. CASE SaveCursor
  BY <1>3 DEF SaveCursor, given, PassedIsTold, NextIsCovered, ForOccupant, OfChannel, NotProgress,
             Indexed, Key
<1>4. ASSUME NEW e \in Events, NEW time \in Times, Observe(e, time) PROVE PassedIsTold'
  <2>1. /\ created' = [created EXCEPT ![e] = time] /\ cursor' = cursor
        /\ excused' = IF After([at |-> time, id |-> e], cursor) THEN excused ELSE excused \cup {e}
    BY <1>4 DEF Observe
  <2>2. \A f \in ForOccupant' : f = e \/ (f \in ForOccupant /\ Key(f)' = Key(f))
    BY <2>1 DEF ForOccupant, OfChannel, NotProgress, Indexed, Key, AsksTypeOK
  <2>3. Key(e)' = [at |-> time, id |-> e]
    BY <2>1 DEF Key, AsksTypeOK
  <2>4. After(Key(e)', cursor) \/ e \in excused'
    BY <2>1, <2>3
  <2> QED
    BY <1>1, <2>1, <2>2, <2>4 DEF PassedIsTold, After
<1>5. CASE UNCHANGED vars
  BY <1>2, <1>5 DEF vars, tables
<1>6. CASE Next
  BY <1>2, <1>3, <1>4, <1>6
     DEF Next, AskSteps, Tick, Closes, Decline, RenderAsk, RenderPanics, Delivered, Replayed,
         OpenTurn, Wake, SnapshotFails, ReceiptLost, AskFails, CommitFails, Crash, Restart, tables
<1> QED
  BY <1>5, <1>6

-----------------------------------------------------------------------------
(* --------------------------------- theorems ----------------------------- *)

\* The invariant of a channel's asks holds of every state, whatever is
\* delivered late, lost, sent again or cut off by a crash.
THEOREM AsksInvHolds == Spec => []AsksInv
<1>1. Init => AsksInv
  <2> SUFFICES ASSUME Init PROVE AsksInv
    OBVIOUS
  <2>1. AsksTypeOK
    <3>1. NoLetter \in Letters /\ NoCursor \in Cursors
      BY DEF NoLetter, Letters, Cursors
    <3> QED
      BY <3>1, AsksAssumption DEF Init, AsksTypeOK, AsksAssumption
  <2>2. QueueKnown /\ DraftKnown /\ LettersTold /\ NextIsCovered /\ PassedIsTold /\ PlaceStands
    BY DEF Init, QueueKnown, DraftKnown, LettersTold, NextIsCovered, PassedIsTold, PlaceStands
  <2> QED
    BY <2>1, <2>2 DEF AsksInv
<1>2. AsksInv /\ [Next]_vars => AsksInv'
  BY TypesKept, QueueKept, DraftKept, LettersKept, NextKept, PassedKept, PlaceKept DEF AsksInv
<1> QED
  BY <1>1, <1>2, PTL DEF Spec

\* What the cursor of a session has passed the occupant was told, or it is one
\* of the cases the code leaves out on purpose.
THEOREM ContextIsSoundHolds == Spec => []ContextIsSound
<1>1. AsksInv => ContextIsSound
  BY DEF AsksInv, ContextIsSound
<1> QED
  BY <1>1, AsksInvHolds, PTL

\* When an ask is in the occupant's hands, the place file beside it has the
\* whole window of its channel and nothing else.
THEOREM PlaceTellsTheRestHolds == Spec => []PlaceTellsTheRest
<1>1. AsksInv => PlaceTellsTheRest
  BY DEF AsksInv, PlaceTellsTheRest, PlaceStands
<1> QED
  BY <1>1, AsksInvHolds, PTL
=============================================================================
