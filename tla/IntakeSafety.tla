------------------------------ MODULE IntakeSafety -----------------------------
(***************************************************************************)
(* The safety of what the host takes in.  From Kelpie's socket: for any    *)
(* set of messages, any of them unanswerable, any number of lost           *)
(* connections, while one lasts what Kelpie holds is never left where      *)
(* nobody will look for it.  From texts: what the host makes of posts,     *)
(* edits, messages, polls, rosters, day labels and the mux's names, for    *)
(* all inputs the assumptions of Texts allow.                              *)
(***************************************************************************)
EXTENDS Inbox, Texts, FiniteSetTheorems, SequenceTheorems, WellFoundedInduction, TLAPS

-----------------------------------------------------------------------------
(* ---------------------------- Kelpie's socket --------------------------- *)

\* What Kelpie holds can be offered line by line.
HeldIsFinite == IsFiniteSet(held)

\* Between two connections nothing is under way.
SilentUnlessClaimed ==
  ~connected => wire = <<>> /\ pending = <<>> /\ awaiting = None /\ request = None

\* Only deliveries are put aside, so a reply is always read from the socket.
DeliveriesPending == \A line \in ToSet(pending) : IsDelivery(line)

\* Kelpie reads one acknowledgement at a time, the one the thread waits for.
RequestAwaited == request \in {awaiting, None}

\* At most one reply is on the socket, and only while the thread waits.
ReplyAwaited ==
  \A i \in 1..Len(wire) :
    ~IsDelivery(wire[i]) =>
      /\ awaiting # None /\ request = None
      /\ \A j \in 1..Len(wire) : j # i => IsDelivery(wire[j])

InboxInv ==
  /\ InboxTypeOK /\ HeldIsFinite /\ SilentUnlessClaimed /\ DeliveriesPending
  /\ RequestAwaited /\ ReplyAwaited /\ NothingSkipped

-----------------------------------------------------------------------------
(* -------------------------------- sequences ----------------------------- *)

LEMMA LinesOfAppend ==
  ASSUME NEW S, NEW s \in Seq(S), NEW x \in S
  PROVE  ToSet(Append(s, x)) = ToSet(s) \cup {x}
<1> DEFINE t == Append(s, x)
<1>1. /\ t \in Seq(S) /\ DOMAIN t = 1..Len(s) + 1 /\ DOMAIN s = 1..Len(s) /\ Len(s) \in Nat
      /\ t[Len(s) + 1] = x /\ \A i \in 1..Len(s) : t[i] = s[i]
  OBVIOUS
<1> HIDE DEF t
<1>2. \A i \in 1..Len(s) + 1 : i \in 1..Len(s) \/ i = Len(s) + 1
  BY <1>1
<1>3. Len(s) + 1 \in 1..Len(s) + 1 /\ \A i \in 1..Len(s) : i \in 1..Len(s) + 1
  BY <1>1
<1> QED
  BY <1>1, <1>2, <1>3 DEF ToSet, t

LEMMA LinesOfTail ==
  ASSUME NEW S, NEW s \in Seq(S), s # <<>>
  PROVE  /\ ToSet(s) = {Head(s)} \cup ToSet(Tail(s))
         /\ Head(s) \in S /\ Tail(s) \in Seq(S) /\ 1 \in 1..Len(s) /\ Head(s) = s[1]
         /\ \A i \in 1..Len(Tail(s)) :
              i + 1 \in 1..Len(s) /\ i + 1 # 1 /\ Tail(s)[i] = s[i + 1]
<1>1. /\ Head(s) \in S /\ Tail(s) \in Seq(S) /\ 1 \in 1..Len(s) /\ Head(s) = s[1]
      /\ DOMAIN s = 1..Len(s) /\ DOMAIN Tail(s) = 1..Len(Tail(s))
      /\ Len(s) \in Nat /\ Len(Tail(s)) = Len(s) - 1
      /\ \A i \in 1..Len(Tail(s)) :
           i + 1 \in 1..Len(s) /\ i + 1 # 1 /\ Tail(s)[i] = s[i + 1]
  OBVIOUS
<1>2. \A i \in 1..Len(s) : i = 1 \/ (i - 1 \in 1..Len(Tail(s)) /\ Tail(s)[i - 1] = s[i])
  <2> SUFFICES ASSUME NEW i \in 1..Len(s), i # 1
               PROVE  i - 1 \in 1..Len(Tail(s)) /\ Tail(s)[i - 1] = s[i]
    OBVIOUS
  <2>1. i - 1 \in 1..Len(Tail(s)) /\ (i - 1) + 1 = i
    BY <1>1
  <2> QED
    BY <1>1, <2>1
<1>3. ASSUME NEW x \in ToSet(s) PROVE x = Head(s) \/ x \in ToSet(Tail(s))
  <2>1. PICK i \in 1..Len(s) : x = s[i]
    BY <1>1 DEF ToSet
  <2>2. CASE i = 1
    BY <1>1, <2>1, <2>2
  <2>3. CASE i # 1
    <3>1. i - 1 \in DOMAIN Tail(s) /\ Tail(s)[i - 1] = x
      BY <1>1, <1>2, <2>1, <2>3
    <3> QED
      BY <3>1, Zenon DEF ToSet
  <2> QED
    BY <2>2, <2>3
<1>4. ToSet(Tail(s)) \subseteq ToSet(s)
  BY <1>1 DEF ToSet
<1>5. Head(s) \in ToSet(s)
  BY <1>1 DEF ToSet
<1>6. /\ Head(s) \in S /\ Tail(s) \in Seq(S) /\ 1 \in 1..Len(s) /\ Head(s) = s[1]
      /\ \A i \in 1..Len(Tail(s)) :
           i + 1 \in 1..Len(s) /\ i + 1 # 1 /\ Tail(s)[i] = s[i + 1]
  BY <1>1
<1> QED
  BY <1>3, <1>4, <1>5, <1>6

LEMMA LinesOfNone == ToSet(<<>>) = {}
<1>1. DOMAIN <<>> = {}
  OBVIOUS
<1> QED
  BY <1>1 DEF ToSet

\* A finite set can be given as a sequence.
LEMMA LinesOfSet ==
  ASSUME NEW S, IsFiniteSet(S)
  PROVE  SetToSeq(S) \in Seq(S) /\ ToSet(SetToSeq(S)) = S
<1> DEFINE n == Cardinality(S)
<1>1. n \in Nat /\ ExistsBijection(1..n, S)
  BY FS_CardinalityType
<1>2. \E f \in [1..n -> S] : IsInjective(f)
  BY <1>1 DEF ExistsBijection, Bijection, Injection
<1> DEFINE f == SetToSeq(S)
<1>3. f \in [1..n -> S] /\ IsInjective(f)
  BY <1>2 DEF SetToSeq
<1>4. f \in Injection(1..n, S)
  BY <1>3 DEF Injection
<1>5. Cardinality(1..n) = n
  BY <1>1, FS_Interval
<1>6. f \in Surjection(1..n, S)
  BY <1>4, <1>5, FS_Injection
<1>7. \A x \in S : \E i \in 1..n : f[i] = x
  BY <1>6 DEF Surjection
<1> HIDE DEF f
<1>8. f \in Seq(S)
  BY <1>1, <1>3
<1> QED
  BY <1>3, <1>7, <1>8 DEF ToSet, f

-----------------------------------------------------------------------------
(* -------------------------------- reading ------------------------------- *)

LEMMA LineTypes ==
  /\ \A m \in Messages : Delivery(m) \in Lines /\ IsDelivery(Delivery(m)) /\ Delivery(m).of = m
  /\ \A m \in Messages, accepted \in BOOLEAN :
       Reply(m, accepted) \in Lines /\ ~IsDelivery(Reply(m, accepted))
  /\ \A line \in Lines : line.of \in Messages /\ (IsDelivery(line) => line = Delivery(line.of))
  BY DEF Lines, Delivery, Reply, IsDelivery

\* A line taken is the only one that is gone, and a reply leaves only deliveries.
LEMMA LineTaken ==
  ASSUME InboxTypeOK, DeliveriesPending, ReplyAwaited, CanRead, TakeLine
  PROVE  /\ NextLine \in Lines /\ wire' \in Seq(Lines) /\ pending' \in Seq(Lines)
         /\ ToSet(wire) \cup ToSet(pending) = {NextLine} \cup ToSet(wire') \cup ToSet(pending')
         /\ DeliveriesPending'
         /\ awaiting' = awaiting /\ request' = request => ReplyAwaited'
         /\ awaiting = None => IsDelivery(NextLine) /\ \A i \in 1..Len(wire') : IsDelivery(wire'[i])
         /\ ~IsDelivery(NextLine) =>
              /\ awaiting # None /\ request = None
              /\ \A i \in 1..Len(wire') : IsDelivery(wire'[i])
<1>1. wire \in Seq(Lines) /\ pending \in Seq(Lines)
  BY DEF InboxTypeOK
<1>2. CASE pending # <<>>
  <2>1. NextLine = Head(pending) /\ pending' = Tail(pending) /\ wire' = wire
    BY <1>2 DEF NextLine, TakeLine
  <2>2. /\ ToSet(pending) = {Head(pending)} \cup ToSet(Tail(pending))
        /\ Head(pending) \in Lines /\ Tail(pending) \in Seq(Lines)
    BY <1>1, <1>2, LinesOfTail
  <2>3. IsDelivery(NextLine) /\ DeliveriesPending'
    BY <2>1, <2>2 DEF DeliveriesPending
  <2>4. awaiting = None => \A i \in 1..Len(wire) : IsDelivery(wire[i])
    BY DEF ReplyAwaited
  <2>5. awaiting' = awaiting /\ request' = request => ReplyAwaited'
    BY <2>1 DEF ReplyAwaited
  <2> QED
    BY <1>1, <2>1, <2>2, <2>3, <2>4, <2>5
<1>3. CASE pending = <<>>
  <2>1. NextLine = Head(wire) /\ wire' = Tail(wire) /\ pending' = pending /\ wire # <<>>
    BY <1>3 DEF NextLine, TakeLine, CanRead
  <2>2. /\ ToSet(wire) = {Head(wire)} \cup ToSet(Tail(wire))
        /\ Head(wire) \in Lines /\ Tail(wire) \in Seq(Lines) /\ 1 \in 1..Len(wire)
        /\ Head(wire) = wire[1]
        /\ \A i \in 1..Len(Tail(wire)) :
             i + 1 \in 1..Len(wire) /\ i + 1 # 1 /\ Tail(wire)[i] = wire[i + 1]
    BY <1>1, <2>1, LinesOfTail
  <2>3. awaiting = None => IsDelivery(NextLine) /\ \A i \in 1..Len(wire') : IsDelivery(wire'[i])
    BY <2>1, <2>2 DEF ReplyAwaited
  <2>4. ~IsDelivery(NextLine) =>
          /\ awaiting # None /\ request = None
          /\ \A i \in 1..Len(wire') : IsDelivery(wire'[i])
    BY <2>1, <2>2 DEF ReplyAwaited
  <2>5. ASSUME awaiting' = awaiting, request' = request PROVE ReplyAwaited'
    <3>1. ASSUME NEW i \in 1..Len(wire'), ~IsDelivery(wire'[i])
          PROVE  /\ awaiting # None /\ request = None
                 /\ \A j \in 1..Len(wire') : j # i => IsDelivery(wire'[j])
      <4>1. i + 1 \in 1..Len(wire) /\ ~IsDelivery(wire[i + 1])
        BY <2>1, <2>2, <3>1
      <4>2. awaiting # None /\ request = None /\ \A j \in 1..Len(wire) : j # i + 1 => IsDelivery(wire[j])
        BY <4>1 DEF ReplyAwaited
      <4>3. \A j \in 1..Len(wire') : j # i => j + 1 # i + 1
        OBVIOUS
      <4> QED
        BY <2>1, <2>2, <4>2, <4>3
    <3> QED
      BY <2>5, <3>1 DEF ReplyAwaited
  <2>6. DeliveriesPending'
    BY <2>1 DEF DeliveriesPending
  <2> QED
    BY <1>1, <2>1, <2>2, <2>3, <2>4, <2>5, <2>6
<1> QED
  BY <1>2, <1>3

-----------------------------------------------------------------------------
(* --------------------------- each step, in turn ------------------------- *)

\* With the connection all that was on it is gone, and nothing is promised.
LEMMA DisconnectSafety ==
  ASSUME InboxInv, Disconnect, held' = held, settled' = settled, acks' = acks, queue' = queue,
         drops' \in 0..MaxDrops
  PROVE  InboxInv'
<1>1. <<>> \in Seq(Lines) /\ Len(<<>>) = 0
  OBVIOUS
<1>2. InboxTypeOK' /\ HeldIsFinite'
  BY <1>1 DEF InboxInv, InboxTypeOK, HeldIsFinite, Disconnect
<1>3. SilentUnlessClaimed' /\ RequestAwaited' /\ NothingSkipped'
  BY DEF Disconnect, SilentUnlessClaimed, RequestAwaited, NothingSkipped
<1>4. DeliveriesPending' /\ ReplyAwaited'
  BY <1>1, LinesOfNone DEF Disconnect, DeliveriesPending, ReplyAwaited
<1> QED
  BY <1>2, <1>3, <1>4 DEF InboxInv

LEMMA ArrivalSafety ==
  ASSUME InboxInv, NEW m \in Messages, MessageArrives(m)
  PROVE  InboxInv'
<1> USE DEF InboxInv
<1>1. Delivery(m) \in Lines /\ IsDelivery(Delivery(m))
  BY LineTypes
<1>2. wire \in Seq(Lines) /\ Len(wire) \in Nat
  BY DEF InboxTypeOK
<1>3. InboxTypeOK' /\ HeldIsFinite'
  <2>1. wire' \in Seq(Lines)
    BY <1>1, <1>2 DEF MessageArrives
  <2>2. IsFiniteSet(held \cup {m})
    BY FS_AddElement DEF HeldIsFinite
  <2> QED
    BY <2>1, <2>2 DEF MessageArrives, InboxTypeOK, HeldIsFinite
<1>4. SilentUnlessClaimed' /\ DeliveriesPending' /\ RequestAwaited'
  BY DEF MessageArrives, SilentUnlessClaimed, DeliveriesPending, RequestAwaited
<1>5. ReplyAwaited'
  <2>1. CASE connected
    <3>1. /\ wire' = Append(wire, Delivery(m)) /\ Len(wire') = Len(wire) + 1
          /\ wire'[Len(wire) + 1] = Delivery(m) /\ \A i \in 1..Len(wire) : wire'[i] = wire[i]
          /\ UNCHANGED <<awaiting, request>>
      BY <1>1, <1>2, <2>1 DEF MessageArrives
    <3>2. \A i \in 1..Len(wire') : IsDelivery(wire'[i]) \/ (i \in 1..Len(wire) /\ wire'[i] = wire[i])
      BY <1>1, <1>2, <3>1
    <3> QED
      BY <3>1, <3>2 DEF ReplyAwaited
  <2>2. CASE ~connected
    BY <2>2 DEF MessageArrives, ReplyAwaited
  <2> QED
    BY <2>1, <2>2
<1>6. NothingSkipped'
  <2> SUFFICES ASSUME connected PROVE NothingSkipped'
    BY DEF MessageArrives, NothingSkipped
  <2>1. ToSet(wire') = ToSet(wire) \cup {Delivery(m)}
    BY <1>1, <1>2, LinesOfAppend DEF MessageArrives
  <2> QED
    BY <2>1 DEF MessageArrives, NothingSkipped
<1> QED
  BY <1>3, <1>4, <1>5, <1>6

LEMMA ReplySafety ==
  ASSUME InboxInv, KelpieReplies
  PROVE  InboxInv'
<1> USE DEF InboxInv
<1> DEFINE reply == Reply(request, request \in held)
<1>1. /\ request \in Messages /\ request = awaiting /\ awaiting # None /\ connected
      /\ request' = None /\ UNCHANGED <<connected, pending, awaiting, acks, queue, drops>>
      /\ held' = held \ {request}
  BY DEF KelpieReplies, InboxTypeOK, RequestAwaited, SilentUnlessClaimed
<1>2. reply \in Lines /\ wire' = Append(wire, reply)
  <2>1. (request \in held) \in BOOLEAN
    OBVIOUS
  <2> QED
    BY <1>1, <2>1, LineTypes DEF KelpieReplies
<1>3. wire \in Seq(Lines) /\ Len(wire) \in Nat
  BY DEF InboxTypeOK
<1> HIDE DEF reply
<1>4. wire' \in Seq(Lines)
  BY <1>2, <1>3
<1>5. InboxTypeOK' /\ HeldIsFinite'
  <2>1. IsFiniteSet(held \ {request})
    BY FS_RemoveElement DEF HeldIsFinite
  <2>2. settled' \subseteq Messages
    BY <1>1 DEF KelpieReplies, InboxTypeOK
  <2> QED
    BY <1>1, <1>4, <2>1, <2>2 DEF InboxTypeOK, HeldIsFinite
<1>6. SilentUnlessClaimed' /\ DeliveriesPending' /\ RequestAwaited'
  BY <1>1 DEF SilentUnlessClaimed, DeliveriesPending, RequestAwaited
<1>7. ReplyAwaited'
  <2>1. \A i \in 1..Len(wire) : IsDelivery(wire[i])
    BY <1>1, LineTypes DEF ReplyAwaited, InboxTypeOK, InboxAssumption, KelpieReplies
  <2>2. Len(wire') = Len(wire) + 1 /\ \A i \in 1..Len(wire) : wire'[i] = wire[i]
    BY <1>2, <1>3
  <2>3. \A i \in 1..Len(wire') : i = Len(wire) + 1 \/ IsDelivery(wire'[i])
    BY <1>3, <2>1, <2>2
  <2> QED
    BY <1>1, <2>3 DEF ReplyAwaited
<1>8. NothingSkipped'
  <2>1. ToSet(wire') = ToSet(wire) \cup {reply}
    BY <1>2, <1>3, LinesOfAppend
  <2> QED
    BY <1>1, <2>1 DEF NothingSkipped
<1> QED
  BY <1>5, <1>6, <1>7, <1>8

\* Claiming anew, the thread is offered all that Kelpie holds.
LEMMA ClaimSafety ==
  ASSUME InboxInv, Claim
  PROVE  InboxInv'
<1> USE DEF InboxInv
<1> DEFINE offers == {Delivery(m) : m \in held}
<1>1. /\ connected' /\ wire' = SetToSeq(offers)
      /\ UNCHANGED <<held, settled, request, pending, awaiting, acks, queue, drops>>
  BY DEF Claim
<1>2. IsFiniteSet(offers) /\ offers \subseteq Lines
  <2>1. [m \in held |-> Delivery(m)] \in Surjection(held, offers)
    BY DEF Surjection
  <2>2. \A m \in held : Delivery(m) \in Lines
    BY LineTypes DEF InboxTypeOK
  <2> QED
    BY <2>1, <2>2, FS_Surjection DEF HeldIsFinite
<1> HIDE DEF offers
<1>3. wire' \in Seq(offers) /\ ToSet(wire') = offers
  BY <1>1, <1>2, LinesOfSet
<1>4. wire' \in Seq(Lines)
  BY <1>2, <1>3
<1>5. InboxTypeOK' /\ HeldIsFinite' /\ DeliveriesPending' /\ RequestAwaited' /\ SilentUnlessClaimed'
  BY <1>1, <1>4
     DEF InboxTypeOK, HeldIsFinite, DeliveriesPending, RequestAwaited, SilentUnlessClaimed
<1>6. ReplyAwaited'
  <2>1. \A i \in 1..Len(wire') : wire'[i] \in offers
    BY <1>3
  <2>2. \A line \in offers : IsDelivery(line)
    BY LineTypes DEF InboxTypeOK, offers
  <2> QED
    BY <2>1, <2>2 DEF ReplyAwaited
<1>7. NothingSkipped'
  BY <1>1, <1>3 DEF NothingSkipped, offers
<1> QED
  BY <1>5, <1>6, <1>7

LEMMA StartAckSafety ==
  ASSUME InboxInv, StartAck
  PROVE  InboxInv'
<1> USE DEF InboxInv
<1>1. /\ connected /\ awaiting = None /\ acks # <<>> /\ acks' = Tail(acks)
      /\ awaiting' = Head(acks) /\ request' = Head(acks)
      /\ UNCHANGED <<held, settled, connected, wire, pending, queue, drops>>
  BY DEF StartAck, kelpie
<1>2. /\ ToSet(acks) = {Head(acks)} \cup ToSet(Tail(acks))
      /\ Head(acks) \in Messages /\ Tail(acks) \in Seq(Messages)
  BY <1>1, LinesOfTail DEF InboxTypeOK
<1>3. InboxTypeOK' /\ HeldIsFinite'
  BY <1>1, <1>2 DEF InboxTypeOK, HeldIsFinite
<1>4. SilentUnlessClaimed' /\ DeliveriesPending' /\ RequestAwaited'
  BY <1>1 DEF SilentUnlessClaimed, DeliveriesPending, RequestAwaited
<1>5. ReplyAwaited'
  BY <1>1 DEF ReplyAwaited
<1>6. request = None
  BY <1>1 DEF RequestAwaited
<1>7. None \notin Messages
  BY InboxAssumption DEF InboxAssumption
<1>8. NothingSkipped'
  BY <1>1, <1>2, <1>6, <1>7 DEF NothingSkipped, InboxTypeOK
<1> QED
  BY <1>3, <1>4, <1>5, <1>8

LEMMA ForwardSafety ==
  ASSUME InboxInv, Forward
  PROVE  InboxInv'
<1> USE DEF InboxInv
<1>1. /\ CanRead /\ awaiting = None /\ TakeLine
      /\ UNCHANGED <<held, settled, request, connected, awaiting, acks, drops>>
  BY DEF Forward, kelpie
<1>2. /\ NextLine \in Lines /\ wire' \in Seq(Lines) /\ pending' \in Seq(Lines)
      /\ ToSet(wire) \cup ToSet(pending) = {NextLine} \cup ToSet(wire') \cup ToSet(pending')
      /\ DeliveriesPending' /\ ReplyAwaited' /\ IsDelivery(NextLine)
  BY <1>1, LineTaken
<1>3. NextLine.of \in Messages /\ NextLine = Delivery(NextLine.of)
  BY <1>2, LineTypes
<1>4. queue' = Append(queue, NextLine.of)
  BY <1>2 DEF Forward
<1>5. queue' \in Seq(Messages) /\ ToSet(queue') = ToSet(queue) \cup {NextLine.of}
  BY <1>3, <1>4, LinesOfAppend DEF InboxTypeOK
<1>6. InboxTypeOK' /\ HeldIsFinite' /\ RequestAwaited'
  BY <1>1, <1>2, <1>5 DEF InboxTypeOK, HeldIsFinite, RequestAwaited
<1>7. SilentUnlessClaimed'
  BY <1>1 DEF SilentUnlessClaimed, CanRead
<1>8. NothingSkipped'
  <2>1. ASSUME NEW m \in held, Delivery(m) = NextLine PROVE m = NextLine.of
    BY <2>1, LineTypes DEF InboxTypeOK
  <2> QED
    BY <1>1, <1>2, <1>5, <2>1 DEF NothingSkipped
<1> QED
  BY <1>2, <1>6, <1>7, <1>8

LEMMA SetAsideSafety ==
  ASSUME InboxInv, SetAside
  PROVE  InboxInv'
<1> USE DEF InboxInv
<1>1. /\ CanRead /\ awaiting # None /\ IsDelivery(NextLine) /\ connected
      /\ UNCHANGED <<held, settled, request, connected, awaiting, acks, queue, drops>>
  BY DEF SetAside, CanRead, kelpie
<1>2. wire \in Seq(Lines) /\ pending \in Seq(Lines)
  BY DEF InboxTypeOK
<1>3. /\ wire' \in Seq(Lines) /\ pending' \in Seq(Lines) /\ DeliveriesPending' /\ ReplyAwaited'
      /\ ToSet(wire) \cup ToSet(pending) = ToSet(wire') \cup ToSet(pending')
  <2>1. CASE pending # <<>>
    <3>1. pending' = Append(Tail(pending), Head(pending)) /\ wire' = wire
      BY <2>1 DEF SetAside
    <3>2. /\ ToSet(pending) = {Head(pending)} \cup ToSet(Tail(pending))
          /\ Head(pending) \in Lines /\ Tail(pending) \in Seq(Lines)
      BY <1>2, <2>1, LinesOfTail
    <3>3. ToSet(pending') = ToSet(Tail(pending)) \cup {Head(pending)} /\ pending' \in Seq(Lines)
      <4> DEFINE rest == Tail(pending)
                 line == Head(pending)
      <4>1. rest \in Seq(Lines) /\ line \in Lines /\ pending' = Append(rest, line)
        BY <3>1, <3>2
      <4> HIDE DEF rest, line
      <4>2. ToSet(pending') = ToSet(rest) \cup {line} /\ pending' \in Seq(Lines)
        BY <4>1, LinesOfAppend
      <4> QED
        BY <4>2 DEF rest, line
    <3>4. DeliveriesPending'
      BY <3>2, <3>3 DEF DeliveriesPending
    <3>5. ReplyAwaited'
      BY <1>1, <3>1 DEF ReplyAwaited
    <3> QED
      BY <1>2, <3>1, <3>2, <3>3, <3>4, <3>5
  <2>2. CASE pending = <<>>
    <3>1. pending' = <<Head(wire)>> /\ wire' = Tail(wire) /\ NextLine = Head(wire) /\ wire # <<>>
      BY <1>1, <2>2 DEF SetAside, NextLine, CanRead
    <3>2. /\ ToSet(wire) = {Head(wire)} \cup ToSet(Tail(wire))
          /\ Head(wire) \in Lines /\ Tail(wire) \in Seq(Lines) /\ 1 \in 1..Len(wire)
          /\ Head(wire) = wire[1]
          /\ \A i \in 1..Len(Tail(wire)) :
               i + 1 \in 1..Len(wire) /\ i + 1 # 1 /\ Tail(wire)[i] = wire[i + 1]
      BY <1>2, <3>1, LinesOfTail
    <3>3. pending' = Append(pending, Head(wire))
      BY <2>2, <3>1, <3>2
    <3>4. ToSet(pending') = ToSet(pending) \cup {Head(wire)} /\ pending' \in Seq(Lines)
      BY <1>2, <3>2, <3>3, LinesOfAppend
    <3>5. DeliveriesPending'
      BY <1>1, <3>1, <3>4 DEF DeliveriesPending
    <3>6. ASSUME NEW i \in 1..Len(wire'), ~IsDelivery(wire'[i])
          PROVE  /\ awaiting # None /\ request = None
                 /\ \A j \in 1..Len(wire') : j # i => IsDelivery(wire'[j])
      <4>1. i + 1 \in 1..Len(wire) /\ ~IsDelivery(wire[i + 1])
        BY <3>1, <3>2, <3>6
      <4>2. awaiting # None /\ request = None /\ \A j \in 1..Len(wire) : j # i + 1 => IsDelivery(wire[j])
        BY <4>1 DEF ReplyAwaited
      <4>3. \A j \in 1..Len(wire') : j # i => j + 1 # i + 1
        OBVIOUS
      <4> QED
        BY <3>1, <3>2, <4>2, <4>3
    <3>7. ReplyAwaited'
      BY <1>1, <3>6 DEF ReplyAwaited
    <3> QED
      BY <1>2, <3>1, <3>2, <3>4, <3>5, <3>7
  <2> QED
    BY <2>1, <2>2
<1>4. InboxTypeOK' /\ HeldIsFinite' /\ RequestAwaited' /\ SilentUnlessClaimed'
  BY <1>1, <1>3 DEF InboxTypeOK, HeldIsFinite, RequestAwaited, SilentUnlessClaimed
<1>5. NothingSkipped'
  BY <1>1, <1>3 DEF NothingSkipped
<1> QED
  BY <1>3, <1>4, <1>5

\* The reply was read, and with it the only line that is not a delivery.
LEMMA AcceptedSafety ==
  ASSUME InboxInv, AckAccepted
  PROVE  InboxInv'
<1> USE DEF InboxInv
<1>1. /\ CanRead /\ TakeLine /\ awaiting \in Messages /\ NextLine = Reply(awaiting, TRUE)
      /\ awaiting' = None /\ connected
      /\ UNCHANGED <<held, settled, request, connected, acks, queue, drops>>
  BY DEF AckAccepted, CanRead, kelpie, InboxTypeOK
<1>2. ~IsDelivery(NextLine)
  BY <1>1, LineTypes
<1>3. /\ wire' \in Seq(Lines) /\ pending' \in Seq(Lines) /\ DeliveriesPending'
      /\ ToSet(wire) \cup ToSet(pending) = {NextLine} \cup ToSet(wire') \cup ToSet(pending')
      /\ request = None /\ \A i \in 1..Len(wire') : IsDelivery(wire'[i])
  BY <1>1, <1>2, LineTaken
<1>4. InboxTypeOK' /\ HeldIsFinite' /\ RequestAwaited' /\ SilentUnlessClaimed' /\ ReplyAwaited'
  BY <1>1, <1>3
     DEF InboxTypeOK, HeldIsFinite, RequestAwaited, SilentUnlessClaimed, ReplyAwaited
<1>5. NothingSkipped'
  <2>1. \A m \in held : Delivery(m) # NextLine
    BY <1>2, LineTypes DEF InboxTypeOK
  <2> QED
    BY <1>1, <1>3, <2>1 DEF NothingSkipped
<1> QED
  BY <1>3, <1>4, <1>5

LEMMA HandlesSafety ==
  ASSUME InboxInv, HostHandles
  PROVE  InboxInv'
<1> USE DEF InboxInv
<1>1. /\ queue # <<>> /\ queue' = Tail(queue)
      /\ acks' = IF Head(queue) \in Unanswerable THEN acks ELSE Append(acks, Head(queue))
      /\ UNCHANGED <<held, settled, request, connected, wire, pending, awaiting, drops>>
  BY DEF HostHandles, kelpie
<1>2. /\ ToSet(queue) = {Head(queue)} \cup ToSet(Tail(queue))
      /\ Head(queue) \in Messages /\ Tail(queue) \in Seq(Messages)
  BY <1>1, LinesOfTail DEF InboxTypeOK
<1>3. /\ acks' \in Seq(Messages) /\ ToSet(acks) \subseteq ToSet(acks')
      /\ Head(queue) \in Unanswerable \/ Head(queue) \in ToSet(acks')
  <2>1. CASE Head(queue) \in Unanswerable
    BY <1>1, <2>1 DEF InboxTypeOK
  <2>2. CASE Head(queue) \notin Unanswerable
    BY <1>1, <1>2, <2>2, LinesOfAppend DEF InboxTypeOK
  <2> QED
    BY <2>1, <2>2
<1>4. /\ InboxTypeOK' /\ HeldIsFinite' /\ SilentUnlessClaimed' /\ DeliveriesPending'
      /\ RequestAwaited' /\ ReplyAwaited'
  BY <1>1, <1>2, <1>3
     DEF InboxTypeOK, HeldIsFinite, SilentUnlessClaimed, DeliveriesPending, RequestAwaited,
         ReplyAwaited
<1>5. NothingSkipped'
  BY <1>1, <1>2, <1>3 DEF NothingSkipped
<1> QED
  BY <1>4, <1>5

-----------------------------------------------------------------------------
(* --------------------------------- theorems ----------------------------- *)

\* The invariant of the thread and its connection holds of every state,
\* whatever is dropped, offered twice or refused.
THEOREM InboxInvHolds == Spec => []InboxInv
<1>1. Init => InboxInv
  <2> SUFFICES ASSUME Init PROVE InboxInv
    OBVIOUS
  <2>1. InboxTypeOK
    <3>1. /\ <<>> \in Seq(Lines) /\ <<>> \in Seq(Messages) /\ FALSE \in BOOLEAN
          /\ 0 \in 0..MaxDrops
      BY InboxAssumption DEF InboxAssumption
    <3> QED
      BY <3>1 DEF Init, InboxTypeOK
  <2>2. HeldIsFinite /\ SilentUnlessClaimed /\ RequestAwaited /\ NothingSkipped
    BY DEF Init, HeldIsFinite, SilentUnlessClaimed, RequestAwaited, NothingSkipped
  <2>3. DeliveriesPending /\ ReplyAwaited
    BY LinesOfNone DEF Init, DeliveriesPending, ReplyAwaited
  <2> QED
    BY <2>1, <2>2, <2>3 DEF InboxInv
<1>2. InboxInv /\ [Next]_vars => InboxInv'
  <2> SUFFICES ASSUME InboxInv, [Next]_vars PROVE InboxInv'
    OBVIOUS
  <2>1. CASE Drop
    <3>1. drops' \in 0..MaxDrops
      BY <2>1, InboxAssumption DEF Drop, InboxInv, InboxTypeOK, InboxAssumption
    <3> QED
      BY <2>1, <3>1, DisconnectSafety DEF Drop, kelpie
  <2>2. CASE AckRefused
    <3>1. drops' \in 0..MaxDrops
      BY <2>2 DEF AckRefused, InboxInv, InboxTypeOK
    <3> QED
      BY <2>2, <3>1, DisconnectSafety DEF AckRefused, kelpie
  <2>3. CASE UNCHANGED vars
    BY <2>3 DEF vars, InboxInv, InboxTypeOK, HeldIsFinite, SilentUnlessClaimed, DeliveriesPending,
                RequestAwaited, ReplyAwaited, NothingSkipped
  <2> QED
    BY <2>1, <2>2, <2>3, ArrivalSafety, ReplySafety, ClaimSafety, StartAckSafety, ForwardSafety,
       SetAsideSafety, AcceptedSafety, HandlesSafety DEF Next, Thread
<1> QED
  BY <1>1, <1>2, PTL DEF Spec

\* While the thread holds its claim, no message Kelpie holds for the host is
\* left where neither of them would look for it.
THEOREM InboxIsSoundHolds == Spec => []InboxIsSound
<1>1. InboxInv => InboxIsSound
  BY DEF InboxInv, InboxIsSound
<1> QED
  BY <1>1, InboxInvHolds, PTL

-----------------------------------------------------------------------------
(* --------------------------------- texts -------------------------------- *)

\* Each input is one of its kind.
TakenFrom ==
  /\ input.of = "post" => input.event \in Posts
  /\ input.of = "edit" => \E e \in Edits : input.event = e.event /\ input.target = e.target
  /\ input.of = "thread" => \E t \in Threads : input.event = t.event /\ input.root = t.root
  /\ input.of = "body" => input.body \in Bodies
  /\ input.of = "answer" =>
       \E a \in Answers : input.text = a.text /\ input.requester = a.requester /\ input.audience = a.audience
  /\ input.of = "roster" =>
       \E r \in Rosters :
         /\ input.held = r.held /\ input.read = r.read /\ input.answered = r.answered
         /\ input.lists = r.lists /\ input.authors = r.authors
  /\ input.of = "file" => input.text \in Files
  /\ input.of = "search" => \E s \in Searches : input.request = s.request /\ input.day = s.day
  /\ input.of = "bind" =>
       \E b \in Binds :
         /\ input.adopt = b.adopt /\ input.whoami = b.whoami
         /\ input.recorded = b.recorded /\ input.holder = b.holder
  /\ input.of = "restart" => input.day \in Restarts
  /\ input.of = "ask" =>
       \E a \in Asks : input.day = a.day /\ input.recorded = a.recorded /\ input.owed = a.owed

-----------------------------------------------------------------------------
(* --------------------------------- inputs ------------------------------- *)

\* Three actions go on with an input.
LEMMA OfTheGoingOn ==
  /\ AskNext => input'.of = "asking"
  /\ PollNext => input'.of = "polls"
  /\ StepNext => input'.of = "day"
<1>1. ASSUME AskNext PROVE input'.of = "asking"
  BY <1>1 DEF AskNext
<1>2. ASSUME PollNext PROVE input'.of = "polls"
  <2>1. PICK step \in Polls :
          input' = [of |-> "polls", poll |-> PollRelay(input.poll, step), scope |-> step.scope,
                    subscribed |-> input.subscribed \/ (step.fails = 0 /\ step.cursor)]
    BY <1>2, Zenon DEF PollNext
  <2> DEFINE subscribed == input.subscribed \/ (step.fails = 0 /\ step.cursor)
  <2>2. input' = [of |-> "polls", poll |-> PollRelay(input.poll, step), scope |-> step.scope,
                  subscribed |-> subscribed]
    BY <2>1, Zenon
  <2> HIDE DEF subscribed
  <2> QED
    BY <2>2
<1>3. ASSUME StepNext PROVE input'.of = "day"
  BY <1>3 DEF StepNext
<1> QED
  BY <1>1, <1>2, <1>3

\* No other does.
LEMMA OfTheStep ==
  ASSUME TextsNext
  PROVE  /\ input'.of = "asking" => TakeNoAsk \/ AskNext
         /\ input'.of = "polls" => TakeConnection \/ PollNext
         /\ input'.of = "day" => TakeRegistry \/ StepNext
<1>1. CASE AskNext \/ PollNext \/ StepNext
  BY <1>1, OfTheGoingOn
<1>2. CASE TakePost \/ TakeEdit \/ TakeThread \/ TakeBody \/ TakeAnswer
  BY <1>2 DEF TakePost, TakeEdit, TakeThread, TakeBody, TakeAnswer
<1>3. CASE TakeRoster \/ TakeFile \/ TakeSearch \/ TakeBind \/ TakeRestart \/ TakeAsk
  BY <1>3 DEF TakeRoster, TakeFile, TakeSearch, TakeBind, TakeRestart, TakeAsk
<1>4. CASE TakeNoAsk \/ TakeConnection \/ TakeRegistry
  BY <1>4 DEF TakeNoAsk, TakeConnection, TakeRegistry
<1> QED
  BY <1>1, <1>2, <1>3, <1>4 DEF TextsNext

LEMMA TakenFromStep ==
  ASSUME TakenFrom, [TextsNext]_input
  PROVE  TakenFrom'
<1>1. CASE TakePost
  BY <1>1 DEF TakePost, TakenFrom
<1>2. CASE TakeEdit
  BY <1>2 DEF TakeEdit, TakenFrom
<1>3. CASE TakeThread
  BY <1>3 DEF TakeThread, TakenFrom
<1>4. CASE TakeBody
  BY <1>4 DEF TakeBody, TakenFrom
<1>5. CASE TakeAnswer
  BY <1>5 DEF TakeAnswer, TakenFrom
<1>6. CASE TakeRoster
  BY <1>6 DEF TakeRoster, TakenFrom
<1>7. CASE TakeFile
  BY <1>7 DEF TakeFile, TakenFrom
<1>8. CASE TakeSearch
  BY <1>8 DEF TakeSearch, TakenFrom
<1>9. CASE TakeBind
  BY <1>9 DEF TakeBind, TakenFrom
<1>10. CASE TakeRestart
  BY <1>10 DEF TakeRestart, TakenFrom
<1>11. CASE TakeAsk
  BY <1>11 DEF TakeAsk, TakenFrom
<1>12. CASE TakeNoAsk \/ TakeConnection \/ TakeRegistry
  BY <1>12 DEF TakeNoAsk, TakeConnection, TakeRegistry, TakenFrom
<1>13. CASE AskNext \/ PollNext \/ StepNext
  <2>1. input'.of \in {"asking", "polls", "day"}
    BY <1>13, OfTheGoingOn
  <2> QED
    BY <2>1 DEF TakenFrom
<1>14. CASE UNCHANGED input
  BY <1>14 DEF TakenFrom
<1> QED
  BY <1>1, <1>2, <1>3, <1>4, <1>5, <1>6, <1>7, <1>8, <1>9, <1>10, <1>11, <1>12, <1>13, <1>14
  DEF TextsNext

\* Whatever the properties speak of was taken from the constants.
THEOREM TakenFromHolds == TextsSpec => []TakenFrom
<1>1. TextsInit => TakenFrom
  BY DEF TextsInit, TakenFrom
<1>2. TakenFrom /\ [TextsNext]_input => TakenFrom'
  BY TakenFromStep
<1> QED
  BY <1>1, <1>2, PTL DEF TextsSpec
-----------------------------------------------------------------------------
(* -------------------------------- numbers ------------------------------- *)

LEMMA LeastMember ==
  ASSUME NEW T, T \subseteq Nat, T # {}
  PROVE  Min(T) \in T /\ \A y \in T : Min(T) <= y
<1> DEFINE R == {ss \in Nat \X Nat : ss[1] < ss[2]}
<1>1. IsWellFoundedOn(R, Nat)
  BY NatLessThanWellFounded DEF OpToRel
<1> HIDE DEF R
<1>2. PICK x \in T : \A y \in T : <<y, x>> \notin R
  BY <1>1, WFMin
<1>3. ASSUME NEW y \in T PROVE x <= y
  <2>1. ~(y < x)
    BY <1>2 DEF R
  <2> QED
    BY <2>1
<1> QED
  BY <1>3 DEF Min

LEMMA GreatestMember ==
  ASSUME NEW T, NEW n \in Nat, T \subseteq 0..n, T # {}
  PROVE  Max(T) \in T /\ \A y \in T : Max(T) >= y
<1> DEFINE below == {n - t : t \in T}
<1>1. below \subseteq Nat /\ below # {}
  OBVIOUS
<1> HIDE DEF below
<1>2. Min(below) \in below /\ \A y \in below : Min(below) <= y
  BY <1>1, LeastMember
<1>3. PICK t \in T : Min(below) = n - t
  BY <1>2 DEF below
<1>4. ASSUME NEW s \in T PROVE t >= s
  <2>1. n - s \in below
    BY DEF below
  <2>2. n - t <= n - s
    BY <2>1, <1>2, <1>3
  <2> QED
    BY <2>2
<1> QED
  BY <1>4 DEF Max

LEMMA SeqDomain ==
  ASSUME NEW s, IsSeq(s)
  PROVE  Len(s) \in Nat /\ DOMAIN s = 1..Len(s) /\ DOMAIN s \subseteq Nat
  BY DEF IsSeq

\* A sequence without its repetitions that is left with one element has no other.
LEMMA OnceOfOne ==
  ASSUME NEW s, IsSeq(s), Len(Once(s)) = 1
  PROVE  Range(s) = {Once(s)[1]}
<1> DEFINE F == {i \in DOMAIN s : \A j \in DOMAIN s : j < i => s[j] # s[i]}
<1>1. Len(s) \in Nat /\ DOMAIN s = 1..Len(s)
  BY SeqDomain
<1>2. IsFiniteSet(F)
  <2>1. IsFiniteSet(1..Len(s))
    BY <1>1, FS_Interval
  <2>2. F \subseteq 1..Len(s)
    BY <1>1
  <2> HIDE DEF F
  <2> QED
    BY <2>1, <2>2, FS_Subset
<1>3. Once(s) = [k \in 1..Cardinality(F) |-> s[Nth(F, k)]]
  BY DEF Once, Picked
<1>4. F \subseteq DOMAIN s
  OBVIOUS
<1>5. ASSUME NEW v \in DOMAIN s PROVE \E i \in F : s[i] = s[v]
  <2> DEFINE same == {j \in DOMAIN s : s[j] = s[v]}
  <2>1. same \subseteq Nat /\ same # {}
    BY <1>1
  <2> HIDE DEF same
  <2>2. Min(same) \in same /\ \A y \in same : Min(same) <= y
    BY <2>1, LeastMember
  <2>3. Min(same) \in DOMAIN s /\ s[Min(same)] = s[v]
    BY <2>2 DEF same
  <2>4. ASSUME NEW j \in DOMAIN s, j < Min(same) PROVE s[j] # s[v]
    <3>1. j \notin same
      BY <2>2, <2>3, <2>4, <1>1
    <3> QED
      BY <3>1 DEF same
  <2> QED
    BY <2>3, <2>4
<1> HIDE DEF F
<1>6. Cardinality(F) \in Nat
  BY <1>2, FS_CardinalityType
<1>7. Cardinality(F) = 1
  BY <1>3, <1>6
<1>8. PICK x : F = {x}
  BY <1>2, <1>7, FS_Singleton
<1>9. x \in DOMAIN s
  BY <1>8, <1>4
<1>10. {j \in F : j <= x} = F
  BY <1>8, <1>9, <1>1
<1>11. Nth(F, 1) = x
  BY <1>10, <1>8, <1>7 DEF Nth
<1>12. Once(s)[1] = s[x]
  BY <1>3, <1>7, <1>11
<1>13. \A v \in DOMAIN s : s[v] = s[x]
  BY <1>5, <1>8
<1> QED
  BY <1>12, <1>13, <1>9 DEF Range
-----------------------------------------------------------------------------
(* --------------------------- Kelpie's word ------------------------------ *)

LEMMA WhoamiRead ==
  ASSUME NEW process, Whoami(process).ok
  PROVE  Whoami(process).value.agent = process.receipt.agent
  BY DEF Whoami, Invoke, Refusal, Read, Fields, Identity

LEMMA ExpectingRead ==
  ASSUME NEW read, NEW recorded, Expecting(read, recorded).ok
  PROVE  /\ read.ok /\ Expecting(read, recorded) = read
         /\ recorded \in {Missing, read.value.agent}
  BY DEF Expecting, Refusal

LEMMA BindAgentRead ==
  ASSUME NEW adopt, NEW whoami, NEW holder,
         AlreadyAdopted(adopt.receipt) \in {holder, Missing},
         adopt.success => adopt.receipt.incarnation \in {holder, Missing},
         BindAgent(adopt, whoami).ok
  PROVE  BindAgent(adopt, whoami).value.incarnation = holder
<1>1. Invoke(adopt).ok
  BY DEF BindAgent
<1>2. CASE adopt.success
  <2>1. BindAgent(adopt, whoami) = Read(Identity(adopt.receipt))
        /\ Fields(adopt.receipt, {"agent", "incarnation", "outcome"})
    BY <1>1, <1>2 DEF BindAgent, Refusal
  <2> QED
    BY <2>1, <1>2 DEF Read, Identity, Fields
<1>3. CASE ~adopt.success
  <2>1. /\ AlreadyAdopted(adopt.receipt) = holder
        /\ BindAgent(adopt, whoami) = IdentityFromWhoami(whoami, holder)
    BY <1>1, <1>3 DEF BindAgent, Refusal
  <2>2. Whoami(whoami).ok /\ Whoami(whoami).value.incarnation = holder
    BY <2>1 DEF IdentityFromWhoami, Refusal
  <2> QED
    BY <2>1, <2>2 DEF IdentityFromWhoami
<1> QED
  BY <1>2, <1>3

LEMMA PaneIsItsAgentsTaken ==
  ASSUME TakenFrom
  PROVE  PaneIsItsAgents
<1> SUFFICES ASSUME input.of = "bind",
                    AdoptOccupant(input.adopt, input.whoami, input.recorded).ok
             PROVE  LET bound == AdoptOccupant(input.adopt, input.whoami, input.recorded)
                    IN /\ bound.value.incarnation = input.holder
                       /\ input.recorded \in {Missing, bound.value.agent}
  BY DEF PaneIsItsAgents
<1>1. PICK b \in Binds : input.adopt = b.adopt /\ input.holder = b.holder
  BY DEF TakenFrom
<1>2. /\ AlreadyAdopted(input.adopt.receipt) \in {input.holder, Missing}
      /\ input.adopt.success => input.adopt.receipt.incarnation \in {input.holder, Missing}
  BY <1>1, BindsAssumption DEF BindsAssumption
<1> DEFINE read == BindAgent(input.adopt, input.whoami)
<1>3. /\ read.ok /\ AdoptOccupant(input.adopt, input.whoami, input.recorded) = read
      /\ input.recorded \in {Missing, read.value.agent}
  BY ExpectingRead DEF AdoptOccupant
<1>4. read.value.incarnation = input.holder
  BY <1>2, <1>3, BindAgentRead
<1> QED
  BY <1>3, <1>4

\* One obligation toward the host is listed, or none is taken.
LEMMA PendingAskRead ==
  ASSUME NEW process, IsSeq(process.receipt.owed), PendingAsk(process).ok
  PROVE  LET owed == process.receipt.owed
             ask == PendingAsk(process).value
         IN /\ Invoke(process).ok /\ process.success
            /\ \E o \in Range(owed) : o.ask = ask /\ o.to = Waiter
            /\ \A o \in Range(owed) : o.to = Waiter /\ o.ask # Missing => o.ask = ask
<1> DEFINE owed == process.receipt.owed
           asks == OwedToHost(owed)
<1>1. /\ Invoke(process).ok /\ process.success
      /\ \E i \in asks : asks = {i}
      /\ PendingAsk(process) = Read(owed[Min(asks)].ask)
  BY Zenon DEF PendingAsk, Refusal
<1>2. PICK i \in asks : asks = {i}
  BY <1>1
<1>3. i \in DOMAIN owed /\ owed[i].to = Waiter /\ DOMAIN owed \subseteq Nat
  BY <1>2, SeqDomain DEF OwedToHost
<1>4. Min(asks) = i
  <2>1. asks \subseteq Nat /\ asks # {}
    BY <1>2, <1>3
  <2> HIDE DEF asks
  <2> QED
    BY <1>2, <2>1, LeastMember
<1>5. PendingAsk(process).value = owed[i].ask
  BY <1>1, <1>4 DEF Read
<1>6. owed[i] \in Range(owed)
  BY <1>3 DEF Range
<1>7. ASSUME NEW o \in Range(owed), o.to = Waiter, o.ask # Missing PROVE o.ask = owed[i].ask
  <2>1. PICK j \in DOMAIN owed : owed[j] = o
    BY DEF Range
  <2>2. j \in asks
    BY <2>1, <1>7 DEF OwedToHost
  <2> QED
    BY <2>1, <2>2, <1>2
<1> QED
  BY <1>1, <1>3, <1>5, <1>6, <1>7

LEMMA ReceiptNamesAnAskTaken ==
  ASSUME TakenFrom
  PROVE  ReceiptNamesAnAsk
<1> DEFINE receipt == AskNamed(input.day, input.recorded)
           recipient == Expecting(Whoami(input.day.whoami), input.recorded)
<1> SUFFICES ASSUME input.of = "ask", receipt.ok
             PROVE  /\ input.recorded \in {Missing, receipt.value.to}
                    /\ \E o \in Range(input.owed) : o.ask = receipt.value.ask /\ o.to = Waiter
                    /\ receipt.value.delivery = "unknown" /\ ~input.day.ask.success =>
                         \A o \in Range(input.owed) :
                           o.to = Waiter /\ o.ask # Missing => o.ask = receipt.value.ask
  BY DEF ReceiptNamesAnAsk
<1>1. PICK a \in Asks : input.day = a.day /\ input.owed = a.owed
  BY DEF TakenFrom
<1>2. /\ IsSeq(input.owed)
      /\ Invoke(input.day.pending).ok /\ input.day.pending.success =>
           input.day.pending.receipt.owed = input.owed
      /\ input.day.ask.success /\ input.day.ask.receipt.ask # Missing =>
           /\ input.day.ask.receipt.agent = input.day.whoami.receipt.agent
           /\ \E o \in Range(input.owed) : o.ask = input.day.ask.receipt.ask /\ o.to = Waiter
  BY <1>1, AsksAssumption DEF AsksAssumption
<1>3. recipient.ok /\ Invoke(input.day.ask).ok
  BY DEF AskNamed
<1>4. /\ input.recorded \in {Missing, recipient.value.agent}
      /\ recipient.value.agent = input.day.whoami.receipt.agent
  <2>1. /\ Whoami(input.day.whoami).ok /\ recipient = Whoami(input.day.whoami)
        /\ input.recorded \in {Missing, Whoami(input.day.whoami).value.agent}
    BY <1>3, ExpectingRead
  <2>2. Whoami(input.day.whoami).value.agent = input.day.whoami.receipt.agent
    BY <2>1, WhoamiRead
  <2> QED
    BY <2>1, <2>2
<1>5. CASE input.day.ask.success
  <2>1. /\ Fields(input.day.ask.receipt, {"ask", "operation", "agent", "outcome"})
        /\ receipt.value.ask = input.day.ask.receipt.ask
        /\ receipt.value.to = input.day.ask.receipt.agent
    BY <1>3, <1>5 DEF AskNamed, AskReceipt, Read, Refusal
  <2>2. input.day.ask.receipt.ask # Missing
    BY <2>1 DEF Fields
  <2> QED
    BY <1>2, <1>4, <1>5, <2>1, <2>2
<1>6. CASE ~input.day.ask.success
  <2>1. /\ PendingAsk(input.day.pending).ok
        /\ receipt.value.ask = PendingAsk(input.day.pending).value
        /\ receipt.value.to = recipient.value.agent
    BY <1>3, <1>6 DEF AskNamed, AskReceipt, Read, Refusal
  <2>2. Invoke(input.day.pending).ok /\ input.day.pending.success
    BY <2>1, Zenon DEF PendingAsk, Refusal
  <2>3. input.day.pending.receipt.owed = input.owed
    BY <2>2, <1>2
  <2> QED
    BY <1>2, <1>4, <2>1, <2>3, PendingAskRead
<1> QED
  BY <1>5, <1>6

-----------------------------------------------------------------------------
(* ----------------------- Herdr, the lookup, the relay ------------------- *)

\* The pane to close is the only one that holds the name.
LEMMA ClaimedRead ==
  ASSUME NEW process, NEW name, NEW corpus, IsSeq(process.receipt.panes),
         Claimed(process, name, corpus).ok
  PROVE  LET panes == process.receipt.panes
             holders == Holders(panes, name, corpus)
             husk == Claimed(process, name, corpus).value
         IN /\ Herdr(process).ok
            /\ holders = {} => husk = Missing
            /\ \A i \in holders : holders = {i} /\ husk = panes[i].pane /\ husk # Missing
<1> DEFINE panes == process.receipt.panes
           holders == Holders(panes, name, corpus)
           husk == Claimed(process, name, corpus).value
<1>1. /\ Herdr(process).ok
      /\ \A i, j \in holders : i = j
      /\ Claimed(process, name, corpus)
           = Read(IF holders = {} THEN Missing ELSE panes[Min(holders)].pane)
  BY Zenon DEF Claimed, Refusal
<1>2. husk = IF holders = {} THEN Missing ELSE panes[Min(holders)].pane
  BY <1>1 DEF Read
<1>3. holders \subseteq Nat /\ \A i \in holders : panes[i].pane # Missing
  BY SeqDomain DEF Holders, IsWhole
<1> HIDE DEF holders, husk, panes
<1>4. ASSUME NEW i \in holders
      PROVE  holders = {i} /\ husk = panes[i].pane /\ husk # Missing
  <2>1. Min(holders) \in holders
    BY <1>3, <1>4, LeastMember
  <2> QED
    BY <2>1, <1>1, <1>2, <1>3, <1>4
<1>5. holders = {} => husk = Missing
  BY <1>2
<1> QED
  BY <1>1, <1>4, <1>5 DEF holders, husk, panes

LEMMA AllocateRead ==
  ASSUME NEW process, Allocate(process).ok
  PROVE  /\ process.receipt.panes # <<>>
         /\ Allocate(process).value = process.receipt.panes[1].pane
  BY DEF Allocate, Herdr, Release, Refusal, Read

LEMMA ResolveNameRead ==
  ASSUME NEW process, ResolveName(process).ok, ResolveName(process).value = Missing
  PROVE  ~process.success /\ Unbound(process.receipt)
  BY DEF ResolveName, Invoke, Refusal, Read, Fields

LEMMA StartOccupantRead ==
  ASSUME NEW process, NEW agent, StartOccupant(process, agent).ok
  PROVE  agent \in {Missing, StartOccupant(process, agent).value.agent}
<1>1. StartOccupant(process, agent) = Expecting(Read(Identity(process.receipt)), agent)
  BY DEF StartOccupant, Refusal, Invoke
<1> QED
  BY <1>1 DEF Expecting, Refusal

\* Whoever is shown no results, or results, is shown the relay's.
LEMMA NoResultsWasCheckedAlways == NoResultsWasChecked
<1> DEFINE wanted == input.request
           day == input.day
           session == wanted.session
           known == session \in DOMAIN ChannelOf
           relay == day.relay[ChannelOf[session]]
<1> DEFINE failed(outcome) == outcome.status = "failed"
           checked(outcome) ==
             /\ known /\ relay.ok
             /\ \/ outcome = NoResults(session, ChannelOf[session]) /\ relay.events = {}
                \/ outcome = Matches(session, ChannelOf[session], relay.events)
<1>1. failed(SearchChannel(session, ChannelOf[session], day)) \/
        (known => checked(SearchChannel(session, ChannelOf[session], day)))
  BY DEF SearchChannel, Failed
<1>2. failed(ResolveLookup(wanted, day)) \/ checked(ResolveLookup(wanted, day))
  BY <1>1 DEF ResolveLookup, ChannelFor, Failed
<1>3. failed(RequestLookup(wanted, day)) \/ checked(RequestLookup(wanted, day))
  BY <1>2 DEF RequestLookup, AnswerConnection, Arrives, Failed
<1> DEFINE shown == RunSearch(wanted, day)
           right ==
             /\ shown.heading = "No results" => known /\ relay.ok /\ relay.events = {}
             /\ shown.heading = "Results" => known /\ relay.ok /\ shown.shows.events = relay.events
             /\ shown.succeeds => known /\ relay.ok /\ shown.shows.channel = ChannelOf[session]
             /\ ~shown.succeeds => shown.heading = "Could not check"
<1>4. failed(shown.shows) \/ checked(shown.shows)
  BY <1>3 DEF RunSearch, Failed
<1>5. /\ shown.heading = Heading(shown.shows)
      /\ shown.succeeds = (shown.shows.status # "failed")
  BY Zenon DEF RunSearch
<1>6. SUFFICES right
  BY Zenon DEF NoResultsWasChecked
<1> HIDE DEF shown, known, relay
<1>7. CASE failed(shown.shows)
  <2>1. shown.heading = "Could not check" /\ ~shown.succeeds
    BY <1>5, <1>7 DEF Heading
  <2> QED
    BY <2>1
<1>8. CASE checked(shown.shows) /\ shown.shows = NoResults(session, ChannelOf[session]) /\ relay.events = {}
  <2>1. shown.shows.status = "no-results" /\ shown.shows.channel = ChannelOf[session]
    BY <1>8 DEF NoResults
  <2>2. shown.heading = "No results" /\ shown.succeeds
    BY <2>1, <1>5 DEF Heading
  <2> QED
    BY <1>8, <2>1, <2>2
<1>9. CASE checked(shown.shows) /\ shown.shows = Matches(session, ChannelOf[session], relay.events)
  <2>1. /\ shown.shows.status = "matches" /\ shown.shows.channel = ChannelOf[session]
        /\ shown.shows.events = relay.events
    BY <1>9 DEF Matches
  <2>2. shown.heading = "Results" /\ shown.succeeds
    BY <2>1, <1>5 DEF Heading
  <2> QED
    BY <1>9, <2>1, <2>2
<1> QED
  BY <1>4, <1>7, <1>8, <1>9

LEMMA RestartIsTheNamesTaken ==
  ASSUME TakenFrom
  PROVE  RestartIsTheNames
<1> DEFINE day == input.day
           restart == RestartOccupant(day, "seat", "corpus")
           listed == IF Herdr(day.list).ok THEN Range(day.list.receipt.panes) ELSE {}
           ours == {p.pane : p \in {q \in listed : q.name = "seat" /\ q.cwd = "corpus" /\ IsWhole(q)}}
           launch == restart.starts[1]
           husk == Claimed(day.list, "seat", "corpus")
           panes == day.list.receipt.panes
           holders == Holders(panes, "seat", "corpus")
           closes == husk.ok /\ husk.value # Missing
           reaches == /\ husk.ok /\ (closes => Release(day.close).ok)
                      /\ ResolveName(day.who).ok /\ Allocate(day.create).ok
<1> SUFFICES ASSUME input.of = "restart"
             PROVE  /\ restart.closed # Missing => ours = {restart.closed}
                    /\ Cardinality(ours) > 1 => restart.starts = <<>>
                    /\ restart.starts # <<>> =>
                         /\ ours # {} => restart.closed \in ours /\ day.close.success
                         /\ launch.as = Missing => ~day.who.success /\ Unbound(day.who.receipt)
                         /\ launch.in \notin ours
                    /\ restart.started.ok => launch.as \in {Missing, restart.started.value.agent}
  BY Zenon DEF RestartIsTheNames
<1>1. day \in Restarts
  BY DEF TakenFrom
<1>2. /\ IsSeq(panes) /\ IsSeq(day.create.receipt.panes)
      /\ \A new \in Range(day.create.receipt.panes) :
           \A pane \in Range(panes) : new.pane # pane.pane
  BY <1>1, RestartsAssumption DEF RestartsAssumption
<1>3. /\ restart.closed = IF closes THEN husk.value ELSE Missing
      /\ reaches => /\ restart.starts = <<[as |-> ResolveName(day.who).value, in |-> Allocate(day.create).value]>>
                    /\ restart.started = StartOccupant(day.start, ResolveName(day.who).value)
      /\ ~reaches => restart.starts = <<>> /\ ~restart.started.ok
  BY DEF RestartOccupant, Refusal
<1>4. ASSUME husk.ok
      PROVE  /\ Herdr(day.list).ok
             /\ holders = {} => husk.value = Missing
             /\ \A i \in holders : holders = {i} /\ husk.value = panes[i].pane /\ husk.value # Missing
  BY <1>2, <1>4, ClaimedRead
<1>5. ASSUME Herdr(day.list).ok
      PROVE  ours = {panes[i].pane : i \in holders}
  BY <1>5 DEF Holders, Range
<1>6. ours # {} => Herdr(day.list).ok
  OBVIOUS
<1>7. ASSUME husk.ok
      PROVE  /\ ours = {} => husk.value = Missing
             /\ ours # {} => ours = {husk.value} /\ husk.value # Missing
  <2> HIDE DEF holders, ours, husk
  <2>1. CASE holders = {}
    BY <1>4, <1>5, <1>7, <2>1
  <2>2. CASE holders # {}
    <3>1. PICK i \in holders : holders = {i} /\ husk.value = panes[i].pane /\ husk.value # Missing
      BY <1>4, <1>7, <2>2
    <3>2. ours = {panes[i].pane}
      BY <1>4, <1>5, <1>7, <3>1
    <3> QED
      BY <3>1, <3>2
  <2> QED
    BY <2>1, <2>2
<1> HIDE DEF holders, ours, husk, restart, day, panes
<1>8. restart.closed # Missing => ours = {restart.closed}
  BY <1>3, <1>7
<1>9. Cardinality(ours) > 1 => restart.starts = <<>>
  <2>1. SUFFICES ASSUME husk.ok PROVE ~(Cardinality(ours) > 1)
    BY <1>3
  <2>2. CASE ours = {}
    BY <2>2, FS_EmptySet
  <2>3. CASE ours = {husk.value}
    <3>1. IsFiniteSet(ours) /\ Cardinality(ours) = 1
      BY <2>3, FS_Singleton
    <3> QED
      BY <3>1
  <2> QED
    BY <1>7, <2>1, <2>2, <2>3
<1>10. ASSUME restart.starts # <<>>
       PROVE  /\ ours # {} => restart.closed \in ours /\ day.close.success
              /\ launch.as = Missing => ~day.who.success /\ Unbound(day.who.receipt)
              /\ launch.in \notin ours
  <2>1. /\ reaches
        /\ launch.as = ResolveName(day.who).value /\ launch.in = Allocate(day.create).value
    BY <1>3, <1>10
  <2>2. ours # {} => restart.closed \in ours /\ day.close.success
    BY <1>3, <1>7, <2>1 DEF Release, Refusal
  <2>3. launch.as = Missing => ~day.who.success /\ Unbound(day.who.receipt)
    BY <2>1, ResolveNameRead
  <2>4. launch.in \notin ours
    <3>1. /\ day.create.receipt.panes # <<>>
          /\ launch.in = day.create.receipt.panes[1].pane
      BY <2>1, AllocateRead
    <3>2. day.create.receipt.panes[1] \in Range(day.create.receipt.panes)
      BY <1>2, <3>1 DEF IsSeq
    <3>3. \A i \in DOMAIN panes : launch.in # panes[i].pane
      <4> HIDE DEF launch
      <4> QED
        BY <1>2, <3>1, <3>2 DEF Range
    <3>4. ours \subseteq {panes[i].pane : i \in DOMAIN panes}
      BY <1>5, <1>6 DEF Holders, holders
    <3> QED
      BY <3>3, <3>4
  <2> QED
    BY <2>2, <2>3, <2>4
<1>11. restart.started.ok => launch.as \in {Missing, restart.started.value.agent}
  <2>1. SUFFICES ASSUME reaches, StartOccupant(day.start, ResolveName(day.who).value).ok
                 PROVE  ResolveName(day.who).value
                          \in {Missing, StartOccupant(day.start, ResolveName(day.who).value).value.agent}
    BY <1>3
  <2> QED
    BY <2>1, StartOccupantRead
<1> QED
  BY <1>8, <1>9, <1>10, <1>11

LEMMA ObservedIsShared ==
  ASSUME NEW authors
  PROVE  IsShared(FromObserved(authors))
  BY DEF FromObserved, IsShared

LEMMA PrivateByRosterOnlyTaken ==
  ASSUME TakenFrom
  PROVE  PrivateByRosterOnly
<1> DEFINE refreshed == RefreshAudience(input.held, input.read, input.answered, input.lists, input.authors)
           audience == AudienceFor(refreshed, input.authors)
           newest == {l \in Range(input.lists) : \A other \in Range(input.lists) : other.at <= l.at}
           chosen == CHOOSE l \in newest : TRUE
<1> SUFFICES ASSUME input.of = "roster", ~IsShared(audience)
             PROVE  \/ ~input.read /\ ~IsShared(input.held)
                    \/ /\ input.read /\ input.answered
                       /\ \E l \in Range(input.lists) :
                            /\ \A other \in Range(input.lists) : other.at <= l.at
                            /\ Range(l.members) = {Owner}
  BY Zenon DEF PrivateByRosterOnly
<1>1. audience = refreshed /\ ~IsShared(refreshed)
  <2>1. IsShared(FromObserved(input.authors))
    BY ObservedIsShared
  <2> HIDE DEF refreshed
  <2> QED
    BY <2>1 DEF AudienceFor
<1>2. CASE ~input.read
  <2>1. refreshed = input.held
    BY <1>2, Zenon DEF RefreshAudience
  <2> QED
    BY <1>1, <1>2, <2>1
<1>3. CASE input.read
  <2>1. input.answered /\ refreshed = ChannelAudience(input.lists, input.authors)
    <3>1. IsShared(FromObserved(input.authors))
      BY ObservedIsShared
    <3>2. refreshed = IF input.answered THEN ChannelAudience(input.lists, input.authors)
                      ELSE FromObserved(input.authors)
      BY <1>3, Zenon DEF RefreshAudience
    <3> QED
      BY <3>1, <3>2, <1>1, Zenon
  <2>2. newest # {} /\ refreshed = [source |-> "members", participants |-> Once(chosen.members)]
    <3>1. IsShared(FromObserved(input.authors))
      BY ObservedIsShared
    <3>2. ChannelAudience(input.lists, input.authors) =
            LET members == IF newest = {} THEN <<>> ELSE Once(chosen.members)
            IN IF members = <<>> THEN FromObserved(input.authors)
               ELSE [source |-> "members", participants |-> members]
      BY Zenon DEF ChannelAudience
    <3> HIDE DEF newest, chosen, refreshed
    <3> QED
      BY <3>1, <3>2, <2>1, <1>1, Zenon
  <2>3. /\ chosen \in Range(input.lists)
        /\ \A other \in Range(input.lists) : other.at <= chosen.at
    BY <2>2
  <2>4. IsSeq(chosen.members)
    <3>1. PICK r \in Rosters : input.lists = r.lists
      BY DEF TakenFrom
    <3> HIDE DEF chosen
    <3> QED
      BY <3>1, <2>3, RostersAssumption DEF RostersAssumption
  <2> HIDE DEF chosen, refreshed
  <2>5. Len(Once(chosen.members)) = 1 /\ Once(chosen.members)[1] = Owner
    BY <1>1, <2>2 DEF IsShared
  <2>6. Range(chosen.members) = {Owner}
    BY <2>4, <2>5, OnceOfOne
  <2> QED
    BY <1>3, <2>1, <2>3, <2>6
<1> QED
  BY <1>2, <1>3

-----------------------------------------------------------------------------
\* Whatever Kelpie, Herdr, the relay and the lookup server say, the host takes
\* it as said: an agent it binds to a pane holds it, a restart closes and starts
\* what the name stands for, a receipt names what is owed to the host, a lookup
\* shows what the relay has, and a channel is private by its roster.
THEOREM WordsAreTakenAsSaidHolds == TextsSpec => []WordsAreTakenAsSaid
<1>1. TakenFrom => WordsAreTakenAsSaid
  BY PaneIsItsAgentsTaken, RestartIsTheNamesTaken, ReceiptNamesAnAskTaken,
     NoResultsWasCheckedAlways, PrivateByRosterOnlyTaken DEF WordsAreTakenAsSaid
<1> QED
  BY <1>1, TakenFromHolds, PTL

-----------------------------------------------------------------------------
(* -------------------------------- polls --------------------------------- *)

\* Whoever was announced had all its filters refreshed, and without an error
\* since then what is live is what was wanted last.
PollsInv ==
  input.of = "polls" =>
    LET poll == input.poll
    IN /\ poll = [field \in {"announced", "error", "last", "live"} |-> poll[field]]
       /\ poll.announced => input.subscribed
       /\ poll.announced /\ ~poll.error =>
            \A id \in Range(Subscriptions) : Shape(poll.live[id]) = Shape(Wanted(poll.last, 0)[id])

\* When the filters begin makes no other shape.
LEMMA ShapeOfWanted ==
  ASSUME NEW scope, NEW since, NEW id \in Range(Subscriptions)
  PROVE  Shape(Wanted(scope, since)[id]) = Shape(Wanted(scope, 0)[id])
<1> DEFINE one(kinds, on, values, n) == {[filter EXCEPT !.since = 0] : filter \in {Filter(kinds, on, values, n)}}
<1>1. ASSUME NEW kinds, NEW on, NEW values, NEW n
      PROVE  one(kinds, on, values, n) = {Filter(kinds, on, values, 0)}
  BY DEF Filter
<1>2. ASSUME NEW kinds, NEW on, NEW values
      PROVE  Shape({Filter(kinds, on, values, since)}) = Shape({Filter(kinds, on, values, 0)})
  BY <1>1 DEF Shape
<1>3. ASSUME NEW c, NEW kinds, NEW on, NEW values
      PROVE  Shape(Unless(c, Filter(kinds, on, values, since))) = Shape(Unless(c, Filter(kinds, on, values, 0)))
  BY <1>2 DEF Unless
<1>4. id \in {"messages", "authored", "channels", "mutations", "watched"}
  BY DEF Subscriptions, Range
<1>5. ASSUME NEW n
      PROVE  Wanted(scope, n)[id] =
               CASE id = "messages" -> MessageFilter(n)
                 [] id = "authored" -> AuthoredFilter(n)
                 [] id = "channels" -> ChannelFilter(scope.channels, n)
                 [] id = "mutations" -> MutationFilter(scope.triggers, n)
                 [] id = "watched" -> AuthorFilter(scope.authors, n)
  BY DEF Wanted
<1>6. CASE id = "messages"
  <2>1. \A n : Wanted(scope, n)[id] = {Filter(Posting, "p", {Operator}, n)}
    BY <1>5, <1>6 DEF MessageFilter
  <2> QED
    BY <2>1, <1>2
<1>7. CASE id = "authored"
  <2>1. \A n : Wanted(scope, n)[id] = Unless(Operator = Junk, Filter(Posting, "author", {Operator}, n))
    BY <1>5, <1>7 DEF AuthoredFilter
  <2> QED
    BY <2>1, <1>3
<1>8. CASE id = "channels"
  <2>1. \A n : Wanted(scope, n)[id] = Unless(scope.channels = {}, Filter(Posting, "h", scope.channels, n))
    BY <1>5, <1>8 DEF ChannelFilter
  <2> QED
    BY <2>1, <1>3
<1>9. CASE id = "mutations"
  <2>1. \A n : Wanted(scope, n)[id] = Unless(scope.triggers = {}, Filter(Mutating, "e", scope.triggers, n))
    BY <1>5, <1>9 DEF MutationFilter
  <2> QED
    BY <2>1, <1>3
<1>10. CASE id = "watched"
  <2> DEFINE keys == scope.authors \ {Junk}
  <2>1. \A n : Wanted(scope, n)[id] = Unless(keys = {}, Filter(Posting, "author", keys, n))
    BY <1>5, <1>10 DEF AuthorFilter
  <2> QED
    BY <2>1, <1>3
<1> QED
  BY <1>4, <1>6, <1>7, <1>8, <1>9, <1>10

LEMMA PollsInvStep ==
  ASSUME PollsInv, [TextsNext]_input
  PROVE  PollsInv'
<1>1. CASE PollNext
  <2> DEFINE poll == input.poll
  <2>1. PICK step \in Polls :
          /\ input.of = "polls"
          /\ input' = [of |-> "polls", poll |-> PollRelay(poll, step), scope |-> step.scope,
                       subscribed |-> (input.subscribed \/ (step.fails = 0 /\ step.cursor))]
    BY <1>1, Zenon DEF PollNext
  <2> DEFINE subscribed == (input.subscribed \/ (step.fails = 0 /\ step.cursor))
             next == PollRelay(poll, step)
             whole(p) == \A id \in Range(Subscriptions) : Shape(p.live[id]) = Shape(Wanted(p.last, 0)[id])
             fields == {"announced", "error", "last", "live"}
             done == Subscribe(poll.live, Wanted(step.scope, step.since), step.fails, step.closed)
  <2>2. input'.poll = next /\ input'.subscribed = subscribed
    <3> HIDE DEF subscribed, next
    <3>1. input' = [of |-> "polls", poll |-> next, scope |-> step.scope, subscribed |-> subscribed]
      BY <2>1, Zenon DEF subscribed, next
    <3> QED
      BY <3>1
  <2>3. /\ poll = [field \in fields |-> poll[field]]
        /\ poll.announced => input.subscribed
        /\ poll.announced /\ ~poll.error => whole(poll)
    BY <2>1 DEF PollsInv
  <2>4. subscribed <=> input.subscribed \/ (step.fails = 0 /\ step.cursor)
    OBVIOUS
  <2> HIDE DEF subscribed
  <2>5. SUFFICES /\ next = [field \in fields |-> next[field]]
                 /\ next.announced => subscribed
                 /\ next.announced /\ ~next.error => whole(next)
    BY <2>2 DEF PollsInv
  <2>6. CASE next = poll
    BY <2>3, <2>4, <2>6, Zenon
  <2>7. CASE next = [poll EXCEPT !.error = TRUE]
    <3> HIDE DEF poll, next
    <3>1. next = [field \in fields |-> IF field = "error" THEN TRUE ELSE poll[field]]
      BY <2>3, <2>7
    <3>2. next.announced = poll.announced /\ next.error
      BY <3>1
    <3> QED
      BY <3>1, <3>2, <2>3, <2>4
  <2>8. CASE next = [poll EXCEPT !.error = TRUE, !.live = done.live]
    <3> HIDE DEF poll, next
    <3>1. next = [field \in fields |-> IF field = "error" THEN TRUE ELSE IF field = "live" THEN done.live ELSE poll[field]]
      BY <2>3, <2>8
    <3>2. next.announced = poll.announced /\ next.error
      BY <3>1
    <3> QED
      BY <3>1, <3>2, <2>3, <2>4
  <2>9. CASE /\ next = [announced |-> TRUE, error |-> FALSE, last |-> step.scope, live |-> done.live]
             /\ step.fails = 0 /\ step.cursor
    <3>1. done.live = [id \in Range(Subscriptions) |-> Wanted(step.scope, step.since)[id]]
      BY <2>9 DEF Subscribe
    <3> HIDE DEF done, poll, next
    <3>2. next.last = step.scope /\ next.live = done.live
      BY <2>9
    <3>3. \A id \in Range(Subscriptions) : next.live[id] = Wanted(next.last, step.since)[id]
      BY <3>1, <3>2
    <3>4. whole(next)
      BY <3>3, ShapeOfWanted
    <3>5. next = [field \in fields |-> next[field]]
      BY <2>9
    <3> QED
      BY <3>4, <3>5, <2>4, <2>9
  <2>10. /\ done.ok = (step.fails = 0)
         /\ next = IF ~RefreshNeeded(poll, step.scope) THEN poll
                   ELSE IF ~step.cursor THEN [poll EXCEPT !.error = TRUE]
                   ELSE IF done.ok
                     THEN [announced |-> TRUE, error |-> FALSE, last |-> step.scope, live |-> done.live]
                   ELSE [poll EXCEPT !.error = TRUE, !.live = done.live]
    BY Zenon DEF PollRelay, Subscribe
  <2> HIDE DEF done, next, poll
  <2> QED
    BY <2>10, <2>6, <2>7, <2>8, <2>9, Zenon
<1>2. CASE TakeConnection
  <2>1. /\ input'.poll = NewPoll /\ ~input'.poll.announced
    BY <1>2 DEF TakeConnection, NewPoll
  <2> QED
    BY <2>1 DEF PollsInv, NewPoll
<1>3. CASE UNCHANGED input
  BY <1>3 DEF PollsInv
<1>4. CASE TextsNext /\ ~PollNext /\ ~TakeConnection
  <2>1. input'.of # "polls"
    BY <1>4, OfTheStep
  <2> QED
    BY <2>1 DEF PollsInv
<1> QED
  BY <1>1, <1>2, <1>3, <1>4

THEOREM PollsInvHolds == TextsSpec => []PollsInv
<1>1. TextsInit => PollsInv
  BY DEF TextsInit, PollsInv
<1>2. PollsInv /\ [TextsNext]_input => PollsInv'
  BY PollsInvStep
<1> QED
  BY <1>1, <1>2, PTL DEF TextsSpec

LEMMA LiveIsWholeOrRefreshedTaken ==
  ASSUME PollsInv
  PROVE  LiveIsWholeOrRefreshed
  BY DEF PollsInv, LiveIsWholeOrRefreshed, RefreshNeeded, Fetches

-----------------------------------------------------------------------------
(* --------------------------------- days --------------------------------- *)

HostFields ==
  {"actors", "sessions", "held", "missed", "open", "posted", "cancelled", "fresh", "resumed", "dropped"}

\* The seats whose actor holds an audience or failed to get one the last time.
Known(host) == host.held \cup host.missed

\* Each configured bot knows, in that sense, the audiences of its own sessions,
\* and all actors know those of every session but the fresh ones, which are
\* configured bots'; turns are of sessions.
Meet(configured, sessions, known, open, posted, fresh) ==
  /\ open \subseteq sessions /\ posted \subseteq sessions /\ fresh \subseteq sessions
  /\ \A s \in sessions : s = Seat(s.bot, s.channel)
  /\ \A s \in sessions : s.bot \in configured => s \in known
  /\ \A s \in sessions : s \notin fresh => \A actor \in configured : Seat(actor, s.channel) \in known
  /\ \A s \in fresh : s.bot \in configured

HostInv(host) ==
  /\ host = [field \in HostFields |-> host[field]]
  /\ IsRegistry(host.actors)
  /\ Meet(Range(host.actors), host.sessions, Known(host), host.open, host.posted, host.fresh)

\* What the last step promises of the host it led to.
StepDone(host, step) ==
  /\ step.does = "answer" =>
       host.resumed = IF step.seat \in host.posted THEN {step.seat.bot} \cap Range(host.actors) ELSE {}
  /\ step.does = "edit" /\ step.seat \in host.open => step.seat.bot \notin Range(host.actors)

DaysInv == input.of = "day" => HostInv(input.host) /\ StepDone(input.host, input.step)

LEMMA FirstActor ==
  ASSUME NEW actors, IsRegistry(actors)
  PROVE  actors[1] \in Range(actors)
  BY DEF IsRegistry, IsSeq, Range

LEMMA TriedFields ==
  ASSUME NEW host, host = [field \in HostFields |-> host[field]], NEW seats, NEW failing
  PROVE  LET next == Tried(host, seats, failing)
         IN /\ next = [field \in HostFields |-> next[field]]
            /\ Known(next) = Known(host) \cup seats
            /\ \A field \in HostFields \ {"held", "missed"} : next[field] = host[field]
<1> DEFINE next == Tried(host, seats, failing)
           got == host.held \cup (seats \ failing)
           missed == (host.missed \ seats) \cup (seats \cap failing)
<1>1. next = [host EXCEPT !.held = got, !.missed = missed]
  BY DEF Tried
<1>2. got \cup missed = (host.held \cup host.missed) \cup seats
  OBVIOUS
<1> HIDE DEF next, got, missed
<1>3. /\ next = [field \in HostFields |-> next[field]]
      /\ next.held = got /\ next.missed = missed
      /\ \A field \in HostFields \ {"held", "missed"} : next[field] = host[field]
  BY <1>1 DEF HostFields
<1>4. Known(next) = Known(host) \cup seats
  BY <1>2, <1>3 DEF Known
<1> QED
  BY <1>3, <1>4 DEF next

LEMMA RefreshedFields ==
  ASSUME NEW host, host = [field \in HostFields |-> host[field]], NEW seat, NEW step
  PROVE  LET next == Refreshed(host, seat, step)
         IN /\ next = [field \in HostFields |-> next[field]]
            /\ Known(next) = Known(host) \cup {seat}
            /\ \A field \in HostFields \ {"held", "missed"} : next[field] = host[field]
<1> DEFINE seats == {seat}
           failing == step.unread
           next == Tried(host, seats, failing)
<1>1. /\ next = [field \in HostFields |-> next[field]]
      /\ Known(next) = Known(host) \cup seats
      /\ \A field \in HostFields \ {"held", "missed"} : next[field] = host[field]
  <2> HIDE DEF seats, failing
  <2> QED
    BY TriedFields
<1>2. Refreshed(host, seat, step) = next
  BY DEF Refreshed
<1> HIDE DEF next
<1> QED
  BY <1>1, <1>2

LEMMA RefreshedAllFields ==
  ASSUME NEW host, host = [field \in HostFields |-> host[field]], NEW step
  PROVE  LET next == RefreshedAll(host, step)
         IN /\ next = [field \in HostFields |-> next[field]]
            /\ next.actors = host.actors /\ next.sessions = host.sessions
            /\ next.open = host.open /\ next.posted = host.posted /\ next.fresh = {}
            /\ Known(host) \subseteq Known(next)
            /\ \A s \in host.sessions : \A actor \in Range(host.actors) : Seat(actor, s.channel) \in Known(next)
<1> DEFINE all == ScopeOfAll(host)
           failing == step.unread \cup {s \in ScopeOfAll(host) : s.bot \in step.blind}
           tried == Tried(host, all, failing)
           next == RefreshedAll(host, step)
<1>1. next = [tried EXCEPT !.fresh = {}]
  BY DEF RefreshedAll
<1>2. \A s \in host.sessions : \A actor \in Range(host.actors) : Seat(actor, s.channel) \in all
  BY DEF ScopeOfAll, KnownChannels
<1>3. /\ tried = [field \in HostFields |-> tried[field]]
      /\ Known(tried) = Known(host) \cup all
      /\ \A field \in HostFields \ {"held", "missed"} : tried[field] = host[field]
  <2> HIDE DEF all, failing
  <2> QED
    BY TriedFields
<1> HIDE DEF next, tried, all, failing
<1>4. /\ next = [field \in HostFields |-> next[field]]
      /\ next.actors = tried.actors /\ next.sessions = tried.sessions
      /\ next.open = tried.open /\ next.posted = tried.posted /\ next.fresh = {}
      /\ next.held = tried.held /\ next.missed = tried.missed
  BY <1>1, <1>3 DEF HostFields
<1>5. /\ next.actors = host.actors /\ next.sessions = host.sessions
      /\ next.open = host.open /\ next.posted = host.posted
  BY <1>3, <1>4 DEF HostFields
<1>6. Known(next) = Known(host) \cup all
  BY <1>3, <1>4 DEF Known
<1> QED
  BY <1>2, <1>4, <1>5, <1>6 DEF next

LEMMA RefreshedAllInv ==
  ASSUME NEW host, HostInv(host), NEW step
  PROVE  HostInv(RefreshedAll(host, step))
<1> DEFINE next == RefreshedAll(host, step)
<1>1. /\ next = [field \in HostFields |-> next[field]]
      /\ next.actors = host.actors /\ next.sessions = host.sessions
      /\ next.open = host.open /\ next.posted = host.posted /\ next.fresh = {}
      /\ Known(host) \subseteq Known(next)
      /\ \A s \in host.sessions : \A actor \in Range(host.actors) : Seat(actor, s.channel) \in Known(next)
  BY RefreshedAllFields DEF HostInv
<1> HIDE DEF next
<1>2. Meet(Range(next.actors), next.sessions, Known(next), next.open, next.posted, next.fresh)
  <2>1. \A s \in host.sessions : s = Seat(s.bot, s.channel)
    BY DEF HostInv, Meet
  <2> QED
    BY <1>1, <2>1 DEF HostInv, Meet
<1>3. HostInv(next)
  BY <1>1, <1>2 DEF HostInv
<1> QED
  BY <1>3 DEF next

LEMMA OnTriggerInv ==
  ASSUME NEW host, HostInv(host), NEW seat, seat = Seat(seat.bot, seat.channel), NEW step
  PROVE  HostInv(OnTrigger(host, seat, step))
<1>1. CASE seat.bot \notin Range(host.actors)
  BY <1>1 DEF OnTrigger
<1>2. CASE seat.bot \in Range(host.actors)
  <2> DEFINE heard == Refreshed(host, seat, step)
             next == OnTrigger(host, seat, step)
             fresh == IF seat \in host.sessions THEN heard.fresh ELSE heard.fresh \cup {seat}
  <2>1. /\ heard = [field \in HostFields |-> heard[field]]
        /\ Known(heard) = Known(host) \cup {seat}
        /\ \A field \in HostFields \ {"held", "missed"} : heard[field] = host[field]
    BY RefreshedFields DEF HostInv
  <2>2. next = [heard EXCEPT !.sessions = @ \cup {seat}, !.open = @ \cup {seat}, !.posted = @ \ {seat},
                             !.cancelled = @ \ {seat}, !.fresh = fresh]
    BY <1>2 DEF OnTrigger
  <2> HIDE DEF heard, next, fresh
  <2>3. /\ next = [field \in HostFields |-> next[field]]
        /\ next.actors = heard.actors /\ next.held = heard.held /\ next.missed = heard.missed
        /\ next.sessions = heard.sessions \cup {seat} /\ next.open = heard.open \cup {seat}
        /\ next.posted = heard.posted \ {seat} /\ next.fresh = fresh
    BY <2>1, <2>2 DEF HostFields
  <2>4. /\ next.actors = host.actors
        /\ next.sessions = host.sessions \cup {seat} /\ next.open = host.open \cup {seat}
        /\ next.posted = host.posted \ {seat}
        /\ next.fresh = IF seat \in host.sessions THEN host.fresh ELSE host.fresh \cup {seat}
    BY <2>1, <2>3 DEF HostFields, fresh
  <2>5. Known(next) = Known(host) \cup {seat}
    BY <2>1, <2>3 DEF Known
  <2>6. Meet(Range(next.actors), next.sessions, Known(next), next.open, next.posted, next.fresh)
    BY <1>2, <2>4, <2>5 DEF HostInv, Meet
  <2> QED
    BY <2>3, <2>4, <2>6 DEF HostInv, next
<1> QED
  BY <1>1, <1>2

LEMMA OnEditInv ==
  ASSUME NEW host, HostInv(host), NEW seat, seat = Seat(seat.bot, seat.channel), NEW step
  PROVE  LET next == OnEdit(host, seat, step)
         IN /\ HostInv(next)
            /\ seat \in next.open => seat.bot \notin Range(next.actors)
<1> DEFINE actor == ActorForMutation(host, seat)
           next == OnEdit(host, seat, step)
<1>1. CASE actor = Nobody
  <2> DEFINE dropped == IF seat \in host.open THEN host.dropped \cup {seat} ELSE host.dropped
  <2>1. next = [host EXCEPT !.dropped = dropped]
    BY <1>1 DEF OnEdit
  <2> HIDE DEF next, dropped
  <2>2. /\ next = [field \in HostFields |-> next[field]]
        /\ \A field \in HostFields \ {"dropped"} : next[field] = host[field]
    BY <2>1 DEF HostInv, HostFields
  <2>3. /\ next.actors = host.actors /\ Known(next) = Known(host) /\ next.sessions = host.sessions
        /\ next.open = host.open /\ next.posted = host.posted /\ next.fresh = host.fresh
    BY <2>2 DEF HostFields, Known
  <2>4. seat \in host.open => seat.bot \notin Range(host.actors)
    BY <1>1 DEF ActorForMutation, HostInv, IsRegistry
  <2>5. HostInv(next)
    BY <2>2, <2>3 DEF HostInv
  <2> QED
    BY <2>3, <2>4, <2>5 DEF next
<1>2. CASE actor # Nobody
  <2> DEFINE heard == Refreshed(host, seat, step)
  <2>1. /\ heard = [field \in HostFields |-> heard[field]]
        /\ Known(heard) = Known(host) \cup {seat}
        /\ \A field \in HostFields \ {"held", "missed"} : heard[field] = host[field]
    BY RefreshedFields DEF HostInv
  <2>2. next = [heard EXCEPT !.open = @ \ {seat}, !.cancelled = @ \cup {seat}]
    BY <1>2 DEF OnEdit
  <2> HIDE DEF heard, next, actor
  <2>3. /\ next = [field \in HostFields |-> next[field]]
        /\ next.actors = heard.actors /\ next.sessions = heard.sessions
        /\ next.held = heard.held /\ next.missed = heard.missed
        /\ next.open = heard.open \ {seat} /\ next.posted = heard.posted /\ next.fresh = heard.fresh
    BY <2>1, <2>2 DEF HostFields
  <2>4. /\ next.actors = host.actors /\ Known(host) \subseteq Known(next) /\ next.sessions = host.sessions
        /\ next.open = host.open \ {seat} /\ next.posted = host.posted /\ next.fresh = host.fresh
    BY <2>1, <2>3 DEF HostFields, Known
  <2>5. Meet(Range(next.actors), next.sessions, Known(next), next.open, next.posted, next.fresh)
    BY <2>4 DEF HostInv, Meet
  <2>6. HostInv(next)
    BY <2>3, <2>4, <2>5 DEF HostInv
  <2> QED
    BY <2>4, <2>6 DEF next
<1> QED
  BY <1>1, <1>2

LEMMA OnAnswerInv ==
  ASSUME NEW host, HostInv(host), host.resumed = {}, NEW seat, NEW step,
         seat = Seat(seat.bot, seat.channel)
  PROVE  LET next == OnAnswer(host, seat, step)
         IN /\ HostInv(next)
            /\ next.resumed = IF seat \in next.posted THEN {seat.bot} \cap Range(next.actors) ELSE {}
<1> DEFINE closes == seat \in host.open /\ step.settled
           posted == IF closes THEN [host EXCEPT !.open = @ \ {seat}, !.posted = @ \cup {seat}] ELSE host
           actor == HandlerOfAnswer(host, seat)
           next == OnAnswer(host, seat, step)
           resumes == seat \in posted.posted /\ seat.bot = actor
           heard == Refreshed(posted, seat, step)
<1>1. next = IF resumes THEN [heard EXCEPT !.resumed = @ \cup {actor}] ELSE posted
  BY DEF OnAnswer, AfterPosted
<1>2. /\ posted = [field \in HostFields |-> posted[field]]
      /\ \A field \in HostFields \ {"open", "posted"} : posted[field] = host[field]
      /\ posted.open \subseteq host.open
      /\ posted.posted = IF closes THEN host.posted \cup {seat} ELSE host.posted
  <2>1. CASE closes
    BY <2>1 DEF HostInv, HostFields
  <2>2. CASE ~closes
    BY <2>2 DEF HostInv, HostFields
  <2> QED
    BY <2>1, <2>2
<1>3. seat \in posted.posted => seat \in host.open \cup host.posted
  BY <1>2
<1>4. actor = IF (seat \in host.open \cup host.posted \cup host.cancelled) /\ seat.bot \in Range(host.actors)
                THEN seat.bot ELSE host.actors[1]
  BY DEF HandlerOfAnswer, ActorOrFirst, BotIdForAsk, HostInv, IsRegistry
<1>5. host.actors[1] \in Range(host.actors)
  BY FirstActor DEF HostInv
<1> HIDE DEF closes, actor, posted
<1>6. /\ posted.actors = host.actors /\ posted.sessions = host.sessions /\ Known(posted) = Known(host)
      /\ posted.fresh = host.fresh /\ posted.resumed = {}
  BY <1>2 DEF HostFields, Known
<1>7. posted.posted \subseteq host.sessions /\ posted.open \subseteq host.sessions
  BY <1>2 DEF closes, HostInv, Meet
<1>8. /\ heard = [field \in HostFields |-> heard[field]]
      /\ Known(heard) = Known(posted) \cup {seat}
      /\ \A field \in HostFields \ {"held", "missed"} : heard[field] = posted[field]
  BY <1>2, RefreshedFields
<1> HIDE DEF heard, next, resumes
<1>9. /\ next = [field \in HostFields |-> next[field]]
      /\ next.actors = host.actors /\ next.sessions = host.sessions
      /\ next.open = posted.open /\ next.posted = posted.posted /\ next.fresh = host.fresh
      /\ Known(host) \subseteq Known(next)
      /\ next.resumed = IF resumes THEN {actor} ELSE {}
  <2>1. CASE resumes
    <3>1. next = [heard EXCEPT !.resumed = @ \cup {actor}]
      BY <1>1, <2>1
    <3>2. /\ next = [field \in HostFields |-> next[field]]
          /\ next.actors = heard.actors /\ next.sessions = heard.sessions
          /\ next.held = heard.held /\ next.missed = heard.missed
          /\ next.open = heard.open /\ next.posted = heard.posted /\ next.fresh = heard.fresh
          /\ next.resumed = heard.resumed \cup {actor}
      BY <1>8, <3>1 DEF HostFields
    <3>3. /\ heard.actors = posted.actors /\ heard.sessions = posted.sessions
          /\ heard.open = posted.open /\ heard.posted = posted.posted /\ heard.fresh = posted.fresh
          /\ heard.resumed = posted.resumed
      BY <1>8 DEF HostFields
    <3>4. Known(next) = Known(heard)
      BY <3>2 DEF Known
    <3> QED
      BY <1>6, <1>8, <2>1, <3>2, <3>3, <3>4
  <2>2. CASE ~resumes
    BY <1>1, <1>2, <1>6, <2>2
  <2> QED
    BY <2>1, <2>2
<1>10. resumes <=> seat \in posted.posted /\ seat.bot \in Range(host.actors)
  <2>1. seat \in posted.posted /\ seat.bot \in Range(host.actors) => actor = seat.bot
    BY <1>3, <1>4
  <2>2. actor \in Range(host.actors)
    BY <1>4, <1>5
  <2> QED
    BY <2>1, <2>2 DEF resumes
<1>11. next.resumed = IF seat \in next.posted THEN {seat.bot} \cap Range(next.actors) ELSE {}
  BY <1>9, <1>10 DEF resumes
<1>12. Meet(Range(next.actors), next.sessions, Known(next), next.open, next.posted, next.fresh)
  BY <1>7, <1>9 DEF HostInv, Meet
<1>13. HostInv(next)
  BY <1>9, <1>12 DEF HostInv
<1> QED
  BY <1>11, <1>13 DEF next

LEMMA OnRestartInv ==
  ASSUME NEW host, HostInv(host), NEW step, IsRegistry(step.actors)
  PROVE  HostInv(OnRestart(host, step))
<1> DEFINE begun == [host EXCEPT !.actors = step.actors, !.held = {}, !.missed = {}]
           next == RefreshedAll(begun, step)
<1>1. /\ begun = [field \in HostFields |-> begun[field]]
      /\ begun.actors = step.actors
      /\ \A field \in HostFields \ {"actors", "held", "missed"} : begun[field] = host[field]
  BY DEF HostInv, HostFields
<1> HIDE DEF begun
<1>2. /\ next = [field \in HostFields |-> next[field]]
      /\ next.actors = begun.actors /\ next.sessions = begun.sessions
      /\ next.open = begun.open /\ next.posted = begun.posted /\ next.fresh = {}
      /\ \A s \in begun.sessions : \A actor \in Range(begun.actors) : Seat(actor, s.channel) \in Known(next)
  BY <1>1, RefreshedAllFields
<1> HIDE DEF next
<1>3. /\ begun.sessions = host.sessions /\ begun.open = host.open /\ begun.posted = host.posted
  BY <1>1 DEF HostFields
<1>4. Meet(Range(next.actors), next.sessions, Known(next), next.open, next.posted, next.fresh)
  <2>1. \A s \in host.sessions : s = Seat(s.bot, s.channel)
    BY DEF HostInv, Meet
  <2>2. host.open \subseteq host.sessions /\ host.posted \subseteq host.sessions
    BY DEF HostInv, Meet
  <2>3. \A s \in host.sessions : s.bot \in Range(step.actors) => s \in Known(next)
    BY <1>1, <1>2, <1>3, <2>1
  <2> QED
    BY <1>1, <1>2, <1>3, <2>1, <2>2, <2>3 DEF Meet
<1>5. HostInv(next)
  BY <1>1, <1>2, <1>4 DEF HostInv
<1> QED
  BY <1>5 DEF OnRestart, begun, next

LEMMA StepInv ==
  ASSUME NEW host, HostInv(host), NEW step \in Steps
  PROVE  HostInv(Step(host, step)) /\ StepDone(Step(host, step), step)
<1> DEFINE calm == [host EXCEPT !.resumed = {}]
<1>1. /\ calm = [field \in HostFields |-> calm[field]] /\ calm.resumed = {}
      /\ calm.actors = host.actors /\ calm.sessions = host.sessions /\ calm.held = host.held
      /\ calm.missed = host.missed
      /\ calm.open = host.open /\ calm.posted = host.posted /\ calm.fresh = host.fresh
  BY DEF HostInv, HostFields
<1>2. Step(host, step) =
        CASE step.does = "trigger" -> OnTrigger(calm, step.seat, step)
          [] step.does = "edit" -> OnEdit(calm, step.seat, step)
          [] step.does = "answer" -> OnAnswer(calm, step.seat, step)
          [] step.does = "tick" -> RefreshedAll(calm, step)
          [] step.does = "restart" -> OnRestart(calm, step)
  BY DEF Step
<1> HIDE DEF calm
<1>3. HostInv(calm)
  BY <1>1 DEF HostInv, Known
<1>4. /\ step.does \in {"trigger", "edit", "answer", "tick", "restart"}
      /\ step.does \in {"trigger", "edit", "answer"} => step.seat = Seat(step.seat.bot, step.seat.channel)
      /\ step.does = "restart" => IsRegistry(step.actors)
  BY DaysAssumption DEF DaysAssumption
<1>5. CASE step.does = "trigger"
  <2>1. Step(host, step) = OnTrigger(calm, step.seat, step)
    BY <1>2, <1>5
  <2> QED
    BY <2>1, <1>3, <1>4, <1>5, OnTriggerInv DEF StepDone
<1>6. CASE step.does = "edit"
  <2>1. Step(host, step) = OnEdit(calm, step.seat, step)
    BY <1>2, <1>6
  <2> QED
    BY <2>1, <1>3, <1>4, <1>6, OnEditInv DEF StepDone
<1>7. CASE step.does = "answer"
  <2>1. Step(host, step) = OnAnswer(calm, step.seat, step)
    BY <1>2, <1>7
  <2> QED
    <3> DEFINE next == OnAnswer(calm, step.seat, step)
    <3>1. /\ HostInv(next)
          /\ next.resumed = IF step.seat \in next.posted
                             THEN {step.seat.bot} \cap Range(next.actors) ELSE {}
      BY <1>1, <1>3, <1>4, <1>7, OnAnswerInv
    <3> HIDE DEF next
    <3>2. StepDone(next, step)
      BY <3>1, <1>7, Zenon DEF StepDone
    <3> QED
      BY <2>1, <3>1, <3>2 DEF next
<1>8. CASE step.does = "tick"
  <2>1. Step(host, step) = RefreshedAll(calm, step)
    BY <1>2, <1>8
  <2> QED
    BY <2>1, <1>3, <1>8, RefreshedAllInv DEF StepDone
<1>9. CASE step.does = "restart"
  <2>1. Step(host, step) = OnRestart(calm, step)
    BY <1>2, <1>9
  <2> QED
    BY <2>1, <1>3, <1>4, <1>9, OnRestartInv DEF StepDone
<1> QED
  BY <1>4, <1>5, <1>6, <1>7, <1>8, <1>9

THEOREM DaysInvHolds == TextsSpec => []DaysInv
<1>1. TextsInit => DaysInv
  BY DEF TextsInit, DaysInv
<1>2. ASSUME DaysInv, [TextsNext]_input
      PROVE  DaysInv'
  <2>1. CASE StepNext
    <3>1. PICK step \in Steps :
            input.of = "day" /\ input' = [of |-> "day", host |-> Step(input.host, step), step |-> step]
      BY <2>1 DEF StepNext
    <3>2. input'.host = Step(input.host, step) /\ input'.step = step
      BY <3>1
    <3> QED
      BY <1>2, <3>1, <3>2, StepInv DEF DaysInv
  <2>2. CASE TakeRegistry
    <3>1. PICK actors \in Registries : input' = [of |-> "day", host |-> NewHost(actors), step |-> [does |-> "start"]]
      BY <2>2 DEF TakeRegistry
    <3>2. IsRegistry(actors)
      BY DaysAssumption DEF DaysAssumption
    <3>3. HostInv(NewHost(actors))
      <4> DEFINE new == NewHost(actors)
      <4>1. /\ new = [field \in HostFields |-> new[field]]
            /\ new.actors = actors /\ new.sessions = {} /\ new.open = {} /\ new.posted = {}
            /\ new.fresh = {}
        BY DEF NewHost, HostFields
      <4> HIDE DEF new
      <4>2. Meet(Range(new.actors), new.sessions, Known(new), new.open, new.posted, new.fresh)
        BY <4>1 DEF Meet
      <4>3. HostInv(new)
        BY <4>1, <4>2, <3>2 DEF HostInv
      <4> QED
        BY <4>3 DEF new
    <3>4. input'.host = NewHost(actors) /\ input'.step.does = "start"
      BY <3>1
    <3> QED
      BY <3>3, <3>4 DEF DaysInv, StepDone
  <2>3. CASE UNCHANGED input
    BY <1>2, <2>3 DEF DaysInv
  <2> QED
    BY <1>2, <2>1, <2>2, <2>3, OfTheStep DEF DaysInv
<1> QED
  BY <1>1, <1>2, PTL DEF TextsSpec

LEMMA DeliveriesMeetTheirAudienceTaken ==
  ASSUME DaysInv
  PROVE  DeliveriesMeetTheirAudience
<1> DEFINE host == input.host
           configured == Range(host.actors)
<1> SUFFICES ASSUME input.of = "day"
             PROVE  /\ \A seat \in host.open \cup host.posted :
                         /\ seat.bot \in configured => HandlerOfAnswer(host, seat) = seat.bot
                         /\ Seat(HandlerOfAnswer(host, seat), seat.channel) \in Known(host)
                    /\ \A seat \in host.sessions \ host.fresh : Seat(HandlerOfTell(host), seat.channel) \in Known(host)
  BY DEF Known, DaysInv, StepDone, DeliveriesMeetTheirAudience
<1>1. HostInv(host)
  BY DEF DaysInv
<1>2. host.actors[1] \in configured /\ Nobody \notin configured
  BY <1>1, FirstActor DEF HostInv, IsRegistry
<1>3. HandlerOfTell(host) = host.actors[1]
  BY <1>2 DEF HandlerOfTell, ActorOrFirst
<1>4. \A seat \in host.open \cup host.posted :
        HandlerOfAnswer(host, seat) = IF seat.bot \in configured THEN seat.bot ELSE host.actors[1]
  BY <1>2 DEF HandlerOfAnswer, ActorOrFirst, BotIdForAsk
<1> QED
  BY <1>1, <1>2, <1>3, <1>4 DEF HostInv, Meet

-----------------------------------------------------------------------------
(* ---------------------------------- tags -------------------------------- *)

LEMMA SeqOfMore ==
  ASSUME NEW s, IsSeq(s), NEW T, Range(s) \subseteq T
  PROVE  s \in Seq(T)
  BY DEF IsSeq

LEMMA Appended ==
  ASSUME NEW s, IsSeq(s), NEW x
  PROVE  LET more == Append(s, x)
             last == Len(s) + 1
         IN /\ DOMAIN more = (DOMAIN s) \cup {last} /\ last \notin DOMAIN s /\ last \in Nat
            /\ more[last] = x
            /\ \A i \in DOMAIN s : more[i] = s[i]
<1> DEFINE T == Range(s) \cup {x}
<1>1. s \in Seq(T) /\ x \in T
  BY SeqOfMore
<1> HIDE DEF T
<1> QED
  BY <1>1

LEMMA Prepended ==
  ASSUME NEW s, IsSeq(s), NEW x
  PROVE  LET more == <<x>> \o s
         IN /\ DOMAIN more = {1} \cup {i + 1 : i \in DOMAIN s}
            /\ more[1] = x
            /\ \A i \in DOMAIN s : i \in Nat /\ i >= 1 /\ more[i + 1] = s[i]
<1> DEFINE T == Range(s) \cup {x}
           more == <<x>> \o s
<1>1. s \in Seq(T) /\ <<x>> \in Seq(T)
  <2>1. s \in Seq(T)
    BY SeqOfMore
  <2> QED
    BY <2>1
<1> HIDE DEF T
<1>2. Len(s) \in Nat /\ DOMAIN s = 1..Len(s)
  BY <1>1
<1>3. DOMAIN more = 1..(Len(s) + 1)
  BY <1>1
<1>4. more[1] = x /\ \A i \in DOMAIN s : more[i + 1] = s[i]
  BY <1>1
<1>5. 1..(Len(s) + 1) = {1} \cup {i + 1 : i \in 1..Len(s)}
  <2>1. ASSUME NEW k \in 1..(Len(s) + 1), k # 1
        PROVE  k - 1 \in 1..Len(s) /\ k = (k - 1) + 1
    BY <1>2, <2>1
  <2>2. 1..(Len(s) + 1) \subseteq {1} \cup {i + 1 : i \in 1..Len(s)}
    BY <2>1
  <2>3. {1} \cup {i + 1 : i \in 1..Len(s)} \subseteq 1..(Len(s) + 1)
    BY <1>2
  <2> QED
    BY <2>2, <2>3
<1> QED
  BY <1>2, <1>3, <1>4, <1>5

LEMMA AppendedRange ==
  ASSUME NEW s, IsSeq(s), NEW x
  PROVE  Range(s) \subseteq Range(Append(s, x)) /\ Range(s) \subseteq Range(<<x>> \o s)
<1>1. Range(s) \subseteq Range(Append(s, x))
  BY Appended DEF Range
<1>2. ASSUME NEW v \in Range(s) PROVE v \in Range(<<x>> \o s)
  <2>1. PICK i \in DOMAIN s : s[i] = v
    BY DEF Range
  <2>2. i + 1 \in DOMAIN (<<x>> \o s) /\ (<<x>> \o s)[i + 1] = v
    BY <2>1, Prepended
  <2> QED
    BY <2>2, Zenon DEF Range
<1> QED
  BY <1>1, <1>2

\* The value of the only valid tag.
LEMMA FirstOfOne ==
  ASSUME NEW tags, NEW i \in Nat
  PROVE  FirstOf(tags, {i}) = tags[i].value
<1>1. Min({i}) = i
  <2>1. Min({i}) \in {i}
    BY LeastMember
  <2> QED
    BY <2>1
<1> QED
  BY <1>1 DEF FirstOf

\* What a post asks depends on its author, its mentions, its body and where it stands.
LEMMA SameAction ==
  ASSUME NEW e, NEW f,
         EffectiveAuthor(e).pubkey = EffectiveAuthor(f).pubkey,
         Mentioned(e, EffectiveAuthor(e)) = Mentioned(f, EffectiveAuthor(f)),
         e.body = f.body, e.channel = f.channel, ReplyTarget(e.tags) = ReplyTarget(f.tags)
  PROVE  MessageAction(e) = MessageAction(f)
  BY Zenon DEF MessageAction

\* A last tag that is no mention and no reply changes neither.
LEMMA AppendedActor ==
  ASSUME NEW tags, IsSeq(tags), NEW author, author # Junk
  PROVE  LET more == Append(tags, Tag("actor", author, "none"))
         IN /\ Carrying(more, "actor") = Carrying(tags, "actor") \cup {Len(tags) + 1}
            /\ Carrying(more, "p") = Carrying(tags, "p")
            /\ \A i \in Carrying(tags, "p") : more[i] = tags[i]
            /\ ReplyTarget(more) = ReplyTarget(tags)
<1> DEFINE more == Append(tags, Tag("actor", author, "none"))
           last == Len(tags) + 1
<1>1. /\ DOMAIN more = (DOMAIN tags) \cup {last} /\ last \notin DOMAIN tags
      /\ more[last] = Tag("actor", author, "none")
      /\ \A i \in DOMAIN tags : more[i] = tags[i]
  BY Appended
<1>2. more[last].name = "actor" /\ more[last].value = author
  BY <1>1 DEF Tag
<1> HIDE DEF more, last
<1>3. /\ Carrying(more, "actor") = Carrying(tags, "actor") \cup {last}
      /\ Carrying(more, "p") = Carrying(tags, "p")
      /\ Carrying(more, "e") = Carrying(tags, "e")
  BY <1>1, <1>2 DEF Carrying
<1>4. Marked(more, "reply") = Marked(tags, "reply") /\ Marked(tags, "reply") \subseteq DOMAIN tags
  BY <1>1, <1>3 DEF Marked, Carrying
<1>5. ReplyTarget(more) = ReplyTarget(tags)
  <2> DEFINE places == Marked(tags, "reply")
  <2>1. CASE places = {}
    BY <1>4, <2>1 DEF ReplyTarget, LastOf
  <2>2. CASE places # {}
    <3>1. Max(places) \in places
      <4>1. Len(tags) \in Nat /\ places \subseteq 0..Len(tags)
        BY <1>4, SeqDomain
      <4> HIDE DEF places
      <4> QED
        BY <4>1, <2>2, GreatestMember
    <3> QED
      BY <1>1, <1>4, <2>2, <3>1 DEF ReplyTarget, LastOf
  <2> QED
    BY <2>1, <2>2
<1> QED
  BY <1>3, <1>5, <1>1 DEF more, last, Carrying

\* A first tag that names a person stands before all mentions and is no reply.
LEMMA PrependedPerson ==
  ASSUME NEW tags, IsSeq(tags), NEW author, author # Junk
  PROVE  LET more == <<Tag("p", author, "none")>> \o tags
         IN /\ Carrying(more, "actor") = {i + 1 : i \in Carrying(tags, "actor")}
            /\ Carrying(more, "p") = {1} \cup {i + 1 : i \in Carrying(tags, "p")}
            /\ more[1].value = author
            /\ \A i \in Carrying(tags, "p") : i \in Nat /\ i >= 1 /\ more[i + 1] = tags[i]
            /\ ReplyTarget(more) = ReplyTarget(tags)
<1> DEFINE more == <<Tag("p", author, "none")>> \o tags
           places == Marked(tags, "reply")
<1>1. /\ DOMAIN more = {1} \cup {i + 1 : i \in DOMAIN tags}
      /\ more[1] = Tag("p", author, "none")
      /\ \A i \in DOMAIN tags : i \in Nat /\ i >= 1 /\ more[i + 1] = tags[i]
  BY Prepended
<1>2. more[1].name = "p" /\ more[1].value = author
  BY <1>1 DEF Tag
<1> HIDE DEF more
<1>3. /\ Carrying(more, "actor") = {i + 1 : i \in Carrying(tags, "actor")}
      /\ Carrying(more, "e") = {i + 1 : i \in Carrying(tags, "e")}
  BY <1>1, <1>2 DEF Carrying
<1>4. Carrying(more, "p") = {1} \cup {i + 1 : i \in Carrying(tags, "p")}
  BY <1>1, <1>2 DEF Carrying
<1>5. Marked(more, "reply") = {i + 1 : i \in places}
  BY <1>1, <1>3 DEF Marked, Carrying
<1>6. places \subseteq DOMAIN tags
  BY DEF Marked, Carrying
<1>7. Len(tags) \in Nat /\ DOMAIN tags = 1..Len(tags)
  BY SeqDomain
<1> DEFINE moved == {i + 1 : i \in places}
<1>8. CASE places = {}
  <2>1. moved = {}
    BY <1>8
  <2> QED
    BY <1>1, <1>2, <1>3, <1>4, <1>5, <1>8, <2>1 DEF ReplyTarget, LastOf, Carrying, more
<1>9. CASE places # {}
  <2>1. Max(places) \in places /\ \A y \in places : Max(places) >= y
    <3>1. places \subseteq 0..Len(tags)
      BY <1>6, <1>7
    <3> HIDE DEF places
    <3> QED
      BY <3>1, <1>7, <1>9, GreatestMember
  <2>2. Max(moved) \in moved /\ \A y \in moved : Max(moved) >= y
    <3>1. moved \subseteq 0..(Len(tags) + 1) /\ moved # {}
      BY <1>6, <1>7, <1>9
    <3>2. Len(tags) + 1 \in Nat
      BY <1>7
    <3> HIDE DEF moved
    <3> QED
      BY <3>1, <3>2, GreatestMember
  <2> HIDE DEF places
  <2>3. Max(moved) = Max(places) + 1
    <3>1. PICK i \in places : Max(moved) = i + 1
      BY <2>2
    <3>2. Max(moved) >= Max(places) + 1
      BY <2>1, <2>2
    <3>3. i \in Nat /\ Max(places) \in Nat
      BY <1>6, <1>7, <2>1
    <3> QED
      BY <2>1, <3>1, <3>2, <3>3
  <2>4. more[Max(moved)] = tags[Max(places)]
    BY <1>1, <1>6, <2>1, <2>3
  <2>5. moved # {} /\ Marked(more, "reply") = moved
    BY <1>5, <1>9 DEF places
  <2>6. ReplyTarget(more) = ReplyTarget(tags)
    BY <1>9, <2>4, <2>5 DEF ReplyTarget, LastOf, places
  <2> QED
    BY <1>1, <1>2, <1>3, <1>4, <2>6 DEF Carrying, more
<1> QED
  BY <1>8, <1>9

-----------------------------------------------------------------------------
(* -------------------------------- requests ------------------------------ *)

\* A post of somebody's own: nobody else signed it, nor is named in it.
LEMMA OwnAuthor ==
  ASSUME NEW event, event.signer # RelayKey
  PROVE  /\ EffectiveAuthor(event) = [pubkey |-> event.signer, byTag |-> FALSE]
         /\ EffectiveAuthor(event).pubkey = event.signer
         /\ Mentioned(event, EffectiveAuthor(event)) =
              {event.tags[i].value : i \in Carrying(event.tags, "p")}
<1>1. EffectiveAuthor(event) = [pubkey |-> event.signer, byTag |-> FALSE]
  BY DEF EffectiveAuthor
<1> QED
  BY <1>1 DEF Mentioned

\* Who may call the bot that a post asks.
LEMMA AskedOf ==
  ASSUME NEW author, NEW people, NEW body, IsSeq(Bots),
         NEW bot, bot = CalledBot(author, people, body), bot # Nothing
  PROVE  Authorizes(bot, author) /\ Parsed(author, people, bot, body) # <<>>
<1> DEFINE called == {i \in DOMAIN Bots :
                        Authorizes(Bots[i], author) /\ Parsed(author, people, Bots[i], body) # <<>>}
<1>1. called # {} /\ bot = Bots[Min(called)]
  BY Zenon DEF CalledBot
<1>2. called \subseteq Nat
  BY SeqDomain
<1>3. Min(called) \in called
  <2> HIDE DEF called
  <2> QED
    BY <1>1, <1>2, LeastMember
<1> QED
  BY <1>1, <1>3

LEMMA AsksOnce ==
  ASSUME NEW event, MessageAction(event) # NoAction
  PROVE  LET author == EffectiveAuthor(event).pubkey
             people == Mentioned(event, EffectiveAuthor(event))
             bot == CalledBot(author, people, event.body)
         IN /\ bot # Nothing /\ event.channel # Nothing
            /\ MessageAction(event) =
                 [does |-> "ask", bot |-> bot, by |-> author,
                  request |-> Parsed(author, people, bot, event.body)[1],
                  replyTo |-> ReplyTarget(event.tags)]
  BY Zenon DEF MessageAction

LEMMA PeopleAreTagged ==
  ASSUME NEW event, IsEvent(event), event.signer # RelayKey,
         NEW p \in Mentioned(event, EffectiveAuthor(event))
  PROVE  Tag("p", p, "none") \in Range(event.tags)
<1>1. PICK i \in Carrying(event.tags, "p") : event.tags[i].value = p
  BY OwnAuthor
<1>2. i \in DOMAIN event.tags /\ event.tags[i].name = "p"
  BY DEF Carrying
<1>3. event.tags[i] \in Range(event.tags)
  BY <1>2 DEF Range
<1>4. event.tags[i] = Tag("p", p, "none")
  BY <1>1, <1>2, <1>3 DEF IsEvent
<1> QED
  BY <1>3, <1>4

\* A post asks only for an author who called the bot, and who is admitted.
LEMMA AskersCalled ==
  ASSUME NEW event, IsEvent(event), IsSeq(Bots), event.signer # RelayKey,
         MessageAction(event) # NoAction
  PROVE  LET bot == MessageAction(event).bot
         IN /\ event.signer = Operator \/ Admitted[bot] = {} \/ event.signer \in Admitted[bot]
            /\ event.signer = Operator \/ Tag("p", Operator, "none") \in Range(event.tags)
<1> DEFINE author == EffectiveAuthor(event).pubkey
           people == Mentioned(event, EffectiveAuthor(event))
           bot == CalledBot(author, people, event.body)
<1>1. author = event.signer
  BY OwnAuthor
<1>2. bot # Nothing /\ MessageAction(event).bot = bot
  BY AsksOnce
<1>3. Authorizes(bot, author) /\ Parsed(author, people, bot, event.body) # <<>>
  BY <1>2, AskedOf
<1> HIDE DEF bot
<1>4. author = Operator \/ Operator \in people
  BY <1>3 DEF Parsed
<1>5. Operator \in people => Tag("p", Operator, "none") \in Range(event.tags)
  BY PeopleAreTagged
<1> QED
  BY <1>1, <1>2, <1>3, <1>4, <1>5 DEF Authorizes

\* However it is signed, a post of the same author asks the same.
LEMMA SignedByTheRelay ==
  ASSUME NEW event, IsEvent(event), event.signer \notin {RelayKey, Junk, Nothing},
         Carrying(event.tags, "actor") = {}, Operator # Junk
  PROVE  /\ MessageAction(ByActor(event, event.signer)) = MessageAction(event)
         /\ MessageAction(ByPerson(event, event.signer)) = MessageAction(event)
         /\ MessageAction([event EXCEPT !.tags = Append(event.tags, Tag("actor", Operator, "none"))])
              = MessageAction(event)
<1> DEFINE author == event.signer
           tags == event.tags
           people == {tags[i].value : i \in Carrying(tags, "p")}
           last == Len(tags) + 1
<1>1. /\ EffectiveAuthor(event).pubkey = author
      /\ Mentioned(event, EffectiveAuthor(event)) = people
  BY OwnAuthor
<1>2. IsSeq(tags) /\ last \in Nat
  BY SeqDomain DEF IsEvent
<1>3. MessageAction(ByActor(event, author)) = MessageAction(event)
  <2> DEFINE other == ByActor(event, author)
             more == Append(tags, Tag("actor", author, "none"))
  <2>1. /\ other.signer = RelayKey /\ other.tags = more
        /\ other.body = event.body /\ other.channel = event.channel
    BY DEF ByActor, IsEvent
  <2>2. /\ Carrying(more, "actor") = {last} /\ Carrying(more, "p") = Carrying(tags, "p")
        /\ \A i \in Carrying(tags, "p") : more[i] = tags[i]
        /\ ReplyTarget(more) = ReplyTarget(tags)
    BY <1>2, AppendedActor
  <2>3. more[last].value = author
    BY <1>2, Appended DEF Tag
  <2>4. FirstOf(more, Carrying(more, "actor")) = author
    BY <1>2, <2>2, <2>3, FirstOfOne
  <2> HIDE DEF other, more
  <2>5. EffectiveAuthor(other) = [pubkey |-> author, byTag |-> FALSE]
    BY <2>1, <2>4 DEF EffectiveAuthor
  <2>6. Mentioned(other, EffectiveAuthor(other)) = people
    BY <2>1, <2>2, <2>5 DEF Mentioned
  <2>7. EffectiveAuthor(other).pubkey = author
    BY <2>5
  <2>8. MessageAction(other) = MessageAction(event)
    BY <1>1, <2>1, <2>2, <2>6, <2>7, SameAction
  <2> QED
    BY <2>8 DEF other
<1>4. MessageAction(ByPerson(event, author)) = MessageAction(event)
  <2> DEFINE other == ByPerson(event, author)
             more == <<Tag("p", author, "none")>> \o tags
             moved == {i + 1 : i \in Carrying(tags, "p")}
  <2>1. /\ other.signer = RelayKey /\ other.tags = more
        /\ other.body = event.body /\ other.channel = event.channel
    BY DEF ByPerson, IsEvent
  <2>2. /\ Carrying(more, "actor") = {} /\ Carrying(more, "p") = {1} \cup moved
        /\ more[1].value = author
        /\ \A i \in Carrying(tags, "p") : i \in Nat /\ i >= 1 /\ more[i + 1] = tags[i]
        /\ ReplyTarget(more) = ReplyTarget(tags)
    <3>1. Carrying(more, "actor") = {i + 1 : i \in Carrying(tags, "actor")}
      BY <1>2, PrependedPerson
    <3>2. /\ Carrying(more, "p") = {1} \cup moved /\ more[1].value = author
          /\ ReplyTarget(more) = ReplyTarget(tags)
      BY <1>2, PrependedPerson
    <3>3. \A i \in Carrying(tags, "p") : i \in Nat /\ i >= 1 /\ more[i + 1] = tags[i]
      BY <1>2, PrependedPerson
    <3>4. Carrying(more, "actor") = {}
      BY <3>1
    <3> QED
      BY <3>2, <3>3, <3>4
  <2> HIDE DEF other, more
  <2>3. moved \subseteq Nat /\ \A k \in moved : k > 1
    BY <2>2
  <2>4. Min({1} \cup moved) = 1
    <3> HIDE DEF moved
    <3> DEFINE all == {1} \cup moved
    <3>1. all \subseteq Nat /\ 1 \in all /\ \A k \in all : k = 1 \/ k > 1
      BY <2>3
    <3> HIDE DEF all
    <3>2. Min(all) \in all /\ Min(all) <= 1
      BY <3>1, LeastMember
    <3>3. Min(all) = 1
      <4>1. PICK m \in all : m = Min(all) /\ m <= 1
        BY <3>2
      <4>2. m \in Nat /\ (m = 1 \/ m > 1)
        BY <3>1
      <4>3. m = 1
        BY <4>1, <4>2
      <4> QED
        BY <4>1, <4>3
    <3> QED
      BY <3>3 DEF all
  <2>5. FirstOf(more, Carrying(more, "p")) = author /\ FirstOf(more, Carrying(more, "actor")) = Nothing
    BY <2>2, <2>4 DEF FirstOf
  <2>6. EffectiveAuthor(other) = [pubkey |-> author, byTag |-> TRUE]
    BY <2>1, <2>5 DEF EffectiveAuthor
  <2>7. Carrying(more, "p") \ {Min(Carrying(more, "p"))} = moved
    BY <2>2, <2>3, <2>4
  <2>8. Mentioned(other, EffectiveAuthor(other)) = {more[i].value : i \in moved}
    BY <2>1, <2>6, <2>7 DEF Mentioned
  <2>9. {more[i].value : i \in moved} = people
    BY <2>2
  <2>10. EffectiveAuthor(other).pubkey = author
    BY <2>6
  <2>11. MessageAction(other) = MessageAction(event)
    BY <1>1, <2>1, <2>2, <2>8, <2>9, <2>10, SameAction
  <2> QED
    BY <2>11 DEF other
<1>5. MessageAction([event EXCEPT !.tags = Append(tags, Tag("actor", Operator, "none"))])
        = MessageAction(event)
  <2> DEFINE more == Append(tags, Tag("actor", Operator, "none"))
             other == [event EXCEPT !.tags = more]
  <2>1. /\ other.signer = author /\ other.tags = more
        /\ other.body = event.body /\ other.channel = event.channel
    BY DEF IsEvent
  <2>2. /\ Carrying(more, "p") = Carrying(tags, "p")
        /\ \A i \in Carrying(tags, "p") : more[i] = tags[i]
        /\ ReplyTarget(more) = ReplyTarget(tags)
    BY <1>2, AppendedActor
  <2> HIDE DEF other, more
  <2>3. /\ EffectiveAuthor(other).pubkey = author
        /\ Mentioned(other, EffectiveAuthor(other)) = {more[i].value : i \in Carrying(more, "p")}
    BY <2>1, OwnAuthor
  <2>4. Mentioned(other, EffectiveAuthor(other)) = people
    BY <2>2, <2>3
  <2>5. MessageAction(other) = MessageAction(event)
    BY <1>1, <2>1, <2>2, <2>3, <2>4, SameAction
  <2> QED
    BY <2>5 DEF other, more
<1> QED
  BY <1>3, <1>4, <1>5

LEMMA AuthorsAskForThemselvesTaken ==
  ASSUME TakenFrom
  PROVE  AuthorsAskForThemselves
<1> DEFINE event == input.event
           act == MessageAction(event)
           claimed == [event EXCEPT !.tags = Append(event.tags, Tag("actor", Operator, "none"))]
<1> SUFFICES ASSUME input.of = "post", Carrying(event.tags, "actor") = {}
             PROVE  /\ MessageAction(ByActor(event, event.signer)) = act
                    /\ MessageAction(ByPerson(event, event.signer)) = act
                    /\ MessageAction(claimed) = act
                    /\ act.does = "ask" =>
                         /\ event.signer = Operator \/ Admitted[act.bot] = {} \/ event.signer \in Admitted[act.bot]
                         /\ event.signer = Operator \/ Tag("p", Operator, "none") \in Range(event.tags)
  BY DEF AuthorsAskForThemselves
<1>1. IsEvent(event) /\ event.signer \notin {RelayKey, Junk, Nothing}
  BY EventsAssumption DEF EventsAssumption, TakenFrom
<1>2. Operator # Junk /\ IsSeq(Bots)
  BY ReadingAssumption DEF ReadingAssumption
<1>3. act.does = "ask" => act # NoAction
  BY DEF NoAction
<1> QED
  BY <1>1, <1>2, <1>3, SignedByTheRelay, AskersCalled

\* No two bots are called by the same words.
LEMMA OneIsCalled ==
  ASSUME NEW body, NEW b, NEW c, FromBody(body, b) # <<>>, FromBody(body, c) # <<>>
  PROVE  b = c
<1>1. ASSUME NEW bot, FromBody(body, bot) # <<>>
      PROVE  \/ body[1] = Call(bot)
             \/ body[1] = AtName /\ body[2] = Call(bot)
  BY <1>1 DEF FromBody
<1>2. ASSUME NEW x, NEW y, Call(x) = Call(y)
      PROVE  x = y
  <2>1. Call(x).bot = x /\ Call(y).bot = y
    BY DEF Call
  <2> QED
    BY <1>2, <2>1, Zenon
<1>3. \A x : Call(x) # AtName
  <2>1. AtName.is = "at" /\ \A x : Call(x).is = "call"
    BY DEF Call, AtName
  <2> QED
    BY <2>1
<1>4. /\ body[1] = Call(b) \/ (body[1] = AtName /\ body[2] = Call(b))
      /\ body[1] = Call(c) \/ (body[1] = AtName /\ body[2] = Call(c))
  BY <1>1
<1> QED
  BY <1>2, <1>3, <1>4, Zenon

\* An edit takes its request from the body, if its author may make it.
LEMMA EditRead ==
  ASSUME NEW event, NEW target, EditAction(event, target) # NoAction
  PROVE  LET author == EffectiveAuthor(event).pubkey
         IN /\ target.author = author /\ target.bot # Nothing
            /\ EditAction(event, target).does = "edit"
            /\ EditAction(event, target).request # <<>> =>
                 /\ target.bot \in Range(Bots) /\ Authorizes(target.bot, author)
                 /\ FromBody(event.body, target.bot) # <<>>
                 /\ EditAction(event, target).request = FromBody(event.body, target.bot)
<1> DEFINE author == EffectiveAuthor(event).pubkey
           asked == IF target.bot \in Range(Bots) /\ Authorizes(target.bot, author)
                        THEN Parsed(author, {Operator}, target.bot, event.body) ELSE <<>>
           act == EditAction(event, target)
<1>1. /\ target.author = author /\ target.bot # Nothing
      /\ act = [does |-> "edit", request |-> asked]
  BY Zenon DEF EditAction
<1>2. asked # <<>> =>
        /\ target.bot \in Range(Bots) /\ Authorizes(target.bot, author)
        /\ FromBody(event.body, target.bot) # <<>>
        /\ asked = FromBody(event.body, target.bot)
  BY DEF Parsed
<1> HIDE DEF asked
<1>3. act.does = "edit" /\ act.request = asked
  <2> HIDE DEF act
  <2> QED
    BY <1>1
<1> QED
  BY <1>1, <1>2, <1>3

\* A post of a person addressed to the operator asks what its words say.
LEMMA AnewAsks ==
  ASSUME NEW event, IsEvent(event), event.channel # Nothing, NEW author, author # RelayKey,
         Operator # Junk, IsSeq(Bots), NEW bot \in Range(Bots), bot # Nothing,
         Authorizes(bot, author), FromBody(event.body, bot) # <<>>
  PROVE  LET anew == Anew(event, author)
         IN /\ MessageAction(anew).does = "ask" /\ MessageAction(anew).bot = bot
            /\ MessageAction(anew).request = FromBody(event.body, bot)[1]
<1> DEFINE more == <<Tag("p", Operator, "none")>>
           anew == Anew(event, author)
           people == Mentioned(anew, EffectiveAuthor(anew))
           called == {i \in DOMAIN Bots :
                        Authorizes(Bots[i], author) /\ Parsed(author, people, Bots[i], event.body) # <<>>}
<1>1. /\ anew.signer = author /\ anew.tags = more
      /\ anew.body = event.body /\ anew.channel = event.channel
  BY DEF Anew, IsEvent
<1>2. 1 \in Carrying(more, "p") /\ more[1].value = Operator
  BY DEF Carrying, Tag
<1> HIDE DEF more, anew
<1>3. EffectiveAuthor(anew).pubkey = author /\ people = {more[i].value : i \in Carrying(more, "p")}
  BY <1>1, OwnAuthor
<1>4. Operator \in people
  BY <1>2, <1>3
<1> HIDE DEF people
<1>5. \A b : Parsed(author, people, b, event.body) = FromBody(event.body, b)
  BY <1>4, Zenon DEF Parsed
<1>6. called # {} /\ \A i \in called : Bots[i] = bot
  <2>1. PICK i \in DOMAIN Bots : Bots[i] = bot
    BY DEF Range
  <2>2. i \in called
    BY <1>5, <2>1
  <2>3. \A j \in called : FromBody(event.body, Bots[j]) # <<>>
    BY <1>5
  <2> QED
    BY <2>2, <2>3, OneIsCalled
<1>7. Min(called) \in called
  <2>1. called \subseteq Nat
    BY SeqDomain
  <2> HIDE DEF called
  <2> QED
    BY <1>6, <2>1, LeastMember
<1>8. CalledBot(author, people, event.body) = bot
  <2>1. CalledBot(author, people, event.body) = IF called = {} THEN Nothing ELSE Bots[Min(called)]
    BY Zenon DEF CalledBot
  <2> HIDE DEF called
  <2> QED
    BY <2>1, <1>6, <1>7
<1>9. MessageAction(anew) =
        [does |-> "ask", bot |-> bot, by |-> author,
         request |-> Parsed(author, people, bot, event.body)[1], replyTo |-> ReplyTarget(anew.tags)]
  <2>1. MessageAction(anew) =
          IF anew.channel = Nothing \/ CalledBot(author, people, event.body) = Nothing THEN NoAction
          ELSE [does |-> "ask", bot |-> CalledBot(author, people, event.body), by |-> author,
                request |-> Parsed(author, people, CalledBot(author, people, event.body), event.body)[1],
                replyTo |-> ReplyTarget(anew.tags)]
    BY <1>1, <1>3, Zenon DEF MessageAction, people
  <2> QED
    BY <1>1, <1>8, <2>1, Zenon
<1>10. /\ MessageAction(anew).does = "ask" /\ MessageAction(anew).bot = bot
       /\ MessageAction(anew).request = FromBody(event.body, bot)[1]
  BY <1>5, <1>9
<1> QED
  BY <1>10 DEF anew

LEMMA EditsAskNoMoreTaken ==
  ASSUME TakenFrom
  PROVE  EditsAskNoMore
<1> DEFINE event == input.event
           target == input.target
           act == MutationAction(event, target)
           author == EffectiveAuthor(event).pubkey
           anew == Anew(event, author)
<1> SUFFICES ASSUME input.of = "edit"
             PROVE  /\ act # NoAction => author = target.author \/ event.kind = "buzz"
                    /\ act.does = "edit" /\ act.request # <<>> =>
                         /\ MessageAction(anew).does = "ask"
                         /\ MessageAction(anew).bot = target.bot
                         /\ MessageAction(anew).request = act.request[1]
  BY Zenon DEF EditsAskNoMore
<1>1. /\ IsEvent(event) /\ event.kind \in Mutating /\ event.channel # Nothing
      /\ target.author # RelayKey
  BY EventsAssumption DEF EventsAssumption, TakenFrom
<1>2. Operator # Junk /\ IsSeq(Bots)
  BY ReadingAssumption DEF ReadingAssumption
<1>3. NoAction.does = "nothing"
  BY DEF NoAction
<1>4. CASE event.kind = "edit"
  <2>1. act = EditAction(event, target)
    BY <1>4 DEF MutationAction
  <2>2. act # NoAction => author = target.author
    BY <2>1, EditRead
  <2>3. ASSUME act.does = "edit", act.request # <<>>
        PROVE  /\ MessageAction(anew).does = "ask"
               /\ MessageAction(anew).bot = target.bot
               /\ MessageAction(anew).request = act.request[1]
    <3>1. act # NoAction
      BY <1>3, <2>3
    <3>2. /\ target.author = author /\ target.bot # Nothing
          /\ target.bot \in Range(Bots) /\ Authorizes(target.bot, author)
          /\ FromBody(event.body, target.bot) # <<>> /\ act.request = FromBody(event.body, target.bot)
      BY <2>1, <2>3, <3>1, EditRead
    <3>3. author # RelayKey
      BY <1>1, <3>2
    <3> HIDE DEF act, author
    <3> QED
      BY <1>1, <1>2, <3>2, <3>3, AnewAsks
  <2> QED
    BY <2>2, <2>3
<1>5. CASE event.kind # "edit"
  <2>1. event.kind \in {"nip09", "buzz"}
    BY <1>1, <1>5 DEF Mutating
  <2>2. act = DeleteAction(event, target)
    BY <1>5 DEF MutationAction
  <2>3. act # NoAction => author = target.author \/ event.kind = "buzz"
    BY <2>1, <2>2, Zenon DEF DeleteAction
  <2>4. act.does # "edit"
    BY <2>2 DEF DeleteAction, NoAction
  <2> QED
    BY <2>3, <2>4
<1> QED
  BY <1>4, <1>5
-----------------------------------------------------------------------------
(* ------------------------------- own posts ------------------------------ *)

LEMMA StampedCallsNobody ==
  ASSUME NEW body, IsSeq(body), NEW bot, NEW other
  PROVE  FromBody(Stamped(body, bot), other) = <<>>
<1> DEFINE text == Stamped(body, bot)
<1>1. text[1] \in {StampOf(bot), Glued(bot)}
  <2>1. (<<StampOf(bot)>> \o body)[1] = StampOf(bot)
    BY Prepended
  <2> QED
    BY <2>1 DEF Stamped
<1>2. text[1].is \in {"stamp", "glued"}
  BY <1>1 DEF StampOf, Glued
<1> HIDE DEF text
<1>3. text[1] # Call(other) /\ text[1] # AtName
  BY <1>2 DEF Call, AtName
<1> QED
  BY <1>3 DEF FromBody, text

LEMMA AboutRead ==
  ASSUME NEW kind, NEW id, id # Junk, NEW channel, NEW body
  PROVE  LET event == About(kind, id, channel, body)
         IN /\ TargetEvent(event.tags) = id /\ event.kind = kind
            /\ \E i \in Carrying(event.tags, "e") : event.tags[i].value = id
<1> DEFINE event == About(kind, id, channel, body)
           tags == <<Tag("e", id, "none")>>
<1>1. event.kind = kind /\ event.tags = tags
  BY DEF About
<1>2. DOMAIN tags = {1} /\ tags[1].name = "e" /\ tags[1].value = id
  BY DEF Tag
<1> HIDE DEF event, tags
<1>3. Carrying(tags, "e") = {1}
  BY <1>2 DEF Carrying
<1>4. FirstOf(tags, {1}) = id
  BY <1>2, FirstOfOne
<1>5. TargetEvent(tags) = id
  BY <1>3, <1>4 DEF TargetEvent
<1>6. \E i \in Carrying(tags, "e") : tags[i].value = id
  BY <1>2, <1>3
<1> QED
  BY <1>1, <1>5, <1>6 DEF event

\* Of what the host posts itself, no turn is changed.
LEMMA NoTurnOf ==
  ASSUME NEW event, NEW bot, NEW id, TargetEvent(event.tags) = id, id # "m1"
  PROVE  MutationAction(event, Held(event, bot)) = NoAction
<1>1. Held(event, bot).bot = Nothing
  BY DEF Held
<1> QED
  BY <1>1 DEF MutationAction, EditAction, DeleteAction

LEMMA OwnPostsAskNothingTaken ==
  ASSUME TakenFrom
  PROVE  OwnPostsAskNothing
<1> SUFFICES ASSUME input.of = "body", NEW bot \in Range(Bots)
             PROVE  LET text == Stamped(input.body, bot)
                        mark(id, by) == [id |-> id, kind |-> "reaction", signer |-> by, tags |-> Reaction("m1").tags]
                        marks == {mark("r1", Operator), mark("r2", "alice")}
                        sent == {ChannelMessage("here", text, <<>>, <<Operator>>),
                                 MessageEdit("here", "p1", text), MessageDelete("here", "p1"), Reaction("m1")}
                                  \cup RemoveReactions("m1", marks)
                    IN /\ RemoveReactions("m1", marks) # {}
                       /\ \A event \in sent : Action(event, Held(event, bot)) = NoAction
  BY Zenon DEF OwnPostsAskNothing
<1> DEFINE text == Stamped(input.body, bot)
           mark(id, by) == [id |-> id, kind |-> "reaction", signer |-> by, tags |-> Reaction("m1").tags]
           marks == {mark("r1", Operator), mark("r2", "alice")}
           calm(event) == Action(event, Held(event, bot)) = NoAction
<1>1. IsSeq(input.body)
  BY EventsAssumption DEF EventsAssumption, TakenFrom
<1>2. calm(ChannelMessage("here", text, <<>>, <<Operator>>))
  <2> DEFINE event == ChannelMessage("here", text, <<>>, <<Operator>>)
  <2>1. event.kind = "message" /\ event.body = text
    BY DEF ChannelMessage
  <2>2. \A author, people, other : Parsed(author, people, other, text) = <<>>
    BY <1>1, StampedCallsNobody DEF Parsed
  <2> HIDE DEF event, text
  <2>3. \A author, people : CalledBot(author, people, text) = Nothing
    BY <2>2 DEF CalledBot
  <2>4. MessageAction(event) = NoAction
    BY <2>1, <2>3, Zenon DEF MessageAction
  <2>5. Action(event, Held(event, bot)) = NoAction
    BY <2>1, <2>4 DEF Action
  <2> QED
    BY <2>5 DEF event, text
<1>3. ASSUME NEW kind \in {"edit", "nip09", "buzz"}, NEW id, id \notin {"m1", Junk}, NEW channel, NEW body
      PROVE  calm(About(kind, id, channel, body))
  <2> DEFINE event == About(kind, id, channel, body)
  <2>1. TargetEvent(event.tags) = id /\ event.kind = kind
    BY <1>3, AboutRead
  <2> HIDE DEF event
  <2>2. MutationAction(event, Held(event, bot)) = NoAction
    BY <1>3, <2>1, NoTurnOf
  <2>3. Action(event, Held(event, bot)) = NoAction
    BY <2>1, <2>2 DEF Action
  <2> QED
    BY <2>3 DEF event
<1>4. calm(MessageEdit("here", "p1", text)) /\ calm(MessageDelete("here", "p1"))
  <2> HIDE DEF text
  <2>1. "p1" \notin {"m1", Junk}
    BY DEF Junk
  <2> QED
    BY <1>3, <2>1 DEF MessageEdit, MessageDelete
<1>5. calm(Reaction("m1"))
  BY DEF Action, Reaction, About
<1>6. \A r \in marks : r.id \in {"r1", "r2"}
  OBVIOUS
<1>7. \A event \in RemoveReactions("m1", marks) : calm(event)
  <2> HIDE DEF marks
  <2>1. ASSUME NEW r \in marks PROVE calm(ReactionRemoval(r))
    <3>1. r.id \notin {"m1", Junk}
      BY <1>6 DEF Junk
    <3> QED
      BY <1>3, <3>1 DEF ReactionRemoval
  <2>2. RemoveReactions("m1", marks) \subseteq {ReactionRemoval(r) : r \in marks}
    BY DEF RemoveReactions
  <2> QED
    BY <2>1, <2>2
<1>8. RemoveReactions("m1", marks) # {}
  <2> DEFINE r == mark("r1", Operator)
  <2>1. \E i \in Carrying(Reaction("m1").tags, "e") : Reaction("m1").tags[i].value = "m1"
    BY AboutRead DEF Reaction, Junk
  <2>2. r \in marks /\ r.signer = Operator /\ r.tags = Reaction("m1").tags
    OBVIOUS
  <2> HIDE DEF r, marks
  <2>3. ReactionRemoval(r) \in RemoveReactions("m1", marks)
    BY <2>1, <2>2 DEF RemoveReactions
  <2> QED
    BY <2>3
<1> HIDE DEF marks, text
<1>9. \A event \in {ChannelMessage("here", text, <<>>, <<Operator>>), MessageEdit("here", "p1", text),
                    MessageDelete("here", "p1"), Reaction("m1")} \cup RemoveReactions("m1", marks) :
        calm(event)
  BY <1>2, <1>4, <1>5, <1>7
<1> QED
  BY <1>8, <1>9 DEF marks, text

\* Nobody is asked anything but by who may ask it: a post is its author's
\* whoever signed it, an edit asks what its author could ask anew, and nothing
\* the host sends asks for anything.
THEOREM RequestsAreTheirAuthorsHolds == TextsSpec => []RequestsAreTheirAuthors
<1>1. TakenFrom => RequestsAreTheirAuthors
  BY AuthorsAskForThemselvesTaken, EditsAskNoMoreTaken, OwnPostsAskNothingTaken
  DEF RequestsAreTheirAuthors
<1> QED
  BY <1>1, TakenFromHolds, PTL

-----------------------------------------------------------------------------
(* -------------------------------- filters ------------------------------- *)

Answering == [id \in Range(Subscriptions) |-> TRUE]

\* What a filter of the scope selects is fetched.
LEMMA FetchedIf ==
  ASSUME NEW scope, NEW event, NEW id \in Range(Subscriptions),
         NEW filter \in Wanted(scope, 1)[id], Selects(filter, event, 1)
  PROVE  FetchStored(scope, 1, {[event |-> event, at |-> 1]}, Answering).events # {}
<1> DEFINE s == [event |-> event, at |-> 1]
           stored == {s}
           found == {t \in stored : \E i \in Range(Subscriptions) :
                       \E f \in Wanted(scope, 1)[i] : Selects(f, t.event, t.at)}
<1>1. FetchStored(scope, 1, stored, Answering) = [ok |-> TRUE, events |-> found]
  BY DEF FetchStored, Answering
<1>2. s.event = event /\ s.at = 1
  OBVIOUS
<1> HIDE DEF s
<1>3. s \in found
  BY <1>2
<1> HIDE DEF found
<1>4. FetchStored(scope, 1, stored, Answering).events # {}
  BY <1>1, <1>3
<1> QED
  BY <1>4 DEF s

LEMMA SubscriptionNames ==
  Range(Subscriptions) = {"messages", "authored", "channels", "mutations", "watched"}
  BY DEF Subscriptions, Range

\* Mentions of the operator are fetched.
LEMMA MentionsFetched ==
  ASSUME NEW scope, NEW event, event.kind = "message", Tag("p", Operator, "none") \in Range(event.tags)
  PROVE  FetchStored(scope, 1, {[event |-> event, at |-> 1]}, Answering).events # {}
<1> DEFINE filter == Filter(Posting, "p", {Operator}, 1)
<1>1. "messages" \in Range(Subscriptions) /\ Wanted(scope, 1)["messages"] = {filter}
  BY SubscriptionNames DEF Wanted, MessageFilter
<1>2. Selects(filter, event, 1)
  <2>1. filter.kinds = {"message"} /\ filter.on = "p" /\ filter.values = {Operator} /\ filter.since = 1
    BY DEF Filter, Posting
  <2>2. Operator \in Compared(event, "p")
    <3>1. Tag("p", Operator, "none").name = "p" /\ Tag("p", Operator, "none").value = Operator
      BY DEF Tag
    <3> QED
      BY <3>1 DEF Compared
  <2> HIDE DEF filter
  <2> QED
    BY <2>1, <2>2 DEF Selects
<1> QED
  BY <1>1, <1>2, FetchedIf

\* So is what the operator signs himself.
LEMMA OwnFetched ==
  ASSUME NEW scope, NEW event, event.kind = "message", event.signer = Operator, Operator # Junk
  PROVE  FetchStored(scope, 1, {[event |-> event, at |-> 1]}, Answering).events # {}
<1> DEFINE filter == Filter(Posting, "author", {Operator}, 1)
<1>1. "authored" \in Range(Subscriptions) /\ Wanted(scope, 1)["authored"] = {filter}
  BY SubscriptionNames DEF Wanted, AuthoredFilter, Unless
<1>2. Selects(filter, event, 1)
  BY DEF Selects, Compared, Filter, Posting
<1> QED
  BY <1>1, <1>2, FetchedIf

\* So is all that is posted in a channel of the scope.
LEMMA ChannelFetched ==
  ASSUME NEW event, event.kind = "message"
  PROVE  FetchStored(Scope({event.channel}, {}, {}), 1, {[event |-> event, at |-> 1]}, Answering).events # {}
<1> DEFINE scope == Scope({event.channel}, {}, {})
           filter == Filter(Posting, "h", {event.channel}, 1)
<1>1. scope.channels = {event.channel}
  BY DEF Scope
<1> HIDE DEF scope
<1>2. "channels" \in Range(Subscriptions) /\ Wanted(scope, 1)["channels"] = {filter}
  BY <1>1, SubscriptionNames DEF Wanted, ChannelFilter, Unless
<1>3. Selects(filter, event, 1)
  BY DEF Selects, Compared, Filter, Posting
<1>4. FetchStored(scope, 1, {[event |-> event, at |-> 1]}, Answering).events # {}
  BY <1>2, <1>3, FetchedIf
<1> QED
  BY <1>4 DEF scope

\* So is an edit or a deletion of a trigger of the scope.
LEMMA MutationFetched ==
  ASSUME NEW event, IsEvent(event), event.kind \in Mutating, TargetEvent(event.tags) # Nothing
  PROVE  FetchStored(Scope({}, {TargetEvent(event.tags)}, {}), 1,
                     {[event |-> event, at |-> 1]}, Answering).events # {}
<1> DEFINE trigger == TargetEvent(event.tags)
           scope == Scope({}, {trigger}, {})
           filter == Filter(Mutating, "e", {trigger}, 1)
           targets == Carrying(event.tags, "e")
<1>1. scope.triggers = {trigger}
  BY DEF Scope
<1>2. trigger \in Compared(event, "e")
  <2>1. PICK i \in targets : targets = {i} /\ trigger = FirstOf(event.tags, targets)
    BY Zenon DEF TargetEvent
  <2>2. i \in Nat /\ i \in DOMAIN event.tags /\ event.tags[i].name = "e"
    BY <2>1, SeqDomain DEF IsEvent, Carrying
  <2>3. trigger = event.tags[i].value
    BY <2>1, <2>2, FirstOfOne
  <2> HIDE DEF trigger
  <2> QED
    BY <2>2, <2>3 DEF Compared, Range
<1> HIDE DEF scope, trigger
<1>3. "mutations" \in Range(Subscriptions) /\ Wanted(scope, 1)["mutations"] = {filter}
  BY <1>1, SubscriptionNames DEF Wanted, MutationFilter, Unless
<1>4. Selects(filter, event, 1)
  BY <1>2 DEF Selects, Filter
<1>5. FetchStored(scope, 1, {[event |-> event, at |-> 1]}, Answering).events # {}
  BY <1>3, <1>4, FetchedIf
<1> QED
  BY <1>5 DEF scope, trigger

LEMMA WhatAsksIsFetchedTaken ==
  ASSUME TakenFrom
  PROVE  WhatAsksIsFetched
<1> DEFINE fetched(event, scope) ==
             FetchStored(scope, 1, {[event |-> event, at |-> 1]}, Answering).events # {}
           posted(event, known) ==
             MessageAction(event) # NoAction => fetched(event, Scope(known, {}, {}))
           mentions == Tag("p", Operator, "none") \in Range(input.event.tags)
           known == IF mentions THEN {} ELSE {input.event.channel}
<1>1. Operator # Junk /\ IsSeq(Bots)
  BY ReadingAssumption DEF ReadingAssumption
<1>2. ASSUME input.of = "post"
      PROVE  /\ posted(input.event, {})
             /\ posted(ByPerson(input.event, input.event.signer), known)
             /\ posted(ByActor(input.event, input.event.signer), known)
  <2> DEFINE event == input.event
  <2>1. IsEvent(event) /\ event.kind = "message" /\ event.signer \notin {RelayKey, Junk, Nothing}
    BY <1>2, EventsAssumption DEF EventsAssumption, TakenFrom
  <2>2. posted(event, {})
    <3>1. SUFFICES ASSUME MessageAction(event) # NoAction PROVE fetched(event, Scope({}, {}, {}))
      OBVIOUS
    <3>2. event.signer = Operator \/ Tag("p", Operator, "none") \in Range(event.tags)
      BY <1>1, <2>1, <3>1, AskersCalled
    <3> QED
      BY <1>1, <2>1, <3>2, OwnFetched, MentionsFetched
  <2>3. ASSUME NEW other, other.kind = "message", other.channel = event.channel,
               Range(event.tags) \subseteq Range(other.tags)
        PROVE  posted(other, known)
    <3>1. CASE mentions
      BY <2>3, <3>1, MentionsFetched
    <3>2. CASE ~mentions
      <4>1. known = {other.channel}
        BY <2>3, <3>2
      <4> QED
        BY <2>3, <4>1, ChannelFetched
    <3> QED
      BY <3>1, <3>2
  <2>4. IsSeq(event.tags)
    BY <2>1 DEF IsEvent
  <2>5. posted(ByPerson(event, event.signer), known)
    <3> DEFINE other == ByPerson(event, event.signer)
    <3>1. /\ other.kind = "message" /\ other.channel = event.channel
          /\ other.tags = <<Tag("p", event.signer, "none")>> \o event.tags
      BY <2>1 DEF ByPerson, IsEvent
    <3>2. Range(event.tags) \subseteq Range(other.tags)
      BY <2>4, <3>1, AppendedRange
    <3> HIDE DEF other, known, posted
    <3>3. posted(other, known)
      BY <2>3, <3>1, <3>2
    <3> QED
      BY <3>3 DEF other
  <2>6. posted(ByActor(event, event.signer), known)
    <3> DEFINE other == ByActor(event, event.signer)
    <3>1. /\ other.kind = "message" /\ other.channel = event.channel
          /\ other.tags = Append(event.tags, Tag("actor", event.signer, "none"))
      BY <2>1 DEF ByActor, IsEvent
    <3>2. Range(event.tags) \subseteq Range(other.tags)
      BY <2>4, <3>1, AppendedRange
    <3> HIDE DEF other, known, posted
    <3>3. posted(other, known)
      BY <2>3, <3>1, <3>2
    <3> QED
      BY <3>3 DEF other
  <2> HIDE DEF posted, known
  <2> QED
    BY <2>2, <2>5, <2>6
<1>3. ASSUME input.of = "edit", MutationAction(input.event, input.target) # NoAction
      PROVE  fetched(input.event, Scope({}, {TargetEvent(input.event.tags)}, {}))
  <2>1. IsEvent(input.event) /\ input.event.kind \in Mutating
    BY <1>3, EventsAssumption DEF EventsAssumption, TakenFrom
  <2>2. TargetEvent(input.event.tags) # Nothing
    BY <1>3, Zenon DEF MutationAction, EditAction, DeleteAction
  <2> QED
    BY <2>1, <2>2, MutationFetched
<1> QED
  BY <1>2, <1>3, Zenon DEF WhatAsksIsFetched, Answering

\* Nothing meant for the host goes unheard: it fetches what asks or changes
\* something, hears live what it wants or knows that it does not, and whoever
\* handles a delivery holds an audience of its channel.
THEOREM NothingGoesUnheardHolds == TextsSpec => []NothingGoesUnheard
<1>1. TakenFrom /\ PollsInv /\ DaysInv => NothingGoesUnheard
  BY WhatAsksIsFetchedTaken, LiveIsWholeOrRefreshedTaken, DeliveriesMeetTheirAudienceTaken
  DEF NothingGoesUnheard
<1> QED
  BY <1>1, TakenFromHolds, PollsInvHolds, DaysInvHolds, PTL

-----------------------------------------------------------------------------
(* ----------------------------- subsequences ----------------------------- *)

\* A set of numbers has as many members up to one of them as one likes.
LEMMA NthIs ==
  ASSUME NEW n \in Nat, NEW P, P \subseteq 1..n, NEW k \in 1..Cardinality(P)
  PROVE  Nth(P, k) \in P /\ Cardinality({j \in P : j <= Nth(P, k)}) = k
<1> DEFINE upTo(i) == {j \in P : j <= i}
           reached == {i \in 0..n : Cardinality(upTo(i)) >= k}
<1>1. IsFiniteSet(P)
  <2>1. IsFiniteSet(1..n)
    BY FS_Interval
  <2> QED
    BY <2>1, FS_Subset
<1>2. \A i : IsFiniteSet(upTo(i)) /\ Cardinality(upTo(i)) \in Nat
  <2>1. \A i : upTo(i) \subseteq P
    OBVIOUS
  <2> HIDE DEF upTo
  <2> QED
    BY <1>1, <2>1, FS_Subset, FS_CardinalityType
<1>3. Cardinality(P) \in Nat
  BY <1>1, FS_CardinalityType
<1>4. upTo(n) = P /\ upTo(0) = {}
  <2>1. \A j \in P : j <= n /\ ~(j <= 0)
    OBVIOUS
  <2> QED
    BY <2>1
<1>5. ASSUME NEW i \in 1..n
      PROVE  /\ upTo(i) = IF i \in P THEN upTo(i - 1) \cup {i} ELSE upTo(i - 1)
             /\ i \notin upTo(i - 1)
  <2>1. \A j \in P : j <= i <=> j = i \/ j <= i - 1
    OBVIOUS
  <2>2. ~(i <= i - 1)
    OBVIOUS
  <2> QED
    BY <2>1, <2>2
<1> HIDE DEF upTo
<1>7. Min(reached) \in reached /\ \A i \in reached : Min(reached) <= i
  <2>1. reached \subseteq Nat
    OBVIOUS
  <2>2. n \in reached
    BY <1>3, <1>4
  <2> HIDE DEF reached
  <2> QED
    BY <2>1, <2>2, LeastMember
<1>8. PICK m \in 0..n : m = Min(reached) /\ Cardinality(upTo(m)) >= k
  BY <1>7
<1>9. Cardinality(upTo(0)) = 0
  BY <1>4, FS_EmptySet
<1>10. m \in 1..n
  BY <1>8, <1>9
<1>11. Cardinality(upTo(m - 1)) < k
  <2>1. m - 1 \in 0..n /\ ~(m <= m - 1)
    BY <1>10
  <2>2. m - 1 \notin reached
    BY <1>7, <1>8, <2>1
  <2> HIDE DEF reached
  <2>3. ~(Cardinality(upTo(m - 1)) >= k)
    BY <2>1, <2>2 DEF reached
  <2>4. Cardinality(upTo(m - 1)) \in Nat
    BY <1>2
  <2> QED
    BY <2>3, <2>4
<1>12. m \in P
  <2>1. SUFFICES ASSUME m \notin P PROVE FALSE
    OBVIOUS
  <2>2. upTo(m) = upTo(m - 1)
    BY <1>5, <1>10, <2>1
  <2>3. Cardinality(upTo(m - 1)) \in Nat
    BY <1>2
  <2> QED
    BY <1>8, <1>11, <2>2, <2>3
<1>13. Cardinality(upTo(m)) = k
  <2>1. upTo(m) = upTo(m - 1) \cup {m} /\ m \notin upTo(m - 1)
    BY <1>5, <1>10, <1>12
  <2>2. IsFiniteSet(upTo(m - 1)) /\ Cardinality(upTo(m - 1)) \in Nat
    BY <1>2
  <2>3. Cardinality(upTo(m)) = Cardinality(upTo(m - 1)) + 1
    BY <2>1, <2>2, FS_AddElement
  <2> QED
    BY <1>8, <1>11, <2>2, <2>3
<1>14. \E i \in P : Cardinality({j \in P : j <= i}) = k
  BY <1>12, <1>13 DEF upTo
<1> QED
  BY <1>14, Zenon DEF Nth

\* The places picked give a sequence of what stood there, from the first on.
LEMMA PickedIs ==
  ASSUME NEW s, IsSeq(s), NEW P, P \subseteq DOMAIN s, NEW T, \A i \in P : s[i] \in T
  PROVE  /\ Picked(s, P) \in Seq(T)
         /\ P # {} => Picked(s, P) # <<>> /\ Picked(s, P)[1] = s[Min(P)] /\ Min(P) \in P
                      /\ \A i \in P : Min(P) <= i
<1>1. Len(s) \in Nat /\ P \subseteq 1..Len(s)
  BY SeqDomain
<1>2. IsFiniteSet(P) /\ Cardinality(P) \in Nat
  <2>1. IsFiniteSet(1..Len(s))
    BY <1>1, FS_Interval
  <2> QED
    BY <1>1, <2>1, FS_Subset, FS_CardinalityType
<1>3. \A k \in 1..Cardinality(P) :
        Nth(P, k) \in P /\ Cardinality({j \in P : j <= Nth(P, k)}) = k
  BY <1>1, NthIs
<1>4. Picked(s, P) = [k \in 1..Cardinality(P) |-> s[Nth(P, k)]]
  BY DEF Picked
<1>5. Picked(s, P) \in Seq(T) /\ Len(Picked(s, P)) = Cardinality(P)
  <2>1. \A k \in 1..Cardinality(P) : s[Nth(P, k)] \in T
    BY <1>3
  <2> QED
    BY <1>2, <1>4, <2>1
<1>6. ASSUME P # {}
      PROVE  /\ Picked(s, P) # <<>> /\ Picked(s, P)[1] = s[Min(P)] /\ Min(P) \in P
             /\ \A i \in P : Min(P) <= i
  <2>1. Min(P) \in P /\ \A i \in P : Min(P) <= i
    BY <1>1, <1>6, LeastMember
  <2>2. Cardinality(P) # 0
    BY <1>2, <1>6, FS_EmptySet
  <2>3. 1 \in 1..Cardinality(P)
    BY <1>2, <2>2
  <2> DEFINE first == {j \in P : j <= Nth(P, 1)}
  <2>4. Nth(P, 1) \in P /\ Cardinality(first) = 1
    BY <1>3, <2>3
  <2>5. Nth(P, 1) \in first /\ Min(P) \in first
    BY <1>1, <2>1, <2>4
  <2>6. IsFiniteSet(first)
    <3>1. first \subseteq P
      OBVIOUS
    <3> HIDE DEF first
    <3> QED
      BY <1>2, <3>1, FS_Subset
  <2> HIDE DEF first
  <2>7. Nth(P, 1) = Min(P)
    <3>1. PICK x : first = {x}
      BY <2>4, <2>6, FS_Singleton
    <3> QED
      BY <2>5, <3>1
  <2>8. Picked(s, P)[1] = s[Min(P)]
    BY <1>4, <2>3, <2>7
  <2>9. Picked(s, P) # <<>>
    BY <1>5, <2>3
  <2> QED
    BY <2>1, <2>8, <2>9
<1> QED
  BY <1>5, <1>6

LEMMA SuffixOf ==
  ASSUME NEW T, NEW u \in Seq(T), NEW v \in Seq(T)
  PROVE  IsSuffix(v, u \o v)
<1> DEFINE w == u \o v
           rv == Reverse(v)
           rw == Reverse(w)
<1>1. w \in Seq(T) /\ Len(w) = Len(u) + Len(v) /\ Len(u) \in Nat /\ Len(v) \in Nat
  OBVIOUS
<1>2. \A i \in 1..Len(v) : w[Len(u) + i] = v[i]
  OBVIOUS
<1> HIDE DEF w
<1>3. rv \in Seq(T) /\ Len(rv) = Len(v) /\ \A i \in 1..Len(v) : rv[i] = v[Len(v) - i + 1]
  BY <1>1 DEF Reverse
<1>4. rw \in Seq(T) /\ Len(rw) = Len(w) /\ \A i \in 1..Len(w) : rw[i] = w[Len(w) - i + 1]
  BY <1>1 DEF Reverse
<1>5. \A i \in 1..Len(v) : rw[i] = rv[i]
  <2>1. ASSUME NEW i \in 1..Len(v) PROVE rw[i] = rv[i]
    <3>1. i \in 1..Len(w) /\ Len(w) - i + 1 = Len(u) + (Len(v) - i + 1) /\ Len(v) - i + 1 \in 1..Len(v)
      BY <1>1
    <3> HIDE DEF rv, rw
    <3> QED
      BY <1>2, <1>3, <1>4, <3>1
  <2> QED
    BY <2>1
<1> HIDE DEF rv, rw
<1>6. SubSeq(rv, 1, Len(rv)) = SubSeq(rw, 1, Len(rv))
  <2>1. SubSeq(rv, 1, Len(v)) = [i \in 1..Len(v) |-> rv[i]]
    BY <1>1, <1>3
  <2>2. SubSeq(rw, 1, Len(v)) = [i \in 1..Len(v) |-> rw[i]]
    BY <1>1, <1>4
  <2> QED
    BY <1>3, <1>5, <2>1, <2>2
<1>7. IsPrefix(rv, rw)
  BY <1>1, <1>3, <1>4, <1>6 DEF IsPrefix
<1> QED
  BY <1>7 DEF IsSuffix, rv, rw, w

-----------------------------------------------------------------------------
(* --------------------------------- names -------------------------------- *)

Chars == Letters \cup {"-"}

\* What the assumption says of the constants alone.
LEMMA NameConstants ==
  MaxName \in Nat /\ "-" \notin Letters /\ Unnamed \in Seq(Letters) /\ Unnamed # <<>>
  BY PlacesAssumption DEF PlacesAssumption

LEMMA TrimmedIs ==
  ASSUME NEW text, IsSeq(text)
  PROVE  Trimmed(text) \in Seq(Range(text)) /\ IsSeq(Trimmed(text))
<1> DEFINE inked == {i \in DOMAIN text : text[i] # " "}
<1>1. Len(text) \in Nat /\ DOMAIN text = 1..Len(text) /\ text \in Seq(Range(text))
  BY SeqDomain DEF IsSeq
<1>2. CASE inked = {}
  <2>1. Trimmed(text) = <<>>
    BY <1>2 DEF Trimmed
  <2> QED
    BY <2>1 DEF IsSeq
<1>3. CASE inked # {}
  <2>1. inked \subseteq Nat /\ inked \subseteq 0..Len(text) /\ inked \subseteq 1..Len(text)
    <3>1. inked \subseteq 1..Len(text)
      BY <1>1
    <3> HIDE DEF inked
    <3> QED
      BY <1>1, <3>1
  <2>2. Trimmed(text) = SubSeq(text, Min(inked), Max(inked))
    BY <1>3 DEF Trimmed
  <2> HIDE DEF inked
  <2>3. Min(inked) \in 1..Len(text)
    BY <1>3, <2>1, LeastMember
  <2>4. Max(inked) \in 1..Len(text)
    BY <1>1, <1>3, <2>1, GreatestMember
  <2>5. Trimmed(text) \in Seq(Range(text))
    BY <1>1, <2>2, <2>3, <2>4
  <2>6. Trimmed(text) \in Seq(Range(Trimmed(text)))
    BY <2>5, SeqOfRange
  <2> QED
    BY <2>5, <2>6 DEF IsSeq
<1> QED
  BY <1>2, <1>3

\* A slug begins with a letter and has no other characters than names have.
LEMMA SlugIs ==
  ASSUME NEW display, IsSeq(display)
  PROVE  Slug(display) \in Seq(Chars) /\ Slug(display) # <<>> /\ Slug(display)[1] # "-"
<1> DEFINE letters == {i \in DOMAIN display : display[i] \in Letters}
           gaps == {i \in DOMAIN display \ letters : i - 1 \in letters /\ \E j \in letters : i < j}
           hyphened == [i \in DOMAIN display |-> IF i \in letters THEN display[i] ELSE "-"]
           places == letters \cup gaps
<1>1. Slug(display) = IF letters = {} THEN Unnamed ELSE Picked(hyphened, places)
  BY DEF Slug
<1>2. Len(display) \in Nat /\ DOMAIN display = 1..Len(display)
  BY SeqDomain
<1>3. CASE letters = {}
  <2>1. Unnamed[1] \in Letters /\ Unnamed \in Seq(Chars)
    <3>1. Unnamed \in Seq(Letters) /\ Unnamed # <<>>
      BY NameConstants
    <3>2. Letters \subseteq Chars
      BY DEF Chars
    <3> QED
      BY <3>1, <3>2
  <2> HIDE DEF letters
  <2> QED
    BY <1>1, <1>3, <2>1, NameConstants
<1>4. CASE letters # {}
  <2>1. IsSeq(hyphened)
    <3>1. hyphened \in Seq(Chars)
      <4>1. \A i \in 1..Len(display) : hyphened[i] \in Chars
        BY <1>2 DEF Chars
      <4> QED
        BY <1>2, <4>1
    <3> HIDE DEF hyphened
    <3>2. hyphened \in Seq(Range(hyphened))
      BY <3>1, SeqOfRange
    <3> QED
      BY <3>2 DEF IsSeq
  <2>2. places \subseteq DOMAIN hyphened /\ places # {} /\ \A i \in places : hyphened[i] \in Chars
    BY <1>4 DEF Chars
  <2>3. \A i \in gaps : i - 1 \in places /\ i - 1 < i
    BY <1>2
  <2>4. \A i \in letters : hyphened[i] # "-"
    BY NameConstants
  <2>5. Slug(display) = Picked(hyphened, places)
    BY <1>1, <1>4
  <2>6. places = letters \cup gaps /\ places \subseteq Nat
    BY <1>2
  <2> HIDE DEF hyphened, gaps, letters, places
  <2>7. /\ Picked(hyphened, places) \in Seq(Chars) /\ Picked(hyphened, places) # <<>>
        /\ Picked(hyphened, places)[1] = hyphened[Min(places)] /\ Min(places) \in places
        /\ \A i \in places : Min(places) <= i
    BY <2>1, <2>2, PickedIs
  <2>8. Min(places) \in letters
    <3>1. PICK m \in places : m = Min(places)
      BY <2>7
    <3>2. m \notin gaps
      <4>1. SUFFICES ASSUME m \in gaps PROVE FALSE
        OBVIOUS
      <4>2. m <= m - 1 /\ m \in Nat
        BY <2>3, <2>6, <2>7, <3>1, <4>1
      <4> QED
        BY <4>2
    <3> QED
      BY <2>6, <3>1, <3>2
  <2> QED
    BY <2>4, <2>5, <2>7, <2>8
<1> QED
  BY <1>3, <1>4

\* A cut slug is no longer than it may be, and holds the first letter if it may.
LEMMA CutIs ==
  ASSUME NEW slug \in Seq(Chars), slug # <<>>, slug[1] # "-", NEW length \in Nat
  PROVE  /\ Cut(slug, length) \in Seq(Chars) /\ Len(Cut(slug, length)) <= length
         /\ length > 0 => Cut(slug, length) # <<>>
<1> DEFINE most == Smaller(length, Len(slug))
           ends == {n \in 0..most : n = 0 \/ slug[n] # "-"}
           cut == CHOOSE n \in ends : \A m \in ends : m <= n
<1>1. most \in Nat /\ most <= length /\ most <= Len(slug) /\ (length > 0 => most > 0)
  BY DEF Smaller
<1>2. 0 \in ends /\ (length > 0 => 1 \in ends) /\ ends \subseteq 0..most
  BY <1>1
<1> HIDE DEF most
<1>3. cut \in ends /\ \A m \in ends : m <= cut
  <2> HIDE DEF ends
  <2>1. Max(ends) \in ends /\ \A m \in ends : Max(ends) >= m
    BY <1>1, <1>2, GreatestMember
  <2>2. \E n \in ends : \A m \in ends : m <= n
    <3>1. \A m \in ends : m <= Max(ends)
      BY <1>1, <1>2, <2>1
    <3> QED
      BY <2>1, <3>1
  <2> QED
    BY <2>2
<1>4. Cut(slug, length) = SubSeq(slug, 1, cut)
  BY DEF Cut, most
<1> HIDE DEF ends, cut
<1>5. cut \in 0..Len(slug) /\ cut <= length /\ (length > 0 => cut > 0)
  BY <1>1, <1>2, <1>3
<1>6. SubSeq(slug, 1, cut) \in Seq(Chars) /\ Len(SubSeq(slug, 1, cut)) = cut
  BY <1>5
<1> QED
  BY <1>4, <1>5, <1>6

LEMMA AboveIs ==
  ASSUME NEW m \in Nat, NEW n \in Nat
  PROVE  Above(m, n) \in Nat /\ (Above(m, n) > 0 => Above(m, n) + n = m)
  BY DEF Above

\* A candidate fits, is there if its parts fit, and ends with its suffix.
LEMMA CandidateIs ==
  ASSUME NEW bot \in Seq(Chars), NEW slug \in Seq(Chars), slug # <<>>, slug[1] # "-",
         NEW suffix \in Seq(Chars)
  PROVE  LET name == Candidate(bot, slug, suffix)
             room == Above(MaxName, Len(bot) + 1)
         IN /\ name \in Seq(Chars) /\ Len(name) <= MaxName
            /\ suffix = <<>> /\ room > 0 => name # <<>>
            /\ suffix # <<>> /\ Len(suffix) <= room => name # <<>> /\ IsSuffix(suffix, name)
<1> DEFINE name == Candidate(bot, slug, suffix)
           room == Above(MaxName, Len(bot) + 1)
           fixed == Len(bot) + 1 + Len(suffix)
<1>1. MaxName \in Nat /\ Len(bot) \in Nat /\ Len(suffix) \in Nat
  BY NameConstants
<1>2. <<"-">> \in Seq(Chars) /\ Len(<<"-">>) = 1
  BY DEF Chars
<1>3. <<>> \in Seq(Chars) /\ Len(<<>>) <= MaxName
  BY <1>1
<1>4. CASE suffix = <<>>
  <2> DEFINE shown == Cut(slug, Above(MaxName, fixed))
             whole == bot \o <<"-">> \o shown
  <2>1. name = IF Len(whole) > MaxName \/ shown = <<>> THEN <<>> ELSE whole
    BY <1>4, Zenon DEF Candidate
  <2>2. fixed = Len(bot) + 1 /\ Above(MaxName, fixed) = room
    BY <1>1, <1>4
  <2>3. room \in Nat /\ (room > 0 => room + Len(bot) + 1 = MaxName)
    <3>1. Len(bot) + 1 \in Nat
      BY <1>1
    <3>2. room \in Nat /\ (room > 0 => room + (Len(bot) + 1) = MaxName)
      BY <1>1, <3>1, AboveIs
    <3> HIDE DEF room
    <3> QED
      BY <1>1, <3>2
  <2> HIDE DEF room, fixed
  <2>4. shown \in Seq(Chars) /\ Len(shown) <= room /\ (room > 0 => shown # <<>>)
    BY <2>2, <2>3, CutIs
  <2> HIDE DEF shown
  <2>5. whole \in Seq(Chars) /\ Len(whole) = Len(bot) + 1 + Len(shown)
    BY <1>2, <2>4
  <2>6. whole # <<>>
    <3>1. Len(whole) # 0
      BY <1>1, <2>4, <2>5
    <3> QED
      BY <2>5, <3>1
  <2> HIDE DEF whole, name
  <2>7. Len(whole) \in Nat
    BY <2>5
  <2>8. name \in Seq(Chars) /\ Len(name) <= MaxName
    BY <1>1, <1>3, <2>1, <2>5, <2>7
  <2>9. room > 0 => name # <<>>
    <3>1. SUFFICES ASSUME room > 0 PROVE name # <<>>
      OBVIOUS
    <3>2. Len(whole) <= MaxName /\ shown # <<>>
      BY <1>1, <2>3, <2>4, <2>5, <3>1
    <3>3. ~(Len(whole) > MaxName)
      BY <1>1, <2>7, <3>2
    <3> QED
      BY <2>1, <2>6, <3>2, <3>3
  <2> QED
    BY <1>4, <2>8, <2>9 DEF name, room
<1>5. CASE suffix # <<>>
  <2> DEFINE left == Above(MaxName, fixed + 1)
             shown == Cut(slug, left)
             before == IF shown = <<>> THEN bot \o <<"-">> ELSE bot \o <<"-">> \o shown \o <<"-">>
             whole == before \o suffix
  <2>1. name = IF Len(whole) > MaxName THEN <<>> ELSE whole
    BY <1>5, Zenon DEF Candidate
  <2>2. room \in Nat /\ (room > 0 => room + Len(bot) + 1 = MaxName)
    <3>1. Len(bot) + 1 \in Nat
      BY <1>1
    <3>2. room \in Nat /\ (room > 0 => room + (Len(bot) + 1) = MaxName)
      BY <1>1, <3>1, AboveIs
    <3> HIDE DEF room
    <3> QED
      BY <1>1, <3>2
  <2>3. left \in Nat /\ (left > 0 => left + Len(bot) + Len(suffix) + 2 = MaxName)
    <3>1. fixed + 1 \in Nat
      BY <1>1
    <3>2. left \in Nat /\ (left > 0 => left + (fixed + 1) = MaxName)
      BY <1>1, <3>1, AboveIs
    <3> HIDE DEF left
    <3> QED
      BY <1>1, <3>2
  <2> HIDE DEF room, fixed, left
  <2>4. shown \in Seq(Chars) /\ Len(shown) <= left
    BY <2>3, CutIs
  <2> HIDE DEF shown
  <2>5. /\ before \in Seq(Chars)
        /\ Len(before) = IF shown = <<>> THEN Len(bot) + 1 ELSE Len(bot) + 1 + Len(shown) + 1
    <3>1. bot \o <<"-">> \in Seq(Chars) /\ Len(bot \o <<"-">>) = Len(bot) + 1
      BY <1>2
    <3>2. /\ bot \o <<"-">> \o shown \o <<"-">> \in Seq(Chars)
          /\ Len(bot \o <<"-">> \o shown \o <<"-">>) = Len(bot) + 1 + Len(shown) + 1
      BY <1>2, <2>4
    <3> QED
      BY <3>1, <3>2
  <2> HIDE DEF before
  <2>6. whole \in Seq(Chars) /\ Len(whole) = Len(before) + Len(suffix) /\ IsSuffix(suffix, whole)
    <3>1. IsSuffix(suffix, before \o suffix)
      BY <2>5, SuffixOf
    <3> QED
      BY <2>5, <3>1
  <2> HIDE DEF whole, name
  <2>7. Len(whole) \in Nat
    BY <2>6
  <2>8. name \in Seq(Chars) /\ Len(name) <= MaxName
    BY <1>1, <1>3, <2>1, <2>6, <2>7
  <2>9. Len(suffix) > 0
    BY <1>5
  <2>10. ASSUME Len(suffix) <= room
         PROVE  name # <<>> /\ IsSuffix(suffix, name)
    <3>1. room + Len(bot) + 1 = MaxName
      BY <1>1, <2>2, <2>9, <2>10
    <3>2. Len(whole) <= MaxName
      <4>1. CASE shown = <<>>
        BY <1>1, <2>2, <2>5, <2>6, <2>10, <3>1, <4>1
      <4>2. CASE shown # <<>>
        <5>1. Len(shown) > 0
          BY <2>4, <4>2
        <5>2. left > 0
          BY <2>3, <2>4, <5>1
        <5> QED
          BY <1>1, <2>3, <2>4, <2>5, <2>6, <4>2, <5>2
      <4> QED
        BY <4>1, <4>2
    <3>3. name = whole
      BY <1>1, <2>1, <2>7, <3>2
    <3>4. whole # <<>>
      <4>1. Len(whole) # 0
        BY <1>1, <2>5, <2>6, <2>9
      <4> QED
        BY <2>6, <4>1
    <3> QED
      BY <2>6, <3>3, <3>4
  <2> QED
    BY <1>5, <2>8, <2>10 DEF name, room
<1> QED
  BY <1>4, <1>5

LEMMA NewestIs ==
  ASSUME NEW stored, IsSeq(stored), NEW places, places \subseteq DOMAIN stored
  PROVE  NewestOf(stored, places) = <<>> \/ \E event \in Range(stored) : NewestOf(stored, places) = <<event>>
<1> DEFINE newest == {i \in places : \A j \in places : stored[j].at <= stored[i].at}
<1>1. newest \subseteq DOMAIN stored /\ newest \subseteq 0..Len(stored) /\ Len(stored) \in Nat
  BY SeqDomain
<1>2. NewestOf(stored, places) = IF newest = {} THEN <<>> ELSE <<stored[Max(newest)]>>
  BY DEF NewestOf
<1> HIDE DEF newest
<1>3. newest # {} => Max(newest) \in DOMAIN stored
  BY <1>1, GreatestMember
<1> QED
  BY <1>2, <1>3 DEF Range

LEMMA EmptyIs == IsSeq(<<>>)
  BY DEF IsSeq

\* What a place is called is text.
LEMMA DisplayIs ==
  ASSUME NEW ask, IsSeq(ask.place.stored), \A event \in Range(ask.place.stored) : IsSeq(event.name),
         NEW sessions
  PROVE  IsSeq(ChannelDisplayFor(sessions, ask))
<1> DEFINE stored == ask.place.stored
           found == NewestOf(stored, Fetched(stored, MetadataFilter(ask.channel)))
           peer == OtherParticipant(Participants(found[1]))
           profile == NewestOf(stored, Fetched(stored, ProfileFilter(peer)))
           title == found[1].name
           name == IF profile = <<>> THEN <<>> ELSE profile[1].name
<1>1. ASSUME NEW filter
      PROVE  LET newest == NewestOf(stored, Fetched(stored, filter))
             IN newest = <<>> \/ IsSeq(newest[1].name)
  <2>1. Fetched(stored, filter) \subseteq DOMAIN stored
    BY DEF Fetched
  <2> QED
    BY <2>1, NewestIs
<1>2. found = <<>> \/ IsSeq(title)
  BY <1>1
<1>3. IsSeq(name)
  BY <1>1, EmptyIs
<1>4. ASSUME NEW t, IsSeq(t), NEW p, IsSeq(p)
      PROVE  IsSeq(DisplayOf(t, p))
  <2>1. IsSeq(Trimmed(t)) /\ IsSeq(Trimmed(p))
    BY <1>4, TrimmedIs
  <2> QED
    BY <2>1 DEF DisplayOf
<1>5. PlaceDisplay(ask.place, ask.channel) =
        IF ask.place.fails = "metadata" \/ found = <<>> THEN <<>>
        ELSE IF ~(WantsPeer(title) /\ peer # NoName) THEN DisplayOf(title, <<>>)
        ELSE IF ask.place.fails = "profile" THEN <<>>
        ELSE DisplayOf(title, name)
  BY Zenon DEF PlaceDisplay
<1> HIDE DEF found, title, name, peer, profile
<1>6. IsSeq(PlaceDisplay(ask.place, ask.channel))
  BY <1>2, <1>3, <1>4, <1>5, EmptyIs
<1> QED
  BY <1>6, EmptyIs DEF ChannelDisplayFor

\* A grant is a name no session has; a refusal means that no suffix is free.
LEMMA GrantIs ==
  ASSUME NEW bot \in Seq(Chars), NEW channel, CompactId[channel] \in Seq(Letters),
         NEW display, IsSeq(display), NEW sessions
  PROVE  LET name == Grant(bot, channel, display, sessions)
             id == CompactId[channel]
             room == Above(MaxName, Len(bot) + 1)
         IN /\ name \in Seq(Chars) /\ Len(name) <= MaxName
            /\ name # <<>> => \A s \in sessions : s.name # name
            /\ name = <<>> =>
                 room = 0 \/ \E s \in sessions : IsSuffix(SubSeq(id, 1, Smaller(Len(id), room)), s.name)
<1> DEFINE name == Grant(bot, channel, display, sessions)
           id == CompactId[channel]
           room == Above(MaxName, Len(bot) + 1)
           most == Smaller(Len(id), room)
           slug == Slug(display)
           taken == Taken(bot, sessions)
           base == Candidate(bot, slug, <<>>)
           longer(n) == Candidate(bot, slug, SubSeq(id, 1, n))
           later == {n \in SuffixLengths(bot, id) : longer(n) \notin taken \cup {<<>>}}
           least == CHOOSE n \in later : \A m \in later : n <= m
<1>1. name = IF base = <<>> THEN <<>>
             ELSE IF base \notin taken THEN base
             ELSE IF later = {} THEN <<>> ELSE longer(least)
  BY Zenon DEF Grant
<1>2. slug \in Seq(Chars) /\ slug # <<>> /\ slug[1] # "-"
  BY SlugIs
<1>3. MaxName \in Nat /\ Len(bot) \in Nat /\ Len(bot) + 1 \in Nat
  BY NameConstants
<1>4. id \in Seq(Chars) /\ Len(id) \in Nat
  <2>1. Letters \subseteq Chars
    BY DEF Chars
  <2> QED
    BY <2>1
<1>5. room \in Nat
  BY <1>3, AboveIs
<1> HIDE DEF room, id, slug
<1>6. most \in Nat /\ most <= room /\ most <= Len(id) /\ (most = 0 => room = 0 \/ Len(id) = 0)
  BY <1>4, <1>5 DEF Smaller
<1>7. \A n \in 0..most : SubSeq(id, 1, n) \in Seq(Chars) /\ Len(SubSeq(id, 1, n)) = n
  BY <1>4, <1>6
<1>8. later \subseteq 1..most /\ (most > 0 /\ longer(most) \notin taken \cup {<<>>} => most \in later)
  <2>1. SuffixLengths(bot, id) \subseteq 1..most /\ (most > 0 => most \in SuffixLengths(bot, id))
    <3>1. SuffixLengths(bot, id) =
            {n \in 1..most : n = most \/ (n >= FirstSuffix /\ (n - FirstSuffix) % SuffixStep = 0)}
      BY Zenon DEF SuffixLengths, room
    <3> HIDE DEF most
    <3> QED
      BY <3>1, <1>6
  <2> HIDE DEF most
  <2> QED
    BY <2>1
<1>9. \A s \in sessions : s.name \in taken
  BY DEF Taken
<1>10. \A x \in taken : \E s \in sessions : s.name = x
  BY DEF Taken
<1> HIDE DEF taken, most
<1>11. /\ base \in Seq(Chars) /\ Len(base) <= MaxName /\ (room > 0 => base # <<>>)
  <2>1. <<>> \in Seq(Chars)
    OBVIOUS
  <2> QED
    BY <1>2, <2>1, CandidateIs DEF room
<1>12. ASSUME NEW n \in 1..most
       PROVE  longer(n) \in Seq(Chars) /\ Len(longer(n)) <= MaxName
              /\ longer(n) # <<>> /\ IsSuffix(SubSeq(id, 1, n), longer(n))
  <2> DEFINE suffix == SubSeq(id, 1, n)
  <2>1. n \in 0..most /\ n > 0 /\ n <= room
    BY <1>5, <1>6
  <2>2. suffix \in Seq(Chars) /\ Len(suffix) = n
    BY <1>7, <2>1
  <2> HIDE DEF suffix
  <2>3. suffix # <<>> /\ Len(suffix) <= room
    BY <2>1, <2>2
  <2> QED
    BY <1>2, <2>2, <2>3, CandidateIs DEF room, suffix
<1>13. later # {} => least \in later
  <2>1. later \subseteq Nat
    BY <1>8
  <2> HIDE DEF later
  <2> QED
    BY <2>1, LeastMember
<1>14. later # {} => /\ least \in 1..most /\ longer(least) \notin taken \cup {<<>>}
                     /\ longer(least) \in Seq(Chars) /\ Len(longer(least)) <= MaxName
  <2>1. \A n \in later : n \in 1..most /\ longer(n) \notin taken \cup {<<>>}
    BY <1>8
  <2> HIDE DEF later, least, longer
  <2> QED
    BY <1>12, <1>13, <2>1
<1>15. ASSUME base # <<>>, base \in taken, later = {}
       PROVE  room = 0 \/ \E s \in sessions : IsSuffix(SubSeq(id, 1, most), s.name)
  <2>1. CASE most > 0
    <3>1. most \in 1..most
      BY <1>6, <2>1
    <3>2. longer(most) \in taken /\ IsSuffix(SubSeq(id, 1, most), longer(most))
      BY <1>8, <1>12, <1>15, <2>1, <3>1
    <3> HIDE DEF longer
    <3> QED
      BY <1>10, <3>2
  <2>2. CASE most = 0 /\ Len(id) = 0
    <3>1. SubSeq(id, 1, most) = <<>>
      BY <1>4, <2>2
    <3>2. IsSuffix(<<>>, base)
      <4>1. <<>> \in Seq(Chars) /\ base \o <<>> = base
        BY <1>11, ConcatEmptySeq
      <4>2. IsSuffix(<<>>, base \o <<>>)
        BY <1>11, <4>1, SuffixOf
      <4> QED
        BY <4>1, <4>2
    <3> HIDE DEF base
    <3> QED
      BY <1>10, <1>15, <3>1, <3>2
  <2> QED
    BY <1>6, <2>1, <2>2
<1> HIDE DEF base, longer, later, least, name
<1>16. <<>> \in Seq(Chars) /\ Len(<<>>) <= MaxName
  BY <1>3
<1>17. name \in Seq(Chars) /\ Len(name) <= MaxName
  BY <1>1, <1>11, <1>14, <1>16
<1>18. name # <<>> => name \notin taken
  BY <1>1, <1>14
<1>19. name = <<>> => room = 0 \/ \E s \in sessions : IsSuffix(SubSeq(id, 1, most), s.name)
  BY <1>1, <1>5, <1>11, <1>14, <1>15
<1> QED
  BY <1>9, <1>17, <1>18, <1>19 DEF name, room, id, most

LEMMA BotIdIs ==
  ASSUME NEW raw, IsSeq(raw), BotIdOf(raw) # <<>>
  PROVE  BotIdOf(raw) = Trimmed(raw) /\ BotIdOf(raw) \in Seq(Chars)
<1>1. BotIdOf(raw) = Trimmed(raw) /\ Range(Trimmed(raw)) \subseteq Chars
  BY DEF BotIdOf, Chars
<1>2. IsSeq(Trimmed(raw))
  BY TrimmedIs
<1> QED
  BY <1>1, <1>2, SeqOfMore

\* One more ask makes at most one session, with a name of its own.
LEMMA EnsureSessionIs ==
  ASSUME NEW sessions, NEW ask \in Askings
  PROVE  LET next == EnsureSession(sessions, ask)
             bot == BotIdOf(ask.bot)
             id == CompactId[ask.channel]
             room == Above(MaxName, Len(bot) + 1)
         IN /\ sessions \subseteq next
            /\ \A s, t \in next \ sessions : s = t
            /\ \A s \in next \ sessions :
                 /\ \A t \in sessions : t.name # s.name
                 /\ Len(s.name) <= MaxName /\ FileStem(s.name)
            /\ bot # <<>> /\ ~ask.empty =>
                 \/ \E s \in next : s.channel = ask.channel /\ s.bot = Trimmed(ask.bot)
                 \/ room = 0
                 \/ \E s \in sessions : IsSuffix(SubSeq(id, 1, Smaller(Len(id), room)), s.name)
<1> DEFINE next == EnsureSession(sessions, ask)
           bot == BotIdOf(ask.bot)
           id == CompactId[ask.channel]
           room == Above(MaxName, Len(bot) + 1)
           display == Display(sessions, ask)
           name == Grant(bot, ask.channel, display, sessions)
           new == [bot |-> bot, channel |-> ask.channel, name |-> name]
           has == HasSession(sessions, bot, ask.channel)
           full == \E s \in sessions : IsSuffix(SubSeq(id, 1, Smaller(Len(id), room)), s.name)
<1>1. next = IF bot = <<>> \/ ask.empty \/ has \/ name = <<>> THEN sessions ELSE sessions \cup {new}
  BY Zenon DEF EnsureSession
<1>2. /\ IsSeq(ask.bot) /\ IsSeq(IdOf[ask.channel]) /\ id \in Seq(Letters) /\ IsSeq(ask.place.stored)
      /\ \A event \in Range(ask.place.stored) : IsSeq(event.name)
  BY PlacesAssumption DEF PlacesAssumption
<1>3. IsSeq(display)
  <2>1. IsSeq(ChannelDisplayFor(sessions, ask))
    BY <1>2, DisplayIs
  <2> QED
    BY <1>2, <2>1 DEF Display
<1>4. bot # <<>> => bot = Trimmed(ask.bot) /\ bot \in Seq(Chars)
  BY <1>2, BotIdIs
<1> HIDE DEF display, bot
<1>5. bot # <<>> =>
        /\ name \in Seq(Chars) /\ Len(name) <= MaxName
        /\ name # <<>> => \A s \in sessions : s.name # name
        /\ name = <<>> => room = 0 \/ full
  BY <1>2, <1>3, <1>4, GrantIs
<1>6. new.bot = bot /\ new.channel = ask.channel /\ new.name = name
  OBVIOUS
<1>7. has => \E s \in sessions : s.bot = bot /\ s.channel = ask.channel
  BY DEF HasSession
<1> HIDE DEF name, new, next, has, room, full, id
<1>8. bot # <<>> /\ name # <<>> => FileStem(name)
  <2>1. name \in Seq(Chars) => Range(name) \subseteq Letters \cup {"-"}
    BY DEF Range, Chars
  <2> QED
    BY <1>5, <2>1 DEF FileStem
<1>9. /\ sessions \subseteq next
      /\ \A s, t \in next \ sessions : s = t
      /\ \A s \in next \ sessions :
           /\ \A t \in sessions : t.name # s.name
           /\ Len(s.name) <= MaxName /\ FileStem(s.name)
  BY <1>1, <1>5, <1>6, <1>8
<1>10. bot # <<>> /\ ~ask.empty =>
         \/ \E s \in next : s.channel = ask.channel /\ s.bot = Trimmed(ask.bot)
         \/ room = 0 \/ full
  BY <1>1, <1>4, <1>5, <1>6, <1>7
<1> QED
  BY <1>9, <1>10 DEF next, bot, room, full, id

LEMMA NamesAreApartStep ==
  ASSUME NamesAreApart, [TextsNext]_input
  PROVE  NamesAreApart'
<1> DEFINE named(ask, sessions) ==
             LET id == CompactId[ask.channel]
                 room == Above(MaxName, Len(BotIdOf(ask.bot)) + 1)
                 suffix == SubSeq(id, 1, Smaller(Len(id), room))
             IN BotIdOf(ask.bot) # <<>> /\ ~ask.empty =>
                  \/ \E s \in sessions : s.channel = ask.channel /\ s.bot = Trimmed(ask.bot)
                  \/ room = 0 \/ \E s \in sessions : IsSuffix(suffix, s.name)
           apart(sessions, asks) ==
             /\ \A s, t \in sessions : s.name = t.name => s = t
             /\ \A s \in sessions : Len(s.name) <= MaxName /\ FileStem(s.name)
             /\ \A ask \in asks : named(ask, sessions)
<1>1. NamesAreApart <=> (input.of = "asking" => apart(input.sessions, input.asks))
  BY Zenon DEF NamesAreApart
<1>2. NamesAreApart' <=> (input'.of = "asking" => apart(input'.sessions, input'.asks))
  BY Zenon DEF NamesAreApart
<1>3. CASE AskNext
  <2>1. PICK ask \in Askings :
          /\ input.of = "asking"
          /\ input' = [of |-> "asking", sessions |-> EnsureSession(input.sessions, ask),
                       asks |-> input.asks \cup {ask}]
    BY <1>3 DEF AskNext
  <2> DEFINE sessions == input.sessions
             next == EnsureSession(sessions, ask)
  <2>2. input'.sessions = next /\ input'.asks = input.asks \cup {ask}
    BY <2>1
  <2>3. apart(sessions, input.asks)
    BY <1>1, <2>1
  <2>4. /\ sessions \subseteq next
        /\ \A s, t \in next \ sessions : s = t
        /\ \A s \in next \ sessions :
             /\ \A t \in sessions : t.name # s.name
             /\ Len(s.name) <= MaxName /\ FileStem(s.name)
    BY EnsureSessionIs
  <2>5. named(ask, next)
    <3>1. BotIdOf(ask.bot) # <<>> /\ ~ask.empty =>
            LET id == CompactId[ask.channel]
                room == Above(MaxName, Len(BotIdOf(ask.bot)) + 1)
            IN \/ \E s \in next : s.channel = ask.channel /\ s.bot = Trimmed(ask.bot)
               \/ room = 0
               \/ \E s \in sessions : IsSuffix(SubSeq(id, 1, Smaller(Len(id), room)), s.name)
      BY EnsureSessionIs
    <3> HIDE DEF next
    <3> QED
      BY <2>4, <3>1
  <2> HIDE DEF sessions, next
  <2>6. \A a \in input.asks : named(a, next)
    <3>1. \A a \in input.asks : named(a, sessions)
      BY <2>3
    <3> QED
      BY <2>4, <3>1
  <2> HIDE DEF named
  <2>7. apart(next, input.asks \cup {ask})
    BY <2>3, <2>4, <2>5, <2>6
  <2> QED
    BY <1>2, <2>2, <2>7 DEF next, sessions
<1>4. CASE TakeNoAsk
  <2>1. input'.sessions = {} /\ input'.asks = {}
    BY <1>4 DEF TakeNoAsk
  <2> QED
    BY <1>2, <2>1
<1>5. CASE UNCHANGED input
  BY <1>5 DEF NamesAreApart
<1> QED
  BY <1>2, <1>3, <1>4, <1>5, OfTheStep

\* No two sessions share a name, each name fits and names a file, and only an
\* ask for which no suffix is free is refused, however many ask and whatever
\* their places are called.
THEOREM NamesAreApartHolds == TextsSpec => []NamesAreApart
<1>1. TextsInit => NamesAreApart
  BY DEF TextsInit, NamesAreApart
<1>2. NamesAreApart /\ [TextsNext]_input => NamesAreApart'
  BY NamesAreApartStep
<1> QED
  BY <1>1, <1>2, PTL DEF TextsSpec

-----------------------------------------------------------------------------
(* ----------------------------- threads --------------------------------- *)

\* The tags of an answer, in a thread of which the trigger is the root or not.
LEMMA AnswerTags ==
  ASSUME NEW id, NEW root, NEW trigger, NEW bot, trigger.id = id,
         ReplyThreadRoot(id, trigger.tags) = root
  PROVE  Answer(trigger, bot, <<>>, <<Operator>>).tags =
           IF root = Nothing \/ root = id THEN <<Tag("e", id, "reply"), Tag("p", Operator, "none")>>
           ELSE <<Tag("e", root, "root"), Tag("e", id, "reply"), Tag("p", Operator, "none")>>
<1> DEFINE mention == Tag("p", Operator, "none")
           people == [i \in DOMAIN <<Operator>> |-> Tag("p", <<Operator>>[i], "none")]
<1>1. people = <<mention>>
  OBVIOUS
<1> HIDE DEF mention
<1>2. Answer(trigger, bot, <<>>, <<Operator>>).tags = ReplyThreadTags(id, root) \o people
  BY DEF Answer, ChannelMessage
<1> HIDE DEF people
<1>3. Answer(trigger, bot, <<>>, <<Operator>>).tags = ReplyThreadTags(id, root) \o <<mention>>
  BY <1>1, <1>2
<1>4. \A a, b : <<a>> \o <<mention>> = <<a, mention>> /\ <<b, a>> \o <<mention>> = <<b, a, mention>>
  <2> SUFFICES ASSUME NEW a, NEW b
               PROVE  <<a>> \o <<mention>> = <<a, mention>> /\ <<b, a>> \o <<mention>> = <<b, a, mention>>
    OBVIOUS
  <2> DEFINE T == {a, b, mention}
             short == <<a>> \o <<mention>>
             long == <<b, a>> \o <<mention>>
  <2>1. short \in Seq(T) /\ Len(short) = 2 /\ short[1] = a /\ short[2] = mention
    OBVIOUS
  <2>2. long \in Seq(T) /\ Len(long) = 3 /\ long[1] = b /\ long[2] = a /\ long[3] = mention
    OBVIOUS
  <2>3. <<a, mention>> \in Seq(T) /\ <<b, a, mention>> \in Seq(T)
    OBVIOUS
  <2> HIDE DEF T, short, long
  <2>4. short = <<a, mention>>
    BY <2>1, <2>3, SeqEqual
  <2>5. long = <<b, a, mention>>
    BY <2>2, <2>3, SeqEqual
  <2> QED
    BY <2>4, <2>5 DEF short, long
<1> QED
  BY <1>3, <1>4 DEF ReplyThreadTags, mention

\* What is read in those tags.
LEMMA ShortTagsRead ==
  ASSUME NEW id, id \notin {"answer", Junk, Nothing}
  PROVE  LET tags == <<Tag("e", id, "reply"), Tag("p", Operator, "none")>>
         IN ReplyTarget(tags) = id /\ ReplyThreadRoot("answer", tags) = id
<1> DEFINE tags == <<Tag("e", id, "reply"), Tag("p", Operator, "none")>>
<1>1. /\ Marked(tags, "reply") = {1} /\ Marked(tags, "root") = {} /\ tags[1].value = id
  <2>1. /\ DOMAIN tags = 1..2 /\ tags[1] = Tag("e", id, "reply")
        /\ tags[2] = Tag("p", Operator, "none")
    OBVIOUS
  <2>2. Carrying(tags, "e") = {1}
    BY <2>1 DEF Carrying, Tag
  <2> HIDE DEF tags
  <2> QED
    BY <2>1, <2>2 DEF Marked, Tag
<1> HIDE DEF tags
<1>2. Max({1}) = 1
  BY GreatestMember
<1>3. LastOf(tags, Marked(tags, "reply")) = id /\ LastOf(tags, Marked(tags, "root")) = Nothing
  BY <1>1, <1>2 DEF LastOf
<1>4. ReplyTarget(tags) = id /\ ReplyThreadRoot("answer", tags) = id
  BY <1>3, Zenon DEF ReplyTarget, ReplyThreadRoot
<1> QED
  BY <1>4 DEF tags

LEMMA LongTagsRead ==
  ASSUME NEW id, NEW root, {id, root} \cap {"answer", Junk, Nothing} = {}
  PROVE  LET tags == <<Tag("e", root, "root"), Tag("e", id, "reply"), Tag("p", Operator, "none")>>
         IN ReplyTarget(tags) = id /\ ReplyThreadRoot("answer", tags) = root
<1> DEFINE tags == <<Tag("e", root, "root"), Tag("e", id, "reply"), Tag("p", Operator, "none")>>
<1>0. Nothing \notin {id, root} /\ root # "answer" /\ Junk # id /\ Junk # root
  OBVIOUS
<1>1. /\ Marked(tags, "reply") = {2} /\ Marked(tags, "root") = {1}
      /\ tags[1].value = root /\ tags[2].value = id
  <2>1. /\ DOMAIN tags = 1..3 /\ tags[1] = Tag("e", root, "root") /\ tags[2] = Tag("e", id, "reply")
        /\ tags[3] = Tag("p", Operator, "none")
    OBVIOUS
  <2>2. Carrying(tags, "e") = {1, 2}
    BY <1>0, <2>1 DEF Carrying, Tag
  <2> HIDE DEF tags
  <2> QED
    BY <2>1, <2>2 DEF Marked, Tag
<1> HIDE DEF tags
<1>2. Max({1}) = 1 /\ Max({2}) = 2
  BY GreatestMember
<1>3. LastOf(tags, Marked(tags, "reply")) = id /\ LastOf(tags, Marked(tags, "root")) = root
  BY <1>1, <1>2 DEF LastOf
<1>4. ReplyTarget(tags) = id /\ ReplyThreadRoot("answer", tags) = root
  BY <1>0, <1>3, Zenon DEF ReplyTarget, ReplyThreadRoot
<1> QED
  BY <1>4 DEF tags

\* Values of tags of which some are marked.
LEMMA LastOfThose ==
  ASSUME NEW tags, IsSeq(tags), NEW mark
  PROVE  LET said == {tags[i].value : i \in Marked(tags, mark)}
         IN IF said = {} THEN LastOf(tags, Marked(tags, mark)) = Nothing /\ FirstOf(tags, Marked(tags, mark)) = Nothing
            ELSE LastOf(tags, Marked(tags, mark)) \in said
<1> DEFINE places == Marked(tags, mark)
<1>1. places \subseteq 0..Len(tags) /\ Len(tags) \in Nat
  BY SeqDomain DEF Marked, Carrying
<1> HIDE DEF places
<1>2. places # {} => Max(places) \in places
  BY <1>1, GreatestMember
<1> QED
  BY <1>2, Zenon DEF LastOf, FirstOf, places

LEMMA ThreadIsKept ==
  ASSUME NEW t \in Threads, NEW bot
  PROVE  LET answer == Answer(t.event, bot, <<>>, <<Operator>>)
         IN ReplyTarget(answer.tags) = t.event.id /\ ReplyThreadRoot("answer", answer.tags) = t.root
<1> DEFINE tags == t.event.tags
           id == t.event.id
           said(mark) == {tags[i].value : i \in Marked(tags, mark)}
           named == ReplyThreadRoot(id, tags)
           answer == Answer(t.event, bot, <<>>, <<Operator>>)
<1>1. /\ IsSeq(tags) /\ Nothing \notin {tags[i].value : i \in DOMAIN tags}
      /\ {id, t.root} \cap {"answer", Junk, Nothing} = {}
      /\ \/ said("reply") # {} /\ said("root") = {t.root}
         \/ said("reply") = {t.root} /\ said("root") = {}
         \/ /\ said("reply") \cup said("root") = {}
            /\ t.root = IF said("none") = {} THEN id ELSE FirstOf(tags, Marked(tags, "none"))
  BY ThreadsAssumption, Zenon
<1>2. \A mark : Nothing \notin said(mark)
  BY <1>1 DEF Marked, Carrying
<1>3. \A mark : IF said(mark) = {} THEN LastOf(tags, Marked(tags, mark)) = Nothing /\ FirstOf(tags, Marked(tags, mark)) = Nothing
                ELSE LastOf(tags, Marked(tags, mark)) \in said(mark)
  BY <1>1, LastOfThose
<1> HIDE DEF said
<1>4. named = IF t.root = id THEN Nothing ELSE t.root
  <2>1. CASE said("reply") # {} /\ said("root") = {t.root}
    <3>1. LastOf(tags, Marked(tags, "root")) = t.root /\ LastOf(tags, Marked(tags, "reply")) # Nothing
      BY <1>2, <1>3, <2>1
    <3> QED
      BY <1>1, <3>1, Zenon DEF ReplyThreadRoot
  <2>2. CASE said("reply") = {t.root} /\ said("root") = {}
    <3>1. LastOf(tags, Marked(tags, "root")) = Nothing /\ LastOf(tags, Marked(tags, "reply")) = t.root
      BY <1>3, <2>2
    <3> QED
      BY <1>1, <3>1, Zenon DEF ReplyThreadRoot
  <2>3. CASE /\ said("reply") \cup said("root") = {}
             /\ t.root = IF said("none") = {} THEN id ELSE FirstOf(tags, Marked(tags, "none"))
    <3>1. LastOf(tags, Marked(tags, "root")) = Nothing /\ LastOf(tags, Marked(tags, "reply")) = Nothing
      BY <1>3, <2>3
    <3>2. named = IF FirstOf(tags, Marked(tags, "none")) = id THEN Nothing ELSE FirstOf(tags, Marked(tags, "none"))
      BY <3>1, Zenon DEF ReplyThreadRoot
    <3>3. CASE said("none") = {}
      BY <1>1, <1>3, <2>3, <3>2, <3>3
    <3>4. CASE said("none") # {}
      BY <2>3, <3>2, <3>4
    <3> QED
      BY <3>3, <3>4
  <2> QED
    BY <1>1, <2>1, <2>2, <2>3
<1>5. answer.tags = IF named = Nothing \/ named = id THEN <<Tag("e", id, "reply"), Tag("p", Operator, "none")>>
                    ELSE <<Tag("e", named, "root"), Tag("e", id, "reply"), Tag("p", Operator, "none")>>
  BY AnswerTags
<1> HIDE DEF named, answer
<1>6. CASE t.root = id
  <2>1. answer.tags = <<Tag("e", id, "reply"), Tag("p", Operator, "none")>>
    BY <1>4, <1>5, <1>6
  <2>2. ReplyTarget(answer.tags) = id /\ ReplyThreadRoot("answer", answer.tags) = id
    BY <1>1, <2>1, ShortTagsRead
  <2> QED
    BY <1>6, <2>2 DEF answer
<1>7. CASE t.root # id
  <2>1. answer.tags = <<Tag("e", t.root, "root"), Tag("e", id, "reply"), Tag("p", Operator, "none")>>
    BY <1>1, <1>4, <1>5, <1>7
  <2>2. ReplyTarget(answer.tags) = id /\ ReplyThreadRoot("answer", answer.tags) = t.root
    BY <1>1, <2>1, LongTagsRead
  <2> QED
    BY <2>2 DEF answer
<1> QED
  BY <1>6, <1>7

\* An answer is a reply to its trigger, in the thread of its trigger, wherever
\* the client that wrote the trigger named the thread's root.
LEMMA AnswersStayInThread == TakenFrom => AnswerStaysInThread
<1> SUFFICES ASSUME TakenFrom, input.of = "thread", NEW bot \in Range(Bots)
             PROVE  LET answer == Answer(input.event, bot, <<>>, <<Operator>>)
                    IN /\ ReplyTarget(answer.tags) = input.event.id
                       /\ ReplyThreadRoot("answer", answer.tags) = input.root
  BY DEF AnswerStaysInThread
<1>1. PICK t \in Threads : input.event = t.event /\ input.root = t.root
  BY DEF TakenFrom
<1>2. LET answer == Answer(t.event, bot, <<>>, <<Operator>>)
      IN ReplyTarget(answer.tags) = t.event.id /\ ReplyThreadRoot("answer", answer.tags) = t.root
  BY ThreadIsKept
<1> QED
  BY <1>1, <1>2, Zenon

-----------------------------------------------------------------------------
(* --------------------------- startup.md -------------------------------- *)

\* A member of a set of numbers has its place in it.
LEMMA NthOfMember ==
  ASSUME NEW n \in Nat, NEW P, P \subseteq 1..n, NEW i \in P
  PROVE  LET k == Cardinality({j \in P : j <= i})
         IN k \in 1..Cardinality(P) /\ Nth(P, k) = i
<1> DEFINE upTo(x) == {j \in P : j <= x}
           k == Cardinality(upTo(i))
<1>1. IsFiniteSet(P)
  <2>1. IsFiniteSet(1..n)
    BY FS_Interval
  <2> QED
    BY <2>1, FS_Subset
<1>2. \A x : upTo(x) \subseteq P
  OBVIOUS
<1>3. \A x : IsFiniteSet(upTo(x)) /\ Cardinality(upTo(x)) \in Nat /\ Cardinality(upTo(x)) <= Cardinality(P)
  BY <1>1, <1>2, FS_Subset, FS_CardinalityType
<1>4. k \in 1..Cardinality(P)
  <2>1. upTo(i) # {}
    OBVIOUS
  <2> HIDE DEF upTo
  <2>2. Cardinality(P) \in Nat
    BY <1>1, FS_CardinalityType
  <2>3. k # 0
    BY <1>3, <2>1, FS_EmptySet
  <2> QED
    BY <1>3, <2>2, <2>3
<1> HIDE DEF k
<1>5. Nth(P, k) \in P /\ Cardinality(upTo(Nth(P, k))) = k
  BY <1>4, NthIs
<1>0. \A x \in P : x \in Nat
  OBVIOUS
<1>6. ASSUME NEW x \in P, NEW y \in P, x < y PROVE Cardinality(upTo(x)) # Cardinality(upTo(y))
  <2>0. x \in Nat /\ y \in Nat
    BY <1>0
  <2>1. upTo(x) \subseteq upTo(y) /\ y \in upTo(y) /\ y \notin upTo(x)
    <3>1. ASSUME NEW j \in P, j <= x PROVE j <= y
      <4>1. j \in Nat
        BY <1>0
      <4> QED
        BY <1>6, <2>0, <3>1, <4>1
    <3>2. y <= y /\ ~(y <= x)
      BY <1>6, <2>0
    <3> QED
      BY <3>1, <3>2
  <2> HIDE DEF upTo
  <2>2. upTo(x) # upTo(y)
    BY <2>1
  <2> QED
    BY <1>3, <2>1, <2>2, FS_Subset
<1>7. Cardinality(upTo(i)) = k
  BY DEF k
<1> HIDE DEF upTo
<1>8. ~(i < Nth(P, k)) /\ ~(Nth(P, k) < i)
  BY <1>5, <1>6, <1>7
<1>9. Nth(P, k) = i
  <2>1. \A x \in P : ~(i < x) /\ ~(x < i) => x = i
    BY <1>0
  <2> QED
    BY <1>5, <1>8, <2>1
<1> QED
  BY <1>4, <1>9 DEF k, upTo

\* `f` takes the places P of one sequence to the places Q of another, in their
\* order, where the same stands.
Along(f, s, P, n, t, Q, m) ==
  /\ n \in Nat /\ P \subseteq 1..n /\ m \in Nat /\ Q \subseteq 1..m
  /\ \A i \in P : f[i] \in Q /\ t[f[i]] = s[i]
  /\ \A q \in Q : \E i \in P : f[i] = q
  /\ \A i, j \in P : i < j => f[i] < f[j]

\* The same is picked from two sequences if it stands there in the same order.
LEMMA PickedAlong ==
  ASSUME NEW f, NEW s, NEW P, NEW n, NEW t, NEW Q, NEW m, Along(f, s, P, n, t, Q, m)
  PROVE  Picked(s, P) = Picked(t, Q)
<1>0. /\ n \in Nat /\ P \subseteq 1..n /\ m \in Nat /\ Q \subseteq 1..m
      /\ \A i \in P : f[i] \in Q /\ t[f[i]] = s[i]
      /\ \A q \in Q : \E i \in P : f[i] = q
      /\ \A i, j \in P : i < j => f[i] < f[j]
  BY DEF Along
<1> USE <1>0
<1> DEFINE F == [i \in P |-> f[i]]
           upToP(x) == {j \in P : j <= x}
           upToQ(x) == {j \in Q : j <= x}
<1>1. IsFiniteSet(P) /\ IsFiniteSet(Q)
  <2>1. IsFiniteSet(1..n) /\ IsFiniteSet(1..m)
    BY FS_Interval
  <2> QED
    BY <2>1, FS_Subset
<1>00. \A i \in P : i \in Nat /\ f[i] \in Q /\ f[i] \in Nat
  <2>1. \A q \in Q : q \in Nat
    OBVIOUS
  <2>2. \A i \in P : i \in Nat
    OBVIOUS
  <2> QED
    BY <2>1, <2>2
<1>2. ASSUME NEW i \in P, NEW j \in P, f[i] = f[j] PROVE i = j
  <2>1. ~(i < j) /\ ~(j < i)
    BY <1>00, <1>2
  <2> QED
    BY <1>00, <2>1
<1>3. F \in Bijection(P, Q)
  <2>1. F \in [P -> Q] /\ \A i, j \in P : F[i] = F[j] => i = j
    BY <1>2
  <2>2. \A q \in Q : \E i \in P : F[i] = q
    OBVIOUS
  <2> QED
    BY <2>1, <2>2 DEF Bijection, Injection, Surjection, IsInjective
<1>4. Cardinality(P) = Cardinality(Q)
  BY <1>1, <1>3, FS_Bijection DEF ExistsBijection
<1>5. ASSUME NEW i \in P PROVE Cardinality(upToQ(f[i])) = Cardinality(upToP(i))
  <2> DEFINE G == [j \in upToP(i) |-> f[j]]
  <2>1. G \in [upToP(i) -> upToQ(f[i])]
    <3>1. ASSUME NEW j \in upToP(i) PROVE f[j] \in Q /\ f[j] <= f[i]
      <4>1. j \in P /\ (j = i \/ j < i)
        BY <1>00
      <4>2. f[j] \in Q /\ f[j] \in Nat /\ f[i] \in Nat
        BY <1>00, <4>1
      <4> QED
        BY <4>1, <4>2
    <3> QED
      BY <3>1
  <2>2. \A x, y \in upToP(i) : G[x] = G[y] => x = y
    BY <1>2
  <2>3. ASSUME NEW q \in upToQ(f[i]) PROVE \E x \in upToP(i) : G[x] = q
    <3>1. PICK x \in P : f[x] = q
      OBVIOUS
    <3>2. ~(i < x)
      <4>1. i < x => f[i] < f[x]
        OBVIOUS
      <4>2. f[i] \in Nat /\ q <= f[i]
        BY <1>00
      <4> QED
        BY <1>00, <3>1, <4>1, <4>2
    <3>3. x \in upToP(i)
      BY <1>00, <3>2
    <3> QED
      BY <3>1, <3>3
  <2>4. G \in Bijection(upToP(i), upToQ(f[i]))
    <3> HIDE DEF G
    <3> QED
      BY <2>1, <2>2, <2>3 DEF Bijection, Injection, Surjection, IsInjective
  <2>5. IsFiniteSet(upToP(i))
    <3>1. upToP(i) \subseteq P
      OBVIOUS
    <3> HIDE DEF upToP
    <3> QED
      BY <1>1, <3>1, FS_Subset
  <2> HIDE DEF upToP, upToQ, G
  <2> QED
    BY <2>4, <2>5, FS_Bijection DEF ExistsBijection
<1>6. ASSUME NEW k \in 1..Cardinality(P) PROVE Nth(Q, k) = f[Nth(P, k)] /\ Nth(P, k) \in P
  <2>1. Nth(P, k) \in P /\ Cardinality(upToP(Nth(P, k))) = k
    BY NthIs
  <2> DEFINE i == Nth(P, k)
  <2> HIDE DEF i
  <2>2. i \in P /\ Cardinality(upToP(i)) = k
    BY <2>1 DEF i
  <2> HIDE DEF upToP
  <2>3. Cardinality(upToQ(f[i])) = k /\ f[i] \in Q
    BY <1>5, <2>2
  <2>4. Nth(Q, Cardinality(upToQ(f[i]))) = f[i]
    BY <2>3, NthOfMember
  <2>5. Nth(Q, k) = f[i]
    <3> HIDE DEF upToQ
    <3> QED
      BY <2>3, <2>4
  <2> QED
    BY <2>2, <2>5 DEF i
<1> HIDE DEF F, upToP, upToQ
<1>7. \A k \in 1..Cardinality(P) : s[Nth(P, k)] = t[Nth(Q, k)]
  BY <1>6
<1> QED
  BY <1>4, <1>7 DEF Picked

\* The pieces of a file are apart.
LEMMA PiecesApart ==
  /\ \A p, q, v : Begin(p) # End(q) /\ Begin(p) # Body(q, v) /\ End(p) # Body(q, v)
  /\ \A p, q : p # q => Begin(p) # Begin(q) /\ End(p) # End(q)
  /\ \A p, q, v, w : Body(p, v) = Body(q, w) => p = q /\ v = w
  /\ \A p, v : LineEnd # Begin(p) /\ LineEnd # End(p) /\ LineEnd # Body(p, v)
  /\ \A p, v : Begin(p)[1] # "hand" /\ End(p)[1] # "hand" /\ Body(p, v)[1] # "hand"
  /\ LineEnd[1] # "hand"
<1>1. \A p, v : /\ Begin(p)[1] = "begin" /\ Begin(p)[2] = p /\ End(p)[1] = "end" /\ End(p)[2] = p
                /\ Body(p, v)[1] = "body" /\ Body(p, v)[2] = p /\ Body(p, v)[3] = v
  BY DEF Begin, End, Body
<1>2. LineEnd[1] = "newline"
  BY DEF LineEnd
<1>3. ASSUME NEW p, NEW v, NEW q, NEW w, Body(p, v) = Body(q, w) PROVE p = q /\ v = w
  <2>1. Body(p, v)[2] = Body(q, w)[2] /\ Body(p, v)[3] = Body(q, w)[3]
    BY <1>3
  <2> QED
    BY <1>1, <2>1
<1>4. ASSUME NEW p, NEW q, p # q PROVE Begin(p) # Begin(q) /\ End(p) # End(q)
  <2>1. Begin(p)[2] # Begin(q)[2] /\ End(p)[2] # End(q)[2]
    BY <1>1, <1>4
  <2> QED
    BY <2>1
<1> QED
  BY <1>1, <1>2, <1>3, <1>4

\* The block stands once, whole, with its body of a version.
Placed(text, block, v, b) ==
  /\ IsSeq(text) /\ b \in DOMAIN text /\ b + 1 \in DOMAIN text /\ b + 2 \in DOMAIN text
  /\ Spots(text, Begin(block)) = {b} /\ Spots(text, End(block)) = {b + 2}
  /\ Spots(text, Body(block, v)) = {b + 1}

\* Places b to e of a text, if any, gave way to a block at c of the new one; what
\* stood behind moved by d.
Edited(text, out, block, v, b, e, c, d) ==
  /\ IsSeq(text) /\ IsSeq(out)
  /\ b \in Nat \ {0} /\ e \in Nat /\ c \in Nat /\ d \in Int
  /\ b <= c /\ c + 2 <= e + d
  /\ \/ b = e + 1 /\ e = Len(text)
     \/ b < e /\ e \in DOMAIN text /\ text[b] = Begin(block) /\ text[e] = End(block)
  /\ \A i \in DOMAIN text : b < i /\ i < e => text[i] \notin Markers
  /\ \A i \in DOMAIN text : i < b => i \in DOMAIN out /\ out[i] = text[i]
  /\ \A i \in DOMAIN text : e < i => i + d \in DOMAIN out /\ out[i + d] = text[i]
  /\ \A i \in DOMAIN text : i < b \/ e < i => text[i] \notin {Begin(block), End(block)}
  /\ c + 2 \in DOMAIN out
  /\ out[c] = Begin(block) /\ out[c + 1] = Body(block, v) /\ out[c + 2] = End(block)
  /\ \A j \in DOMAIN out :
       \/ j < b /\ j \in DOMAIN text
       \/ j \in {c, c + 1, c + 2}
       \/ b <= j /\ out[j] = LineEnd
       \/ e < j - d /\ j - d \in DOMAIN text

\* A part of a text has a domain from 1.
LEMMA WrittenIs ==
  ASSUME NEW block, NEW v
  PROVE  LET w == Written(block, v)
         IN /\ Len(w) = 3 /\ DOMAIN w = 1..3 /\ w[1] = Begin(block) /\ w[2] = Body(block, v) /\ w[3] = End(block)
            /\ w \in Seq({Begin(block), Body(block, v), End(block)})
  BY DEF Written

\* What a block is put behind: the text, and line breaks.
LEMMA EndedIs ==
  ASSUME NEW text, IsSeq(text)
  PROVE  LET ended == IF text = <<>> THEN <<>>
                      ELSE (IF Last(text) = LineEnd THEN text ELSE Append(text, LineEnd)) \o <<LineEnd>>
         IN /\ ended \in Seq(Range(text) \cup {LineEnd})
            /\ Len(text) <= Len(ended)
            /\ \A i \in 1..Len(text) : ended[i] = text[i]
            /\ \A i \in 1..Len(ended) : Len(text) < i => ended[i] = LineEnd
<1> DEFINE T == Range(text) \cup {LineEnd}
           broken == IF Last(text) = LineEnd THEN text ELSE Append(text, LineEnd)
<1>1. text \in Seq(T) /\ LineEnd \in T
  BY SeqOfMore
<1> HIDE DEF T
<1>2. /\ broken \in Seq(T) /\ Len(text) <= Len(broken)
      /\ \A i \in 1..Len(text) : broken[i] = text[i]
      /\ \A i \in 1..Len(broken) : Len(text) < i => broken[i] = LineEnd
  <2>1. CASE Last(text) = LineEnd
    <3>1. broken = text
      BY <2>1
    <3> QED
      BY <1>1, <3>1
  <2>2. CASE Last(text) # LineEnd
    <3>1. broken = Append(text, LineEnd)
      BY <2>2
    <3> HIDE DEF broken
    <3>2. broken \in Seq(T) /\ Len(broken) = Len(text) + 1 /\ Len(text) \in Nat
      BY <1>1, <3>1
    <3>3. \A i \in 1..Len(text) + 1 : broken[i] = IF i = Len(text) + 1 THEN LineEnd ELSE text[i]
      BY <1>1, <3>1
    <3>4. \A i \in 1..Len(text) : i \in 1..Len(text) + 1 /\ i # Len(text) + 1
      BY <3>2
    <3>5. \A i \in 1..Len(broken) : Len(text) < i => i = Len(text) + 1
      BY <3>2
    <3> QED
      BY <3>2, <3>3, <3>4, <3>5
  <2> QED
    BY <2>1, <2>2
<1> HIDE DEF broken
<1>3. CASE text = <<>>
  BY <1>1, <1>3 DEF T
<1>4. CASE text # <<>>
  <2> DEFINE out == broken \o <<LineEnd>>
  <2>1. out \in Seq(T) /\ Len(out) = Len(broken) + 1 /\ Len(broken) \in Nat /\ Len(text) \in Nat
    BY <1>1, <1>2
  <2>2. \A i \in 1..Len(broken) + 1 : out[i] = IF i <= Len(broken) THEN broken[i] ELSE LineEnd
    BY <1>1, <1>2
  <2> HIDE DEF out
  <2>3. \A i \in 1..Len(text) : i \in 1..Len(broken)
    BY <1>2, <2>1
  <2>4. \A i \in 1..Len(text) : out[i] = text[i]
    <3>1. \A i \in 1..Len(broken) : i \in 1..Len(broken) + 1 /\ i <= Len(broken)
      BY <2>1
    <3> QED
      BY <1>2, <2>2, <2>3, <3>1
  <2>5. ASSUME NEW i \in 1..Len(out), Len(text) < i PROVE out[i] = LineEnd
    <3>1. i \in 1..Len(broken) + 1 /\ (i <= Len(broken) => i \in 1..Len(broken))
      BY <2>1
    <3> QED
      BY <1>2, <2>2, <2>5, <3>1
  <2>6. Len(text) <= Len(out)
    BY <1>2, <2>1
  <2> QED
    BY <1>4, <2>1, <2>4, <2>5, <2>6 DEF out, broken, T
<1> QED
  BY <1>3, <1>4

LEMMA ThreeParts ==
  ASSUME NEW T, NEW u \in Seq(T), NEW w \in Seq(T), NEW x \in Seq(T)
  PROVE  LET out == u \o w \o x
             n == Len(u)
             m == Len(u) + Len(w)
         IN /\ out \in Seq(T) /\ Len(out) = m + Len(x) /\ IsSeq(out) /\ DOMAIN out = 1..m + Len(x)
            /\ n \in Nat /\ m \in Nat /\ Len(x) \in Nat
            /\ \A i \in 1..n : out[i] = u[i]
            /\ \A i \in 1..Len(w) : out[n + i] = w[i]
            /\ \A i \in 1..Len(x) : out[m + i] = x[i]
<1> DEFINE uw == u \o w
           n == Len(u)
           m == Len(u) + Len(w)
           out == uw \o x
<1>1. /\ uw \in Seq(T) /\ Len(uw) = m /\ n \in Nat /\ m \in Nat /\ n <= m
      /\ Len(w) \in Nat /\ Len(x) \in Nat
  BY ConcatProperties
<1>2. \A i \in 1..m : uw[i] = IF i <= n THEN u[i] ELSE w[i - n]
  BY ConcatProperties
<1>3. /\ out \in Seq(T) /\ Len(out) = m + Len(x) /\ DOMAIN out = 1..m + Len(x)
      /\ \A i \in 1..m + Len(x) : out[i] = IF i <= m THEN uw[i] ELSE x[i - m]
  <2> HIDE DEF uw
  <2> QED
    BY <1>1, ConcatProperties, LenProperties
<1> HIDE DEF uw, out
<1>4. IsSeq(out)
  <2>1. out \in Seq(Range(out))
    <3>1. \A i \in 1..Len(out) : out[i] \in Range(out)
      BY <1>3 DEF Range
    <3>2. out = [i \in 1..Len(out) |-> out[i]]
      BY <1>3
    <3>3. Len(out) \in Nat
      BY <1>1, <1>3
    <3> HIDE DEF n, m
    <3> QED
      BY <3>1, <3>2, <3>3
  <2> QED
    BY <2>1 DEF IsSeq
<1>5. ASSUME NEW i \in 1..n PROVE out[i] = u[i]
  <2>1. i \in 1..m /\ i \in 1..m + Len(x) /\ i <= n /\ i <= m
    BY <1>1
  <2> HIDE DEF n, m
  <2> QED
    BY <1>2, <1>3, <2>1
<1>6. ASSUME NEW i \in 1..Len(w) PROVE out[n + i] = w[i]
  <2> DEFINE k == n + i
  <2>1. k \in 1..m /\ k \in 1..m + Len(x) /\ ~(k <= n) /\ k <= m /\ k - n = i
    BY <1>1
  <2> HIDE DEF n, m, k
  <2>2. out[k] = uw[k] /\ uw[k] = w[k - n]
    BY <1>2, <1>3, <2>1
  <2>3. out[k] = w[i]
    BY <2>1, <2>2
  <2> QED
    BY <2>3 DEF k
<1>7. ASSUME NEW i \in 1..Len(x) PROVE out[m + i] = x[i]
  <2> DEFINE k == m + i
  <2>1. k \in 1..m + Len(x) /\ ~(k <= m) /\ k - m = i
    BY <1>1
  <2> HIDE DEF n, m, k
  <2>2. out[k] = x[k - m]
    BY <1>3, <2>1
  <2>3. out[k] = x[i]
    BY <2>1, <2>2
  <2> QED
    BY <2>3 DEF k
<1> QED
  BY <1>1, <1>3, <1>4, <1>5, <1>6, <1>7 DEF out, uw

\* A block at the end of a text that has none.
LEMMA AppendEdits ==
  ASSUME NEW text, IsSeq(text), NEW block, NEW v, NEW ended,
         Spots(text, Begin(block)) = {}, Spots(text, End(block)) = {},
         ended \in Seq(Range(text) \cup {LineEnd}), Len(text) <= Len(ended),
         \A i \in 1..Len(text) : ended[i] = text[i],
         \A i \in 1..Len(ended) : Len(text) < i => ended[i] = LineEnd
  PROVE  LET n == Len(text)
             c == Len(ended) + 1
         IN Edited(text, ended \o Written(block, v) \o <<LineEnd>>, block, v, n + 1, n, c, c + 2 - n)
<1> DEFINE n == Len(text)
           l == Len(ended)
           w == Written(block, v)
           T == Range(text) \cup {LineEnd, Begin(block), Body(block, v), End(block)}
           out == ended \o w \o <<LineEnd>>
<1>1. /\ Len(w) = 3 /\ DOMAIN w = 1..3 /\ w[1] = Begin(block) /\ w[2] = Body(block, v) /\ w[3] = End(block)
      /\ w \in Seq(T)
  <2>1. w \in Seq({Begin(block), Body(block, v), End(block)})
    BY WrittenIs
  <2>2. {Begin(block), Body(block, v), End(block)} \subseteq T
    OBVIOUS
  <2> HIDE DEF T
  <2>3. w \in Seq(T)
    BY <2>1, <2>2, SeqMonotonic
  <2> QED
    BY <2>3, WrittenIs
<1>2. ended \in Seq(T) /\ <<LineEnd>> \in Seq(T) /\ Len(<<LineEnd>>) = 1 /\ <<LineEnd>>[1] = LineEnd
  <2>1. Range(text) \cup {LineEnd} \subseteq T
    OBVIOUS
  <2>2. ended \in Seq(T)
    <3> HIDE DEF T
    <3> QED
      BY <2>1, SeqMonotonic
  <2> QED
    BY <2>2
<1>3. n \in Nat /\ DOMAIN text = 1..n
  BY SeqDomain
<1> HIDE DEF w, T
<1>4. /\ IsSeq(out) /\ l \in Nat /\ DOMAIN out = 1..l + 4
      /\ \A i \in 1..l : out[i] = ended[i]
      /\ \A i \in 1..3 : out[l + i] = w[i]
      /\ out[l + 4] = LineEnd
  <2> DEFINE x == <<LineEnd>>
  <2>0. x \in Seq(T) /\ Len(x) = 1 /\ x[1] = LineEnd
    BY <1>2
  <2> HIDE DEF x
  <2>1. /\ IsSeq(ended \o w \o x) /\ l \in Nat /\ DOMAIN (ended \o w \o x) = 1..(l + Len(w)) + Len(x)
        /\ \A i \in 1..l : (ended \o w \o x)[i] = ended[i]
        /\ \A i \in 1..Len(w) : (ended \o w \o x)[l + i] = w[i]
        /\ \A i \in 1..Len(x) : (ended \o w \o x)[(l + Len(w)) + i] = x[i]
    <3>1. ended \in Seq(T) /\ w \in Seq(T) /\ x \in Seq(T)
      BY <1>1, <1>2, <2>0
    <3>2. LET all == ended \o w \o x
              n1 == Len(ended)
              m1 == Len(ended) + Len(w)
          IN /\ all \in Seq(T) /\ Len(all) = m1 + Len(x) /\ IsSeq(all) /\ DOMAIN all = 1..m1 + Len(x)
             /\ n1 \in Nat /\ m1 \in Nat /\ Len(x) \in Nat
             /\ \A i \in 1..n1 : all[i] = ended[i]
             /\ \A i \in 1..Len(w) : all[n1 + i] = w[i]
             /\ \A i \in 1..Len(x) : all[m1 + i] = x[i]
      BY <3>1, ThreeParts
    <3> QED
      BY <3>2, Zenon
  <2>2. (l + 3) + 1 = l + 4
    BY <2>1
  <2> DEFINE o == ended \o w \o x
  <2> HIDE DEF o
  <2>3. /\ IsSeq(o) /\ l \in Nat /\ DOMAIN o = 1..(l + 3) + 1
        /\ \A i \in 1..l : o[i] = ended[i]
        /\ \A i \in 1..3 : o[l + i] = w[i]
        /\ \A i \in 1..1 : o[(l + 3) + i] = x[i]
    BY <1>1, <2>0, <2>1 DEF o
  <2>4. o[l + 4] = LineEnd
    <3>1. 1 \in 1..1
      OBVIOUS
    <3> QED
      BY <2>0, <2>2, <2>3, <3>1
  <2>5. o = out
    BY DEF o, x
  <2> QED
    BY <2>2, <2>3, <2>4, <2>5
<1> DEFINE c == l + 1
           d == c + 2 - n
<1> HIDE DEF out
<1>5. c \in Nat /\ d \in Int /\ n + 1 <= c /\ c + 2 <= n + d /\ c + 2 \in DOMAIN out /\ c + 1 = l + 2 /\ c + 2 = l + 3
  BY <1>3, <1>4
<1>6. out[c] = Begin(block) /\ out[c + 1] = Body(block, v) /\ out[c + 2] = End(block)
  BY <1>1, <1>4, <1>5
<1>7. ASSUME NEW i \in DOMAIN text
      PROVE  i < n + 1 /\ ~(n < i) /\ i \in DOMAIN out /\ out[i] = text[i]
  <2>1. i \in 1..l /\ i \in 1..l + 4 /\ i < n + 1 /\ ~(n < i)
    BY <1>3, <1>4
  <2> QED
    BY <1>3, <1>4, <2>1
<1>8. ASSUME NEW i \in DOMAIN text PROVE text[i] \notin {Begin(block), End(block)}
  BY DEF Spots
<1>9. ASSUME NEW j \in DOMAIN out
      PROVE  \/ j < n + 1 /\ j \in DOMAIN text
             \/ j \in {c, c + 1, c + 2}
             \/ n + 1 <= j /\ out[j] = LineEnd
  <2>1. \/ j \in 1..n
        \/ j \in 1..l /\ n < j
        \/ j \in {l + 1, l + 2, l + 3}
        \/ j = l + 4
    <3>1. j \in 1..l + 4 /\ l \in Nat /\ n \in Nat /\ n <= l
      BY <1>3, <1>4
    <3> HIDE DEF l, n
    <3>2. \/ j \in 1..l \/ j = l + 1 \/ j = l + 2 \/ j = l + 3 \/ j = l + 4
      BY <3>1
    <3>3. j \in 1..l => j \in 1..n \/ n < j
      BY <3>1
    <3> QED
      BY <3>2, <3>3
  <2>2. j \in Nat /\ n + 1 <= l + 4 /\ n \in Nat
    <3>1. j \in 1..l + 4 /\ l \in Nat /\ n \in Nat /\ n <= l
      BY <1>3, <1>4
    <3> HIDE DEF l, n
    <3> QED
      BY <3>1
  <2>3. CASE j \in 1..n
    <3>1. j < n + 1
      BY <2>2, <2>3
    <3> QED
      BY <1>3, <2>3, <3>1
  <2>4. CASE j \in 1..l /\ n < j
    <3>1. out[j] = LineEnd
      BY <1>4, <2>4
    <3>2. n + 1 <= j
      BY <2>2, <2>4
    <3> QED
      BY <3>1, <3>2
  <2>5. CASE j = l + 4
    BY <1>4, <2>2, <2>5
  <2>6. CASE j \in {l + 1, l + 2, l + 3}
    BY <1>5, <2>6
  <2> QED
    BY <2>1, <2>3, <2>4, <2>5, <2>6
<1> HIDE DEF c, d, l
<1>10. n + 1 \in Nat \ {0} /\ \A i : i < n + 1 /\ n < i => ~(i \in DOMAIN text)
  BY <1>3, <1>7
<1>11. Edited(text, out, block, v, n + 1, n, c, d)
  <2> DEFINE b == n + 1
  <2>1. b \in Nat \ {0} /\ b = n + 1
    BY <1>10
  <2>2. /\ \A i \in DOMAIN text : i < b /\ ~(n < i) /\ i \in DOMAIN out /\ out[i] = text[i]
        /\ \A i \in DOMAIN text : ~(b < i)
    <3>1. \A i \in DOMAIN text : ~(n + 1 < i)
      BY <1>3
    <3> QED
      BY <1>7, <3>1
  <2>3. \A j \in DOMAIN out :
          \/ j < b /\ j \in DOMAIN text
          \/ j \in {c, c + 1, c + 2}
          \/ b <= j /\ out[j] = LineEnd
    BY <1>9
  <2>4. b <= c
    BY <1>5
  <2> HIDE DEF b
  <2>5. b = n + 1 /\ n = Len(text)
    BY <2>1
  <2> HIDE DEF n
  <2>6. Edited(text, out, block, v, b, n, c, d)
    BY <1>3, <1>4, <1>5, <1>6, <1>8, <2>1, <2>2, <2>3, <2>4, <2>5 DEF Edited
  <2> QED
    BY <2>6 DEF b
<1> QED
  BY <1>11 DEF out, c, d, l, w

\* A stretch of a sequence.
LEMMA StretchIs ==
  ASSUME NEW T, NEW s \in Seq(T), NEW from \in 1..Len(s) + 1, NEW to \in 0..Len(s), from <= to + 1
  PROVE  LET part == SubSeq(s, from, to)
         IN /\ part \in Seq(T) /\ Len(part) = to + 1 - from
            /\ \A i \in 1..Len(part) : part[i] = s[from + i - 1]
<1> DEFINE part == SubSeq(s, from, to)
<1>1. from \in Int /\ to \in Int /\ Len(s) \in Nat /\ from >= 1 /\ to <= Len(s)
  OBVIOUS
<1>2. \A i \in from..to : s[i] \in T
  <2>1. \A i \in from..to : i \in 1..Len(s)
    BY <1>1
  <2> QED
    BY <2>1
<1>3. /\ part \in Seq(T) /\ Len(part) = IF from <= to THEN to - from + 1 ELSE 0
      /\ \A i \in 1..to - from + 1 : part[i] = s[from + i - 1]
  BY <1>1, <1>2, SubSeqProperties
<1> HIDE DEF part
<1>4. Len(part) = to + 1 - from /\ 1..Len(part) = 1..to - from + 1
  BY <1>1, <1>3
<1> QED
  BY <1>3, <1>4 DEF part

\* A block that stands whole gives way to a new one.
LEMMA ReplaceEdits ==
  ASSUME NEW text, IsSeq(text), NEW block \in Blocks, NEW v,
         NEW b \in DOMAIN text, NEW e \in DOMAIN text,
         Spots(text, Begin(block)) = {b}, Spots(text, End(block)) = {e}, b < e,
         \A i \in (b + 1)..(e - 1) : text[i] \notin Markers
  PROVE  Edited(text, SubSeq(text, 1, b - 1) \o Written(block, v) \o SubSeq(text, e + 1, Len(text)),
                block, v, b, e, b, b + 2 - e)
<1> DEFINE n == Len(text)
           w == Written(block, v)
           T == Range(text) \cup {Begin(block), Body(block, v), End(block)}
           u == SubSeq(text, 1, b - 1)
           x == SubSeq(text, e + 1, n)
           out == u \o w \o x
           d == b + 2 - e
<1>1. /\ Len(w) = 3 /\ w[1] = Begin(block) /\ w[2] = Body(block, v) /\ w[3] = End(block)
      /\ w \in Seq(T)
  <2>1. w \in Seq({Begin(block), Body(block, v), End(block)})
    BY WrittenIs
  <2>2. {Begin(block), Body(block, v), End(block)} \subseteq T
    OBVIOUS
  <2> HIDE DEF T
  <2>3. w \in Seq(T)
    BY <2>1, <2>2, SeqMonotonic
  <2> QED
    BY <2>3, WrittenIs
<1>2. n \in Nat /\ DOMAIN text = 1..n /\ b \in 1..n /\ e \in 1..n /\ b < e
  BY SeqDomain
<1>3. text \in Seq(T)
  <2>1. Range(text) \subseteq T
    OBVIOUS
  <2> HIDE DEF T
  <2> QED
    BY <2>1, SeqOfMore
<1> HIDE DEF w, T
<1>4. u \in Seq(T) /\ Len(u) = b - 1 /\ \A i \in 1..b - 1 : u[i] = text[i]
  <2>1. 1 \in 1..Len(text) + 1 /\ b - 1 \in 0..Len(text) /\ 1 <= (b - 1) + 1
    BY <1>2
  <2>2. u \in Seq(T) /\ Len(u) = (b - 1) + 1 - 1 /\ \A i \in 1..Len(u) : u[i] = text[1 + i - 1]
    BY <1>3, <2>1, StretchIs
  <2> HIDE DEF u
  <2>3. Len(u) = b - 1 /\ \A i \in 1..b - 1 : 1 + i - 1 = i
    BY <1>2, <2>2
  <2> QED
    BY <2>2, <2>3
<1>5. x \in Seq(T) /\ Len(x) = n - e /\ \A i \in 1..n - e : x[i] = text[e + i]
  <2>1. e + 1 \in 1..Len(text) + 1 /\ n \in 0..Len(text) /\ e + 1 <= n + 1
    BY <1>2
  <2>2. x \in Seq(T) /\ Len(x) = n + 1 - (e + 1) /\ \A i \in 1..Len(x) : x[i] = text[e + 1 + i - 1]
    BY <1>3, <2>1, StretchIs
  <2> HIDE DEF x
  <2>3. Len(x) = n - e /\ \A i \in 1..n - e : e + 1 + i - 1 = e + i
    BY <1>2, <2>2
  <2> QED
    BY <2>2, <2>3
<1> HIDE DEF u, x
<1>6. /\ IsSeq(out) /\ DOMAIN out = 1..(b + 2) + (n - e)
      /\ \A i \in 1..b - 1 : out[i] = text[i]
      /\ \A i \in 1..3 : out[(b - 1) + i] = w[i]
      /\ \A i \in 1..n - e : out[(b + 2) + i] = text[e + i]
  <2>1. /\ IsSeq(out) /\ DOMAIN out = 1..(Len(u) + Len(w)) + Len(x)
        /\ \A i \in 1..Len(u) : out[i] = u[i]
        /\ \A i \in 1..Len(w) : out[Len(u) + i] = w[i]
        /\ \A i \in 1..Len(x) : out[(Len(u) + Len(w)) + i] = x[i]
    <3>0. u \in Seq(T) /\ w \in Seq(T) /\ x \in Seq(T)
      BY <1>1, <1>4, <1>5
    <3>1. LET all == u \o w \o x
              n1 == Len(u)
              m1 == Len(u) + Len(w)
          IN /\ all \in Seq(T) /\ Len(all) = m1 + Len(x) /\ IsSeq(all) /\ DOMAIN all = 1..m1 + Len(x)
             /\ n1 \in Nat /\ m1 \in Nat /\ Len(x) \in Nat
             /\ \A i \in 1..n1 : all[i] = u[i]
             /\ \A i \in 1..Len(w) : all[n1 + i] = w[i]
             /\ \A i \in 1..Len(x) : all[m1 + i] = x[i]
      BY <3>0, ThreeParts
    <3> QED
      BY <3>1, Zenon
  <2> HIDE DEF out
  <2>2. Len(u) + Len(w) = b + 2 /\ Len(u) = b - 1 /\ Len(w) = 3 /\ Len(x) = n - e
    BY <1>1, <1>2, <1>4, <1>5
  <2> HIDE DEF n
  <2> QED
    BY <1>4, <1>5, <2>1, <2>2
<1> HIDE DEF out
<1>7. b \in Nat \ {0} /\ e \in Nat /\ d \in Int /\ b <= b /\ b + 2 <= e + d
  BY <1>2
<1>8. b + 2 \in DOMAIN out /\ out[b] = Begin(block) /\ out[b + 1] = Body(block, v) /\ out[b + 2] = End(block)
  <2>1. (b - 1) + 1 = b /\ (b - 1) + 2 = b + 1 /\ (b - 1) + 3 = b + 2 /\ b + 2 \in 1..(b + 2) + (n - e)
    BY <1>2
  <2>2. out[(b - 1) + 1] = w[1] /\ out[(b - 1) + 2] = w[2] /\ out[(b - 1) + 3] = w[3]
    BY <1>6
  <2> QED
    BY <1>1, <1>6, <2>1, <2>2
<1>9. ASSUME NEW i \in DOMAIN text, i < b PROVE i \in DOMAIN out /\ out[i] = text[i]
  <2>1. i \in 1..b - 1 /\ i \in 1..(b + 2) + (n - e)
    BY <1>2, <1>9
  <2> QED
    BY <1>6, <2>1
<1>10. ASSUME NEW i \in DOMAIN text, e < i PROVE i + d \in DOMAIN out /\ out[i + d] = text[i]
  <2> DEFINE k == i - e
  <2>1. n \in Nat /\ b \in 1..n /\ e \in 1..n /\ b < e /\ i \in 1..n /\ e < i
    BY <1>2, <1>10
  <2> HIDE DEF n
  <2>2. k \in 1..n - e /\ e + k = i
    BY <2>1
  <2>3. (b + 2) + k = i + d
    BY <2>1
  <2>4. (b + 2) + k \in 1..(b + 2) + (n - e)
    BY <2>1, <2>2
  <2> HIDE DEF k, d
  <2>5. out[(b + 2) + k] = text[e + k]
    BY <1>6, <2>2
  <2> QED
    BY <1>6, <2>2, <2>3, <2>4, <2>5
<1>11. ASSUME NEW i \in DOMAIN text, i < b \/ e < i PROVE text[i] \notin {Begin(block), End(block)}
  <2>1. i \notin {b, e}
    BY <1>2, <1>11
  <2> QED
    BY <2>1 DEF Spots
<1>12. ASSUME NEW j \in DOMAIN out
       PROVE  \/ j < b /\ j \in DOMAIN text
              \/ j \in {b, b + 1, b + 2}
              \/ b <= j /\ out[j] = LineEnd
              \/ e < j - d /\ j - d \in DOMAIN text
  <2>1. j \in 1..(b + 2) + (n - e)
    BY <1>6
  <2>2. \/ j < b /\ j \in 1..n
        \/ j \in {b, b + 1, b + 2}
        \/ e < j - d /\ j - d \in 1..n
    <3>1. n \in Nat /\ b \in 1..n /\ e \in 1..n /\ b < e
      BY <1>2
    <3> HIDE DEF n
    <3>2. CASE j < b
      BY <2>1, <3>1, <3>2
    <3>3. CASE b <= j /\ j <= b + 2
      BY <2>1, <3>1, <3>3
    <3>4. CASE b + 2 < j
      <4>1. j - d = j - b - 2 + e /\ j \in Nat /\ j <= (b + 2) + (n - e)
        BY <2>1, <3>1
      <4> QED
        BY <3>1, <3>4, <4>1
    <3>5. j \in Nat /\ b \in Nat
      BY <2>1, <3>1
    <3> QED
      BY <3>2, <3>3, <3>4, <3>5
  <2> QED
    BY <1>2, <2>2
<1>13. \A i \in DOMAIN text : b < i /\ i < e => text[i] \notin Markers
  BY <1>2
<1>14. text[b] = Begin(block) /\ text[e] = End(block)
  BY DEF Spots
<1> HIDE DEF d, n
<1>15. Edited(text, out, block, v, b, e, b, d)
  BY <1>2, <1>6, <1>7, <1>8, <1>9, <1>10, <1>11, <1>12, <1>13, <1>14 DEF Edited
<1> QED
  BY <1>15 DEF out, d, n, u, w, x

\* Whatever upsert_startup_block writes is an edit.
LEMMA UpsertEdits ==
  ASSUME NEW text, IsSeq(text), NEW block \in Blocks, NEW v, Upsert(text, block, v) # Refused
  PROVE  \E b, e, c, d : Edited(text, Upsert(text, block, v), block, v, b, e, c, d)
<1> DEFINE out == Upsert(text, block, v)
           begins == Spots(text, Begin(block))
           ends == Spots(text, End(block))
           ended == IF text = <<>> THEN <<>>
                    ELSE (IF Last(text) = LineEnd THEN text ELSE Append(text, LineEnd)) \o <<LineEnd>>
<1>1. CASE begins = {} /\ ends = {}
  <2>1. out = ended \o Written(block, v) \o <<LineEnd>>
    BY <1>1, Zenon DEF Upsert
  <2>2. /\ ended \in Seq(Range(text) \cup {LineEnd})
        /\ Len(text) <= Len(ended)
        /\ \A i \in 1..Len(text) : ended[i] = text[i]
        /\ \A i \in 1..Len(ended) : Len(text) < i => ended[i] = LineEnd
    BY EndedIs
  <2> HIDE DEF ended, out
  <2>3. Edited(text, ended \o Written(block, v) \o <<LineEnd>>, block, v, Len(text) + 1, Len(text),
               Len(ended) + 1, Len(ended) + 1 + 2 - Len(text))
    BY <1>1, <2>2, AppendEdits
  <2>4. Edited(text, out, block, v, Len(text) + 1, Len(text), Len(ended) + 1, Len(ended) + 1 + 2 - Len(text))
    BY <2>1, <2>3
  <2> QED
    BY <2>4 DEF out
<1>2. CASE ~(begins = {} /\ ends = {})
  <2>1. Whole(text, block) /\ out = SubSeq(text, 1, The(begins) - 1) \o Written(block, v)
                                    \o SubSeq(text, The(ends) + 1, Len(text))
    BY <1>2, Zenon DEF Upsert
  <2>2. PICK b, e \in DOMAIN text :
          /\ Spots(text, Begin(block)) = {b} /\ Spots(text, End(block)) = {e} /\ b < e
          /\ \A i \in (b + 1)..(e - 1) : text[i] \notin Markers
    BY <2>1 DEF Whole
  <2>3. The(begins) = b /\ The(ends) = e
    BY <2>2 DEF The
  <2>4. Edited(text, SubSeq(text, 1, b - 1) \o Written(block, v) \o SubSeq(text, e + 1, Len(text)),
               block, v, b, e, b, b + 2 - e)
    BY <2>2, ReplaceEdits
  <2> HIDE DEF out, begins, ends
  <2>5. Edited(text, out, block, v, b, e, b, b + 2 - e)
    BY <2>1, <2>3, <2>4
  <2> QED
    BY <2>5 DEF out
<1> QED
  BY <1>1, <1>2

\* What an edit leaves of a text, where it goes, and what else there is then.
Outside(text, b, e) == {i \in DOMAIN text : i < b \/ e < i}
Shift(text, b, d) == [i \in DOMAIN text |-> IF i < b THEN i ELSE i + d]

LEMMA EditShifts ==
  ASSUME NEW text, NEW out, NEW block, NEW v, NEW b, NEW e, NEW c, NEW d,
         Edited(text, out, block, v, b, e, c, d)
  PROVE  LET f == Shift(text, b, d)
             left == Outside(text, b, e)
         IN /\ \A i \in left : f[i] \in DOMAIN out /\ out[f[i]] = text[i] /\ f[i] \notin {c, c + 1, c + 2}
            /\ \A j \in DOMAIN out : j \in {c, c + 1, c + 2} \/ out[j] = LineEnd \/ \E i \in left : f[i] = j
            /\ \A i, k \in left : i < k => f[i] < f[k]
            /\ \A i \in left : i + 1 \in left => f[i + 1] = f[i] + 1
            /\ \A i \in DOMAIN text : i \notin left =>
                 /\ b < e /\ b \in DOMAIN text /\ e \in DOMAIN text
                 /\ text[b] = Begin(block) /\ text[e] = End(block) /\ b <= i /\ i <= e
                 /\ text[i] \in Markers => i = b \/ i = e
            /\ \A i \in left : text[i] \notin {Begin(block), End(block)}
<1> DEFINE f == Shift(text, b, d)
           left == Outside(text, b, e)
           n == Len(text)
<1>1. /\ n \in Nat /\ DOMAIN text = 1..n /\ DOMAIN out \subseteq Nat
      /\ b \in Nat \ {0} /\ e \in Nat /\ c \in Nat /\ d \in Int
      /\ b <= c /\ c + 2 <= e + d
      /\ \/ b = e + 1 /\ e = n
         \/ b < e /\ e \in DOMAIN text /\ text[b] = Begin(block) /\ text[e] = End(block)
  BY SeqDomain DEF Edited
<1> HIDE DEF n
<1>0. /\ \A i \in DOMAIN text : i \in Nat
      /\ \A i \in DOMAIN out : i \in Nat
      /\ b \in Nat /\ e \in Nat /\ c \in Nat /\ d \in Int
      /\ b <= c /\ c + 2 <= e + d /\ b <= e + 1
  BY <1>1
<1>2. /\ \A i \in DOMAIN text : i < b => i \in DOMAIN out /\ out[i] = text[i]
      /\ \A i \in DOMAIN text : e < i => i + d \in DOMAIN out /\ out[i + d] = text[i]
  BY DEF Edited
<1>3. \A j \in DOMAIN out :
        \/ j < b /\ j \in DOMAIN text
        \/ j \in {c, c + 1, c + 2}
        \/ b <= j /\ out[j] = LineEnd
        \/ e < j - d /\ j - d \in DOMAIN text
  BY DEF Edited
<1>4. \A i \in left : /\ i \in DOMAIN text /\ i \in Nat
                      /\ \/ i < b /\ f[i] = i
                         \/ e < i /\ ~(i < b) /\ f[i] = i + d
  <2> SUFFICES ASSUME NEW i \in left
               PROVE  /\ i \in DOMAIN text /\ i \in Nat
                      /\ \/ i < b /\ f[i] = i
                         \/ e < i /\ ~(i < b) /\ f[i] = i + d
    OBVIOUS
  <2>1. i \in DOMAIN text /\ i \in Nat /\ (i < b \/ e < i)
    BY <1>0 DEF Outside
  <2>2. f[i] = IF i < b THEN i ELSE i + d
    BY <2>1 DEF Shift
  <2> HIDE DEF f, left
  <2> QED
    BY <2>1, <2>2
<1>5. \A i \in DOMAIN text : (i < b => i \in left /\ f[i] = i) /\ (e < i /\ ~(i < b) => i \in left /\ f[i] = i + d)
  BY DEF Outside, Shift
<1>6. \A i \in DOMAIN text : i \notin left => b <= i /\ i <= e
  BY <1>0 DEF Outside
<1> HIDE DEF f, left
<1>7. ASSUME NEW i \in left PROVE f[i] \in DOMAIN out /\ out[f[i]] = text[i] /\ f[i] \notin {c, c + 1, c + 2}
  <2>1. CASE i < b /\ f[i] = i
    BY <1>0, <1>2, <1>4, <2>1
  <2>2. CASE e < i /\ f[i] = i + d
    <3>1. i + d > c + 2
      BY <1>0, <1>4, <2>2
    <3> QED
      BY <1>0, <1>2, <1>4, <2>2, <3>1
  <2> QED
    BY <1>4, <2>1, <2>2
<1>8. ASSUME NEW j \in DOMAIN out
      PROVE  j \in {c, c + 1, c + 2} \/ out[j] = LineEnd \/ \E i \in left : f[i] = j
  <2>1. CASE j < b /\ j \in DOMAIN text
    BY <1>5, <2>1
  <2>2. CASE e < j - d /\ j - d \in DOMAIN text
    <3>1. ~(j - d < b)
      BY <1>0, <2>2
    <3>2. (j - d) + d = j
      BY <1>0
    <3> QED
      BY <1>5, <2>2, <3>1, <3>2
  <2> QED
    BY <1>3, <2>1, <2>2
<1>9. ASSUME NEW i \in left, NEW k \in left, i < k PROVE f[i] < f[k]
  <2>1. CASE i < b /\ f[i] = i /\ e < k /\ f[k] = k + d
    <3>1. k + d > c + 2 /\ c + 2 > i
      BY <1>0, <1>4, <2>1
    <3> QED
      BY <1>0, <1>4, <2>1, <3>1
  <2>2. CASE e < i /\ f[i] = i + d /\ k < b /\ f[k] = k
    BY <1>0, <1>4, <1>9, <2>2
  <2>3. CASE i < b /\ f[i] = i /\ k < b /\ f[k] = k
    BY <1>9, <2>3
  <2>4. CASE e < i /\ f[i] = i + d /\ e < k /\ f[k] = k + d
    BY <1>0, <1>4, <1>9, <2>4
  <2> QED
    BY <1>4, <2>1, <2>2, <2>3, <2>4
<1>10. ASSUME NEW i \in left, i + 1 \in left PROVE f[i + 1] = f[i] + 1
  <2>1. i \in Nat /\ i + 1 \in 1..n
    BY <1>1, <1>4, <1>10
  <2>2. CASE i < b /\ f[i] = i
    <3>1. ~(e < i + 1 /\ ~(i + 1 < b))
      BY <1>0, <1>1, <2>1, <2>2
    <3> QED
      BY <1>4, <1>10, <2>2, <3>1
  <2>3. CASE e < i /\ ~(i < b) /\ f[i] = i + d
    <3>1. ~(i + 1 < b) /\ i + 1 + d = i + d + 1
      BY <1>0, <2>1, <2>3
    <3> QED
      BY <1>4, <1>10, <2>3, <3>1
  <2> QED
    BY <1>4, <2>2, <2>3
<1>11. ASSUME NEW i \in DOMAIN text, i \notin left
       PROVE  /\ b < e /\ b \in DOMAIN text /\ e \in DOMAIN text
              /\ text[b] = Begin(block) /\ text[e] = End(block) /\ b <= i /\ i <= e
              /\ text[i] \in Markers => i = b \/ i = e
  <2>1. b <= i /\ i <= e
    BY <1>6, <1>11
  <2>2. b < e /\ e \in DOMAIN text /\ text[b] = Begin(block) /\ text[e] = End(block)
    BY <1>0, <1>1, <2>1
  <2>3. b \in DOMAIN text
    BY <1>0, <1>1, <2>1, <2>2
  <2>4. b < i /\ i < e => text[i] \notin Markers
    BY DEF Edited
  <2>5. i \in Nat
    BY <1>0
  <2> QED
    BY <1>0, <2>1, <2>2, <2>3, <2>4, <2>5
<1>12. ASSUME NEW i \in left PROVE text[i] \notin {Begin(block), End(block)}
  BY <1>4 DEF Edited
<1> QED
  BY <1>7, <1>8, <1>9, <1>10, <1>11, <1>12 DEF f, left

\* The new block stands once.
LEMMA EditPlaces ==
  ASSUME NEW text, NEW out, NEW block \in Blocks, NEW v, NEW b, NEW e, NEW c, NEW d,
         Edited(text, out, block, v, b, e, c, d), Spots(text, Body(block, v)) = {}
  PROVE  Placed(out, block, v, c)
<1> DEFINE f == Shift(text, b, d)
           left == Outside(text, b, e)
<1>1. /\ \A j \in DOMAIN out : j \in {c, c + 1, c + 2} \/ out[j] = LineEnd \/ \E i \in left : f[i] = j
      /\ \A i \in left : out[f[i]] = text[i]
      /\ \A i \in left : text[i] \notin {Begin(block), End(block)}
  BY EditShifts
<1>2. \A i \in left : i \in DOMAIN text
  BY DEF Outside
<1> HIDE DEF f, left
<1>3. \A i \in left : text[i] # Body(block, v)
  BY <1>2 DEF Spots
<1>4. /\ IsSeq(out) /\ c \in Nat /\ c + 2 \in DOMAIN out /\ c >= 1
      /\ out[c] = Begin(block) /\ out[c + 1] = Body(block, v) /\ out[c + 2] = End(block)
  BY DEF Edited
<1>5. c \in DOMAIN out /\ c + 1 \in DOMAIN out
  BY <1>4, SeqDomain
<1>6. ASSUME NEW j \in DOMAIN out, j \notin {c, c + 1, c + 2}
      PROVE  out[j] \notin {Begin(block), End(block), Body(block, v)}
  BY <1>1, <1>3, <1>6, PiecesApart
<1>7. c # c + 1 /\ c # c + 2 /\ c + 1 # c + 2
  BY <1>4
<1> QED
  BY <1>4, <1>5, <1>6, <1>7, PiecesApart DEF Placed, Spots

\* The other block stays where it is, moved as a whole.
LEMMA EditKeepsOther ==
  ASSUME NEW text, NEW out, NEW block \in Blocks, NEW v, NEW b, NEW e, NEW c, NEW d,
         Edited(text, out, block, v, b, e, c, d),
         NEW other \in Blocks, other # block, NEW w, NEW a, Placed(text, other, w, a)
  PROVE  \E g : Placed(out, other, w, g)
<1> DEFINE f == Shift(text, b, d)
           left == Outside(text, b, e)
<1>1. /\ \A i \in left : f[i] \in DOMAIN out /\ out[f[i]] = text[i]
      /\ \A j \in DOMAIN out : j \in {c, c + 1, c + 2} \/ out[j] = LineEnd \/ \E i \in left : f[i] = j
      /\ \A i \in left : i + 1 \in left => f[i + 1] = f[i] + 1
      /\ \A i \in DOMAIN text : i \notin left =>
           /\ text[b] = Begin(block) /\ text[e] = End(block) /\ b <= i /\ i <= e /\ b < e
           /\ b \in DOMAIN text /\ e \in DOMAIN text
           /\ text[i] \in Markers => i = b \/ i = e
  BY EditShifts
<1>2. \A i \in left : i \in DOMAIN text
  BY DEF Outside
<1>2a. \A i \in DOMAIN text : b <= i /\ i <= e /\ i \notin {b, e} => i \notin left
  <2>1. b \in Nat /\ e \in Nat /\ DOMAIN text \subseteq Nat
    BY SeqDomain DEF Edited
  <2> QED
    BY <2>1 DEF Outside
<1>3. /\ out[c] = Begin(block) /\ out[c + 1] = Body(block, v) /\ out[c + 2] = End(block) /\ IsSeq(out)
      /\ b \in Nat /\ e \in Nat
  BY DEF Edited
<1> HIDE DEF f, left
<1>4. /\ a \in DOMAIN text /\ a + 1 \in DOMAIN text /\ a + 2 \in DOMAIN text /\ a \in Nat
      /\ text[a] = Begin(other) /\ text[a + 2] = End(other) /\ text[a + 1] = Body(other, w)
      /\ \A i \in DOMAIN text : /\ text[i] = Begin(other) => i = a
                                /\ text[i] = End(other) => i = a + 2
                                /\ text[i] = Body(other, w) => i = a + 1
  <2>1. a \in Nat
    BY SeqDomain DEF Placed
  <2> QED
    BY <2>1 DEF Placed, Spots
<1>5. /\ Begin(other) \in Markers /\ End(other) \in Markers
      /\ Begin(other) \notin {Begin(block), End(block), Body(block, v), LineEnd}
      /\ End(other) \notin {Begin(block), End(block), Body(block, v), LineEnd}
      /\ Body(other, w) \notin {Begin(block), End(block), Body(block, v), LineEnd}
  <2>1. Begin(other) \in Markers /\ End(other) \in Markers
    BY DEF Markers
  <2> QED
    BY <2>1, PiecesApart
<1>6. a \in left /\ a + 2 \in left
  <2>1. a \notin left => FALSE
    BY <1>1, <1>4, <1>5
  <2>2. a + 2 \notin left => FALSE
    BY <1>1, <1>4, <1>5
  <2> QED
    BY <2>1, <2>2
<1>7. a + 1 \in left
  <2> SUFFICES ASSUME a + 1 \notin left PROVE FALSE
    OBVIOUS
  <2>1. b <= a + 1 /\ a + 1 <= e /\ b < e /\ text[b] = Begin(block) /\ text[e] = End(block)
    BY <1>1, <1>4
  <2>2. a # b /\ a + 2 # b /\ a # e /\ a + 2 # e /\ a + 1 # b /\ a + 1 # e
    BY <1>4, <1>5, <2>1, PiecesApart
  <2>3. b <= a /\ a <= e
    BY <1>3, <1>4, <2>1, <2>2
  <2> QED
    BY <1>2a, <1>4, <1>6, <2>2, <2>3
<1> DEFINE g == f[a]
<1>8. f[a + 1] = g + 1 /\ f[a + 2] = g + 2 /\ g \in Nat
  <2>1. g \in DOMAIN out /\ DOMAIN out \subseteq Nat
    BY <1>1, <1>3, <1>6, SeqDomain
  <2>2. f[a + 1] = f[a] + 1 /\ f[(a + 1) + 1] = f[a + 1] + 1
    <3>1. (a + 1) + 1 = a + 2
      BY <1>4
    <3> QED
      BY <1>1, <1>6, <1>7, <3>1
  <2>3. (a + 1) + 1 = a + 2 /\ g + 1 + 1 = g + 2
    BY <1>4, <2>1
  <2> QED
    BY <2>1, <2>2, <2>3
<1>9. /\ g \in DOMAIN out /\ g + 1 \in DOMAIN out /\ g + 2 \in DOMAIN out
      /\ out[g] = Begin(other) /\ out[g + 1] = Body(other, w) /\ out[g + 2] = End(other)
  BY <1>1, <1>4, <1>6, <1>7, <1>8
<1>10. ASSUME NEW j \in DOMAIN out
       PROVE  /\ out[j] = Begin(other) => j = g
              /\ out[j] = End(other) => j = g + 2
              /\ out[j] = Body(other, w) => j = g + 1
  <2>1. CASE j \in {c, c + 1, c + 2} \/ out[j] = LineEnd
    BY <1>3, <1>5, <2>1
  <2>2. CASE \E i \in left : f[i] = j
    <3>1. PICK i \in left : f[i] = j
      BY <2>2
    <3>2. out[j] = text[i] /\ i \in DOMAIN text
      BY <1>1, <1>2, <3>1
    <3> QED
      BY <1>4, <1>8, <3>1, <3>2
  <2> QED
    BY <1>1, <2>1, <2>2
<1> HIDE DEF g
<1>11. Placed(out, other, w, g)
  BY <1>3, <1>9, <1>10 DEF Placed, Spots
<1> QED
  BY <1>11

\* What people wrote is the same after an edit.
LEMMA EditKeepsHand ==
  ASSUME NEW text, NEW out, NEW block \in Blocks, NEW v, NEW b, NEW e, NEW c, NEW d,
         Edited(text, out, block, v, b, e, c, d)
  PROVE  ByHand(out) = ByHand(text)
<1> DEFINE f == Shift(text, b, d)
           left == Outside(text, b, e)
           P == {i \in DOMAIN text : text[i][1] = "hand" /\ i \notin Kept(text)}
           Q == {i \in DOMAIN out : out[i][1] = "hand" /\ i \notin Kept(out)}
<1>1. /\ \A i \in left : f[i] \in DOMAIN out /\ out[f[i]] = text[i] /\ f[i] \notin {c, c + 1, c + 2}
      /\ \A j \in DOMAIN out : j \in {c, c + 1, c + 2} \/ out[j] = LineEnd \/ \E i \in left : f[i] = j
      /\ \A i, k \in left : i < k => f[i] < f[k]
      /\ \A i \in DOMAIN text : i \notin left =>
           /\ b < e /\ b \in DOMAIN text /\ e \in DOMAIN text
           /\ text[b] = Begin(block) /\ text[e] = End(block) /\ b <= i /\ i <= e
           /\ text[i] \in Markers => i = b \/ i = e
      /\ \A i \in left : text[i] \notin {Begin(block), End(block)}
  BY EditShifts
<1>2. \A i \in left : i \in DOMAIN text
  BY DEF Outside
<1>3. /\ out[c] = Begin(block) /\ out[c + 1] = Body(block, v) /\ out[c + 2] = End(block)
      /\ IsSeq(out) /\ IsSeq(text) /\ b \in Nat /\ e \in Nat /\ c \in Nat
  BY DEF Edited
<1>4. /\ Len(text) \in Nat /\ DOMAIN text = 1..Len(text) /\ Len(out) \in Nat /\ DOMAIN out = 1..Len(out)
      /\ \A i \in DOMAIN text : i \in Nat
      /\ \A i \in DOMAIN out : i \in Nat
  BY <1>3, SeqDomain
<1>5. \A i \in left : i < b \/ e < i
  BY DEF Outside
<1>6. \A k \in Blocks : Begin(k) \in Markers /\ End(k) \in Markers
  BY DEF Markers
<1> HIDE DEF f, left
<1>7. ASSUME NEW i \in DOMAIN text, text[i][1] = "hand", i \notin Kept(text) PROVE i \in left
  <2> SUFFICES ASSUME i \notin left PROVE FALSE
    OBVIOUS
  <2>1. /\ b \in DOMAIN text /\ e \in DOMAIN text
        /\ text[b] = Begin(block) /\ text[e] = End(block) /\ b <= i /\ i <= e
    BY <1>1
  <2>2. i # b /\ i # e
    BY <1>7, <2>1, PiecesApart
  <2>3. b < i /\ i < e
    BY <1>3, <1>4, <2>1, <2>2
  <2>4. i \in Kept(text)
    BY <2>1, <2>3 DEF Kept
  <2> QED
    BY <1>7, <2>4
<1>8. ASSUME NEW i \in left, i \in Kept(text) PROVE f[i] \in Kept(out)
  <2>1. PICK p, q \in DOMAIN text, k \in Blocks :
          p < i /\ i < q /\ text[p] = Begin(k) /\ text[q] = End(k)
    BY <1>8 DEF Kept
  <2>2. k # block
    <3> SUFFICES ASSUME k = block PROVE FALSE
      OBVIOUS
    <3>1. p \notin left /\ q \notin left
      BY <1>1, <2>1
    <3>2. /\ text[b] = Begin(block) /\ text[e] = End(block)
          /\ p = b \/ p = e
          /\ q = b \/ q = e
      BY <1>1, <1>6, <2>1, <3>1
    <3>3. p = b /\ q = e
      BY <2>1, <3>2, PiecesApart
    <3>4. i \in Nat /\ (i < b \/ e < i)
      BY <1>2, <1>4, <1>5
    <3> QED
      BY <1>3, <2>1, <3>3, <3>4
  <2>3. p \in left /\ q \in left
    <3>1. Begin(k) \notin {Begin(block), End(block)} /\ End(k) \notin {Begin(block), End(block)}
      BY <2>2, PiecesApart
    <3>2. p \notin left => p = b \/ p = e
      BY <1>1, <1>6, <2>1
    <3>3. q \notin left => q = b \/ q = e
      BY <1>1, <1>6, <2>1
    <3>4. p \notin left => text[p] \in {Begin(block), End(block)}
      BY <1>1, <3>2
    <3>5. q \notin left => text[q] \in {Begin(block), End(block)}
      BY <1>1, <3>3
    <3> QED
      BY <2>1, <3>1, <3>4, <3>5
  <2>4. /\ f[p] \in DOMAIN out /\ f[q] \in DOMAIN out /\ f[i] \in DOMAIN out
        /\ out[f[p]] = Begin(k) /\ out[f[q]] = End(k)
        /\ f[p] < f[i] /\ f[i] < f[q]
    BY <1>1, <2>1, <2>3
  <2> QED
    BY <2>4 DEF Kept
<1>9. ASSUME NEW i \in left, f[i] \in Kept(out) PROVE i \in Kept(text)
  <2>1. PICK p, q \in DOMAIN out, k \in Blocks :
          p < f[i] /\ f[i] < q /\ out[p] = Begin(k) /\ out[q] = End(k)
    BY <1>9 DEF Kept
  <2>2. k # block
    <3> SUFFICES ASSUME k = block PROVE FALSE
      OBVIOUS
    <3>1. p = c
      <4>1. ~\E j \in left : f[j] = p
        BY <1>1, <2>1
      <4>2. p \in {c, c + 1, c + 2}
        BY <1>1, <2>1, <4>1, PiecesApart
      <4> QED
        BY <1>3, <2>1, <4>2, PiecesApart
    <3>2. q = c + 2
      <4>1. ~\E j \in left : f[j] = q
        BY <1>1, <2>1
      <4>2. q \in {c, c + 1, c + 2}
        BY <1>1, <2>1, <4>1, PiecesApart
      <4> QED
        BY <1>3, <2>1, <4>2, PiecesApart
    <3>3. f[i] \in Nat /\ f[i] # c + 1
      BY <1>1, <1>4
    <3> QED
      BY <1>3, <2>1, <3>1, <3>2, <3>3
  <2>3. /\ Begin(k) \notin {Begin(block), End(block), Body(block, v), LineEnd}
        /\ End(k) \notin {Begin(block), End(block), Body(block, v), LineEnd}
    BY <2>2, PiecesApart
  <2>4. PICK x \in left : f[x] = p
    <3>1. p \notin {c, c + 1, c + 2} /\ out[p] # LineEnd
      BY <1>3, <2>1, <2>3
    <3> QED
      BY <1>1, <3>1
  <2>5. PICK y \in left : f[y] = q
    <3>1. q \notin {c, c + 1, c + 2} /\ out[q] # LineEnd
      BY <1>3, <2>1, <2>3
    <3> QED
      BY <1>1, <3>1
  <2>6. /\ x \in Nat /\ y \in Nat /\ i \in Nat /\ f[x] \in Nat /\ f[y] \in Nat /\ f[i] \in Nat
    BY <1>1, <1>2, <1>4
  <2>7. x < i
    <3>1. ~(i < x) /\ i # x
      BY <1>1, <2>1, <2>4, <2>6
    <3> QED
      BY <2>6, <3>1
  <2>8. i < y
    <3>1. ~(y < i) /\ i # y
      BY <1>1, <2>1, <2>5, <2>6
    <3> QED
      BY <2>6, <3>1
  <2>9. x \in DOMAIN text /\ y \in DOMAIN text /\ i \in DOMAIN text /\ text[x] = Begin(k) /\ text[y] = End(k)
    BY <1>1, <1>2, <2>1, <2>4, <2>5
  <2> QED
    BY <2>7, <2>8, <2>9 DEF Kept
<1>10. \A i \in P : i \in left
  BY <1>7
<1>11. \A i \in P : f[i] \in Q /\ out[f[i]] = text[i]
  <2> SUFFICES ASSUME NEW i \in P PROVE f[i] \in Q /\ out[f[i]] = text[i]
    OBVIOUS
  <2>1. i \in left /\ text[i][1] = "hand" /\ i \notin Kept(text)
    BY <1>10
  <2> QED
    BY <1>1, <1>9, <2>1
<1>12. ASSUME NEW q \in Q PROVE \E i \in P : f[i] = q
  <2>1. q \in DOMAIN out /\ out[q][1] = "hand" /\ q \notin Kept(out)
    OBVIOUS
  <2>2. q \notin {c, c + 1, c + 2} /\ out[q] # LineEnd
    BY <1>3, <2>1, PiecesApart
  <2>3. PICK i \in left : f[i] = q
    BY <1>1, <2>1, <2>2
  <2>4. text[i][1] = "hand" /\ i \notin Kept(text) /\ i \in DOMAIN text
    BY <1>1, <1>2, <1>8, <2>1, <2>3
  <2> QED
    BY <2>3, <2>4
<1>13. \A i, j \in P : i < j => f[i] < f[j]
  BY <1>1, <1>10
<1>14. P \subseteq 1..Len(text) /\ Q \subseteq 1..Len(out)
  BY <1>4
<1>15. ByHand(text) = Picked(text, P) /\ ByHand(out) = Picked(out, Q)
  BY DEF ByHand
<1> HIDE DEF P, Q
<1>16. Picked(text, P) = Picked(out, Q)
  <2>1. Len(text) \in Nat /\ Len(out) \in Nat
    BY <1>4
  <2>2. \A q \in Q : \E i \in P : f[i] = q
    BY <1>12
  <2>3. Along(f, text, P, Len(text), out, Q, Len(out))
    BY <1>11, <1>13, <1>14, <2>1, <2>2, Zenon DEF Along
  <2> QED
    BY <2>3, PickedAlong
<1> QED
  BY <1>15, <1>16

\* A block that stands changes its body only.
LEMMA UpsertAgain ==
  ASSUME NEW text, NEW block \in Blocks, NEW v, NEW b, Placed(text, block, v, b), NEW w
  PROVE  /\ Upsert(text, block, w) = [text EXCEPT ![b + 1] = Body(block, w)]
         /\ Whole(text, block)
<1> DEFINE n == Len(text)
           u == SubSeq(text, 1, b - 1)
           x == SubSeq(text, b + 3, n)
           m == Written(block, w)
           T == Range(text) \cup {Begin(block), Body(block, w), End(block)}
           out == u \o m \o x
           changed == [text EXCEPT ![b + 1] = Body(block, w)]
<1>1. /\ IsSeq(text) /\ Spots(text, Begin(block)) = {b} /\ Spots(text, End(block)) = {b + 2}
      /\ text[b] = Begin(block) /\ text[b + 1] = Body(block, v) /\ text[b + 2] = End(block)
  BY DEF Placed, Spots
<1>2. n \in Nat /\ DOMAIN text = 1..n /\ b \in 1..n /\ b + 1 \in 1..n /\ b + 2 \in 1..n /\ b \in Nat /\ b < b + 2
  BY SeqDomain DEF Placed
<1>3. Body(block, v) \notin Markers
  BY PiecesApart DEF Markers
<1>4. Whole(text, block)
  <2>1. \A i \in (b + 1)..((b + 2) - 1) : i = b + 1
    BY <1>2
  <2>2. \A i \in (b + 1)..((b + 2) - 1) : text[i] \notin Markers
    BY <1>1, <1>3, <2>1
  <2> QED
    BY <1>1, <1>2, <2>2 DEF Whole
<1>5. Upsert(text, block, w) = out
  <2>1. The(Spots(text, Begin(block))) = b /\ The(Spots(text, End(block))) = b + 2
    BY <1>1 DEF The
  <2>2. Upsert(text, block, w) =
          SubSeq(text, 1, The(Spots(text, Begin(block))) - 1) \o Written(block, w)
            \o SubSeq(text, The(Spots(text, End(block))) + 1, Len(text))
    <3>1. Spots(text, Begin(block)) # {}
      BY <1>1
    <3> QED
      BY <1>4, <3>1, Zenon DEF Upsert
  <2>3. (b + 2) + 1 = b + 3
    BY <1>2
  <2> QED
    BY <2>1, <2>2, <2>3
<1>6. text \in Seq(T)
  <2>1. Range(text) \subseteq T
    OBVIOUS
  <2> HIDE DEF T
  <2> QED
    BY <1>1, <2>1, SeqOfMore
<1>7. /\ Len(m) = 3 /\ m[1] = Begin(block) /\ m[2] = Body(block, w) /\ m[3] = End(block)
      /\ m \in Seq(T)
  <2>1. m \in Seq({Begin(block), Body(block, w), End(block)})
    BY WrittenIs
  <2>2. {Begin(block), Body(block, w), End(block)} \subseteq T
    OBVIOUS
  <2> HIDE DEF T
  <2>3. m \in Seq(T)
    BY <2>1, <2>2, SeqMonotonic
  <2> QED
    BY <2>3, WrittenIs
<1>8. Body(block, w) \in T
  OBVIOUS
<1> HIDE DEF m, T
<1>9. u \in Seq(T) /\ Len(u) = b - 1 /\ \A i \in 1..b - 1 : u[i] = text[i]
  <2>1. 1 \in 1..Len(text) + 1 /\ b - 1 \in 0..Len(text) /\ 1 <= (b - 1) + 1
    BY <1>2
  <2>2. u \in Seq(T) /\ Len(u) = (b - 1) + 1 - 1 /\ \A i \in 1..Len(u) : u[i] = text[1 + i - 1]
    BY <1>6, <2>1, StretchIs
  <2> HIDE DEF u
  <2>3. Len(u) = b - 1 /\ \A i \in 1..b - 1 : 1 + i - 1 = i
    BY <1>2, <2>2
  <2> QED
    BY <2>2, <2>3
<1>10. x \in Seq(T) /\ Len(x) = n - (b + 2) /\ \A i \in 1..n - (b + 2) : x[i] = text[(b + 2) + i]
  <2>1. b + 3 \in 1..Len(text) + 1 /\ n \in 0..Len(text) /\ b + 3 <= n + 1
    BY <1>2
  <2>2. x \in Seq(T) /\ Len(x) = n + 1 - (b + 3) /\ \A i \in 1..Len(x) : x[i] = text[b + 3 + i - 1]
    BY <1>6, <2>1, StretchIs
  <2> HIDE DEF x
  <2>3. n + 1 - (b + 3) = n - (b + 2)
    BY <1>2
  <2>4. x \in Seq(T) /\ Len(x) = n - (b + 2)
    BY <2>2, <2>3
  <2>5. ASSUME NEW i \in 1..n - (b + 2)
        PROVE  x[i] = text[(b + 2) + i]
    <3>1. x[i] = text[b + 3 + i - 1]
      BY <2>2, <2>4
    <3>2. b + 3 + i - 1 = (b + 2) + i
      BY <1>2
    <3> QED
      BY <3>1, <3>2
  <2> QED
    BY <2>4, <2>5
<1> HIDE DEF u, x
<1>11. /\ out \in Seq(T) /\ Len(out) = (Len(u) + Len(m)) + Len(x)
       /\ \A i \in 1..Len(u) : out[i] = u[i]
       /\ \A i \in 1..Len(m) : out[Len(u) + i] = m[i]
       /\ \A i \in 1..Len(x) : out[(Len(u) + Len(m)) + i] = x[i]
  <2>1. u \in Seq(T) /\ m \in Seq(T) /\ x \in Seq(T)
    BY <1>7, <1>9, <1>10
  <2>2. LET all == u \o m \o x
            n1 == Len(u)
            m1 == Len(u) + Len(m)
        IN /\ all \in Seq(T) /\ Len(all) = m1 + Len(x) /\ IsSeq(all) /\ DOMAIN all = 1..m1 + Len(x)
           /\ n1 \in Nat /\ m1 \in Nat /\ Len(x) \in Nat
           /\ \A i \in 1..n1 : all[i] = u[i]
           /\ \A i \in 1..Len(m) : all[n1 + i] = m[i]
           /\ \A i \in 1..Len(x) : all[m1 + i] = x[i]
    BY <2>1, ThreeParts
  <2> QED
    BY <2>2, Zenon
<1> HIDE DEF out
<1>12. /\ Len(out) = n /\ out[b] = text[b] /\ out[b + 1] = Body(block, w) /\ out[b + 2] = text[b + 2]
       /\ \A i \in 1..b - 1 : out[i] = text[i]
       /\ \A i \in 1..n - (b + 2) : out[(b + 2) + i] = text[(b + 2) + i]
  <2>1. Len(u) + Len(m) = b + 2 /\ Len(u) = b - 1 /\ Len(m) = 3 /\ Len(x) = n - (b + 2)
    BY <1>2, <1>7, <1>9, <1>10
  <2>2. Len(out) = n
    <3>1. (b + 2) + (n - (b + 2)) = n
      BY <1>2
    <3> QED
      BY <1>11, <2>1, <3>1
  <2>3. (b - 1) + 1 = b /\ (b - 1) + 2 = b + 1 /\ (b - 1) + 3 = b + 2
    BY <1>2
  <2>4. out[(b - 1) + 1] = m[1] /\ out[(b - 1) + 2] = m[2] /\ out[(b - 1) + 3] = m[3]
    BY <1>11, <2>1
  <2> HIDE DEF n
  <2>5. /\ \A i \in 1..b - 1 : out[i] = text[i]
        /\ \A i \in 1..n - (b + 2) : out[(b + 2) + i] = text[(b + 2) + i]
    BY <1>9, <1>10, <1>11, <2>1
  <2> QED
    BY <1>1, <1>7, <2>2, <2>3, <2>4, <2>5
<1>13. /\ changed \in Seq(T) /\ Len(changed) = n
       /\ \A j \in 1..n : changed[j] = IF j = b + 1 THEN Body(block, w) ELSE text[j]
  BY <1>2, <1>6, <1>8, ExceptSeq
<1> HIDE DEF changed
<1>14. ASSUME NEW i \in 1..n PROVE out[i] = changed[i]
  <2>1. \/ i \in 1..b - 1 /\ i # b + 1
        \/ i = b /\ i # b + 1
        \/ i = b + 1
        \/ i = b + 2 /\ i # b + 1
        \/ i - (b + 2) \in 1..n - (b + 2) /\ (b + 2) + (i - (b + 2)) = i /\ i # b + 1
    <3>1. n \in Nat /\ b \in Nat /\ i \in 1..n
      BY <1>2
    <3> HIDE DEF n
    <3> QED
      BY <3>1
  <2>2. CASE i - (b + 2) \in 1..n - (b + 2) /\ (b + 2) + (i - (b + 2)) = i /\ i # b + 1
    <3> DEFINE k == i - (b + 2)
    <3>1. k \in 1..n - (b + 2) /\ (b + 2) + k = i
      BY <2>2
    <3> HIDE DEF k, n
    <3>2. out[(b + 2) + k] = text[(b + 2) + k]
      BY <1>12, <3>1
    <3> QED
      BY <1>13, <2>2, <3>1, <3>2
  <2> HIDE DEF n
  <2> QED
    BY <1>12, <1>13, <2>1, <2>2
<1>15. out = changed
  <2> HIDE DEF n
  <2> QED
    BY <1>11, <1>12, <1>13, <1>14, SeqEqual
<1> QED
  BY <1>4, <1>5, <1>15 DEF changed

\* Where a text is edited nothing stands that neither stood before nor is the host's.
LEMMA EditBringsNothing ==
  ASSUME NEW text, NEW out, NEW block, NEW v, NEW b, NEW e, NEW c, NEW d,
         Edited(text, out, block, v, b, e, c, d), NEW piece, Spots(text, piece) = {},
         piece \notin Range(Written(block, v)) \cup {LineEnd}
  PROVE  Spots(out, piece) = {}
<1> SUFFICES ASSUME NEW j \in DOMAIN out, out[j] = piece PROVE FALSE
  BY DEF Spots
<1>1. j \in {c, c + 1, c + 2} \/ out[j] = LineEnd \/ \E i \in Outside(text, b, e) : Shift(text, b, d)[i] = j
  BY EditShifts
<1>2. \A i \in Outside(text, b, e) : out[Shift(text, b, d)[i]] = text[i]
  BY EditShifts
<1>3. out[c] = Begin(block) /\ out[c + 1] = Body(block, v) /\ out[c + 2] = End(block)
  BY DEF Edited
<1>4. {Begin(block), Body(block, v), End(block)} \subseteq Range(Written(block, v))
  <2>1. /\ DOMAIN Written(block, v) = 1..3 /\ Written(block, v)[1] = Begin(block)
        /\ Written(block, v)[2] = Body(block, v) /\ Written(block, v)[3] = End(block)
    BY WrittenIs
  <2>2. \A i \in 1..3 : Written(block, v)[i] \in Range(Written(block, v))
    BY <2>1 DEF Range
  <2> QED
    BY <2>1, <2>2
<1>5. \A i \in DOMAIN text : text[i] # piece
  BY DEF Spots
<1>6. \A i \in Outside(text, b, e) : i \in DOMAIN text
  BY DEF Outside
<1> QED
  BY <1>1, <1>2, <1>3, <1>4, <1>5, <1>6

\* The pieces of what is written.
LEMMA RangeOfWritten ==
  ASSUME NEW block, NEW v
  PROVE  Range(Written(block, v)) = {Begin(block), Body(block, v), End(block)}
<1>1. /\ DOMAIN Written(block, v) = 1..3 /\ Written(block, v)[1] = Begin(block)
      /\ Written(block, v)[2] = Body(block, v) /\ Written(block, v)[3] = End(block)
  BY WrittenIs
<1>2. 1..3 = {1, 2, 3}
  OBVIOUS
<1> QED
  BY <1>1, <1>2 DEF Range

\* A text that is no refusal has more than one place.
LEMMA NotRefused ==
  ASSUME NEW text, NEW block, NEW v, NEW b, Placed(text, block, v, b)
  PROVE  text # Refused
<1>1. b \in DOMAIN text /\ b + 2 \in DOMAIN text
  BY DEF Placed
<1>2. DOMAIN text = 1..Len(text) /\ Len(text) \in Nat
  BY SeqDomain DEF Placed
<1>3. DOMAIN Refused = 1..1
  BY DEF Refused
<1>4. b \in Nat /\ b >= 1
  BY <1>1, <1>2
<1>5. b + 2 \notin 1..1
  BY <1>4
<1> QED
  BY <1>1, <1>3, <1>5

\* A sequence of anything is one of its elements.
LEMMA SeqOfItsRange ==
  ASSUME NEW T, NEW s \in Seq(T)
  PROVE  IsSeq(s)
<1>1. \A i \in 1..Len(s) : s[i] \in Range(s)
  BY DEF Range
<1>2. s = [i \in 1..Len(s) |-> s[i]] /\ Len(s) \in Nat
  OBVIOUS
<1>3. [i \in 1..Len(s) |-> s[i]] \in Seq(Range(s))
  BY <1>1, <1>2, IsASeq
<1> QED
  BY <1>2, <1>3 DEF IsSeq

\* Putting a block of another version where one stands.
LEMMA Renewed ==
  ASSUME NEW text, NEW block \in Blocks, NEW v, NEW b, Placed(text, block, v, b), NEW w,
         Spots(text, Body(block, w)) \subseteq {b + 1}
  PROVE  LET out == Upsert(text, block, w)
         IN /\ out = [text EXCEPT ![b + 1] = Body(block, w)]
            /\ out # Refused /\ Placed(out, block, w, b)
            /\ w # v => Spots(out, Body(block, v)) = {}
            /\ ByHand(out) = ByHand(text)
            /\ \A piece : piece \notin {Body(block, v), Body(block, w)} => Spots(out, piece) = Spots(text, piece)
<1> DEFINE out == Upsert(text, block, w)
<1>1. out = [text EXCEPT ![b + 1] = Body(block, w)]
  <2>1. block \in Blocks /\ Placed(text, block, v, b)
    OBVIOUS
  <2>2. Upsert(text, block, w) = [text EXCEPT ![b + 1] = Body(block, w)] /\ Whole(text, block)
    BY <2>1, UpsertAgain
  <2> QED
    BY <2>2
<1> HIDE DEF out
<1>2. /\ IsSeq(text) /\ b \in DOMAIN text /\ b + 1 \in DOMAIN text /\ b + 2 \in DOMAIN text
      /\ Spots(text, Begin(block)) = {b} /\ Spots(text, End(block)) = {b + 2}
      /\ Spots(text, Body(block, v)) = {b + 1}
  BY DEF Placed
<1>3. DOMAIN text = 1..Len(text) /\ Len(text) \in Nat /\ b \in Nat
  BY <1>2, SeqDomain
<1>4. DOMAIN out = DOMAIN text /\ \A i \in DOMAIN text : out[i] = IF i = b + 1 THEN Body(block, w) ELSE text[i]
  BY <1>1
<1>5. IsSeq(out)
  <2> DEFINE T == Range(text) \cup {Body(block, w)}
  <2>1. text \in Seq(T) /\ Body(block, w) \in T
    BY <1>2, SeqOfMore
  <2> HIDE DEF T
  <2>2. out \in Seq(T)
    BY <1>1, <1>2, <2>1, ExceptSeq
  <2> QED
    BY <2>2, SeqOfItsRange
<1>6. text[b + 1] = Body(block, v)
  BY <1>2 DEF Spots
<1>7. \A piece : piece \notin {Body(block, v), Body(block, w)} => Spots(out, piece) = Spots(text, piece)
  BY <1>4, <1>6 DEF Spots
<1>8. Placed(out, block, w, b)
  <2>1. Spots(out, Begin(block)) = {b} /\ Spots(out, End(block)) = {b + 2}
    BY <1>2, <1>7, PiecesApart
  <2>2. Spots(out, Body(block, w)) = {b + 1}
    BY <1>2, <1>4 DEF Spots
  <2> QED
    BY <1>2, <1>4, <1>5, <2>1, <2>2 DEF Placed
<1>9. out # Refused
  BY <1>8, NotRefused
<1>10. w # v => Spots(out, Body(block, v)) = {}
  BY <1>2, <1>4, PiecesApart DEF Spots
<1>11. ByHand(out) = ByHand(text)
  <2>1. PICK p, e, c, d : Edited(text, out, block, w, p, e, c, d)
    BY <1>2, <1>9, UpsertEdits DEF out
  <2> QED
    BY <2>1, EditKeepsHand
<1> QED
  BY <1>1, <1>7, <1>8, <1>9, <1>10, <1>11 DEF out

\* Pointing again where both blocks stand.
LEMMA PointAgain ==
  ASSUME NEW text, NEW v, NEW p, NEW c, NEW w,
         Placed(text, "places", v, p), Placed(text, "contract", v, c),
         Spots(text, Body("places", w)) \subseteq {p + 1}, Spots(text, Body("contract", w)) \subseteq {c + 1}
  PROVE  LET out == Point(text, w)
         IN /\ out # Refused /\ Placed(out, "places", w, p) /\ Placed(out, "contract", w, c)
            /\ w # v => \A block \in Blocks : Spots(out, Body(block, v)) = {}
            /\ ByHand(out) = ByHand(text)
            /\ DOMAIN out = DOMAIN text /\ p + 1 # c + 1
            /\ \A i \in DOMAIN text :
                 out[i] = IF i = c + 1 THEN Body("contract", w) ELSE IF i = p + 1 THEN Body("places", w) ELSE text[i]
            /\ IsSeq(out)
<1> DEFINE first == Upsert(text, "places", w)
           out == Upsert(first, "contract", w)
<1>0. "places" \in Blocks /\ "contract" \in Blocks /\ "places" # "contract" /\ Blocks = {"places", "contract"}
  BY DEF Blocks
<1>1. /\ first = [text EXCEPT ![p + 1] = Body("places", w)]
      /\ first # Refused /\ Placed(first, "places", w, p)
      /\ w # v => Spots(first, Body("places", v)) = {}
      /\ ByHand(first) = ByHand(text)
      /\ \A piece : piece \notin {Body("places", v), Body("places", w)} => Spots(first, piece) = Spots(text, piece)
  BY <1>0, Renewed
<1> HIDE DEF first
<1>2. Spots(first, Begin("contract")) = Spots(text, Begin("contract"))
      /\ Spots(first, End("contract")) = Spots(text, End("contract"))
      /\ Spots(first, Body("contract", v)) = Spots(text, Body("contract", v))
      /\ Spots(first, Body("contract", w)) = Spots(text, Body("contract", w))
  <2>1. \A piece \in {Begin("contract"), End("contract"), Body("contract", v), Body("contract", w)} :
          piece \notin {Body("places", v), Body("places", w)}
    BY <1>0, PiecesApart
  <2> QED
    BY <1>1, <2>1
<1>3. /\ IsSeq(text) /\ p + 1 \in DOMAIN text /\ c \in DOMAIN text /\ c + 1 \in DOMAIN text /\ c + 2 \in DOMAIN text
      /\ Spots(text, Body("places", v)) = {p + 1} /\ Spots(text, Body("contract", v)) = {c + 1}
      /\ Spots(text, Begin("contract")) = {c} /\ Spots(text, End("contract")) = {c + 2}
  BY DEF Placed
<1>4. Placed(first, "contract", v, c)
  <2>1. DOMAIN first = DOMAIN text
    BY <1>1
  <2>2. IsSeq(first)
    BY <1>1 DEF Placed
  <2> QED
    BY <1>2, <1>3, <2>1, <2>2 DEF Placed
<1>5. Spots(first, Body("contract", w)) \subseteq {c + 1}
  BY <1>2
<1>6. /\ out = [first EXCEPT ![c + 1] = Body("contract", w)]
      /\ out # Refused /\ Placed(out, "contract", w, c)
      /\ w # v => Spots(out, Body("contract", v)) = {}
      /\ ByHand(out) = ByHand(first)
      /\ \A piece : piece \notin {Body("contract", v), Body("contract", w)} => Spots(out, piece) = Spots(first, piece)
  BY <1>0, <1>4, <1>5, Renewed
<1> HIDE DEF out
<1>7. p + 1 # c + 1
  <2>1. Body("places", v) # Body("contract", v)
    BY <1>0, PiecesApart
  <2> QED
    BY <1>3, <2>1 DEF Spots
<1>8. /\ DOMAIN out = DOMAIN text
      /\ \A i \in DOMAIN text :
           out[i] = IF i = c + 1 THEN Body("contract", w) ELSE IF i = p + 1 THEN Body("places", w) ELSE text[i]
  BY <1>1, <1>6
<1>9. IsSeq(out)
  BY <1>6 DEF Placed
<1>10. Spots(out, Begin("places")) = Spots(first, Begin("places"))
       /\ Spots(out, End("places")) = Spots(first, End("places"))
       /\ Spots(out, Body("places", v)) = Spots(first, Body("places", v))
       /\ Spots(out, Body("places", w)) = Spots(first, Body("places", w))
  <2>1. \A piece \in {Begin("places"), End("places"), Body("places", v), Body("places", w)} :
          piece \notin {Body("contract", v), Body("contract", w)}
    BY <1>0, PiecesApart
  <2> QED
    BY <1>6, <2>1
<1>11. Placed(out, "places", w, p)
  <2>1. DOMAIN out = DOMAIN first
    BY <1>6
  <2> QED
    BY <1>1, <1>9, <1>10, <2>1 DEF Placed
<1>12. w # v => \A block \in Blocks : Spots(out, Body(block, v)) = {}
  BY <1>0, <1>1, <1>6, <1>10
<1>13. Point(text, w) = out
  BY <1>1, Zenon DEF Point, first, out
<1>14. /\ out # Refused /\ Placed(out, "places", w, p) /\ Placed(out, "contract", w, c)
       /\ w # v => \A block \in Blocks : Spots(out, Body(block, v)) = {}
       /\ ByHand(out) = ByHand(text)
       /\ DOMAIN out = DOMAIN text /\ p + 1 # c + 1
       /\ \A i \in DOMAIN text :
            out[i] = IF i = c + 1 THEN Body("contract", w) ELSE IF i = p + 1 THEN Body("places", w) ELSE text[i]
       /\ IsSeq(out)
  BY <1>1, <1>6, <1>7, <1>8, <1>9, <1>11, <1>12
<1> QED
  BY <1>13, <1>14

\* Pointing for the first time, at a version that the file does not hold.
LEMMA PointFirst ==
  ASSUME NEW text, IsSeq(text), NEW v, Point(text, v) # Refused,
         \A block \in Blocks : Spots(text, Body(block, v)) = {}
  PROVE  LET out == Point(text, v)
         IN /\ ByHand(out) = ByHand(text)
            /\ \E p, c : Placed(out, "places", v, p) /\ Placed(out, "contract", v, c)
            /\ \A w : \A block \in Blocks :
                 w # v /\ Spots(text, Body(block, w)) = {} => Spots(out, Body(block, w)) = {}
<1> DEFINE placed == Upsert(text, "places", v)
           out == Upsert(placed, "contract", v)
<1>0. "places" \in Blocks /\ "contract" \in Blocks /\ "places" # "contract"
  BY DEF Blocks
<1>1. placed # Refused /\ Point(text, v) = out
  BY Zenon DEF Point
<1>2. PICK b, e, p, d : Edited(text, placed, "places", v, b, e, p, d)
  BY <1>0, <1>1, UpsertEdits
<1> HIDE DEF placed
<1>3. Placed(placed, "places", v, p)
  BY <1>0, <1>2, EditPlaces
<1>4. Spots(placed, Body("contract", v)) = {}
  <2>1. Body("contract", v) \notin Range(Written("places", v)) \cup {LineEnd}
    BY <1>0, PiecesApart, RangeOfWritten
  <2> QED
    BY <1>0, <1>2, <2>1, EditBringsNothing
<1>5. IsSeq(placed) /\ out # Refused
  BY <1>1, <1>3 DEF Placed
<1>6. PICK b2, e2, c, d2 : Edited(placed, out, "contract", v, b2, e2, c, d2)
  BY <1>0, <1>5, UpsertEdits
<1> HIDE DEF out
<1>7. Placed(out, "contract", v, c)
  BY <1>0, <1>4, <1>6, EditPlaces
<1>8. PICK g : Placed(out, "places", v, g)
  BY <1>0, <1>3, <1>6, EditKeepsOther
<1>9. ByHand(placed) = ByHand(text) /\ ByHand(out) = ByHand(placed)
  BY <1>0, <1>2, <1>6, EditKeepsHand
<1>10. ASSUME NEW block \in Blocks, NEW w, w # v, Spots(text, Body(block, w)) = {}
       PROVE  Spots(out, Body(block, w)) = {}
  <2>1. \A other : Body(block, w) \notin Range(Written(other, v)) \cup {LineEnd}
    BY <1>10, PiecesApart, RangeOfWritten
  <2>2. Spots(placed, Body(block, w)) = {}
    BY <1>2, <1>10, <2>1, EditBringsNothing
  <2> QED
    BY <1>6, <2>1, <2>2, EditBringsNothing
<1> QED
  BY <1>1, <1>7, <1>8, <1>9, <1>10

\* The host's blocks cost no line of a file.
LEMMA FileKeepsItsHand ==
  ASSUME NEW text \in Files
  PROVE  LET pointed == Point(text, 1)
             newer == Point(pointed, 2)
         IN pointed # Refused =>
              /\ Point(pointed, 1) = pointed
              /\ newer # Refused /\ Point(newer, 1) = pointed
              /\ ByHand(pointed) = ByHand(text) /\ ByHand(newer) = ByHand(text)
              /\ \A block \in Blocks : Whole(newer, block) /\ Spots(newer, Body(block, 1)) = {}
<1> DEFINE pointed == Point(text, 1)
           newer == Point(pointed, 2)
           again == Point(pointed, 1)
           back == Point(newer, 1)
<1> SUFFICES ASSUME pointed # Refused
             PROVE  /\ again = pointed
                    /\ newer # Refused /\ back = pointed
                    /\ ByHand(pointed) = ByHand(text) /\ ByHand(newer) = ByHand(text)
                    /\ \A block \in Blocks : Whole(newer, block) /\ Spots(newer, Body(block, 1)) = {}
  OBVIOUS
<1>0. "places" \in Blocks /\ "contract" \in Blocks /\ Blocks = {"places", "contract"}
  BY DEF Blocks
<1>1. /\ IsSeq(text)
      /\ \A piece \in Range(text) :
           \/ piece \in Markers \cup {Body(block, 0) : block \in Blocks} \cup {LineEnd}
           \/ piece = Hand(piece[2])
  BY FilesAssumption
<1>2. ASSUME NEW block \in Blocks, NEW w \in {1, 2} PROVE Spots(text, Body(block, w)) = {}
  <2> SUFFICES ASSUME NEW i \in DOMAIN text, text[i] = Body(block, w) PROVE FALSE
    BY DEF Spots
  <2>1. text[i] \in Range(text)
    BY DEF Range
  <2>2. Body(block, w) \notin Markers /\ Body(block, w) # LineEnd
    BY PiecesApart DEF Markers
  <2>3. \A other : Body(block, w) # Body(other, 0)
    BY PiecesApart
  <2>4. \A line : Body(block, w) # Hand(line)
    BY DEF Body, Hand
  <2> QED
    BY <1>1, <2>1, <2>2, <2>3, <2>4
<1>3. /\ ByHand(pointed) = ByHand(text)
      /\ \E p, c : Placed(pointed, "places", 1, p) /\ Placed(pointed, "contract", 1, c)
      /\ \A w : \A block \in Blocks :
           w # 1 /\ Spots(text, Body(block, w)) = {} => Spots(pointed, Body(block, w)) = {}
  <2>1. \A block \in Blocks : Spots(text, Body(block, 1)) = {}
    BY <1>2
  <2> QED
    BY <1>1, <2>1, PointFirst
<1>4. PICK p, c : Placed(pointed, "places", 1, p) /\ Placed(pointed, "contract", 1, c)
  BY <1>3
<1>5. Spots(pointed, Body("places", 2)) = {} /\ Spots(pointed, Body("contract", 2)) = {}
  BY <1>0, <1>2, <1>3
<1>6. /\ IsSeq(pointed)
      /\ Spots(pointed, Body("places", 1)) = {p + 1} /\ Spots(pointed, Body("contract", 1)) = {c + 1}
  BY <1>4 DEF Placed
<1> HIDE DEF pointed
<1>7. /\ DOMAIN again = DOMAIN pointed /\ IsSeq(again)
      /\ \A i \in DOMAIN pointed :
           again[i] = IF i = c + 1 THEN Body("contract", 1) ELSE IF i = p + 1 THEN Body("places", 1) ELSE pointed[i]
  BY <1>4, <1>6, PointAgain
<1>8. /\ newer # Refused /\ Placed(newer, "places", 2, p) /\ Placed(newer, "contract", 2, c)
      /\ \A block \in Blocks : Spots(newer, Body(block, 1)) = {}
      /\ ByHand(newer) = ByHand(pointed)
      /\ DOMAIN newer = DOMAIN pointed
      /\ \A i \in DOMAIN pointed :
           newer[i] = IF i = c + 1 THEN Body("contract", 2) ELSE IF i = p + 1 THEN Body("places", 2) ELSE pointed[i]
  BY <1>4, <1>5, PointAgain
<1> HIDE DEF again, newer
<1>9. /\ DOMAIN back = DOMAIN newer /\ IsSeq(back)
      /\ \A i \in DOMAIN newer :
           back[i] = IF i = c + 1 THEN Body("contract", 1) ELSE IF i = p + 1 THEN Body("places", 1) ELSE newer[i]
  BY <1>0, <1>8, PointAgain
<1> HIDE DEF back
<1>10. ASSUME NEW out, IsSeq(out), DOMAIN out = DOMAIN pointed, \A i \in DOMAIN pointed : out[i] = pointed[i]
       PROVE  out = pointed
  <2> DEFINE T == Range(pointed)
  <2>1. Len(out) \in Nat /\ DOMAIN out = 1..Len(out) /\ Len(pointed) \in Nat /\ DOMAIN pointed = 1..Len(pointed)
    BY <1>6, <1>10, SeqDomain
  <2>2. Range(out) = T
    BY <1>10 DEF Range
  <2>3. out \in Seq(T) /\ pointed \in Seq(T)
    BY <1>6, <1>10, <2>2 DEF IsSeq
  <2>4. Len(out) = Len(pointed)
    <3> DEFINE n == Len(out)
               m == Len(pointed)
    <3>1. n \in Nat /\ m \in Nat /\ 1..n = 1..m
      BY <1>10, <2>1
    <3> HIDE DEF n, m
    <3>2. n = m
      BY <3>1
    <3> QED
      BY <3>2 DEF n, m
  <2> HIDE DEF T
  <2> QED
    BY <1>10, <2>1, <2>3, <2>4, SeqEqual
<1>11. pointed[p + 1] = Body("places", 1) /\ pointed[c + 1] = Body("contract", 1)
  BY <1>6 DEF Spots
<1>12. again = pointed
  <2>1. \A i \in DOMAIN pointed : again[i] = pointed[i]
    BY <1>7, <1>11
  <2> QED
    BY <1>7, <1>10, <2>1
<1>13. back = pointed
  <2>1. \A i \in DOMAIN pointed : back[i] = pointed[i]
    BY <1>8, <1>9, <1>11
  <2> QED
    BY <1>8, <1>9, <1>10, <2>1
<1>14. \A block \in Blocks : Whole(newer, block)
  BY <1>0, <1>8, UpsertAgain
<1> QED
  BY <1>3, <1>8, <1>12, <1>13, <1>14

\* Both blocks of startup.md come and go without a line of what people wrote.
THEOREM HandTextStaysHolds == TextsSpec => []HandTextStays
<1>1. TakenFrom => HandTextStays
  BY FileKeepsItsHand, Zenon DEF TakenFrom, HandTextStays
<1> QED
  BY <1>1, TakenFromHolds, PTL

-----------------------------------------------------------------------------
(* ---------------------------- mentions --------------------------------- *)

\* What stands at some places of a sequence.
StandingAt(s, P) == {s[i] : i \in P}

\* What is picked is what stands at those places.
LEMMA PickedRange ==
  ASSUME NEW n \in Nat, NEW P, P \subseteq 1..n, NEW s
  PROVE  /\ Cardinality(P) \in Nat /\ DOMAIN Picked(s, P) = 1..Cardinality(P)
         /\ Range(Picked(s, P)) = StandingAt(s, P)
<1> DEFINE picked == Picked(s, P)
           m == Cardinality(P)
<1>1. m \in Nat
  <2>1. IsFiniteSet(1..n)
    BY FS_Interval
  <2>2. IsFiniteSet(P)
    BY <2>1, FS_Subset
  <2> QED
    BY <2>2, FS_CardinalityType
<1>2. DOMAIN picked = 1..m /\ \A k \in 1..m : picked[k] = s[Nth(P, k)]
  BY DEF Picked
<1>3. \A k \in 1..m : Nth(P, k) \in P
  BY NthIs
<1>4. ASSUME NEW i \in P PROVE \E k \in 1..m : Nth(P, k) = i
  BY NthOfMember
<1> HIDE DEF picked, m
<1>5. \A i \in P : s[i] \in Range(picked)
  BY <1>2, <1>4 DEF Range
<1>6. \A x \in Range(picked) : \E i \in P : x = s[i]
  BY <1>2, <1>3 DEF Range
<1>7. Range(picked) = StandingAt(s, P)
  BY <1>5, <1>6 DEF StandingAt
<1> QED
  BY <1>1, <1>2, <1>7 DEF picked, m

\* A sequence without its repetitions holds each element once, the first first.
LEMMA OnceIs ==
  ASSUME NEW s, IsSeq(s)
  PROVE  LET once == Once(s)
         IN /\ IsSeq(once) /\ Range(once) = Range(s) /\ IsInjective(once)
            /\ s # <<>> => once # <<>> /\ once[1] = s[1]
<1> DEFINE F == {i \in DOMAIN s : \A j \in DOMAIN s : j < i => s[j] # s[i]}
           once == Picked(s, F)
           n == Len(s)
<1>1. n \in Nat /\ DOMAIN s = 1..n /\ F \subseteq 1..n
  BY SeqDomain
<1>2. /\ Cardinality(F) \in Nat /\ DOMAIN once = 1..Cardinality(F)
      /\ \A i \in F : s[i] \in Range(once)
      /\ \A x \in Range(once) : \E i \in F : x = s[i]
  <2>1. n \in Nat /\ F \subseteq 1..n
    BY <1>1
  <2> HIDE DEF F, n
  <2>2. /\ Cardinality(F) \in Nat /\ DOMAIN Picked(s, F) = 1..Cardinality(F)
        /\ Range(Picked(s, F)) = StandingAt(s, F)
    BY <2>1, PickedRange
  <2> QED
    BY <2>2 DEF StandingAt
<1>3. \A i \in F : s[i] \in Range(s)
  BY DEF Range
<1>4. once \in Seq(Range(s)) /\ (F # {} => once # <<>> /\ once[1] = s[Min(F)] /\ Min(F) \in F /\ \A i \in F : Min(F) <= i)
  <2> DEFINE T == Range(s)
  <2>1. F \subseteq DOMAIN s /\ \A i \in F : s[i] \in T
    BY <1>3
  <2> HIDE DEF F, T
  <2> QED
    BY <2>1, PickedIs DEF T
<1>5. ASSUME NEW i \in DOMAIN s PROVE \E j \in F : s[j] = s[i]
  <2> DEFINE E == {j \in DOMAIN s : s[j] = s[i]}
  <2>1. E \subseteq Nat /\ E # {}
    BY <1>1
  <2>2. PICK j : j = Min(E)
    OBVIOUS
  <2> HIDE DEF E
  <2>3. j \in E /\ \A k \in E : j <= k
    BY <2>1, <2>2, LeastMember
  <2>4. ASSUME NEW k \in DOMAIN s, k < j PROVE s[k] # s[j]
    <3>1. k \notin E
      BY <1>1, <2>1, <2>3, <2>4
    <3> QED
      BY <2>3, <3>1 DEF E
  <2>5. j \in F /\ s[j] = s[i]
    BY <2>3, <2>4 DEF E
  <2> QED
    BY <2>5
<1>6. Range(once) = Range(s)
  <2>1. \A i \in F : i \in DOMAIN s
    OBVIOUS
  <2> HIDE DEF F, once
  <2>2. \A i \in DOMAIN s : s[i] \in Range(once)
    BY <1>2, <1>5
  <2>3. \A x \in Range(once) : \E i \in DOMAIN s : x = s[i]
    BY <1>2, <2>1
  <2> QED
    BY <2>2, <2>3 DEF Range
<1>7. IsSeq(once)
  BY <1>4, <1>6 DEF IsSeq
<1>8. IsInjective(once)
  <2> SUFFICES ASSUME NEW a \in DOMAIN once, NEW b \in DOMAIN once, once[a] = once[b] PROVE a = b
    BY DEF IsInjective
  <2>1. once[a] = s[Nth(F, a)] /\ once[b] = s[Nth(F, b)]
    BY DEF Picked
  <2>2. /\ Nth(F, a) \in F /\ Cardinality({j \in F : j <= Nth(F, a)}) = a
        /\ Nth(F, b) \in F /\ Cardinality({j \in F : j <= Nth(F, b)}) = b
    <3>1. a \in 1..Cardinality(F) /\ b \in 1..Cardinality(F)
      BY <1>2
    <3> HIDE DEF F
    <3> QED
      BY <1>1, <3>1, NthIs
  <2>3. Nth(F, a) = Nth(F, b)
    <3> DEFINE x == Nth(F, a)
               y == Nth(F, b)
    <3> HIDE DEF x, y
    <3>1. x \in F /\ y \in F /\ s[x] = s[y]
      BY <2>1, <2>2 DEF x, y
    <3>2. x \in Nat /\ y \in Nat /\ ~(x < y) /\ ~(y < x)
      BY <1>1, <3>1
    <3>3. x = y
      BY <3>2
    <3> QED
      BY <3>3 DEF x, y
  <2> QED
    BY <2>2, <2>3
<1>9. s # <<>> => once # <<>> /\ once[1] = s[1]
  <2> SUFFICES ASSUME s # <<>> PROVE once # <<>> /\ once[1] = s[1]
    OBVIOUS
  <2>1. 1 \in F
    <3>1. n # 0
      <4>1. s \in Seq(Range(s))
        BY DEF IsSeq
      <4> QED
        BY <4>1, EmptySeq
    <3>2. 1 \in DOMAIN s
      BY <1>1, <3>1
    <3>3. \A j \in DOMAIN s : ~(j < 1)
      BY <1>1
    <3> QED
      BY <3>2, <3>3
  <2>2. PICK x : x = Min(F)
    OBVIOUS
  <2>3. x \in F /\ x <= 1 /\ once # <<>> /\ once[1] = s[x]
    <3> HIDE DEF F, once
    <3> QED
      BY <1>4, <2>1, <2>2
  <2>4. x \in Nat /\ x >= 1
    BY <1>1, <2>3
  <2>5. x = 1
    BY <2>3, <2>4
  <2> QED
    BY <2>3, <2>5
<1>10. Once(s) = once
  BY DEF Once
<1> QED
  BY <1>6, <1>7, <1>8, <1>9, <1>10

\* No more than the cap, from the front.
LEMMA AtMostIs ==
  ASSUME NEW people, IsSeq(people), IsInjective(people)
  PROVE  LET capped == AtMost(people)
         IN /\ Len(capped) <= MaxMentions /\ IsInjective(capped) /\ Range(capped) \subseteq Range(people)
            /\ people # <<>> => capped[1] = people[1]
            /\ Len(capped) = MaxMentions \/ capped = people
<1> DEFINE n == Len(people)
           m == IF n < MaxMentions THEN n ELSE MaxMentions
           capped == SubSeq(people, 1, m)
<1>1. n \in Nat /\ DOMAIN people = 1..n /\ MaxMentions \in Nat \ {0}
  BY SeqDomain, AnswersAssumption
<1>2. m \in Nat /\ m <= n /\ m <= MaxMentions /\ (m = n \/ m = MaxMentions) /\ (n # 0 => m # 0)
  BY <1>1
<1>3. people \in Seq(Range(people))
  BY DEF IsSeq
<1>4. \A i \in 1..m : people[i] \in Range(people)
  BY <1>1, <1>2 DEF Range
<1>5. AtMost(people) = capped
  BY DEF AtMost
<1> HIDE DEF m
<1>6. capped \in Seq(Range(people)) /\ Len(capped) = m /\ \A i \in 1..m : capped[i] = people[i]
  <2>1. /\ capped \in Seq(Range(people)) /\ Len(capped) = IF 1 <= m THEN m - 1 + 1 ELSE 0
        /\ \A i \in 1..m - 1 + 1 : capped[i] = people[1 + i - 1]
    BY <1>2, <1>4, SubSeqProperties
  <2>2. m - 1 + 1 = m /\ \A i \in 1..m : 1 + i - 1 = i
    BY <1>2
  <2> HIDE DEF capped
  <2> QED
    BY <1>2, <2>1, <2>2
<1> HIDE DEF capped
<1>7. DOMAIN capped = 1..m
  BY <1>6
<1>8. IsInjective(capped)
  <2>1. \A i \in 1..m : i \in DOMAIN people
    <3> HIDE DEF n
    <3> QED
      BY <1>1, <1>2
  <2> QED
    BY <1>6, <1>7, <2>1 DEF IsInjective
<1>9. Range(capped) \subseteq Range(people)
  BY <1>4, <1>6, <1>7 DEF Range
<1>10. people # <<>> => capped[1] = people[1]
  <2> SUFFICES ASSUME people # <<>> PROVE capped[1] = people[1]
    OBVIOUS
  <2>1. n # 0
    BY <1>3, EmptySeq
  <2>2. 1 \in 1..m
    BY <1>2, <2>1
  <2> QED
    BY <1>6, <2>2
<1>11. m = n => capped = people
  <2> SUFFICES ASSUME m = n PROVE capped = people
    OBVIOUS
  <2> HIDE DEF n
  <2> QED
    BY <1>3, <1>6, SeqEqual DEF n
<1> QED
  BY <1>2, <1>5, <1>6, <1>8, <1>9, <1>10, <1>11

\* `g` leads from one of S to one of S at each number up to n.
Leads(g, S, n) == n \in Nat /\ g \in [S \X (1..n) -> S]

\* A function by recursion on the numbers up to n: it exists.
LEMMA Iterated ==
  ASSUME NEW S, NEW x \in S, NEW n, NEW g, Leads(g, S, n)
  PROVE  \E f \in [0..n -> S] : f[0] = x /\ \A i \in 1..n : f[i] = g[<<f[i - 1], i>>]
<1>0. n \in Nat /\ g \in [S \X (1..n) -> S]
  BY DEF Leads
<1> USE <1>0
<1> DEFINE Good(m, f) == f \in [0..m -> S] /\ f[0] = x /\ \A i \in 1..m : f[i] = g[<<f[i - 1], i>>]
           Bad == {m \in 0..n : \A f : ~Good(m, f)}
<1> SUFFICES ASSUME Bad # {} PROVE FALSE
  <2>1. n \in 0..n
    OBVIOUS
  <2>2. Bad = {} => \E f : Good(n, f)
    BY <2>1
  <2> QED
    BY <2>2
<1>1. Bad \subseteq Nat
  OBVIOUS
<1>2. PICK m : m = Min(Bad)
  OBVIOUS
<1>3. m \in Bad /\ \A k \in Bad : m <= k
  <2> HIDE DEF Bad
  <2> QED
    BY <1>1, <1>2, LeastMember
<1>4. m # 0
  <2> SUFFICES ASSUME m = 0 PROVE FALSE
    OBVIOUS
  <2>1. Good(0, [i \in 0..0 |-> x])
    OBVIOUS
  <2> QED
    BY <1>3, <2>1
<1>5. m \in Nat /\ m - 1 \in 0..n /\ ~(m <= m - 1) /\ m \in 1..n
  BY <1>3, <1>4
<1>6. m - 1 \notin Bad
  <2> HIDE DEF Bad
  <2> QED
    BY <1>3, <1>5
<1>7. PICK f : Good(m - 1, f)
  BY <1>5, <1>6
<1> DEFINE next == [i \in 0..m |-> IF i = m THEN g[<<f[m - 1], m>>] ELSE f[i]]
<1>8. f[m - 1] \in S
  <2>1. m - 1 \in 0..(m - 1)
    BY <1>5
  <2> QED
    BY <1>7, <2>1
<1>9. g[<<f[m - 1], m>>] \in S
  BY <1>5, <1>8
<1>10. next \in [0..m -> S]
  <2>1. ASSUME NEW i \in 0..m, i # m PROVE f[i] \in S
    <3>1. i \in 0..(m - 1)
      BY <1>5, <2>1
    <3> QED
      BY <1>7, <3>1
  <2> QED
    BY <1>9, <2>1
<1>11. next[0] = x
  BY <1>4, <1>5, <1>7
<1>12. ASSUME NEW i \in 1..m PROVE next[i] = g[<<next[i - 1], i>>]
  <2>1. i - 1 \in 0..m /\ i - 1 # m /\ i \in 0..m
    BY <1>5
  <2>2. next[i - 1] = f[i - 1]
    BY <2>1
  <2>3. CASE i = m
    BY <2>1, <2>2, <2>3
  <2>4. CASE i # m
    <3>1. i \in 1..(m - 1)
      BY <1>5, <2>4
    <3>2. f[i] = g[<<f[i - 1], i>>]
      BY <1>7, <3>1
    <3> QED
      BY <2>1, <2>2, <2>4, <3>2
  <2> QED
    BY <2>3, <2>4
<1>13. Good(m, next)
  <2> HIDE DEF next
  <2> QED
    BY <1>10, <1>11, <1>12
<1> QED
  BY <1>3, <1>13

\* What is on the tokens of a text: the fence that is open, and the end of the
\* last span.
LEMMA FencesAre ==
  ASSUME NEW text, IsSeq(text)
  PROVE  LET fence == Fences(text)
         IN /\ fence[0] = NoFence
            /\ \A i \in 1..Len(text) : fence[i] = NextFence(text, fence[i - 1], i)
<1> DEFINE n == Len(text)
           S == Range(text) \cup {NoFence}
           g == [pair \in S \X (1..n) |-> NextFence(text, pair[1], pair[2])]
           Is(f) == f = [i \in 0..n |-> IF i = 0 THEN NoFence ELSE NextFence(text, f[i - 1], i)]
<1>1. n \in Nat /\ DOMAIN text = 1..n
  BY SeqDomain
<1>2. \A i \in 1..n : text[i] \in S
  BY <1>1 DEF Range
<1>3. NoFence \in S
  OBVIOUS
<1> HIDE DEF S
<1>4. \A s \in S : \A i \in 1..n : NextFence(text, s, i) \in S
  BY <1>2, <1>3 DEF NextFence
<1>5. g \in [S \X (1..n) -> S]
  BY <1>4
<1>6. \A s \in S : \A i \in 1..n : g[<<s, i>>] = NextFence(text, s, i)
  OBVIOUS
<1> HIDE DEF g
<1>7. PICK f \in [0..n -> S] : f[0] = NoFence /\ \A i \in 1..n : f[i] = g[<<f[i - 1], i>>]
  <2>1. Leads(g, S, n)
    BY <1>1, <1>5 DEF Leads
  <2> HIDE DEF n
  <2> QED
    BY <1>3, <2>1, Iterated
<1>8. \A i \in 1..n : f[i] = NextFence(text, f[i - 1], i)
  <2> SUFFICES ASSUME NEW i \in 1..n PROVE f[i] = NextFence(text, f[i - 1], i)
    OBVIOUS
  <2>1. i - 1 \in 0..n
    BY <1>1
  <2>2. f[i - 1] \in S
    BY <2>1
  <2> QED
    BY <1>6, <1>7, <2>2
<1>9. Is(f)
  <2> DEFINE h == [i \in 0..n |-> IF i = 0 THEN NoFence ELSE NextFence(text, f[i - 1], i)]
  <2>1. \A i \in 0..n : f[i] = h[i]
    <3>1. \A i \in 0..n : i = 0 \/ i \in 1..n
      BY <1>1
    <3> QED
      BY <1>7, <1>8, <3>1
  <2>2. f = [i \in 0..n |-> f[i]] /\ h = [i \in 0..n |-> h[i]]
    BY <1>7
  <2> HIDE DEF h
  <2>3. f = h
    BY <2>1, <2>2
  <2> QED
    BY <2>3 DEF h
<1>10. Fences(text) = CHOOSE h : Is(h)
  BY DEF Fences
<1>11. Is(Fences(text))
  BY <1>9, <1>10
<1>12. \A h : Is(h) => h[0] = NoFence /\ \A i \in 1..n : h[i] = NextFence(text, h[i - 1], i)
  <2> SUFFICES ASSUME NEW h, Is(h) PROVE h[0] = NoFence /\ \A i \in 1..n : h[i] = NextFence(text, h[i - 1], i)
    OBVIOUS
  <2>1. \A i \in 0..n : h[i] = IF i = 0 THEN NoFence ELSE NextFence(text, h[i - 1], i)
    OBVIOUS
  <2>2. 0 \in 0..n /\ \A i \in 1..n : i \in 0..n /\ i # 0
    BY <1>1
  <2> QED
    BY <2>1, <2>2
<1> QED
  BY <1>11, <1>12

\* A set of numbers that has a member has a least one.
LEMMA LeastIs ==
  ASSUME NEW T, T \subseteq Nat, T # {}
  PROVE  Least(T) \in T /\ \A j \in T : Least(T) <= j
<1>1. Min(T) \in T /\ \A y \in T : Min(T) <= y
  BY LeastMember
<1>2. \E i \in T : \A j \in T : i <= j
  BY <1>1
<1> QED
  BY <1>2, Zenon DEF Least

\* Where spans end is given token by token.
LEMMA SpanEndsAre ==
  ASSUME NEW text, IsSeq(text)
  PROVE  LET end == SpanEnds(text)
         IN /\ end[0] = 0
            /\ \A i \in 0..Len(text) : end[i] \in Nat
            /\ \A i \in 1..Len(text) : end[i] = NextEnd(text, end[i - 1], i)
<1> DEFINE n == Len(text)
           S == 0..n
           g == [pair \in S \X (1..n) |-> NextEnd(text, pair[1], pair[2])]
           Is(f) == f = [i \in 0..n |-> IF i = 0 THEN 0 ELSE NextEnd(text, f[i - 1], i)]
<1>1. n \in Nat /\ DOMAIN text = 1..n
  BY SeqDomain
<1>2. ASSUME NEW i \in 1..n, Partners(text, i) # {} PROVE Least(Partners(text, i)) \in S
  <2>1. Partners(text, i) \subseteq S /\ Partners(text, i) \subseteq Nat
    BY <1>1 DEF Partners
  <2> HIDE DEF S
  <2> QED
    BY <1>2, <2>1, LeastIs
<1>3. 0 \in S
  BY <1>1
<1>03. \A s \in S : s \in Nat
  OBVIOUS
<1> HIDE DEF S
<1>4. \A s \in S : \A i \in 1..n : NextEnd(text, s, i) \in S
  BY <1>2 DEF NextEnd, Opener
<1>5. g \in [S \X (1..n) -> S]
  BY <1>4
<1>6. \A s \in S : \A i \in 1..n : g[<<s, i>>] = NextEnd(text, s, i)
  OBVIOUS
<1> HIDE DEF g
<1>7. PICK f \in [0..n -> S] : f[0] = 0 /\ \A i \in 1..n : f[i] = g[<<f[i - 1], i>>]
  <2>1. Leads(g, S, n)
    BY <1>1, <1>5 DEF Leads
  <2> HIDE DEF n
  <2> QED
    BY <1>3, <2>1, Iterated
<1>8. \A i \in 1..n : f[i] = NextEnd(text, f[i - 1], i)
  <2> SUFFICES ASSUME NEW i \in 1..n PROVE f[i] = NextEnd(text, f[i - 1], i)
    OBVIOUS
  <2>1. i - 1 \in 0..n
    BY <1>1
  <2>2. f[i - 1] \in S
    BY <2>1
  <2> QED
    BY <1>6, <1>7, <2>2
<1>9. Is(f)
  <2> DEFINE h == [i \in 0..n |-> IF i = 0 THEN 0 ELSE NextEnd(text, f[i - 1], i)]
  <2>1. \A i \in 0..n : f[i] = h[i]
    <3>1. \A i \in 0..n : i = 0 \/ i \in 1..n
      BY <1>1
    <3> QED
      BY <1>7, <1>8, <3>1
  <2>2. f = [i \in 0..n |-> f[i]] /\ h = [i \in 0..n |-> h[i]]
    BY <1>7
  <2> HIDE DEF h
  <2>3. f = h
    BY <2>1, <2>2
  <2> QED
    BY <2>3 DEF h
<1>10. SpanEnds(text) = CHOOSE h : Is(h)
  BY DEF SpanEnds
<1>11. Is(SpanEnds(text))
  BY <1>9, <1>10
<1>12. ASSUME NEW h, Is(h)
       PROVE  h[0] = 0 /\ \A i \in 1..n : h[i] = NextEnd(text, h[i - 1], i)
  <2>1. \A i \in 0..n : h[i] = IF i = 0 THEN 0 ELSE NextEnd(text, h[i - 1], i)
    BY <1>12
  <2>2. 0 \in 0..n /\ \A i \in 1..n : i \in 0..n /\ i # 0
    BY <1>1
  <2> QED
    BY <2>1, <2>2
<1>13. ASSUME NEW h, h[0] = 0, \A i \in 1..n : h[i] = NextEnd(text, h[i - 1], i)
       PROVE  \A i \in 0..n : h[i] \in S
  <2> DEFINE Bad == {i \in 0..n : h[i] \notin S}
  <2> SUFFICES ASSUME Bad # {} PROVE FALSE
    OBVIOUS
  <2>1. Bad \subseteq Nat
    OBVIOUS
  <2>2. PICK i : i = Min(Bad)
    OBVIOUS
  <2>3. i \in Bad /\ \A k \in Bad : i <= k
    <3> HIDE DEF Bad
    <3> QED
      BY <2>1, <2>2, LeastMember
  <2>4. i # 0
    BY <1>3, <1>13, <2>3
  <2>5. i \in 1..n /\ i - 1 \in 0..n /\ ~(i <= i - 1)
    BY <1>1, <2>3, <2>4
  <2>6. h[i - 1] \in S
    BY <2>3, <2>5
  <2>7. h[i] \in S
    BY <1>4, <1>13, <2>5, <2>6
  <2> QED
    BY <2>3, <2>7
<1> QED
  <2> DEFINE end == SpanEnds(text)
  <2>1. Is(end)
    BY <1>11
  <2> HIDE DEF end
  <2>2. end[0] = 0 /\ \A i \in 1..n : end[i] = NextEnd(text, end[i - 1], i)
    BY <2>1, <1>12
  <2>3. \A i \in 0..n : end[i] \in S
    BY <2>2, <1>13
  <2> QED
    BY <1>03, <2>2, <2>3 DEF end

\* Each token is on a line, which begins with a token of its own.
LEMMA LineBegins ==
  ASSUME NEW text, IsSeq(text), NEW i \in DOMAIN text
  PROVE  LET s == LineOf(text, i)
         IN /\ s \in 1..i /\ s \in DOMAIN text /\ Begins(text, s)
            /\ \A k \in 1..i : Begins(text, k) => k <= s
<1> DEFINE T == {k \in 1..i : Begins(text, k)}
<1>1. Len(text) \in Nat /\ DOMAIN text = 1..Len(text)
  BY SeqDomain
<1>2. 1 \in T /\ i \in Nat
  BY <1>1 DEF Begins
<1>3. T \subseteq 0..i
  OBVIOUS
<1>4. PICK s : s = Max(T)
  OBVIOUS
<1>5. s \in T /\ \A k \in T : s >= k
  <2> HIDE DEF T
  <2> QED
    BY <1>2, <1>3, <1>4, GreatestMember
<1>6. LineOf(text, i) = s
  BY <1>4 DEF LineOf
<1>7. s \in 1..i /\ Begins(text, s) /\ \A k \in 1..i : Begins(text, k) => k <= s
  BY <1>5
<1>8. s \in DOMAIN text
  BY <1>7 DEF Begins
<1> QED
  BY <1>6, <1>7, <1>8

\* Tokens of a line that follow each other have the same beginning.
LEMMA SameLine ==
  ASSUME NEW text, IsSeq(text), NEW i \in DOMAIN text, i + 1 \in DOMAIN text, text[i] # Break
  PROVE  LineOf(text, i + 1) = LineOf(text, i)
<1> DEFINE s == LineOf(text, i)
           t == LineOf(text, i + 1)
<1>1. Len(text) \in Nat /\ DOMAIN text = 1..Len(text)
  BY SeqDomain
<1>2. s \in 1..i /\ Begins(text, s) /\ \A k \in 1..i : Begins(text, k) => k <= s
  BY LineBegins
<1>3. t \in 1..(i + 1) /\ Begins(text, t) /\ \A k \in 1..(i + 1) : Begins(text, k) => k <= t
  BY LineBegins
<1> HIDE DEF s, t
<1>4. i \in Nat /\ i >= 1 /\ (i + 1) - 1 = i /\ i + 1 # 1
  BY <1>1
<1>5. ~Begins(text, i + 1)
  BY <1>4 DEF Begins
<1>6. t # i + 1
  BY <1>3, <1>5
<1>7. t \in 1..i /\ s \in 1..(i + 1)
  BY <1>2, <1>3, <1>4, <1>6
<1>8. t <= s /\ s <= t
  BY <1>2, <1>3, <1>7
<1>9. t = s
  BY <1>2, <1>3, <1>4, <1>8
<1> QED
  BY <1>9 DEF s, t

\* Masking leaves a token or puts a blank in its place.
LEMMA MaskedIs ==
  ASSUME NEW text, IsSeq(text)
  PROVE  LET unfenced == WithoutFences(text)
             masked == Masked(text)
         IN /\ IsSeq(unfenced) /\ Len(unfenced) = Len(text)
            /\ DOMAIN unfenced = DOMAIN text /\ DOMAIN masked = DOMAIN text /\ Len(masked) = Len(text)
            /\ \A i \in DOMAIN text : unfenced[i] = IF i \in Fenced(text) THEN Blank ELSE text[i]
            /\ \A i \in DOMAIN text : masked[i] = IF i \in Spanned(unfenced) THEN Blank ELSE unfenced[i]
<1> DEFINE unfenced == WithoutFences(text)
           masked == Masked(text)
           fenced == Fenced(text)
           spanned == Spanned(unfenced)
<1>1. Len(text) \in Nat /\ DOMAIN text = 1..Len(text)
  BY SeqDomain
<1>2. unfenced = [i \in 1..Len(text) |-> IF i \in fenced THEN Blank ELSE text[i]]
  BY <1>1 DEF WithoutFences, Without
<1> HIDE DEF fenced, unfenced
<1>3. /\ Len(unfenced) = Len(text) /\ DOMAIN unfenced = 1..Len(text)
      /\ \A i \in 1..Len(text) : unfenced[i] = IF i \in fenced THEN Blank ELSE text[i]
  BY <1>1, <1>2
<1>4. IsSeq(unfenced)
  <2> DEFINE T == Range(text) \cup {Blank}
  <2>1. \A i \in 1..Len(text) : (IF i \in fenced THEN Blank ELSE text[i]) \in T
    BY <1>1 DEF Range
  <2> HIDE DEF T
  <2>2. unfenced \in Seq(T)
    BY <1>1, <1>2, <2>1, IsASeq
  <2> QED
    BY <2>2, SeqOfItsRange
<1>5. masked = [i \in 1..Len(text) |-> IF i \in spanned THEN Blank ELSE unfenced[i]]
  <2>1. masked = Without(unfenced, spanned)
    BY Zenon DEF Masked, unfenced
  <2> QED
    BY <1>3, <2>1 DEF Without
<1> HIDE DEF masked, spanned
<1>6. /\ DOMAIN masked = 1..Len(text) /\ Len(masked) = Len(text)
      /\ \A i \in 1..Len(text) : masked[i] = IF i \in spanned THEN Blank ELSE unfenced[i]
  BY <1>1, <1>5
<1> QED
  BY <1>1, <1>3, <1>4, <1>6 DEF unfenced, masked, fenced, spanned

\* Signs tell tokens apart.
LEMMA TokensApart ==
  /\ At # Blank /\ At # Break /\ Blank # Break /\ Indent # Break /\ At.is = "at" /\ Blank.is = "blank" /\ Break.is = "break"
  /\ ~IsRun(At) /\ ~IsRun(Blank)
  /\ \A name : name \notin Signs => Name(name) # Break /\ Name(name) # Blank /\ Name(name) # At /\ ~IsRun(Name(name))
<1>1. /\ At.is = "at" /\ Blank.is = "blank" /\ Break.is = "break" /\ Indent.is = "indent"
      /\ \A name : Name(name).is = name
  BY DEF At, Blank, Break, Indent, Name
<1>2. /\ At # Blank /\ At # Break /\ Blank # Break /\ Indent # Break
  BY <1>1
<1>3. ~IsRun(At) /\ ~IsRun(Blank)
  BY <1>1 DEF IsRun
<1>4. ASSUME NEW name, name \notin Signs
      PROVE  Name(name) # Break /\ Name(name) # Blank /\ Name(name) # At /\ ~IsRun(Name(name))
  <2>1. name \notin {"ticks", "escaped", "break", "blank", "at"}
    BY <1>4 DEF Signs
  <2> QED
    BY <1>1, <2>1 DEF IsRun
<1> QED
  BY <1>1, <1>2, <1>3, <1>4

\* A sign that is left has its name behind it.
LEMMA NamesStayWithTheirSign ==
  ASSUME NEW text, IsSeq(text), NEW i \in DOMAIN text, Masked(text)[i] = At,
         NEW alias, IsSeq(alias), Range(alias) \cap Signs = {}, Fits(text, i, alias)
  PROVE  Fits(Masked(text), i, alias)
<1> DEFINE U == WithoutFences(text)
           M == Masked(text)
           n == Len(text)
           m == Len(alias)
           end == SpanEnds(U)
           fence == Fences(text)
<1>1. n \in Nat /\ DOMAIN text = 1..n /\ m \in Nat /\ DOMAIN alias = 1..m
  BY SeqDomain
<1>2. /\ IsSeq(U) /\ Len(U) = n
      /\ DOMAIN U = DOMAIN text /\ DOMAIN M = DOMAIN text /\ Len(M) = n
      /\ \A k \in DOMAIN text : U[k] = IF k \in Fenced(text) THEN Blank ELSE text[k]
      /\ \A k \in DOMAIN text : M[k] = IF k \in Spanned(U) THEN Blank ELSE U[k]
  BY MaskedIs
<1>3. /\ \A k \in 0..n : end[k] \in Nat
      /\ \A k \in 1..n : end[k] = NextEnd(U, end[k - 1], k)
  <2>1. LET last == SpanEnds(U)
        IN /\ last[0] = 0
           /\ \A k \in 0..Len(U) : last[k] \in Nat
           /\ \A k \in 1..Len(U) : last[k] = NextEnd(U, last[k - 1], k)
    BY <1>2, SpanEndsAre
  <2> HIDE DEF U, n
  <2> QED
    BY <1>2, <2>1
<1>4. Fenced(text) = {k \in DOMAIN text : text[k] # Break /\ IsCode(text, fence, LineOf(text, k))}
  BY DEF Fenced
<1>5. Spanned(U) = {k \in DOMAIN U : U[k] # Break /\ k <= end[k]}
  BY DEF Spanned
<1>6. i + m <= n /\ \A k \in 1..m : text[i + k] = Name(alias[k])
  BY <1>1 DEF Fits
<1>7. \A k \in 1..m : alias[k] \notin Signs
  BY <1>1 DEF Range
<1> HIDE DEF U, M, end, fence, n, m
<1>8. M[i] = At
  BY DEF M
<1>9. i \notin Fenced(text) /\ i \notin Spanned(U) /\ U[i] = At /\ text[i] = At
  BY <1>2, <1>8, TokensApart
<1>10. ~IsCode(text, fence, LineOf(text, i)) /\ ~(i <= end[i])
  BY <1>2, <1>4, <1>5, <1>9, TokensApart
<1>11. i \in Nat /\ i >= 1 /\ \A k \in 0..m : i + k \in 1..n /\ i + k \in 0..n
  BY <1>1, <1>6
<1> DEFINE Good(k) == LineOf(text, i + k) = LineOf(text, i) /\ end[i + k] = end[i] /\ U[i + k] = text[i + k]
           Bad == {k \in 0..m : ~Good(k)}
<1>12. Bad = {}
  <2> SUFFICES ASSUME Bad # {} PROVE FALSE
    OBVIOUS
  <2>1. Bad \subseteq Nat
    OBVIOUS
  <2>2. PICK k : k = Min(Bad)
    OBVIOUS
  <2>3. k \in Bad /\ \A l \in Bad : k <= l
    <3> HIDE DEF Bad
    <3> QED
      BY <2>1, <2>2, LeastMember
  <2>4. k # 0
    <3>1. i + 0 = i
      BY <1>11
    <3>2. Good(0)
      BY <1>9, <3>1
    <3> QED
      BY <2>3, <3>2
  <2>5. k \in 1..m /\ k - 1 \in 0..m /\ ~(k <= k - 1) /\ k \in Nat
    BY <1>1, <2>3, <2>4
  <2>6. Good(k - 1)
    BY <2>3, <2>5
  <2> DEFINE j == i + (k - 1)
  <2>7. j \in 1..n /\ j + 1 \in 1..n /\ j + 1 = i + k /\ (j + 1) - 1 = j
    BY <1>11, <2>5
  <2>8. LineOf(text, j) = LineOf(text, i) /\ end[j] = end[i]
    BY <2>6
  <2>9. text[j] # Break
    <3>1. CASE k = 1
      <4>1. j = i
        BY <1>11, <3>1
      <4> QED
        BY <1>9, <4>1, TokensApart
    <3>2. CASE k # 1
      <4>1. k - 1 \in 1..m
        BY <2>5, <3>2
      <4> QED
        BY <1>6, <1>7, <4>1, TokensApart
    <3> QED
      BY <3>1, <3>2
  <2>10. text[i + k] = Name(alias[k]) /\ alias[k] \notin Signs
    BY <1>6, <1>7, <2>5
  <2> HIDE DEF j
  <2>11. LineOf(text, j + 1) = LineOf(text, j)
    BY <1>1, <2>7, <2>9, SameLine
  <2>12. i + k \notin Fenced(text)
    BY <1>4, <1>10, <2>7, <2>8, <2>11
  <2>13. U[i + k] = text[i + k]
    BY <1>1, <1>2, <2>7, <2>12
  <2>14. end[j + 1] = NextEnd(U, end[j], j + 1)
    BY <1>3, <2>7
  <2>15. ~IsRun(U[j + 1])
    BY <2>7, <2>10, <2>13, TokensApart
  <2>16. end[j + 1] = end[j]
    BY <2>14, <2>15 DEF NextEnd, Opener
  <2>17. Good(k)
    BY <2>7, <2>8, <2>11, <2>13, <2>16
  <2> QED
    BY <2>3, <2>17
<1>13. ASSUME NEW k \in 1..m PROVE M[i + k] = text[i + k]
  <2>1. k \in 0..m /\ k \in Nat
    BY <1>1
  <2>2. Good(k)
    BY <1>12, <2>1
  <2>3. ~(i + k <= end[i + k])
    <3>0. i \in 0..n /\ k >= 0
      BY <1>1, <2>1
    <3>1. end[i] \in Nat /\ k >= 0
      BY <1>3, <3>0
    <3>2. ~(i + k <= end[i])
      BY <1>10, <1>11, <2>1, <3>1
    <3> QED
      BY <2>2, <3>2
  <2>4. i + k \notin Spanned(U)
    BY <1>5, <2>3
  <2> QED
    BY <1>1, <1>2, <1>11, <2>1, <2>2, <2>4
<1>14. i + Len(alias) <= Len(M) /\ \A k \in DOMAIN alias : M[i + k] = Name(alias[k])
  BY <1>1, <1>2, <1>6, <1>13 DEF m
<1> QED
  BY <1>14 DEF M, Fits

\* The fence open after each token, by the one open before it.
FencesOf(text) ==
  /\ Fences(text)[0] = NoFence
  /\ \A i \in 1..Len(text) : Fences(text)[i] = NextFence(text, Fences(text)[i - 1], i)

\* Fences are read token by token.
LEMMA FencesFollow ==
  ASSUME NEW text, IsSeq(text)
  PROVE  FencesOf(text)
<1>1. LET fence == Fences(text)
      IN /\ fence[0] = NoFence
         /\ \A i \in 1..Len(text) : fence[i] = NextFence(text, fence[i - 1], i)
  BY FencesAre
<1> QED
  BY <1>1 DEF FencesOf

\* Where no line is set off as code the first pass leaves the text.
LEMMA NoFences ==
  ASSUME NEW text, IsSeq(text), Unfenced(text)
  PROVE  \A i \in DOMAIN text : i \notin Fenced(text) /\ WithoutFences(text)[i] = text[i]
<1> DEFINE n == Len(text)
           fence == Fences(text)
           Bad == {i \in 0..n : fence[i] # NoFence}
<1>1. n \in Nat /\ DOMAIN text = 1..n
  BY SeqDomain
<1>2. fence[0] = NoFence /\ \A i \in 1..n : fence[i] = NextFence(text, fence[i - 1], i)
  BY FencesFollow DEF FencesOf
<1> HIDE DEF fence, n
<1>3. Bad = {}
  <2> SUFFICES ASSUME Bad # {} PROVE FALSE
    OBVIOUS
  <2>1. Bad \subseteq Nat
    OBVIOUS
  <2>2. PICK k : k = Min(Bad)
    OBVIOUS
  <2>3. k \in Bad /\ \A l \in Bad : k <= l
    <3> HIDE DEF Bad
    <3> QED
      BY <2>1, <2>2, LeastMember
  <2>4. k # 0
    BY <1>2, <2>3
  <2>5. k \in 1..n /\ k - 1 \in 0..n /\ ~(k <= k - 1)
    BY <1>1, <2>3, <2>4
  <2>6. fence[k - 1] = NoFence
    BY <2>3, <2>5
  <2>7. Begins(text, k) => ~Opens(text, k)
    BY <1>1, <2>5 DEF Unfenced
  <2>8. fence[k] = NoFence
    BY <1>2, <2>5, <2>6, <2>7 DEF NextFence
  <2> QED
    BY <2>3, <2>8
<1>4. ASSUME NEW i \in DOMAIN text PROVE i \notin Fenced(text)
  <2> DEFINE s == LineOf(text, i)
  <2>1. s \in 1..i /\ s \in DOMAIN text /\ Begins(text, s)
    BY LineBegins
  <2> HIDE DEF s
  <2>2. s \in 0..n /\ s - 1 \in 0..n
    BY <1>1, <2>1
  <2>3. fence[s] = NoFence /\ fence[s - 1] = NoFence
    BY <1>3, <2>2
  <2>4. text[s] # Indent
    BY <2>1 DEF Unfenced
  <2>5. ~IsCode(text, fence, s)
    BY <2>3, <2>4 DEF IsCode
  <2> QED
    BY <2>5 DEF Fenced, fence, s
<1>5. \A i \in DOMAIN text : WithoutFences(text)[i] = IF i \in Fenced(text) THEN Blank ELSE text[i]
  BY MaskedIs
<1> QED
  BY <1>4, <1>5

\* Where the last span that began by each token ends, by the one before it.
SpansOf(text) ==
  /\ SpanEnds(text)[0] = 0
  /\ \A i \in 0..Len(text) : SpanEnds(text)[i] \in Nat
  /\ \A i \in 1..Len(text) : SpanEnds(text)[i] = NextEnd(text, SpanEnds(text)[i - 1], i)

\* Spans are read leftmost first.
LEMMA SpansFollow ==
  ASSUME NEW text, IsSeq(text)
  PROVE  SpansOf(text)
<1>1. LET end == SpanEnds(text)
      IN /\ end[0] = 0
         /\ \A i \in 0..Len(text) : end[i] \in Nat
         /\ \A i \in 1..Len(text) : end[i] = NextEnd(text, end[i - 1], i)
  BY SpanEndsAre
<1> QED
  BY <1>1 DEF SpansOf

\* Before the first opener no span has begun.
LEMMA NoSpanBefore ==
  ASSUME NEW text, IsSeq(text), NEW m \in 0..Len(text), \A k \in 1..m : ~Opener(text, k)
  PROVE  \A k \in 0..m : SpanEnds(text)[k] = 0
<1> DEFINE n == Len(text)
           end == SpanEnds(text)
           Bad == {i \in 0..m : end[i] # 0}
<1>1. n \in Nat /\ DOMAIN text = 1..n
  BY SeqDomain
<1>2. end[0] = 0 /\ \A i \in 1..n : end[i] = NextEnd(text, end[i - 1], i)
  BY SpansFollow DEF SpansOf
<1>3. m \in Nat /\ m <= n
  BY <1>1
<1> HIDE DEF end, n
<1> SUFFICES ASSUME Bad # {} PROVE FALSE
  BY DEF end
<1>4. Bad \subseteq Nat
  OBVIOUS
<1>5. PICK k : k = Min(Bad)
  OBVIOUS
<1>6. k \in Bad /\ \A l \in Bad : k <= l
  <2> HIDE DEF Bad
  <2> QED
    BY <1>4, <1>5, LeastMember
<1>7. k # 0
  BY <1>2, <1>6
<1>8. k \in 1..n /\ k \in 1..m /\ k - 1 \in 0..m /\ ~(k <= k - 1)
  BY <1>1, <1>3, <1>6, <1>7
<1>9. end[k - 1] = 0
  BY <1>6, <1>8
<1>10. end[k] = 0
  BY <1>2, <1>8, <1>9 DEF NextEnd
<1> QED
  BY <1>6, <1>10

\* A span between the first run and the next as long hides what is in it.
LEMMA FirstSpanIsMasked ==
  ASSUME NEW text, IsSeq(text), Unfenced(text), NEW i \in DOMAIN text,
         NEW open \in Runs(text), NEW close \in Runs(text),
         open < i, i < close, text[open].is = "ticks", text[close] = text[open],
         \A k \in Runs(text) : k >= open,
         \A k \in Runs(text) : open < k /\ k < close => text[k].n # text[open].n
  PROVE  Masked(text)[i] # At
<1> DEFINE U == WithoutFences(text)
           n == Len(text)
           end == SpanEnds(U)
<1>1. n \in Nat /\ DOMAIN text = 1..n
  BY SeqDomain
<1>2. /\ IsSeq(U) /\ Len(U) = n /\ DOMAIN U = DOMAIN text
      /\ \A k \in DOMAIN text : Masked(text)[k] = IF k \in Spanned(U) THEN Blank ELSE U[k]
  BY MaskedIs
<1>3. \A k \in DOMAIN text : U[k] = text[k]
  BY NoFences
<1> HIDE DEF U, n
<1>4. /\ \A k \in 0..n : end[k] \in Nat
      /\ \A k \in 1..n : end[k] = NextEnd(U, end[k - 1], k)
  BY <1>2, SpansFollow DEF SpansOf
<1>5. /\ open \in 1..n /\ close \in 1..n /\ i \in 1..n
      /\ open \in Nat /\ close \in Nat /\ i \in Nat /\ n \in Nat
  BY <1>1 DEF Runs
<1>6. \A k \in 1..n : IsRun(U[k]) => k \in Runs(text)
  BY <1>1, <1>3 DEF IsRun, Runs
<1>7. \A k \in 0..open - 1 : end[k] = 0
  <2>1. open - 1 \in 0..n
    BY <1>5
  <2>2. ASSUME NEW k \in 1..open - 1 PROVE ~Opener(U, k)
    <3>1. k \in 1..n /\ ~(k >= open)
      BY <1>5
    <3> QED
      BY <1>6, <3>1 DEF Opener
  <2> HIDE DEF end
  <2> QED
    BY <1>2, <2>1, <2>2, NoSpanBefore DEF end
<1>8. /\ IsRun(U[open]) /\ IsRun(U[close]) /\ OpenLength(U[open]) = text[open].n /\ U[close].n = text[open].n
      /\ \A k \in 1..n : U[k] = text[k]
  BY <1>1, <1>3, <1>5 DEF IsRun, OpenLength
<1>9. Partners(U, open) \subseteq Nat /\ close \in Partners(U, open) /\ \A j \in Partners(U, open) : close <= j
  <2>1. Partners(U, open) = {j \in (open + 1)..n : IsRun(U[j]) /\ U[j].n = text[open].n}
    BY <1>2, <1>8 DEF Partners
  <2>2. close \in (open + 1)..n
    BY <1>5
  <2>3. ASSUME NEW j \in Partners(U, open) PROVE close <= j /\ j \in Nat
    <3>1. j \in Nat /\ j \in 1..n /\ open < j /\ IsRun(U[j]) /\ U[j].n = text[open].n
      BY <1>5, <2>1
    <3>2. j \in Runs(text) /\ text[j].n = text[open].n
      BY <1>6, <1>8, <3>1
    <3>3. ~(j < close)
      BY <3>1, <3>2
    <3> QED
      BY <1>5, <3>1, <3>3
  <2> QED
    BY <1>8, <2>1, <2>2, <2>3
<1>10. Least(Partners(U, open)) = close
  <2> DEFINE P == Partners(U, open)
             l == Least(P)
  <2>1. l \in P /\ \A j \in P : l <= j
    <3> HIDE DEF P
    <3> QED
      BY <1>9, LeastIs DEF P
  <2> HIDE DEF l
  <2>2. l \in Nat /\ l <= close /\ close <= l
    BY <1>9, <2>1
  <2>3. l = close
    BY <1>5, <2>2
  <2> QED
    BY <2>3 DEF l
<1>11. end[open] = close
  <2>1. open - 1 \in 0..open - 1 /\ 0 < open
    BY <1>5
  <2>2. end[open - 1] = 0 /\ end[open] = NextEnd(U, end[open - 1], open)
    BY <1>4, <1>5, <1>7, <2>1
  <2>3. Opener(U, open)
    BY <1>8, <1>9 DEF Opener
  <2> QED
    BY <1>10, <2>1, <2>2, <2>3 DEF NextEnd
<1> HIDE DEF end
<1> DEFINE Bad == {k \in open..close - 1 : end[k] # close}
<1>12. Bad = {}
  <2> SUFFICES ASSUME Bad # {} PROVE FALSE
    OBVIOUS
  <2>1. Bad \subseteq Nat
    BY <1>5
  <2>2. PICK k : k = Min(Bad)
    OBVIOUS
  <2>3. k \in Bad /\ \A l \in Bad : k <= l
    <3> HIDE DEF Bad
    <3> QED
      BY <2>1, <2>2, LeastMember
  <2>4. k # open
    BY <1>11, <2>3
  <2>5. k \in 1..n /\ k - 1 \in open..close - 1 /\ ~(k <= k - 1) /\ ~(close < k)
    BY <1>5, <2>3, <2>4
  <2>6. end[k - 1] = close
    BY <2>3, <2>5
  <2>7. end[k] = close
    BY <1>4, <2>5, <2>6 DEF NextEnd
  <2> QED
    BY <2>3, <2>7
<1>13. end[i] = close /\ i <= end[i]
  <2>1. i \in open..close - 1
    BY <1>5
  <2> QED
    BY <1>5, <1>12, <2>1
<1>14. CASE U[i] = Break
  BY <1>2, <1>14, TokensApart
<1>15. CASE U[i] # Break
  <2>1. i \in Spanned(U)
    BY <1>2, <1>13, <1>15 DEF Spanned, end
  <2> QED
    BY <1>2, <2>1, TokensApart
<1> QED
  BY <1>14, <1>15

\* Under a fence that nothing of its kind has closed nothing is left.
LEMMA OpenFenceIsMasked ==
  ASSUME NEW text, IsSeq(text), \A token \in Range(text) : token.n \in Nat, NEW i \in DOMAIN text,
         Opens(text, 1),
         \A k \in Runs(text) : 1 < k /\ k < i => text[k].is # text[1].is \/ text[k].n < text[1].n
  PROVE  Masked(text)[i] # At
<1> DEFINE n == Len(text)
           fence == Fences(text)
           Bad == {k \in 1..n : (k = 1 \/ k < i) /\ fence[k] # text[1]}
<1>1. n \in Nat /\ DOMAIN text = 1..n /\ i \in 1..n /\ 1 \in 1..n
  BY SeqDomain
<1>2. fence[0] = NoFence /\ \A k \in 1..n : fence[k] = NextFence(text, fence[k - 1], k)
  BY FencesFollow DEF FencesOf
<1>3. \A k \in 1..n : text[k].n \in Nat
  BY <1>1 DEF Range
<1>4. text[1].is \in {"ticks", "tildes"} /\ text[1] # NoFence
  <2>1. NoFence.is = "blank"
    BY TokensApart DEF NoFence
  <2> QED
    BY <2>1 DEF Opens
<1> HIDE DEF fence, n
<1>5. fence[1] = text[1]
  <2>1. Begins(text, 1) /\ 1 - 1 = 0
    BY <1>1 DEF Begins
  <2>2. fence[1] = NextFence(text, NoFence, 1)
    BY <1>1, <1>2, <2>1
  <2> QED
    BY <2>1, <2>2 DEF NextFence
<1>6. Bad = {}
  <2> SUFFICES ASSUME Bad # {} PROVE FALSE
    OBVIOUS
  <2>1. Bad \subseteq Nat
    OBVIOUS
  <2>2. PICK k : k = Min(Bad)
    OBVIOUS
  <2>3. k \in Bad /\ \A l \in Bad : k <= l
    <3> HIDE DEF Bad
    <3> QED
      BY <2>1, <2>2, LeastMember
  <2>4. k # 1
    BY <1>5, <2>3
  <2>5. k \in 1..n /\ k - 1 \in 1..n /\ k - 1 < i /\ ~(k <= k - 1) /\ 1 < k /\ k < i
    BY <1>1, <2>3, <2>4
  <2>6. fence[k - 1] = text[1]
    BY <2>3, <2>5
  <2>7. ~Closes(text, k, text[1])
    <3> SUFFICES ASSUME text[k].is = text[1].is, text[k].n >= text[1].n PROVE FALSE
      BY DEF Closes
    <3>1. k \in Runs(text)
      BY <1>1, <1>4, <2>5 DEF Runs
    <3>2. text[k].n < text[1].n
      BY <2>5, <3>1
    <3> QED
      BY <1>1, <1>3, <2>5, <3>2
  <2>8. fence[k] = text[1]
    BY <1>2, <1>4, <2>5, <2>6, <2>7 DEF NextFence
  <2> QED
    BY <2>3, <2>8
<1>7. ASSUME text[i] # Break PROVE i \in Fenced(text)
  <2> DEFINE s == LineOf(text, i)
  <2>1. s \in 1..i /\ s \in DOMAIN text
    BY LineBegins
  <2> HIDE DEF s
  <2>2. fence[s - 1] # NoFence \/ fence[s] # NoFence
    <3>1. CASE s = 1
      BY <1>4, <1>5, <3>1
    <3>2. CASE s # 1
      <4>1. s - 1 \in 1..n /\ s - 1 < i
        BY <1>1, <2>1, <3>2
      <4> QED
        BY <1>4, <1>6, <4>1
    <3> QED
      BY <3>1, <3>2
  <2>3. IsCode(text, fence, s)
    BY <2>2 DEF IsCode
  <2> QED
    BY <1>7, <2>3 DEF Fenced, fence, s
<1>8. \A k \in DOMAIN text : WithoutFences(text)[k] = IF k \in Fenced(text) THEN Blank ELSE text[k]
  BY MaskedIs
<1>9. \A k \in DOMAIN text :
        Masked(text)[k] = IF k \in Spanned(WithoutFences(text)) THEN Blank ELSE WithoutFences(text)[k]
  BY MaskedIs
<1>10. WithoutFences(text)[i] # At
  BY <1>7, <1>8, TokensApart
<1> QED
  BY <1>9, <1>10, TokensApart

\* A sign before which no run has another of its length is left.
LEMMA PlainSignIsLeft ==
  ASSUME NEW text, IsSeq(text), NEW i \in DOMAIN text, text[i] = At, PlainText(text, i)
  PROVE  Masked(text)[i] = At
<1> DEFINE U == WithoutFences(text)
           n == Len(text)
           end == SpanEnds(U)
<1>1. n \in Nat /\ DOMAIN text = 1..n
  BY SeqDomain
<1>2. /\ IsSeq(U) /\ Len(U) = n /\ DOMAIN U = DOMAIN text
      /\ \A k \in DOMAIN text : Masked(text)[k] = IF k \in Spanned(U) THEN Blank ELSE U[k]
  BY MaskedIs
<1>3. \A k \in DOMAIN text : U[k] = text[k]
  BY NoFences DEF PlainText
<1> HIDE DEF U, n
<1>4. i \in 1..n /\ i \in Nat /\ i \in 0..n
  BY <1>1
<1>5. ASSUME NEW k \in 1..i PROVE ~Opener(U, k)
  <2> SUFFICES ASSUME IsRun(U[k]), NEW l \in Partners(U, k) PROVE FALSE
    BY DEF Opener
  <2>1. k \in 1..n /\ k \in DOMAIN text /\ U[k] = text[k]
    BY <1>1, <1>3, <1>4
  <2>2. k # i
    BY <2>1, TokensApart
  <2>3. k < i
    BY <1>4, <2>2
  <2>4. k \in Runs(text)
    BY <2>1 DEF IsRun, Runs
  <2>5. text[k].is # "escaped" /\ \A m \in Runs(text) \ {k} : text[m].n # text[k].n
    BY <2>3, <2>4 DEF PlainText
  <2>6. l \in (k + 1)..n /\ IsRun(U[l]) /\ U[l].n = text[k].n
    BY <1>2, <2>1, <2>5 DEF Partners, OpenLength
  <2>7. l \in 1..n /\ l # k
    BY <1>1, <2>1, <2>6
  <2>8. l \in Runs(text) /\ text[l].n = text[k].n
    BY <1>1, <1>3, <2>6, <2>7 DEF IsRun, Runs
  <2> QED
    BY <2>5, <2>7, <2>8
<1>6. end[i] = 0
  <2>1. i \in 0..i
    BY <1>4
  <2> HIDE DEF end
  <2> QED
    BY <1>2, <1>4, <1>5, <2>1, NoSpanBefore DEF end
<1>7. ~(i <= end[i])
  BY <1>4, <1>6
<1>8. i \notin Spanned(U)
  BY <1>7 DEF Spanned
<1> QED
  BY <1>2, <1>3, <1>8

\* What fits after the mask fits the text: a name is no blank.
LEMMA NamesAreOfTheText ==
  ASSUME NEW text, IsSeq(text), NEW i \in DOMAIN text,
         NEW alias, IsSeq(alias), Range(alias) \cap Signs = {}, Fits(Masked(text), i, alias)
  PROVE  Fits(text, i, alias)
<1> DEFINE M == Masked(text)
           U == WithoutFences(text)
<1>1. /\ Len(M) = Len(text) /\ DOMAIN M = DOMAIN text
      /\ \A k \in DOMAIN text : U[k] = IF k \in Fenced(text) THEN Blank ELSE text[k]
      /\ \A k \in DOMAIN text : M[k] = IF k \in Spanned(U) THEN Blank ELSE U[k]
  BY MaskedIs
<1>2. Len(text) \in Nat /\ DOMAIN text = 1..Len(text) /\ DOMAIN alias = 1..Len(alias) /\ Len(alias) \in Nat
  BY SeqDomain
<1> HIDE DEF M, U
<1>3. \A k \in DOMAIN text : M[k] = Blank \/ M[k] = text[k]
  BY <1>1
<1>4. i + Len(alias) <= Len(text) /\ \A k \in DOMAIN alias : M[i + k] = Name(alias[k])
  BY <1>1 DEF Fits, M
<1>5. ASSUME NEW k \in DOMAIN alias PROVE text[i + k] = Name(alias[k])
  <2> DEFINE j == i + k
  <2>1. j \in DOMAIN text
    BY <1>2, <1>4
  <2>2. M[j] = Name(alias[k])
    BY <1>4
  <2> HIDE DEF j
  <2>3. alias[k] \in Range(alias)
    BY DEF Range
  <2>4. Name(alias[k]) # Blank
    BY <2>3, TokensApart
  <2>5. text[j] = Name(alias[k])
    BY <1>3, <2>1, <2>2, <2>4
  <2> QED
    BY <2>5 DEF j
<1> QED
  BY <1>4, <1>5 DEF Fits

\* Two aliases as long that fit at one place are one.
LEMMA AliasesAgree ==
  ASSUME NEW text, NEW i, NEW a, NEW b, IsSeq(a), IsSeq(b), Len(a) = Len(b),
         Fits(text, i, a), Fits(text, i, b)
  PROVE  a = b
<1>1. /\ DOMAIN a = 1..Len(a) /\ DOMAIN b = 1..Len(a) /\ a \in Seq(Range(a)) /\ b \in Seq(Range(b))
  BY SeqDomain DEF IsSeq
<1>2. ASSUME NEW k \in 1..Len(a) PROVE a[k] = b[k]
  <2>1. Name(a[k]) = Name(b[k])
    BY <1>1 DEF Fits
  <2>2. Name(a[k]).is = a[k] /\ Name(b[k]).is = b[k]
    BY DEF Name
  <2> QED
    BY <2>1, <2>2
<1> DEFINE T == Range(a) \cup Range(b)
<1>3. a \in Seq(T) /\ b \in Seq(T)
  BY <1>1
<1> HIDE DEF T
<1> QED
  BY <1>2, <1>3, SeqEqual

\* The aliases of known people are sequences of names.
LEMMA AliasIs ==
  ASSUME NEW people, people \subseteq DOMAIN ProfileOf, NEW q \in people, NEW alias \in AliasesOf[q]
  PROVE  IsSeq(alias) /\ Range(alias) \cap Signs = {}
  BY AnswersAssumption

\* The aliases at a sign are those of somebody that fit there.
LEMMA HereIs ==
  ASSUME NEW text, NEW i, NEW people, NEW alias
  PROVE  alias \in AliasesHere(text, i, people)
           <=> Fits(text, i, alias) /\ \E p \in people : alias \in AliasesOf[p]
  BY DEF AliasesHere

\* Whom a sign of the masked text names the text means there, out of code.
LEMMA NamedIsMeant ==
  ASSUME NEW text, IsSeq(text), \A token \in Range(text) : token.n \in Nat, NEW i \in DOMAIN text,
         NEW people, people \subseteq DOMAIN ProfileOf, NEW p \in Named(Masked(text), i, people)
  PROVE  p \in people /\ Means(text, i, people, p) /\ ~PlainCode(text, i)
<1> DEFINE M == Masked(text)
           longest == LongestHere(M, i, people)
           holders == {q \in people : AliasesOf[q] \cap longest # {}}
<1>1. M[i] = At /\ p \in holders /\ \A q \in holders : q = p
  <2>1. p \in (IF M[i] = At /\ \A a, b \in holders : a = b THEN holders ELSE {})
    BY Zenon DEF Named
  <2> HIDE DEF M, holders
  <2> QED
    BY <2>1
<1>2. text[i] = At
  <2> DEFINE U == WithoutFences(text)
  <2>1. /\ \A k \in DOMAIN text : U[k] = IF k \in Fenced(text) THEN Blank ELSE text[k]
        /\ \A k \in DOMAIN text : M[k] = IF k \in Spanned(U) THEN Blank ELSE U[k]
    BY MaskedIs
  <2> HIDE DEF U, M
  <2>2. At # Blank
    BY TokensApart
  <2> QED
    BY <1>1, <2>1, <2>2
<1>3. PICK alias \in AliasesOf[p] : alias \in longest
  BY <1>1
<1>4. /\ alias \in AliasesHere(M, i, people)
      /\ \A other \in AliasesHere(M, i, people) : Len(other) <= Len(alias)
  BY <1>3 DEF LongestHere
<1>5. p \in people /\ Fits(M, i, alias)
  BY <1>1, <1>4, HereIs
<1>6. Fits(text, i, alias)
  BY <1>5, AliasIs, NamesAreOfTheText
<1>7. ASSUME NEW q \in people \ {p}, NEW other \in AliasesOf[q], Fits(text, i, other)
      PROVE  Len(other) < Len(alias)
  <2>1. IsSeq(other) /\ Range(other) \cap Signs = {} /\ IsSeq(alias)
    BY <1>5, AliasIs
  <2>2. Fits(M, i, other)
    BY <1>1, <1>7, <2>1, NamesStayWithTheirSign
  <2>3. other \in AliasesHere(M, i, people)
    BY <2>2, HereIs
  <2>4. Len(other) <= Len(alias) /\ Len(other) \in Nat /\ Len(alias) \in Nat
    BY <1>4, <2>1, <2>3, SeqDomain
  <2>5. Len(other) # Len(alias)
    <3> SUFFICES ASSUME Len(other) = Len(alias) PROVE FALSE
      OBVIOUS
    <3>1. other = alias
      BY <1>5, <2>1, <2>2, AliasesAgree
    <3>2. q \in holders
      BY <1>3, <3>1
    <3> QED
      BY <1>1, <3>2
  <2> QED
    BY <2>4, <2>5
<1>8. Means(text, i, people, p)
  BY <1>2, <1>3, <1>6, <1>7 DEF Means
<1>9. ~PlainCode(text, i)
  <2> SUFFICES ASSUME PlainCode(text, i) PROVE FALSE
    OBVIOUS
  <2>1. CASE /\ Opens(text, 1)
             /\ \A k \in Runs(text) : 1 < k /\ k < i => text[k].is # text[1].is \/ text[k].n < text[1].n
    BY <1>1, <2>1, OpenFenceIsMasked
  <2>2. CASE /\ Unfenced(text)
             /\ \E open, close \in Runs(text) :
                  /\ open < i /\ i < close /\ text[open].is = "ticks" /\ text[close] = text[open]
                  /\ \A k \in Runs(text) : k >= open
                  /\ \A k \in Runs(text) : open < k /\ k < close => text[k].n # text[open].n
    <3>1. PICK open \in Runs(text), close \in Runs(text) :
                  /\ open < i /\ i < close /\ text[open].is = "ticks" /\ text[close] = text[open]
                  /\ \A k \in Runs(text) : k >= open
                  /\ \A k \in Runs(text) : open < k /\ k < close => text[k].n # text[open].n
      BY <2>2
    <3> QED
      BY <1>1, <2>2, <3>1, FirstSpanIsMasked
  <2> QED
    BY <2>1, <2>2 DEF PlainCode
<1> QED
  BY <1>5, <1>8, <1>9

\* Whom plain text means the sign names.
LEMMA MeantIsNamed ==
  ASSUME NEW text, IsSeq(text), NEW i \in DOMAIN text,
         NEW people, people \subseteq DOMAIN ProfileOf, NEW p \in people,
         Means(text, i, people, p), PlainText(text, i)
  PROVE  Named(Masked(text), i, people) = {p}
<1> DEFINE M == Masked(text)
           here == AliasesHere(M, i, people)
           longest == LongestHere(M, i, people)
           holders == {q \in people : AliasesOf[q] \cap longest # {}}
           lengths == {Len(a) : a \in here}
           n == Len(text)
<1>1. n \in Nat /\ DOMAIN text = 1..n
  BY SeqDomain
<1>2. text[i] = At
  BY DEF Means
<1>3. M[i] = At
  BY <1>2, PlainSignIsLeft
<1>4. PICK alias \in AliasesOf[p] :
        /\ Fits(text, i, alias)
        /\ \A q \in people \ {p} : \A other \in AliasesOf[q] : Fits(text, i, other) => Len(other) < Len(alias)
  BY DEF Means
<1>5. IsSeq(alias) /\ alias \in here
  <2>1. IsSeq(alias) /\ Range(alias) \cap Signs = {}
    BY AliasIs
  <2>2. Fits(M, i, alias)
    BY <1>3, <1>4, <2>1, NamesStayWithTheirSign
  <2> QED
    BY <1>4, <2>1, <2>2, HereIs
<1>6. ASSUME NEW a \in here
      PROVE  /\ IsSeq(a) /\ Len(a) \in Nat /\ Len(a) \in 0..n
             /\ \A q \in people \ {p} : a \in AliasesOf[q] => Len(a) < Len(alias)
  <2>1. Fits(M, i, a) /\ \E q \in people : a \in AliasesOf[q]
    BY HereIs
  <2>2. IsSeq(a) /\ Range(a) \cap Signs = {}
    BY <2>1, AliasIs
  <2>3. Fits(text, i, a)
    BY <2>1, <2>2, NamesAreOfTheText
  <2>4. Len(a) \in Nat /\ i + Len(a) <= n
    BY <2>2, <2>3, SeqDomain DEF Fits
  <2>5. Len(a) \in 0..n
    BY <1>1, <2>4
  <2> QED
    BY <1>4, <2>2, <2>3, <2>4, <2>5
<1> HIDE DEF here, n, M
<1>7. PICK most \in here : \A a \in here : Len(a) <= Len(most)
  <2>1. lengths \subseteq 0..n /\ lengths # {}
    BY <1>5, <1>6
  <2>2. PICK m : m = Max(lengths)
    OBVIOUS
  <2>3. m \in lengths /\ \A l \in lengths : m >= l
    <3> HIDE DEF lengths
    <3> QED
      BY <1>1, <2>1, <2>2, GreatestMember
  <2>4. PICK a \in here : m = Len(a)
    BY <2>3
  <2>5. \A b \in here : Len(b) \in lengths
    OBVIOUS
  <2>6. \A b \in here : Len(b) <= Len(a)
    BY <1>6, <2>3, <2>4, <2>5
  <2> QED
    BY <2>6
<1>8. \A a \in longest : a \in here /\ \A b \in here : Len(b) <= Len(a)
  BY DEF LongestHere, here
<1>9. most \in longest
  BY <1>7 DEF LongestHere, here
<1> HIDE DEF longest
<1>10. ASSUME NEW a \in longest, NEW q \in people \ {p} PROVE a \notin AliasesOf[q]
  <2>1. Len(alias) <= Len(a) /\ a \in here
    BY <1>5, <1>8
  <2>2. Len(alias) \in Nat /\ Len(a) \in Nat
    BY <1>5, <1>6, <2>1
  <2>3. ~(Len(a) < Len(alias))
    BY <2>1, <2>2
  <2> QED
    BY <1>6, <2>1, <2>3
<1>11. most \in AliasesOf[p]
  <2>1. \E q \in people : most \in AliasesOf[q]
    BY <1>7, HereIs DEF here
  <2> QED
    BY <1>9, <1>10, <2>1
<1>12. holders = {p}
  BY <1>9, <1>10, <1>11
<1>13. \A a, b \in holders : a = b
  BY <1>12
<1>14. Named(M, i, people) = IF M[i] = At /\ \A a, b \in holders : a = b THEN holders ELSE {}
  BY Zenon DEF Named, longest
<1> HIDE DEF holders
<1> QED
  BY <1>3, <1>12, <1>13, <1>14 DEF M

\* Whom the signs of a text name.
NamedIn(text, people) == UNION {Named(Masked(text), i, people) : i \in DOMAIN text}

\* The people a text mentions are those its signs name.
LEMMA MentionedAre ==
  ASSUME NEW text, IsSeq(text), NEW audience
  PROVE  /\ IsSeq(MentionedPubkeys(audience, text))
         /\ Range(MentionedPubkeys(audience, text)) = NamedIn(text, Range(audience.participants))
<1> DEFINE M == Masked(text)
           people == Range(audience.participants)
           named == [i \in DOMAIN text |-> Named(M, i, people)]
           S == {i \in DOMAIN text : named[i] # {}}
           found == Picked(named, S)
           mentioned == [k \in DOMAIN found |-> CHOOSE p \in found[k] : TRUE]
           n == Len(text)
           c == Cardinality(S)
<1>1. n \in Nat /\ DOMAIN text = 1..n /\ S \subseteq 1..n
  BY SeqDomain
<1>2. MentionedPubkeys(audience, text) = mentioned
  BY Zenon DEF MentionedPubkeys
<1>3. \A i \in DOMAIN text : \A p, q \in named[i] : p = q
  <2> SUFFICES ASSUME NEW i \in DOMAIN text PROVE \A p, q \in Named(M, i, people) : p = q
    OBVIOUS
  <2> DEFINE holders == {p \in people : AliasesOf[p] \cap LongestHere(M, i, people) # {}}
  <2>1. Named(M, i, people) = IF M[i] = At /\ \A p, q \in holders : p = q THEN holders ELSE {}
    BY Zenon DEF Named
  <2> HIDE DEF holders, M
  <2> QED
    BY <2>1
<1>4. /\ c \in Nat /\ DOMAIN found = 1..c
      /\ \A i \in S : named[i] \in Range(found)
      /\ \A x \in Range(found) : \E i \in S : x = named[i]
  <2> HIDE DEF S, named
  <2>1. /\ Cardinality(S) \in Nat /\ DOMAIN Picked(named, S) = 1..Cardinality(S)
        /\ Range(Picked(named, S)) = StandingAt(named, S)
    BY <1>1, PickedRange
  <2> QED
    BY <2>1 DEF StandingAt
<1>5. \A i \in S : i \in DOMAIN text /\ named[i] # {}
  OBVIOUS
<1>6. \A i \in DOMAIN text : named[i] # {} => i \in S
  OBVIOUS
<1>7. NamedIn(text, people) = UNION {named[i] : i \in DOMAIN text}
  BY DEF NamedIn
<1> HIDE DEF S, named, found, c
<1>8. ASSUME NEW k \in DOMAIN found
      PROVE  \E i \in DOMAIN text : mentioned[k] \in named[i]
  <2>1. found[k] \in Range(found)
    BY DEF Range
  <2>2. PICK i \in S : found[k] = named[i]
    BY <1>4, <2>1
  <2>3. mentioned[k] \in named[i]
    BY <1>5, <2>2
  <2> QED
    BY <1>5, <2>3
<1>9. ASSUME NEW i \in DOMAIN text, NEW p \in named[i]
      PROVE  \E k \in DOMAIN found : mentioned[k] = p
  <2>1. named[i] \in Range(found)
    BY <1>4, <1>6
  <2>2. PICK k \in DOMAIN found : found[k] = named[i]
    BY <2>1 DEF Range
  <2>3. mentioned[k] \in named[i]
    BY <2>2
  <2>4. mentioned[k] = p
    BY <1>3, <2>3
  <2> QED
    BY <2>4
<1>10. DOMAIN mentioned = 1..c
  BY <1>4
<1> HIDE DEF mentioned
<1>11. Range(mentioned) = NamedIn(text, people)
  <2>1. \A k \in DOMAIN mentioned : mentioned[k] \in NamedIn(text, people)
    BY <1>4, <1>7, <1>8, <1>10
  <2>2. \A p \in NamedIn(text, people) : \E k \in DOMAIN mentioned : mentioned[k] = p
    BY <1>4, <1>7, <1>9, <1>10
  <2> QED
    BY <2>1, <2>2 DEF Range
<1>12. IsSeq(mentioned)
  <2>1. mentioned = [k \in 1..c |-> mentioned[k]]
    BY <1>10 DEF mentioned
  <2>2. \A k \in 1..c : mentioned[k] \in Range(mentioned)
    BY <1>10 DEF Range
  <2>3. mentioned \in Seq(Range(mentioned))
    BY <1>4, <2>1, <2>2
  <2> QED
    BY <2>3 DEF IsSeq
<1> QED
  BY <1>2, <1>11, <1>12

\* A post notifies its requester first, each person once and no more than the
\* cap; all others are named in the text, and all who are, unless the cap is reached.
LEMMA ResolvedAre ==
  ASSUME NEW text, IsSeq(text), NEW requester, IsSeq(requester), NEW audience
  PROVE  LET notified == ResolvedMentions(text, requester, audience)
             named == NamedIn(text, Range(audience.participants))
         IN /\ requester # <<>> => notified[1] = requester[1]
            /\ Len(notified) <= MaxMentions /\ IsInjective(notified)
            /\ Range(notified) \subseteq Range(requester) \cup named
            /\ named \subseteq Range(notified) \/ Len(notified) = MaxMentions
<1> DEFINE mentioned == MentionedPubkeys(audience, text)
           named == NamedIn(text, Range(audience.participants))
           all == requester \o mentioned
           once == Once(all)
           T == Range(requester) \cup named
<1>1. IsSeq(mentioned) /\ Range(mentioned) = named
  BY MentionedAre
<1> HIDE DEF mentioned
<1>2. requester \in Seq(T) /\ mentioned \in Seq(T) /\ Len(requester) \in Nat /\ Len(mentioned) \in Nat
  <2>1. requester \in Seq(Range(requester)) /\ mentioned \in Seq(named)
    BY <1>1 DEF IsSeq
  <2> HIDE DEF named
  <2> QED
    BY <2>1
<1> HIDE DEF named, T
<1>3. /\ all \in Seq(T) /\ Range(all) = T
      /\ Len(all) = Len(requester) + Len(mentioned)
      /\ \A k \in 1..Len(requester) + Len(mentioned) :
           all[k] = IF k <= Len(requester) THEN requester[k] ELSE mentioned[k - Len(requester)]
  <2>1. Range(all) = Range(requester) \cup Range(mentioned)
    BY <1>2, RangeConcatenation
  <2>2. Range(all) = T
    BY <1>1, <2>1 DEF T
  <2> QED
    BY <1>2, <2>2, ConcatProperties
<1> HIDE DEF all
<1>4. IsSeq(all)
  BY <1>3 DEF IsSeq
<1>5. requester # <<>> => all # <<>> /\ all[1] = requester[1]
  <2> SUFFICES ASSUME requester # <<>> PROVE all # <<>> /\ all[1] = requester[1]
    OBVIOUS
  <2>1. Len(requester) # 0
    BY <1>2, EmptySeq
  <2>2. 1 \in 1..Len(requester) + Len(mentioned) /\ 1 <= Len(requester) /\ Len(all) # 0
    BY <1>2, <1>3, <2>1
  <2>3. all # <<>>
    BY <1>3, <2>2, EmptySeq
  <2> QED
    BY <1>3, <2>2, <2>3
<1>6. /\ IsSeq(once) /\ Range(once) = Range(all) /\ IsInjective(once)
      /\ all # <<>> => once # <<>> /\ once[1] = all[1]
  BY <1>4, OnceIs
<1> HIDE DEF once
<1> DEFINE notified == AtMost(once)
<1>7. /\ Len(notified) <= MaxMentions /\ IsInjective(notified)
      /\ Range(notified) \subseteq Range(once)
      /\ once # <<>> => notified[1] = once[1]
      /\ Len(notified) = MaxMentions \/ notified = once
  BY <1>6, AtMostIs
<1>8. ResolvedMentions(text, requester, audience) = notified
  BY Zenon DEF ResolvedMentions, once, all, mentioned
<1> HIDE DEF notified
<1>9. named \subseteq T /\ T = Range(requester) \cup named
  BY DEF T
<1> QED
  BY <1>3, <1>5, <1>6, <1>7, <1>8, <1>9 DEF named

\* An answer stands in its thread and notifies its requester first, no one
\* twice and no more people than the cap: only those its text means out of code,
\* and all whom plain text means unless the cap is reached.
THEOREM AnswersReachThoseTheyMeanHolds == TextsSpec => []AnswersReachThoseTheyMean
<1>1. TakenFrom => AnswerStaysInThread
  BY AnswersStayInThread
<1>2. TakenFrom => NotifiesThoseItMeans
  <2> SUFFICES ASSUME TakenFrom, input.of = "answer" PROVE NotifiesThoseItMeans
    BY DEF NotifiesThoseItMeans
  <2> DEFINE text == input.text
             requester == input.requester
             people == Range(input.audience.participants)
             notified == ResolvedMentions(text, requester, input.audience)
             named == NamedIn(text, people)
             meant(p) == {i \in DOMAIN text : Means(text, i, people, p)}
  <2>1. /\ IsSeq(text) /\ IsSeq(requester) /\ people \subseteq DOMAIN ProfileOf
        /\ \A token \in Range(text) : token.n \in Nat
    <3>1. PICK a \in Answers :
            input.text = a.text /\ input.requester = a.requester /\ input.audience = a.audience
      BY DEF TakenFrom
    <3> QED
      BY <3>1, AnswersAssumption
  <2>2. /\ requester # <<>> => notified[1] = requester[1]
        /\ Len(notified) <= MaxMentions /\ IsInjective(notified)
        /\ Range(notified) \subseteq Range(requester) \cup named
        /\ named \subseteq Range(notified) \/ Len(notified) = MaxMentions
    <3> DEFINE audience == input.audience
    <3> HIDE DEF audience
    <3>1. LET told == ResolvedMentions(text, requester, audience)
              called == NamedIn(text, Range(audience.participants))
          IN /\ requester # <<>> => told[1] = requester[1]
             /\ Len(told) <= MaxMentions /\ IsInjective(told)
             /\ Range(told) \subseteq Range(requester) \cup called
             /\ called \subseteq Range(told) \/ Len(told) = MaxMentions
      <4> HIDE DEF text, requester
      <4> QED
        BY <2>1, ResolvedAre
    <3> QED
      BY <3>1, Zenon DEF audience
  <2>3. ASSUME NEW p \in named PROVE \E i \in meant(p) : ~PlainCode(text, i)
    <3>1. PICK i \in DOMAIN text : p \in Named(Masked(text), i, people)
      BY DEF NamedIn
    <3>2. Means(text, i, people, p) /\ ~PlainCode(text, i)
      BY <2>1, <3>1, NamedIsMeant
    <3> QED
      BY <3>2
  <2>4. ASSUME NEW p \in people, NEW i \in meant(p), PlainText(text, i) PROVE p \in named
    <3>1. i \in DOMAIN text /\ Means(text, i, people, p)
      BY <2>4
    <3>2. Named(Masked(text), i, people) = {p}
      BY <2>1, <2>4, <3>1, MeantIsNamed
    <3> QED
      BY <3>1, <3>2 DEF NamedIn
  <2> HIDE DEF notified, named, meant, people
  <2>5. /\ \A p \in Range(notified) \ Range(requester) : \E i \in meant(p) : ~PlainCode(text, i)
        /\ \A p \in people :
             (\E i \in meant(p) : PlainText(text, i)) => p \in Range(notified) \/ Len(notified) = MaxMentions
    BY <2>2, <2>3, <2>4
  <2> QED
    BY <2>2, <2>5 DEF NotifiesThoseItMeans, notified, meant, people
<1>3. TakenFrom => AnswersReachThoseTheyMean
  BY <1>1, <1>2 DEF AnswersReachThoseTheyMean
<1> QED
  BY <1>3, TakenFromHolds, PTL

================================================================================
