--------------------------------- MODULE Inbox ---------------------------------
(***************************************************************************)
(* The inbox thread between Kelpie's socket and the host task.  It claims  *)
(* the inbox, forwards each delivery to the host, and sends the host's     *)
(* acknowledgements, each waiting for its reply on the socket the          *)
(* deliveries arrive on.  Any error drops the connection; a second later   *)
(* the thread claims again and Kelpie offers what it has not settled.      *)
(***************************************************************************)
EXTENDS Naturals, Sequences, SequencesExt

CONSTANTS
  Messages,     \* messages Kelpie may receive for the host
  Unanswerable, \* those the host holds and never acknowledges
  None,
  MaxDrops      \* bound: connections lost for no reason of the protocol

ASSUME InboxAssumption ==
  Unanswerable \subseteq Messages /\ None \notin Messages /\ MaxDrops \in Nat

VARIABLES
  held,         \* Kelpie: messages not settled
  settled,      \* Kelpie: messages acknowledged
  request,      \* the acknowledgement Kelpie has not read yet
  connected,    \* the claim is held
  wire,         \* lines Kelpie wrote and the thread has not read
  pending,      \* deliveries read while waiting for a reply
  awaiting,     \* the message whose acknowledgement the thread waits for
  acks,         \* acknowledgements the host handed over
  queue,        \* deliveries handed to the host
  drops

vars == <<held, settled, request, connected, wire, pending, awaiting, acks, queue, drops>>

kelpie == <<held, settled>>

Delivery(m) == [line |-> "delivery", of |-> m]
Reply(m, accepted) == [line |-> IF accepted THEN "accepted" ELSE "refused", of |-> m]
IsDelivery(line) == line.line = "delivery"

Lines == [line : {"delivery", "accepted", "refused"}, of : Messages]

InboxTypeOK ==
  /\ held \subseteq Messages /\ settled \subseteq Messages
  /\ request \in Messages \cup {None}
  /\ connected \in BOOLEAN
  /\ wire \in Seq(Lines) /\ pending \in Seq(Lines)
  /\ awaiting \in Messages \cup {None}
  /\ acks \in Seq(Messages) /\ queue \in Seq(Messages)
  /\ drops \in 0..MaxDrops

Init ==
  /\ held \in SUBSET Messages /\ IsFiniteSet(held)
  /\ settled = {} /\ request = None /\ connected = FALSE
  /\ wire = <<>> /\ pending = <<>> /\ awaiting = None
  /\ acks = <<>> /\ queue = <<>> /\ drops = 0

\* The connection is gone, with all that was on it; the host's queue and the
\* acknowledgements it handed over stay.
Disconnect ==
  /\ connected' = FALSE
  /\ wire' = <<>> /\ pending' = <<>> /\ awaiting' = None /\ request' = None

-----------------------------------------------------------------------------
(* -------------------------------- Kelpie -------------------------------- *)

MessageArrives(m) ==
  /\ m \notin held \cup settled
  /\ held' = held \cup {m}
  /\ wire' = IF connected THEN Append(wire, Delivery(m)) ELSE wire
  /\ UNCHANGED <<settled, request, connected, pending, awaiting, acks, queue, drops>>

KelpieReplies ==
  /\ request # None
  /\ wire' = Append(wire, Reply(request, request \in held))
  /\ held' = held \ {request}
  /\ settled' = IF request \in held THEN settled \cup {request} ELSE settled
  /\ request' = None
  /\ UNCHANGED <<connected, pending, awaiting, acks, queue, drops>>

(* ------------------------------ the thread ------------------------------ *)

\* Mutant: a claim is not answered with what is held.
ClaimOffersNothing ==
  /\ ~connected
  /\ connected' = TRUE
  /\ UNCHANGED <<held, settled, request, wire, pending, awaiting, acks, queue, drops>>

\* InboxConn::claim: the claim is answered, then what is held is offered.
Claim ==
  /\ ~connected
  /\ connected' = TRUE
  /\ wire' = SetToSeq({Delivery(m) : m \in held})
  /\ UNCHANGED <<held, settled, request, pending, awaiting, acks, queue, drops>>

\* read_json: a delivery put aside comes before the socket.
NextLine == IF pending # <<>> THEN Head(pending) ELSE Head(wire)
CanRead == connected /\ (pending # <<>> \/ wire # <<>>)
TakeLine ==
  IF pending # <<>> THEN pending' = Tail(pending) /\ UNCHANGED wire
                    ELSE wire' = Tail(wire) /\ UNCHANGED pending

\* drain_inbox sends every acknowledgement it has before it reads again.
StartAck ==
  /\ connected /\ awaiting = None /\ acks # <<>>
  /\ awaiting' = Head(acks) /\ request' = Head(acks) /\ acks' = Tail(acks)
  /\ UNCHANGED <<kelpie, connected, wire, pending, queue, drops>>

Forward ==
  /\ CanRead /\ awaiting = None /\ acks = <<>>
  /\ TakeLine
  /\ queue' = IF IsDelivery(NextLine) THEN Append(queue, NextLine.of) ELSE queue
  /\ UNCHANGED <<kelpie, request, connected, awaiting, acks, drops>>

\* Mutant: a delivery read while waiting for a reply is forgotten.
SetAsideLost ==
  /\ CanRead /\ awaiting # None /\ IsDelivery(NextLine)
  /\ TakeLine
  /\ UNCHANGED <<kelpie, request, connected, awaiting, acks, queue, drops>>

\* ack_inner: a delivery read in place of the reply goes to the back of pending.
SetAside ==
  /\ CanRead /\ awaiting # None /\ IsDelivery(NextLine)
  /\ IF pending # <<>>
       THEN pending' = Append(Tail(pending), Head(pending)) /\ UNCHANGED wire
       ELSE pending' = <<Head(wire)>> /\ wire' = Tail(wire)
  /\ UNCHANGED <<kelpie, request, connected, awaiting, acks, queue, drops>>

AckAccepted ==
  /\ CanRead /\ awaiting # None /\ NextLine = Reply(awaiting, TRUE)
  /\ TakeLine
  /\ awaiting' = None
  /\ UNCHANGED <<kelpie, request, connected, acks, queue, drops>>

AckRefused ==
  /\ CanRead /\ awaiting # None /\ NextLine = Reply(awaiting, FALSE)
  /\ Disconnect
  /\ UNCHANGED <<kelpie, acks, queue, drops>>

\* The socket fails, or the reply does not come within its five seconds: seen
\* only by reading the socket, which waits behind what was put aside.
Drop ==
  /\ connected /\ pending = <<>> /\ drops < MaxDrops
  /\ drops' = drops + 1
  /\ Disconnect
  /\ UNCHANGED <<kelpie, acks, queue>>

(* ------------------------------- the host ------------------------------- *)

HostHandles ==
  /\ queue # <<>>
  /\ queue' = Tail(queue)
  /\ acks' = IF Head(queue) \in Unanswerable THEN acks ELSE Append(acks, Head(queue))
  /\ UNCHANGED <<kelpie, request, connected, wire, pending, awaiting, drops>>

Thread == Claim \/ StartAck \/ Forward \/ SetAside \/ AckAccepted \/ AckRefused

Next ==
  \/ \E m \in Messages : MessageArrives(m)
  \/ KelpieReplies \/ Thread \/ Drop \/ HostHandles

Spec == Init /\ [][Next]_vars

\* The thread, Kelpie and the host keep running.
FairSpec ==
  Spec /\ WF_vars(Thread) /\ WF_vars(KelpieReplies) /\ WF_vars(HostHandles)

-----------------------------------------------------------------------------
\* While a connection lasts nothing is skipped: a message Kelpie still holds
\* is on its way to the host, with it, or on its way back as acknowledged.
NothingSkipped ==
  connected =>
    \A m \in held \ Unanswerable :
      \/ Delivery(m) \in ToSet(wire) \cup ToSet(pending)
      \/ m \in ToSet(queue) \cup ToSet(acks) \cup {request}

\* What holds of the inbox thread in every state.
InboxIsSound == InboxTypeOK /\ NothingSkipped

\* A delivery overtook the reply the thread waits for: read_json gives the set
\* aside delivery back before the socket, for as long as the wait lasts.
Overtaken == awaiting # None /\ pending # <<>>

\* Short of that, every message the host answers is settled, whatever drops,
\* duplicate offers and refused acknowledgements come before.
SettledUnlessOvertaken ==
  \A m \in Messages \ Unanswerable : m \in held ~> m \in settled \/ Overtaken

\* Refuted by TLC (README, "Where the code parts from its documents"):
\* "pending empties after inbox.ack" (docs/testing.md): with the connection no
\* longer failing, every message the host answers is settled.
PendingEmpties ==
  \A m \in Messages \ Unanswerable : m \in held ~> m \in settled
=============================================================================
