------------------------------ MODULE HostState ------------------------------
(***************************************************************************)
(* Everything the turn-handling half of the host reads and writes: the     *)
(* turns table, the `outbound_attempts` table, the relay and Kelpie as the *)
(* host sees them, and the position of the single host task (`serve`) in   *)
(* the handler it is running.  Handlers never interleave with each other,  *)
(* but a crash, or a storage error, may come between any two commits.      *)
(***************************************************************************)
EXTENDS TurnTable

CONSTANTS
  Bodies,        \* texts an occupant may send
  Empty,         \* the body that is blank once trimmed
  Refused,       \* bodies the output guard refuses
  NoticeBody,    \* DISPATCH_FAILURE_NOTICE
  Tells,         \* message ids of occupant tells
  Times,         \* clock readings an event may be prepared at
  RetryCap,      \* OUTBOUND_RETRY_CAP
  LongOutage,    \* bound: whether dispatch can fail for the whole bound
  NoEvent,       \* no prepared event id
  NoKey,         \* the host works on no attempt
  NoMsg          \* the host works on the tick, not on a delivery

ASSUME HostStateAssumption ==
  /\ Refused \subseteq Bodies \ {Empty}
  /\ NoticeBody \notin Refused
  /\ RetryCap \in Nat \ {0} /\ LongOutage \in BOOLEAN
  /\ Tells \cap (Triggers \cup Nat) = {}
  /\ Triggers \cap Nat = {}
  /\ NoKey \notin Tells \cup Triggers \cup Nat
  /\ NoEvent \notin [body : Bodies \cup {Empty, NoticeBody}, created : Times]
  /\ NoMsg \notin [kind : {"final"}, key : Nat, body : Bodies]
                    \cup [kind : {"tell"}, key : Tells, body : Bodies]

VARIABLES
  attempt,       \* outbound_attempts, by key
  relay,         \* events the relay stored: the key they answer and their id
  ask,           \* Kelpie's side of each ask
  held,          \* messages Kelpie has not seen acknowledged
  settled,       \* messages acknowledged
  offered,       \* messages of this connection the host has not consumed
  authorized,    \* triggers whose requester the loaded configuration admits
  at,            \* the next commit or call of the running handler
  cur,           \* the turn, tell or notice the handler works on
  msg,           \* the delivery being handled, NoMsg on the tick
  todo           \* sessions resume_queued has still to look at

outVars == <<attempt, relay>>
kelpieVars == <<ask, held, settled, offered>>
taskVars == <<at, cur, msg, todo>>

\* An attempt is keyed by its ask, by a tell's message id, or, for the notice
\* of an undispatched turn, by "failure:" and the trigger: here the trigger.
Keys == Seqs \cup Tells \cup Triggers

Texts == Bodies \cup {Empty, NoticeBody}

\* An event id is a hash of the stamped body and the fixed timestamp.
EventIds == [body : Texts, created : Times]

Attempts ==
  [recorded : BOOLEAN, body : Texts, prepared : EventIds \cup {NoEvent},
   dispatched : BOOLEAN, accepted : BOOLEAN, abandoned : BOOLEAN,
   retries : 0..RetryCap]

NoAttempt ==
  [recorded |-> FALSE, body |-> Empty, prepared |-> NoEvent,
   dispatched |-> FALSE, accepted |-> FALSE, abandoned |-> FALSE, retries |-> 0]

RelayEvents == [key : Keys, id : EventIds \cup {NoEvent}]

Finals == [kind : {"final"}, key : Seqs, body : Bodies]

TellMsgs == [kind : {"tell"}, key : Tells, body : Bodies]

Messages == Finals \cup TellMsgs

PublishSteps ==
  {"save", "claim", "prepare", "send", "undo", "release", "accept", "post",
   "fail", "stop", "ack", "abandon", "unclaim", "drop"}

DispatchSteps ==
  {"ask", "resume", "resumeAsk", "askFailed", "failQueued", "notice",
   "openTurn", "cancelAsk"}

Steps == {"down", "idle"} \cup PublishSteps \cup DispatchSteps

HostTypeOK ==
  /\ TableTypeOK
  /\ attempt \in [Keys -> Attempts]
  /\ relay \subseteq RelayEvents
  /\ ask \in [Seqs -> {"none", "asked", "cancelled"}]
  /\ held \subseteq Messages
  /\ settled \subseteq Messages
  /\ offered \subseteq Messages
  /\ authorized \subseteq Triggers
  /\ at \in Steps
  /\ cur \in Keys \cup {NoKey}
  /\ msg \in Messages \cup {NoMsg}
  /\ todo \subseteq Channels

-----------------------------------------------------------------------------
\* Where the host task goes next.
Goto(step) == at' = step /\ UNCHANGED <<cur, msg, todo>>

Return == at' = "idle" /\ cur' = NoKey /\ msg' = NoMsg /\ todo' = {}

StartResume == at' = "resume" /\ cur' = NoKey /\ msg' = NoMsg /\ todo' = Channels
=============================================================================
