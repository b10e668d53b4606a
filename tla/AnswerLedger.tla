----------------------------- MODULE AnswerLedger -----------------------------
(***************************************************************************)
(* What the host promises its channels, whatever it does inside: every     *)
(* request of a session waits, is worked on alone and in order, and ends   *)
(* answered or closed.  A request shows at most one answer, shows it only  *)
(* while it is worked on, and is answered only once it shows one.          *)
(***************************************************************************)
EXTENDS Integers

CONSTANTS
  Requests,     \* numbers, in the order they are accepted
  Sessions,
  NoSession,    \* not one of Sessions
  Answers

VARIABLES
  status,       \* how far the request has come
  session,      \* the session it was accepted in
  shown         \* the answers the channel shows for it

ledger == <<status, session, shown>>

Accepted == {r \in Requests : status[r] # "none"}

Working(s) == {r \in Requests : session[r] = s /\ status[r] = "working"}

Waiting(s) == {r \in Requests : session[r] = s /\ status[r] = "waiting"}

\* Nothing was asked yet, or one request was already being worked on.
Init ==
  /\ session \in [Requests -> Sessions \cup {NoSession}]
  /\ status = [r \in Requests |-> IF session[r] = NoSession THEN "none" ELSE "working"]
  /\ \A r, other \in Accepted : r = other
  /\ \E r \in Requests, before \in SUBSET Answers :
       /\ \A one, other \in before : one = other
       /\ shown = [x \in Requests |-> IF x = r /\ status[x] = "working" THEN before ELSE {}]

\* The next request is accepted, and the one it replaces, if any, is closed.
Accept(r, s, replaced) ==
  /\ status[r] = "none" /\ s \in Sessions
  /\ \A x \in Accepted : x < r
  /\ \A x \in replaced : status[x] \in {"waiting", "working"} /\ session[x] = s
  /\ \A x, y \in replaced : x = y
  /\ status' = [x \in Requests |->
       IF x = r THEN "waiting" ELSE IF x \in replaced THEN "closed" ELSE status[x]]
  /\ session' = [session EXCEPT ![r] = s]
  /\ UNCHANGED shown

Begin(r) ==
  /\ status[r] = "waiting"
  /\ Working(session[r]) = {}
  /\ \A x \in Waiting(session[r]) : r <= x
  /\ status' = [status EXCEPT ![r] = "working"]
  /\ UNCHANGED <<session, shown>>

Show(r, a) ==
  /\ status[r] = "working" /\ shown[r] = {}
  /\ shown' = [shown EXCEPT ![r] = {a}]
  /\ UNCHANGED <<status, session>>

Answer(r) ==
  /\ status[r] = "working" /\ shown[r] # {}
  /\ status' = [status EXCEPT ![r] = "answered"]
  /\ UNCHANGED <<session, shown>>

Close(r) ==
  /\ status[r] \in {"waiting", "working"}
  /\ status' = [status EXCEPT ![r] = "closed"]
  /\ UNCHANGED <<session, shown>>

Next ==
  \E r \in Requests :
    \/ \E s \in Sessions, replaced \in SUBSET Requests : Accept(r, s, replaced)
    \/ Begin(r) \/ Answer(r) \/ Close(r)
    \/ \E a \in Answers : Show(r, a)

Spec == Init /\ [][Next]_ledger
=============================================================================
