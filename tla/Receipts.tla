------------------------------- MODULE Receipts --------------------------------
(***************************************************************************)
(* How the host reads what Kelpie's command line did for it.  A command    *)
(* ends in a process outcome: whether it started, took its body, succeeded *)
(* and printed JSON, and the receipt in it.  A field a receipt does not    *)
(* have is Missing; the reading is a value or the kind of an error.        *)
(***************************************************************************)
EXTENDS Naturals, SequencesExt

CONSTANTS
  Waiter,       \* the logical agent of the host
  Missing

Refusal(kind) == [ok |-> FALSE, error |-> kind]
Read(value) == [ok |-> TRUE, value |-> value]

-----------------------------------------------------------------------------
(* ------------------------------- processes ------------------------------ *)

\* ProcessRunner::run and invoke: a body that could not be written matters only
\* if the command succeeded; output that is no receipt is an error either way.
Invoke(process) ==
  IF ~process.started THEN Refusal("io")
  ELSE IF process.success /\ ~process.fed THEN Refusal("io")
  ELSE IF ~process.json THEN Refusal(IF process.success THEN "invalid" ELSE "rejected")
  ELSE Read(process)

\* occupant_alias_unbound
Unbound(receipt) == receipt.error = "conflict" /\ receipt.message = "unbound"

\* already_adopted_incarnation: the incarnation a conflict names.
AlreadyAdopted(receipt) ==
  IF receipt.error = "conflict" /\ receipt.message = "adopted" THEN receipt.names ELSE Missing

\* result and field: a receipt of success still carries no error, and all that
\* is read of it.
Fields(receipt, names) ==
  receipt.error = Missing /\ \A name \in names : receipt[name] # Missing

Identity(receipt) == [agent |-> receipt.agent, incarnation |-> receipt.incarnation]

\* Every command that only has to succeed: tell, cancel, retire.
Done(process) ==
  LET output == Invoke(process)
  IN IF ~output.ok THEN output
     ELSE IF ~process.success THEN Refusal("rejected") ELSE Read("done")

(* ------------------------------- identities ----------------------------- *)

\* register_waiter_with_key: only a waiter with a socket inbox will do.
RegisterWaiter(process) ==
  LET output == Invoke(process)
  IN IF ~output.ok THEN output
     ELSE IF ~process.success THEN Refusal("rejected")
     ELSE IF ~Fields(process.receipt, {"agent", "transport"})
             \/ process.receipt.transport # "socket_inbox" THEN Refusal("invalid")
     ELSE Read(process.receipt.agent)

\* occupant_whoami, resolve_recipient
Whoami(process) ==
  LET output == Invoke(process)
  IN IF ~output.ok THEN output
     ELSE IF ~process.success
       THEN Refusal(IF Unbound(process.receipt) THEN "unavailable" ELSE "rejected")
     ELSE IF ~Fields(process.receipt, {"agent", "incarnation"}) THEN Refusal("invalid")
     ELSE Read(Identity(process.receipt))

\* A recipient other than the one that was recorded is refused.
Expecting(read, recorded) ==
  IF read.ok /\ recorded # Missing /\ read.value.agent # recorded THEN Refusal("invalid") ELSE read

\* occupant_ids
OccupantIds(whoami, recorded) == Expecting(Whoami(whoami), recorded)

\* identity_from_whoami: a pane that was adopted before is the name's only if
\* the name answers with the incarnation that holds it.
IdentityFromWhoami(whoami, incarnation) ==
  LET read == Whoami(whoami)
  IN IF read.ok /\ read.value.incarnation # incarnation THEN Refusal("invalid")
     ELSE IF ~read.ok /\ read.error = "unavailable" THEN Refusal("rejected")
     ELSE read

\* bind_agent
BindAgent(adopt, whoami) ==
  LET output == Invoke(adopt)
      holder == AlreadyAdopted(adopt.receipt)
  IN IF ~output.ok THEN output
     ELSE IF ~adopt.success
       THEN IF holder # Missing THEN IdentityFromWhoami(whoami, holder) ELSE Refusal("rejected")
     ELSE IF ~Fields(adopt.receipt, {"agent", "incarnation", "outcome"})
             \/ adopt.receipt.outcome # "succeeded" THEN Refusal("invalid")
     ELSE Read(Identity(adopt.receipt))

\* adopt_occupant
AdoptOccupant(adopt, whoami, recorded) == Expecting(BindAgent(adopt, whoami), recorded)

(* -------------------------------- restarts ------------------------------ *)

\* resolve_name: who continues the name; Missing if nothing ever held it.
ResolveName(process) ==
  LET output == Invoke(process)
  IN IF ~output.ok THEN output
     ELSE IF ~process.success
       THEN IF Unbound(process.receipt) THEN Read(Missing) ELSE Refusal("rejected")
     ELSE IF ~Fields(process.receipt, {"agent"}) THEN Refusal("invalid")
     ELSE Read(process.receipt.agent)

\* release: a command of Herdr that failed is refused, whatever it printed.
Release(process) ==
  IF ~process.started THEN Refusal("io")
  ELSE IF ~process.success THEN Refusal("rejected")
  ELSE Read("done")

\* What is read of Herdr has to be JSON.
Herdr(process) ==
  LET output == Release(process)
  IN IF output.ok /\ ~process.json THEN Refusal("invalid") ELSE output

\* claimed_pane, occupant_pane: a pane has both of its ids.
IsWhole(pane) == pane.pane # Missing /\ pane.terminal # Missing

\* Where the panes of a name in a corpus stand in the list.
Holders(panes, name, corpus) ==
  {i \in DOMAIN panes : panes[i].name = name /\ panes[i].cwd = corpus /\ IsWhole(panes[i])}

\* Mutant: the first pane of the name is the one to close.
ClaimedFirst(process, name, corpus) ==
  LET output == Herdr(process)
      panes == process.receipt.panes
      holders == Holders(panes, name, corpus)
  IN IF ~output.ok THEN output ELSE Read(IF holders = {} THEN Missing ELSE panes[Min(holders)].pane)

\* claimed: the only pane of the name in the corpus, if any; of two, neither.
Claimed(process, name, corpus) ==
  LET output == Herdr(process)
      panes == process.receipt.panes
      holders == Holders(panes, name, corpus)
  IN IF ~output.ok THEN output
     ELSE IF \E i, j \in holders : i # j THEN Refusal("ambiguous")
     ELSE Read(IF holders = {} THEN Missing ELSE panes[Min(holders)].pane)

\* allocate
Allocate(process) ==
  LET output == Herdr(process)
  IN IF ~output.ok THEN output
     ELSE IF process.receipt.panes = <<>> \/ ~IsWhole(process.receipt.panes[1]) THEN Refusal("invalid")
     ELSE Read(process.receipt.panes[1].pane)

\* start_occupant_with_receipt, as the agent that continues the name.
StartOccupant(process, agent) ==
  LET output == Invoke(process)
  IN IF ~output.ok THEN output
     ELSE IF ~process.success THEN Refusal("rejected")
     ELSE IF ~Fields(process.receipt, {"agent", "incarnation", "outcome"})
             \/ process.receipt.outcome # "succeeded" THEN Refusal("invalid")
     ELSE Expecting(Read(Identity(process.receipt)), agent)

\* restart_occupant: the pane that holds the name is closed, the name resolved,
\* a pane allocated, and the agent started; the first error ends it.  The
\* result also says what was done on the way.
RestartOccupant(day, name, corpus) ==
  LET husk == Claimed(day.list, name, corpus)
      closes == husk.ok /\ husk.value # Missing
      resolved == ResolveName(day.who)
      pane == Allocate(day.create)
      reaches == husk.ok /\ (closes => Release(day.close).ok) /\ resolved.ok /\ pane.ok
  IN [closed |-> IF closes THEN husk.value ELSE Missing,
      starts |-> IF reaches THEN <<[as |-> resolved.value, in |-> pane.value]>> ELSE <<>>,
      started |-> IF reaches THEN StartOccupant(day.start, resolved.value) ELSE Refusal("earlier")]

(* --------------------------------- asks --------------------------------- *)

AskReceipt(ask, to, incarnation, delivery) ==
  [ask |-> ask, to |-> to, incarnation |-> incarnation, delivery |-> delivery]

\* pending_ask_id: where what the recipient owes the host stands, with an ask to name.
OwedToHost(owed) == {i \in DOMAIN owed : owed[i].to = Waiter /\ owed[i].ask # Missing}

\* pending_ask_id: the host takes the only one, and refuses to choose.
PendingAsk(process) ==
  LET output == Invoke(process)
      owed == process.receipt.owed
      asks == OwedToHost(owed)
  IN IF ~output.ok THEN output
     ELSE IF ~process.success THEN Refusal("rejected")
     ELSE IF ~\E i \in asks : asks = {i} THEN Refusal("invalid")
     ELSE Read(owed[Min(asks)].ask)

Deliveries == {"accepted", "unknown", "rejected", "target_unavailable"}

\* The outcomes a failed ask may report and still have left an obligation.
Uncertain ==
  [class \in {"unknown_outcome", "rejected", "target_unavailable"} |->
     IF class = "unknown_outcome" THEN "unknown" ELSE class]

\* ask_named: whoami, the ask under its key, and, if that failed with a class
\* that may have left an obligation, what is pending.
AskNamed(day, recorded) ==
  LET recipient == Expecting(Whoami(day.whoami), recorded)
      output == Invoke(day.ask)
      receipt == day.ask.receipt
      pending == PendingAsk(day.pending)
  IN IF ~recipient.ok THEN recipient
     ELSE IF ~output.ok THEN output
     ELSE IF day.ask.success
       THEN IF ~Fields(receipt, {"ask", "operation", "agent", "outcome"})
               \/ receipt.outcome \notin Deliveries THEN Refusal("invalid")
            ELSE Read(AskReceipt(receipt.ask, receipt.agent, receipt.incarnation, receipt.outcome))
     ELSE IF receipt.error \notin DOMAIN Uncertain THEN Refusal("rejected")
     ELSE IF ~pending.ok THEN pending
     ELSE Read(AskReceipt(pending.value, recipient.value.agent, recipient.value.incarnation,
                          Uncertain[receipt.error]))

\* tell_occupant: what is said to a name is sent to the incarnation that answers.
TellOccupant(whoami, tell) ==
  LET recipient == Whoami(whoami)
  IN IF ~recipient.ok THEN recipient ELSE Done(tell)
=============================================================================
