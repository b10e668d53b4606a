------------------------------ MODULE TurnTable ------------------------------
(***************************************************************************)
(* The `turns` table of the host database: one row per turn, numbered by   *)
(* its autoincrement sequence, and the statements of SqliteRepository that *)
(* change it.  A turn answers one trigger event of one channel; a channel  *)
(* is one occupant session.  Every operator below is one SQLite            *)
(* transaction, so a crash leaves all of it or none of it.                 *)
(***************************************************************************)
EXTENDS Integers

CONSTANTS
  Triggers,     \* relay events that trigger a bot
  Channels,     \* (bot, channel) sessions
  ChannelOf,    \* the session a trigger belongs to
  MaxTurns      \* bound: rows the turns table may reach

ASSUME TurnTableAssumption ==
  /\ Triggers # {}
  /\ ChannelOf \in [Triggers -> Channels]
  /\ MaxTurns \in Nat \ {0}

VARIABLES
  state,        \* turns.state, "absent" for a row not inserted yet
  trigger,      \* turns.event_id
  claimed,      \* turns.publish_claimed
  opened,       \* rows whose ask_id is set
  lastSeq,      \* the highest sequence inserted
  failedAt,     \* rows whose dispatch_failed_at is set
  processed     \* processed_events

tableVars == <<state, trigger, claimed, opened, lastSeq, failedAt, processed>>

Seqs == 1..MaxTurns

States == {"absent", "queued", "open", "posted", "failed", "cancelled"}

Terminal == {"posted", "failed", "cancelled"}

LegalTransitions ==
  ({"queued"} \X {"open", "failed", "cancelled"})
    \cup ({"open"} \X {"posted", "failed", "cancelled"})

TableTypeOK ==
  /\ state \in [Seqs -> States]
  /\ trigger \in [Seqs -> Triggers]
  /\ claimed \in [Seqs -> BOOLEAN]
  /\ opened \subseteq Seqs
  /\ lastSeq \in 0..MaxTurns
  /\ failedAt \subseteq Seqs
  /\ processed \subseteq Triggers

Live(n) == state[n] \in {"queued", "open"}

ChannelOfTurn(n) == ChannelOf[trigger[n]]

HasOpen(c) == \E n \in Seqs : state[n] = "open" /\ ChannelOfTurn(n) = c

\* Mutant: any queued turn of the session may be next.
IsSomeQueued(n) == state[n] = "queued" /\ ~HasOpen(ChannelOfTurn(n))

\* The turn `ORDER BY sequence LIMIT 1` finds when nothing is open.
IsNext(n) ==
  /\ state[n] = "queued"
  /\ ~HasOpen(ChannelOfTurn(n))
  /\ \A m \in Seqs :
       state[m] = "queued" /\ ChannelOfTurn(m) = ChannelOfTurn(n) => n <= m

-----------------------------------------------------------------------------
InsertQueued(e) ==
  /\ lastSeq < MaxTurns
  /\ lastSeq' = lastSeq + 1
  /\ trigger' = [trigger EXCEPT ![lastSeq + 1] = e]

\* Mutant: the row is inserted without asking whether the event was processed.
EnqueueAnyway(e) ==
  /\ processed' = processed \cup {e}
  /\ InsertQueued(e)
  /\ state' = [state EXCEPT ![lastSeq + 1] = "queued"]
  /\ UNCHANGED <<claimed, opened, failedAt>>

\* Mutant: only a live turn of the event counts as already processed.
EnqueueUnlessLive(e) ==
  /\ \A n \in Seqs : Live(n) => trigger[n] # e
  /\ EnqueueAnyway(e)

\* enqueue_unprocessed_turn: the processed mark and the row are one commit.
EnqueueUnprocessed(e) ==
  /\ e \notin processed
  /\ processed' = processed \cup {e}
  /\ InsertQueued(e)
  /\ state' = [state EXCEPT ![lastSeq + 1] = "queued"]
  /\ UNCHANGED <<claimed, opened, failedAt>>

\* set_turn_state: nothing happens unless the transition is legal.
SetTurnState(n, to) ==
  /\ IF <<state[n], to>> \in LegalTransitions /\ (to = "cancelled" => ~claimed[n])
       THEN /\ state' = [state EXCEPT ![n] = to]
            /\ claimed' = [claimed EXCEPT ![n] = FALSE]
       ELSE UNCHANGED <<state, claimed>>
  /\ UNCHANGED <<trigger, opened, lastSeq, failedAt, processed>>

\* claim_turn_for_publish: taken once, and only while the turn is open.
ClaimForPublish(n) ==
  /\ claimed' = [claimed EXCEPT ![n] = @ \/ state[n] = "open"]
  /\ UNCHANGED <<state, trigger, opened, lastSeq, failedAt, processed>>

ReleasePublishClaim(n) ==
  /\ claimed' = [claimed EXCEPT ![n] = @ /\ state[n] # "open"]
  /\ UNCHANGED <<state, trigger, opened, lastSeq, failedAt, processed>>

\* open_next_turn: the oldest queued turn of the channel takes the ask id.
OpenNextTurn(n) ==
  /\ IsNext(n)
  /\ state' = [state EXCEPT ![n] = "open"]
  /\ opened' = opened \cup {n}
  /\ UNCHANGED <<trigger, claimed, lastSeq, failedAt, processed>>

\* Mutant: a claimed turn can be cancelled too.
UnclaimedOrNot(n) == Live(n)

\* The WHERE clause shared by cancel_unclaimed_turn and replace_unclaimed_turn.
Unclaimed(n) == state[n] = "queued" \/ (state[n] = "open" /\ ~claimed[n])

CancelUnclaimed(n) ==
  /\ Unclaimed(n)
  /\ state' = [state EXCEPT ![n] = "cancelled"]
  /\ UNCHANGED <<trigger, claimed, opened, lastSeq, failedAt, processed>>

\* replace_unclaimed_turn: the cancel and the new queued row are one commit.
ReplaceUnclaimed(n) ==
  /\ Unclaimed(n)
  /\ InsertQueued(trigger[n])
  /\ state' = [state EXCEPT ![n] = "cancelled", ![lastSeq + 1] = "queued"]
  /\ UNCHANGED <<claimed, opened, failedAt, processed>>

\* Mutant: the time of the first failure is not kept.
ForgetDispatchFailure(n) == UNCHANGED tableVars

\* record_dispatch_failure: the first failure's time is kept.
RecordDispatchFailure(n) ==
  /\ failedAt' = IF state[n] = "queued" THEN failedAt \cup {n} ELSE failedAt
  /\ UNCHANGED <<state, trigger, claimed, opened, lastSeq, processed>>

\* fail_queued_turn and cancel_queued_turn.
CloseQueued(n, to) ==
  /\ state[n] = "queued"
  /\ state' = [state EXCEPT ![n] = to]
  /\ UNCHANGED <<trigger, claimed, opened, lastSeq, failedAt, processed>>
=============================================================================
