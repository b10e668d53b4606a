------------------------------- MODULE Progress -------------------------------
(***************************************************************************)
(* The progress post of one ask.  The delivery handler records the newest  *)
(* body; the tick creates the post after a hold, then hands an edit at a   *)
(* time, at an interval and up to a cap, to a background worker, and takes *)
(* in what the worker completed.  Cancelling the ask deletes the post.     *)
(***************************************************************************)
EXTENDS Integers, Sequences, FiniteSets

CONSTANTS
  Bodies,       \* what the occupant reports, trimmed and not empty
  None,
  Hold,         \* PROGRESS_INITIAL_HOLD_SECS
  Interval,     \* PROGRESS_EDIT_INTERVAL_SECS
  Cap,          \* PROGRESS_EDIT_CAP
  Refused,      \* the kinds of event the relay may refuse for good
  MaxTime,      \* bound: the last clock reading
  MaxHeard,     \* bound: progress deliveries
  MaxCrashes    \* bound: times the process stops

ASSUME ProgressAssumption ==
  /\ None \notin Bodies \cup (Bodies \X (0..MaxTime))
  /\ Refused \subseteq {"create", "delete"}
  /\ Hold \in Nat /\ Interval \in Nat /\ Cap \in Nat \ {0}
  /\ MaxTime \in Nat /\ MaxHeard \in Nat /\ MaxCrashes \in Nat

VARIABLES
  now,          \* seconds since the turn opened
  turn,         \* turns.state
  final,        \* the outbound attempt of the ask exists
  row,          \* progress_posts
  at,           \* the next commit or send of the host's task
  queue,        \* commands of the worker
  active,       \* operations queued and not drained
  done,         \* completions the worker sent
  drained,      \* completions this tick took
  posts,        \* create events on the relay
  deleted,      \* create events deleted on the relay
  shown,        \* the body the post shows
  newest,       \* history: the last body recorded
  seen,         \* history: what excuses a post that stays, and misplaced edits
  heard, crashes

worker == <<queue, active, done>>
relay == <<posts, deleted, shown>>
history == <<newest, seen>>
vars == <<now, turn, final, row, at, worker, drained, relay, history, heard, crashes>>

Ids == Bodies \X (0..MaxTime)
Command == [op : {"edit"}, body : Bodies] \cup [op : {"delete"}, body : {None}]
Completions ==
  [op : {"edit", "delete"}, body : Bodies \cup {None}, when : 0..MaxTime,
   result : {"accepted", "retry", "refused"}]

ProgressTypeOK ==
  /\ now \in 0..MaxTime /\ turn \in {"open", "posted", "failed", "cancelled"}
  /\ final \in BOOLEAN
  /\ row \in [made : BOOLEAN, pending : Bodies \cup {None}, body : Bodies \cup {None},
              prepared : Ids \cup {None}, event : BOOLEAN, edits : 0..Cap,
              last : -1..MaxTime, ended : BOOLEAN, delete : BOOLEAN]
  /\ at \in {"down", "idle", "apply", "send", "accept", "refuse", "close", "endProgress"}
  /\ queue \in Seq(Command) /\ Len(queue) <= 2 /\ active \subseteq {"edit", "delete"}
  /\ done \in Seq(Completions) /\ drained \in Seq(Completions)
  /\ posts \subseteq Ids /\ deleted \subseteq Ids
  /\ shown \in Bodies \cup {None} /\ newest \in Bodies \cup {None}
  /\ seen \subseteq {"editAfterDelete", "deleteRefused", "cut"}
  /\ heard \in 0..MaxHeard /\ crashes \in 0..MaxCrashes

NoRow ==
  [made |-> FALSE, pending |-> None, body |-> None, prepared |-> None, event |-> FALSE,
   edits |-> 0, last |-> -1, ended |-> FALSE, delete |-> FALSE]

Init ==
  /\ now = 0 /\ turn = "open" /\ final = FALSE /\ row = NoRow /\ at = "idle"
  /\ queue = <<>> /\ active = {} /\ done = <<>> /\ drained = <<>>
  /\ posts = {} /\ deleted = {} /\ shown = None
  /\ newest = None /\ seen = {} /\ heard = 0 /\ crashes = 0

Restart ==
  /\ at = "down" /\ at' = "idle"
  /\ UNCHANGED <<now, turn, final, row, worker, drained, relay, history, heard, crashes>>

\* The worker is a task of the process: what it had not sent is lost.
Crash ==
  /\ at # "down" /\ crashes < MaxCrashes
  /\ crashes' = crashes + 1 /\ at' = "down"
  /\ queue' = <<>> /\ active' = {} /\ done' = <<>> /\ drained' = <<>>
  /\ seen' = seen \cup (IF at \in {"endProgress", "close"} THEN {"cut"} ELSE {})
  /\ UNCHANGED <<now, turn, final, row, relay, newest, heard>>

Clock ==
  /\ at \in {"idle", "down"} /\ now < MaxTime /\ now' = now + 1
  /\ UNCHANGED <<turn, final, row, at, worker, drained, relay, history, heard, crashes>>

-----------------------------------------------------------------------------
(* ------------------------------- deliveries ----------------------------- *)

AtCap(r) == r.event /\ r.edits >= Cap

\* drop_pending_at_cap
DropAtCap(r) == IF AtCap(r) THEN [r EXCEPT !.pending = None] ELSE r

\* record_progress; the delivery is acknowledged whatever comes of it.
RecordProgress(b) ==
  /\ at = "idle" /\ heard < MaxHeard /\ heard' = heard + 1
  /\ IF turn = "open" /\ ~final /\ ~row.ended
       THEN /\ row' = DropAtCap([row EXCEPT !.made = TRUE, !.pending = b])
            /\ newest' = IF AtCap(row) THEN newest ELSE b
       ELSE UNCHANGED <<row, newest>>
  /\ UNCHANGED <<now, turn, final, at, worker, drained, relay, seen, crashes>>

\* A final is recorded before it is sent.
FinalRecorded ==
  /\ at = "idle" /\ turn = "open" /\ ~final
  /\ final' = TRUE
  /\ UNCHANGED <<now, turn, row, at, worker, drained, relay, history, heard, crashes>>

\* discard_pending, when a final is posted or its body is refused.
DiscardPending ==
  /\ at = "idle" /\ turn = "open" /\ at' = "close"
  /\ row' = IF row.made THEN [row EXCEPT !.pending = None, !.ended = TRUE] ELSE row
  /\ UNCHANGED <<now, turn, final, worker, drained, relay, history, heard, crashes>>

CloseTurn ==
  /\ at = "close" /\ at' = "idle"
  /\ turn' = IF final THEN "posted" ELSE "failed"
  /\ UNCHANGED <<now, final, row, worker, drained, relay, history, heard, crashes>>

\* A final that cannot be published fails its turn and leaves the row alone.
FailTurn ==
  /\ at = "idle" /\ turn = "open" /\ final
  /\ turn' = "failed"
  /\ UNCHANGED <<now, final, row, at, worker, drained, relay, history, heard, crashes>>

(* -------------------------------- cancelling ---------------------------- *)

\* cancel_unclaimed_turn or replace_unclaimed_turn, and the cancel in Kelpie.
CancelTurn ==
  /\ at = "idle" /\ turn = "open"
  /\ turn' = "cancelled" /\ at' = "endProgress"
  /\ UNCHANGED <<now, final, row, worker, drained, relay, history, heard, crashes>>

\* Mutant: only a create that was accepted is deleted.
AcceptedTarget(r) == r.event

\* delete_target: a create that was prepared may have landed.
HasTarget(r) == r.event \/ r.prepared # None

\* One operation of a kind at a time.
Enqueue(op, body) ==
  IF op \in active THEN UNCHANGED <<queue, active>>
  ELSE queue' = Append(queue, [op |-> op, body |-> body]) /\ active' = active \cup {op}

\* delete_progress_post: the row ends before the delete is handed over.
EndProgress ==
  /\ at = "endProgress" /\ at' = "idle"
  /\ IF row.made /\ (~row.ended \/ row.delete)
       THEN /\ row' = [row EXCEPT !.ended = TRUE, !.pending = None, !.delete = HasTarget(row)]
            /\ IF HasTarget(row) THEN Enqueue("delete", None) ELSE UNCHANGED <<queue, active>>
       ELSE UNCHANGED <<row, queue, active>>
  /\ UNCHANGED <<now, turn, final, done, drained, relay, history, heard, crashes>>

-----------------------------------------------------------------------------
(* --------------------------------- the tick ----------------------------- *)

\* Mutant: a completed operation stays active.
TickForgets ==
  /\ at = "idle" /\ at' = "apply"
  /\ drained' = done /\ done' = <<>>
  /\ UNCHANGED <<active, now, turn, final, row, queue, relay, history, heard, crashes>>

\* drain_completions
BeginTick ==
  /\ at = "idle" /\ at' = "apply"
  /\ drained' = done /\ done' = <<>>
  /\ active' = active \ {done[i].op : i \in 1..Len(done)}
  /\ UNCHANGED <<now, turn, final, row, queue, relay, history, heard, crashes>>

\* Mutant: an edit clears whatever is pending.
ClearsPending(c) ==
  IF c.result = "accepted"
    THEN DropAtCap([row EXCEPT !.edits = @ + 1, !.last = c.when, !.pending = None])
    ELSE row

Edited(c) ==
  IF c.result = "accepted"
    THEN DropAtCap([row EXCEPT !.edits = @ + 1, !.last = c.when,
           !.pending = IF row.pending = c.body THEN None ELSE @])
    ELSE row

\* apply_relay_completions: one commit for each.
ApplyCompletion ==
  /\ at = "apply" /\ drained # <<>>
  /\ drained' = Tail(drained)
  /\ LET c == Head(drained)
     IN row' = IF c.op = "edit" THEN Edited(c)
               ELSE IF c.result = "retry" THEN row
               ELSE [row EXCEPT !.delete = FALSE]
  /\ UNCHANGED <<now, turn, final, at, worker, relay, history, heard, crashes>>

\* progress_posts_pending_flush
Selected ==
  \/ ~row.ended /\ (row.pending # None \/ (row.prepared # None /\ ~row.event))
  \/ row.delete

Flushing == at = "apply" /\ drained = <<>> /\ Selected

\* No relay once the final's attempt exists.
Relayed == Flushing /\ ~row.delete /\ ~row.ended /\ turn = "open" /\ ~final

CreateDue ==
  /\ Relayed /\ ~row.event
  /\ row.prepared # None \/ (row.pending # None /\ now >= Hold)

EditDue == Relayed /\ row.event /\ row.pending # None /\ now - row.last >= Interval

FlushWaits ==
  /\ at = "apply" /\ drained = <<>> /\ at' = "idle"
  /\ ~Selected \/ (Relayed /\ ~CreateDue /\ ~EditDue)
  /\ UNCHANGED <<now, turn, final, row, worker, drained, relay, history, heard, crashes>>

\* send_delete
FlushDelete ==
  /\ Flushing /\ row.delete /\ at' = "idle"
  /\ Enqueue("delete", None)
  /\ UNCHANGED <<now, turn, final, row, done, drained, relay, history, heard, crashes>>

\* The final landed or is landing: the post stays, what was pending is dropped.
FlushEnds ==
  /\ Flushing /\ ~row.delete /\ ~row.ended /\ (turn # "open" \/ final)
  /\ at' = "idle"
  /\ row' = [row EXCEPT !.pending = None, !.ended = turn # "open"]
  /\ UNCHANGED <<now, turn, final, worker, drained, relay, history, heard, crashes>>

\* The body and the time of the create are kept for every redelivery.
Prepared(r) ==
  LET body == IF r.body = None THEN r.pending ELSE r.body
  IN [r EXCEPT !.body = body,
        !.prepared = IF r.prepared = None THEN <<body, now>> ELSE @,
        !.pending = IF r.body = None THEN None ELSE @]

\* create_post and record_and_send: the create is recorded, then sent.
CreatePrepare ==
  /\ CreateDue /\ at' = "send"
  /\ row' = Prepared(row)
  /\ UNCHANGED <<now, turn, final, worker, drained, relay, history, heard, crashes>>

\* The guard refuses the body, or the event cannot be signed; what was prepared
\* once can be built again.
CreateUnbuildable ==
  /\ CreateDue /\ row.prepared = None /\ at' = "idle" /\ "create" \in Refused
  /\ row' = [row EXCEPT !.pending = None, !.ended = TRUE]
  /\ UNCHANGED <<now, turn, final, worker, drained, relay, history, heard, crashes>>

\* The relay stores an event once.
Land ==
  /\ posts' = posts \cup {row.prepared}
  /\ shown' = IF row.prepared \in posts THEN shown ELSE row.body
  /\ UNCHANGED deleted

SendAccepted ==
  /\ at = "send" /\ at' = "accept" /\ Land
  /\ UNCHANGED <<now, turn, final, row, worker, drained, history, heard, crashes>>

\* The send timed out: the event landed or it did not.
SendNotAccepted ==
  /\ at = "send" /\ at' = "idle"
  /\ Land \/ UNCHANGED relay
  /\ UNCHANGED <<now, turn, final, row, worker, drained, history, heard, crashes>>

SendRefused ==
  /\ at = "send" /\ at' = "refuse" /\ "create" \in Refused /\ row.prepared \notin posts
  /\ UNCHANGED <<now, turn, final, row, worker, drained, relay, history, heard, crashes>>

CreateAccepted ==
  /\ at = "accept" /\ at' = "idle"
  /\ row' = [row EXCEPT !.event = TRUE, !.last = now]
  /\ UNCHANGED <<now, turn, final, worker, drained, relay, history, heard, crashes>>

CreateRefused ==
  /\ at = "refuse" /\ at' = "idle"
  /\ row' = [row EXCEPT !.pending = None, !.ended = TRUE]
  /\ UNCHANGED <<now, turn, final, worker, drained, relay, history, heard, crashes>>

\* edit_post
FlushEdit ==
  /\ EditDue /\ at' = "idle"
  /\ Enqueue("edit", row.pending)
  /\ UNCHANGED <<now, turn, final, row, done, drained, relay, history, heard, crashes>>

(* -------------------------------- the worker ---------------------------- *)

Complete(command, result) ==
  /\ queue' = Tail(queue)
  /\ done' = Append(done, [op |-> command.op, body |-> command.body, when |-> now, result |-> result])
  /\ UNCHANGED <<now, turn, final, row, at, active, drained, posts, newest, heard, crashes>>

\* An edit or a delete that timed out may have landed.
WorkerEdits(result, lands) ==
  /\ at # "down" /\ queue # <<>> /\ Head(queue).op = "edit"
  /\ IF lands
       THEN /\ shown' = Head(queue).body
            /\ seen' = IF deleted = {} THEN seen ELSE seen \cup {"editAfterDelete"}
       ELSE UNCHANGED <<shown, seen>>
  /\ UNCHANGED deleted
  /\ Complete(Head(queue), result)

WorkerDeletes(result, lands) ==
  /\ at # "down" /\ queue # <<>> /\ Head(queue).op = "delete"
  /\ deleted' = IF lands THEN deleted \cup {row.prepared} ELSE deleted
  /\ seen' = seen \cup (IF result = "refused" THEN {"deleteRefused"} ELSE {})
  /\ UNCHANGED shown
  /\ Complete(Head(queue), result)

Accepted == WorkerEdits("accepted", TRUE) \/ WorkerDeletes("accepted", TRUE)

NotAccepted ==
  \/ \E lands \in BOOLEAN : WorkerEdits("retry", lands) \/ WorkerDeletes("retry", lands)
  \/ "delete" \in Refused /\ WorkerDeletes("refused", FALSE)

-----------------------------------------------------------------------------
Handler ==
  \/ CloseTurn \/ EndProgress \/ ApplyCompletion \/ FlushWaits \/ FlushDelete \/ FlushEnds
  \/ CreatePrepare \/ FlushEdit \/ CreateAccepted \/ CreateRefused
  \/ SendAccepted \/ SendNotAccepted

Deliveries ==
  \/ \E b \in Bodies : RecordProgress(b)
  \/ FinalRecorded \/ DiscardPending \/ FailTurn \/ CancelTurn

Next ==
  \/ Handler \/ Deliveries \/ BeginTick \/ CreateUnbuildable \/ SendRefused
  \/ Accepted \/ NotAccepted \/ Restart \/ Crash \/ Clock

Spec == Init /\ [][Next]_vars

\* Handlers go on, the tick and a restart come, the worker runs, and the relay
\* accepts what is sent to it again and again.
FairSpec ==
  /\ Spec
  /\ WF_vars(Restart) /\ WF_vars(Handler) /\ SF_vars(BeginTick)
  /\ WF_vars(Accepted \/ NotAccepted) /\ SF_vars(Accepted) /\ SF_vars(SendAccepted)

-----------------------------------------------------------------------------
\* One post per ask (I17): a create sent again is the same event.
OnePost == Cardinality(posts) <= 1

\* When nothing is pending and the post stands, it shows the newest body the
\* occupant reported, though bodies arrive while an edit is under way.
QuietShowsNewest ==
  turn = "open" /\ ~final /\ ~row.ended /\ row.event /\ row.pending = None /\ row.edits < Cap
  => shown = newest

\* At most one edit an interval is counted, whenever its completion is applied.
CountedEditsAreSpaced ==
  [][row'.edits > row.edits => row'.last >= row.last + Interval]_row

\* No edit reaches the relay after the delete.
NoEditAfterDelete == "editAfterDelete" \notin seen

\* What holds of the progress post in every state.
PostIsSound == ProgressTypeOK /\ OnePost /\ QuietShowsNewest /\ NoEditAfterDelete

\* A body whose time has come is relayed, dropped at the cap, or ends with its
\* turn, however often its sends fail and though the process stops.
Due == /\ turn = "open" /\ ~final /\ ~row.ended /\ row.pending # None
       /\ IF row.event THEN now - row.last >= Interval ELSE now >= Hold

DueIsRelayed == Due ~> ~Due

\* The post keeps pace with its bodies: no faster than the interval, and not
\* without end behind them.
PostKeepsPace == CountedEditsAreSpaced /\ DueIsRelayed

\* The post of a cancelled ask is deleted, also one whose create timed out, unless
\* the relay refuses or the process stopped between the commit that ended the turn,
\* or was to end it, and the one that ended the row (flow 10).
CancelledPostIsDeleted ==
  turn = "cancelled" ~> posts \subseteq deleted \/ seen \cap {"deleteRefused", "cut"} # {}
=============================================================================
