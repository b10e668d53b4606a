---------------------------- MODULE ProgressSafety ----------------------------
(***************************************************************************)
(* The safety of a progress post, for every set of bodies, every hold,     *)
(* interval and cap, and any number of deliveries and crashes: one post    *)
(* per ask, which shows the newest body when it is quiet, is edited no     *)
(* faster than the interval, and is never edited after its delete.         *)
(***************************************************************************)
EXTENDS Progress, FiniteSetTheorems, TLAPS

Holds(s, op) == \E i \in 1..Len(s) : s[i].op = op

\* An operation is under way from its queueing to the commit that applies it.
UnderWay(op) == Holds(queue, op) \/ Holds(done, op) \/ Holds(drained, op)

Apart(s) == \A i, j \in 1..Len(s) : s[i].op = s[j].op => i = j

\* One operation of a kind is under way at a time, and is active until drained.
WorkerKnown ==
  /\ Apart(queue) /\ Apart(done) /\ Apart(drained)
  /\ \A op \in {"edit", "delete"} :
       /\ Holds(queue, op) => op \in active /\ ~Holds(done, op) /\ ~Holds(drained, op)
       /\ Holds(done, op) => op \in active /\ ~Holds(drained, op)
  /\ drained # <<>> => at = "apply"

\* What the row says of the relay: the create is recorded before it is sent,
\* and accepted only when the relay has it.
PostKnown ==
  /\ row.body = None <=> row.prepared = None
  /\ ~row.event => row.edits = 0
  /\ posts \subseteq {row.prepared} \ {None}
  /\ row.event => row.prepared \in posts
  /\ at \in {"send", "accept", "refuse"} => row.prepared # None /\ ~row.event
  /\ at = "accept" => row.prepared \in posts
  /\ row.prepared \in posts /\ ~row.event => shown = row.body
  /\ row.delete \/ UnderWay("delete") => row.prepared # None

\* The newest body is pending, or it is the one that the create carries; at the
\* cap nothing is pending.
NewestKnown ==
  /\ row.pending # None => newest = row.pending
  /\ row.pending = None /\ row.prepared # None /\ ~row.event /\ ~row.ended /\ turn = "open" /\ ~final
       => newest = row.body
  /\ AtCap(row) => row.pending = None

\* An edit that completed was due when it did; if it was accepted the post shows it.
Timely(s) ==
  \A i \in 1..Len(s) :
    s[i].op = "edit" =>
      /\ s[i].when - row.last >= Interval
      /\ s[i].result = "accepted" => shown = s[i].body

\* An edit under way is of a post that stands, below its cap, and its body is
\* still pending, or a newer one is; it was due.
EditKnown ==
  /\ UnderWay("edit") =>
       /\ row.event /\ row.edits < Cap
       /\ turn = "open" /\ ~final /\ ~row.ended => row.pending # None
  /\ Holds(queue, "edit") => now - row.last >= Interval
  /\ Timely(done) /\ Timely(drained)

\* A delete follows the end of the row, and the edits queued before it.
DeleteKnown ==
  /\ deleted # {} \/ row.delete \/ Holds(queue, "delete") => row.ended
  /\ \A i \in 1..Len(queue) :
       queue[i].op = "edit" =>
         deleted = {} /\ \A j \in 1..(i - 1) : queue[j].op # "delete"

ProgressInv ==
  /\ ProgressTypeOK /\ WorkerKnown /\ PostKnown /\ NewestKnown /\ EditKnown /\ DeleteKnown
  /\ QuietShowsNewest /\ NoEditAfterDelete

-----------------------------------------------------------------------------
(* -------------------------------- sequences ----------------------------- *)

Ops == {"edit", "delete"}

\* The operations of a sequence grow by the one appended.
LEMMA HoldsAppended ==
  ASSUME NEW S, NEW s \in Seq(S), NEW e \in S, NEW op
  PROVE  Holds(Append(s, e), op) <=> (Holds(s, op) \/ e.op = op)
<1> DEFINE t == Append(s, e)
<1>1. Len(t) = Len(s) + 1 /\ t[Len(s) + 1] = e /\ \A i \in 1..Len(s) : t[i] = s[i]
  OBVIOUS
<1>2. Len(s) \in Nat
  OBVIOUS
<1> HIDE DEF t
<1>3. Holds(t, op) <=> (Holds(s, op) \/ e.op = op)
  BY <1>1, <1>2 DEF Holds
<1> QED
  BY <1>3 DEF t

\* The operations of a tail are those of the sequence but its head's.
LEMMA HoldsTail ==
  ASSUME NEW S, NEW s \in Seq(S), s # <<>>, Apart(s), NEW op
  PROVE  Holds(Tail(s), op) <=> (Holds(s, op) /\ Head(s).op # op)
<1> DEFINE t == Tail(s)
<1>1. Len(t) = Len(s) - 1 /\ Head(s) = s[1] /\ \A i \in 1..Len(t) : t[i] = s[i + 1]
  OBVIOUS
<1>2. Len(s) \in Nat \ {0}
  OBVIOUS
<1> HIDE DEF t
<1>3. ASSUME Holds(t, op) PROVE Holds(s, op) /\ s[1].op # op
  <2>1. PICK i \in 1..Len(t) : t[i].op = op
    BY <1>3 DEF Holds
  <2>2. i + 1 \in 1..Len(s) /\ 1 \in 1..Len(s) /\ s[i + 1].op = op /\ i + 1 # 1
    BY <1>1, <1>2, <2>1
  <2> QED
    BY <2>2 DEF Holds, Apart
<1>4. ASSUME Holds(s, op), s[1].op # op PROVE Holds(t, op)
  <2>1. PICK i \in 1..Len(s) : s[i].op = op
    BY <1>4 DEF Holds
  <2>2. i # 1 /\ i - 1 \in 1..Len(t) /\ t[i - 1] = s[i]
    BY <1>1, <1>2, <1>4, <2>1
  <2> QED
    BY <2>1, <2>2 DEF Holds
<1>5. Holds(t, op) <=> (Holds(s, op) /\ Head(s).op # op)
  BY <1>1, <1>3, <1>4
<1> QED
  BY <1>5 DEF t

LEMMA ApartAppended ==
  ASSUME NEW S, NEW s \in Seq(S), NEW e \in S, Apart(s), ~Holds(s, e.op)
  PROVE  Apart(Append(s, e))
<1> DEFINE t == Append(s, e)
<1>1. Len(t) = Len(s) + 1 /\ t[Len(s) + 1] = e /\ \A i \in 1..Len(s) : t[i] = s[i]
  OBVIOUS
<1>2. Len(s) \in Nat
  OBVIOUS
<1> HIDE DEF t
<1>3. Apart(t)
  BY <1>1, <1>2 DEF Apart, Holds
<1> QED
  BY <1>3 DEF t

LEMMA ApartTail ==
  ASSUME NEW S, NEW s \in Seq(S), s # <<>>, Apart(s)
  PROVE  Apart(Tail(s))
<1> DEFINE t == Tail(s)
<1>1. Len(t) = Len(s) - 1 /\ \A i \in 1..Len(t) : t[i] = s[i + 1]
  OBVIOUS
<1>2. Len(s) \in Nat \ {0}
  OBVIOUS
<1> HIDE DEF t
<1>3. ASSUME NEW i \in 1..Len(t), NEW j \in 1..Len(t), t[i].op = t[j].op PROVE i = j
  <2>1. i + 1 \in 1..Len(s) /\ j + 1 \in 1..Len(s) /\ s[i + 1].op = s[j + 1].op
    BY <1>1, <1>2, <1>3
  <2>2. i + 1 = j + 1
    BY <2>1 DEF Apart
  <2> QED
    BY <2>2
<1>4. Apart(t)
  BY <1>3 DEF Apart
<1> QED
  BY <1>4 DEF t

LEMMA NothingHeld ==
  /\ Apart(<<>>)
  /\ \A op : ~Holds(<<>>, op)
  BY DEF Apart, Holds

\* With two operations to tell apart, a queue that lacks one has one at most.
LEMMA RoomForOne ==
  ASSUME NEW s \in Seq(Command), Apart(s), NEW op \in Ops, ~Holds(s, op)
  PROVE  Len(s) <= 1
<1>1. SUFFICES ASSUME Len(s) >= 2 PROVE FALSE
  OBVIOUS
<1>2. 1 \in 1..Len(s) /\ 2 \in 1..Len(s) /\ s[1] \in Command /\ s[2] \in Command
  BY <1>1
<1>3. s[1].op \in Ops /\ s[2].op \in Ops
  BY <1>2 DEF Command, Ops
<1>4. s[1].op # s[2].op
  BY <1>2 DEF Apart
<1> QED
  BY <1>2, <1>3, <1>4 DEF Holds, Ops

-----------------------------------------------------------------------------
(* ---------------------------------- the row ----------------------------- *)

Rows ==
  [made : BOOLEAN, pending : Bodies \cup {None}, body : Bodies \cup {None},
   prepared : Ids \cup {None}, event : BOOLEAN, edits : 0..Cap,
   last : -1..MaxTime, ended : BOOLEAN, delete : BOOLEAN]

\* Dropping what is pending at the cap changes nothing else.
LEMMA DropEffect ==
  ASSUME NEW r \in Rows
  PROVE  /\ DropAtCap(r) \in Rows
         /\ DropAtCap(r).pending = IF AtCap(r) THEN None ELSE r.pending
         /\ DropAtCap(r).made = r.made /\ DropAtCap(r).body = r.body
         /\ DropAtCap(r).prepared = r.prepared /\ DropAtCap(r).event = r.event
         /\ DropAtCap(r).edits = r.edits /\ DropAtCap(r).last = r.last
         /\ DropAtCap(r).ended = r.ended /\ DropAtCap(r).delete = r.delete
<1>1. CASE AtCap(r)
  BY <1>1 DEF DropAtCap, Rows
<1>2. CASE ~AtCap(r)
  BY <1>2 DEF DropAtCap
<1> QED
  BY <1>1, <1>2

\* A counted edit: one more, at the time of its completion, with its body taken
\* off what is pending.
LEMMA EditEffect ==
  ASSUME ProgressAssumption, row \in Rows, NEW c \in Completions, c.result = "accepted", row.edits < Cap
  PROVE  /\ Edited(c) \in Rows
         /\ Edited(c).edits = row.edits + 1 /\ Edited(c).last = c.when
         /\ Edited(c).pending = IF \/ row.event /\ row.edits + 1 >= Cap
                                   \/ row.pending = c.body
                                THEN None ELSE row.pending
         /\ Edited(c).made = row.made /\ Edited(c).body = row.body
         /\ Edited(c).prepared = row.prepared /\ Edited(c).event = row.event
         /\ Edited(c).ended = row.ended /\ Edited(c).delete = row.delete
<1> DEFINE p == IF row.pending = c.body THEN None ELSE row.pending
           q == [row EXCEPT !.edits = row.edits + 1]
           r == [q EXCEPT !.last = c.when]
           t == [r EXCEPT !.pending = p]
<1>1. row.edits + 1 \in 0..Cap /\ c.when \in -1..MaxTime /\ p \in Bodies \cup {None}
  BY DEF ProgressAssumption, Rows, Completions
<1> HIDE DEF p
<1>2. /\ q \in Rows /\ q.edits = row.edits + 1 /\ q.pending = row.pending /\ q.made = row.made
      /\ q.body = row.body /\ q.prepared = row.prepared /\ q.event = row.event
      /\ q.ended = row.ended /\ q.delete = row.delete
  BY <1>1 DEF Rows
<1> HIDE DEF q
<1>3. /\ r \in Rows /\ r.edits = q.edits /\ r.last = c.when /\ r.pending = q.pending
      /\ r.made = q.made /\ r.body = q.body /\ r.prepared = q.prepared /\ r.event = q.event
      /\ r.ended = q.ended /\ r.delete = q.delete
  BY <1>1, <1>2 DEF Rows
<1> HIDE DEF r
<1>4. /\ t \in Rows /\ t.edits = r.edits /\ t.last = r.last /\ t.pending = p
      /\ t.made = r.made /\ t.body = r.body /\ t.prepared = r.prepared /\ t.event = r.event
      /\ t.ended = r.ended /\ t.delete = r.delete
  BY <1>1, <1>3 DEF Rows
<1>5. Edited(c) = DropAtCap(t)
  BY DEF Edited, p, q, r, t
<1> HIDE DEF t
<1> QED
  BY <1>2, <1>3, <1>4, <1>5, DropEffect DEF AtCap, p

-----------------------------------------------------------------------------
(* ----------------------------------- types ------------------------------ *)

LEMMA EnqueueEffect ==
  ASSUME ProgressTypeOK, WorkerKnown, NEW op \in Ops, NEW body,
         [op |-> op, body |-> body] \in Command, Enqueue(op, body)
  PROVE  /\ queue' \in Seq(Command) /\ Len(queue') <= 2 /\ active' \subseteq Ops
         /\ \/ UNCHANGED <<queue, active>>
            \/ /\ op \notin active /\ active' = active \cup {op}
               /\ queue' = Append(queue, [op |-> op, body |-> body])
<1>1. CASE op \in active
  BY <1>1 DEF Enqueue, ProgressTypeOK, Ops
<1>2. CASE op \notin active
  <2>1. queue' = Append(queue, [op |-> op, body |-> body]) /\ active' = active \cup {op}
    BY <1>2 DEF Enqueue
  <2>2. Len(queue) <= 1
    BY <1>2, RoomForOne DEF ProgressTypeOK, WorkerKnown, Ops
  <2>3. queue' \in Seq(Command) /\ Len(queue') <= 2
    BY <2>1, <2>2 DEF ProgressTypeOK
  <2> QED
    BY <1>2, <2>1, <2>3 DEF ProgressTypeOK, Ops
<1> QED
  BY <1>1, <1>2

\* What the first of the queue completes as.
LEMMA CompleteEffect ==
  ASSUME ProgressTypeOK, queue # <<>>, NEW result \in {"accepted", "retry", "refused"},
         Complete(Head(queue), result)
  PROVE  /\ Head(queue) \in Command /\ Head(queue) = queue[1]
         /\ queue' = Tail(queue) /\ queue' \in Seq(Command) /\ Len(queue') <= 2
         /\ \E c \in Completions :
              /\ done' = Append(done, c) /\ done' \in Seq(Completions)
              /\ c.op = Head(queue).op /\ c.body = Head(queue).body
              /\ c.when = now /\ c.result = result
         /\ UNCHANGED <<now, turn, final, row, at, active, drained, posts, newest, heard, crashes>>
<1> USE DEF ProgressTypeOK
<1>1. Head(queue) \in Command /\ Head(queue) = queue[1] /\ Tail(queue) \in Seq(Command) /\ Len(Tail(queue)) <= 2
  OBVIOUS
<1> DEFINE c == [op |-> Head(queue).op, body |-> Head(queue).body, when |-> now, result |-> result]
<1>2. c \in Completions
  BY <1>1 DEF Command, Completions
<1>3. done' = Append(done, c) /\ queue' = Tail(queue)
  BY DEF Complete
<1>4. /\ c.op = Head(queue).op /\ c.body = Head(queue).body /\ c.when = now /\ c.result = result
  OBVIOUS
<1> HIDE DEF c
<1>5. done' \in Seq(Completions)
  BY <1>2, <1>3
<1> QED
  BY <1>1, <1>2, <1>3, <1>4, <1>5 DEF Complete

LEMMA DeliveryTypes ==
  ASSUME ProgressTypeOK,
         \/ Deliveries \/ CloseTurn \/ Restart \/ Crash \/ Clock \/ BeginTick
  PROVE  ProgressTypeOK'
<1> USE ProgressAssumption DEF ProgressTypeOK, ProgressAssumption, worker, relay, history
<1>1. ASSUME NEW b \in Bodies, RecordProgress(b) PROVE ProgressTypeOK'
  <2>1. CASE turn = "open" /\ ~final /\ ~row.ended
    <3> DEFINE q == [row EXCEPT !.made = TRUE]
               r == [q EXCEPT !.pending = b]
    <3>1. q \in Rows
      BY DEF Rows
    <3> HIDE DEF q
    <3>2. r \in Rows
      BY <3>1 DEF Rows
    <3>3. row' = DropAtCap(r)
      BY <1>1, <2>1 DEF RecordProgress, q, r
    <3> HIDE DEF r
    <3>4. row' \in Rows
      BY <3>2, <3>3, DropEffect
    <3>5. newest' \in Bodies \cup {None} /\ heard' \in 0..MaxHeard
      BY <1>1, <2>1 DEF RecordProgress
    <3>6. UNCHANGED <<now, turn, final, at, worker, drained, relay, seen, crashes>>
      BY <1>1 DEF RecordProgress
    <3> QED
      BY <3>4, <3>5, <3>6 DEF Rows
  <2>2. CASE ~(turn = "open" /\ ~final /\ ~row.ended)
    BY <1>1, <2>2 DEF RecordProgress
  <2> QED
    BY <2>1, <2>2
<1>2. CASE FinalRecorded \/ FailTurn \/ CancelTurn \/ CloseTurn \/ Restart \/ Clock
  <2>1. UNCHANGED <<row, worker, drained, relay, history, heard, crashes>>
    BY <1>2 DEF FinalRecorded, FailTurn, CancelTurn, CloseTurn, Restart, Clock
  <2>2. now' \in 0..MaxTime
    BY <1>2 DEF FinalRecorded, FailTurn, CancelTurn, CloseTurn, Restart, Clock
  <2>3. final' \in BOOLEAN
    BY <1>2 DEF FinalRecorded, FailTurn, CancelTurn, CloseTurn, Restart, Clock
  <2>4. /\ turn' \in {"open", "posted", "failed", "cancelled"}
        /\ at' \in {"down", "idle", "close", "endProgress"}
    BY <1>2 DEF FinalRecorded, FailTurn, CancelTurn, CloseTurn, Restart, Clock
  <2> QED
    BY <2>1, <2>2, <2>3, <2>4
<1>3. CASE DiscardPending
  <2>1. row' \in Rows
    BY <1>3 DEF DiscardPending, Rows
  <2> QED
    BY <1>3, <2>1 DEF DiscardPending, Rows
<1>4. CASE Crash
  BY <1>4 DEF Crash
<1>5. CASE BeginTick
  BY <1>5 DEF BeginTick
<1> QED
  BY <1>1, <1>2, <1>3, <1>4, <1>5 DEF Deliveries

LEMMA TickTypes ==
  ASSUME ProgressTypeOK, WorkerKnown, EditKnown,
         \/ EndProgress \/ ApplyCompletion \/ FlushWaits \/ FlushDelete \/ FlushEnds \/ FlushEdit
  PROVE  ProgressTypeOK'
<1> USE ProgressAssumption DEF ProgressTypeOK, worker, relay, history
<1>1. [op |-> "delete", body |-> None] \in Command
  BY DEF Command
<1>2. CASE EndProgress
  <2>1. HasTarget(row) \in BOOLEAN
    BY DEF HasTarget
  <2>2. row' \in Rows
    BY <1>2, <2>1 DEF EndProgress, Rows
  <2>3. queue' \in Seq(Command) /\ Len(queue') <= 2 /\ active' \subseteq Ops
    BY <1>1, <1>2, EnqueueEffect DEF EndProgress, Ops
  <2> QED
    BY <1>2, <2>2, <2>3 DEF EndProgress, Rows, Ops
<1>3. CASE ApplyCompletion
  <2>1. Head(drained) \in Completions /\ drained' \in Seq(Completions)
    BY <1>3 DEF ApplyCompletion
  <2>2. row' \in Rows
    <3>1. CASE Head(drained).op = "edit" /\ Head(drained).result = "accepted"
      <4>1. drained # <<>> /\ Head(drained) = drained[1] /\ 1 \in 1..Len(drained)
        BY <1>3 DEF ApplyCompletion
      <4>2. Holds(drained, "edit")
        BY <3>1, <4>1 DEF Holds
      <4> QED
        BY <1>3, <2>1, <3>1, <4>2, EditEffect DEF ApplyCompletion, EditKnown, UnderWay, Rows
    <3>2. CASE Head(drained).op = "edit" /\ Head(drained).result # "accepted"
      BY <1>3, <3>2 DEF ApplyCompletion, Edited, Rows
    <3>3. CASE Head(drained).op # "edit"
      BY <1>3, <3>3 DEF ApplyCompletion, Rows
    <3> QED
      BY <3>1, <3>2, <3>3
  <2>3. UNCHANGED <<now, turn, final, at, worker, relay, history, heard, crashes>>
    BY <1>3 DEF ApplyCompletion
  <2> QED
    BY <2>1, <2>2, <2>3 DEF Rows
<1>4. CASE FlushWaits
  BY <1>4 DEF FlushWaits
<1>5. CASE FlushDelete
  BY <1>1, <1>5, EnqueueEffect DEF FlushDelete, Ops
<1>6. CASE FlushEnds
  <2>1. row' \in Rows
    BY <1>6 DEF FlushEnds, Rows
  <2> QED
    BY <1>6, <2>1 DEF FlushEnds, Rows
<1>7. CASE FlushEdit
  <2>1. [op |-> "edit", body |-> row.pending] \in Command
    BY <1>7 DEF FlushEdit, EditDue, Command
  <2> QED
    BY <1>7, <2>1, EnqueueEffect DEF FlushEdit, Ops
<1> QED
  BY <1>2, <1>3, <1>4, <1>5, <1>6, <1>7

\* What a create prepares: the body pending, unless one was prepared before.
LEMMA PreparedEffect ==
  ASSUME ProgressTypeOK, PostKnown, CreateDue
  PROVE  /\ Prepared(row) \in Rows
         /\ Prepared(row).body # None /\ Prepared(row).prepared # None
         /\ row.prepared # None => Prepared(row) = row
         /\ row.prepared = None =>
              Prepared(row).body = row.pending /\ Prepared(row).pending = None
         /\ Prepared(row).made = row.made /\ Prepared(row).event = row.event
         /\ Prepared(row).edits = row.edits /\ Prepared(row).last = row.last
         /\ Prepared(row).ended = row.ended /\ Prepared(row).delete = row.delete
<1> USE ProgressAssumption DEF ProgressAssumption
<1>1. CASE row.prepared # None
  BY <1>1 DEF Prepared, PostKnown, ProgressTypeOK, Rows
<1>2. CASE row.prepared = None
  <2>1. row.body = None /\ row.pending \in Bodies /\ <<row.pending, now>> \in Bodies \X (0..MaxTime)
    BY <1>2 DEF CreateDue, PostKnown, ProgressTypeOK
  <2>2. <<row.pending, now>> \in Ids /\ <<row.pending, now>> # None
    BY <2>1 DEF Ids
  <2> QED
    BY <1>2, <2>1, <2>2 DEF Prepared, ProgressTypeOK, Rows
<1> QED
  BY <1>1, <1>2

LEMMA SendTypes ==
  ASSUME ProgressTypeOK, PostKnown,
         \/ CreatePrepare \/ CreateUnbuildable \/ SendAccepted \/ SendNotAccepted \/ SendRefused
         \/ CreateAccepted \/ CreateRefused
  PROVE  ProgressTypeOK'
<1> USE DEF ProgressTypeOK, worker, relay, history
<1>1. CASE CreatePrepare
  BY <1>1, PreparedEffect DEF CreatePrepare, Rows
<1>2. CASE CreateUnbuildable \/ CreateRefused
  <2>1. row' \in Rows
    BY <1>2 DEF CreateUnbuildable, CreateRefused, Rows
  <2> QED
    BY <1>2, <2>1 DEF CreateUnbuildable, CreateRefused, Rows
<1>3. CASE SendAccepted \/ SendNotAccepted \/ SendRefused
  <2>1. row.prepared \in Ids
    BY <1>3 DEF PostKnown, SendAccepted, SendNotAccepted, SendRefused
  <2> QED
    BY <1>3, <2>1 DEF SendAccepted, SendNotAccepted, SendRefused, Land
<1>4. CASE CreateAccepted
  <2> DEFINE q == [row EXCEPT !.event = TRUE]
  <2>1. q \in Rows
    BY DEF Rows
  <2>2. row' = [q EXCEPT !.last = now]
    BY <1>4 DEF CreateAccepted
  <2> HIDE DEF q
  <2>3. now \in -1..MaxTime
    OBVIOUS
  <2>4. row' \in Rows
    BY <2>1, <2>2, <2>3 DEF Rows
  <2> QED
    BY <1>4, <2>4 DEF CreateAccepted, Rows
<1> QED
  BY <1>1, <1>2, <1>3, <1>4

LEMMA WorkerTypes ==
  ASSUME ProgressTypeOK, PostKnown, NEW result \in {"accepted", "retry", "refused"},
         NEW lands \in BOOLEAN, WorkerEdits(result, lands) \/ WorkerDeletes(result, lands)
  PROVE  ProgressTypeOK'
<1>1. /\ queue # <<>> /\ Complete(Head(queue), result)
  BY DEF WorkerEdits, WorkerDeletes
<1>2. /\ queue' \in Seq(Command) /\ Len(queue') <= 2 /\ done' \in Seq(Completions)
      /\ UNCHANGED <<now, turn, final, row, at, active, drained, posts, newest, heard, crashes>>
      /\ Head(queue) \in Command
  BY <1>1, CompleteEffect
<1>3. deleted' \subseteq Ids /\ shown' \in Bodies \cup {None} /\ seen' \subseteq {"editAfterDelete", "deleteRefused", "cut"}
  <2>1. CASE WorkerEdits(result, lands)
    BY <1>2, <2>1 DEF WorkerEdits, ProgressTypeOK, Command
  <2>2. CASE WorkerDeletes(result, lands)
    <3>1. Holds(queue, "delete")
      BY <1>1, <2>2 DEF WorkerDeletes, Holds, ProgressTypeOK
    <3>2. row.prepared \in Ids
      BY <3>1 DEF PostKnown, UnderWay, ProgressTypeOK
    <3> QED
      BY <2>2, <3>2 DEF WorkerDeletes, ProgressTypeOK
  <2> QED
    BY <2>1, <2>2
<1> QED
  BY <1>2, <1>3 DEF ProgressTypeOK

-----------------------------------------------------------------------------
(* --------------------------------- the worker --------------------------- *)

\* The steps that leave the worker alone.
Elsewhere ==
  \/ Restart \/ Clock \/ Deliveries \/ CloseTurn \/ FlushWaits \/ FlushEnds
  \/ CreatePrepare \/ CreateUnbuildable
  \/ SendAccepted \/ SendNotAccepted \/ SendRefused \/ CreateAccepted \/ CreateRefused

LEMMA ElsewhereEffect ==
  ASSUME WorkerKnown, Elsewhere
  PROVE  UNCHANGED <<worker, drained>> /\ drained = <<>>
<1> USE DEF WorkerKnown
<1>1. CASE Restart \/ Clock \/ CloseTurn
  BY <1>1 DEF Restart, Clock, CloseTurn
<1>2. CASE Deliveries
  BY <1>2 DEF Deliveries, RecordProgress, FinalRecorded, DiscardPending, FailTurn, CancelTurn
<1>3. CASE FlushWaits \/ FlushEnds
  BY <1>3 DEF FlushWaits, FlushEnds, Flushing
<1>4. CASE CreatePrepare \/ CreateUnbuildable
  BY <1>4 DEF CreatePrepare, CreateUnbuildable, CreateDue, Relayed, Flushing
<1>5. CASE SendAccepted \/ SendNotAccepted \/ SendRefused \/ CreateAccepted \/ CreateRefused
  BY <1>5 DEF SendAccepted, SendNotAccepted, SendRefused, CreateAccepted, CreateRefused
<1> QED
  BY <1>1, <1>2, <1>3, <1>4, <1>5 DEF Elsewhere

\* A step that hands the worker an operation leaves what completed alone.
LEMMA EnqueueKeeps ==
  ASSUME ProgressTypeOK, WorkerKnown, NEW op \in Ops, NEW body, drained = <<>>,
         [op |-> op, body |-> body] \in Command, Enqueue(op, body), UNCHANGED <<done, drained>>
  PROVE  /\ WorkerKnown'
         /\ \A k \in Ops : Holds(queue', k) =>
              Holds(queue, k) \/ (k = op /\ queue' = Append(queue, [op |-> op, body |-> body]))
         /\ ~Holds(drained, op)
<1>1. CASE UNCHANGED <<queue, active>>
  BY <1>1, NothingHeld DEF WorkerKnown, Apart, Holds
<1>2. CASE /\ op \notin active /\ active' = active \cup {op}
           /\ queue' = Append(queue, [op |-> op, body |-> body])
  <2> DEFINE e == [op |-> op, body |-> body]
  <2>1. /\ queue \in Seq(Command) /\ e \in Command /\ e.op = op /\ queue' = Append(queue, e)
    BY <1>2 DEF ProgressTypeOK
  <2> HIDE DEF e
  <2>2. \A k : Holds(queue', k) <=> (Holds(queue, k) \/ op = k)
    BY <2>1, HoldsAppended
  <2>3. ~Holds(queue, op) /\ ~Holds(done, op) /\ ~Holds(drained, op)
    BY <1>2, NothingHeld DEF WorkerKnown, Ops
  <2>4. Apart(queue')
    BY <2>1, <2>3, ApartAppended DEF WorkerKnown
  <2>5. WorkerKnown'
    BY <1>2, <2>2, <2>3, <2>4 DEF WorkerKnown, Ops, Apart, Holds
  <2> QED
    BY <2>1, <2>2, <2>3, <2>5 DEF e
<1> QED
  BY <1>1, <1>2, EnqueueEffect

LEMMA WorkerKept ==
  ASSUME ProgressTypeOK, WorkerKnown, [Next]_vars
  PROVE  WorkerKnown'
<1> USE DEF Ops
<1>1. CASE Elsewhere \/ UNCHANGED vars
  <2>1. UNCHANGED <<worker, drained>> /\ (drained # <<>> => at' = at)
    BY <1>1, ElsewhereEffect DEF vars
  <2> QED
    BY <2>1 DEF WorkerKnown, worker, Apart, Holds
<1>2. CASE EndProgress \/ FlushDelete
  <2>1. /\ drained = <<>> /\ UNCHANGED <<done, drained>>
        /\ Enqueue("delete", None) \/ UNCHANGED <<queue, active>>
    BY <1>2 DEF EndProgress, FlushDelete, Flushing, WorkerKnown
  <2>2. [op |-> "delete", body |-> None] \in Command
    BY DEF Command
  <2>3. CASE UNCHANGED <<queue, active>>
    BY <2>1, <2>3 DEF WorkerKnown, Apart, Holds
  <2> QED
    BY <2>1, <2>2, <2>3, EnqueueKeeps
<1>3. CASE FlushEdit
  <2>1. drained = <<>> /\ Enqueue("edit", row.pending) /\ UNCHANGED <<done, drained>>
    BY <1>3 DEF FlushEdit, EditDue, Relayed, Flushing
  <2>2. [op |-> "edit", body |-> row.pending] \in Command
    BY <1>3 DEF FlushEdit, EditDue, Command, ProgressTypeOK
  <2> QED
    BY <2>1, <2>2, EnqueueKeeps
<1>4. CASE BeginTick
  <2>1. /\ drained' = done /\ done' = <<>> /\ queue' = queue /\ at' = "apply"
        /\ active' = active \ {done[i].op : i \in 1..Len(done)}
    BY <1>4 DEF BeginTick
  <2>2. \A op \in Ops : op \in active /\ ~Holds(done, op) => op \in active'
    BY <2>1 DEF Holds
  <2>3. Apart(queue') /\ Apart(done') /\ Apart(drained')
    BY <2>1, NothingHeld DEF WorkerKnown
  <2>4. \A op \in Ops :
          /\ Holds(queue', op) => op \in active' /\ ~Holds(done', op) /\ ~Holds(drained', op)
          /\ ~Holds(done', op)
    BY <2>1, <2>2, NothingHeld DEF WorkerKnown
  <2> QED
    BY <2>1, <2>3, <2>4 DEF WorkerKnown, Holds
<1>5. CASE ApplyCompletion
  <2>1. drained # <<>> /\ drained' = Tail(drained) /\ UNCHANGED <<worker, at>> /\ at = "apply"
    BY <1>5 DEF ApplyCompletion
  <2>2. drained \in Seq(Completions) /\ Apart(drained)
    BY DEF ProgressTypeOK, WorkerKnown
  <2>3. Apart(drained') /\ \A op : Holds(drained', op) => Holds(drained, op)
    BY <2>1, <2>2, ApartTail, HoldsTail
  <2> QED
    BY <2>1, <2>3 DEF WorkerKnown, worker, Apart, Holds
<1>6. CASE Accepted \/ NotAccepted
  <2>1. PICK result \in {"accepted", "retry", "refused"} :
          queue # <<>> /\ Complete(Head(queue), result)
    BY <1>6 DEF Accepted, NotAccepted, WorkerEdits, WorkerDeletes
  <2>2. PICK c \in Completions :
          /\ done' = Append(done, c) /\ c.op = Head(queue).op /\ queue' = Tail(queue)
          /\ UNCHANGED <<active, drained, at>> /\ Head(queue) = queue[1]
    BY <2>1, CompleteEffect
  <2>3. queue \in Seq(Command) /\ done \in Seq(Completions) /\ Apart(queue) /\ Apart(done)
    BY DEF ProgressTypeOK, WorkerKnown
  <2>4. Holds(queue, c.op) /\ c.op \in Ops
    <3>1. 1 \in 1..Len(queue)
      BY <2>1, <2>3
    <3> QED
      BY <2>2, <3>1 DEF Holds, Completions
  <2>5. \A op : /\ Holds(queue', op) <=> (Holds(queue, op) /\ c.op # op)
                /\ Holds(done', op) <=> (Holds(done, op) \/ c.op = op)
    BY <2>1, <2>2, <2>3, HoldsTail, HoldsAppended
  <2>6. Apart(queue') /\ Apart(done')
    BY <2>1, <2>2, <2>3, <2>4, ApartTail, ApartAppended DEF WorkerKnown
  <2>7. ~Holds(done, c.op) /\ ~Holds(drained, c.op)
    BY <2>4 DEF WorkerKnown
  <2>8. ASSUME NEW op \in Ops
        PROVE  /\ Holds(queue', op) => op \in active /\ ~Holds(done', op) /\ ~Holds(drained, op)
               /\ Holds(done', op) => op \in active /\ ~Holds(drained, op)
    BY <2>4, <2>5, <2>7 DEF WorkerKnown
  <2>9. active' = active /\ drained' = drained /\ at' = at
    BY <2>2
  <2> QED
    BY <2>6, <2>8, <2>9 DEF WorkerKnown
<1>7. CASE Crash
  <2>1. queue' = <<>> /\ done' = <<>> /\ drained' = <<>>
    BY <1>7 DEF Crash
  <2> QED
    BY <2>1, NothingHeld DEF WorkerKnown
<1> QED
  BY <1>1, <1>2, <1>3, <1>4, <1>5, <1>6, <1>7 DEF Next, Handler, Elsewhere

\* The steps that hand the worker an edit, or a delete.
HandsOver(op) ==
  \/ op = "edit" /\ FlushEdit
  \/ op = "delete" /\ FlushDelete
  \/ op = "delete" /\ EndProgress /\ HasTarget(row) /\ row.ended'

\* Nothing else brings an operation under way, and what completes was queued.
LEMMA UnderWayComes ==
  ASSUME ProgressTypeOK, WorkerKnown, [Next]_vars, NEW op \in Ops
  PROVE  /\ Holds(queue, op)' => Holds(queue, op) \/ HandsOver(op)
         /\ UnderWay(op)' => UnderWay(op) \/ HandsOver(op)
<1> USE DEF Ops
<1>1. CASE Elsewhere \/ UNCHANGED vars
  <2>1. UNCHANGED <<worker, drained>>
    BY <1>1, ElsewhereEffect DEF vars
  <2> QED
    BY <2>1 DEF UnderWay, worker, Holds
<1>2. CASE EndProgress \/ FlushDelete
  <2>1. /\ drained = <<>> /\ UNCHANGED <<done, drained>>
        /\ \/ Enqueue("delete", None) /\ HandsOver("delete")
           \/ UNCHANGED <<queue, active>>
    BY <1>2 DEF EndProgress, FlushDelete, Flushing, WorkerKnown, HandsOver, HasTarget, ProgressTypeOK
  <2>2. [op |-> "delete", body |-> None] \in Command
    BY DEF Command
  <2>3. Holds(queue', op) => Holds(queue, op) \/ HandsOver(op)
    BY <2>1, <2>2, EnqueueKeeps
  <2> QED
    BY <2>1, <2>3 DEF UnderWay
<1>3. CASE FlushEdit
  <2>1. drained = <<>> /\ Enqueue("edit", row.pending) /\ UNCHANGED <<done, drained>>
    BY <1>3 DEF FlushEdit, EditDue, Relayed, Flushing
  <2>2. [op |-> "edit", body |-> row.pending] \in Command
    BY <1>3 DEF FlushEdit, EditDue, Command, ProgressTypeOK
  <2>3. Holds(queue', op) => Holds(queue, op) \/ HandsOver(op)
    BY <1>3, <2>1, <2>2, EnqueueKeeps DEF HandsOver
  <2> QED
    BY <2>1, <2>3 DEF UnderWay
<1>4. CASE BeginTick
  <2>1. drained' = done /\ done' = <<>> /\ queue' = queue
    BY <1>4 DEF BeginTick
  <2> QED
    BY <2>1, NothingHeld DEF UnderWay
<1>5. CASE ApplyCompletion
  <2>1. drained # <<>> /\ drained' = Tail(drained) /\ UNCHANGED worker
    BY <1>5 DEF ApplyCompletion
  <2>2. Holds(drained', op) => Holds(drained, op)
    BY <2>1, HoldsTail DEF ProgressTypeOK, WorkerKnown
  <2> QED
    BY <2>1, <2>2 DEF UnderWay, worker
<1>6. CASE Accepted \/ NotAccepted
  <2>1. PICK result \in {"accepted", "retry", "refused"} :
          queue # <<>> /\ Complete(Head(queue), result)
    BY <1>6 DEF Accepted, NotAccepted, WorkerEdits, WorkerDeletes
  <2>2. PICK c \in Completions :
          /\ done' = Append(done, c) /\ c.op = Head(queue).op /\ queue' = Tail(queue)
          /\ UNCHANGED drained /\ Head(queue) = queue[1]
    BY <2>1, CompleteEffect
  <2>3. /\ Holds(queue', op) => Holds(queue, op)
        /\ Holds(done', op) => Holds(done, op) \/ c.op = op
    BY <2>1, <2>2, HoldsTail, HoldsAppended DEF ProgressTypeOK, WorkerKnown
  <2>4. 1 \in 1..Len(queue)
    BY <2>1 DEF ProgressTypeOK
  <2>5. c.op = op => Holds(queue, op)
    BY <2>2, <2>4 DEF Holds
  <2> QED
    BY <2>2, <2>3, <2>5 DEF UnderWay
<1>7. CASE Crash
  <2>1. queue' = <<>> /\ done' = <<>> /\ drained' = <<>>
    BY <1>7 DEF Crash
  <2> QED
    BY <2>1, NothingHeld DEF UnderWay
<1> QED
  BY <1>1, <1>2, <1>3, <1>4, <1>5, <1>6, <1>7 DEF Next, Handler, Elsewhere

\* A completion that is applied ends its operation.
LEMMA AppliedIsOver ==
  ASSUME ProgressTypeOK, WorkerKnown, ApplyCompletion, NEW op, Head(drained).op = op
  PROVE  /\ Head(drained) \in Completions /\ Head(drained) = drained[1] /\ 1 \in 1..Len(drained)
         /\ op \in Ops /\ Holds(drained, op) /\ ~UnderWay(op)'
<1>1. drained # <<>> /\ drained' = Tail(drained) /\ UNCHANGED worker
  BY DEF ApplyCompletion
<1>2. drained \in Seq(Completions) /\ Apart(drained)
  BY DEF ProgressTypeOK, WorkerKnown
<1>3. Head(drained) \in Completions /\ Head(drained) = drained[1] /\ 1 \in 1..Len(drained)
  BY <1>1, <1>2
<1>4. Holds(drained, op) /\ op \in Ops
  BY <1>3 DEF Holds, Completions, Ops
<1>5. ~Holds(queue, op) /\ ~Holds(done, op)
  BY <1>4 DEF WorkerKnown, Ops
<1>6. ~Holds(drained', op)
  BY <1>1, <1>2, HoldsTail
<1> QED
  BY <1>1, <1>3, <1>4, <1>5, <1>6 DEF UnderWay, worker

-----------------------------------------------------------------------------
(* ------------------------------ what stays so --------------------------- *)

\* The clock goes on, a turn does not reopen, and what the row or the relay has
\* of the create, and the end of the row, stay.
LEMMA Lasting ==
  ASSUME ProgressTypeOK, WorkerKnown, PostKnown, EditKnown, [Next]_vars
  PROVE  /\ now' >= now
         /\ turn' = "open" => turn = "open"
         /\ final => final'
         /\ row.ended => row.ended'
         /\ row.event => row.event'
         /\ row.prepared # None => row.prepared' = row.prepared /\ row.body' = row.body
         /\ posts \subseteq posts'
<1> USE DEF ProgressTypeOK
<1>1. CASE UNCHANGED <<now, turn, final, row, posts>>
  BY <1>1
<1>2. CASE Clock
  BY <1>2 DEF Clock, relay
<1>3. CASE CloseTurn \/ FinalRecorded \/ FailTurn \/ CancelTurn
  BY <1>3 DEF CloseTurn, FinalRecorded, FailTurn, CancelTurn, relay
<1>4. ASSUME NEW b \in Bodies, RecordProgress(b)
      PROVE  /\ UNCHANGED <<now, turn, final, posts>> /\ row'.ended = row.ended
             /\ row'.event = row.event /\ row'.prepared = row.prepared /\ row'.body = row.body
  BY <1>4 DEF RecordProgress, DropAtCap, relay
<1>5. CASE DiscardPending \/ EndProgress \/ FlushEnds \/ CreateUnbuildable \/ CreateRefused \/ CreateAccepted
  <2>1. UNCHANGED <<now, turn, final, posts>>
    BY <1>5 DEF DiscardPending, EndProgress, FlushEnds, CreateUnbuildable, CreateRefused,
                CreateAccepted, relay
  <2>2. row'.prepared = row.prepared /\ row'.body = row.body
    BY <1>5 DEF DiscardPending, EndProgress, FlushEnds, CreateUnbuildable, CreateRefused,
                CreateAccepted
  <2>3. (row.ended => row'.ended) /\ (row.event => row'.event)
    BY <1>5 DEF DiscardPending, EndProgress, FlushEnds, CreateUnbuildable, CreateRefused,
                CreateAccepted
  <2> QED
    BY <2>1, <2>2, <2>3
<1>6. CASE CreatePrepare
  BY <1>6, PreparedEffect DEF CreatePrepare, relay
<1>7. CASE SendAccepted \/ SendNotAccepted \/ SendRefused
  BY <1>7 DEF SendAccepted, SendNotAccepted, SendRefused, Land, relay
<1>8. CASE ApplyCompletion
  <2>1. UNCHANGED <<now, turn, final, posts>>
    BY <1>8 DEF ApplyCompletion, relay
  <2>2. CASE Head(drained).op = "edit"
    BY <1>8, <2>1, <2>2 DEF ApplyCompletion, Edited, DropAtCap
  <2>3. CASE Head(drained).op # "edit"
    BY <1>8, <2>1, <2>3 DEF ApplyCompletion
  <2> QED
    BY <2>2, <2>3
<1>9. CASE \/ Restart \/ Crash \/ BeginTick \/ FlushWaits \/ FlushDelete \/ FlushEdit
           \/ Accepted \/ NotAccepted
  BY <1>1, <1>9 DEF Restart, Crash, BeginTick, FlushWaits, FlushDelete, FlushEdit, Accepted,
                    NotAccepted, WorkerEdits, WorkerDeletes, Complete, relay
<1>10. CASE UNCHANGED vars
  BY <1>1, <1>10 DEF vars, relay
<1> QED
  BY <1>2, <1>3, <1>4, <1>5, <1>6, <1>7, <1>8, <1>9, <1>10 DEF Next, Handler, Deliveries

\* Which steps may change what.
LEMMA Changes ==
  ASSUME ProgressTypeOK, WorkerKnown, PostKnown, EditKnown, [Next]_vars
  PROVE  /\ CreatePrepare \/ (row'.prepared = row.prepared /\ row'.body = row.body)
         /\ CreateAccepted \/ row'.event = row.event
         /\ \/ row'.edits = row.edits
            \/ /\ ApplyCompletion /\ Head(drained).op = "edit"
               /\ Head(drained).result = "accepted"
         /\ \/ row'.last = row.last \/ CreateAccepted
            \/ /\ ApplyCompletion /\ Head(drained).op = "edit"
               /\ Head(drained).result = "accepted" /\ row'.last = Head(drained).when
         /\ row'.delete => row.delete \/ (EndProgress /\ HasTarget(row) /\ row.ended')
         /\ posts' = posts \/ SendAccepted \/ SendNotAccepted
         /\ at' \in {"send", "accept", "refuse"} =>
              CreatePrepare \/ SendAccepted \/ SendRefused \/ (at' = at /\ UNCHANGED row)
<1> USE DEF ProgressTypeOK
<1>1. CASE Restart \/ Crash \/ Clock \/ BeginTick \/ FlushWaits \/ FlushDelete \/ FlushEdit
  BY <1>1 DEF Restart, Crash, Clock, BeginTick, FlushWaits, FlushDelete, FlushEdit, relay
<1>2. CASE Accepted \/ NotAccepted \/ UNCHANGED vars
  BY <1>2 DEF Accepted, NotAccepted, WorkerEdits, WorkerDeletes, Complete, vars, relay
<1>3. CASE CloseTurn \/ FinalRecorded \/ FailTurn \/ CancelTurn
  BY <1>3 DEF CloseTurn, FinalRecorded, FailTurn, CancelTurn, relay
<1>4. ASSUME NEW b \in Bodies, RecordProgress(b)
      PROVE  /\ posts' = posts /\ at' = "idle" /\ row'.delete = row.delete /\ row'.last = row.last
             /\ row'.edits = row.edits /\ row'.event = row.event /\ row'.prepared = row.prepared
             /\ row'.body = row.body
  BY <1>4 DEF RecordProgress, DropAtCap, relay
<1>5. CASE DiscardPending \/ FlushEnds \/ CreateUnbuildable \/ CreateRefused
  BY <1>5 DEF DiscardPending, FlushEnds, CreateUnbuildable, CreateRefused, relay
<1>6. CASE EndProgress
  BY <1>6 DEF EndProgress, relay
<1>7. CASE CreateAccepted
  BY <1>7 DEF CreateAccepted, relay
<1>8. CASE CreatePrepare
  BY <1>8, PreparedEffect DEF CreatePrepare, relay
<1>9. CASE SendAccepted \/ SendNotAccepted \/ SendRefused
  BY <1>9 DEF SendAccepted, SendNotAccepted, SendRefused, relay
<1>10. CASE ApplyCompletion
  <2>1. posts' = posts /\ at' = at /\ at = "apply" /\ Head(drained) \in Completions
    BY <1>10, AppliedIsOver DEF ApplyCompletion, relay
  <2>2. CASE Head(drained).op = "edit" /\ Head(drained).result = "accepted"
    <3>1. row.edits < Cap
      BY <1>10, <2>2, AppliedIsOver DEF EditKnown, UnderWay
    <3>2. row' = Edited(Head(drained)) /\ row \in Rows
      BY <1>10, <2>2 DEF ApplyCompletion, Rows
    <3> QED
      BY <1>10, <2>1, <2>2, <3>1, <3>2, EditEffect, ProgressAssumption
  <2>3. CASE Head(drained).op = "edit" /\ Head(drained).result # "accepted"
    BY <1>10, <2>1, <2>3 DEF ApplyCompletion, Edited
  <2>4. CASE Head(drained).op # "edit"
    BY <1>10, <2>1, <2>4 DEF ApplyCompletion
  <2> QED
    BY <2>2, <2>3, <2>4
<1> QED
  BY <1>1, <1>2, <1>3, <1>4, <1>5, <1>6, <1>7, <1>8, <1>9, <1>10 DEF Next, Handler, Deliveries

\* A landed create shows the body it was recorded with.
LEMMA LandEffect ==
  ASSUME PostKnown, SendAccepted \/ SendNotAccepted
  PROVE  /\ UNCHANGED row /\ row.prepared # None /\ ~row.event
         /\ posts \subseteq posts' /\ posts' \subseteq {row.prepared}
         /\ row.prepared \in posts' => shown' = row.body
         /\ SendAccepted => row.prepared \in posts'
         /\ deleted' = deleted
<1>1. /\ UNCHANGED row /\ at = "send"
      /\ Land \/ UNCHANGED relay
      /\ SendAccepted => Land
  BY DEF SendAccepted, SendNotAccepted
<1>2. row.prepared # None /\ ~row.event
  BY <1>1 DEF PostKnown
<1> QED
  BY <1>1, <1>2 DEF PostKnown, Land, relay

\* The worker's part in what the relay has: the head of its queue, and no other.
LEMMA RelayChanges ==
  ASSUME ProgressTypeOK, [Next]_vars
  PROVE  /\ \/ shown' = shown \/ SendAccepted \/ SendNotAccepted
            \/ Holds(queue, "edit")
         /\ deleted' = deleted \/ Holds(queue, "delete")
         /\ "editAfterDelete" \in seen' =>
              "editAfterDelete" \in seen \/ (deleted # {} /\ queue # <<>> /\ queue[1].op = "edit")
         /\ \/ queue' = queue /\ deleted' = deleted
            \/ queue' = <<>>
            \/ queue # <<>> /\ queue' = Tail(queue) /\ (deleted' = deleted \/ queue[1].op = "delete")
            \/ (FlushEdit \/ FlushDelete \/ EndProgress) /\ deleted' = deleted
<1>1. CASE SendAccepted \/ SendNotAccepted \/ UNCHANGED vars
  BY <1>1 DEF SendAccepted, SendNotAccepted, Land, vars, relay, history, worker
<1>2. CASE Accepted \/ NotAccepted
  <2>1. queue # <<>> /\ queue' = Tail(queue)
    BY <1>2 DEF Accepted, NotAccepted, WorkerEdits, WorkerDeletes, Complete
  <2>2. 1 \in 1..Len(queue) /\ Head(queue) = queue[1]
    BY <2>1 DEF ProgressTypeOK
  <2>3. CASE Head(queue).op = "edit"
    <3>1. deleted' = deleted /\ ("editAfterDelete" \in seen' => "editAfterDelete" \in seen \/ deleted # {})
      BY <1>2, <2>3 DEF Accepted, NotAccepted, WorkerEdits, WorkerDeletes
    <3> QED
      BY <2>1, <2>2, <2>3, <3>1 DEF Holds
  <2>4. CASE Head(queue).op # "edit"
    <3>1. /\ shown' = shown /\ Head(queue).op = "delete"
          /\ "editAfterDelete" \in seen' => "editAfterDelete" \in seen
      BY <1>2, <2>4 DEF Accepted, NotAccepted, WorkerEdits, WorkerDeletes
    <3> QED
      BY <2>1, <2>2, <3>1 DEF Holds
  <2> QED
    BY <2>3, <2>4
<1>3. CASE Deliveries \/ Restart \/ Clock \/ BeginTick
  BY <1>3 DEF Deliveries, RecordProgress, FinalRecorded, DiscardPending, FailTurn, CancelTurn,
              Restart, Clock, BeginTick, relay, history, worker
<1>4. CASE Crash
  BY <1>4 DEF Crash, relay
<1>5. CASE CloseTurn \/ ApplyCompletion \/ FlushWaits \/ FlushEnds
  BY <1>5 DEF CloseTurn, ApplyCompletion, FlushWaits, FlushEnds, relay, history, worker
<1>6. CASE EndProgress \/ FlushDelete \/ FlushEdit
  BY <1>6 DEF EndProgress, FlushDelete, FlushEdit, relay, history
<1>7. CASE CreatePrepare \/ CreateAccepted \/ CreateRefused \/ CreateUnbuildable \/ SendRefused
  BY <1>7 DEF CreatePrepare, CreateAccepted, CreateRefused, CreateUnbuildable, SendRefused,
              relay, history, worker
<1> QED
  BY <1>1, <1>2, <1>3, <1>4, <1>5, <1>6, <1>7 DEF Next, Handler

-----------------------------------------------------------------------------
(* ---------------------------------- the post ---------------------------- *)

LEMMA PostKept ==
  ASSUME ProgressTypeOK, WorkerKnown, PostKnown, EditKnown, [Next]_vars
  PROVE  PostKnown'
<1> DEFINE Same == row'.prepared = row.prepared /\ row'.body = row.body
<1>1. row.prepared # None => Same
  BY Lasting
<1>2. posts # {} => row.prepared # None /\ row.prepared \in posts
  BY DEF PostKnown
<1>3. (row.body = None <=> row.prepared = None)'
  <2>1. CASE CreatePrepare
    BY <2>1, PreparedEffect DEF CreatePrepare
  <2> QED
    BY <2>1, Changes DEF PostKnown
<1>4. (~row.event => row.edits = 0)'
  <2>1. ASSUME ~row.event' PROVE row'.edits = row.edits
    <3>1. ~row.event
      BY <2>1, Lasting
    <3>2. ~UnderWay("edit")
      BY <3>1 DEF EditKnown
    <3> QED
      BY <3>2, Changes, AppliedIsOver DEF UnderWay
  <2> QED
    BY <2>1, Lasting DEF PostKnown
<1>5. (posts \subseteq {row.prepared} \ {None})'
  <2>1. CASE SendAccepted \/ SendNotAccepted
    BY <2>1, LandEffect
  <2>2. CASE posts' = posts
    BY <1>1, <1>2, <2>2 DEF PostKnown
  <2> QED
    BY <2>1, <2>2, Changes
<1>6. (row.event => row.prepared \in posts)'
  <2>1. CASE CreateAccepted
    <3>1. row.prepared \in posts
      BY <2>1 DEF CreateAccepted, PostKnown
    <3> QED
      BY <1>1, <1>2, <3>1, Lasting
  <2>2. CASE row'.event = row.event
    BY <1>1, <1>2, <2>2, Lasting DEF PostKnown
  <2> QED
    BY <2>1, <2>2, Changes
<1>7. (at \in {"send", "accept", "refuse"} => row.prepared # None /\ ~row.event)'
  <2>1. CASE CreatePrepare
    <3>1. row'.prepared # None /\ row'.event = row.event /\ ~row.event
      BY <2>1, PreparedEffect DEF CreatePrepare, CreateDue
    <3> QED
      BY <3>1
  <2>2. CASE SendAccepted \/ SendRefused
    BY <2>2 DEF SendAccepted, SendRefused, PostKnown
  <2> QED
    BY <2>1, <2>2, Changes DEF PostKnown
<1>8. (at = "accept" => row.prepared \in posts)'
  <2>1. CASE SendAccepted
    BY <2>1, LandEffect
  <2>2. CASE CreatePrepare \/ SendRefused
    BY <2>2 DEF CreatePrepare, SendRefused
  <2>3. CASE at' = at /\ UNCHANGED row
    BY <2>3, Lasting DEF PostKnown
  <2> QED
    BY <2>1, <2>2, <2>3, Changes
<1>9. (row.prepared \in posts /\ ~row.event => shown = row.body)'
  <2>1. SUFFICES ASSUME row'.prepared \in posts', ~row'.event PROVE shown' = row'.body
    OBVIOUS
  <2>2. CASE SendAccepted \/ SendNotAccepted
    BY <2>1, <2>2, LandEffect
  <2>3. CASE ~(SendAccepted \/ SendNotAccepted)
    <3>1. posts' = posts /\ ~row.event
      BY <2>1, <2>3, Changes, Lasting
    <3>2. row.prepared \in posts /\ Same
      BY <1>1, <1>2, <2>1, <3>1
    <3>3. ~Holds(queue, "edit")
      BY <3>1 DEF EditKnown, UnderWay
    <3>4. shown' = shown
      BY <2>3, <3>3, RelayChanges
    <3> QED
      BY <3>1, <3>2, <3>4 DEF PostKnown
  <2> QED
    BY <2>2, <2>3
<1>10. (row.delete \/ UnderWay("delete") => row.prepared # None)'
  <2>1. HasTarget(row) => row.prepared # None
    BY DEF HasTarget, PostKnown
  <2>2. row.delete \/ UnderWay("delete") => row.prepared # None
    BY DEF PostKnown
  <2>3. HandsOver("delete") => row.delete \/ HasTarget(row)
    BY DEF HandsOver, FlushDelete
  <2>4. row'.delete => row.delete \/ HasTarget(row)
    BY Changes
  <2>5. UnderWay("delete")' => UnderWay("delete") \/ HandsOver("delete")
    BY UnderWayComes DEF Ops
  <2> QED
    BY <1>1, <2>1, <2>2, <2>3, <2>4, <2>5
<1> HIDE DEF Same
<1> QED
  BY <1>3, <1>4, <1>5, <1>6, <1>7, <1>8, <1>9, <1>10 DEF PostKnown

\* A delete comes after the end of the row, and no edit after a delete.
LEMMA DeleteKept ==
  ASSUME ProgressTypeOK, WorkerKnown, PostKnown, EditKnown, DeleteKnown, [Next]_vars
  PROVE  DeleteKnown'
<1>1. HandsOver("delete") => row.ended'
  <2>1. FlushDelete => row.delete
    BY DEF FlushDelete
  <2> QED
    BY <2>1, Lasting DEF HandsOver, DeleteKnown
<1>2. (deleted # {} \/ row.delete \/ Holds(queue, "delete") => row.ended)'
  <2>1. deleted' # {} => deleted # {} \/ Holds(queue, "delete")
    BY RelayChanges
  <2>2. Holds(queue, "delete")' => Holds(queue, "delete") \/ HandsOver("delete")
    BY UnderWayComes DEF Ops
  <2>3. row'.delete => row.delete \/ row.ended'
    BY Changes
  <2> QED
    BY <1>1, <2>1, <2>2, <2>3, Lasting DEF DeleteKnown
<1> DEFINE Before(q, d) ==
      \A i \in 1..Len(q) : q[i].op = "edit" => d = {} /\ \A j \in 1..(i - 1) : q[j].op # "delete"
<1>3. Before(queue, deleted)
  BY DEF DeleteKnown
<1>4. Len(queue) \in Nat
  BY DEF ProgressTypeOK
<1>5. Before(queue', deleted')
  <2>1. CASE queue' = queue /\ deleted' = deleted
    BY <1>3, <2>1
  <2>2. CASE queue' = <<>>
    BY <2>2
  <2>3. CASE queue # <<>> /\ queue' = Tail(queue) /\ (deleted' = deleted \/ queue[1].op = "delete")
    <3> DEFINE t == Tail(queue)
    <3>1. Len(t) = Len(queue) - 1 /\ \A i \in 1..Len(t) : t[i] = queue[i + 1]
      BY <2>3 DEF ProgressTypeOK
    <3> HIDE DEF t
    <3>2. ASSUME NEW i \in 1..Len(t), t[i].op = "edit"
          PROVE  deleted' = {} /\ \A j \in 1..(i - 1) : t[j].op # "delete"
      <4>1. i + 1 \in 1..Len(queue) /\ queue[i + 1].op = "edit"
        BY <1>4, <3>1, <3>2
      <4>2. deleted = {} /\ \A j \in 1..i : queue[j].op # "delete"
        BY <1>3, <4>1
      <4>3. 1 \in 1..i /\ \A j \in 1..(i - 1) : j + 1 \in 1..i /\ j \in 1..Len(t)
        BY <1>4, <3>1, <3>2
      <4> QED
        BY <2>3, <3>1, <4>2, <4>3
    <3>3. queue' = t
      BY <2>3 DEF t
    <3> QED
      BY <3>2, <3>3
  <2>4. CASE (FlushEdit \/ FlushDelete \/ EndProgress) /\ deleted' = deleted
    <3>1. \/ queue' = queue
          \/ \E e \in Command :
               /\ queue' = Append(queue, e)
               /\ e.op = "edit" => ~row.ended
      <4>1. CASE FlushEdit
        <5>1. [op |-> "edit", body |-> row.pending] \in Command
          BY <4>1 DEF FlushEdit, EditDue, Command, ProgressTypeOK
        <5> QED
          BY <4>1, <5>1 DEF FlushEdit, EditDue, Relayed, Enqueue
      <4>2. CASE FlushDelete \/ EndProgress
        <5>1. [op |-> "delete", body |-> None] \in Command
          BY DEF Command
        <5> QED
          BY <4>2, <5>1 DEF FlushDelete, EndProgress, Enqueue
      <4> QED
        BY <2>4, <4>1, <4>2
    <3>2. CASE queue' = queue
      BY <1>3, <2>4, <3>2
    <3>3. ASSUME NEW e \in Command, queue' = Append(queue, e), e.op = "edit" => ~row.ended
          PROVE  Before(queue', deleted')
      <4> DEFINE t == Append(queue, e)
      <4>1. /\ Len(t) = Len(queue) + 1 /\ t[Len(queue) + 1] = e
            /\ \A i \in 1..Len(queue) : t[i] = queue[i]
        BY DEF ProgressTypeOK
      <4>2. e.op = "edit" => deleted = {} /\ \A j \in 1..Len(queue) : queue[j].op # "delete"
        BY <3>3 DEF DeleteKnown, Holds
      <4> HIDE DEF t
      <4>3. ASSUME NEW i \in 1..Len(t), t[i].op = "edit"
            PROVE  deleted = {} /\ \A j \in 1..(i - 1) : t[j].op # "delete"
        <5>1. \A j \in 1..(i - 1) : j \in 1..Len(queue)
          BY <1>4, <4>1
        <5>2. CASE i = Len(queue) + 1
          BY <4>1, <4>2, <4>3, <5>1, <5>2
        <5>3. CASE i \in 1..Len(queue)
          <6>1. queue[i].op = "edit"
            BY <4>1, <4>3, <5>3
          <6> QED
            BY <1>3, <4>1, <5>1, <5>3, <6>1
        <5> QED
          BY <1>4, <4>1, <5>2, <5>3
      <4>4. queue' = t
        BY <3>3 DEF t
      <4> QED
        BY <2>4, <4>3, <4>4
    <3> QED
      BY <3>1, <3>2, <3>3
  <2> QED
    BY <2>1, <2>2, <2>3, <2>4, RelayChanges
<1> QED
  BY <1>2, <1>5 DEF DeleteKnown

\* The worker edits while its queue begins with an edit; then nothing was deleted.
LEMMA NoEditAfterDeleteKept ==
  ASSUME ProgressTypeOK, DeleteKnown, NoEditAfterDelete, [Next]_vars
  PROVE  NoEditAfterDelete'
<1>1. queue # <<>> => 1 \in 1..Len(queue)
  BY DEF ProgressTypeOK
<1> QED
  BY <1>1, RelayChanges DEF DeleteKnown, NoEditAfterDelete

-----------------------------------------------------------------------------
(* --------------------------------- the bodies --------------------------- *)

\* What is pending changes with what is newest, with the end of the row or the
\* turn, with the create that takes it, or with the edit that shows it.
LEMMA PendingChanges ==
  ASSUME ProgressTypeOK, WorkerKnown, PostKnown, EditKnown, [Next]_vars
  PROVE  \/ row'.pending = row.pending /\ newest' = newest
         \/ row'.pending # None /\ newest' = row'.pending /\ ~AtCap(row)
         \/ row'.pending = None /\ newest' = newest /\ AtCap(row)
         \/ row'.pending = None /\ newest' = newest /\ (row.ended' \/ final)
         \/ CreatePrepare /\ newest' = newest
         \/ /\ ApplyCompletion /\ Head(drained).op = "edit" /\ Head(drained).result = "accepted"
            /\ newest' = newest /\ row'.edits = row.edits + 1
            /\ row'.pending = IF \/ row.event /\ row.edits + 1 >= Cap
                                 \/ row.pending = Head(drained).body
                              THEN None ELSE row.pending
<1> USE DEF ProgressTypeOK
<1>1. CASE Restart \/ Crash \/ Clock \/ BeginTick \/ FlushWaits \/ FlushDelete \/ FlushEdit
  BY <1>1 DEF Restart, Crash, Clock, BeginTick, FlushWaits, FlushDelete, FlushEdit, history
<1>2. CASE Accepted \/ NotAccepted \/ UNCHANGED vars
  BY <1>2 DEF Accepted, NotAccepted, WorkerEdits, WorkerDeletes, Complete, vars, history
<1>3. CASE CloseTurn \/ FinalRecorded \/ FailTurn \/ CancelTurn
  BY <1>3 DEF CloseTurn, FinalRecorded, FailTurn, CancelTurn, history
<1>4. ASSUME NEW b \in Bodies, RecordProgress(b)
      PROVE  \/ row'.pending = row.pending /\ newest' = newest
             \/ row'.pending # None /\ newest' = row'.pending /\ ~AtCap(row)
             \/ row'.pending = None /\ newest' = newest /\ AtCap(row)
  <2>1. CASE turn = "open" /\ ~final /\ ~row.ended
    <3> DEFINE r == [row EXCEPT !.made = TRUE, !.pending = b]
    <3>1. row' = DropAtCap(r) /\ newest' = IF AtCap(row) THEN newest ELSE b
      BY <1>4, <2>1 DEF RecordProgress
    <3>2. r.pending = b /\ (AtCap(r) <=> AtCap(row)) /\ r \in Rows
      BY DEF AtCap, Rows
    <3> HIDE DEF r
    <3>3. row'.pending = IF AtCap(row) THEN None ELSE b
      BY <3>1, <3>2, DropEffect
    <3> QED
      BY <3>1, <3>3, ProgressAssumption DEF ProgressAssumption
  <2>2. CASE ~(turn = "open" /\ ~final /\ ~row.ended)
    BY <1>4, <2>2 DEF RecordProgress
  <2> QED
    BY <2>1, <2>2
<1>5. CASE DiscardPending \/ FlushEnds \/ CreateUnbuildable \/ CreateRefused \/ EndProgress
  BY <1>5 DEF DiscardPending, FlushEnds, CreateUnbuildable, CreateRefused, EndProgress, history
<1>6. CASE CreateAccepted
  BY <1>6 DEF CreateAccepted, history
<1>7. CASE CreatePrepare
  BY <1>7 DEF CreatePrepare, history
<1>8. CASE SendAccepted \/ SendNotAccepted \/ SendRefused
  BY <1>8 DEF SendAccepted, SendNotAccepted, SendRefused, history
<1>9. CASE ApplyCompletion
  <2>1. newest' = newest /\ Head(drained) \in Completions
    BY <1>9, AppliedIsOver DEF ApplyCompletion, history
  <2>2. CASE Head(drained).op = "edit" /\ Head(drained).result = "accepted"
    <3>1. row.edits < Cap
      BY <1>9, <2>2, AppliedIsOver DEF EditKnown, UnderWay
    <3>2. row' = Edited(Head(drained)) /\ row \in Rows
      BY <1>9, <2>2 DEF ApplyCompletion, Rows
    <3> QED
      BY <1>9, <2>1, <2>2, <3>1, <3>2, EditEffect, ProgressAssumption
  <2>3. CASE Head(drained).op = "edit" /\ Head(drained).result # "accepted"
    BY <1>9, <2>1, <2>3 DEF ApplyCompletion, Edited
  <2>4. CASE Head(drained).op # "edit"
    BY <1>9, <2>1, <2>4 DEF ApplyCompletion
  <2> QED
    BY <2>2, <2>3, <2>4
<1> QED
  BY <1>1, <1>2, <1>3, <1>4, <1>5, <1>6, <1>7, <1>8, <1>9 DEF Next, Handler, Deliveries

LEMMA NewestKept ==
  ASSUME ProgressTypeOK, WorkerKnown, PostKnown, EditKnown, NewestKnown, [Next]_vars
  PROVE  NewestKnown'
<1>1. CASE CreatePrepare
  <2>1. ~row.event /\ ~row'.event /\ newest' = newest /\ (row.prepared = None => row.pending # None)
    BY <1>1, PreparedEffect DEF CreatePrepare, CreateDue, history
  <2>2. UNCHANGED <<turn, final>> /\ row'.ended = row.ended /\ row' = Prepared(row)
    BY <1>1, PreparedEffect DEF CreatePrepare
  <2>3. CASE row.prepared # None
    <3>1. row' = row
      BY <1>1, <2>2, <2>3, PreparedEffect DEF CreatePrepare
    <3> QED
      BY <2>1, <2>2, <3>1 DEF NewestKnown, AtCap
  <2>4. CASE row.prepared = None
    <3>1. row'.body = row.pending /\ row'.pending = None
      BY <1>1, <2>2, <2>4, PreparedEffect DEF CreatePrepare
    <3> QED
      BY <2>1, <2>2, <2>4, <3>1 DEF NewestKnown, AtCap
  <2> QED
    BY <2>3, <2>4
<1>2. CASE ApplyCompletion /\ Head(drained).op = "edit" /\ Head(drained).result = "accepted"
  <2>1. row.event /\ row.event' /\ newest' = newest /\ ~CreatePrepare
    BY <1>2, AppliedIsOver, Lasting DEF EditKnown, UnderWay, ApplyCompletion, history, CreatePrepare,
                                        CreateDue
  <2>2. \/ row'.pending = None
        \/ row'.pending = row.pending /\ row'.edits = row.edits
        \/ row'.pending = row.pending /\ row'.edits = row.edits + 1 /\ ~(row.edits + 1 >= Cap)
    <3>1. row' = Edited(Head(drained)) /\ row \in Rows /\ Head(drained) \in Completions
      BY <1>2, AppliedIsOver DEF ApplyCompletion, Rows, ProgressTypeOK
    <3>2. row.edits < Cap
      BY <1>2, AppliedIsOver DEF EditKnown, UnderWay
    <3> QED
      BY <1>2, <2>1, <3>1, <3>2, EditEffect, ProgressAssumption
  <2> QED
    BY <2>1, <2>2 DEF NewestKnown, AtCap
<1>3. CASE ~CreatePrepare /\ ~(/\ ApplyCompletion /\ Head(drained).op = "edit"
                               /\ Head(drained).result = "accepted")
  <2>1. row'.prepared = row.prepared /\ row'.body = row.body /\ row'.edits = row.edits
    BY <1>3, Changes
  <2>2. /\ turn' = "open" => turn = "open"
        /\ final => final'
        /\ row.ended => row'.ended
        /\ row.event => row'.event
    BY Lasting
  <2>3. (row.pending # None => newest = row.pending)'
    BY <1>3, PendingChanges DEF NewestKnown
  <2>4. (row.pending = None /\ row.prepared # None /\ ~row.event /\ ~row.ended /\ turn = "open" /\ ~final
           => newest = row.body)'
    <3>1. SUFFICES ASSUME row'.pending = None, row'.prepared # None, ~row'.event, ~row'.ended,
                          turn' = "open", ~final'
                   PROVE  newest' = row'.body
      OBVIOUS
    <3>2. turn = "open" /\ ~final /\ ~row.ended /\ ~row.event /\ row.prepared # None /\ ~AtCap(row)
      BY <2>1, <2>2, <3>1 DEF AtCap
    <3>3. row.pending = None /\ newest' = newest
      BY <1>3, <3>1, <3>2, PendingChanges
    <3> QED
      BY <2>1, <3>2, <3>3 DEF NewestKnown
  <2>5. (AtCap(row) => row.pending = None)'
    <3>1. ASSUME row'.event, row'.edits >= Cap PROVE row'.pending = None
      <4>1. row.edits # 0
        BY <2>1, <3>1, ProgressAssumption DEF ProgressAssumption
      <4>2. AtCap(row)
        BY <2>1, <3>1, <4>1 DEF PostKnown, AtCap
      <4> QED
        BY <1>3, <4>2, PendingChanges DEF NewestKnown
    <3> QED
      BY <3>1 DEF AtCap
  <2> QED
    BY <2>3, <2>4, <2>5 DEF NewestKnown
<1> QED
  BY <1>1, <1>2, <1>3

\* The post that is quiet shows the newest body.
LEMMA QuietKept ==
  ASSUME ProgressTypeOK, WorkerKnown, PostKnown, EditKnown, NewestKnown, QuietShowsNewest, [Next]_vars
  PROVE  QuietShowsNewest'
<1>1. SUFFICES ASSUME turn' = "open", ~final', ~row'.ended, row'.event, row'.pending = None,
                      row'.edits < Cap
               PROVE  shown' = newest'
  BY DEF QuietShowsNewest
<1>2. turn = "open" /\ ~final /\ ~row.ended
  BY <1>1, Lasting
<1>3. CASE CreateAccepted
  <2>1. /\ row.pending = None /\ ~row.event /\ row.prepared # None /\ row.prepared \in posts
        /\ shown' = shown /\ newest' = newest
    BY <1>1, <1>3 DEF CreateAccepted, PostKnown, relay, history
  <2> QED
    BY <1>2, <2>1 DEF NewestKnown, PostKnown
<1>4. CASE row'.event = row.event
  <2>1. row.event /\ ~CreatePrepare
    BY <1>1, <1>4 DEF CreatePrepare, CreateDue
  <2>2. shown' = shown \/ Holds(queue, "edit")
    BY <2>1, RelayChanges, LandEffect
  <2>3. CASE ApplyCompletion /\ Head(drained).op = "edit" /\ Head(drained).result = "accepted"
    <3>1. /\ Holds(drained, "edit") /\ Head(drained) = drained[1] /\ 1 \in 1..Len(drained)
          /\ Head(drained) \in Completions
      BY <2>3, AppliedIsOver
    <3>2. shown = Head(drained).body /\ row.edits < Cap /\ row.pending # None
      BY <1>2, <2>3, <3>1 DEF EditKnown, Timely, UnderWay
    <3>3. shown' = shown /\ newest' = newest
      BY <2>3 DEF ApplyCompletion, relay, history
    <3>4. row' = Edited(Head(drained)) /\ row \in Rows
      BY <2>3 DEF ApplyCompletion, Rows, ProgressTypeOK
    <3>5. row.pending = Head(drained).body
      <4>1. row'.edits = row.edits + 1 /\ Edited(Head(drained)).pending = row'.pending
        BY <2>3, <3>1, <3>2, <3>4, EditEffect, ProgressAssumption
      <4>2. ~(row.edits + 1 >= Cap)
        BY <1>1, <3>4, <4>1, ProgressAssumption DEF Rows, ProgressAssumption
      <4> QED
        BY <1>1, <2>3, <3>1, <3>2, <3>4, <4>1, <4>2, EditEffect, ProgressAssumption
    <3> QED
      BY <3>2, <3>3, <3>5 DEF NewestKnown
  <2>4. CASE ~(/\ ApplyCompletion /\ Head(drained).op = "edit"
               /\ Head(drained).result = "accepted")
    <3>1. row'.edits = row.edits
      BY <2>4, Changes
    <3>2. ~AtCap(row)
      BY <1>1, <3>1, ProgressAssumption DEF AtCap, ProgressTypeOK, ProgressAssumption
    <3>3. row.pending = None /\ newest' = newest
      BY <1>1, <1>2, <2>1, <2>4, <3>2, PendingChanges
    <3>4. ~Holds(queue, "edit")
      BY <1>2, <3>3 DEF EditKnown, UnderWay
    <3> QED
      BY <1>1, <1>2, <2>1, <2>2, <3>1, <3>3, <3>4 DEF QuietShowsNewest
  <2> QED
    BY <2>3, <2>4
<1> QED
  BY <1>3, <1>4, Changes

-----------------------------------------------------------------------------
(* ---------------------------------- edits ------------------------------- *)

\* What the tick and the worker do to the completions.
LEMMA Completing ==
  ASSUME ProgressTypeOK, WorkerKnown, [Next]_vars
  PROVE  \/ done' = done /\ drained' = drained
         \/ done' = done /\ drained # <<>> /\ drained' = Tail(drained)
         \/ done' = <<>> /\ (drained' = done \/ drained' = <<>>)
         \/ /\ drained' = drained /\ queue # <<>> /\ UNCHANGED <<now, row>>
            /\ \E c \in Completions :
                 /\ done' = Append(done, c) /\ c.op = Head(queue).op /\ c.when = now
                 /\ c.op = "edit" /\ c.result = "accepted" => shown' = c.body
<1>1. CASE Elsewhere \/ UNCHANGED vars
  BY <1>1, ElsewhereEffect DEF vars, worker
<1>2. CASE EndProgress \/ FlushDelete \/ FlushEdit
  BY <1>2 DEF EndProgress, FlushDelete, FlushEdit
<1>3. CASE BeginTick \/ ApplyCompletion \/ Crash
  BY <1>3 DEF BeginTick, ApplyCompletion, Crash, worker
<1>4. CASE Accepted \/ NotAccepted
  <2>1. PICK result \in {"accepted", "retry", "refused"}, lands \in BOOLEAN :
          /\ WorkerEdits(result, lands) \/ WorkerDeletes(result, lands)
          /\ result = "accepted" => lands
    BY <1>4 DEF Accepted, NotAccepted
  <2>2. queue # <<>> /\ Complete(Head(queue), result)
    BY <2>1 DEF WorkerEdits, WorkerDeletes
  <2>3. PICK c \in Completions :
          /\ done' = Append(done, c) /\ c.op = Head(queue).op /\ c.body = Head(queue).body
          /\ c.when = now /\ c.result = result /\ UNCHANGED <<drained, now, row>>
    BY <2>2, CompleteEffect
  <2>4. c.op = "edit" /\ c.result = "accepted" => shown' = c.body
    BY <2>1, <2>3 DEF WorkerEdits, WorkerDeletes
  <2> QED
    BY <2>2, <2>3, <2>4
<1> QED
  BY <1>1, <1>2, <1>3, <1>4 DEF Next, Handler, Elsewhere

\* While an edit is under way its post is there, was not edited, and can be.
LEMMA EditStands ==
  ASSUME ProgressTypeOK, WorkerKnown, PostKnown, EditKnown, NewestKnown, [Next]_vars,
         UnderWay("edit")'
  PROVE  /\ row'.event /\ row'.edits < Cap /\ row'.last = row.last
         /\ turn' = "open" /\ ~final' /\ ~row'.ended => row'.pending # None
         /\ UnderWay("edit") \/ (FlushEdit /\ drained = <<>>)
<1>1. UnderWay("edit") \/ FlushEdit
  BY UnderWayComes DEF Ops, HandsOver
<1>2. CASE FlushEdit
  <2>1. row.event /\ row.pending # None /\ row' = row /\ drained = <<>>
    BY <1>2 DEF FlushEdit, EditDue, Relayed, Flushing
  <2>2. row.edits < Cap
    BY <2>1, ProgressAssumption DEF NewestKnown, AtCap, ProgressTypeOK, ProgressAssumption
  <2> QED
    BY <1>2, <2>1, <2>2
<1>3. CASE UnderWay("edit")
  <2>1. row.event /\ row.edits < Cap
    BY <1>3 DEF EditKnown
  <2>2. ~CreateAccepted /\ ~CreatePrepare
    BY <2>1 DEF CreateAccepted, CreatePrepare, CreateDue, PostKnown
  <2>3. ~(ApplyCompletion /\ Head(drained).op = "edit")
    BY AppliedIsOver
  <2>4. row'.event /\ row'.edits = row.edits /\ row'.last = row.last
    BY <2>1, <2>2, <2>3, Changes
  <2>5. ASSUME turn' = "open", ~final', ~row'.ended PROVE row'.pending # None
    <3>1. turn = "open" /\ ~final /\ ~row.ended
      BY <2>5, Lasting
    <3>2. row.pending # None /\ ~AtCap(row)
      BY <1>3, <2>1, <3>1, ProgressAssumption
         DEF EditKnown, AtCap, ProgressTypeOK, ProgressAssumption
    <3> QED
      BY <2>2, <2>3, <2>5, <3>1, <3>2, PendingChanges
  <2> QED
    BY <1>3, <2>1, <2>4, <2>5
<1> QED
  BY <1>1, <1>2, <1>3

\* Nothing else changes what the post shows once an edit of it completed.
LEMMA CompletedStands ==
  ASSUME ProgressTypeOK, WorkerKnown, PostKnown, EditKnown, [Next]_vars,
         Holds(done, "edit") \/ Holds(drained, "edit")
  PROVE  shown' = shown
<1>1. row.event /\ ~Holds(queue, "edit")
  BY DEF EditKnown, UnderWay, WorkerKnown
<1> QED
  BY <1>1, RelayChanges, LandEffect

LEMMA EditKept ==
  ASSUME ProgressTypeOK, WorkerKnown, PostKnown, EditKnown, NewestKnown, [Next]_vars
  PROVE  EditKnown'
<1>1. (UnderWay("edit") =>
         /\ row.event /\ row.edits < Cap
         /\ turn = "open" /\ ~final /\ ~row.ended => row.pending # None)'
  BY EditStands
<1>2. (Holds(queue, "edit") => now - row.last >= Interval)'
  <2>1. SUFFICES ASSUME Holds(queue', "edit") PROVE now' - row'.last >= Interval
    OBVIOUS
  <2>2. row'.last = row.last /\ now' >= now /\ (Holds(queue, "edit") \/ FlushEdit)
    BY <2>1, EditStands, Lasting, UnderWayComes DEF UnderWay, Ops, HandsOver
  <2>3. now - row.last >= Interval
    BY <2>2 DEF EditKnown, FlushEdit, EditDue
  <2>4. now \in Int /\ now' \in Int /\ row.last \in Int /\ Interval \in Int
    <3>1. now' = now \/ now' = now + 1
      BY DEF Next, Handler, Deliveries, RecordProgress, FinalRecorded, DiscardPending, FailTurn,
             CancelTurn, Restart, Crash, Clock, BeginTick, CloseTurn, EndProgress, ApplyCompletion,
             FlushWaits, FlushDelete, FlushEnds, CreatePrepare, FlushEdit, CreateAccepted,
             CreateRefused, SendAccepted, SendNotAccepted, CreateUnbuildable, SendRefused,
             Accepted, NotAccepted, WorkerEdits, WorkerDeletes, Complete, vars
    <3> QED
      BY <3>1, ProgressAssumption DEF ProgressTypeOK, ProgressAssumption
  <2> QED
    BY <2>2, <2>3, <2>4
<1> DEFINE Fine(s, last, sh) ==
      \A i \in 1..Len(s) :
        s[i].op = "edit" =>
          /\ s[i].when - last >= Interval
          /\ s[i].result = "accepted" => sh = s[i].body
<1>3. Fine(done, row.last, shown) /\ Fine(drained, row.last, shown)
  BY DEF EditKnown, Timely
<1>4. \A s, last, sh : ~Holds(s, "edit") => Fine(s, last, sh)
  BY DEF Holds
<1>5. Holds(done', "edit") \/ Holds(drained', "edit") =>
        row'.last = row.last /\ (UnderWay("edit") \/ (FlushEdit /\ drained = <<>>))
  BY EditStands DEF UnderWay
<1>6. Fine(done', row'.last, shown') /\ Fine(drained', row'.last, shown')
  <2>1. ASSUME done' = done PROVE Fine(done', row'.last, shown')
    <3>1. CASE Holds(done', "edit")
      BY <1>3, <1>5, <2>1, <3>1, CompletedStands
    <3> QED
      BY <1>4, <3>1
  <2>2. ASSUME drained' = drained PROVE Fine(drained', row'.last, shown')
    <3>1. CASE Holds(drained', "edit")
      BY <1>3, <1>5, <2>2, <3>1, CompletedStands
    <3> QED
      BY <1>4, <3>1
  <2>3. CASE done' = done /\ drained # <<>> /\ drained' = Tail(drained)
    <3>1. CASE Holds(drained', "edit")
      <4> DEFINE t == Tail(drained)
      <4>1. Len(t) = Len(drained) - 1 /\ \A i \in 1..Len(t) : t[i] = drained[i + 1] /\ i + 1 \in 1..Len(drained)
        BY <2>3 DEF ProgressTypeOK
      <4>2. Holds(drained, "edit")
        BY <2>3, <3>1, HoldsTail DEF ProgressTypeOK, WorkerKnown
      <4>3. shown' = shown /\ row'.last = row.last
        BY <1>5, <3>1, <4>2, CompletedStands
      <4> HIDE DEF t
      <4>4. Fine(t, row.last, shown)
        BY <1>3, <4>1
      <4>5. drained' = t
        BY <2>3 DEF t
      <4> QED
        BY <2>1, <2>3, <4>3, <4>4, <4>5
    <3> QED
      BY <1>4, <2>1, <2>3, <3>1
  <2>4. CASE done' = <<>> /\ (drained' = done \/ drained' = <<>>)
    <3>1. Fine(done', row'.last, shown')
      BY <1>4, <2>4, NothingHeld
    <3>2. CASE Holds(drained', "edit")
      <4>1. drained' = done
        BY <2>4, <3>2, NothingHeld
      <4> QED
        BY <1>3, <1>5, <3>1, <3>2, <4>1, CompletedStands
    <3> QED
      BY <1>4, <3>1, <3>2
  <2>5. ASSUME drained' = drained, queue # <<>>, UNCHANGED <<now, row>>,
               NEW c \in Completions, done' = Append(done, c), c.op = Head(queue).op, c.when = now,
               c.op = "edit" /\ c.result = "accepted" => shown' = c.body
        PROVE  Fine(done', row'.last, shown')
    <3> DEFINE t == Append(done, c)
    <3>1. /\ Len(t) = Len(done) + 1 /\ t[Len(done) + 1] = c
          /\ \A i \in 1..Len(done) : t[i] = done[i]
      BY DEF ProgressTypeOK
    <3>2. Len(done) \in Nat /\ 1 \in 1..Len(queue) /\ Head(queue) = queue[1]
      BY <2>5 DEF ProgressTypeOK
    <3>3. c.op = "edit" => now - row.last >= Interval
      BY <2>5, <3>2 DEF EditKnown, Holds
    <3> HIDE DEF t
    <3>4. ASSUME NEW i \in 1..Len(t), t[i].op = "edit"
          PROVE  /\ t[i].when - row.last >= Interval
                 /\ t[i].result = "accepted" => shown' = t[i].body
      <4>1. CASE i = Len(done) + 1
        BY <2>5, <3>1, <3>3, <3>4, <4>1
      <4>2. CASE i \in 1..Len(done)
        <5>1. Holds(done, "edit") /\ t[i] = done[i]
          BY <3>1, <3>4, <4>2 DEF Holds
        <5> QED
          BY <1>3, <3>4, <4>2, <5>1, CompletedStands
      <4> QED
        BY <3>1, <3>2, <4>1, <4>2
    <3>5. done' = t
      BY <2>5 DEF t
    <3> QED
      BY <2>5, <3>4, <3>5
  <2> QED
    BY <2>1, <2>2, <2>3, <2>4, <2>5, Completing
<1>7. Timely(done)' /\ Timely(drained)'
  BY <1>6 DEF Timely
<1> QED
  BY <1>1, <1>2, <1>7 DEF EditKnown

-----------------------------------------------------------------------------
(* -------------------------------- the theorems -------------------------- *)

LEMMA TypesKept ==
  ASSUME ProgressInv, [Next]_vars
  PROVE  ProgressTypeOK'
<1>1. CASE Accepted \/ NotAccepted
  BY <1>1, WorkerTypes DEF ProgressInv, Accepted, NotAccepted
<1>2. CASE UNCHANGED vars
  BY <1>2 DEF ProgressInv, ProgressTypeOK, vars, worker, relay, history
<1> QED
  BY <1>1, <1>2, DeliveryTypes, TickTypes, SendTypes DEF ProgressInv, Next, Handler

\* The progress post, its row and the worker agree in every state.
THEOREM ProgressInvHolds == Spec => []ProgressInv
<1>1. Init => ProgressInv
  <2> SUFFICES ASSUME Init PROVE ProgressInv
    OBVIOUS
  <2> USE ProgressAssumption DEF Init, NoRow, ProgressAssumption
  <2>1. ProgressTypeOK
    <3>1. row \in Rows
      BY DEF Rows
    <3>2. queue \in Seq(Command) /\ Len(queue) <= 2 /\ done \in Seq(Completions) /\ drained \in Seq(Completions)
      OBVIOUS
    <3>3. /\ now \in 0..MaxTime /\ heard \in 0..MaxHeard /\ crashes \in 0..MaxCrashes
          /\ turn = "open" /\ final = FALSE /\ at = "idle" /\ active = {} /\ seen = {}
          /\ posts = {} /\ deleted = {} /\ shown = None /\ newest = None
      OBVIOUS
    <3> HIDE DEF Init, NoRow
    <3> QED
      BY <3>1, <3>2, <3>3 DEF ProgressTypeOK, Rows
  <2>2. WorkerKnown
    BY NothingHeld DEF WorkerKnown
  <2>3. ~UnderWay("edit") /\ ~UnderWay("delete")
    BY NothingHeld DEF UnderWay
  <2>4. PostKnown
    BY <2>3 DEF PostKnown
  <2>5. NewestKnown
    BY DEF NewestKnown, AtCap
  <2>6. Timely(done) /\ Timely(drained) /\ ~Holds(queue, "edit") /\ ~Holds(queue, "delete")
    BY NothingHeld DEF Timely
  <2>7. EditKnown /\ DeleteKnown
    BY <2>3, <2>6 DEF EditKnown, DeleteKnown
  <2>8. QuietShowsNewest /\ NoEditAfterDelete
    BY DEF QuietShowsNewest, NoEditAfterDelete
  <2> QED
    BY <2>1, <2>2, <2>4, <2>5, <2>7, <2>8 DEF ProgressInv
<1>2. ProgressInv /\ [Next]_vars => ProgressInv'
  BY TypesKept, WorkerKept, PostKept, NewestKept, EditKept, DeleteKept, QuietKept,
     NoEditAfterDeleteKept DEF ProgressInv
<1> QED
  BY <1>1, <1>2, PTL DEF Spec

\* One post per ask, which shows the newest body when it is quiet, and no edit
\* of it after its delete: for every number of bodies, crashes and timeouts.
THEOREM PostIsSoundHolds == Spec => []PostIsSound
<1>1. ProgressInv => PostIsSound
  <2>1. SUFFICES ASSUME ProgressInv PROVE OnePost
    BY DEF ProgressInv, PostIsSound
  <2>2. posts \subseteq {row.prepared}
    BY <2>1 DEF ProgressInv, PostKnown
  <2>3. Cardinality({row.prepared}) = 1 /\ IsFiniteSet({row.prepared})
    BY FS_Singleton
  <2>4. Cardinality(posts) <= 1 /\ IsFiniteSet(posts)
    BY <2>2, <2>3, FS_Subset
  <2> QED
    BY <2>4 DEF OnePost
<1> QED
  BY <1>1, ProgressInvHolds, PTL

\* Edits are counted an interval apart, each at the time its send completed,
\* however late the tick that counts it.
THEOREM CountedEditsAreSpacedHolds == Spec => CountedEditsAreSpaced
<1>1. ProgressInv /\ [Next]_vars
        => [row'.edits > row.edits => row'.last >= row.last + Interval]_row
  <2>1. SUFFICES ASSUME ProgressInv, [Next]_vars, row'.edits > row.edits
                 PROVE  row'.last >= row.last + Interval
    OBVIOUS
  <2>2. /\ ApplyCompletion /\ Head(drained).op = "edit" /\ Head(drained).result = "accepted"
    BY <2>1, Changes, ProgressAssumption DEF ProgressInv, ProgressTypeOK, ProgressAssumption
  <2>3. /\ Head(drained) = drained[1] /\ 1 \in 1..Len(drained) /\ Head(drained) \in Completions
    BY <2>1, <2>2, AppliedIsOver DEF ProgressInv
  <2>4. Head(drained).when - row.last >= Interval
    BY <2>1, <2>2, <2>3 DEF ProgressInv, EditKnown, Timely
  <2>5. row'.last = Head(drained).when
    <3>1. row.edits < Cap
      BY <2>1, <2>2, AppliedIsOver DEF ProgressInv, EditKnown, UnderWay
    <3>2. row' = Edited(Head(drained)) /\ row \in Rows
      BY <2>1, <2>2 DEF ApplyCompletion, Rows, ProgressInv, ProgressTypeOK
    <3> QED
      BY <2>2, <2>3, <3>1, <3>2, EditEffect, ProgressAssumption
  <2>6. Head(drained).when \in Int /\ row.last \in Int /\ Interval \in Int
    BY <2>1, <2>3, ProgressAssumption
       DEF Completions, ProgressInv, ProgressTypeOK, ProgressAssumption
  <2> QED
    BY <2>4, <2>5, <2>6
<1> QED
  BY <1>1, ProgressInvHolds, PTL DEF Spec, CountedEditsAreSpaced
=============================================================================
