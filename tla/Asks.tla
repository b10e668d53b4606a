--------------------------------- MODULE Asks ---------------------------------
(***************************************************************************)
(* What an occupant is given of its channel.  An ask is the request of the *)
(* oldest queued turn and a Context: the indexed events after a cursor the *)
(* session keeps, capped to the newest.  Before it is sent the place file, *)
(* the last days of the channel, is written anew.  The ask is delivered,   *)
(* then its turn is opened, then the cursor is saved: the host may stop    *)
(* between any two, and an ask sent again under its key is replayed with   *)
(* the body it had.                                                        *)
(***************************************************************************)
EXTENDS Integers, Sequences, FiniteSetsExt

CONSTANTS
  Notes,        \* messages of the channel that ask for nothing, by id
  Triggers,     \* messages of the channel that queue a turn
  Elsewhere,    \* messages of other channels
  Posts,        \* the host's progress posts in the channel
  Watched,      \* messages a watch of the session fires for
  Size,         \* bytes of the line that renders an event
  Split,        \* lines longer than MaxBytes with a character across that byte
  MaxLines,     \* ASK_CONTEXT_MAX_EVENTS
  MaxBytes,     \* ASK_CONTEXT_MAX_BYTES
  Window,       \* PLACE_SNAPSHOT_WINDOW_SECS
  Drift,        \* PLACE_SNAPSHOT_FUTURE_SLACK_SECS, the relay's clock drift
  MaxTime,      \* bound: the last clock reading
  MaxCrashes,   \* bound: times the host stops
  MaxFailures   \* bound: commands, commits and files that fail

Events == Notes \cup Triggers \cup Elsewhere \cup Posts

ASSUME AsksAssumption ==
  /\ Events \subseteq Nat \ {0} /\ IsFiniteSet(Events)
  /\ Watched \subseteq Events /\ Size \in [Events -> Nat]
  /\ MaxLines \in Nat \ {0} /\ {MaxBytes, Window, Drift} \subseteq Nat
  /\ Split \subseteq {e \in Events : Size[e] > MaxBytes}
  /\ {MaxTime, MaxCrashes, MaxFailures} \subseteq Nat

\* A turn is of a trigger, or wakes the occupant for a watched message.
Turns == [of : Triggers, wake : {FALSE}] \cup [of : Watched, wake : {TRUE}]

NoTurn == [of |-> 0, wake |-> FALSE]
NoCursor == [at |-> -1, id |-> 0]
NoLetter == [lines |-> {}, unread |-> {}, first |-> FALSE, next |-> NoCursor]

VARIABLES
  now,
  created,      \* relay_events: created_at of what is indexed, -1 before
  queue,        \* queued turns in the order of their sequence
  opened,       \* the open turn
  cursor,       \* sessions.ask_context_created_at and ask_context_event_id
  place,        \* the events in .nostrherd/places/<session>.md
  at,           \* the next step of the host
  draft,        \* the ask rendered last, in memory
  letters,      \* Kelpie: the ask held under the key of a turn
  told,         \* events an ask that was delivered carried
  excused,      \* events a cursor may pass though no Context carried them
  crashes, failures

tables == <<created, queue, opened, cursor>>
given == <<place, letters, told, excused>>
bounds == <<crashes, failures>>
vars == <<now, tables, at, draft, given, bounds>>

Times == 0..(MaxTime + Drift)
Cursors == {NoCursor} \cup [at : Times, id : Events]
Letters == [lines : SUBSET Events, unread : SUBSET Events, first : BOOLEAN, next : Cursors]

AsksTypeOK ==
  /\ now \in 0..MaxTime /\ created \in [Events -> {-1} \cup Times]
  /\ queue \in Seq(Turns) /\ opened \in Turns \cup {NoTurn} /\ cursor \in Cursors
  /\ at \in {"down", "idle", "ask", "open", "save"} /\ draft \in Letters
  /\ letters \in [Turns -> Letters]
  /\ place \cup told \cup excused \subseteq Events
  /\ crashes \in 0..MaxCrashes /\ failures \in 0..MaxFailures

Init ==
  /\ now = 0 /\ created = [e \in Events |-> -1]
  /\ queue = <<>> /\ opened = NoTurn /\ cursor = NoCursor
  /\ place = {} /\ at = "down" /\ draft = NoLetter
  /\ letters = [t \in Turns |-> NoLetter] /\ told = {} /\ excused = {}
  /\ crashes = 0 /\ failures = 0

-----------------------------------------------------------------------------
Indexed == {e \in Events : created[e] >= 0}

Key(e) == [at |-> created[e], id |-> e]

After(key, other) ==
  key.at > other.at \/ (key.at = other.at /\ key.id > other.id)

\* indexed_events_for_channel
OfChannel(e) == e \in Indexed \ Elsewhere

\* progress_post_event_ids: the host's progress posts are left out.
NotProgress(e) == e \notin Posts

\* channel_events_for_occupant
ForOccupant == {e \in Events : OfChannel(e) /\ NotProgress(e)}

\* render_place_snapshot
InWindow(e) == created[e] >= now - Window /\ created[e] <= now + Drift
Snapshot == {e \in ForOccupant : InWindow(e)}

\* Mutant: within one second the cursor passes what it has not seen.
AfterSecond(e) == created[e] > cursor.at

\* after_cursor: by time, and within one second by id.
AfterCursor(e) == After(Key(e), cursor)

\* unread_events
Unread(turn) == {e \in ForOccupant : e # turn.of /\ AfterCursor(e)}

Sizes(events) == FoldSet(LAMBDA e, sum : sum + Size[e], 0, events)

\* cap_context_lines: the newest events whose lines fit, and always the newest.
CapLines(unread) ==
  {e \in unread :
     LET from == {f \in unread : f = e \/ After(Key(f), Key(e))}
     IN from = {e} \/ (Cardinality(from) <= MaxLines /\ Sizes(from) <= MaxBytes)}

\* truncate cuts the only line left; in the middle of a character it panics.
Panics(lines) == \E e \in Split : lines = {e}

\* next_cursor: the newest of the event the turn is of and what was unread,
\* so it goes back when that event is older than what the last ask carried.
NextCursor(turn, unread) ==
  CHOOSE key \in {Key(e) : e \in unread \cup {turn.of}} :
    \A e \in unread \cup {turn.of} : ~After(Key(e), key)

\* render_ask_body: a first ask restates nothing and points at the place file.
Render(turn) ==
  IF cursor = NoCursor
    THEN [lines |-> {}, unread |-> {}, first |-> TRUE, next |-> Key(turn.of)]
    ELSE [lines |-> CapLines(Unread(turn)), unread |-> Unread(turn), first |-> FALSE,
          next |-> NextCursor(turn, Unread(turn))]

-----------------------------------------------------------------------------
(* ------------------------------ the channel ----------------------------- *)

Tick ==
  /\ at \in {"idle", "down"} /\ now < MaxTime /\ now' = now + 1
  /\ UNCHANGED <<tables, at, draft, given, bounds>>

\* The relay hands over an event, in any order of created_at: it is indexed,
\* and a trigger's turn is queued.
Observe(e, time) ==
  /\ at = "idle" /\ e \notin Indexed /\ time <= now + Drift
  /\ created' = [created EXCEPT ![e] = time]
  /\ queue' = IF e \in Triggers THEN Append(queue, [of |-> e, wake |-> FALSE]) ELSE queue
  /\ excused' = IF After([at |-> time, id |-> e], cursor) THEN excused ELSE excused \cup {e}
  /\ UNCHANGED <<now, opened, cursor, at, draft, place, letters, told, bounds>>

\* handle_watch_fire: its turn has the watched message as reply_to_event_id.
Wake(e) ==
  LET turn == [of |-> e, wake |-> TRUE]
  IN /\ at = "idle" /\ e \in Indexed
     /\ turn # opened /\ \A i \in DOMAIN queue : queue[i] # turn
     /\ letters[turn] = NoLetter
     /\ queue' = Append(queue, turn)
     /\ UNCHANGED <<now, created, opened, cursor, at, draft, given, bounds>>

\* The occupant answers, or the turn is edited, deleted or given up.
Closes ==
  /\ at = "idle" /\ opened # NoTurn /\ opened' = NoTurn
  /\ UNCHANGED <<now, created, queue, cursor, at, draft, given, bounds>>

(* ---------------------------- ask_oldest_queued ------------------------- *)

Due == at = "idle" /\ opened = NoTurn /\ queue # <<>>

\* Its author is no longer admitted: the turn is cancelled.
Decline ==
  /\ Due /\ queue' = Tail(queue)
  /\ UNCHANGED <<now, created, opened, cursor, at, draft, given, bounds>>

\* Mutant: the place file is written only before a first ask.
RefreshOnce == IF cursor = NoCursor THEN Snapshot ELSE place

\* refresh_snapshot
RefreshPlace == Snapshot

RenderAsk ==
  LET turn == Head(queue)
      ask == Render(turn)
  IN /\ Due /\ ~Panics(ask.lines)
     /\ place' = RefreshPlace /\ draft' = ask /\ at' = "ask"
     /\ UNCHANGED <<now, tables, letters, told, excused, bounds>>

\* The host ends, and will again, as the turn is still the oldest.
RenderPanics ==
  /\ Due /\ Panics(Render(Head(queue)).lines)
  /\ place' = RefreshPlace /\ at' = "down"
  /\ UNCHANGED <<now, tables, draft, letters, told, excused, bounds>>

\* The place file or startup.md cannot be written: nothing is asked.
SnapshotFails ==
  /\ Due /\ failures < MaxFailures /\ failures' = failures + 1
  /\ UNCHANGED <<now, tables, at, draft, given, crashes>>

\* What the ask carries: the request of a trigger, and its Context.
Carries(turn, letter) ==
  letter.lines \cup IF turn.wake THEN {} ELSE {turn.of}

\* A first ask passes what was before it, a capped one says that it is.
\* A watched message is neither request nor Context of its wake.
Excuses(turn, letter) ==
  (letter.unread \ letter.lines)
    \cup (IF letter.first THEN {e \in Indexed : ~After(Key(e), letter.next)} ELSE {})
    \cup (IF turn.wake THEN {turn.of} ELSE {})

Take(turn) ==
  /\ letters' = [letters EXCEPT ![turn] = draft]
  /\ told' = told \cup Carries(turn, draft)
  /\ excused' = excused \cup Excuses(turn, draft)

Delivered ==
  LET turn == Head(queue)
  IN /\ at = "ask" /\ letters[turn] = NoLetter /\ at' = "open" /\ Take(turn)
     /\ UNCHANGED <<now, tables, place, draft, bounds>>

\* The ask was taken and its receipt lost.
ReceiptLost ==
  LET turn == Head(queue)
  IN /\ at = "ask" /\ letters[turn] = NoLetter /\ failures < MaxFailures
     /\ at' = "idle" /\ failures' = failures + 1 /\ Take(turn)
     /\ UNCHANGED <<now, tables, place, draft, crashes>>

\* Mutant: an ask that Kelpie knows is taken for a failed one.
ReplayRefused ==
  /\ at = "ask" /\ letters[Head(queue)] # NoLetter /\ at' = "idle"
  /\ UNCHANGED <<now, tables, given, draft, bounds>>

\* Kelpie knows the key: the body rendered now is not sent.
Replayed ==
  LET turn == Head(queue)
  IN /\ at = "ask" /\ letters[turn] # NoLetter /\ at' = "open"
     /\ excused' = excused \cup (draft.lines \ letters[turn].lines) \cup Excuses(turn, draft)
     /\ UNCHANGED <<now, tables, place, letters, told, draft, bounds>>

AskFails ==
  /\ at = "ask" /\ failures < MaxFailures
  /\ at' = "idle" /\ failures' = failures + 1
  /\ UNCHANGED <<now, tables, draft, given, crashes>>

\* open_next_turn
OpenTurn ==
  /\ at = "open" /\ at' = "save"
  /\ opened' = Head(queue) /\ queue' = Tail(queue)
  /\ UNCHANGED <<now, created, cursor, draft, given, bounds>>

\* save_session
SaveCursor ==
  /\ at = "save" /\ at' = "idle" /\ cursor' = draft.next
  /\ UNCHANGED <<now, created, queue, opened, draft, given, bounds>>

CommitFails ==
  /\ at \in {"open", "save"} /\ failures < MaxFailures
  /\ at' = "idle" /\ failures' = failures + 1
  /\ UNCHANGED <<now, tables, draft, given, crashes>>

Crash ==
  /\ at # "down" /\ crashes < MaxCrashes
  /\ at' = "down" /\ draft' = NoLetter /\ crashes' = crashes + 1
  /\ UNCHANGED <<now, tables, given, failures>>

Restart ==
  /\ at = "down" /\ at' = "idle"
  /\ UNCHANGED <<now, tables, draft, given, bounds>>

-----------------------------------------------------------------------------
AskSteps ==
  \/ RenderAsk \/ RenderPanics \/ Delivered \/ Replayed \/ OpenTurn \/ SaveCursor

Next ==
  \/ Tick \/ Closes \/ Decline \/ AskSteps
  \/ \E e \in Events, time \in Times : Observe(e, time)
  \/ \E e \in Watched : Wake(e)
  \/ SnapshotFails \/ ReceiptLost \/ AskFails \/ CommitFails \/ Crash \/ Restart

Spec == Init /\ [][Next]_vars

\* The host is restarted and goes on, and an open turn closes some day.
FairSpec ==
  Spec /\ WF_vars(Restart) /\ WF_vars(AskSteps) /\ WF_vars(Closes)

-----------------------------------------------------------------------------
\* The cursor is "the last event already stuffed into an ask" (D5): what it has
\* passed the occupant was told, as a request or as Context, but for what came
\* late, was cut and said to be, precedes the first ask, was left out of a body
\* sent again under its key, or woke the occupant itself.
PassedIsTold ==
  cursor # NoCursor =>
    \A e \in ForOccupant : After(Key(e), cursor) \/ e \in told \cup excused

\* What holds of asks and their cursor in every state.
ContextIsSound == AsksTypeOK /\ PassedIsTold

\* An ask in the occupant's hands stands beside a place file that has the whole
\* window of this channel, so what its Context leaves out can be read, and has
\* nothing of another channel and no progress post (D19, D27, D42).
PlaceTellsTheRest ==
  at = "open" =>
    /\ \A e \in Indexed \ Posts : e \in place <=> e \notin Elsewhere /\ InWindow(e)
    /\ place \cap Posts = {}

\* A turn at the head is asked or leaves the queue, through crashes and
\* failures, unless a single line is cut in the middle of a character.
HeadIsAskedUnlessSplit ==
  \A t \in Turns :
    queue # <<>> /\ Head(queue) = t ~>
      \/ queue = <<>> \/ Head(queue) # t
      \/ opened # NoTurn \/ Panics(Render(t).lines)
=============================================================================
