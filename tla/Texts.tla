--------------------------------- MODULE Texts ---------------------------------
(***************************************************************************)
(* What the host's reading and writing of texts promises, over all the     *)
(* inputs of an instance: each state is one input, or what a sequence of   *)
(* them led to, and the properties relate what the operators of Reading,   *)
(* Filters, Mentions, Places, StartupFile, Lookup, Receipts and Routing    *)
(* make of it.                                                             *)
(***************************************************************************)
EXTENDS Reading, Filters, Mentions, Places, StartupFile, Lookup, Receipts, Routing, TLC

CONSTANTS
  Posts,          \* events that people sign themselves
  Edits,          \* edits and deletions, each with what the host holds of its target
  Threads,        \* triggers, each with the true root of its thread
  Bodies,         \* bodies an occupant replies with
  Answers,        \* texts with their requester and the members of their channel
  Rosters,        \* what refreshes an audience
  Askings,        \* asks of bots in places
  MaxAsks,        \* bound: different asks of one host
  Files,          \* contents of a startup.md
  Searches,       \* requests, each with its day
  Polls,          \* polls of a connection, each with its scope and what fails
  Binds,          \* panes to adopt, each with what Kelpie said
  Restarts,       \* restarts of a seat, each with what Herdr and Kelpie said
  Asks,           \* asks, each with what Kelpie said and what it holds
  Registries,     \* the bots a host may start with
  Steps           \* what a host with several bots takes in

IsSeq(s) == s \in Seq(Range(s))

\* A relay event: only its `e` tags have a marker.
IsEvent(event) ==
  /\ {"id", "kind", "signer", "channel", "body", "tags"} \subseteq DOMAIN event
  /\ IsSeq(event.tags) /\ IsSeq(event.body)
  /\ \A tag \in Range(event.tags) :
       tag = Tag(tag.name, tag.value, tag.mark) /\ (tag.name # "e" => tag.mark = "none")

\* The operator has a key, and the registry is a list of bots.
ASSUME ReadingAssumption == Operator # Junk /\ IsSeq(Bots)

\* People sign posts with keys of their own; what they edit or delete was said
\* by one of them, and edits name their channel (buzz.rs:53-130).
ASSUME EventsAssumption ==
  /\ \A event \in Posts :
       IsEvent(event) /\ event.kind = "message" /\ event.signer \notin {RelayKey, Junk, Nothing}
  /\ \A e \in Edits :
       /\ IsEvent(e.event) /\ e.event.kind \in Mutating /\ e.event.channel # Nothing
       /\ e.target.author # RelayKey
  /\ \A body \in Bodies : IsSeq(body)

\* The tags of a message in a thread name its root as clients do: a root marker
\* beside a reply marker, a reply marker alone, or no marker on the first tag.
ASSUME ThreadsAssumption ==
  \A t \in Threads :
    LET tags == t.event.tags
        said(mark) == {tags[i].value : i \in Marked(tags, mark)}
    IN /\ IsSeq(tags) /\ Nothing \notin {tags[i].value : i \in DOMAIN tags}
       /\ {t.event.id, t.root} \cap {"answer", Junk, Nothing} = {}
       /\ \/ said("reply") # {} /\ said("root") = {t.root}
          \/ said("reply") = {t.root} /\ said("root") = {}
          \/ /\ said("reply") \cup said("root") = {}
             /\ t.root = IF said("none") = {} THEN t.event.id ELSE FirstOf(tags, Marked(tags, "none"))

\* A text is a sequence of tokens, people are called by names, and a relay knows
\* the profile of each member, or has none for him.
Signs == {"ticks", "escaped", "tildes", "at", "mid", "plain", "break", "indent", "blank"}

ASSUME AnswersAssumption ==
  /\ MaxMentions \in Nat \ {0}
  /\ \A p \in DOMAIN ProfileOf : \A alias \in AliasesOf[p] : IsSeq(alias) /\ Range(alias) \cap Signs = {}
  /\ \A a \in Answers :
       /\ IsSeq(a.text) /\ IsSeq(a.requester) /\ IsSeq(a.audience.participants)
       /\ \A token \in Range(a.text) : token.n \in Nat /\ token = [is |-> token.is, n |-> token.n]
       /\ Range(a.audience.participants) \subseteq DOMAIN ProfileOf

\* A file holds lines by hand and what older builds left: markers and bodies.
ASSUME FilesAssumption ==
  \A text \in Files :
    /\ IsSeq(text)
    /\ \A piece \in Range(text) :
         \/ piece \in Markers \cup {Body(block, 0) : block \in Blocks} \cup {LineEnd}
         \/ piece = Hand(piece[2])

\* What the relay answers with are lists of members.
ASSUME RostersAssumption == \A r \in Rosters : \A l \in Range(r.lists) : IsSeq(l.members)

\* The word for a place without letters has some; what a place, a person and a bot are
\* called is any text, a channel's id too, and its compact form is letters and digits.
ASSUME PlacesAssumption ==
  /\ MaxName \in Nat /\ "-" \notin Letters /\ Unnamed \in Seq(Letters) /\ Unnamed # <<>>
  /\ \A ask \in Askings :
       /\ IsSeq(ask.bot) /\ IsSeq(IdOf[ask.channel]) /\ CompactId[ask.channel] \in Seq(Letters)
       /\ IsSeq(ask.place.stored)
       /\ \A event \in Range(ask.place.stored) : IsSeq(event.name)

\* Kelpie's word on a pane: an adoption that succeeded, and one that was refused
\* because the pane was adopted before, name the incarnation that holds it.
ASSUME BindsAssumption ==
  \A b \in Binds :
    LET receipt == b.adopt.receipt
    IN /\ AlreadyAdopted(receipt) \in {b.holder, Missing}
       /\ b.adopt.success => receipt.incarnation \in {b.holder, Missing}

\* Herdr lists panes, and a pane it allocates is none of those.
ASSUME RestartsAssumption ==
  \A day \in Restarts :
    /\ IsSeq(day.list.receipt.panes) /\ IsSeq(day.create.receipt.panes)
    /\ \A new \in Range(day.create.receipt.panes) :
         \A listed \in Range(day.list.receipt.panes) : new.pane # listed.pane

\* Kelpie's word on an ask: what it lists is what is owed, and a receipt of
\* success names an obligation toward the host of the agent that was asked, who
\* is addressed by the ids whoami gave (lib.rs:768-784).
ASSUME AsksAssumption ==
  \A a \in Asks :
    LET receipt == a.day.ask.receipt
    IN /\ IsSeq(a.owed)
       /\ Invoke(a.day.pending).ok /\ a.day.pending.success => a.day.pending.receipt.owed = a.owed
       /\ a.day.ask.success /\ receipt.ask # Missing =>
            /\ receipt.agent = a.day.whoami.receipt.agent
            /\ \E o \in Range(a.owed) : o.ask = receipt.ask /\ o.to = Waiter

\* A registry lists bots, at least one (main.rs:1062), and a step names whom it
\* concerns.
IsRegistry(actors) == IsSeq(actors) /\ actors # <<>> /\ Nobody \notin Range(actors)

ASSUME DaysAssumption ==
  /\ \A actors \in Registries : IsRegistry(actors)
  /\ \A step \in Steps :
       /\ step.does \in {"trigger", "edit", "answer", "tick", "restart"}
       /\ step.does \in {"trigger", "edit", "answer"} => step.seat = Seat(step.seat.bot, step.seat.channel)
       /\ step.does = "restart" => IsRegistry(step.actors)

VARIABLE input

TextsInit == input = [of |-> "nothing"]

\* Nothing was taken in yet.
Fresh == input.of = "nothing"

TakePost == Fresh /\ \E event \in Posts : input' = [of |-> "post", event |-> event]
TakeEdit == Fresh /\ \E e \in Edits : input' = [of |-> "edit", event |-> e.event, target |-> e.target]
TakeThread == Fresh /\ \E t \in Threads : input' = [of |-> "thread", event |-> t.event, root |-> t.root]
TakeBody == Fresh /\ \E body \in Bodies : input' = [of |-> "body", body |-> body]
TakeAnswer ==
  Fresh /\ \E a \in Answers :
    input' = [of |-> "answer", text |-> a.text, requester |-> a.requester, audience |-> a.audience]
TakeRoster ==
  Fresh /\ \E r \in Rosters :
    input' = [of |-> "roster", held |-> r.held, read |-> r.read, answered |-> r.answered,
              lists |-> r.lists, authors |-> r.authors]
TakeFile == Fresh /\ \E text \in Files : input' = [of |-> "file", text |-> text]
TakeSearch == Fresh /\ \E s \in Searches : input' = [of |-> "search", request |-> s.request, day |-> s.day]
TakeBind ==
  Fresh /\ \E b \in Binds :
    input' = [of |-> "bind", adopt |-> b.adopt, whoami |-> b.whoami, recorded |-> b.recorded,
              holder |-> b.holder]
TakeRestart == Fresh /\ \E day \in Restarts : input' = [of |-> "restart", day |-> day]
TakeAsk ==
  Fresh /\ \E a \in Asks : input' = [of |-> "ask", day |-> a.day, recorded |-> a.recorded, owed |-> a.owed]

\* Three inputs go on: the asks of a host, the polls of a connection, of which
\* `subscribed` tells whether one refreshed all its filters, and the days of a host.
TakeNoAsk == Fresh /\ input' = [of |-> "asking", sessions |-> {}, asks |-> {}]
AskNext ==
  /\ input.of = "asking"
  /\ \E ask \in Askings :
       /\ Cardinality(input.asks \cup {ask}) <= MaxAsks
       /\ input' = [of |-> "asking", sessions |-> EnsureSession(input.sessions, ask),
                    asks |-> input.asks \cup {ask}]

TakeConnection ==
  Fresh /\ input' = [of |-> "polls", poll |-> NewPoll, scope |-> NewPoll.last, subscribed |-> FALSE]
PollNext ==
  /\ input.of = "polls"
  /\ \E step \in Polls :
       input' = [of |-> "polls", poll |-> PollRelay(input.poll, step), scope |-> step.scope,
                 subscribed |-> input.subscribed \/ (step.fails = 0 /\ step.cursor)]

TakeRegistry ==
  Fresh /\ \E actors \in Registries :
    input' = [of |-> "day", host |-> NewHost(actors), step |-> [does |-> "start"]]
StepNext ==
  /\ input.of = "day"
  /\ \E step \in Steps : input' = [of |-> "day", host |-> Step(input.host, step), step |-> step]

TextsNext ==
  \/ TakePost \/ TakeEdit \/ TakeThread \/ TakeBody \/ TakeAnswer \/ TakeRoster \/ TakeFile
  \/ TakeSearch \/ TakeBind \/ TakeRestart \/ TakeAsk
  \/ TakeNoAsk \/ AskNext \/ TakeConnection \/ PollNext \/ TakeRegistry \/ StepNext

TextsSpec == TextsInit /\ [][TextsNext]_input

-----------------------------------------------------------------------------
(* -------------------------------- requests ------------------------------ *)

\* A post that its relay signed for its author, by either tag.
ByActor(event, author) ==
  [event EXCEPT !.signer = RelayKey, !.tags = Append(event.tags, Tag("actor", author, "none"))]

ByPerson(event, author) ==
  [event EXCEPT !.signer = RelayKey, !.tags = <<Tag("p", author, "none")>> \o event.tags]

\* Whoever signs, a post asks what its author may ask: a relay's word on the
\* author (relay.rs:1019) reads as his own signature, anybody else's tag about
\* it as nothing, and what is asked is admitted by the bot (relay.rs:590).
AuthorsAskForThemselves ==
  input.of = "post" =>
    LET event == input.event
        act == MessageAction(event)
        claimed == [event EXCEPT !.tags = Append(event.tags, Tag("actor", Operator, "none"))]
    IN event.signer # RelayKey /\ Carrying(event.tags, "actor") = {} =>
         /\ MessageAction(ByActor(event, event.signer)) = act
         /\ MessageAction(ByPerson(event, event.signer)) = act
         /\ MessageAction(claimed) = act
         /\ act.does = "ask" =>
              /\ event.signer = Operator \/ Admitted[act.bot] = {} \/ event.signer \in Admitted[act.bot]
              /\ event.signer = Operator \/ Tag("p", Operator, "none") \in Range(event.tags)

\* The words of an event in a new post, addressed to the operator.
Anew(event, author) == [event EXCEPT !.tags = <<Tag("p", Operator, "none")>>, !.signer = author]

\* Nobody but its author edits a message, or deletes it but for the relay's own
\* moderation; and an edit makes its author ask nothing he could not ask anew:
\* the same body in a post of his, addressed to the operator, asks the same of
\* the same bot (relay.rs:645-727).
EditsAskNoMore ==
  input.of = "edit" =>
    LET act == MutationAction(input.event, input.target)
        author == EffectiveAuthor(input.event).pubkey
        anew == Anew(input.event, author)
    IN /\ act # NoAction => author = input.target.author \/ input.event.kind = "buzz"
       /\ act.does = "edit" /\ act.request # <<>> =>
            /\ MessageAction(anew).does = "ask"
            /\ MessageAction(anew).bot = input.target.bot
            /\ MessageAction(anew).request = act.request[1]

\* The host holds the operator's trigger m1, whose turn of the bot is active,
\* and its own progress post p1; reactions are not indexed.
Held(event, bot) ==
  LET id == TargetEvent(event.tags)
  IN [author |-> IF id \in {"m1", "p1"} THEN Operator ELSE Nothing,
      bot |-> IF id = "m1" THEN bot ELSE Nothing]

\* What the host sends comes back to it, signed by the operator, and never asks
\* a bot anything nor touches a turn, whatever the occupant wrote: the stamp
\* stands before a call, edits and deletions are of its own posts, and taking
\* the marker off a trigger withdraws nothing
\* (domain/lib.rs:60-81, relay.rs:475-727, outbox.rs:426-449, buzz.rs:53-130).
OwnPostsAskNothing ==
  input.of = "body" =>
    \A bot \in Range(Bots) :
      LET text == Stamped(input.body, bot)
          mark(id, by) == [id |-> id, kind |-> "reaction", signer |-> by, tags |-> Reaction("m1").tags]
          marks == {mark("r1", Operator), mark("r2", "alice")}
          sent == {ChannelMessage("here", text, <<>>, <<Operator>>),
                   MessageEdit("here", "p1", text), MessageDelete("here", "p1"), Reaction("m1")}
                    \cup RemoveReactions("m1", marks)
      IN /\ RemoveReactions("m1", marks) # {}
         /\ \A event \in sent : Action(event, Held(event, bot)) = NoAction

\* An answer replies to its trigger and belongs to the trigger's thread, as the
\* host itself and any reader of NIP-10 tags will find, also in threads begun
\* without markers (buzz.rs:131-204).
AnswerStaysInThread ==
  input.of = "thread" =>
    \A bot \in Range(Bots) :
      LET answer == Answer(input.event, bot, <<>>, <<Operator>>)
      IN /\ ReplyTarget(answer.tags) = input.event.id
         /\ ReplyThreadRoot("answer", answer.tags) = input.root

(* -------------------------------- filters ------------------------------- *)

\* Whatever the host would act on reaches it: a request by any author, in a
\* channel it knows or not, and an edit or a deletion of an active trigger is
\* stored where a fetch from its own second on finds it.  Only a post that a
\* relay signed for the operator, without a mention, has to be in a channel
\* with a session (relay.rs:611-643, 1071-1157, main.rs:708-729).
WhatAsksIsFetched ==
  LET fetched(event, scope) ==
        FetchStored(scope, 1, {[event |-> event, at |-> 1]}, [id \in Range(Subscriptions) |-> TRUE]).events # {}
      posted(event, known) ==
        MessageAction(event) # NoAction => fetched(event, Scope(known, {}, {}))
  IN /\ input.of = "post" =>
          LET event == input.event
              mentions == Tag("p", Operator, "none") \in Range(event.tags)
              known == IF mentions THEN {} ELSE {event.channel}
          IN /\ posted(event, {})
             /\ posted(ByPerson(event, event.signer), known)
             /\ posted(ByActor(event, event.signer), known)
     /\ input.of = "edit" =>
          (MutationAction(input.event, input.target) # NoAction =>
             fetched(input.event, Scope({}, {TargetEvent(input.event.tags)}, {})))

Shape(filters) == {[filter EXCEPT !.since = 0] : filter \in filters}

\* However refreshes fail, half done or before they began, the host either
\* hears live what it wants now or knows that it has to refresh; and it fetches
\* nothing before it was subscribed once (relay.rs:745-816, main.rs:608-663).
LiveIsWholeOrRefreshed ==
  input.of = "polls" =>
    /\ ~RefreshNeeded(input.poll, input.scope) =>
         \A id \in Range(Subscriptions) :
           Shape(input.poll.live[id]) = Shape(Wanted(input.scope, 0)[id])
    /\ Fetches(input.poll) => input.subscribed

(* -------------------------------- mentions ------------------------------ *)

Runs(text) == {i \in DOMAIN text : text[i].is \in {"ticks", "escaped", "tildes"}}

\* No line is set off as code.
Unfenced(text) == \A i \in DOMAIN text : Begins(text, i) => text[i] # Indent /\ ~Opens(text, i)

\* A reader sees code: between the first run of the text and the next as long;
\* or under a fence on the first line that nothing of its kind has closed.
PlainCode(text, i) ==
  \/ /\ Unfenced(text)
     /\ \E open, close \in Runs(text) :
          /\ open < i /\ i < close /\ text[open].is = "ticks" /\ text[close] = text[open]
          /\ \A k \in Runs(text) : k >= open
          /\ \A k \in Runs(text) : open < k /\ k < close => text[k].n # text[open].n
  \/ /\ Opens(text, 1)
     /\ \A k \in Runs(text) :
          1 < k /\ k < i => text[k].is # text[1].is \/ text[k].n < text[1].n

\* A reader sees text: no run before it has another of its length.
PlainText(text, i) ==
  /\ Unfenced(text)
  /\ \A k \in Runs(text) :
       k < i => text[k].is # "escaped" /\ \A l \in Runs(text) \ {k} : text[l].n # text[k].n

\* The sign at i can only mean p: he has an alias there, and whoever else has
\* one there has a shorter one.
Means(text, i, people, p) ==
  LET fitting(q) == {alias \in AliasesOf[q] : Fits(text, i, alias)}
  IN /\ text[i] = At
     /\ \E alias \in fitting(p) : \A q \in people \ {p} : \A other \in fitting(q) : Len(other) < Len(alias)

\* A post notifies its requester first, each person once and no more than the
\* cap; anybody else only where the text means him and not in code, and all
\* whom plain text means unless the cap is reached (relay.rs:110-144, 176-265,
\* outbox.rs:565-582).
NotifiesThoseItMeans ==
  input.of = "answer" =>
    LET text == input.text
        notified == ResolvedMentions(text, input.requester, input.audience)
        people == Range(input.audience.participants)
        meant(p) == {i \in DOMAIN text : Means(text, i, people, p)}
    IN /\ input.requester # <<>> => notified[1] = input.requester[1]
       /\ Len(notified) <= MaxMentions /\ IsInjective(notified)
       /\ \A p \in Range(notified) \ Range(input.requester) : \E i \in meant(p) : ~PlainCode(text, i)
       /\ \A p \in people :
            (\E i \in meant(p) : PlainText(text, i)) => p \in Range(notified) \/ Len(notified) = MaxMentions

\* A channel is called the operator's alone only on the word of the relay's
\* newest member list that names nobody else; a lookup that fails makes it
\* shared.  Only an index that cannot be read leaves an older answer standing
\* (main.rs:507-530, relay.rs:79-86).
PrivateByRosterOnly ==
  input.of = "roster" =>
    LET audience == AudienceFor(RefreshAudience(input.held, input.read, input.answered,
                                                input.lists, input.authors), input.authors)
    IN ~IsShared(audience) =>
         \/ ~input.read /\ ~IsShared(input.held)
         \/ /\ input.read /\ input.answered
            /\ \E l \in Range(input.lists) :
                 /\ \A other \in Range(input.lists) : other.at <= l.at
                 /\ Range(l.members) = {Owner}

(* --------------------------------- places ------------------------------- *)

\* The names the host gives out are apart, whatever the places are called and
\* whichever bot asks, fit the longest name and name a file; and nobody is
\* refused while a suffix of his channel's id still makes a free name
\* (domain/lib.rs:200-352, snapshot.rs:47-56, actor.rs:1657-1696).
NamesAreApart ==
  input.of = "asking" =>
    LET sessions == input.sessions
    IN /\ \A s, t \in sessions : s.name = t.name => s = t
       /\ \A s \in sessions : Len(s.name) <= MaxName /\ FileStem(s.name)
       /\ \A ask \in input.asks :
            LET id == CompactId[ask.channel]
                room == Above(MaxName, Len(BotIdOf(ask.bot)) + 1)
                suffix == SubSeq(id, 1, Smaller(Len(id), room))
            IN BotIdOf(ask.bot) # <<>> /\ ~ask.empty =>
                 \/ \E s \in sessions : s.channel = ask.channel /\ s.bot = Trimmed(ask.bot)
                 \/ room = 0 \/ \E s \in sessions : IsSuffix(suffix, s.name)

(* ------------------------------- startup.md ----------------------------- *)

\* The host's blocks in startup.md never cost a line written by hand: a file is
\* refused as it is, or keeps all of them in their order around one whole copy
\* of each block, as the newest build writes it; pointing again changes nothing
\* (snapshot.rs:227-313).
HandTextStays ==
  input.of = "file" =>
    LET pointed == Point(input.text, 1)
        newer == Point(pointed, 2)
    IN pointed # Refused =>
         /\ Point(pointed, 1) = pointed
         /\ newer # Refused /\ Point(newer, 1) = pointed
         /\ ByHand(pointed) = ByHand(input.text) /\ ByHand(newer) = ByHand(input.text)
         /\ \A block \in Blocks : Whole(newer, block) /\ Spots(newer, Body(block, 1)) = {}

(* --------------------------------- lookup ------------------------------- *)

\* An occupant reads "No results" only if the relay searched the channel of his
\* session and had nothing there, and results only from that channel; anything
\* that went wrong on the way reads "Could not check" and fails the command
\* (lookup.rs:201-246, 273-317, 387-412, main.rs:1258).
NoResultsWasChecked ==
  input.of = "search" =>
    LET shown == RunSearch(input.request, input.day)
        session == input.request.session
        known == session \in DOMAIN ChannelOf
        relay == input.day.relay[ChannelOf[session]]
    IN /\ shown.heading = "No results" => known /\ relay.ok /\ relay.events = {}
       /\ shown.heading = "Results" => known /\ relay.ok /\ shown.shows.events = relay.events
       /\ shown.succeeds => known /\ relay.ok /\ shown.shows.channel = ChannelOf[session]
       /\ ~shown.succeeds => shown.heading = "Could not check"

(* -------------------------------- receipts ------------------------------ *)

\* An agent that is taken for a pane holds it: the adoption itself, or the name
\* in the same breath, named its incarnation; and it is the agent that was
\* recorded, if any (lib.rs:351-370, 569-629).
PaneIsItsAgents ==
  input.of = "bind" =>
    LET bound == AdoptOccupant(input.adopt, input.whoami, input.recorded)
    IN bound.ok => /\ bound.value.incarnation = input.holder
                   /\ input.recorded \in {Missing, bound.value.agent}

\* A restart closes no pane but the only one Herdr lists under the name in the
\* corpus of its bot, begins a second identity only when Kelpie says that
\* nothing ever held the name, and starts nothing when any word on the way was
\* not to be had; who was started is who was resolved (actor.rs:1399-1505,
\* herdr.rs:117-158, lib.rs:410-423).
RestartIsTheNames ==
  input.of = "restart" =>
    LET day == input.day
        restart == RestartOccupant(day, "seat", "corpus")
        listed == IF Herdr(day.list).ok THEN Range(day.list.receipt.panes) ELSE {}
        held == {p.pane : p \in {q \in listed : q.name = "seat" /\ q.cwd = "corpus" /\ IsWhole(q)}}
        launch == restart.starts[1]
    IN /\ restart.closed # Missing => held = {restart.closed}
       /\ Cardinality(held) > 1 => restart.starts = <<>>
       /\ restart.starts # <<>> =>
            /\ held # {} => restart.closed \in held /\ day.close.success
            /\ launch.as = Missing => ~day.who.success /\ Unbound(day.who.receipt)
            /\ launch.in \notin held
       /\ restart.started.ok => launch.as \in {Missing, restart.started.value.agent}

\* Whatever became of an ask, a receipt names an obligation toward the host
\* itself, of the agent that was recorded, if any; two obligations are never guessed between (lib.rs:752-811, 898-929).
ReceiptNamesAnAsk ==
  input.of = "ask" =>
    LET receipt == AskNamed(input.day, input.recorded)
    IN receipt.ok =>
         /\ input.recorded \in {Missing, receipt.value.to}
         /\ \E o \in Range(input.owed) : o.ask = receipt.value.ask /\ o.to = Waiter
         /\ receipt.value.delivery = "unknown" /\ ~input.day.ask.success =>
              \A o \in Range(input.owed) : o.to = Waiter /\ o.ask # Missing => o.ask = receipt.value.ask

(* --------------------------------- actors ------------------------------- *)

\* Whatever a host with several bots took in, however often it restarted, with
\* bots removed or added, and whichever reads failed: an answer is handled by
\* its bot if configured, and whoever handles it holds an audience of its
\* channel unless his last attempt to get one, since the restart, failed; so the
\* first actor for tells once all were refreshed after the session was made; and
\* only the bot of a posted turn goes on to the next (main.rs:871-912, 507-589,
\* actor.rs:634-690).
DeliveriesMeetTheirAudience ==
  input.of = "day" =>
    LET host == input.host
        step == input.step
        configured == Range(host.actors)
        known == host.held \cup host.missed
    IN /\ \A seat \in host.open \cup host.posted :
            /\ seat.bot \in configured => HandlerOfAnswer(host, seat) = seat.bot
            /\ Seat(HandlerOfAnswer(host, seat), seat.channel) \in known
       /\ \A seat \in host.sessions \ host.fresh : Seat(HandlerOfTell(host), seat.channel) \in known
       /\ step.does = "answer" =>
            host.resumed = IF step.seat \in host.posted THEN {step.seat.bot} \cap configured ELSE {}
       /\ step.does = "edit" /\ step.seat \in host.open => step.seat.bot \notin configured

-----------------------------------------------------------------------------
(* What the host promises, area by area.                                    *)

\* A message asks, edits and withdraws what its own author may, and nothing the
\* host writes asks anything.
RequestsAreTheirAuthors == AuthorsAskForThemselves /\ EditsAskNoMore /\ OwnPostsAskNothing

\* Nothing meant for the host goes unheard, for want of a filter that finds it
\* or of an actor that may deal with it.
NothingGoesUnheard == WhatAsksIsFetched /\ LiveIsWholeOrRefreshed /\ DeliveriesMeetTheirAudience

\* An answer stands in its thread and notifies those it means.
AnswersReachThoseTheyMean == AnswerStaysInThread /\ NotifiesThoseItMeans

\* What Kelpie, Herdr, the relay and the lookup server said is taken as said,
\* and as no more.
WordsAreTakenAsSaid ==
  /\ PaneIsItsAgents /\ RestartIsTheNames /\ ReceiptNamesAnAsk
  /\ NoResultsWasChecked /\ PrivateByRosterOnly
=============================================================================
