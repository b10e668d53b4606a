-------------------------------- MODULE Reading --------------------------------
(***************************************************************************)
(* What the host reads in a relay event and what it writes into its own:   *)
(* whose message it is, whether it asks a bot for something, which turn an *)
(* edit or a deletion is about, and where in a thread the answer goes.     *)
(* Tags are records of a name, a value and the marker of an `e` tag.  A    *)
(* body is the sequence of its first tokens.                               *)
(***************************************************************************)
EXTENDS Naturals, SequencesExt

CONSTANTS
  Operator,     \* the public key the host signs with
  Admitted,     \* allowed_requesters of each bot; none listed admits everyone
  Bots,         \* the configured bots, in the order of the registry
  RelayKey,     \* relay_pubkey: a relay that signs for people, or none
  Nothing

-----------------------------------------------------------------------------
(* ---------------------------------- tags -------------------------------- *)

Tag(name, value, mark) == [name |-> name, value |-> value, mark |-> mark]

\* Something that is no public key and no event id.
Junk == "junk"

\* tag_values: where the valid tags of a name stand.
Carrying(tags, name) == {i \in DOMAIN tags : tags[i].name = name /\ tags[i].value # Junk}

\* The value of the first or the last of some tags.
FirstOf(tags, places) == IF places = {} THEN Nothing ELSE tags[Min(places)].value
LastOf(tags, places) == IF places = {} THEN Nothing ELSE tags[Max(places)].value

\* effective_author: a relay that signs for somebody names him in an actor tag
\* or in the first p tag, which then is no mention.
EffectiveAuthor(event) ==
  LET actor == FirstOf(event.tags, Carrying(event.tags, "actor"))
      person == FirstOf(event.tags, Carrying(event.tags, "p"))
  IN IF event.signer # RelayKey THEN [pubkey |-> event.signer, byTag |-> FALSE]
     ELSE IF actor # Nothing THEN [pubkey |-> actor, byTag |-> FALSE]
     ELSE IF person # Nothing THEN [pubkey |-> person, byTag |-> TRUE]
     ELSE [pubkey |-> event.signer, byTag |-> FALSE]

\* The people a message mentions: its p tags but the one that names its author.
Mentioned(event, author) ==
  LET people == Carrying(event.tags, "p")
  IN {event.tags[i].value : i \in IF author.byTag THEN people \ {Min(people)} ELSE people}

\* target_event_id: the only valid e tag.
TargetEvent(tags) ==
  LET targets == Carrying(tags, "e")
  IN IF \E i \in targets : targets = {i} THEN FirstOf(tags, targets) ELSE Nothing

\* The `e` tags with a marker.
Marked(tags, mark) == {i \in Carrying(tags, "e") : tags[i].mark = mark}

\* reply_target: the last e tag marked as a reply.
ReplyTarget(tags) == LastOf(tags, Marked(tags, "reply"))

(* -------------------------------- requests ------------------------------ *)

Call(bot) == [is |-> "call", bot |-> bot]        \* `bot:`
StampOf(bot) == [is |-> "stamp", bot |-> bot]    \* `**[bot]**:`
Glued(bot) == [is |-> "glued", bot |-> bot]      \* the stamp and text in one token
AtName == [is |-> "at", bot |-> Nothing]         \* `@somebody`
Word == [is |-> "word", bot |-> Nothing]

\* TriggerMatch::from_body: the token comes first, or after one mention.  The
\* result is empty, or holds the request.
FromBody(body, bot) ==
  IF Len(body) > 0 /\ body[1] = Call(bot) THEN <<Tail(body)>>
  ELSE IF Len(body) > 1 /\ body[1] = AtName /\ body[2] = Call(bot)
    THEN <<SubSeq(body, 3, Len(body))>>
  ELSE <<>>

\* stamp_outbound: once.
Stamped(body, bot) ==
  IF body # <<>> /\ body[1] \in {StampOf(bot), Glued(bot)} THEN body
  ELSE <<StampOf(bot)>> \o body

\* requester_authorized
Authorizes(bot, author) ==
  author = Operator \/ Admitted[bot] = {} \/ author \in Admitted[bot]

\* TriggerMatch::parse
Parsed(author, people, bot, body) ==
  IF author = Operator \/ Operator \in people THEN FromBody(body, bot) ELSE <<>>

\* match_trigger: the first bot that admits the author and is called.
CalledBot(author, people, body) ==
  LET called == {i \in DOMAIN Bots : Authorizes(Bots[i], author) /\ Parsed(author, people, Bots[i], body) # <<>>}
  IN IF called = {} THEN Nothing ELSE Bots[Min(called)]

NoAction == [does |-> "nothing"]

\* message_action: a turn candidate, if the message belongs to a channel.
MessageAction(event) ==
  LET author == EffectiveAuthor(event)
      people == Mentioned(event, author)
      bot == CalledBot(author.pubkey, people, event.body)
  IN IF event.channel = Nothing \/ bot = Nothing THEN NoAction
     ELSE [does |-> "ask", bot |-> bot, by |-> author.pubkey,
           request |-> Parsed(author.pubkey, people, bot, event.body)[1],
           replyTo |-> ReplyTarget(event.tags)]

\* `target` is what the host holds of the target of an edit or a deletion: its
\* author, or nothing when it is not indexed, and the bot of its active turn.

\* Mutant: an edit is not held against the list of requesters.
EditAnyone(event, target) ==
  LET author == EffectiveAuthor(event).pubkey
  IN IF TargetEvent(event.tags) = Nothing \/ target.author # author \/ target.bot = Nothing
       THEN NoAction
       ELSE [does |-> "edit", request |-> FromBody(event.body, target.bot)]

\* edit_action: its author is the target's; a request he may not make any more,
\* or of a bot that is not configured any more, leaves none (trigger_token).
EditAction(event, target) ==
  LET author == EffectiveAuthor(event).pubkey
  IN IF TargetEvent(event.tags) = Nothing \/ target.author # author \/ target.bot = Nothing
       THEN NoAction
       ELSE [does |-> "edit",
             request |-> IF target.bot \in Range(Bots) /\ Authorizes(target.bot, author)
                           THEN Parsed(author, {Operator}, target.bot, event.body) ELSE <<>>]

\* delete_action: a moderator's deletion needs no author.
DeleteAction(event, target) ==
  LET author == EffectiveAuthor(event).pubkey
  IN IF \/ TargetEvent(event.tags) = Nothing \/ target.author = Nothing \/ target.bot = Nothing
        \/ event.kind = "nip09" /\ target.author # author
       THEN NoAction
       ELSE [does |-> "delete"]

\* ingest: what a mutation of the relay asks the host to do.
MutationAction(event, target) ==
  IF event.kind = "edit" THEN EditAction(event, target) ELSE DeleteAction(event, target)

\* ingest: other kinds are neither indexed nor acted on.
Action(event, target) ==
  CASE event.kind = "message" -> MessageAction(event)
    [] event.kind \in {"edit", "nip09", "buzz"} -> MutationAction(event, target)
    [] OTHER -> NoAction

(* -------------------------------- threads ------------------------------- *)

\* reply_thread_root: the root marker beside a reply marker, a reply marker
\* alone, or the first unmarked e tag; never the message itself.
ReplyThreadRoot(id, tags) ==
  LET root == LastOf(tags, Marked(tags, "root"))
      reply == LastOf(tags, Marked(tags, "reply"))
      named == IF reply # Nothing THEN IF root # Nothing THEN root ELSE reply
               ELSE IF root # Nothing THEN Nothing
               ELSE FirstOf(tags, Marked(tags, "none"))
  IN IF named = id THEN Nothing ELSE named

\* reply_thread_tags
ReplyThreadTags(id, root) ==
  IF root = Nothing \/ root = id THEN <<Tag("e", id, "reply")>>
  ELSE <<Tag("e", root, "root"), Tag("e", id, "reply")>>

\* channel_message
ChannelMessage(channel, body, threadTags, people) ==
  [kind |-> "message", signer |-> Operator, channel |-> channel, body |-> body,
   tags |-> threadTags \o [i \in DOMAIN people |-> Tag("p", people[i], "none")]]

\* An event of the operator about another.
About(kind, id, channel, body) ==
  [kind |-> kind, signer |-> Operator, channel |-> channel, body |-> body,
   tags |-> <<Tag("e", id, "none")>>]

\* message_edit and message_delete, of progress posts
MessageEdit(channel, post, body) == About("edit", post, channel, body)
MessageDelete(channel, post) == About("buzz", post, channel, <<>>)

\* reaction: the marker on a trigger in flight
Reaction(trigger) == About("reaction", trigger, Nothing, <<>>)

\* Mutant: the removal names what was marked.
RemovalOfMarked(reaction) == About("nip09", TargetEvent(reaction.tags), Nothing, <<>>)

\* reaction_removal
ReactionRemoval(reaction) == About("nip09", reaction.id, Nothing, <<>>)

\* remove_reaction: every marker the operator left on the trigger goes.
RemoveReactions(trigger, reactions) ==
  {ReactionRemoval(r) : r \in {m \in reactions :
     m.signer = Operator /\ \E i \in Carrying(m.tags, "e") : m.tags[i].value = trigger}}

\* attempt_buzz_event: the answer to a trigger, with the people it notifies.
Answer(trigger, bot, body, people) ==
  ChannelMessage(trigger.channel, Stamped(body, bot),
                 ReplyThreadTags(trigger.id, ReplyThreadRoot(trigger.id, trigger.tags)), people)
=============================================================================
