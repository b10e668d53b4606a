-------------------------------- MODULE Routing --------------------------------
(***************************************************************************)
(* Which bot's actor takes what the host receives, and whose audiences it  *)
(* knows then.  A host is its actors in the order of the registry, the     *)
(* sessions of all bots, the channels each actor holds an audience for,    *)
(* those for which his last attempt to get one failed, and the turn of     *)
(* each session; a day of a host goes on step by step.  A step has the     *)
(* seats whose index cannot be read in it, `unread`, and the actors who    *)
(* cannot read their scope, `blind`.                                       *)
(***************************************************************************)
EXTENDS Naturals, SequencesExt

\* A bot in a channel: the key of a session, and of an audience an actor holds.
Seat(bot, channel) == [bot |-> bot, channel |-> channel]

NewHost(actors) ==
  [actors |-> actors, sessions |-> {}, held |-> {}, missed |-> {}, open |-> {},
   posted |-> {}, cancelled |-> {}, fresh |-> {}, resumed |-> {}, dropped |-> {}]

Nobody == "nobody"

-----------------------------------------------------------------------------
(* -------------------------------- lookups ------------------------------- *)

\* known_channel_ids: the channels of all bots' sessions, for every actor.
KnownChannels(host) == {s.channel : s \in host.sessions}

\* bot_id_for_ask: of any turn that has the ask, ended or not.
BotIdForAsk(host, seat) == IF seat \in host.open \cup host.posted \cup host.cancelled THEN seat.bot ELSE Nobody

\* handle_host_delivery: the bot's actor, or the first one for a bot that is
\* unknown or no longer configured.
ActorOrFirst(host, bot) == IF bot \in Range(host.actors) THEN bot ELSE host.actors[1]

\* A tell replies to nothing, so no bot is looked up for it.
HandlerOfAnswer(host, seat) == ActorOrFirst(host, BotIdForAsk(host, seat))
HandlerOfTell(host) == ActorOrFirst(host, Nobody)

\* action_bot_id, action_channel_id and actor_for_bot: an edit or a deletion
\* goes to the bot of the turn that is active now, and the event is processed
\* unseen if that is no configured bot's.
ActorForMutation(host, seat) ==
  IF seat \in host.open /\ seat.bot \in Range(host.actors) THEN seat.bot ELSE Nobody

(* --------------------------------- steps -------------------------------- *)

\* The seats tried get an audience, but for those that could not be read, which
\* keep what they held, if anything.
Tried(host, seats, failing) ==
  [host EXCEPT !.held = @ \cup (seats \ failing),
               !.missed = (@ \ seats) \cup (seats \cap failing)]

\* refresh_actor_audience
Refreshed(host, seat, step) == Tried(host, {seat}, step.unread)

\* Mutant: an actor refreshes the channels of its own sessions.
ScopeOfOwn(host) == {s \in host.sessions : s.bot \in Range(host.actors)}

\* refresh_actor_audiences: an actor whose scope cannot be read is passed over.
\* `fresh` are the sessions made since.
ScopeOfAll(host) == {Seat(actor, channel) : actor \in Range(host.actors), channel \in KnownChannels(host)}
RefreshedAll(host, step) ==
  LET failing == step.unread \cup {s \in ScopeOfAll(host) : s.bot \in step.blind}
  IN [Tried(host, ScopeOfAll(host), failing) EXCEPT !.fresh = {}]

\* observe_event with a trigger of a bot: its audience, then its session and turn.
OnTrigger(host, seat, step) ==
  IF seat.bot \notin Range(host.actors) THEN host
  ELSE [Refreshed(host, seat, step) EXCEPT
          !.sessions = @ \cup {seat}, !.open = @ \cup {seat}, !.posted = @ \ {seat},
          !.cancelled = @ \ {seat},
          !.fresh = IF seat \in host.sessions THEN @ ELSE @ \cup {seat}]

\* observe_event with an edit that withdraws the request of a turn.
OnEdit(host, seat, step) ==
  LET actor == ActorForMutation(host, seat)
  IN IF actor = Nobody
       THEN [host EXCEPT !.dropped = IF seat \in host.open THEN @ \cup {seat} ELSE @]
       ELSE [Refreshed(host, seat, step) EXCEPT !.open = @ \ {seat}, !.cancelled = @ \cup {seat}]

\* posted_channel_for_ask, resume_if_posted: only the actor of the turn's bot
\* goes on, with a new audience if it can, to the next of its queue.
AfterPosted(host, actor, seat, step) ==
  IF seat \in host.posted /\ seat.bot = actor
    THEN [Refreshed(host, seat, step) EXCEPT !.resumed = @ \cup {actor}]
    ELSE host

\* handle_host_delivery with the final of an open turn, which is settled or not.
OnAnswer(host, seat, step) ==
  LET posted == IF seat \in host.open /\ step.settled
                  THEN [host EXCEPT !.open = @ \ {seat}, !.posted = @ \cup {seat}] ELSE host
  IN AfterPosted(posted, HandlerOfAnswer(host, seat), seat, step)

\* load_host and start_actors: another registry, maybe, and no audience yet;
\* serve tries to refresh all before it takes anything.
OnRestart(host, step) ==
  RefreshedAll([host EXCEPT !.actors = step.actors, !.held = {}, !.missed = {}], step)

Step(host, step) ==
  LET calm == [host EXCEPT !.resumed = {}]
  IN CASE step.does = "trigger" -> OnTrigger(calm, step.seat, step)
       [] step.does = "edit" -> OnEdit(calm, step.seat, step)
       [] step.does = "answer" -> OnAnswer(calm, step.seat, step)
       [] step.does = "tick" -> RefreshedAll(calm, step)
       [] step.does = "restart" -> OnRestart(calm, step)
=============================================================================
