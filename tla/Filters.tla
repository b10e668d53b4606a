-------------------------------- MODULE Filters --------------------------------
(***************************************************************************)
(* What the host asks the relay for: the filters it fetches and subscribes *)
(* to, how a refresh replaces the live subscriptions one after the other,  *)
(* and when a poll refreshes them.  Events are those of Reading.           *)
(***************************************************************************)
EXTENDS Reading

Posting == {"message"}
Mutating == {"edit", "nip09", "buzz"}

\* The scope of a poll (PendingScope): channels with a session, triggers of
\* queued and open turns, and authors of live watches.
Scope(channels, triggers, authors) == [channels |-> channels, triggers |-> triggers, authors |-> authors]

-----------------------------------------------------------------------------
(* -------------------------------- filters ------------------------------- *)

Filter(kinds, on, values, since) == [kinds |-> kinds, on |-> on, values |-> values, since |-> since]

\* What a relay compares the values of a filter with.
Compared(event, on) ==
  IF on = "author" THEN {event.signer}
  ELSE IF on = "h" THEN {event.channel}
  ELSE {tag.value : tag \in {t \in Range(event.tags) : t.name = on}}

\* A relay's reading of a filter: `since` is inclusive.
Selects(filter, event, at) ==
  /\ event.kind \in filter.kinds /\ at >= filter.since
  /\ Compared(event, filter.on) \cap filter.values # {}

\* An empty list asks for nothing, not for everything.
Unless(condition, filter) == IF condition THEN {} ELSE {filter}

\* message_filter
MessageFilter(since) == {Filter(Posting, "p", {Operator}, since)}

\* operator_authored_filter
AuthoredFilter(since) == Unless(Operator = Junk, Filter(Posting, "author", {Operator}, since))

\* channel_filter
ChannelFilter(channels, since) == Unless(channels = {}, Filter(Posting, "h", channels, since))

\* author_filter: keys that do not parse are left out.
AuthorFilter(authors, since) ==
  Unless(authors \ {Junk} = {}, Filter(Posting, "author", authors \ {Junk}, since))

\* mutation_filter
MutationFilter(triggers, since) == Unless(triggers = {}, Filter(Mutating, "e", triggers, since))

Subscriptions == <<"messages", "authored", "channels", "mutations", "watched">>

\* The filter of each subscription, if any.
Wanted(scope, since) ==
  [id \in Range(Subscriptions) |->
     CASE id = "messages" -> MessageFilter(since)
       [] id = "authored" -> AuthoredFilter(since)
       [] id = "channels" -> ChannelFilter(scope.channels, since)
       [] id = "mutations" -> MutationFilter(scope.triggers, since)
       [] id = "watched" -> AuthorFilter(scope.authors, since)]

\* fetch_stored_events: all fetches or none.
FetchStored(scope, since, stored, answers) ==
  IF \A id \in Range(Subscriptions) : answers[id]
    THEN [ok |-> TRUE, events |-> {s \in stored : \E id \in Range(Subscriptions) :
            \E filter \in Wanted(scope, since)[id] : Selects(filter, s.event, s.at)}]
    ELSE [ok |-> FALSE, events |-> {}]

(* ----------------------------- subscriptions ---------------------------- *)

NoneLive == [id \in Range(Subscriptions) |-> {}]

\* subscribe, which goes through the subscriptions in order and ends with the
\* first that fails.  `fails` is its place, 0 if none does; a subscription that
\* was to be replaced may have been closed before (update_filter,
\* subscribe_filter).
Subscribe(live, wanted, fails, closed) ==
  [ok |-> fails = 0,
   live |-> [id \in Range(Subscriptions) |->
     LET k == CHOOSE i \in DOMAIN Subscriptions : Subscriptions[i] = id
     IN IF fails = 0 \/ k < fails THEN wanted[id]
        ELSE IF k = fails /\ closed THEN {} ELSE live[id]]]

\* RelayPoll, with the subscriptions that are live.
NewPoll == [announced |-> FALSE, error |-> FALSE, last |-> Scope({}, {}, {}), live |-> NoneLive]

\* Mutant: a refresh that failed is not made up for.
RefreshByScope(poll, scope) == ~poll.announced \/ poll.last # scope

\* subscription_refresh_needed
RefreshNeeded(poll, scope) == ~poll.announced \/ poll.error \/ poll.last # scope

\* poll_relay, as far as the subscriptions are concerned; a replay cursor that
\* cannot be read fails the refresh before it begins (refresh_subscription).
PollRelay(poll, step) ==
  LET done == Subscribe(poll.live, Wanted(step.scope, step.since), step.fails, step.closed)
  IN IF ~RefreshNeeded(poll, step.scope) THEN poll
     ELSE IF ~step.cursor THEN [poll EXCEPT !.error = TRUE]
     ELSE IF done.ok
       THEN [announced |-> TRUE, error |-> FALSE, last |-> step.scope, live |-> done.live]
     ELSE [poll EXCEPT !.error = TRUE, !.live = done.live]

\* Only a host that was subscribed once fetches what is stored.
Fetches(poll) == poll.announced
=============================================================================
