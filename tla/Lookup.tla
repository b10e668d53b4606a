--------------------------------- MODULE Lookup ---------------------------------
(***************************************************************************)
(* A search of its channel by an occupant: the command line in its pane,   *)
(* the host's socket, the thread that answers a connection and the relay.  *)
(* `day` is all that may go differently: what each of them does this time. *)
(***************************************************************************)
EXTENDS Naturals, Sequences

CONSTANTS
  ChannelOf,      \* the channel of each session by its name
  MaxQuery,       \* characters in a query (512)
  MaxRequest      \* bytes the host reads of a request (8192)

Failed(reason) == [status |-> "failed", reason |-> reason]
NoResults(session, channel) == [status |-> "no-results", session |-> session, channel |-> channel]
Matches(session, channel, events) ==
  [status |-> "matches", session |-> session, channel |-> channel, events |-> events]

-----------------------------------------------------------------------------
(* ------------------------------- the host ------------------------------- *)

\* parse_lookup_query, of the trimmed query.
QueryParses(query) == query.chars \in 1..MaxQuery /\ ~query.nul

\* channel_for: the host's own connection to the database.
ChannelFor(session, day) ==
  IF ~day.database THEN [ok |-> FALSE, reason |-> "host database unavailable"]
  ELSE IF session \notin DOMAIN ChannelOf THEN [ok |-> FALSE, reason |-> "unknown session"]
  ELSE [ok |-> TRUE, channel |-> ChannelOf[session]]

\* search_channel, whose events may be none.
SearchChannel(session, channel, day) ==
  IF ~day.relay[channel].ok THEN Failed("channel search failed")
  ELSE IF day.relay[channel].events = {} THEN NoResults(session, channel)
  ELSE Matches(session, channel, day.relay[channel].events)

\* resolve_lookup
ResolveLookup(request, day) ==
  LET found == ChannelFor(request.session, day)
  IN IF ~QueryParses(request.query) THEN Failed("query")
     ELSE IF ~found.ok THEN Failed(found.reason)
     ELSE SearchChannel(request.session, found.channel, day)

\* answer_connection: a request is one whole line of bounded length, or nothing
\* is answered when none came in time.
AnswerConnection(request, day) ==
  IF day.sent = "late" THEN <<>>
  ELSE IF day.sent = "cut" \/ request.bytes > MaxRequest THEN <<Failed("lookup request is invalid")>>
  ELSE <<ResolveLookup(request, day)>>

(* ---------------------------- the occupant's side ----------------------- *)

\* How the line arrives: whole, empty when the host closed the connection, cut
\* when it went down amid its answer, or not before the timeout.
Arrives(request, day) == IF AnswerConnection(request, day) = <<>> THEN "empty" ELSE day.reply

\* spawn_lookup_server: the socket is missing until the host has bound it, which
\* removes the one before, and refuses once that host is gone.
Listening(day) == day.socket = "open"

\* request_lookup
RequestLookup(request, day) ==
  IF ~Listening(day) THEN Failed("host lookup socket is not listening")
  ELSE CASE Arrives(request, day) = "whole" -> AnswerConnection(request, day)[1]
         [] Arrives(request, day) = "empty" -> Failed("lookup reply is invalid")
         [] OTHER -> Failed("lookup did not complete")

\* default_lookup_socket: named, in the runtime directory, or nowhere.
SocketPath(explicit, runtime) ==
  IF explicit # "" THEN explicit ELSE IF runtime # "" THEN runtime ELSE "none"

\* render_lookup
Heading(outcome) ==
  CASE outcome.status = "failed" -> "Could not check"
    [] outcome.status = "no-results" -> "No results"
    [] outcome.status = "matches" -> "Results"

\* run_search: what the pane shows, and whether the command succeeds.
RunSearch(request, day) ==
  LET outcome == IF SocketPath(day.explicit, day.runtime) = "none"
                   THEN Failed("host lookup socket is not listening")
                 ELSE RequestLookup(request, day)
  IN [shows |-> outcome, heading |-> Heading(outcome), succeeds |-> outcome.status # "failed"]
=============================================================================
