-------------------------------- MODULE Places --------------------------------
(***************************************************************************)
(* The name of a bot in a place: what the place is called, how the name is *)
(* made from it, and which of the candidates the host grants.  Names are   *)
(* sequences of characters: "-", and letters, of which only those in       *)
(* Letters may stand in a file name.                                       *)
(***************************************************************************)
EXTENDS Naturals, Subsequences

CONSTANTS
  Self,           \* the operator's public key
  People,         \* public keys
  Letters,        \* ASCII letters and digits
  Digits,         \* those of them that are digits
  Unnamed,        \* the word for what is called without letters ("channel")
  Dm,             \* the title of a place that is no name ("DM")
  IdOf,           \* each channel's id as text
  CompactId,      \* the compact form of each channel's id: a UUID's digits or a hash
  FirstSuffix,    \* the shortest suffix (8)
  SuffixStep,     \* what the next one adds (4)
  MaxName,        \* the longest public name (32)
  NoName          \* nobody, or a profile that was not answered

Smaller(m, n) == IF m < n THEN m ELSE n
Above(m, n) == IF m > n THEN m - n ELSE 0

-----------------------------------------------------------------------------
(* ---------------------------- the place's label ------------------------- *)

Trimmed(text) ==
  LET inked == {i \in DOMAIN text : text[i] # " "}
  IN IF inked = {} THEN <<>> ELSE SubSeq(text, Min(inked), Max(inked))

\* What is asked of the relay about a channel, and about a person; no filter
\* can be made for what is no public key.
MetadataFilter(channel) == {[kind |-> "metadata", of |-> channel]}
ProfileFilter(person) == IF person \in People THEN {[kind |-> "profile", of |-> person]} ELSE {}

\* fetch_filtered: where what was asked for stands; without a filter there is
\* nothing to fetch.
Fetched(stored, filter) ==
  {i \in DOMAIN stored : \E f \in filter : stored[i].kind = f.kind /\ stored[i].of = f.of}

\* newest_event: the last of the newest.
NewestOf(stored, places) ==
  LET newest == {i \in places : \A j \in places : stored[j].at <= stored[i].at}
  IN IF newest = {} THEN <<>> ELSE <<stored[Max(newest)]>>

\* parse_place_metadata: what is no public key is nobody.
Participants(event) == Range(event.people) \cap People

\* other_participant: the only one besides the operator.
OtherParticipant(people) ==
  LET others == people \ {Self}
  IN IF \E p \in others : others = {p} THEN CHOOSE p \in others : TRUE ELSE NoName

\* wants_peer_display: a title that says no more than that this is a DM.
WantsPeer(title) == Trimmed(title) \in {<<>>, Dm}

\* place_display of the domain: a title wins, then the peer's name.
DisplayOf(title, peer) ==
  IF ~WantsPeer(title) \/ Trimmed(peer) = <<>> THEN Trimmed(title) ELSE Trimmed(peer)

\* place_display of the relay: either fetch may fail, and then there is none.
PlaceDisplay(place, channel) ==
  LET found == NewestOf(place.stored, Fetched(place.stored, MetadataFilter(channel)))
      title == found[1].name
      peer == OtherParticipant(Participants(found[1]))
      profile == NewestOf(place.stored, Fetched(place.stored, ProfileFilter(peer)))
      asks == WantsPeer(title) /\ peer # NoName
  IN IF place.fails = "metadata" \/ found = <<>> THEN <<>>
     ELSE IF ~asks THEN DisplayOf(title, <<>>)
     ELSE IF place.fails = "profile" THEN <<>>
     ELSE DisplayOf(title, IF profile = <<>> THEN <<>> ELSE profile[1].name)

(* ------------------------------ candidates ------------------------------ *)

\* slugify: runs of anything else become one hyphen between letters.
Slug(display) ==
  LET letters == {i \in DOMAIN display : display[i] \in Letters}
      gaps == {i \in DOMAIN display \ letters : i - 1 \in letters /\ \E j \in letters : i < j}
      hyphened == [i \in DOMAIN display |-> IF i \in letters THEN display[i] ELSE "-"]
  IN IF letters = {} THEN Unnamed ELSE Picked(hyphened, letters \cup gaps)

\* The beginning of a slug, without hyphens at its end.
Cut(slug, length) ==
  LET ends == {n \in 0..Smaller(length, Len(slug)) : n = 0 \/ slug[n] # "-"}
  IN SubSeq(slug, 1, CHOOSE n \in ends : \A m \in ends : m <= n)

\* session_candidate; the result is empty if no name fits.
Candidate(bot, slug, suffix) ==
  LET fixed == Len(bot) + 1 + Len(suffix)
      shown == IF suffix = <<>> THEN Cut(slug, Above(MaxName, fixed))
               ELSE Cut(slug, Above(MaxName, fixed + 1))
      name == IF suffix = <<>> THEN bot \o <<"-">> \o shown
              ELSE IF shown = <<>> THEN bot \o <<"-">> \o suffix
              ELSE bot \o <<"-">> \o shown \o <<"-">> \o suffix
  IN IF Len(name) > MaxName \/ (suffix = <<>> /\ shown = <<>>) THEN <<>> ELSE name

\* The lengths of the suffixes tried: a step more each time, the whole id last.
SuffixLengths(bot, id) ==
  LET most == Smaller(Len(id), Above(MaxName, Len(bot) + 1))
  IN {n \in 1..most : n = most \/ (n >= FirstSuffix /\ (n - FirstSuffix) % SuffixStep = 0)}

\* Mutant: a name another bot took is free.
TakenByBot(bot, sessions) == {s.name : s \in {t \in sessions : t.bot = bot}}

\* is_taken: session_by_name knows the names of all bots.
Taken(bot, sessions) == {s.name : s \in sessions}

\* from_bot_and_channel: the plain name, or the first suffixed one no session has.
Grant(bot, channel, display, sessions) ==
  LET slug == Slug(display)
      taken == Taken(bot, sessions)
      base == Candidate(bot, slug, <<>>)
      later == {n \in SuffixLengths(bot, CompactId[channel]) :
                  Candidate(bot, slug, SubSeq(CompactId[channel], 1, n)) \notin taken \cup {<<>>}}
  IN IF base = <<>> THEN <<>>
     ELSE IF base \notin taken THEN base
     ELSE IF later = {} THEN <<>>
     ELSE Candidate(bot, slug, SubSeq(CompactId[channel], 1, CHOOSE n \in later : \A m \in later : n <= m))

(* ------------------------------- sessions ------------------------------- *)

\* BotId::new: a letter, then letters, digits and hyphens, whatever surrounds it.
BotIdOf(raw) ==
  LET id == Trimmed(raw)
  IN IF id # <<>> /\ id[1] \in Letters \ Digits /\ Range(id) \subseteq Letters \cup {"-"} THEN id ELSE <<>>

HasSession(sessions, bot, channel) == \E s \in sessions : s.bot = bot /\ s.channel = channel

\* channel_display_for: the relay is asked only for a session to be made.
ChannelDisplayFor(sessions, ask) ==
  IF ask.empty \/ HasSession(sessions, BotIdOf(ask.bot), ask.channel) THEN <<>>
  ELSE PlaceDisplay(ask.place, ask.channel)

\* handle_trigger and persist_ingest: a channel without a display goes by its id.
Display(sessions, ask) ==
  LET shown == ChannelDisplayFor(sessions, ask)
  IN IF shown = <<>> THEN IdOf[ask.channel] ELSE shown

\* ensure_bot_session, for a request that says something: a session keeps its
\* name; a place that cannot be named gets none, and its trigger is declined.
\* A host whose registry holds no id of that form has not started.
EnsureSession(sessions, ask) ==
  LET bot == BotIdOf(ask.bot)
      name == Grant(bot, ask.channel, Display(sessions, ask), sessions)
  IN IF bot = <<>> \/ ask.empty \/ HasSession(sessions, bot, ask.channel) \/ name = <<>> THEN sessions
     ELSE sessions \cup {[bot |-> bot, channel |-> ask.channel, name |-> name]}

\* snapshot_file_stem
FileStem(name) == name # <<>> /\ Range(name) \subseteq Letters \cup {"-"}
=============================================================================
