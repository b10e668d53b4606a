------------------------------- MODULE Mentions -------------------------------
(***************************************************************************)
(* Whom a post of a bot notifies, and whom the host believes to read it.   *)
(* A text is a sequence of tokens, with one at the end of each line:       *)
(* names, `@` signs, runs of backticks or tildes.  The words around a name *)
(* delimit it as the code's rules on prefix and suffix do, so names        *)
(* compare whole.                                                          *)
(***************************************************************************)
EXTENDS Naturals, Subsequences

CONSTANTS
  Owner,          \* the operator's public key
  ProfileOf,      \* the profile the relay answers with for each person
  FenceLength,    \* a run this long opens a fence (3)
  MaxMentions     \* people one post may notify (50)

Ticks(n) == [is |-> "ticks", n |-> n]
Escaped(n) == [is |-> "escaped", n |-> n]        \* a run after an odd number of backslashes
Tildes(n) == [is |-> "tildes", n |-> n]
At == [is |-> "at", n |-> 0]                     \* where a name may start
MidAt == [is |-> "mid", n |-> 0]                 \* within a word, as in an address
Name(name) == [is |-> name, n |-> 0]
Plain == [is |-> "plain", n |-> 0]
Break == [is |-> "break", n |-> 0]
Indent == [is |-> "indent", n |-> 0]             \* begins a line set off as code
Blank == [is |-> "blank", n |-> 0]               \* what masked code leaves

IsRun(token) == token.is \in {"ticks", "escaped"}
NoFence == Blank

-----------------------------------------------------------------------------
(* ------------------------------- code spans ----------------------------- *)

Begins(text, i) == i \in DOMAIN text /\ (i = 1 \/ text[i - 1] = Break)

\* Where the line of a token begins, and what follows its beginning.
LineOf(text, i) == Max({s \in 1..i : Begins(text, s)})
Rest(text, s) == {i \in DOMAIN text : s < i /\ text[i] # Break /\ LineOf(text, i) = s}

\* The line begins with a marker, which one indented as code does not.
Opens(text, s) ==
  /\ text[s].is \in {"ticks", "tildes"} /\ text[s].n >= FenceLength
  /\ text[s].is = "ticks" => \A i \in Rest(text, s) : ~IsRun(text[i])

Closes(text, s, fence) == text[s].is = fence.is /\ text[s].n >= fence.n /\ Rest(text, s) = {}

\* The fence that is open after token i, by the one open before it.
NextFence(text, fence, i) ==
  IF ~Begins(text, i) THEN fence
  ELSE IF fence = NoFence THEN IF Opens(text, i) THEN text[i] ELSE NoFence
  ELSE IF Closes(text, i, fence) THEN NoFence ELSE fence

Fences(text) ==
  LET fence[i \in 0..Len(text)] == IF i = 0 THEN NoFence ELSE NextFence(text, fence[i - 1], i)
  IN fence

\* The line that begins at s opens a fence, is in one, closes one or is indented.
IsCode(text, fence, s) == fence[s - 1] # NoFence \/ fence[s] # NoFence \/ text[s] = Indent

\* What stands in a fence or is indented as code.
Fenced(text) ==
  LET fence == Fences(text)
  IN {i \in DOMAIN text : text[i] # Break /\ IsCode(text, fence, LineOf(text, i))}

Without(text, places) == [i \in DOMAIN text |-> IF i \in places THEN Blank ELSE text[i]]

\* The first pass of mask_markdown_code.
WithoutFences(text) == LET fenced == Fenced(text) IN Without(text, fenced)

\* The length a run has as an opener: the first of its backticks may be escaped.
OpenLength(token) == IF token.is = "escaped" THEN token.n - 1 ELSE token.n

Partners(text, i) == {j \in (i + 1)..Len(text) : IsRun(text[j]) /\ text[j].n = OpenLength(text[i])}

Opener(text, i) == IsRun(text[i]) /\ Partners(text, i) # {}

Least(set) == CHOOSE i \in set : \A j \in set : i <= j

\* The second pass, leftmost first: where the last span that began by i ends.
NextEnd(text, end, i) == IF end < i /\ Opener(text, i) THEN Least(Partners(text, i)) ELSE end

SpanEnds(text) ==
  LET end[i \in 0..Len(text)] == IF i = 0 THEN 0 ELSE NextEnd(text, end[i - 1], i)
  IN end

Spanned(text) ==
  LET end == SpanEnds(text)
  IN {i \in DOMAIN text : text[i] # Break /\ i <= end[i]}

\* Mutant: spans within a line are read as text.
MaskedFencesOnly(text) == WithoutFences(text)

\* mask_markdown_code
Masked(text) ==
  LET unfenced == WithoutFences(text)
      spanned == Spanned(unfenced)
  IN Without(unfenced, spanned)

(* -------------------------------- mentions ------------------------------ *)

\* parse_profile: an alias is a sequence of names; the local part of an address
\* is one, unless it stands for the whole domain.  A profile that cannot be
\* read has none.
ParseProfile(profile) ==
  IF ~profile.reads THEN {}
  ELSE Range(profile.displayNames \o profile.names)
         \cup (IF profile.local \in {<<>>, <<"_">>} THEN {} ELSE {profile.local})

AliasesOf == [p \in DOMAIN ProfileOf |-> ParseProfile(ProfileOf[p])]

\* The alias stands right after the sign at i.
Fits(text, i, alias) ==
  /\ i + Len(alias) <= Len(text)
  /\ \A k \in DOMAIN alias : text[i + k] = Name(alias[k])

AliasesHere(text, i, people) ==
  {alias \in UNION {AliasesOf[p] : p \in people} : Fits(text, i, alias)}

\* The longest alias that fits: all that are as long are the same.
LongestHere(text, i, people) ==
  {alias \in AliasesHere(text, i, people) :
     \A other \in AliasesHere(text, i, people) : Len(other) <= Len(alias)}

\* The person a sign names; none if two people share the alias.
Named(text, i, people) ==
  LET holders == {p \in people : AliasesOf[p] \cap LongestHere(text, i, people) # {}}
  IN IF text[i] = At /\ \A p, q \in holders : p = q THEN holders ELSE {}

\* ChannelAudience::mentioned_pubkeys, in the order of the text.
MentionedPubkeys(audience, text) ==
  LET masked == Masked(text)
      named == [i \in DOMAIN text |-> Named(masked, i, Range(audience.participants))]
      found == Picked(named, {i \in DOMAIN text : named[i] # {}})
  IN [k \in DOMAIN found |-> CHOOSE p \in found[k] : TRUE]

AtMost(people) == SubSeq(people, 1, IF Len(people) < MaxMentions THEN Len(people) ELSE MaxMentions)

\* resolved_mentions: each once, the requester (when there is one) first.
ResolvedMentions(text, requester, audience) ==
  AtMost(Once(requester \o MentionedPubkeys(audience, text)))

(* -------------------------------- audience ------------------------------ *)

NoAudience == [source |-> "none", participants |-> <<>>]

\* ChannelAudience::from_observed: the authors of the channel's indexed events.
FromObserved(authors) ==
  [source |-> IF authors = <<>> THEN "unknown" ELSE "observed",
   participants |-> Once(authors)]

\* channel_audience: the newest member list the relay answers with, if it names
\* anybody.
ChannelAudience(lists, authors) ==
  LET newest == {l \in Range(lists) : \A other \in Range(lists) : other.at <= l.at}
      members == IF newest = {} THEN <<>>
                 ELSE Once((CHOOSE l \in newest : TRUE).members)
  IN IF members = <<>> THEN FromObserved(authors)
     ELSE [source |-> "members", participants |-> members]

\* refresh_actor_audience: what the actor holds after it.  A lookup that fails
\* leaves the channel shared; an index that cannot be read leaves all as it is.
RefreshAudience(held, read, answered, lists, authors) ==
  IF ~read THEN held
  ELSE IF answered THEN ChannelAudience(lists, authors) ELSE FromObserved(authors)

\* audience_for
AudienceFor(held, authors) == IF held = NoAudience THEN FromObserved(authors) ELSE held

\* is_shared
IsShared(audience) ==
  \/ audience.source # "members"
  \/ Len(audience.participants) # 1
  \/ audience.participants[1] # Owner
=============================================================================
