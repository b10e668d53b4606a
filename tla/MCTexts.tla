-------------------------------- MODULE MCTexts --------------------------------
(***************************************************************************)
(* An instance of Texts for TLC: the inputs, small in every direction.     *)
(***************************************************************************)
EXTENDS Texts

UpTo(n, set) == UNION {[1..k -> set] : k \in 0..n}

(* -------------------------------- requests ------------------------------ *)

Admits == ("bot" :> {} @@ "aid" :> {"alice"})
Registry == <<"bot", "aid">>

CallTokens == {Call("bot"), Call("aid"), AtName, Word}
SomeTags == {Tag("p", "op", "none"), Tag("p", "alice", "none"), Tag("p", Junk, "none"),
             Tag("e", "m1", "reply"), Tag("actor", "alice", "none")}

Event(id, signer, channel, tags, body) ==
  [id |-> id, kind |-> "message", signer |-> signer, channel |-> channel, tags |-> tags, body |-> body]

MCPosts ==
  {Event("m1", signer, channel, tags, body) :
     signer \in {"op", "alice", "eve"}, channel \in {"here", Nothing},
     tags \in UpTo(2, SomeTags), body \in UpTo(3, CallTokens)}

MCEdits ==
  {[event |-> [Event("m9", signer, "here", tags, body) EXCEPT !.kind = kind],
    target |-> [author |-> author, bot |-> bot]] :
     kind \in {"edit", "nip09", "buzz"}, signer \in {"op", "alice", "eve", "relay"}, author \in {"op", "alice", "eve", Nothing},
     bot \in {"bot", "aid", "gone", Nothing},
     tags \in {<<Tag("e", "m1", "none")>>, <<Tag("e", "m1", "none"), Tag("e", "m2", "none")>>,
               <<Tag("e", "m1", "none"), Tag("actor", "alice", "none")>>, <<>>},
     body \in UpTo(2, CallTokens)}

\* Threads as clients write them; a root marker alone is not among them.
Threaded(tags, root) == [event |-> Event("m2", "alice", "here", tags, <<Call("bot")>>), root |-> root]
E(id, mark) == Tag("e", id, mark)
MCThreads ==
  {Threaded(t[1], t[2]) : t \in {
     <<<<>>, "m2">>,
     <<<<E("m0", "reply")>>, "m0">>,
     <<<<E("m0", "root"), E("m1", "reply")>>, "m0">>,
     <<<<E("m1", "reply"), Tag("p", "op", "none"), E("m0", "root")>>, "m0">>,
     <<<<E("m0", "none")>>, "m0">>,
     <<<<E("m0", "none"), E("m1", "none")>>, "m0">>,
     <<<<E(Junk, "none"), E("m0", "none")>>, "m0">>,
     <<<<E("m1", "mention"), E("m0", "none")>>, "m0">>,
     <<<<E("m2", "none")>>, "m2">>}}

MCBodies == UpTo(3, CallTokens \cup {StampOf("bot"), StampOf("aid"), Glued("bot")})

(* -------------------------------- mentions ------------------------------ *)

Profile(displayNames, names, local) ==
  [reads |-> TRUE, displayNames |-> displayNames, names |-> names, local |-> local]
Profiles == ("ann" :> Profile(<<<<"Ann">>>>, <<<<"Ann">>>>, <<"_">>)
             @@ "lee" :> Profile(<<<<"Ann", "Lee">>>>, <<>>, <<>>)
             @@ "sue" :> Profile(<<>>, <<<<"Sue">>>>, <<"Su">>)
             @@ "sam" :> Profile(<<>>, <<>>, <<"Su">>)
             @@ "op" :> [Profile(<<>>, <<<<"Ann">>>>, <<>>) EXCEPT !.reads = FALSE])

Ann == <<At, Name("Ann")>>
AnnLee == <<At, Name("Ann"), Name("Lee")>>
Sue == <<At, Name("Sue")>>

SomeLines ==
  {tokens \o <<Break>> : tokens \in {
     Ann, AnnLee, Sue, Ann \o <<Plain>> \o Sue, <<At, Name("Su")>>, <<MidAt, Name("Sue")>>,
     <<Ticks(1)>> \o Ann \o <<Ticks(1)>>, <<Ticks(1)>> \o Sue, AnnLee \o <<Ticks(1)>>,
     <<Ticks(2)>> \o Ann \o <<Ticks(1)>> \o Sue, <<Escaped(1)>> \o Sue, <<Ticks(2)>>,
     <<Ticks(3)>>, <<Ticks(4), Plain>>, <<Tildes(3)>>, <<Indent>> \o Ann}}

MCAnswers ==
  {[text |-> FlattenSeq(lines), requester |-> requester,
    audience |-> [source |-> "members", participants |-> people]] :
     lines \in UpTo(3, SomeLines) \ {<<>>}, requester \in {<<>>, <<"eve">>, <<"ann">>},
     people \in {<<"op", "ann", "lee", "sue", "sam">>, <<"op", "ann", "sue">>}}

List(at, members) == [at |-> at, members |-> members]
MCRosters ==
  {[held |-> held, read |-> read, answered |-> answered, lists |-> lists, authors |-> authors] :
     held \in {NoAudience, [source |-> "members", participants |-> <<"op">>],
               [source |-> "members", participants |-> <<"op", "ann">>]},
     read \in BOOLEAN, answered \in BOOLEAN,
     lists \in {<<>>} \cup {<<List(1, a), List(2, b)>> :
                  a, b \in {<<>>, <<"op">>, <<"ann">>, <<"op", "op">>, <<"ann", "op">>}},
     authors \in {<<>>, <<"op">>, <<"op", "ann">>}}

(* --------------------------------- places ------------------------------- *)

DmTitle == <<"d", "m">>
NoLetters == <<"c">>
WrittenIds == ("here" :> <<"a", "a", "-", "b">> @@ "there" :> <<"#">> @@ "far" :> <<"a", "a", "#", "b">>)
Ids == ("here" :> <<"a", "a", "b">> @@ "there" :> <<"a", "a", "a", "b">> @@ "far" :> <<"a", "a", "a", "a">>)

Metadata(of, at, name, people) == [kind |-> "metadata", of |-> of, at |-> at, name |-> name, people |-> people]
ProfileNow(of, at, name) == [kind |-> "profile", of |-> of, at |-> at, name |-> name]
Place(fails, stored) == [fails |-> fails, stored |-> stored]

Couple == <<"op", "ann", Junk, "ann">>
SomePlaces ==
  {Place("metadata", <<>>), Place("none", <<>>),
   Place("none", <<Metadata("here", 2, <<"a", " ", "b", "d">>, <<>>), Metadata("there", 3, <<" ">>, <<>>),
                   Metadata("here", 1, <<"m">>, <<>>)>>),
   Place("none", <<Metadata("here", 1, DmTitle, Couple), Metadata("there", 1, <<" ", "1", " ", " ">>, <<>>),
                   ProfileNow("ann", 2, <<"b", " ">>), ProfileNow("ann", 1, <<"c">>), ProfileNow("lee", 2, <<"c">>)>>),
   Place("profile", <<Metadata("here", 1, DmTitle, Couple), Metadata("there", 1, <<>>, <<"op", "ann", "lee">>)>>)}

MCAskings ==
  [bot : {<<"a", " ">>, <<"a", "-", "a">>}, channel : DOMAIN Ids, place : SomePlaces, empty : {FALSE}]
  \cup [bot : {<<"a">>, <<"1">>, <<"a", "#">>}, channel : {"here"}, place : {Place("none", <<>>)}, empty : BOOLEAN]

(* ---------------------------- files and searches ------------------------ *)

MCFiles == UpTo(5, Markers \cup {Body("places", 0), Hand("one"), Hand("two"), LineEnd})

Found == [ok : {TRUE}, events : {{}, {"e1"}}] \cup [ok : {FALSE}, events : {{}}]
Channels == ("bot-eng" :> "eng" @@ "bot-ops" :> "ops")

MCSearches ==
  {[request |-> [session |-> session, query |-> [chars |-> chars, nul |-> nul], bytes |-> bytes],
    day |-> [socket |-> socket, explicit |-> explicit, runtime |-> runtime, sent |-> sent,
             reply |-> reply, database |-> database, relay |-> relay]] :
     session \in {"bot-eng", "bot-ops", "gone"}, chars \in {0, 1, MaxQuery + 1}, nul \in BOOLEAN,
     bytes \in {1, MaxRequest + 1}, socket \in {"open", "missing", "refused"},
     explicit \in {"", "path"}, runtime \in {"", "run"}, sent \in {"whole", "cut", "late"},
     reply \in {"whole", "empty", "cut", "timeout"}, database \in BOOLEAN,
     relay \in [{"eng", "ops"} -> Found]}

(* ----------------------------- polls of a relay ------------------------- *)

SomeScopes == {Scope({}, {}, {}), Scope({"here"}, {"m1"}, {}), Scope({"here"}, {}, {"eve", Junk})}
MCPolls ==
  [scope : SomeScopes, since : {1}, fails : 0..5, closed : BOOLEAN, cursor : {TRUE}]
  \cup [scope : SomeScopes, since : {1}, fails : {0}, closed : {FALSE}, cursor : {FALSE}]

(* ------------------------------ Kelpie's word --------------------------- *)

Says(fields) ==
  fields @@ [name \in {"error", "message", "names", "agent", "incarnation", "transport", "outcome",
                       "ask", "operation"} |-> Missing] @@ [owed |-> <<>>, panes |-> <<>>]
Process(success, receipt) ==
  [started |-> TRUE, fed |-> TRUE, success |-> success, json |-> TRUE, receipt |-> receipt]
Troubled ==
  {[Process(TRUE, Says(<<>>)) EXCEPT !.started = FALSE], [Process(FALSE, Says(<<>>)) EXCEPT !.json = FALSE],
   [Process(TRUE, Says(<<>>)) EXCEPT !.json = FALSE]}
Unfed(process) == [process EXCEPT !.fed = FALSE]

\* Two agents, each with one incarnation.
AgentNamed(agent) == [agent |-> agent, incarnation |-> IF agent = "a1" THEN "i1" ELSE "i2"]
Whoamis ==
  Troubled
  \cup {Process(TRUE, Says(AgentNamed(agent))) : agent \in {"a1", "a2"}}
  \cup {Process(TRUE, Says([agent |-> "a1"])), Process(TRUE, Says(AgentNamed("a1") @@ [error |-> "conflict"])),
        Process(FALSE, Says([error |-> "conflict", message |-> "unbound"])),
        Process(FALSE, Says([error |-> "rejected"]))}

\* The pane is held by the incarnation of `agent`.
Adoptions(agent) ==
  Troubled
  \cup {Process(success, Says(AgentNamed(agent) @@ [outcome |-> outcome])) :
          success \in BOOLEAN, outcome \in {"succeeded", "failed"}}
  \cup {Process(FALSE, Says([error |-> "conflict", message |-> "adopted", names |-> AgentNamed(agent).incarnation])),
        Process(FALSE, Says([error |-> "conflict", message |-> "unbound"])),
        Process(TRUE, Says([outcome |-> "succeeded"]))}

MCBinds ==
  {[adopt |-> adopt, whoami |-> whoami, recorded |-> recorded, holder |-> AgentNamed(agent).incarnation] :
     <<agent, adopt>> \in UNION {{a} \X Adoptions(a) : a \in {"a1", "a2"}},
     whoami \in Whoamis, recorded \in {Missing, "a1"}}

Owed(ask, to) == [ask |-> ask, to |-> to]
Owings ==
  {<<>>, <<Owed("m1", Waiter)>>, <<Owed("m1", "other")>>, <<Owed(Missing, Waiter)>>,
   <<Owed("m1", Waiter), Owed("m2", Waiter)>>, <<Owed("m1", "other"), Owed("m2", Waiter)>>,
   <<Owed("m1", Waiter), Owed(Missing, Waiter)>>, <<Owed("m1", "other"), Owed("m2", "other")>>}
Answered(owed, agent) ==
  {Process(TRUE, Says([ask |-> o.ask, operation |-> "op", agent |-> agent, outcome |-> outcome])) :
     o \in {held \in Range(owed) : held.to = Waiter}, outcome \in Deliveries \cup {"other"}}
AskOutcomes(owed, agent) ==
  Troubled \cup Answered(owed, agent) \cup {Unfed(process) : process \in Answered(owed, agent)}
  \cup {Process(FALSE, Says([error |-> class])) : class \in DOMAIN Uncertain \cup {"conflict"}}
PendingOutcomes(owed) ==
  Troubled \cup {Process(TRUE, Says([owed |-> owed])), Process(FALSE, Says([error |-> "rejected"]))}

Recipients ==
  {Process(TRUE, Says(AgentNamed("a1"))), Process(TRUE, Says(AgentNamed("a2"))),
   Process(FALSE, Says([error |-> "conflict", message |-> "unbound"]))}

MCAsksOfKelpie ==
  UNION {{[owed |-> owed, recorded |-> recorded,
           day |-> [whoami |-> whoami, ask |-> ask, pending |-> pending]] :
            recorded \in {Missing, "a1"}, ask \in AskOutcomes(owed, whoami.receipt.agent),
            pending \in PendingOutcomes(owed)} : owed \in Owings, whoami \in Recipients}

Pane(name, cwd, pane, terminal) == [name |-> name, cwd |-> cwd, pane |-> pane, terminal |-> terminal]
Listed ==
  {Pane("seat", "corpus", "p1", "t1"), Pane("seat", "corpus", "p2", "t2"), Pane("seat", "corpus", "p4", Missing),
   Pane("seat", "else", "p5", "t5"), Pane("other", "corpus", "p6", "t6")}
Lists == {panes \in UpTo(2, Listed) : IsInjective(panes)}

MCRestarts ==
  {[list |-> list, close |-> close, who |-> who, create |-> create, start |-> start] :
     list \in Troubled \cup {Process(TRUE, Says([panes |-> panes])) : panes \in Lists},
     close \in Troubled \cup {Process(TRUE, Says(<<>>))},
     who \in Troubled \cup {Process(TRUE, Says([agent |-> "a1"])), Process(TRUE, Says(<<>>)),
                            Process(FALSE, Says([error |-> "conflict", message |-> "unbound"])),
                            Process(FALSE, Says([error |-> "rejected"]))},
     create \in Troubled \cup {Process(TRUE, Says([panes |-> <<Pane("seat", "corpus", "p3", t)>>])) : t \in {"t3", Missing}},
     start \in Troubled \cup {Process(TRUE, Says(AgentNamed(agent) @@ [outcome |-> outcome])) :
                                agent \in {"a1", "a2"}, outcome \in {"succeeded", "failed"}}}

(* ------------------------------- many bots ------------------------------ *)

Seats == {Seat("bot", "here"), Seat("bot", "there"), Seat("aid", "here")}
Unread == {{}, {Seat("bot", "here")}}
MCSteps ==
  [does : {"trigger", "edit"}, seat : Seats, unread : Unread]
  \cup [does : {"answer"}, seat : Seats, unread : Unread, settled : BOOLEAN]
  \cup [does : {"tick"}, unread : Unread, blind : {{}, {"aid"}}]
  \cup [does : {"restart"}, actors : {<<"bot">>, <<"aid", "bot">>}, unread : Unread, blind : {{}, {"aid"}}]

MCRegistries == {<<"bot", "aid">>}
=============================================================================
