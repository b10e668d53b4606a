------------------------------ MODULE StartupFile ------------------------------
(***************************************************************************)
(* The two blocks the host keeps in a corpus's startup.md, between texts   *)
(* written by hand.  A file is a sequence of pieces: a marker, the body of *)
(* a block of the host, a line written by hand or a line break.            *)
(***************************************************************************)
EXTENDS Naturals, Subsequences

Begin(block) == <<"begin", block>>
End(block) == <<"end", block>>
Body(block, version) == <<"body", block, version>>
Hand(line) == <<"hand", line>>
LineEnd == <<"newline">>

Blocks == {"places", "contract"}
Markers == {Begin(b) : b \in Blocks} \cup {End(b) : b \in Blocks}
Refused == <<<<"refused">>>>

Spots(text, piece) == {i \in DOMAIN text : text[i] = piece}
The(set) == CHOOSE i \in set : TRUE

\* What the host writes for a block, up to its last line break.
Written(block, version) == <<Begin(block), Body(block, version), End(block)>>

\* Mutant: what stands between the markers is not looked at.
WholeOver(text, block) ==
  \E b, e \in DOMAIN text :
    Spots(text, Begin(block)) = {b} /\ Spots(text, End(block)) = {e} /\ b < e

\* The text holds the block once, and nothing of the host's within it.
Whole(text, block) ==
  \E b, e \in DOMAIN text :
    /\ Spots(text, Begin(block)) = {b} /\ Spots(text, End(block)) = {e} /\ b < e
    /\ \A i \in (b + 1)..(e - 1) : text[i] \notin Markers

\* upsert_startup_block: an existing block is replaced where it stands, a
\* missing one added at the end; what cannot be told apart is refused.
Upsert(text, block, version) ==
  LET begins == Spots(text, Begin(block))
      ends == Spots(text, End(block))
      ended == IF text = <<>> THEN <<>>
               ELSE (IF Last(text) = LineEnd THEN text ELSE Append(text, LineEnd)) \o <<LineEnd>>
  IN IF begins = {} /\ ends = {} THEN ended \o Written(block, version) \o <<LineEnd>>
     ELSE IF ~Whole(text, block) THEN Refused
     ELSE SubSeq(text, 1, The(begins) - 1) \o Written(block, version)
          \o SubSeq(text, The(ends) + 1, Len(text))

\* point_startup_at_snapshots: both blocks, or nothing is written.
Point(text, version) ==
  LET placed == Upsert(text, "places", version)
  IN IF placed = Refused THEN Refused ELSE Upsert(placed, "contract", version)

\* What stands between the markers of a block.
Kept(text) ==
  {i \in DOMAIN text :
     \E b, e \in DOMAIN text, block \in Blocks :
       b < i /\ i < e /\ text[b] = Begin(block) /\ text[e] = End(block)}

\* What a person wrote in the file, outside what the host keeps.
ByHand(text) ==
  LET kept == Kept(text)
  IN Picked(text, {i \in DOMAIN text : text[i][1] = "hand" /\ i \notin kept})
=============================================================================
