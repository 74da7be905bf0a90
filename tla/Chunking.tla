------------------------------- MODULE Chunking -------------------------------
(***************************************************************************)
(* RagService._chunks: how the content of a document is cut into pieces    *)
(* that overlap, each preferably ending after a line or a sentence. One    *)
(* step is one turn of the loop. A character is what the loop tells apart. *)
(***************************************************************************)
EXTENDS Integers, Sequences

CONSTANTS
  ChunkSize,  \* RagService.chunk_size
  Overlap,    \* RagService.chunk_overlap
  Texts       \* contents of a document

\* a character inside a sentence, the full stop of one, a line end, white space
Kinds == {"char", "stop", "newline", "space"}

ASSUME SizesAssumption ==
  ChunkSize \in Nat \ {0} /\ Overlap \in Nat /\ Overlap <= ChunkSize \div 2

\* Positions count from 0.
ASSUME TextsAssumption ==
  \A t \in Texts : /\ t.length \in Nat
                   /\ t \in [length : {t.length}, kind : [0..(t.length - 1) -> Kinds]]

VARIABLES
  text,    \* the content: constant in a behaviour
  start,   \* where the next piece begins
  pieces,  \* the pieces so far, each as the positions it has
  cut      \* the loop is over

chunkVars == <<text, start, pieces, cut>>

Length == text.length
Break(p) == text.kind[p] \in {"stop", "newline"}
Blank(p) == text.kind[p] \in {"space", "newline"}

\* start + chunk_size, or the end of the content
Full == IF start + ChunkSize < Length THEN start + ChunkSize ELSE Length

\* behind the last line or sentence that ends in the second half
Preferred(end) ==
  /\ Full < Length /\ end - 1 \in (start + ChunkSize \div 2 + 1)..(Full - 1) /\ Break(end - 1)
  /\ \A p \in end..(Full - 1) : ~Break(p)

\* Exactly one end is one of these two.
IsEnd(end) ==
  \/ Preferred(end)
  \/ end = Full /\ \A e \in 0..Full : ~Preferred(e)

\* strip() keeps what lies between characters that are not blank.
Stripped(end) ==
  {p \in start..(end - 1) : /\ \E q \in start..p : ~Blank(q)
                            /\ \E q \in p..(end - 1) : ~Blank(q)}

\* fault: the pieces do not overlap
BadNextStart(end) == end

NextStart(end) == IF end - Overlap > start + 1 THEN end - Overlap ELSE start + 1

Uncut == start = 0 /\ pieces = <<>> /\ cut = FALSE

ChunkInit == text \in Texts /\ Uncut

\* a short content is one piece, as it is
Whole ==
  /\ ~cut /\ Length <= ChunkSize
  /\ pieces' = <<0..(Length - 1)>> /\ cut' = TRUE
  /\ UNCHANGED <<text, start>>

\* Pieces that are blank are left out.
Cut ==
  /\ ~cut /\ Length > ChunkSize
  /\ \E end \in 0..Length :
       /\ IsEnd(end)
       /\ pieces' = IF Stripped(end) = {} THEN pieces ELSE Append(pieces, Stripped(end))
       /\ start' = IF end >= Length THEN start ELSE NextStart(end)
       /\ cut' = (end >= Length)
  /\ UNCHANGED text

ChunkNext == Whole \/ Cut

ChunkSpec == ChunkInit /\ [][ChunkNext]_chunkVars

-----------------------------------------------------------------------------

\* The types of all variables.
ChunkTypeOK ==
  /\ text \in Texts /\ start \in 0..Length /\ cut \in BOOLEAN
  /\ pieces \in Seq(SUBSET (0..(Length - 1)))

\* from a to b: no longer than the overlap and one character more, not blank at its ends
Phrase(a, b) ==
  /\ a \in 0..(Length - 1) /\ b \in a..(Length - 1) /\ b <= a + Overlap
  /\ ~Blank(a) /\ ~Blank(b)

Held(a, b) == \E i \in 1..Len(pieces) : a..b \subseteq pieces[i]

\* No character is lost, and no phrase as long as the overlap is torn apart: some piece
\* has the whole of it, wherever the boundaries fall (RagService._chunks).
PhrasesKept == cut => \A a, b \in 0..(Length - 1) : Phrase(a, b) => Held(a, b)

\* Why: what begins before the next piece is in one already.
Behind == ~cut => \A a, b \in 0..(Length - 1) : Phrase(a, b) /\ a < start => Held(a, b)

\* No piece is longer than the limit of the index (RagService.chunk_size).
PiecesFit == \A i \in 1..Len(pieces) : \A a, b \in pieces[i] : b - a < ChunkSize

\* The loop never starts a piece behind the content.
Inside == Length > ChunkSize => start < Length

ChunkInv == ChunkTypeOK /\ Inside /\ Behind /\ PhrasesKept /\ PiecesFit
=============================================================================
