--------------------------- MODULE RetrievalProofs ---------------------------
(***************************************************************************)
(* That no phrase is torn apart, for contents of any length, any size of a *)
(* piece and any overlap of at most half of it; and that starts, rebuilds, *)
(* index runs and searches get along, for any number of processes and of   *)
(* faults, and any content.                                                *)
(*                                                                         *)
(* ChunkInv is inductive: a phrase that begins before the next piece is in *)
(* a piece already (Behind). A new piece has all of its stretch but blanks *)
(* at its ends, and the next one begins an overlap before its end, so a    *)
(* phrase that begins even earlier ends within it.                         *)
(*                                                                         *)
(* IInv is inductive. A run is owed for the document until its index is    *)
(* cleared, and then the process that cleared it last has put all pieces   *)
(* up to its count (DebtInv); whatever ends a run early owes another one   *)
(* (DebtStays). A start owes a run only if its process knows the knowledge *)
(* base, or finds its row when it loads: a process that has begun to       *)
(* rebuild knows it from the row (BaseInv), and finds it again after a     *)
(* death. A search that nothing has disturbed compares with all pieces,    *)
(* and one of them has its phrase.                                         *)
(***************************************************************************)
EXTENDS Retrieval, TLAPS

-----------------------------------------------------------------------------
(* The loop that cuts a content *)

LEMMA LengthType ==
  ASSUME ChunkTypeOK
  PROVE  Length \in Nat
  BY TextsAssumption DEF ChunkTypeOK, Length

\* Where a piece ends, and that the next one begins an overlap before.
LEMMA Ends ==
  ASSUME ChunkTypeOK, Inside, Length > ChunkSize, NEW end \in 0..Length, IsEnd(end)
  PROVE  /\ start < end /\ end <= start + ChunkSize
         /\ end < Length => /\ NextStart(end) = end - Overlap
                            /\ NextStart(end) > start
<1> USE LengthType, SizesAssumption
<1>0. /\ start \in Nat /\ Length \in Nat /\ ChunkSize \in Nat /\ ChunkSize >= 1 /\ Overlap \in Nat
      /\ start < Length
  BY DEF ChunkTypeOK, Inside
<1> DEFINE half == ChunkSize \div 2
<1>1. half \in Nat /\ 2 * half <= ChunkSize /\ Overlap <= half
  BY <1>0
<1> HIDE DEF half
<1>2. CASE Preferred(end)
  <2>1. Full < Length /\ end - 1 >= start + half + 1 /\ end - 1 <= Full - 1
    BY <1>0, <1>1, <1>2 DEF Preferred, Full, half
  <2>2. Full = start + ChunkSize
    BY <1>0, <2>1 DEF Full
  <2> QED
    BY <1>0, <1>1, <2>1, <2>2 DEF NextStart
<1>3. CASE end = Full
  <2>1. CASE start + ChunkSize < Length
    BY <1>0, <1>1, <1>3, <2>1 DEF Full, NextStart
  <2>2. CASE ~(start + ChunkSize < Length)
    BY <1>0, <1>3, <2>2 DEF Full
  <2> QED
    BY <2>1, <2>2
<1> QED
  BY <1>2, <1>3 DEF IsEnd

\* A piece has every phrase that lies in its stretch.
LEMMA StretchHeld ==
  ASSUME ChunkTypeOK, NEW end \in 0..Length, NEW a \in Nat, NEW b \in Nat,
         start <= a, a <= b, b < end, ~Blank(a), ~Blank(b)
  PROVE  a..b \subseteq Stripped(end) /\ Stripped(end) # {}
<1>1. start \in Nat /\ Length \in Nat
  BY LengthType DEF ChunkTypeOK
<1>2. ASSUME NEW p \in a..b PROVE p \in Stripped(end)
  <2>1. p \in start..(end - 1) /\ a \in start..p /\ b \in p..(end - 1)
    BY <1>1
  <2> QED
    BY <2>1 DEF Stripped
<1> QED
  BY <1>2

\* No piece that has been cut is changed.
LEMMA HeldStays ==
  ASSUME ChunkTypeOK, NEW piece, pieces' = pieces \/ pieces' = Append(pieces, piece),
         NEW a, NEW b, Held(a, b)
  PROVE  Held(a, b)'
<1>1. PICK i \in 1..Len(pieces) : a..b \subseteq pieces[i]
  BY DEF Held
<1>2. i \in 1..Len(pieces') /\ pieces'[i] = pieces[i]
  BY <1>1 DEF ChunkTypeOK
<1> QED
  BY <1>1, <1>2 DEF Held

\* A turn of the loop keeps the invariant.
LEMMA CutPreserves ==
  ASSUME ChunkInv, Cut
  PROVE  ChunkInv'
<1> USE SizesAssumption DEF ChunkInv
<1>1. PICK end \in 0..Length :
        /\ IsEnd(end)
        /\ pieces' = IF Stripped(end) = {} THEN pieces ELSE Append(pieces, Stripped(end))
        /\ start' = IF end >= Length THEN start ELSE NextStart(end)
        /\ cut' = (end >= Length)
  BY DEF Cut
<1>. cut' <=> end >= Length
  BY <1>1, Zenon
<1>2. /\ ~cut /\ Length > ChunkSize /\ text' = text /\ Length' = Length
      /\ Length \in Nat /\ start \in Nat /\ ChunkSize \in Nat /\ Overlap \in Nat
  BY LengthType DEF Cut, ChunkTypeOK, Length
<1>3. /\ start < end /\ end <= start + ChunkSize
      /\ end < Length => start' = end - Overlap /\ start' > start
  BY <1>1, <1>2, Ends
<1>4. Stripped(end) \subseteq start..(end - 1)
  BY DEF Stripped
<1>5. Stripped(end) \in SUBSET (0..(Length - 1))
  BY <1>2, <1>4
<1>6. ChunkTypeOK'
  <2>1. pieces' \in Seq(SUBSET (0..(Length - 1)))
    BY <1>1, <1>5 DEF ChunkTypeOK
  <2>2. start' \in 0..Length /\ cut' \in BOOLEAN
    BY <1>1, <1>2, <1>3
  <2> QED
    BY <1>2, <2>1, <2>2 DEF ChunkTypeOK
<1>7. Inside'
  BY <1>1, <1>2, <1>3 DEF Inside
<1>8. pieces' = pieces \/ pieces' = Append(pieces, Stripped(end))
  BY <1>1
<1>9. ASSUME NEW a \in 0..(Length - 1), NEW b \in 0..(Length - 1), Phrase(a, b),
             a < start \/ b < end
      PROVE  Held(a, b)'
  <2>1. CASE a < start
    <3>1. Held(a, b)
      BY <1>2, <1>9, <2>1 DEF Behind
    <3> QED
      BY <3>1, <1>8, HeldStays
  <2>2. CASE start <= a
    <3>1. b < end /\ a <= b /\ ~Blank(a) /\ ~Blank(b)
      BY <1>2, <1>9, <2>2 DEF Phrase
    <3>2. a..b \subseteq Stripped(end) /\ Stripped(end) # {}
      BY <1>2, <2>2, <3>1, StretchHeld
    <3>3. pieces' = Append(pieces, Stripped(end))
      BY <1>1, <3>2
    <3>4. Len(pieces') = Len(pieces) + 1 /\ pieces'[Len(pieces) + 1] = Stripped(end)
      BY <3>3, <1>5 DEF ChunkTypeOK
    <3>5. Len(pieces) \in Nat
      BY DEF ChunkTypeOK
    <3> QED
      BY <3>2, <3>4, <3>5 DEF Held
  <2> QED
    BY <1>2, <2>1, <2>2
<1>10. \A a, b : Phrase(a, b)' = Phrase(a, b)
  BY <1>2 DEF Phrase, Blank, Length
<1>11. Behind'
  <2> SUFFICES ASSUME ~cut', NEW a \in 0..(Length - 1), NEW b \in 0..(Length - 1), Phrase(a, b), a < start'
               PROVE  Held(a, b)'
    BY <1>2, <1>10 DEF Behind
  <2>1. b <= a + Overlap
    BY DEF Phrase
  <2>2. end < Length
    BY <1>2
  <2>3. b < end
    BY <1>2, <1>3, <2>1, <2>2
  <2> QED
    BY <1>9, <2>3
<1>12. PhrasesKept'
  <2> SUFFICES ASSUME cut', NEW a \in 0..(Length - 1), NEW b \in 0..(Length - 1), Phrase(a, b)
               PROVE  Held(a, b)'
    BY <1>2, <1>10 DEF PhrasesKept
  <2>1. b < end
    BY <1>2
  <2> QED
    BY <1>9, <2>1
<1>13. PiecesFit'
  <2> SUFFICES ASSUME NEW i \in 1..Len(pieces'), NEW a \in pieces'[i], NEW b \in pieces'[i]
               PROVE  b - a < ChunkSize
    BY DEF PiecesFit
  <2>1. CASE i \in 1..Len(pieces) /\ pieces'[i] = pieces[i]
    BY <2>1 DEF PiecesFit
  <2>2. CASE pieces'[i] = Stripped(end)
    <3>1. a \in start..(end - 1) /\ b \in start..(end - 1)
      BY <1>4, <2>2
    <3> QED
      BY <1>2, <1>3, <3>1
  <2>3. (i \in 1..Len(pieces) /\ pieces'[i] = pieces[i]) \/ pieces'[i] = Stripped(end)
    BY <1>5, <1>8 DEF ChunkTypeOK
  <2> QED
    BY <2>1, <2>2, <2>3
<1> QED
  BY <1>6, <1>7, <1>11, <1>12, <1>13

LEMMA WholePreserves ==
  ASSUME ChunkInv, Whole
  PROVE  ChunkInv'
<1> USE SizesAssumption DEF ChunkInv
<1>1. /\ pieces' = <<0..(Length - 1)>> /\ cut' = TRUE /\ text' = text /\ start' = start
      /\ Length' = Length /\ Length \in Nat /\ Length <= ChunkSize
  BY LengthType DEF Whole, Length
<1>2. Len(pieces') = 1 /\ pieces'[1] = 0..(Length - 1)
  BY <1>1
<1>3. ChunkTypeOK'
  BY <1>1 DEF ChunkTypeOK
<1>4. Inside' /\ Behind'
  BY <1>1 DEF Inside, Behind
<1>5. PhrasesKept'
  <2> SUFFICES ASSUME NEW a \in 0..(Length - 1), NEW b \in 0..(Length - 1)
               PROVE  Held(a, b)'
    BY <1>1 DEF PhrasesKept
  <2>1. a..b \subseteq 0..(Length - 1)
    BY <1>1
  <2>2. 1 \in 1..Len(pieces') /\ a..b \subseteq pieces'[1]
    BY <1>2, <2>1
  <2> QED
    BY <2>2 DEF Held
<1>6. PiecesFit'
  BY <1>1, <1>2 DEF PiecesFit
<1> QED
  BY <1>3, <1>4, <1>5, <1>6

LEMMA ChunkStarts ==
  ASSUME ChunkInit
  PROVE  ChunkInv
<1>1. /\ text \in Texts /\ start = 0 /\ pieces = <<>> /\ cut = FALSE
      /\ Length \in Nat /\ ChunkSize \in Nat
  BY TextsAssumption, SizesAssumption DEF ChunkInit, Uncut, Length
<1>2. ChunkTypeOK
  <2>1. start \in 0..Length
    BY <1>1
  <2>2. cut \in BOOLEAN
    BY <1>1
  <2>3. pieces \in Seq(SUBSET (0..(Length - 1)))
    BY <1>1
  <2> QED
    BY <1>1, <2>1, <2>2, <2>3 DEF ChunkTypeOK
<1>3. Inside /\ PhrasesKept
  BY <1>1, SizesAssumption DEF Inside, PhrasesKept
<1>4. Behind
  BY <1>1 DEF Behind
<1>5. PiecesFit
  BY <1>1 DEF PiecesFit
<1> QED
  BY <1>2, <1>3, <1>4, <1>5 DEF ChunkInv

LEMMA ChunkKeeps ==
  ASSUME ChunkInv, [ChunkNext]_chunkVars
  PROVE  ChunkInv'
<1>1. CASE UNCHANGED chunkVars
  BY <1>1 DEF chunkVars, ChunkInv, ChunkTypeOK, Inside, Behind, PhrasesKept, PiecesFit, Phrase, Held,
              Blank, Length
<1> QED
  BY <1>1, CutPreserves, WholePreserves DEF ChunkNext

\* What the loop keeps, turn by turn.
THEOREM ChunkInvariance == ChunkSpec => []ChunkInv
  BY ChunkStarts, ChunkKeeps, PTL DEF ChunkSpec

\* Every phrase as long as the overlap, and every character, ends up whole in a piece,
\* for every content, size and overlap (RagService._chunks).
THEOREM PhrasesKeptAlways == ChunkSpec => []PhrasesKept
<1>1. ChunkInv => PhrasesKept
  BY DEF ChunkInv
<1> QED
  BY ChunkInvariance, <1>1, PTL

\* No piece is longer than chunk_size (RagService._chunks).
THEOREM PiecesFitAlways == ChunkSpec => []PiecesFit
<1>1. ChunkInv => PiecesFit
  BY DEF ChunkInv
<1> QED
  BY ChunkInvariance, <1>1, PTL

\* The next piece begins behind the last one's beginning: the loop comes to an end
\* (RagService._chunks).
THEOREM EveryTurnAdvances == ChunkSpec => [][start' > start \/ cut']_chunkVars
<1>1. ChunkInv /\ [ChunkNext]_chunkVars => [start' > start \/ cut']_chunkVars
  <2> SUFFICES ASSUME ChunkInv, ChunkNext PROVE start' > start \/ cut'
    OBVIOUS
  <2>1. CASE Whole
    BY <2>1 DEF Whole
  <2>2. CASE Cut
    <3>1. PICK end \in 0..Length :
            /\ IsEnd(end)
            /\ start' = IF end >= Length THEN start ELSE NextStart(end)
            /\ cut' = (end >= Length)
      BY <2>2 DEF Cut
    <3>2. Length > ChunkSize /\ Length \in Nat
      BY <2>2, LengthType DEF Cut, ChunkInv
    <3>3. CASE end >= Length
      BY <3>1, <3>3
    <3>4. CASE end < Length
      BY <3>1, <3>2, <3>4, SizesAssumption, Ends DEF ChunkInv
    <3> QED
      BY <3>2, <3>3, <3>4
  <2> QED
    BY <2>1, <2>2 DEF ChunkNext
<1> QED
  BY ChunkInvariance, <1>1, PTL DEF ChunkSpec

-----------------------------------------------------------------------------
(* The collection, the processes and a search *)

\* everything a process does, and what happens to it
Moves(p) == ProcessStep(p) \/ RunFault(p) \/ StatusFault(p) \/ Die(p)

\* Clear finds the collection.
Cleared(p) == Clear(p) /\ exists

LEMMA EnvType ==
  ASSUME TypeOK
  PROVE  /\ env.text \in Texts /\ env.processes \subseteq Processes /\ env.sized \in BOOLEAN
         /\ env.rebuild \in BOOLEAN /\ env.based \in BOOLEAN /\ env.faults \in Nat
         /\ env.searching \in BOOLEAN
  BY ScenariosAssumption DEF TypeOK, Scenario

\* No process is at work before the content is cut, and none that was not started.
LEMMA MovesAfterCut ==
  ASSUME IInv, NEW p \in Processes, Moves(p)
  PROVE  cut /\ p \in env.processes
<1>1. CASE pc[p] = "off"
  BY <1>1 DEF Moves, ProcessStep, Start, Check, Inspect, DropCollection, Recheck, CreateCollection,
              LoadBases, Reset, ListDocuments, CreateBase, Upload, TakeTask, BeginRun, Embed, Clear,
              Upsert, Finish, Failed, RunFault, StatusFault, Die
<1>2. CASE pc[p] # "off"
  BY <1>2 DEF IInv, ErrandInv
<1> QED
  BY <1>1, <1>2

LEMMA MovesFrame ==
  ASSUME NEW p, Moves(p)
  PROVE  /\ UNCHANGED <<chunkVars, env>> /\ UNCHANGED <<text, start, pieces, cut>>
         /\ AllPoints' = AllPoints
         /\ UNCHANGED <<search, phrase, near, seen>>
<1>1. /\ UNCHANGED chunkVars /\ UNCHANGED env
      /\ UNCHANGED <<search, phrase, near, seen>>
  BY DEF Moves, ProcessStep, Start, Check, Inspect, DropCollection, Recheck, CreateCollection,
         LoadBases, Reset, ListDocuments, CreateBase, Upload, TakeTask, BeginRun, Embed, Clear,
         Upsert, Finish, Failed, RunFault, StatusFault, Die, searchVars
<1> QED
  BY <1>1 DEF chunkVars, AllPoints

-----------------------------------------------------------------------------
(* What a process does to the variables, kind by kind *)

LEMMA MovesPc ==
  ASSUME IInv, NEW p \in Processes, Moves(p)
  PROVE  /\ \A q \in Processes : q # p => pc'[q] = pc[q] /\ errand'[q] = errand[q]
                                         /\ put'[q] = put[q]
         /\ pc' \in [Processes -> ProcessPc]
         /\ errand' \in [Processes -> {"build", "reset", "task"}]
         /\ put' \in [Processes -> Nat]
<1> USE DEF IInv, TypeOK, Goto, Ensured, ProcessPc, EnsurePc, RunPc, storeVars, processVars
<1>1. CASE Start(p) \/ Check(p) \/ DropCollection(p) \/ Recheck(p) \/ Reset(p) \/ ListDocuments(p)
  BY <1>1 DEF Start, Check, DropCollection, Recheck, Reset, ListDocuments
<1>2. CASE Inspect(p) \/ CreateCollection(p)
  BY <1>2 DEF Inspect, CreateCollection
<1>3. CASE LoadBases(p) \/ CreateBase(p) \/ Upload(p)
  BY <1>3 DEF LoadBases, CreateBase, Upload
<1>4. CASE TakeTask(p) \/ BeginRun(p) \/ Embed(p) \/ Clear(p) \/ Finish(p)
  BY <1>4 DEF TakeTask, BeginRun, Embed, Clear, Finish
<1>5. CASE Upsert(p)
  BY <1>5 DEF Upsert
<1>6. CASE Failed(p) \/ RunFault(p) \/ StatusFault(p) \/ Die(p)
  BY <1>6 DEF Failed, RunFault, StatusFault, Die, Raise
<1> QED
  BY <1>1, <1>2, <1>3, <1>4, <1>5, <1>6 DEF Moves, ProcessStep

\* A document, a row and the knowledge of a process are not lost but by its start.
LEMMA BasesStay ==
  ASSUME IInv, NEW p \in Processes, Moves(p)
  PROVE  /\ base => base'
         /\ \A q \in Processes : q # p \/ ~Start(p) => (q \in knows => q \in knows')
         /\ \A q \in Processes : q # p => (q \in knows' => q \in knows)
         /\ status # "none" => status' # "none"
         /\ status' = "none" => ~task'
         /\ base' \in BOOLEAN /\ knows' \subseteq Processes
         /\ status' \in {"none", "parsed", "indexing", "ready", "failed"} /\ task' \in BOOLEAN
<1> USE DEF IInv, TypeOK, ErrandInv, baseVars, Goto, RunPc
<1>1. CASE Start(p)
  BY <1>1 DEF Start
<1>2. CASE LoadBases(p) \/ CreateBase(p) \/ Upload(p)
  <2>1. knows' = knows \/ knows' = knows \cup {p}
    BY <1>2 DEF LoadBases, CreateBase, Upload
  <2>2. base' \in BOOLEAN /\ (base => base')
    BY <1>2 DEF LoadBases, CreateBase, Upload
  <2>3. /\ knows' \subseteq Processes
        /\ \A q \in Processes : q \in knows => q \in knows'
        /\ \A q \in Processes : q # p => (q \in knows' => q \in knows)
    BY <2>1
  <2>4. /\ status # "none" => status' # "none"
        /\ status' = "none" => ~task'
        /\ status' \in {"none", "parsed", "indexing", "ready", "failed"} /\ task' \in BOOLEAN
    <3>1. (task => status # "none") /\ task \in BOOLEAN
      OBVIOUS
    <3>2. CASE Upload(p)
      BY <3>2 DEF Upload
    <3>3. CASE LoadBases(p) \/ CreateBase(p)
      <4>1. status' = status /\ task' = task
        BY <3>3 DEF LoadBases, CreateBase
      <4> QED
        BY <3>1, <4>1
    <3> QED
      BY <1>2, <3>2, <3>3
  <2> QED
    BY <2>2, <2>3, <2>4, Zenon
<1>3. CASE Check(p) \/ Inspect(p) \/ DropCollection(p) \/ Recheck(p) \/ CreateCollection(p) \/ Reset(p)
           \/ ListDocuments(p) \/ Embed(p) \/ Clear(p) \/ Upsert(p)
  BY <1>3 DEF Check, Inspect, DropCollection, Recheck, CreateCollection, Reset, ListDocuments, Embed,
              Clear, Upsert
<1>4. CASE TakeTask(p) \/ BeginRun(p) \/ Finish(p)
  BY <1>4 DEF TakeTask, BeginRun, Finish
<1>5. CASE Failed(p) \/ RunFault(p) \/ StatusFault(p) \/ Die(p)
  BY <1>5 DEF Failed, RunFault, StatusFault, Die, Raise
<1> QED
  BY <1>1, <1>2, <1>3, <1>4, <1>5 DEF Moves, ProcessStep

\* errand and pc of the process that moves
LEMMA ErrandStays ==
  ASSUME IInv, NEW p \in Processes, Moves(p)
  PROVE  ErrandInv'
<1> USE DEF IInv, ErrandInv, TypeOK, Goto, Ensured, RunPc, EnsurePc, storeVars, baseVars, processVars
<1>0. /\ UNCHANGED <<env, cut>> /\ cut /\ p \in env.processes
      /\ \A q \in Processes : q # p => pc'[q] = pc[q] /\ errand'[q] = errand[q]
      /\ status # "none" => status' # "none"
      /\ task' => status' # "none"
  BY MovesFrame, MovesAfterCut, MovesPc, BasesStay
<1> SUFFICES /\ errand'[p] = "reset" => env.rebuild
             /\ errand'[p] = "task" => pc'[p] \in RunPc \cup {"off", "serving"}
             /\ pc'[p] \in {"reset", "emptied", "list"} => errand'[p] = "reset"
             /\ pc'[p] \in RunPc => errand'[p] # "build" /\ status' # "none"
  BY <1>0
<1>1. CASE Start(p) \/ Check(p) \/ DropCollection(p) \/ Recheck(p) \/ Reset(p) \/ ListDocuments(p)
  BY <1>1 DEF Start, Check, DropCollection, Recheck, Reset, ListDocuments
<1>2. CASE Inspect(p) \/ CreateCollection(p)
  BY <1>2 DEF Inspect, CreateCollection
<1>3. CASE LoadBases(p) \/ CreateBase(p) \/ Upload(p)
  BY <1>3 DEF LoadBases, CreateBase, Upload
<1>4. CASE TakeTask(p) \/ BeginRun(p) \/ Embed(p) \/ Clear(p) \/ Finish(p)
  BY <1>4 DEF TakeTask, BeginRun, Embed, Clear, Finish
<1>5. CASE Upsert(p)
  BY <1>5 DEF Upsert
<1>6. CASE Failed(p) \/ RunFault(p) \/ StatusFault(p) \/ Die(p)
  BY <1>6 DEF Failed, RunFault, StatusFault, Die, Raise
<1> QED
  BY <1>1, <1>2, <1>3, <1>4, <1>5, <1>6 DEF Moves, ProcessStep

\* what the process that moves knows
LEMMA BaseKept ==
  ASSUME IInv, NEW p \in Processes, Moves(p)
  PROVE  BaseInv'
<1> USE DEF IInv, BaseInv, ErrandInv, TypeOK, Goto, Ensured, RunPc, EnsurePc, baseVars, processVars
<1>0. /\ \A q \in Processes : q # p => pc'[q] = pc[q] /\ errand'[q] = errand[q]
                                       /\ (q \in knows' <=> q \in knows)
      /\ base => base'
  BY MovesPc, BasesStay
<1> SUFFICES /\ p \in knows' /\ pc'[p] \notin {"off", "serving"} =>
                  errand'[p] # "build" /\ (errand'[p] = "reset" => base')
             /\ errand'[p] = "reset" /\ pc'[p] \in RunPc => p \in knows'
  BY <1>0
<1>1. CASE Start(p) \/ Check(p) \/ DropCollection(p) \/ Recheck(p) \/ Reset(p) \/ ListDocuments(p)
  BY <1>1 DEF Start, Check, DropCollection, Recheck, Reset, ListDocuments
<1>2. CASE Inspect(p) \/ CreateCollection(p)
  BY <1>2 DEF Inspect, CreateCollection
<1>3. CASE LoadBases(p) \/ CreateBase(p) \/ Upload(p)
  BY <1>3 DEF LoadBases, CreateBase, Upload
<1>4. CASE TakeTask(p) \/ BeginRun(p) \/ Embed(p) \/ Clear(p) \/ Finish(p)
  BY <1>4 DEF TakeTask, BeginRun, Embed, Clear, Finish
<1>5. CASE Upsert(p)
  BY <1>5 DEF Upsert
<1>6. CASE Failed(p) \/ RunFault(p) \/ StatusFault(p) \/ Die(p)
  BY <1>6 DEF Failed, RunFault, StatusFault, Die, Raise
<1> QED
  BY <1>1, <1>2, <1>3, <1>4, <1>5, <1>6 DEF Moves, ProcessStep

\* Only two steps take points out, or change what is known of a deletion.
LEMMA PointsStay ==
  ASSUME IInv, NEW p \in Processes, Moves(p), ~Cleared(p), ~DropCollection(p)
  PROVE  /\ wiped' = wiped /\ blind' = blind /\ upset' = upset /\ (exists => exists')
         /\ points \subseteq points' /\ points' \subseteq AllPoints
<1> USE DEF IInv, TypeOK, StoreInv, ErrandInv, storeVars, searchVars, wipeVars
<1>1. CASE Upsert(p)
  <2>1. p \in Processes /\ put[p] <= Len(pieces) /\ Len(pieces) \in Nat /\ put[p] \in Nat
    BY <1>1 DEF Upsert, ChunkInv, ChunkTypeOK
  <2>2. UNCHANGED <<wiped, blind, upset, exists>>
    BY <1>1 DEF Upsert
  <2>3. points' = points \/ (put[p] # Len(pieces) /\ points' = points \cup {put[p] + 1})
    BY <1>1 DEF Upsert, PointOf, Complete
  <2>4. points \subseteq points' /\ points' \subseteq AllPoints
    <3>1. points \subseteq AllPoints
      OBVIOUS
    <3>2. CASE put[p] # Len(pieces) /\ points' = points \cup {put[p] + 1}
      <4> HIDE DEF IInv, TypeOK, StoreInv, ErrandInv
      <4>1. put[p] + 1 \in AllPoints
        BY <2>1, <3>2 DEF AllPoints
      <4> QED
        BY <3>1, <3>2, <4>1, Zenon
    <3>3. CASE points' = points
      BY <3>1, <3>3
    <3> QED
      BY <2>3, <3>2, <3>3
  <2> QED
    BY <2>2, <2>4
<1>2. CASE ~Upsert(p)
  <2> USE DEF Moves, ProcessStep, Start, Check, Inspect, Recheck, CreateCollection, LoadBases, Reset,
              ListDocuments, CreateBase, Upload, TakeTask, BeginRun, Embed, Clear, Cleared, Finish, Failed,
              RunFault, StatusFault, Die
  <2>1. points' = points
    BY <1>2
  <2>2. wiped' = wiped /\ upset' = upset
    BY <1>2, Zenon
  <2>3. blind' = blind /\ (exists => exists')
    BY <1>2, Zenon
  <2> QED
    BY <2>1, <2>2, <2>3
<1> QED
  BY <1>1, <1>2

LEMMA ClearedPays ==
  ASSUME IInv, NEW p \in Processes, Cleared(p)
  PROVE  /\ pc'[p] = "put" /\ put'[p] = 0 /\ points' = {} /\ wiped' = FALSE /\ blind' = blind
         /\ exists' = exists /\ upset' = (upset \/ search = "vectors")
  BY DEF Cleared, Clear, Goto, Disturb, IInv, TypeOK

LEMMA DropOwes ==
  ASSUME IInv, NEW p \in Processes, DropCollection(p)
  PROVE  /\ pc'[p] \in {"recheck", "check"} /\ points' = {} /\ wiped' = TRUE
         /\ exists' = FALSE /\ upset' = (upset \/ search = "vectors")
         /\ blind' \in BOOLEAN /\ (blind' \/ status' = "none" \/ Informed(p)')
  BY DEF DropCollection, Goto, Disturb, Informed, baseVars, IInv, TypeOK

\* A run that is owed stays so until the index is cleared; what leaves a run before its
\* end owes another one.
LEMMA DebtStays ==
  ASSUME IInv, NEW p \in Processes, Moves(p), ~Cleared(p)
  PROVE  /\ Owed => Owed'
         /\ pc[p] \in {"put", "finish"} => pc'[p] \in {"put", "finish"} \/ Owed' \/ Finish(p)
         /\ pc[p] = "put" => \/ pc'[p] = "put" /\ Upsert(p) /\ put[p] # Len(pieces) /\ exists
                             \/ pc'[p] = "finish" /\ put[p] = Len(pieces)
                             \/ Owed'
         /\ status' = status \/ Owed' \/ status' = "ready"
<1> DEFINE Early == {"begin", "embed", "clear", "fail"}
           Starting == env.rebuild /\ pc[p] \notin RunPc \cup {"serving"} /\ Informed(p)
           Ours == task' \/ status' = "none" \/ pc'[p] \in Early \/ Starting'
<1>1. /\ env' = env /\ p \in env.processes /\ env.processes \subseteq Processes
      /\ \A q \in Processes : q # p => pc'[q] = pc[q] /\ errand'[q] = errand[q]
                                       /\ (q \in knows => q \in knows')
      /\ base => base'
  BY MovesFrame, MovesAfterCut, MovesPc, BasesStay, EnvType DEF IInv
<1>2. Ours => Owed'
  BY <1>1 DEF Owed
<1>3. /\ env.rebuild' = env.rebuild
      /\ pc \in [Processes -> ProcessPc] /\ errand \in [Processes -> {"build", "reset", "task"}]
      /\ task \in BOOLEAN /\ (task => status # "none")
      /\ errand[p] = "reset" => env.rebuild
      /\ errand[p] = "task" => pc[p] \in RunPc \cup {"off", "serving"}
      /\ pc[p] \in {"reset", "emptied", "list"} => errand[p] = "reset"
      /\ pc[p] \in RunPc => errand[p] # "build" /\ status # "none"
      /\ p \in knows /\ pc[p] \notin {"off", "serving"} => errand[p] # "build" /\ (errand[p] = "reset" => base)
      /\ errand[p] = "reset" /\ pc[p] \in RunPc => p \in knows
  BY <1>1 DEF IInv, ErrandInv, TypeOK, BaseInv
\* what p owes itself
<1>4. /\ task \/ status = "none" \/ pc[p] \in Early \/ Starting => Ours
      /\ pc[p] \in {"put", "finish"} => pc'[p] \in {"put", "finish"} \/ Finish(p) \/ Ours
      /\ pc[p] = "put" =>
           \/ pc'[p] = "put" /\ Upsert(p) /\ put[p] # Len(pieces) /\ exists
           \/ pc'[p] = "finish" /\ put[p] = Len(pieces)
           \/ Ours
      /\ status' = status \/ status' = "ready" \/ Ours
  <2> USE <1>3 DEF Goto, Ensured, Informed, RunPc, EnsurePc, ProcessPc, storeVars, baseVars, processVars
  <2>1. CASE Start(p) \/ Check(p) \/ DropCollection(p) \/ Recheck(p) \/ Reset(p) \/ ListDocuments(p)
    BY <2>1 DEF Start, Check, DropCollection, Recheck, Reset, ListDocuments
  <2>2. CASE Inspect(p) \/ CreateCollection(p)
    BY <2>2 DEF Inspect, CreateCollection
  <2>3. CASE LoadBases(p) \/ CreateBase(p) \/ Upload(p)
    BY <2>3 DEF LoadBases, CreateBase, Upload
  <2>4. CASE TakeTask(p) \/ BeginRun(p) \/ Embed(p) \/ Clear(p) \/ Finish(p)
    BY <2>4 DEF TakeTask, BeginRun, Embed, Clear, Cleared, Finish
  <2>5. CASE Upsert(p)
    BY <2>5 DEF Upsert, Complete
  <2>6. CASE Failed(p) \/ StatusFault(p)
    BY <2>6 DEF Failed, StatusFault, Raise
  <2>7. CASE RunFault(p)
    BY <2>7 DEF RunFault
  <2>8. CASE Die(p)
    BY <2>8 DEF Die
  <2> QED
    BY <2>1, <2>2, <2>3, <2>4, <2>5, <2>6, <2>7, <2>8, Zenon DEF Moves, ProcessStep
<1>5. Owed => Owed'
  <2>1. CASE task \/ status = "none"
    BY <1>2, <1>4, <2>1
  <2>2. ASSUME NEW q \in env.processes,
               \/ pc[q] \in Early
               \/ env.rebuild /\ pc[q] \notin RunPc \cup {"serving"} /\ Informed(q)
        PROVE  Owed'
    <3>1. CASE q = p
      BY <1>2, <1>4, <2>2, <3>1
    <3>2. CASE q # p
      <4>1. pc'[q] = pc[q] /\ (Informed(q) => Informed(q)')
        BY <1>1, <3>2 DEF Informed
      <4> QED
        BY <1>1, <2>2, <4>1 DEF Owed
    <3> QED
      BY <3>1, <3>2
  <2> QED
    BY <2>1, <2>2 DEF Owed
<1> QED
  BY <1>2, <1>4, <1>5

LEMMA DebtKept ==
  ASSUME IInv, NEW p \in Processes, Moves(p)
  PROVE  DebtInv'
<1>0. /\ env' = env /\ AllPoints' = AllPoints
      /\ \A q \in Processes : q # p => pc'[q] = pc[q] /\ put'[q] = put[q]
      /\ p \in env.processes /\ DebtInv
  BY MovesFrame, MovesPc, MovesAfterCut DEF IInv
<1>1. CASE Cleared(p)
  <2>0. pc'[p] = "put" /\ put'[p] = 0 /\ wiped' = FALSE
    BY <1>1, ClearedPays
  <2>1. 1..put'[p] \subseteq points'
    BY <2>0
  <2> QED
    BY <2>0, <2>1 DEF DebtInv
<1>2. CASE ~Cleared(p)
  <2>1. /\ Owed => Owed'
        /\ pc[p] \in {"put", "finish"} => pc'[p] \in {"put", "finish"} \/ Owed' \/ Finish(p)
        /\ pc[p] = "put" => \/ pc'[p] = "put" /\ Upsert(p) /\ put[p] # Len(pieces) /\ exists
                            \/ pc'[p] = "finish" /\ put[p] = Len(pieces)
                            \/ Owed'
        /\ status' = status \/ Owed' \/ status' = "ready"
    BY <1>2, DebtStays
  <2>2. status' = "ready" \/ Owed' \/ \E q \in Processes : pc'[q] \in {"put", "finish"}
    <3>1. Finish(p) => status' = "ready"
      BY DEF Finish
    <3> QED
      BY <1>0, <2>1, <3>1 DEF DebtInv
  <2>3. wiped' /\ env.rebuild /\ ~blind' => Owed'
    <3>1. CASE DropCollection(p)
      BY <1>0, <3>1, DropOwes DEF Owed, RunPc
    <3>2. CASE ~DropCollection(p)
      BY <1>0, <1>2, <2>1, <3>2, PointsStay DEF DebtInv
    <3> QED
      BY <3>1, <3>2
  <2>4. \/ wiped' \/ points' = AllPoints \/ Owed'
        \/ \E q \in Processes : pc'[q] = "put" /\ 1..put'[q] \subseteq points'
    <3>1. CASE DropCollection(p)
      BY <3>1, DropOwes
    <3>2. CASE ~DropCollection(p)
      <4>1. wiped' = wiped /\ points \subseteq points' /\ points' \subseteq AllPoints
        BY <1>2, <3>2, PointsStay
      <4>2. CASE wiped \/ points = AllPoints \/ Owed
        BY <2>1, <4>1, <4>2
      <4>3. ASSUME NEW q \in Processes, pc[q] = "put", 1..put[q] \subseteq points
            PROVE  \/ points' = AllPoints \/ Owed'
                   \/ pc'[q] = "put" /\ 1..put'[q] \subseteq points'
        <5>1. CASE q # p
          BY <1>0, <4>1, <4>3, <5>1
        <5>2. CASE q = p /\ Upsert(p) /\ put[p] # Len(pieces) /\ exists /\ pc'[p] = "put"
          BY <4>3, <5>2 DEF Upsert, Complete, PointOf, IInv, TypeOK
        <5>3. CASE q = p /\ put[p] = Len(pieces)
          BY <4>1, <4>3, <5>3 DEF AllPoints
        <5> QED
          BY <2>1, <4>3, <5>1, <5>2, <5>3
      <4> QED
        BY <1>0, <4>2, <4>3 DEF DebtInv
    <3> QED
      BY <3>1, <3>2
  <2> QED
    BY <1>0, <2>2, <2>3, <2>4 DEF DebtInv
<1> QED
  BY <1>1, <1>2

-----------------------------------------------------------------------------
(* A process keeps the invariant. *)

LEMMA StoreKept ==
  ASSUME IInv, NEW p \in Processes, Moves(p)
  PROVE  StoreInv'
<1>0. /\ cut' = cut /\ cut /\ pieces' = pieces /\ AllPoints' = AllPoints
      /\ \A q \in Processes : q # p => pc'[q] = pc[q] /\ put'[q] = put[q]
      /\ StoreInv /\ Len(pieces) \in Nat /\ put \in [Processes -> Nat]
  BY MovesFrame, MovesPc, MovesAfterCut DEF IInv, TypeOK, ChunkInv, ChunkTypeOK
<1>1. points' \subseteq AllPoints /\ (points' # {} => exists')
  <2>1. CASE Cleared(p)
    BY <2>1, ClearedPays
  <2>2. CASE DropCollection(p)
    BY <2>2, DropOwes
  <2>3. CASE ~Cleared(p) /\ ~DropCollection(p)
    <3>1. points' \subseteq AllPoints /\ (exists => exists')
      BY <2>3, PointsStay
    <3>2. exists \/ points' = points
      BY <2>3, Zenon DEF Moves, ProcessStep, Start, Check, Inspect, Recheck, CreateCollection,
             LoadBases, Reset, ListDocuments, CreateBase, Upload, TakeTask, BeginRun, Embed, Clear,
             Upsert, Finish, Failed, RunFault, StatusFault, Die, storeVars
    <3> QED
      BY <1>0, <3>1, <3>2 DEF StoreInv
  <2> QED
    BY <2>1, <2>2, <2>3
<1>2. pc'[p] = "put" => put'[p] <= Len(pieces)
  <2>1. CASE Cleared(p)
    <3>1. put'[p] = 0
      BY <2>1, ClearedPays
    <3> QED
      BY <1>0, <3>1
  <2>2. CASE Upsert(p)
    <3>1. put[p] \in Nat /\ put[p] <= Len(pieces)
      BY <1>0, <2>2 DEF StoreInv, Upsert
    <3>2. pc'[p] = "put" => put'[p] = put[p] + 1 /\ put[p] # Len(pieces)
      BY <1>0, <2>2 DEF Upsert, Complete, Goto, IInv, TypeOK
    <3> QED
      BY <1>0, <3>1, <3>2
  <2>3. CASE ~Cleared(p) /\ ~Upsert(p)
    <3> USE DEF IInv, TypeOK, StoreInv, Goto, Ensured, processVars
    <3>1. CASE Start(p) \/ Check(p) \/ DropCollection(p) \/ Recheck(p) \/ Reset(p)
               \/ ListDocuments(p)
      BY <3>1 DEF Start, Check, DropCollection, Recheck, Reset, ListDocuments
    <3>2. CASE Inspect(p) \/ CreateCollection(p)
      BY <3>2 DEF Inspect, CreateCollection
    <3>3. CASE LoadBases(p) \/ CreateBase(p) \/ Upload(p)
      BY <3>3 DEF LoadBases, CreateBase, Upload
    <3>4. CASE TakeTask(p) \/ BeginRun(p) \/ Embed(p) \/ Clear(p) \/ Finish(p)
      BY <2>3, <3>4 DEF TakeTask, BeginRun, Embed, Clear, Cleared, Finish
    <3>5. CASE Failed(p) \/ RunFault(p) \/ StatusFault(p) \/ Die(p)
      BY <3>5 DEF Failed, RunFault, StatusFault, Die, Raise
    <3> QED
      BY <2>3, <3>1, <3>2, <3>3, <3>4, <3>5 DEF Moves, ProcessStep
  <2> QED
    BY <2>1, <2>2, <2>3
<1> QED
  BY <1>0, <1>1, <1>2 DEF StoreInv

\* A search that still is to read the points hears of every one that is taken out.
LEMMA SearchKept ==
  ASSUME IInv, NEW p \in Processes, Moves(p)
  PROVE  SearchInv' /\ PhraseFound'
<1>0. /\ UNCHANGED <<search, phrase, near, seen>> /\ UNCHANGED <<text, pieces>> /\ AllPoints' = AllPoints
      /\ SearchInv /\ PhraseFound
  BY MovesFrame DEF IInv
<1>1. /\ upset => upset'
      /\ search = "vectors" /\ ~upset' => points \subseteq points' /\ points' \subseteq AllPoints
  <2>1. CASE Cleared(p)
    BY <2>1, ClearedPays
  <2>2. CASE DropCollection(p)
    BY <2>2, DropOwes
  <2>3. CASE ~Cleared(p) /\ ~DropCollection(p)
    BY <2>3, PointsStay
  <2> QED
    BY <2>1, <2>2, <2>3
<1> QED
  BY <1>0, <1>1 DEF SearchInv, PhraseFound, Phrase, Length, Blank

LEMMA TypesKept ==
  ASSUME IInv, NEW p \in Processes, Moves(p)
  PROVE  TypeOK'
<1>0. /\ env' = env /\ UNCHANGED <<search, phrase, near, seen>> /\ cut' = cut /\ pieces' = pieces
      /\ AllPoints' = AllPoints
  BY MovesFrame
<1>1. /\ pc' \in [Processes -> ProcessPc] /\ errand' \in [Processes -> {"build", "reset", "task"}]
      /\ put' \in [Processes -> Nat]
  BY MovesPc
<1>2. points' \subseteq Nat
  BY <1>0, StoreKept DEF StoreInv, AllPoints
<1>3. upset' \in BOOLEAN /\ wiped' \in BOOLEAN /\ blind' \in BOOLEAN
  <2>1. CASE Cleared(p)
    BY <2>1, ClearedPays DEF IInv, TypeOK
  <2>2. CASE DropCollection(p)
    BY <2>2, DropOwes
  <2>3. CASE ~Cleared(p) /\ ~DropCollection(p)
    BY <2>3, PointsStay DEF IInv, TypeOK
  <2> QED
    BY <2>1, <2>2, <2>3
<1>4. faults' \in Nat
  <2>1. faults \in Nat /\ (faults' = faults \/ faults' = faults + 1)
    BY Zenon DEF Moves, ProcessStep, Start, Check, Inspect, DropCollection, Recheck, CreateCollection,
         LoadBases, Reset, ListDocuments, CreateBase, Upload, TakeTask, BeginRun, Embed, Clear,
         Upsert, Finish, Failed, RunFault, StatusFault, Die, Fault, IInv, TypeOK
  <2> QED
    BY <2>1
<1>5. exists' \in BOOLEAN
  BY DEF Moves, ProcessStep, Start, Check, Inspect, DropCollection, Recheck, CreateCollection,
         LoadBases, Reset, ListDocuments, CreateBase, Upload, TakeTask, BeginRun, Embed, Clear,
         Upsert, Finish, Failed, RunFault, StatusFault, Die, storeVars, IInv, TypeOK
<1>6. /\ base' \in BOOLEAN /\ knows' \subseteq Processes
      /\ status' \in {"none", "parsed", "indexing", "ready", "failed"} /\ task' \in BOOLEAN
  BY BasesStay
<1> QED
  BY <1>0, <1>1, <1>2, <1>3, <1>4, <1>5, <1>6 DEF TypeOK, IInv

LEMMA MovesKeep ==
  ASSUME IInv, NEW p \in Processes, Moves(p)
  PROVE  IInv'
<1>1. ChunkInv'
  BY MovesFrame, ChunkKeeps DEF IInv
<1> QED
  BY <1>1, ErrandStays, BaseKept, DebtKept, StoreKept, SearchKept, TypesKept DEF IInv

-----------------------------------------------------------------------------
(* The loop that cuts comes before everything else. *)

LEMMA CutKeeps ==
  ASSUME IInv, ChunkStep
  PROVE  IInv'
<1>1. ChunkInv' /\ text' = text /\ ~cut
  BY ChunkKeeps DEF IInv, ChunkStep, ChunkNext, Whole, Cut
<1>2. /\ UNCHANGED <<env, exists, points, base, knows, status, task, pc, errand, put, faults>>
      /\ UNCHANGED <<search, phrase, near, seen, upset, wiped, blind>>
  BY DEF ChunkStep, storeVars, baseVars, processVars, searchVars, wipeVars
<1>3. points = {} /\ search = "idle" /\ \A p \in Processes : pc[p] = "off"
  BY <1>1 DEF IInv, StoreInv, ErrandInv
<1>4. TypeOK' /\ ErrandInv' /\ BaseInv'
  BY <1>2, <1>3 DEF IInv, TypeOK, ErrandInv, BaseInv, RunPc
<1>5. StoreInv' /\ SearchInv' /\ PhraseFound'
  BY <1>1, <1>2, <1>3 DEF IInv, StoreInv, SearchInv, PhraseFound
<1>6. DebtInv'
  <2>1. task \/ status = "none"
    BY <1>1 DEF IInv, StoreInv
  <2> QED
    BY <1>2, <2>1 DEF DebtInv, Owed
<1> QED
  BY <1>1, <1>4, <1>5, <1>6 DEF IInv

-----------------------------------------------------------------------------
(* The search *)

\* An index at rest has all pieces.
LEMMA RestComplete ==
  ASSUME IInv, AtRest
  PROVE  points = AllPoints
<1>1. ~Owed
  BY DEF AtRest, Owed, RunPc
<1>2. \A p \in Processes : pc[p] # "put"
  BY DEF AtRest, IInv, ErrandInv
<1> QED
  BY <1>1, <1>2 DEF AtRest, IInv, DebtInv

\* What a search leaves alone.
LEMMA SearchFrame ==
  ASSUME IInv, SearchStep
  PROVE  /\ UNCHANGED <<env, exists, points, base, knows, status, task, pc, errand, put, wiped, blind>>
         /\ UNCHANGED <<text, start, pieces, cut>> /\ UNCHANGED <<Length, AllPoints>>
         /\ cut /\ faults' \in Nat
         /\ ChunkInv' /\ ErrandInv' /\ StoreInv' /\ BaseInv' /\ DebtInv'
<1>1. /\ UNCHANGED chunkVars
      /\ UNCHANGED <<env, exists, points, base, knows, status, task, pc, errand, put, wiped, blind>>
  BY DEF SearchStep, BeginSearch, SearchVectors, SearchDocuments, storeVars, baseVars, processVars, wipeVars
<1>2. UNCHANGED <<text, start, pieces, cut>> /\ UNCHANGED <<Length, AllPoints>>
  BY <1>1 DEF chunkVars, Length, AllPoints
<1>3. cut
  <2>1. CASE BeginSearch
    BY <2>1 DEF BeginSearch, IInv, TypeOK, ErrandInv
  <2>2. CASE search # "idle"
    BY <2>2 DEF IInv, StoreInv
  <2> QED
    BY <2>1, <2>2 DEF SearchStep, SearchVectors, SearchDocuments
<1>4. faults' \in Nat
  BY DEF SearchStep, BeginSearch, SearchVectors, SearchDocuments, Fault, IInv, TypeOK
<1>5. ChunkInv'
  BY <1>1, ChunkKeeps DEF IInv
<1>6. ErrandInv' /\ BaseInv'
  BY <1>1, <1>2 DEF IInv, ErrandInv, BaseInv
<1>7. StoreInv' /\ DebtInv'
  BY <1>1, <1>2, <1>3 DEF IInv, StoreInv, DebtInv, Owed, Informed
<1> QED
  BY <1>1, <1>2, <1>3, <1>4, <1>5, <1>6, <1>7

\* One of all pieces has the phrase.
LEMMA PhraseHeld ==
  ASSUME ChunkInv, cut, NEW a, NEW b, Phrase(a, b)
  PROVE  \E i \in AllPoints : a..b \subseteq pieces[i]
<1>1. a \in 0..(Length - 1) /\ b \in 0..(Length - 1)
  BY LengthType DEF Phrase, ChunkInv
<1>2. Held(a, b)
  BY <1>1 DEF ChunkInv, PhrasesKept
<1> QED
  BY <1>2 DEF Held, AllPoints

LEMMA SearchKeeps ==
  ASSUME IInv, SearchStep
  PROVE  IInv'
<1>0. /\ TypeOK /\ SearchInv /\ PhraseFound
      /\ \A a, b : Phrase(a, b)' = Phrase(a, b)
  BY SearchFrame DEF IInv, Phrase, Blank, Length
<1>1. SearchInv' /\ search' \in {"idle", "vectors", "documents", "hit", "miss", "error"}
      /\ near' \in {"far", "fair", "close"} /\ seen' \subseteq Nat /\ upset' \in BOOLEAN
      /\ (search' = "miss" => phrase'[3] # "enough")
  <2> USE <1>0, SearchFrame
  <2>1. CASE BeginSearch
    <3>1. PICK a, b \in 0..(Length - 1), words \in Evidence : Phrase(a, b) /\ phrase' = <<a, b, words>>
      BY <2>1 DEF BeginSearch
    <3>2. Phrase(phrase'[1], phrase'[2])
      BY <3>1
    <3>3. /\ search = "idle" /\ near' = near /\ seen' = seen
          /\ \/ search' = "vectors" /\ upset' = ~AtRest
             \/ search' = "error" /\ upset' = upset
      BY <2>1 DEF BeginSearch
    <3>4. search' = "vectors" /\ ~upset' => points' = AllPoints'
      BY <3>3, RestComplete
    <3>5. upset' \in BOOLEAN
      BY <3>3 DEF TypeOK
    <3> QED
      BY <3>2, <3>3, <3>4, <3>5 DEF TypeOK, SearchInv
  <2>2. CASE SearchVectors
    <3>1. /\ search = "vectors" /\ UNCHANGED <<phrase, upset>>
          /\ \/ search' = "documents" /\ near' \in {"far", "fair", "close"} /\ seen' = points
             \/ search' = "error" /\ near' = near /\ seen' = seen
      BY <2>2 DEF SearchVectors
    <3> QED
      BY <3>1 DEF TypeOK, SearchInv
  <2>3. CASE SearchDocuments
    <3>1. /\ search = "documents" /\ UNCHANGED <<phrase, near, seen, upset>>
          /\ \/ search' = "hit" \/ (search' = "miss" /\ ~Found) \/ search' = "error"
      BY <2>3 DEF SearchDocuments
    <3> QED
      BY <3>1 DEF TypeOK, SearchInv, Found
  <2> QED
    BY <2>1, <2>2, <2>3 DEF SearchStep
<1>2. TypeOK'
  BY <1>0, <1>1, SearchFrame DEF TypeOK
<1>3. PhraseFound'
  <2>1. search' \in {"documents", "hit", "miss"} /\ ~upset' =>
          \E i \in seen' : phrase'[1]..phrase'[2] \subseteq pieces'[i]
    <3>1. ChunkInv /\ cut /\ pieces' = pieces
      BY SearchFrame DEF IInv
    <3>2. SUFFICES ASSUME search' \in {"documents", "hit", "miss"}, ~upset'
                   PROVE  \E i \in seen' : phrase'[1]..phrase'[2] \subseteq pieces'[i]
      OBVIOUS
    <3>3. Phrase(phrase[1], phrase[2])' /\ seen' = AllPoints'
      BY <1>1, <3>2 DEF SearchInv
    <3>4. Phrase(phrase'[1], phrase'[2]) /\ seen' = AllPoints
      BY <1>0, <3>3, SearchFrame DEF Phrase, Blank, Length
    <3> QED
      BY <3>1, <3>4, PhraseHeld
  <2> QED
    BY <1>1, <2>1 DEF PhraseFound
<1> QED
  BY <1>1, <1>2, <1>3, SearchFrame DEF IInv

-----------------------------------------------------------------------------
(* The theorems *)

LEMMA Starts ==
  ASSUME Init
  PROVE  IInv
<1>1. env.text \in Texts /\ env.based \in BOOLEAN
  BY ScenariosAssumption DEF Init, Scenario
<1>2. ChunkInv
  BY <1>1, ChunkStarts DEF Init, ChunkInit
<1>3. TypeOK
  BY <1>1 DEF Init, TypeOK, ProcessPc
<1>4. ErrandInv /\ BaseInv
  BY DEF Init, ErrandInv, BaseInv, RunPc
<1>5. StoreInv /\ DebtInv
  BY <1>1 DEF Init, StoreInv, DebtInv, Owed
<1> QED
  BY <1>2, <1>3, <1>4, <1>5 DEF Init, IInv, SearchInv, PhraseFound

LEMMA Stutters ==
  ASSUME IInv, UNCHANGED vars
  PROVE  IInv'
<1>1. /\ UNCHANGED <<chunkVars, env, exists, points, base, knows, status, task, pc, errand, put, faults>>
      /\ UNCHANGED <<search, phrase, near, seen, upset, wiped, blind>>
      /\ UNCHANGED <<text, start, pieces, cut>>
  BY DEF vars, chunkVars, storeVars, baseVars, processVars, searchVars, wipeVars
<1>2. ChunkInv'
  BY <1>1, ChunkKeeps DEF IInv
<1>3. TypeOK' /\ ErrandInv' /\ BaseInv'
  BY <1>1 DEF IInv, TypeOK, ErrandInv, BaseInv
<1>4. StoreInv' /\ DebtInv'
  BY <1>1 DEF IInv, StoreInv, DebtInv, Owed, Informed, AllPoints
<1>5. SearchInv' /\ PhraseFound'
  BY <1>1 DEF IInv, SearchInv, PhraseFound, AllPoints, Phrase, Length, Blank
<1> QED
  BY <1>2, <1>3, <1>4, <1>5 DEF IInv

\* The invariant of one document, its index and its search.
THEOREM IndexInvariance == Spec => []IInv
<1>1. IInv /\ [Next]_vars => IInv'
  BY MovesKeep, CutKeeps, SearchKeeps, Stutters DEF Next, Moves
<1> QED
  BY <1>1, Starts, PTL DEF Spec

\* However starts, rebuilds, runs, failures and deaths overlap, once they are over the
\* index has all pieces of the document, unless the collection was deleted after the last
\* run had cleared it (RagService.index_document).
THEOREM SearchableAlways == Spec => []Searchable
<1>1. IInv => Searchable
  <2>1. SUFFICES ASSUME IInv, Settled, ~wiped PROVE points = AllPoints
    BY DEF Searchable
  <2>2. ~Owed /\ \A p \in Processes : pc[p] # "put"
    BY <2>1 DEF Settled, Owed, RunPc, IInv, ErrandInv
  <2> QED
    BY <2>1, <2>2 DEF IInv, DebtInv
<1> QED
  BY <1>1, IndexInvariance, PTL

\* Then the document is "ready", and where every start rebuilds the index no deletion of
\* the collection is the last word, unless by a process that had loaded its knowledge
\* bases before the one of the document was created (RagService.startup,
\* KnowledgeBaseService.list_all_documents).
THEOREM RebuiltAlways == Spec => []Rebuilt
<1>1. IInv => Rebuilt
  <2>1. SUFFICES ASSUME IInv, Settled PROVE status = "ready" /\ (env.rebuild /\ ~blind => ~wiped)
    BY DEF Rebuilt
  <2>2. ~Owed /\ \A p \in Processes : pc[p] \notin {"put", "finish"}
    BY <2>1 DEF Settled, Owed, RunPc, IInv, ErrandInv
  <2> QED
    BY <2>1, <2>2 DEF IInv, DebtInv
<1> QED
  BY <1>1, IndexInvariance, PTL

\* A search that begins in an index at rest, and that no deletion overtakes, compares with
\* a piece that has the whole phrase; one with enough words of the document in its query
\* does not miss it (RagService.search).
THEOREM PhraseFoundAlways == Spec => []PhraseFound
<1>1. IInv => PhraseFound
  BY DEF IInv
<1> QED
  BY <1>1, IndexInvariance, PTL
=============================================================================
