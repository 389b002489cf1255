------------------------- MODULE ChunkWindowsProofs -------------------------
(***************************************************************************)
(* Proofs about ChunkWindows, for any window, overlap, characters and      *)
(* files: cutting loses no phrase and gives chunks different ids.          *)
(***************************************************************************)
EXTENDS ChunkWindows, WellFoundedInduction, TLAPS

CutType ==
    /\ file \in Files
    /\ page \in Nat \ {0}
    /\ start \in Nat
    /\ result \in Seq([ordinal : Nat, page : Nat, start : Nat, end : Nat, content : Seq(Mark)])

(* A chunk's ordinal is its place. *)
Ordered == \A k \in DOMAIN result : result[k].ordinal = k - 1

(* A window that is not a page's first begins inside its text. *)
Inside == start = 0 \/ (page \in DOMAIN file /\ start < Len(Strip(file[page])))

Found(chunks, n, phrase) == \E k \in DOMAIN chunks : IsIn(phrase, n, chunks[k])

(* The phrases of the pages before are found, and those of this page that begin
   before the next window. *)
Progress ==
    \A n \in DOMAIN file : \A phrase \in Phrases(Strip(file[n])) :
        n < page \/ (n = page /\ phrase[1] <= start) => Found(result, n, phrase)

CutInv == CutType /\ Ordered /\ Inside /\ Progress

------------------------------------------------------------------------------
(* Stripping *)

\* A set of numbers that is not empty has a least one.
LEMMA Least ==
    ASSUME NEW S \in SUBSET Nat, S # {}
    PROVE  \E n \in S : \A m \in S : n <= m
  <1> DEFINE R == OpToRel(<, Nat)
  <1>1. IsWellFoundedOn(R, Nat)
    BY NatLessThanWellFounded
  <1>2. \A x, y \in Nat : x < y => <<x, y>> \in R
    BY DEF OpToRel
  <1> HIDE DEF R
  <1>3. PICK n \in S : \A m \in S : <<m, n>> \notin R
    BY <1>1, WFMin
  <1>4. \A m \in S : ~(m < n)
    BY <1>2, <1>3
  <1> QED BY <1>4

\* And if they are bounded, a greatest.
LEMMA Greatest ==
    ASSUME NEW b \in Nat, NEW S \in SUBSET (0..b), S # {}
    PROVE  \E n \in S : \A m \in S : m <= n
  <1> DEFINE T == {b - n : n \in S}
  <1>1. T \in SUBSET Nat /\ T # {}
    <2>1. \A n \in S : b - n \in Nat
      OBVIOUS
    <2>2. PICK n \in S : TRUE
      OBVIOUS
    <2> QED BY <2>1, <2>2
  <1>2. PICK t \in T : \A u \in T : t <= u
    <2> HIDE DEF T
    <2> QED BY <1>1, Least
  <1>3. PICK n \in S : t = b - n
    BY <1>2
  <1>4. ASSUME NEW m \in S PROVE m <= n
    <2>1. b - m \in T
      OBVIOUS
    <2> QED BY <1>2, <1>3, <2>1
  <1> QED BY <1>4

\* A stripped text is a text, and one with a mark that is not blank stays so.
LEMMA StripType ==
    ASSUME NEW text \in Seq(Mark)
    PROVE  Strip(text) \in Seq(Mark) /\ (Strip(text) = <<>> <=> IsBlank(text))
  <1>1. CASE IsBlank(text)
    BY <1>1 DEF Strip
  <1>2. CASE ~IsBlank(text)
    <2> DEFINE first == CHOOSE i \in Marks(text) : \A j \in Marks(text) : i <= j
               last == CHOOSE i \in Marks(text) : \A j \in Marks(text) : j <= i
    <2>1. Len(text) \in Nat /\ DOMAIN text = 1..Len(text)
      OBVIOUS
    <2>2. Marks(text) \in SUBSET (1..Len(text)) /\ Marks(text) # {}
      BY <1>2, <2>1 DEF Marks, IsBlank
    <2>3. \E i \in Marks(text) : \A j \in Marks(text) : i <= j
      <3>1. Marks(text) \in SUBSET Nat
        BY <2>1, <2>2
      <3> QED BY <2>2, <3>1, Least
    <2>4. \E i \in Marks(text) : \A j \in Marks(text) : j <= i
      <3>1. Marks(text) \in SUBSET (0..Len(text))
        BY <2>1, <2>2
      <3> QED BY <2>1, <2>2, <3>1, Greatest
    <2>5. first \in Marks(text) /\ \A j \in Marks(text) : first <= j
      BY <2>3
    <2>6. last \in Marks(text) /\ \A j \in Marks(text) : j <= last
      BY <2>4
    <2>7. Strip(text) = SubSeq(text, first, last)
      BY <1>2 DEF Strip
    <2> HIDE DEF first, last
    <2>8. first \in 1..Len(text) /\ last \in 1..Len(text) /\ first <= last
      BY <2>2, <2>5, <2>6
    <2>9. SubSeq(text, first, last) \in Seq(Mark) /\ Len(SubSeq(text, first, last)) = last - first + 1
      BY <2>1, <2>8
    <2>10. SubSeq(text, first, last) # <<>>
      BY <2>1, <2>8, <2>9
    <2> QED BY <1>2, <2>7, <2>9, <2>10
  <1> QED BY <1>1, <1>2

\* A phrase ends with marks that are not blank and is short enough.
LEMMA PhraseFacts ==
    ASSUME NEW text \in Seq(Mark), NEW phrase \in Phrases(text)
    PROVE  /\ phrase[1] \in 1..Len(text) /\ phrase[2] \in 1..Len(text)
           /\ phrase[1] <= phrase[2] /\ phrase[2] <= phrase[1] + Overlap
           /\ text[phrase[1]] # Blank
  <1>1. phrase \in Marks(text) \X Marks(text) /\ phrase[1] <= phrase[2]
        /\ phrase[2] - phrase[1] <= Overlap
    BY DEF Phrases
  <1>2. phrase[1] \in Marks(text) /\ phrase[2] \in Marks(text)
    BY <1>1
  <1> QED BY <1>1, <1>2, WindowAssumption DEF Marks

------------------------------------------------------------------------------
(* The loop *)

\* The pages are texts.
LEMMA PageType ==
    ASSUME CutType
    PROVE  /\ Len(file) \in Nat /\ DOMAIN file = 1..Len(file)
           /\ \A n \in DOMAIN file : Strip(file[n]) \in Seq(Mark)
  <1>1. file \in Seq(Seq(Mark))
    BY FilesAssumption DEF CutType
  <1>2. Len(file) \in Nat /\ DOMAIN file = 1..Len(file) /\ \A n \in DOMAIN file : file[n] \in Seq(Mark)
    BY <1>1
  <1> QED BY <1>2, StripType

\* Nothing is cut yet.
LEMMA InitCut == CutInit => CutInv
  <1> SUFFICES ASSUME CutInit PROVE CutInv
    OBVIOUS
  <1>1. CutType
    BY DEF CutInit, CutType
  <1>2. Ordered
    BY DEF CutInit, Ordered
  <1>3. ASSUME NEW n \in DOMAIN file, NEW phrase \in Phrases(Strip(file[n]))
        PROVE  ~(n < page \/ (n = page /\ phrase[1] <= start))
    <2>1. phrase[1] \in 1..Len(Strip(file[n])) /\ n \in 1..Len(file) /\ Len(file) \in Nat
      BY <1>1, PageType, PhraseFacts
    <2>2. page = 1 /\ start = 0
      BY DEF CutInit
    <2> QED BY <2>1, <2>2
  <1>4. Inside
    BY DEF CutInit, Inside
  <1> QED BY <1>1, <1>2, <1>3, <1>4 DEF CutInv, Progress

\* A page without text has no phrase.
LEMMA SkipStep ==
    ASSUME CutInv, SkipPage
    PROVE  CutInv'
  <1>1. CutType /\ Ordered /\ Inside /\ Progress
    BY DEF CutInv
  <1>2. CutType' /\ Ordered'
    BY <1>1 DEF SkipPage, CutType, Ordered
  <1>3. start = 0
    <2>1. Len(Strip(file[page])) = 0
      BY DEF SkipPage
    <2> QED BY <1>1, <2>1 DEF Inside, CutType
  <1>4. ASSUME NEW n \in DOMAIN file, NEW phrase \in Phrases(Strip(file[n])),
               n < page + 1 \/ (n = page + 1 /\ phrase[1] <= start)
        PROVE  Found(result, n, phrase)
    <2>1. n \in Nat /\ page \in Nat /\ Strip(file[n]) \in Seq(Mark)
      BY <1>1, PageType DEF CutType
    <2>2. Len(Strip(file[n])) \in Nat /\ phrase[1] \in 1..Len(Strip(file[n]))
      BY <2>1, PhraseFacts
    <2>3. n # page
      BY <2>2 DEF SkipPage
    <2>4. n < page
      BY <1>3, <1>4, <2>1, <2>2, <2>3
    <2> QED BY <1>1, <2>4 DEF Progress
  <1>5. Inside'
    BY <1>3 DEF SkipPage, Inside
  <1> QED BY <1>2, <1>4, <1>5 DEF CutInv, Progress, SkipPage

\* Where a window ends and the next one begins.
LEMMA WindowFacts ==
    ASSUME NEW text \in Seq(Mark), start \in Nat, start < Len(text)
    PROVE  /\ WindowEnd(text) \in (start + 1)..Len(text)
           /\ NextStart(WindowEnd(text)) = WindowEnd(text) - Overlap
           /\ WindowEnd(text) # Len(text) => NextStart(WindowEnd(text)) \in Nat
  BY WindowAssumption DEF WindowEnd, NextStart

\* A window that holds a mark is not blank.
LEMMA WindowHolds ==
    ASSUME NEW text \in Seq(Mark), NEW from \in Nat, NEW end \in Nat, end <= Len(text),
           NEW i \in (from + 1)..end, text[i] # Blank
    PROVE  Strip(SubSeq(text, from + 1, end)) # <<>>
  <1> DEFINE span == SubSeq(text, from + 1, end)
  <1>1. span \in Seq(Mark) /\ DOMAIN span = 1..(end - from)
    OBVIOUS
  <1>2. i - from \in 1..(end - from) /\ span[i - from] = text[i]
    OBVIOUS
  <1> HIDE DEF span
  <1>3. ~IsBlank(span)
    BY <1>1, <1>2 DEF IsBlank, Marks
  <1>4. Strip(span) # <<>>
    BY <1>1, <1>3, StripType
  <1> QED BY <1>4 DEF span

\* A turn of the loop keeps the chunks and finds the phrases of its window.
LEMMA CutStep ==
    ASSUME CutInv, CutWindow
    PROVE  CutInv'
  <1> DEFINE text == Strip(file[page])
             end == WindowEnd(text)
             content == Strip(SubSeq(text, start + 1, end))
             chunk == NewChunk(end, content)
             ChunkType == [ordinal : Nat, page : Nat, start : Nat, end : Nat, content : Seq(Mark)]
  <1>1. /\ CutType /\ Ordered /\ Inside /\ Progress
        /\ page \in Nat \ {0} /\ start \in Nat /\ result \in Seq(ChunkType)
    BY DEF CutInv, CutType
  <1>2. Len(file) \in Nat /\ DOMAIN file = 1..Len(file) /\ page \in DOMAIN file
    BY <1>1, PageType DEF CutWindow, IsCut
  <1>3. text \in Seq(Mark) /\ start < Len(text) /\ Len(text) \in Nat
    <2>1. text \in Seq(Mark)
      BY <1>1, <1>2, PageType
    <2>2. start < Len(text)
      BY DEF CutWindow
    <2> HIDE DEF text
    <2> QED BY <2>1, <2>2
  <1>4. /\ end \in (start + 1)..Len(text)
        /\ NextStart(end) = end - Overlap
        /\ end # Len(text) => NextStart(end) \in Nat
    <2> HIDE DEF text
    <2> QED BY <1>1, <1>3, WindowFacts
  <1>5. content \in Seq(Mark)
    <2> HIDE DEF text, end
    <2>1. SubSeq(text, start + 1, end) \in Seq(Mark)
      BY <1>1, <1>3, <1>4
    <2> QED BY <2>1, StripType
  <1>6. /\ result' = IF content = <<>> THEN result ELSE Append(result, chunk)
        /\ IF end = Len(text) THEN page' = page + 1 /\ start' = 0
                              ELSE page' = page /\ start' = NextStart(end)
        /\ file' = file
    BY DEF CutWindow
  <1>7. /\ chunk \in ChunkType /\ chunk.ordinal = Len(result)
        /\ \A phrase : start < phrase[1] /\ phrase[2] <= end => IsIn(phrase, page, chunk)
    <2> HIDE DEF text, end, content
    <2> QED BY <1>1, <1>3, <1>4, <1>5 DEF NewChunk, IsIn
  <1> HIDE DEF chunk, ChunkType
  <1>8. /\ result' \in Seq(ChunkType)
        /\ \A k \in DOMAIN result : k \in DOMAIN result' /\ result'[k] = result[k]
        /\ content # <<>> => /\ DOMAIN result' = DOMAIN result \union {Len(result) + 1}
                             /\ result'[Len(result) + 1] = chunk
        /\ content = <<>> => DOMAIN result' = DOMAIN result
    <2> HIDE DEF content
    <2> QED BY <1>1, <1>6, <1>7
  <1>9. CutType'
    <2> HIDE DEF text, end, content
    <2>1. page' \in Nat \ {0} /\ start' \in Nat
      BY <1>1, <1>4, <1>6
    <2> QED BY <1>1, <1>6, <1>8, <2>1 DEF CutType, ChunkType
  <1>10. Ordered'
    <2> HIDE DEF content
    <2>1. \A k \in DOMAIN result : result[k].ordinal = k - 1
      BY <1>1 DEF Ordered
    <2>2. Len(result) \in Nat
      BY <1>1
    <2> QED BY <1>7, <1>8, <2>1, <2>2 DEF Ordered
  <1>11. ASSUME NEW n, NEW phrase, Found(result, n, phrase)
         PROVE  Found(result', n, phrase)
    BY <1>8, <1>11 DEF Found
  <1>12. ASSUME NEW phrase \in Phrases(text), start < phrase[1], phrase[2] <= end
         PROVE  Found(result', page, phrase)
    <2> HIDE DEF text, end
    <2>1. phrase[1] \in (start + 1)..end /\ text[phrase[1]] # Blank /\ end \in Nat /\ end <= Len(text)
      BY <1>1, <1>3, <1>4, <1>12, PhraseFacts
    <2>2. content # <<>>
      BY <1>1, <1>3, <2>1, WindowHolds
    <2> HIDE DEF content
    <2>3. Len(result) + 1 \in DOMAIN result' /\ result'[Len(result) + 1] = chunk
      BY <1>8, <2>2
    <2>4. IsIn(phrase, page, chunk)
      BY <1>7, <1>12
    <2> QED BY <2>3, <2>4 DEF Found, IsIn
  <1>13. ASSUME NEW n \in DOMAIN file, NEW phrase \in Phrases(Strip(file[n])),
                n < page' \/ (n = page' /\ phrase[1] <= start')
         PROVE  Found(result', n, phrase)
    <2>1. CASE n < page
      <3>1. Found(result, n, phrase)
        BY <1>1, <1>13, <2>1 DEF Progress
      <3> QED BY <1>11, <3>1
    <2>2. CASE n = page
      <3>1. phrase \in Phrases(text) /\ text = Strip(file[n])
        BY <2>2
      <3> HIDE DEF text, end, content
      <3>2. /\ phrase[1] \in 1..Len(text) /\ phrase[2] \in 1..Len(text)
            /\ phrase[2] <= phrase[1] + Overlap
        BY <1>3, <3>1, PhraseFacts
      <3>3. CASE phrase[1] <= start
        <4>1. Found(result, n, phrase)
          BY <1>1, <2>2, <3>3 DEF Progress
        <4> QED BY <1>11, <4>1
      <3>4. CASE start < phrase[1]
        <4>1. phrase[2] <= end
          <5>1. CASE end = Len(text)
            BY <3>2, <5>1
          <5>2. CASE end # Len(text)
            <6>1. page' = page /\ start' = end - Overlap
              BY <1>4, <1>6, <5>2
            <6>2. phrase[1] <= end - Overlap
              BY <1>1, <1>13, <2>2, <6>1
            <6>3. Overlap \in Nat
              BY WindowAssumption
            <6> QED BY <1>4, <3>2, <6>2, <6>3
          <5> QED BY <5>1, <5>2
        <4> QED BY <1>12, <2>2, <3>1, <3>4, <4>1
      <3> QED BY <1>1, <3>2, <3>3, <3>4
    <2>3. ~(n > page)
      <3>1. n \in Nat /\ page \in Nat
        BY <1>1, <1>2
      <3>2. n > page => n = page + 1 /\ page' = page + 1 /\ start' = 0
        <4> HIDE DEF text, end
        <4> QED BY <1>1, <1>6, <1>13, <3>1
      <3>3. phrase[1] \in Nat \ {0}
        <4>1. Strip(file[n]) \in Seq(Mark)
          BY <1>1, PageType
        <4>2. Len(Strip(file[n])) \in Nat /\ phrase[1] \in 1..Len(Strip(file[n]))
          BY <4>1, PhraseFacts
        <4> QED BY <4>2
      <3> HIDE DEF text, end, content
      <3> QED BY <1>13, <3>1, <3>2, <3>3
    <2> QED BY <1>1, <1>2, <2>1, <2>2, <2>3
  <1>14. Progress'
    BY <1>6, <1>13 DEF Progress
  <1>15. Inside'
    <2>1. CASE end = Len(text)
      BY <1>6, <2>1 DEF Inside
    <2>2. CASE end # Len(text)
      <3>1. page' = page /\ start' = end - Overlap /\ file' = file
        BY <1>4, <1>6, <2>2
      <3>2. end - Overlap < Len(text)
        <4> HIDE DEF text, end
        <4> QED BY <1>3, <1>4, <2>2, WindowAssumption
      <3> QED BY <1>2, <3>1, <3>2 DEF Inside
    <2> QED BY <2>1, <2>2
  <1> QED BY <1>9, <1>10, <1>14, <1>15 DEF CutInv

\* The invariant holds always.
LEMMA CutHolds == CutSpec => []CutInv
  <1>1. CutInv /\ [CutNext]_cutting => CutInv'
    <2> SUFFICES ASSUME CutInv, [CutNext]_cutting PROVE CutInv'
      OBVIOUS
    <2>1. CASE UNCHANGED cutting
      BY <2>1 DEF cutting, CutInv, CutType, Ordered, Inside, Progress, Found
    <2> QED BY <2>1, SkipStep, CutStep DEF CutNext
  <1> QED BY <1>1, InitCut, PTL DEF CutSpec

\* Whatever the window and the overlap, every phrase up to one character longer
\* than the overlap is in a chunk of its page, and no two chunks share an id.
THEOREM CuttingComplete == CutSpec => []ChunksAreComplete
  <1>1. CutInv => ChunksAreComplete
    <2> SUFFICES ASSUME CutInv PROVE ChunksAreComplete
      OBVIOUS
    <2>1. ASSUME IsCut, NEW n \in DOMAIN file, NEW phrase \in Phrases(Strip(file[n]))
          PROVE  Found(result, n, phrase)
      <3>1. n \in Nat /\ n < page
        BY <2>1, PageType DEF CutInv, CutType, IsCut
      <3> QED BY <2>1, <3>1 DEF CutInv, Progress
    <2>2. ASSUME NEW j \in DOMAIN result, NEW k \in DOMAIN result, j # k
          PROVE  ChunkId(result[j]) # ChunkId(result[k])
      <3>1. j \in Nat /\ k \in Nat /\ result[j].ordinal = j - 1 /\ result[k].ordinal = k - 1
        <4>1. DOMAIN result = 1..Len(result)
          BY DEF CutInv, CutType
        <4> QED BY <4>1 DEF CutInv, Ordered
      <3> QED BY <2>2, <3>1 DEF ChunkId
    <2> QED BY <2>1, <2>2 DEF ChunksAreComplete, Found
  <1> QED BY <1>1, CutHolds, PTL

------------------------------------------------------------------------------
(* The loop ends *)

(* Each turn begins a later page or a later window of the same page, which is what
   ends the loop: the pages and a text are finite.  It needs Overlap < Window; a
   window that is as short as the overlap would be cut again and again. *)
CuttingMovesOn ==
    [][page' > page \/ (page' = page /\ start' > start)]_cutting

\* For any window and any shorter overlap, no turn of the loop repeats a window.
THEOREM CuttingEnds == CutSpec => CuttingMovesOn
  <1>1. ASSUME CutInv, CutNext
        PROVE  page' > page \/ (page' = page /\ start' > start)
    <2>1. CutType /\ page \in Nat /\ start \in Nat
      BY <1>1 DEF CutInv, CutType
    <2>2. CASE SkipPage
      BY <2>1, <2>2 DEF SkipPage
    <2>3. CASE CutWindow
      <3> DEFINE text == Strip(file[page])
                 end == WindowEnd(text)
      <3>1. start < Len(text) /\ IF end = Len(text) THEN page' = page + 1 /\ start' = 0
                                 ELSE page' = page /\ start' = NextStart(end)
        BY <2>3 DEF CutWindow
      <3>2. text \in Seq(Mark)
        <4>1. page \in DOMAIN file
          BY <1>1, <2>3, PageType DEF CutInv, CutType, CutWindow, IsCut
        <4> QED BY <2>1, <4>1, PageType
      <3> HIDE DEF text
      <3>3. end # Len(text) => NextStart(end) = start + Window - Overlap
        BY <2>1, <3>1, <3>2, WindowAssumption DEF WindowEnd, NextStart
      <3>4. start + Window - Overlap > start
        BY <2>1, WindowAssumption
      <3> HIDE DEF end
      <3> QED BY <2>1, <3>1, <3>3, <3>4
    <2> QED BY <1>1, <2>2, <2>3 DEF CutNext
  <1> QED BY <1>1, CutHolds, PTL DEF CutSpec, CuttingMovesOn

------------------------------------------------------------------------------
(* What a chunk says of itself *)

\* A chunk is no longer than a window, its offsets lie in the text of its page and
\* its content is what stands between them.
Fits(chunk) ==
    LET text == Strip(file[chunk.page]) IN
    /\ chunk.page \in DOMAIN file
    /\ chunk.start < chunk.end /\ chunk.end <= Len(text)
    /\ chunk.end - chunk.start <= Window
    /\ chunk.content = Strip(SubSeq(text, chunk.start + 1, chunk.end))
    /\ chunk.content # <<>>

ChunksFit == \A k \in DOMAIN result : Fits(result[k])

\* The offsets that a citation gives lead to what it cites.
THEOREM ChunksCite == CutSpec => []ChunksFit
  <1>1. CutInit => ChunksFit
    BY DEF CutInit, ChunksFit
  <1>2. CutInv /\ ChunksFit /\ [CutNext]_cutting => ChunksFit'
    <2> SUFFICES ASSUME CutInv, ChunksFit, [CutNext]_cutting PROVE ChunksFit'
      OBVIOUS
    <2>1. CASE UNCHANGED <<file, result>>
      BY <2>1 DEF ChunksFit, Fits
    <2>2. CASE CutWindow
      <3> DEFINE text == Strip(file[page])
                 end == WindowEnd(text)
                 content == Strip(SubSeq(text, start + 1, end))
                 chunk == NewChunk(end, content)
      <3>1. CutType /\ start \in Nat /\ page \in DOMAIN file /\ Len(result) \in Nat
            /\ DOMAIN result = 1..Len(result)
        BY <2>2, PageType DEF CutInv, CutType, CutWindow, IsCut
      <3>2. /\ file' = file /\ start < Len(text)
            /\ result' = IF content = <<>> THEN result ELSE Append(result, chunk)
        BY <2>2 DEF CutWindow
      <3>3. chunk = [ordinal |-> Len(result), page |-> page, start |-> start, end |-> end,
                     content |-> content]
        BY DEF NewChunk
      <3>4. Fits(chunk) \/ content = <<>>
        <4>1. text \in Seq(Mark)
          BY <3>1, PageType
        <4> HIDE DEF text
        <4>2. end > start /\ end <= Len(text) /\ end - start <= Window
          BY <3>1, <3>2, <4>1, WindowAssumption DEF WindowEnd
        <4> HIDE DEF end, content, chunk
        <4>3. /\ chunk.page = page /\ chunk.start = start /\ chunk.end = end
              /\ chunk.content = content
          BY <3>3
        <4> QED BY <3>1, <4>2, <4>3 DEF Fits, text, content
      <3> HIDE DEF text, end, content, chunk
      <3>5. ASSUME NEW k \in DOMAIN result' PROVE Fits(result'[k])
        <4>1. CASE k \in DOMAIN result
          <5>1. result'[k] = result[k]
            BY <3>1, <3>2, <4>1 DEF CutType
          <5> QED BY <4>1, <5>1 DEF ChunksFit
        <4>2. CASE k \notin DOMAIN result
          <5>1. content # <<>> /\ result'[k] = chunk
            BY <3>1, <3>2, <3>5, <4>2 DEF CutType
          <5> QED BY <3>4, <5>1
        <4> QED BY <4>1, <4>2
      <3> QED BY <3>2, <3>5 DEF ChunksFit, Fits
    <2>3. CASE SkipPage
      BY <2>1, <2>3 DEF SkipPage
    <2> QED BY <2>1, <2>2, <2>3 DEF CutNext, cutting
  <1> QED BY <1>1, <1>2, CutHolds, PTL DEF CutSpec
=============================================================================
