---------------------------- MODULE ChunkWindows ----------------------------
(***************************************************************************)
(* How process_document cuts the text of a document version into chunks:   *)
(* each page into windows that overlap, one window per step.  A text is a  *)
(* sequence of marks, Blank or not, and a file a sequence of pages.        *)
(***************************************************************************)
EXTENDS Integers, Sequences

CONSTANTS Window,   \* 800 characters in the code
          Overlap,  \* 100 in the code
          Mark,     \* characters
          Blank,    \* white space
          Files     \* the files considered

ASSUME WindowAssumption == Window \in Nat /\ Overlap \in 0..(Window - 1)
ASSUME FilesAssumption == Blank \in Mark /\ Files \subseteq Seq(Seq(Mark))

VARIABLES file,   \* the pages of the document, each a text
          page,   \* the number of the page that is cut
          start,  \* where its next window begins
          result  \* the chunks so far

cutting == <<file, page, start, result>>

------------------------------------------------------------------------------
Marks(text) == {i \in DOMAIN text : text[i] # Blank}

IsBlank(text) == Marks(text) = {}

Strip(text) ==
    LET first == CHOOSE i \in Marks(text) : \A j \in Marks(text) : i <= j
        last == CHOOSE i \in Marks(text) : \A j \in Marks(text) : j <= i
    IN IF IsBlank(text) THEN <<>> ELSE SubSeq(text, first, last)

CutInit ==
    /\ file \in Files
    /\ page = 1
    /\ start = 0
    /\ result = <<>>

IsCut == page > Len(file)

\* The parser drops a page without text; one that another parser keeps has no
\* window.  Either way the pages keep their numbers.
SkipPage ==
    /\ ~IsCut
    /\ Strip(file[page]) = <<>>
    /\ page' = page + 1
    /\ UNCHANGED <<file, start, result>>

\* Where the window that begins at start ends.
WindowEnd(text) == IF start + Window < Len(text) THEN start + Window ELSE Len(text)

\* A chunk's ordinal counts the chunks of all pages before it.
NewChunk(end, content) ==
    [ordinal |-> Len(result), page |-> page, start |-> start, end |-> end, content |-> content]

\* Mutant: consecutive windows do not overlap.
StartAtEnd(end) == end

NextStart(end) == end - Overlap

\* One turn of the loop: a window that is not blank becomes a chunk.
CutWindow ==
    LET text == Strip(file[page])
        end == WindowEnd(text)
        content == Strip(SubSeq(text, start + 1, end))
    IN
    /\ ~IsCut
    /\ start < Len(text)
    /\ result' = IF content = <<>> THEN result ELSE Append(result, NewChunk(end, content))
    /\ IF end = Len(text) THEN page' = page + 1 /\ start' = 0
                          ELSE page' = page /\ start' = NextStart(end)
    /\ UNCHANGED file

CutNext == SkipPage \/ CutWindow

CutSpec == CutInit /\ [][CutNext]_cutting

\* A chunk's id is a digest of its version, its ordinal and its content.
ChunkId(chunk) == <<chunk.ordinal, chunk.content>>

------------------------------------------------------------------------------
(* Properties *)

\* The first and last position of each stretch of text that is short enough.
Phrases(text) == {p \in Marks(text) \X Marks(text) : p[1] <= p[2] /\ p[2] - p[1] <= Overlap}

IsIn(phrase, n, chunk) == chunk.page = n /\ chunk.start < phrase[1] /\ phrase[2] <= chunk.end

\* Cutting loses nothing and confuses nothing.  In the end every phrase of a
\* page, up to one character more than the overlap, lies in the span of one
\* chunk with that page's number: no text is lost at a window's edge or with a
\* blank window or page.  And the chunks of a version have different ids, also
\* when they hold the same text (a header repeated on each page): save_chunks
\* and the index keep them all.
ChunksAreComplete ==
    /\ IsCut => \A n \in DOMAIN file : \A phrase \in Phrases(Strip(file[n])) :
                   \E k \in DOMAIN result : IsIn(phrase, n, result[k])
    /\ \A j, k \in DOMAIN result : j # k => ChunkId(result[j]) # ChunkId(result[k])
=============================================================================
