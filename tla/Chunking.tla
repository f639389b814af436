------------------------------ MODULE Chunking -------------------------------
(***************************************************************************)
(* services/chunking.py over the sections of services/parsing.py.  A word   *)
(* is its position and has a weight, the tokens it stands for; the weight   *)
(* of a text is the sum over its words.  A chunk's text is the sequence of  *)
(* its words.                                                               *)
(***************************************************************************)
EXTENDS Integers, SequencesExt

CONSTANTS
  Target,   \* TARGET_TOKENS
  Cap,      \* MAX_TOKENS
  Least,    \* MIN_TOKENS
  Window,   \* words of a window: three quarters of TARGET_TOKENS
  Stride,   \* words from one window to the next
  Batch,    \* ROWS_PER_CHUNK
  Weights   \* tokens a word may have

ASSUME SizesAssumption   == {Target, Cap, Least, Batch} \subseteq Nat \ {0}
ASSUME WindowAssumption  == Window \in Nat /\ Stride \in 1 .. Window
ASSUME WeightsAssumption == Weights \subseteq Nat \ {0}

-----------------------------------------------------------------------------
(* What the parser returns. *)

\* A text of n words: where its blocks (paragraphs) start, and which have a heading.
Texts(n) ==
  UNION {[kind : {"text"}, weights : [1 .. n -> Weights], starts : {{1} \cup S}, heads : SUBSET ({1} \cup S)]
           : S \in SUBSET (2 .. n)}

\* A table of n rows below its header.
Tables(n) == [kind : {"table"}, rows : {n}]

SizeOf(doc) == IF doc.kind = "text" THEN Len(doc.weights) ELSE doc.rows

NoRef == 0

\* _sections_from_markdown: a block belongs to the nearest heading before it.
RefAt(doc, start) ==
  LET above == {h \in doc.heads : h <= start}
  IN IF above = {} THEN NoRef ELSE CHOOSE h \in above : \A g \in above : g <= h

Span(first, last) == [i \in 1 .. last - first + 1 |-> first + i - 1]

\* The elements of s that are in S, in their order.
Kept(s, S) == FoldLeft(LAMBDA kept, p : IF p \in S THEN Append(kept, p) ELSE kept, <<>>, s)

Sections(doc) ==
  LET starts == Kept(Span(1, Len(doc.weights)), doc.starts)
      last(i) == IF i = Len(starts) THEN Len(doc.weights) ELSE starts[i + 1] - 1
  IN [i \in 1 .. Len(starts) |->
        [ref |-> RefAt(doc, starts[i]), words |-> Span(starts[i], last(i))]]

-----------------------------------------------------------------------------
(* Text. *)

\* count_tokens
Tokens(doc, words) == FoldLeft(LAMBDA sum, p : sum + doc.weights[p], 0, words)

\* Mutant: a heavy word is taken off as well, and an empty piece is left.
TrimToFit(doc, words) ==
  LET fits == {n \in 0 .. Len(words) : Tokens(doc, SubSeq(words, 1, n)) <= Cap}
  IN SubSeq(words, 1, CHOOSE n \in fits : \A k \in fits : k <= n)

\* The piece of a window that is kept: words are taken off its end while it is over the
\* cap and has more than one.
Trim(doc, words) ==
  LET fits == {n \in 1 .. Len(words) : n = 1 \/ Tokens(doc, SubSeq(words, 1, n)) <= Cap}
  IN SubSeq(words, 1, CHOOSE n \in fits : \A k \in fits : k <= n)

\* Mutant: the next window starts a window further on, less the overlap taken twice.
SplitApart(doc, words) ==
  LET step  == Window + 1
      count == (Len(words) + step - 1) \div step
  IN [k \in 1 .. count |->
        Trim(doc, SubSeq(words, (k - 1) * step + 1, IF (k - 1) * step + Window < Len(words)
                                                    THEN (k - 1) * step + Window ELSE Len(words)))]

\* _split_tokens: the windows advance by Stride whatever was trimmed.
Split(doc, words) ==
  LET count == (Len(words) + Stride - 1) \div Stride
      last(k) == IF (k - 1) * Stride + Window < Len(words) THEN (k - 1) * Stride + Window
                                                           ELSE Len(words)
  IN [k \in 1 .. count |-> Trim(doc, SubSeq(words, (k - 1) * Stride + 1, last(k)))]

Flushed(doc, state) ==
  state.out \o [k \in DOMAIN Split(doc, state.buffer) |->
                  [words |-> Split(doc, state.buffer)[k], ref |-> state.ref]]

\* A section that does not fit the target next to what is buffered flushes the buffer;
\* the buffer is known by its first heading.
WithSection(doc, state, section) ==
  LET full == Tokens(doc, state.buffer) + Tokens(doc, section.words) > Target
      ref  == IF full THEN section.ref ELSE state.ref
  IN [out    |-> IF full THEN Flushed(doc, state) ELSE state.out,
      buffer |-> (IF full THEN <<>> ELSE state.buffer) \o section.words,
      ref    |-> IF ref = NoRef THEN section.ref ELSE ref]

Buffered(doc, sections) ==
  FoldLeft(LAMBDA state, section : WithSection(doc, state, section),
           [out |-> <<>>, buffer |-> <<>>, ref |-> NoRef], sections)

Pieces(doc) == Flushed(doc, Buffered(doc, Sections(doc)))

\* Mutant: a small chunk goes to its predecessor wherever it is, over and over.
MergeAll(doc, chunks) ==
  IF \E k \in 2 .. Len(chunks) : Tokens(doc, chunks[k].words) < Least
  THEN << [chunks[1] EXCEPT !.words = FlattenSeq([k \in DOMAIN chunks |-> chunks[k].words])] >>
  ELSE chunks

\* A last chunk that is too small goes to its predecessor.
MergeLast(doc, chunks) ==
  LET n == Len(chunks) IN
  IF n >= 2 /\ Tokens(doc, chunks[n].words) < Least
  THEN SubSeq(chunks, 1, n - 2) \o
         << [chunks[n - 1] EXCEPT !.words = @ \o chunks[n].words] >>
  ELSE chunks

-----------------------------------------------------------------------------
(* Tables: batches of rows, each with the header repeated. *)

\* Mutant: rows left over at the end are not emitted.
FullBatches(doc) ==
  [k \in 1 .. doc.rows \div Batch |-> [words |-> Span((k - 1) * Batch + 1, k * Batch), ref |-> k]]

RowBatches(doc) ==
  LET last(k) == IF k * Batch < doc.rows THEN k * Batch ELSE doc.rows
  IN [k \in 1 .. (doc.rows + Batch - 1) \div Batch |->
        [words |-> Span((k - 1) * Batch + 1, last(k)), ref |-> k]]

\* chunk_parsed
Chunks(doc) ==
  IF doc.kind = "table" THEN RowBatches(doc) ELSE MergeLast(doc, Pieces(doc))

\* token_count of a chunk: a row counts for one token, and so does the header.
Weight(doc, chunk) ==
  IF doc.kind = "table" THEN Len(chunk.words) + 1 ELSE Tokens(doc, chunk.words)

=============================================================================
