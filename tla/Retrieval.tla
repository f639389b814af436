------------------------------ MODULE Retrieval ------------------------------
(***************************************************************************)
(* One workspace's library and the questions asked of it: the chunks that    *)
(* worker_flow.py stores and indexes, stores/vector_store.py and             *)
(* stores/graph_store.py, and services/retrieval_service.py with its         *)
(* endpoints in api/search.py.  The question is the same throughout; how     *)
(* similar a chunk is to it is chosen when its vector is stored.             *)
(***************************************************************************)
EXTENDS Chunking, FiniteSets

CONSTANTS
  Docs,      \* documents
  TopKs,     \* top_k a client may ask for
  Extra,     \* _GRAPH_AUGMENT_LIMIT
  Budgets,   \* max_tokens a client may ask for
  MaxScore,  \* similarities are 0 .. MaxScore, and those above 0 pass the threshold
  MaxWords,  \* bound: words or rows ever stored, when they are more than one document
  MaxText,   \* bound: words of the first document
  MaxLong,   \* bound: words of a text that is indexed
  MaxGen     \* bound: runs of the pipeline per document

ASSUME TopKsAssumption   == TopKs \subseteq Nat \ {0} /\ Extra \in Nat
ASSUME BudgetsAssumption == Budgets \subseteq Nat \ {0} /\ MaxScore \in Nat
ASSUME BoundsAssumption  == {MaxWords, MaxText, MaxLong, MaxGen} \subseteq Nat

VARIABLES
  library,    \* the documents, their chunk rows and how far the worker is with them
  points,     \* the vectors of the workspace's collection, by their payload
  collection, \* whether the collection has been created
  mentions,   \* documents the graph has the entity of the questions mentioned in
  stored,     \* words stored so far
  answer      \* the question and how far it is with its answer

vars == <<library, points, collection, mentions, stored, answer>>

-----------------------------------------------------------------------------
FirstTexts == UNION {Texts(n) : n \in 1 .. MaxText}
AnyTable   == UNION {Tables(n) : n \in 1 .. MaxWords}
NoDoc  == [kind |-> "none"]
NoRows == <<>>

\* chunk_id is a fresh uuid: document, run and index name it.
Point == [doc : Docs, gen : Nat, index : Nat, tokens : Nat, score : 0 .. MaxScore]

Steps == {"none", "persisted", "indexed", "mapped"}

\* place: waiting for the search, for the graph, answered; hits: what the search found;
\* total: the tokens that have been counted; sent: those of the context itself.
Answer  == [place : {"idle", "searched", "answered", "failed"}, k : Nat, budget : Nat,
            hits : Seq(Point), chunks : Seq(Point), used : Seq(Point), total : Nat, truncated : BOOLEAN, sent : Nat]
Silence == [place |-> "idle", k |-> 0, budget |-> 0, hits |-> <<>>, chunks |-> <<>>,
            used |-> <<>>, total |-> 0, truncated |-> FALSE, sent |-> 0]

-----------------------------------------------------------------------------
(* The pipeline's side. *)

\* What the parser makes of d's file, the same in each run.  Bound: a text is stored first,
\* tables after it.
Parsed(d) ==
  IF library[d].step # "none" THEN {library[d].doc}
  ELSE IF stored = 0 THEN FirstTexts \cup AnyTable ELSE AnyTable

\* Chunk rows of an earlier run are replaced; their vectors are not.
Persist(d) ==
  /\ library[d].gen < MaxGen /\ (library[d].live \/ library[d].step = "none")
  /\ \E doc \in Parsed(d) :
       /\ stored = 0 \/ stored + SizeOf(doc) <= MaxWords
       /\ stored' = stored + SizeOf(doc)
       /\ library' = [library EXCEPT ![d] = [doc |-> doc, rows |-> Chunks(doc), live |-> TRUE,
                                             gen |-> @.gen + 1, step |-> "persisted"]]
  /\ UNCHANGED <<points, collection, mentions, answer>>

\* upsert, which makes sure of the collection first.
Index(d) ==
  /\ library[d].step = "persisted"
  /\ library[d].doc.kind = "text" => SizeOf(library[d].doc) <= MaxLong
  /\ collection' = TRUE
  /\ \E score \in [DOMAIN library[d].rows -> 0 .. MaxScore] :
       points' = points \cup
         {[doc |-> d, gen |-> library[d].gen, index |-> i, score |-> score[i],
           tokens |-> Weight(library[d].doc, library[d].rows[i])] : i \in DOMAIN library[d].rows}
  /\ library' = [library EXCEPT ![d].step = "indexed"]
  /\ UNCHANGED <<mentions, stored, answer>>

\* ner.extract: whether the entity of the questions is among those the model finds in d,
\* with a type of the list; on an error nothing is.
Extracted(d) == {{}, {d}}

\* upsert_graph merges what was extracted, and is best-effort as well.
MapEntities(d) ==
  /\ library[d].step = "indexed"
  /\ \E found \in Extracted(d) : mentions' = mentions \cup found
  /\ library' = [library EXCEPT ![d].step = "mapped"]
  /\ UNCHANGED <<points, collection, stored, answer>>

\* DELETE /documents/{id}: rows cascade, vectors and graph stay.  A run may be on its way.
Delete(d) ==
  /\ library[d].live
  /\ library' = [library EXCEPT ![d].live = FALSE]
  /\ UNCHANGED <<points, collection, mentions, stored, answer>>

-----------------------------------------------------------------------------
(* The question's side. *)

Descending(s) == \A i, j \in DOMAIN s : i < j => s[i].score >= s[j].score
Repeated(s)   == \E i, j \in DOMAIN s : i # j /\ s[i] = s[j]

\* vector_store.search: the n best above the threshold that pass the filter, ties as the
\* store pleases.
Search(docs, n) ==
  LET found == {p \in points : p.score > 0 /\ p.doc \in docs}
      size  == IF n < Cardinality(found) THEN n ELSE Cardinality(found)
  IN {s \in [1 .. size -> found] :
        /\ Descending(s) /\ ~Repeated(s)
        /\ \A p \in found \ ToSet(s), q \in ToSet(s) : q.score >= p.score}

\* The embedding of the question, then the search.
Ask(k) ==
  /\ answer.place = "idle"
  /\ collection
  /\ \E hits \in Search(Docs, k) :
       answer' = [answer EXCEPT !.place = "searched", !.k = k, !.hits = hits]
  /\ UNCHANGED <<library, points, collection, mentions, stored>>

\* Nothing has been indexed yet: the search does not create the collection, and fails.
AskTooEarly ==
  /\ answer.place = "idle"
  /\ ~collection
  /\ answer' = [answer EXCEPT !.place = "failed"]
  /\ UNCHANGED <<library, points, collection, mentions, stored>>

\* Mutant: chunks found both ways are listed twice.
JoinedAll(hits, extras) == hits \o extras

\* What the graph adds is what the search has not found already.
Joined(hits, extras) == hits \o Kept(extras, ToSet(extras) \ ToSet(hits))

\* chunks.sort, which is stable.
Sorted(s) ==
  FlattenSeq([i \in 1 .. MaxScore |-> Kept(s, {p \in ToSet(s) : p.score = MaxScore + 1 - i})])

\* A block is the chunk below a line that names its source.
BlockTokens(p) == p.tokens + 1

\* Mutant: the first block that does not fit ends the context.
AddOrStop(context, p, budget) ==
  IF context.truncated \/ context.total + BlockTokens(p) > budget
  THEN [context EXCEPT !.truncated = TRUE]
  ELSE [context EXCEPT !.used = Append(@, p), !.total = @ + BlockTokens(p)]

\* One turn of the loop of assemble_context.
AddBlock(context, p, budget) ==
  IF context.total + BlockTokens(p) > budget
  THEN [context EXCEPT !.truncated = TRUE]
  ELSE [context EXCEPT !.used = Append(@, p), !.total = @ + BlockTokens(p)]

Blocks(chunks, budget) ==
  FoldLeft(LAMBDA context, p : AddBlock(context, p, budget),
           [used |-> <<>>, total |-> 0, truncated |-> FALSE], chunks)

\* The tokens of the blocks of some chunks, and of the blank lines between them.
Total(chunks)      == FoldLeft(LAMBDA sum, p : sum + BlockTokens(p), 0, chunks)
Separators(chunks) == IF chunks = <<>> THEN 0 ELSE Len(chunks) - 1

\* assemble_context: the blank lines that join the blocks have not been counted.
Assemble(chunks, budget) ==
  LET loop == Blocks(chunks, budget) IN
  [used |-> loop.used, total |-> loop.total, truncated |-> loop.truncated,
   sent |-> Total(loop.used) + Separators(loop.used)]

\* find_document_ids_for_entities: those of the question's entity, or none on an error.
Linked == {{}, mentions}

\* A second search, among the documents the graph gives; then the context of /context and
\* of chat.
Augment(budget) ==
  /\ answer.place = "searched"
  /\ \E docs \in Linked : \E extras \in IF docs = {} THEN {<<>>} ELSE Search(docs, Extra) :
       LET chunks  == Sorted(Joined(answer.hits, extras))
           context == Assemble(chunks, budget)
       IN answer' = [answer EXCEPT !.place = "answered", !.budget = budget, !.chunks = chunks,
            !.used = context.used, !.total = context.total, !.truncated = context.truncated,
            !.sent = context.sent]
  /\ UNCHANGED <<library, points, collection, mentions, stored>>

\* The answer is sent and forgotten.
Forget ==
  /\ answer.place \in {"answered", "failed"}
  /\ answer' = Silence
  /\ UNCHANGED <<library, points, collection, mentions, stored>>

-----------------------------------------------------------------------------
Init ==
  /\ library = [d \in Docs |-> [doc |-> NoDoc, rows |-> NoRows, live |-> FALSE, gen |-> 0, step |-> "none"]]
  /\ points = {}
  /\ collection = FALSE
  /\ mentions = {}
  /\ stored = 0
  /\ answer = Silence

Next ==
  \/ \E d \in Docs : Persist(d) \/ Index(d) \/ MapEntities(d) \/ Delete(d)
  \/ \E k \in TopKs : Ask(k)
  \/ \E budget \in Budgets : Augment(budget)
  \/ AskTooEarly \/ Forget

Spec == Init /\ [][Next]_vars

-----------------------------------------------------------------------------
(* Properties. *)

\* Every variable has its type.
TypeOK ==
  /\ \A d \in Docs : /\ library[d].doc.kind \in {"none", "text", "table"}
                     /\ library[d].step \in Steps /\ library[d].gen \in 0 .. MaxGen
                     /\ \A i \in DOMAIN library[d].rows :
                          library[d].rows[i].words \in Seq(1 .. SizeOf(library[d].doc)) \ {<<>>}
  /\ points \subseteq Point
  /\ collection \in BOOLEAN
  /\ mentions \subseteq Docs
  /\ stored \in 0 .. MaxWords + MaxText
  /\ answer \in Answer

Texted == {d \in Docs : library[d].doc.kind = "text"}
Tabled == {d \in Docs : library[d].doc.kind = "table"}

\* No run of words from one window's start to the next is over the cap.
Even(doc) ==
  \A i, j \in 1 .. Len(doc.weights) : i <= j /\ j < i + Stride => Tokens(doc, Span(i, j)) <= Cap

\* Chunking loses nothing.  Text: whatever its sections and windows, as long as trimming
\* never cuts a window shorter than the distance to the next one; and chunks come in the
\* order of the text.  Tables: each row is in one chunk, in order, the last incomplete batch
\* too.
NothingLost ==
  /\ \A d \in Texted : Even(library[d].doc) =>
       LET rows == library[d].rows IN
       /\ UNION {ToSet(rows[i].words) : i \in DOMAIN rows} = 1 .. Len(library[d].doc.weights)
       /\ \A i, j \in DOMAIN rows : i < j => rows[i].words[1] < rows[j].words[1]
  /\ \A d \in Tabled :
       FlattenSeq([i \in DOMAIN library[d].rows |-> library[d].rows[i].words])
         = Span(1, library[d].doc.rows)

\* How far over the "hard cap" a chunk can be: a single word that is heavier, and the
\* small chunk merged into it.
CapNearlyKept ==
  \A d \in Texted : \A i \in DOMAIN library[d].rows :
    LET words == library[d].rows[i].words IN
    \E n \in 1 .. Len(words) :
       /\ n = 1 \/ Tokens(library[d].doc, SubSeq(words, 1, n)) <= Cap
       /\ Tokens(library[d].doc, SubSeq(words, n + 1, Len(words))) < Least

\* "Graph augmentation never raises into the caller": it never costs the answer a chunk
\* either.  What the search found is there in its order, nothing is there twice, and the
\* whole is sorted although the index may have grown between the two searches.
GraphOnlyAdds ==
  answer.place = "answered" =>
    /\ Kept(answer.chunks, ToSet(answer.hits)) = answer.hits
    /\ Descending(answer.chunks) /\ ~Repeated(answer.chunks)

\* How far over its budget the context that is sent can be: by the blank lines between its
\* blocks, whatever was dropped on the way.  "Whole low-ranked chunks dropped": but none that
\* would still have fitted in, by the tokens the code counts and reports.
ContextFillsBudget ==
  answer.place = "answered" =>
    /\ answer.sent <= answer.budget + Separators(answer.used)
    /\ \A p \in ToSet(answer.chunks) \ ToSet(answer.used) : answer.total + BlockTokens(p) > answer.budget
    /\ answer.truncated <=> answer.used # answer.chunks

-----------------------------------------------------------------------------
(* Promises of docs and comments that the code does not keep; no run states them. *)

\* "max 1024 (hard cap, split at sentence)".
HardCap ==
  \A d \in Texted : \A i \in DOMAIN library[d].rows : Weight(library[d].doc, library[d].rows[i]) <= Cap

\* Spec 007, 2: "context never exceeds the cap".
ContextWithinCap == answer.place = "answered" => answer.sent <= answer.budget

\* Every word of a document is in a chunk.
TextKept ==
  \A d \in Texted : UNION {ToSet(library[d].rows[i].words) : i \in DOMAIN library[d].rows}
                      = 1 .. Len(library[d].doc.weights)

\* "Each with the nearest preceding heading": a chunk has the heading its text begins
\* under.
RefIsOfText ==
  \A d \in Texted : \A i \in DOMAIN library[d].rows :
    library[d].rows[i].ref = RefAt(library[d].doc, library[d].rows[i].words[1])

\* A chunk of an answer can be opened at /evidence/{chunk_id}.
EvidenceOpens ==
  \A p \in ToSet(answer.hits) : library[p.doc].live /\ library[p.doc].gen = p.gen

\* "Created lazily on first upsert/search": a question always gets an answer.
QuestionAnswered == answer.place # "failed"

=============================================================================
