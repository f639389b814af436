------------------------------- MODULE Uploads -------------------------------
(***************************************************************************)
(* How bytes become a document row: api/ingest.py and document_service over *)
(* stores/storage.py.  The stored bytes come first, the row is committed    *)
(* after them.  A part is a number and a document's content the set of      *)
(* parts it was put together from.  What follows the row is in Ingestion.   *)
(***************************************************************************)
EXTENDS Integers, FiniteSets

CONSTANTS
  Sources,  \* multipart uploads, by upload_id
  Heavy,    \* those whose parts are over max_upload_bytes together, though not alone
  Parts,    \* total_parts
  Pushes,   \* requests to /ingest/file, /ingest/text and /ingest/record
  MaxIds    \* bound: document ids drawn

ASSUME HeavyAssumption == Heavy \subseteq Sources
ASSUME PartsAssumption == Parts \in Nat \ {0}
ASSUME IdsAssumption   == MaxIds \in Nat

VARIABLES
  parts,    \* stored parts of each upload
  objects,  \* stored documents: what is under the path of a document id
  docs,     \* the documents table
  drawn,    \* document ids drawn so far
  pushes    \* the requests

uploadVars == <<parts, objects, docs, drawn, pushes>>

-----------------------------------------------------------------------------
Ids       == 1 .. MaxIds
AllParts  == 1 .. Parts
Pasted    == "pasted"                     \* the body of a single request
Whole     == [parts |-> AllParts, heavy |-> FALSE]
Content   == [parts : SUBSET AllParts, heavy : BOOLEAN]

Push == [place : {"idle", "received", "stored", "done", "failed"},
         from : Sources \cup {Pasted}, heavy : BOOLEAN, id : Ids \cup {0}]

ToPush(q, place) == pushes' = [pushes EXCEPT ![q].place = place]

\* uuid4, then the path build_path makes of it.
Draw(n) == drawn < MaxIds /\ n = drawn + 1 /\ drawn' = n

\* save_bytes: one write of the whole object.
Saved(n, content) == objects' = [objects EXCEPT ![n] = {content}]

\* create_queued_document: the row, its job and its tags in one commit.
Queued(n, from) == docs' = docs \cup {[id |-> n, from |-> from]}

-----------------------------------------------------------------------------
(* Requests. *)

\* POST /ingest/file/part: in any order, more than once or never.
SavePart(u, n) ==
  /\ parts' = [parts EXCEPT ![u] = @ \cup {n}]
  /\ UNCHANGED <<objects, docs, drawn, pushes>>

\* The last part comes with the request that puts the parts together; other requests
\* carry everything.
Receive(q) ==
  /\ pushes[q].place = "idle"
  /\ \E n \in Ids, from \in Sources \cup {Pasted}, heavy \in BOOLEAN :
       /\ from \in Sources => heavy = (from \in Heavy)
       /\ Draw(n)
       /\ pushes' = [pushes EXCEPT ![q] =
                       [place |-> "received", from |-> from, heavy |-> heavy, id |-> n]]
       /\ parts' = IF from = Pasted THEN parts ELSE [parts EXCEPT ![from] = @ \cup {Parts}]
  /\ UNCHANGED <<objects, docs>>

\* Mutant: the parts that are there are put together.
AssembleSome(q) ==
  /\ pushes[q].place = "received" /\ pushes[q].from # Pasted
  /\ Saved(pushes[q].id, [parts |-> parts[pushes[q].from], heavy |-> pushes[q].heavy])
  /\ ToPush(q, "stored")
  /\ UNCHANGED <<parts, docs, drawn>>

\* complete_multipart: parts 1, 2, ... are read one by one, and all of them are there.
Assemble(q) ==
  /\ pushes[q].place = "received" /\ pushes[q].from # Pasted
  /\ AllParts \subseteq parts[pushes[q].from]
  /\ Saved(pushes[q].id, [parts |-> AllParts, heavy |-> pushes[q].heavy])
  /\ ToPush(q, "stored")
  /\ UNCHANGED <<parts, docs, drawn>>

\* A part is missing or cannot be read: the local store has begun the document by then.
BreakOff(q) ==
  /\ pushes[q].place = "received" /\ pushes[q].from # Pasted
  /\ \E n \in AllParts :
       /\ 1 .. n - 1 \subseteq parts[pushes[q].from]
       /\ Saved(pushes[q].id, [parts |-> 1 .. n - 1, heavy |-> pushes[q].heavy])
  /\ ToPush(q, "failed")
  /\ UNCHANGED <<parts, docs, drawn>>

StoreBody(q) ==
  /\ pushes[q].place = "received" /\ pushes[q].from = Pasted
  /\ Saved(pushes[q].id, [Whole EXCEPT !.heavy = pushes[q].heavy])
  /\ ToPush(q, "stored")
  /\ UNCHANGED <<parts, docs, drawn>>

\* Mutant: the size is taken from the request, of which a final part is a small one.
CommitAnySize(q) ==
  /\ pushes[q].place = "stored"
  /\ pushes[q].heavy => pushes[q].from # Pasted
  /\ Queued(pushes[q].id, pushes[q].from)
  /\ ToPush(q, "done")
  /\ UNCHANGED <<parts, objects, drawn>>

\* The stored size is within the limit: the row is committed.
CommitPush(q) ==
  /\ pushes[q].place = "stored" /\ ~pushes[q].heavy
  /\ Queued(pushes[q].id, pushes[q].from)
  /\ ToPush(q, "done")
  /\ UNCHANGED <<parts, objects, drawn>>

\* A part is missing in S3, the file is too large or of no known type, an error of the store
\* or the database, or the process dies: what is stored stays there.
PushFails(q) ==
  /\ pushes[q].place \in {"received", "stored"}
  /\ ToPush(q, "failed")
  /\ UNCHANGED <<parts, objects, docs, drawn>>

\* DELETE /documents/{id}: the row goes, the bytes stay.
DeleteDocument(d) ==
  /\ docs' = docs \ {d}
  /\ UNCHANGED <<parts, objects, drawn, pushes>>

-----------------------------------------------------------------------------
UploadsInit ==
  /\ parts = [u \in Sources |-> {}]
  /\ objects = [n \in Ids |-> {}]
  /\ docs = {}
  /\ drawn = 0
  /\ pushes = [q \in Pushes |-> [place |-> "idle", from |-> Pasted, heavy |-> FALSE, id |-> 0]]

UploadsNext ==
  \/ \E u \in Sources, n \in AllParts \ {Parts} : SavePart(u, n)
  \/ \E q \in Pushes : Receive(q) \/ Assemble(q) \/ BreakOff(q) \/ StoreBody(q) \/ CommitPush(q) \/ PushFails(q)
  \/ \E d \in docs : DeleteDocument(d)

-----------------------------------------------------------------------------
(* Properties. *)

\* A document the worker is told about can be fetched, is put together from all of its
\* parts, and is not over the limit: whatever came late, twice or never, and whatever
\* failed between the store and the database.
RowHasItsBytes ==
  \A d \in docs : objects[d.id] = {Whole}

\* A promise that the code does not keep, stated by no run: a final request that is
\* repeated, as its answer was lost, does not make a second document.
OneDocumentPerUpload ==
  \A d, e \in docs : d.from = e.from /\ d.from \in Sources => d = e

=============================================================================
