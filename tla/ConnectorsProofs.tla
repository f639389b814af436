-------------------------- MODULE ConnectorsProofs ---------------------------
(***************************************************************************)
(* Theorems about Connectors and Uploads, for any requests, handshakes,     *)
(* syncs, files and faults: types, rows that stand for stored bytes, cards   *)
(* that keep their tokens, syncs that go on after an error, and one document *)
(* per file, but for those that several syncs were making at once.           *)
(***************************************************************************)
EXTENDS Connectors, TLAPS

USE PartsAssumption, IdsAssumption, UnfitAssumption, BoundsAssumption

-----------------------------------------------------------------------------
(* The inductive invariant, part by part. *)

\* The request holds an id of its own and has not committed its row yet.
Open(q) == pushes[q].place \in {"received", "stored"}

\* The sync is at one of the files of its list.
AtFile(s) == syncs[s].place \in {"checking", "fetching", "holding", "saved"}

\* An id that is in use has been drawn.
Numbered ==
  /\ \A d \in docs : d.id \in 1 .. drawn
  /\ \A q \in Pushes : Open(q) => pushes[q].id \in 1 .. drawn
  /\ \A s \in Syncs : syncs[s].place = "saved" => syncs[s].id \in 1 .. drawn

\* A sync is at a file of its list, or past the end when it closes.
InList ==
  \A s \in Syncs :
    /\ syncs[s].at \in 0 .. Len(syncs[s].files) + 1
    /\ AtFile(s) => syncs[s].at \in 1 .. Len(syncs[s].files)
    /\ syncs[s].place \in {"closing", "completed"} => syncs[s].at = Len(syncs[s].files) + 1

\* An open request has its id for itself: no other request, no document and no file of a
\* sync has it.
Alone ==
  \A q \in Pushes : Open(q) =>
    /\ \A p \in Pushes : Open(p) /\ pushes[p].id = pushes[q].id => p = q
    /\ \A d \in docs : d.id # pushes[q].id
    /\ \A s \in Syncs : syncs[s].place = "saved" => syncs[s].id # pushes[q].id

\* What is stored for a document, and for one that is about to be committed.
Stored ==
  /\ RowHasItsBytes
  /\ \A q \in Pushes : pushes[q].place = "stored" =>
       objects[pushes[q].id] = {[parts |-> AllParts, heavy |-> pushes[q].heavy]}
  /\ \A s \in Syncs : syncs[s].place = "saved" => objects[syncs[s].id] = {Whole}

\* A file that has a document is remembered to have had one.
Recorded == \A d \in docs : d.from \in Files => d.from \in ever

\* The files a sync has left behind have had their turn.
Passed ==
  \A s \in Syncs : \A i \in 1 .. syncs[s].at - 1 :
    syncs[s].files[i] \in Unfit \cup syncs[s].hit \cup ever

\* The file a sync is at work on has no document yet, unless another sync has made one
\* meanwhile.
StillNew ==
  \A s \in Syncs :
    syncs[s].place \in {"fetching", "holding", "saved"} /\ FileOf(s) \notin raced => IsNew(s)

\* What is stored for a card tells what its handshakes have brought, and a connected card
\* has had one.
Explained ==
  \A g \in Cards :
    /\ cards[g].cred = "none" <=> Completed(g) = {}
    /\ cards[g].cred = "token" <=> \E f \in Completed(g) : flows[f].token
    /\ cards[g].status = "connected" => cards[g].cred # "none"

-----------------------------------------------------------------------------
(* What the helpers return. *)

\* The fields of the record of a sync.
LEMMA SyncFields ==
  ASSUME NEW sync \in Sync
  PROVE  /\ sync.place \in {"idle", "checking", "fetching", "holding", "saved", "closing",
                            "completed", "failed"}
         /\ sync.card \in Cards /\ sync.files \in Seq(Files) /\ sync.at \in Nat
         /\ sync.id \in Ids \cup {0} /\ sync.hit \in SUBSET Files /\ sync.poisoned \in BOOLEAN
         /\ Len(sync.files) \in Nat
  BY DEF Sync

\* The file a sync is at is one of those a user may ask for.
LEMMA AtAFile ==
  ASSUME TypeOK, InList, NEW s \in Syncs, AtFile(s)
  PROVE  /\ FileOf(s) \in Files
         /\ syncs[s].at \in 1 .. Len(syncs[s].files)
  <1>1. syncs[s] \in Sync  BY DEF TypeOK
  <1>2. syncs[s].at \in 1 .. Len(syncs[s].files)  BY DEF InList
  <1> QED  BY <1>1, <1>2, SyncFields DEF FileOf

\* Advanced moves on by one file, or to the end.
LEMMA AdvancedFields ==
  ASSUME NEW sync \in Sync, sync.at \in 1 .. Len(sync.files)
  PROVE  /\ Advanced(sync) \in Sync
         /\ Advanced(sync).at = sync.at + 1 /\ Advanced(sync).id = 0
         /\ Advanced(sync).files = sync.files /\ Advanced(sync).hit = sync.hit
         /\ Advanced(sync).place \in {"closing", "checking"}
         /\ Advanced(sync).place = "closing" => sync.at = Len(sync.files)
         /\ Advanced(sync).place = "checking" => sync.at # Len(sync.files)
  <1> DEFINE new == [sync EXCEPT !.at = sync.at + 1, !.id = 0,
                       !.place = IF sync.at = Len(sync.files) THEN "closing" ELSE "checking"]
  <1>0. /\ sync.at + 1 \in Nat /\ 0 \in Ids \cup {0}
        /\ (IF sync.at = Len(sync.files) THEN "closing" ELSE "checking") \in {"closing", "checking"}
    BY SyncFields
  <1>1. new \in Sync  BY <1>0 DEF Sync
  <1>2. /\ new.at = sync.at + 1 /\ new.id = 0 /\ new.files = sync.files /\ new.hit = sync.hit
        /\ new.place = IF sync.at = Len(sync.files) THEN "closing" ELSE "checking"
    BY DEF Sync
  <1>3. Advanced(sync) = new  BY DEF Advanced
  <1> QED  BY <1>1, <1>2, <1>3

\* FailedWith does, too, and remembers the file.
LEMMA FailedFields ==
  ASSUME NEW sync \in Sync, sync.at \in 1 .. Len(sync.files), NEW f \in Files
  PROVE  /\ FailedWith(sync, f) \in Sync
         /\ FailedWith(sync, f).at = sync.at + 1 /\ FailedWith(sync, f).id = 0
         /\ FailedWith(sync, f).files = sync.files
         /\ FailedWith(sync, f).hit = sync.hit \cup {f}
         /\ FailedWith(sync, f).place \in {"closing", "checking"}
         /\ FailedWith(sync, f).place = "closing" => sync.at = Len(sync.files)
         /\ FailedWith(sync, f).place = "checking" => sync.at # Len(sync.files)
  <1> DEFINE new == [sync EXCEPT !.hit = sync.hit \cup {f}]
  <1>1. /\ new \in Sync
        /\ new.at = sync.at /\ new.files = sync.files /\ new.hit = sync.hit \cup {f}
    BY DEF Sync
  <1>2. FailedWith(sync, f) = Advanced(new)  BY DEF FailedWith
  <1> HIDE DEF new
  <1> QED  BY <1>1, <1>2, AdvancedFields

\* The database's error poisons the session as well.
LEMMA PoisonedFields ==
  ASSUME NEW sync \in Sync, sync.at \in 1 .. Len(sync.files)
  PROVE  LET new == [sync EXCEPT !.poisoned = TRUE] IN
         new \in Sync /\ new.at = sync.at /\ new.files = sync.files /\ new.hit = sync.hit
  BY DEF Sync

-----------------------------------------------------------------------------
(* What a step does to the syncs. *)

\* One sync moves, and the others stay.
Only(s, new) == syncs' = [syncs EXCEPT ![s] = new]

\* It begins with the first of its files.
Begins(s) ==
  \E new \in Sync :
    /\ Only(s, new)
    /\ syncs[s].place = "idle" /\ new.place = "checking" /\ new.at = 1 /\ new.hit = syncs[s].hit
    /\ 1 <= Len(new.files)
    /\ UNCHANGED <<docs, ever, raced>>

\* It goes on with the same file, which it knows to be new.
Works(s) ==
  \E new \in Sync :
    /\ Only(s, new)
    /\ AtFile(s)
    /\ new.place \in {"fetching", "holding", "saved"}
    /\ syncs[s].place = "checking" => IsNew(s)
    /\ new.at = syncs[s].at /\ new.files = syncs[s].files /\ new.hit = syncs[s].hit
    /\ new.place = "saved" => syncs[s].place = "holding"
    /\ UNCHANGED <<docs, ever, raced>>

\* It is done with the file, which it has met an error with or of which there is, and
\* can be, nothing more to make.
Leaves(s) ==
  \E new \in Sync :
    /\ Only(s, new)
    /\ AtFile(s)
    /\ new.at = syncs[s].at + 1 /\ new.files = syncs[s].files
    /\ new.place \in {"closing", "checking"}
    /\ new.place = "closing" => syncs[s].at = Len(syncs[s].files)
    /\ new.place = "checking" => syncs[s].at # Len(syncs[s].files)
    /\ \/ new.hit = syncs[s].hit \cup {FileOf(s)} /\ UNCHANGED <<docs, ever, raced>>
       \/ new.hit = syncs[s].hit /\ FileOf(s) \in Unfit /\ UNCHANGED <<docs, ever, raced>>
       \/ new.hit = syncs[s].hit /\ ~IsNew(s) /\ UNCHANGED <<docs, ever, raced>>
       \/ /\ new.hit = syncs[s].hit
          /\ syncs[s].place = "saved"
          /\ docs' = docs \cup {[id |-> syncs[s].id, from |-> FileOf(s)]}
          /\ ever' = ever \cup {FileOf(s)}
          /\ raced' = raced \cup IF Races(s) THEN {FileOf(s)} ELSE {}

\* It ends.
Ends(s) ==
  \E new \in Sync :
    /\ Only(s, new)
    /\ Running(s)
    /\ new.place \in {"completed", "failed"}
    /\ new.place = "completed" => syncs[s].place = "closing"
    /\ new.at = syncs[s].at /\ new.files = syncs[s].files /\ new.hit = syncs[s].hit
    /\ UNCHANGED <<docs, ever, raced>>

\* The requests that find a list of files begin with it.
LEMMA BeginKind ==
  ASSUME TypeOK, NEW s \in Syncs, NEW g \in Cards, BeginSync(s, g)
  PROVE  Begins(s)
  <1>1. PICK files \in Requests :
          syncs' = [syncs EXCEPT ![s].place = "checking", ![s].card = g,
                                 ![s].files = files, ![s].at = 1]
    BY DEF BeginSync
  <1> DEFINE new == [syncs[s] EXCEPT !.place = "checking", !.card = g, !.files = files, !.at = 1]
  <1>2. PICK k \in 1 .. MaxFiles : files \in [1 .. k -> Files]  BY DEF Requests
  <1>3. files \in Seq(Files) /\ Len(files) = k /\ DOMAIN files = 1 .. Len(files)  BY <1>2
  <1>4. syncs[s] \in Sync  BY DEF TypeOK
  <1>5. /\ new \in Sync /\ new.place = "checking" /\ new.at = 1 /\ new.files = files
        /\ new.hit = syncs[s].hit
    BY <1>3, <1>4 DEF Sync
  <1>6. Only(s, new)  BY <1>1 DEF Only, TypeOK
  <1>7. 1 <= Len(new.files)  BY <1>2, <1>3, <1>5
  <1>8. UNCHANGED <<docs, ever, raced>> /\ syncs[s].place = "idle"  BY DEF BeginSync, uploadVars
  <1> HIDE DEF new
  <1> QED  BY <1>5, <1>6, <1>7, <1>8 DEF Begins

\* The search for the file: it is new, it is there, or the session is broken.
LEMMA CheckKind ==
  ASSUME TypeOK, InList, NEW s \in Syncs, Check(s)
  PROVE  Works(s) \/ Leaves(s)
  <1>1. syncs[s] \in Sync /\ AtFile(s) /\ syncs[s].place = "checking" /\ UNCHANGED <<docs, ever, raced>>
    BY DEF TypeOK, Check, AtFile, uploadVars
  <1>2. FileOf(s) \in Files /\ syncs[s].at \in 1 .. Len(syncs[s].files)  BY <1>1, AtAFile
  <1>3. CASE syncs[s].poisoned
    <2>1. Only(s, FailedWith(syncs[s], FileOf(s)))  BY <1>3 DEF Check, Only
    <2> QED  BY <1>1, <1>2, <2>1, FailedFields DEF Leaves
  <1>4. CASE ~syncs[s].poisoned /\ IsNew(s)
    <2> DEFINE new == [syncs[s] EXCEPT !.place = "fetching"]
    <2>1. Only(s, new)  BY <1>4 DEF Check, Only
    <2>2. /\ new \in Sync /\ new.place = "fetching" /\ new.at = syncs[s].at
          /\ new.files = syncs[s].files /\ new.hit = syncs[s].hit
      BY <1>1 DEF Sync
    <2> HIDE DEF new
    <2> QED  BY <1>1, <1>4, <2>1, <2>2 DEF Works
  <1>5. CASE ~syncs[s].poisoned /\ ~IsNew(s)
    <2>1. Only(s, Advanced(syncs[s]))  BY <1>5 DEF Check, Only
    <2> QED  BY <1>1, <1>2, <1>5, <2>1, AdvancedFields DEF Leaves
  <1> QED  BY <1>3, <1>4, <1>5

\* The file is skipped, or its content is there.
LEMMA FetchKind ==
  ASSUME TypeOK, InList, NEW s \in Syncs, Fetch(s)
  PROVE  Works(s) \/ Leaves(s)
  <1>1. syncs[s] \in Sync /\ AtFile(s) /\ syncs[s].place = "fetching" /\ UNCHANGED <<docs, ever, raced>>
    BY DEF TypeOK, Fetch, AtFile, uploadVars
  <1>2. FileOf(s) \in Files /\ syncs[s].at \in 1 .. Len(syncs[s].files)  BY <1>1, AtAFile
  <1>3. CASE FileOf(s) \in Unfit
    <2>1. Only(s, Advanced(syncs[s]))  BY <1>3 DEF Fetch, Only
    <2> QED  BY <1>1, <1>2, <1>3, <2>1, AdvancedFields DEF Leaves
  <1>4. CASE FileOf(s) \notin Unfit
    <2> DEFINE new == [syncs[s] EXCEPT !.place = "holding"]
    <2>1. Only(s, new)  BY <1>4 DEF Fetch, Only
    <2>2. /\ new \in Sync /\ new.place = "holding" /\ new.at = syncs[s].at
          /\ new.files = syncs[s].files /\ new.hit = syncs[s].hit
      BY <1>1 DEF Sync
    <2> HIDE DEF new
    <2> QED  BY <1>1, <2>1, <2>2 DEF Works
  <1> QED  BY <1>3, <1>4

\* The content is stored below a new id.
LEMMA SaveKind ==
  ASSUME TypeOK, InList, NEW s \in Syncs, SaveFile(s)
  PROVE  Works(s)
  <1>1. syncs[s] \in Sync /\ AtFile(s) /\ syncs[s].place = "holding" /\ UNCHANGED <<docs, ever, raced>>
    BY DEF TypeOK, SaveFile, AtFile
  <1>2. PICK n \in Ids : /\ Draw(n) /\ Saved(n, Whole)
                         /\ syncs' = [syncs EXCEPT ![s].place = "saved", ![s].id = n]
    BY DEF SaveFile
  <1> DEFINE new == [syncs[s] EXCEPT !.place = "saved", !.id = n]
  <1>3. Only(s, new)  BY <1>2 DEF Only, TypeOK
  <1>4. /\ new \in Sync /\ new.place = "saved" /\ new.at = syncs[s].at /\ new.id = n
        /\ new.files = syncs[s].files /\ new.hit = syncs[s].hit
    BY <1>1 DEF Sync
  <1> HIDE DEF new
  <1> QED  BY <1>1, <1>3, <1>4 DEF Works

\* The row is committed.
LEMMA CommitKind ==
  ASSUME TypeOK, InList, NEW s \in Syncs, CommitFile(s)
  PROVE  Leaves(s)
  <1>1. syncs[s] \in Sync /\ AtFile(s) /\ syncs[s].place = "saved"
    BY DEF TypeOK, CommitFile, AtFile
  <1>2. FileOf(s) \in Files /\ syncs[s].at \in 1 .. Len(syncs[s].files)  BY <1>1, AtAFile
  <1>3. Only(s, Advanced(syncs[s]))  BY DEF CommitFile, Only
  <1>4. /\ docs' = docs \cup {[id |-> syncs[s].id, from |-> FileOf(s)]}
        /\ ever' = ever \cup {FileOf(s)}
        /\ raced' = raced \cup IF Races(s) THEN {FileOf(s)} ELSE {}
    BY DEF CommitFile, Queued
  <1> QED  BY <1>1, <1>2, <1>3, <1>4, AdvancedFields DEF Leaves

\* Google, the store or the database fails.
LEMMA FailKind ==
  ASSUME TypeOK, InList, NEW s \in Syncs, FileFails(s)
  PROVE  Leaves(s)
  <1>1. syncs[s] \in Sync /\ AtFile(s) /\ UNCHANGED <<docs, ever, raced>>
    BY DEF TypeOK, FileFails, AtFile, uploadVars
  <1>2. FileOf(s) \in Files /\ syncs[s].at \in 1 .. Len(syncs[s].files)  BY <1>1, AtAFile
  <1>3. CASE Only(s, FailedWith(syncs[s], FileOf(s)))
    BY <1>1, <1>2, <1>3, FailedFields DEF Leaves
  <1>4. CASE Only(s, FailedWith([syncs[s] EXCEPT !.poisoned = TRUE], FileOf(s)))
    <2> DEFINE hurt == [syncs[s] EXCEPT !.poisoned = TRUE]
    <2>1. /\ hurt \in Sync /\ hurt.at = syncs[s].at /\ hurt.files = syncs[s].files
          /\ hurt.hit = syncs[s].hit
      BY <1>1, <1>2, PoisonedFields
    <2>2. Only(s, FailedWith(hurt, FileOf(s)))  BY <1>4
    <2> HIDE DEF hurt
    <2> QED  BY <1>1, <1>2, <2>1, <2>2, FailedFields DEF Leaves
  <1> QED  BY <1>3, <1>4 DEF FileFails, Only

\* The place alone changes.
LEMMA PlaceFields ==
  ASSUME TypeOK, NEW s \in Syncs, NEW place \in {"completed", "failed"}, ToSync(s, place)
  PROVE  \E new \in Sync :
           /\ Only(s, new) /\ new.place = place
           /\ new.at = syncs[s].at /\ new.files = syncs[s].files /\ new.hit = syncs[s].hit
  <1> DEFINE new == [syncs[s] EXCEPT !.place = place]
  <1>1. syncs[s] \in Sync  BY DEF TypeOK
  <1>2. /\ new \in Sync /\ new.place = place
        /\ new.at = syncs[s].at /\ new.files = syncs[s].files /\ new.hit = syncs[s].hit
    BY <1>1 DEF Sync
  <1>3. Only(s, new)  BY DEF ToSync, Only
  <1> HIDE DEF new
  <1> QED  BY <1>2, <1>3

\* A sync closes, or dies.
LEMMA EndKind ==
  ASSUME TypeOK, NEW s \in Syncs, Close(s) \/ SyncDies(s)
  PROVE  Ends(s)
  <1>1. UNCHANGED <<docs, ever, raced>>  BY DEF Close, SyncDies, uploadVars
  <1>2. CASE ToSync(s, "completed") /\ syncs[s].place = "closing"
    <2>1. Running(s)  BY <1>2 DEF Running
    <2> QED  BY <1>1, <1>2, <2>1, PlaceFields DEF Ends
  <1>3. CASE ToSync(s, "failed") /\ Running(s)
    BY <1>1, <1>3, PlaceFields DEF Ends
  <1> QED  BY <1>2, <1>3 DEF Close, SyncDies, Running

\* The syncs that a step may move.
LEMMA SyncKinds ==
  ASSUME TypeOK, InList, Next
  PROVE  \/ UNCHANGED <<syncs, ever, raced>>
         \/ \E s \in Syncs : Begins(s) \/ Works(s) \/ Leaves(s) \/ Ends(s)
  <1>1. ASSUME NEW s \in Syncs, NEW g \in Cards, BeginSync(s, g)
        PROVE  Begins(s)
    BY <1>1, BeginKind
  <1>2. ASSUME NEW s \in Syncs, Check(s) \/ Fetch(s) \/ SaveFile(s) \/ CommitFile(s)
                                  \/ FileFails(s) \/ Close(s) \/ SyncDies(s)
        PROVE  Works(s) \/ Leaves(s) \/ Ends(s)
    BY <1>2, CheckKind, FetchKind, SaveKind, CommitKind, FailKind, EndKind
  <1>3. CASE UploadsNext /\ UNCHANGED connVars
    BY <1>3 DEF connVars
  <1>4. ASSUME NEW v \in Visits, Visit(v) \/ \E g \in Cards : Seed(v, g)
        PROVE  UNCHANGED <<syncs, ever, raced>>
    BY <1>4 DEF Visit, Seed
  <1>5. ASSUME NEW f \in Flows, \/ \E g \in Cards : StartOAuth(f, g)
                                \/ Callback(f) \/ Exchange(f) \/ StoreTokens(f) \/ FlowFails(f)
        PROVE  UNCHANGED <<syncs, ever, raced>>
    BY <1>5 DEF StartOAuth, Callback, Exchange, StoreTokens, FlowFails
  <1>6. ASSUME NEW g \in Cards, Disconnect(g)
        PROVE  UNCHANGED <<syncs, ever, raced>>
    BY <1>6 DEF Disconnect
  <1> QED  BY <1>1, <1>2, <1>3, <1>4, <1>5, <1>6 DEF Next

-----------------------------------------------------------------------------
(* What a step does to ids, objects and rows. *)

\* The documents' ids and what is stored for them stay, or rows go; what is open stays
\* open with its id, or is closed.
Keeps ==
  /\ drawn' = drawn /\ objects' = objects /\ docs' \subseteq docs
  /\ \A q \in Pushes : pushes'[q] = pushes[q] \/ pushes'[q].place = "failed"
  /\ \A s \in Syncs : syncs'[s].place = "saved" => syncs'[s] = syncs[s]

\* A request is given the next id.
Draws(q) ==
  /\ drawn' = drawn + 1 /\ drawn' \in Ids
  /\ UNCHANGED <<objects, docs, syncs>>
  /\ pushes'[q].place = "received" /\ pushes'[q].id = drawn'
  /\ \A p \in Pushes : p # q => pushes'[p] = pushes[p]

\* It stores something below it: all of its content, or it has failed.
Stores(q) ==
  /\ UNCHANGED <<drawn, docs, syncs>>
  /\ pushes[q].place = "received"
  /\ pushes'[q].id = pushes[q].id
  /\ \/ /\ pushes'[q].place = "stored"
        /\ objects' = [objects EXCEPT ![pushes[q].id] = {[parts |-> AllParts, heavy |-> pushes'[q].heavy]}]
     \/ /\ pushes'[q].place = "failed"
        /\ \E content : objects' = [objects EXCEPT ![pushes[q].id] = content]
  /\ \A p \in Pushes : p # q => pushes'[p] = pushes[p]

\* It commits its row.
Commits(q) ==
  /\ UNCHANGED <<drawn, objects, syncs>>
  /\ pushes[q].place = "stored" /\ ~pushes[q].heavy
  /\ \E from \in Sources \cup {Pasted} : docs' = docs \cup {[id |-> pushes[q].id, from |-> from]}
  /\ pushes'[q].place = "done"
  /\ \A p \in Pushes : p # q => pushes'[p] = pushes[p]

\* A sync stores a file below the next id.
Saves(s) ==
  /\ drawn' = drawn + 1 /\ drawn' \in Ids
  /\ UNCHANGED <<docs, pushes>>
  /\ objects' = [objects EXCEPT ![drawn'] = {Whole}]
  /\ syncs'[s].place = "saved" /\ syncs'[s].id = drawn'
  /\ \A t \in Syncs : t # s => syncs'[t] = syncs[t]

\* It commits the row of a file.
Rows(s) ==
  /\ UNCHANGED <<drawn, objects, pushes>>
  /\ syncs[s].place = "saved" /\ syncs'[s].place # "saved"
  /\ FileOf(s) \in Files
  /\ docs' = docs \cup {[id |-> syncs[s].id, from |-> FileOf(s)]}
  /\ \A t \in Syncs : t # s => syncs'[t] = syncs[t]

\* The fields of the record of a request.
LEMMA PushFields ==
  ASSUME NEW push \in Push
  PROVE  /\ push.place \in {"idle", "received", "stored", "done", "failed"}
         /\ push.from \in Sources \cup {Pasted} /\ push.heavy \in BOOLEAN /\ push.id \in Ids \cup {0}
         /\ [push EXCEPT !.place = "stored"] \in Push
         /\ [push EXCEPT !.place = "done"] \in Push
         /\ [push EXCEPT !.place = "failed"] \in Push
  BY DEF Push

\* ToPush changes the place of one request.
LEMMA ToPushFields ==
  ASSUME TypeOK, NEW q \in Pushes, NEW place \in {"stored", "done", "failed"}, ToPush(q, place)
  PROVE  /\ pushes' \in [Pushes -> Push]
         /\ pushes'[q].place = place /\ pushes'[q].id = pushes[q].id
         /\ pushes'[q].from = pushes[q].from /\ pushes'[q].heavy = pushes[q].heavy
         /\ \A p \in Pushes : p # q => pushes'[p] = pushes[p]
  <1> DEFINE new == [pushes[q] EXCEPT !.place = place]
  <1>1. pushes[q] \in Push /\ pushes \in [Pushes -> Push]  BY DEF TypeOK
  <1>2. new \in Push  BY <1>1, PushFields
  <1>3. /\ new.place = place /\ new.id = pushes[q].id /\ new.from = pushes[q].from
        /\ new.heavy = pushes[q].heavy
    BY <1>1 DEF Push
  <1>4. pushes' = [pushes EXCEPT ![q] = new]  BY DEF ToPush
  <1> HIDE DEF new
  <1> QED  BY <1>1, <1>2, <1>3, <1>4

\* Receive names all the fields.
LEMMA ReceiveKind ==
  ASSUME TypeOK, NEW q \in Pushes, Receive(q), UNCHANGED connVars
  PROVE  /\ Draws(q)
         /\ pushes' \in [Pushes -> Push] /\ drawn' \in 0 .. MaxIds
         /\ parts' \in [Sources -> SUBSET AllParts]
         /\ UNCHANGED <<objects, docs>>
  <1>1. PICK n \in Ids, from \in Sources \cup {Pasted}, heavy \in BOOLEAN :
          /\ from \in Sources => heavy = (from \in Heavy)
          /\ Draw(n)
          /\ pushes' = [pushes EXCEPT ![q] =
                          [place |-> "received", from |-> from, heavy |-> heavy, id |-> n]]
          /\ parts' = IF from = Pasted THEN parts ELSE [parts EXCEPT ![from] = @ \cup {Parts}]
    BY DEF Receive
  <1> DEFINE new == [place |-> "received", from |-> from, heavy |-> heavy, id |-> n]
  <1>2. new \in Push /\ new.place = "received" /\ new.id = n  BY DEF Push
  <1>3. n = drawn' /\ drawn' = drawn + 1 /\ drawn' \in Ids /\ drawn' \in 0 .. MaxIds
    BY <1>1 DEF Draw, TypeOK, Ids
  <1>4. pushes \in [Pushes -> Push] /\ pushes' = [pushes EXCEPT ![q] = new]  BY <1>1 DEF TypeOK
  <1>5. UNCHANGED <<objects, docs>>  BY DEF Receive
  <1>6. Parts \in AllParts  BY DEF AllParts
  <1>7. parts' \in [Sources -> SUBSET AllParts]
    <2>1. CASE from = Pasted  BY <1>1, <2>1 DEF TypeOK
    <2>2. CASE from # Pasted
      <3>1. parts' = [parts EXCEPT ![from] = parts[from] \cup {Parts}] /\ from \in Sources
        BY <1>1, <2>2
      <3> QED  BY <1>6, <3>1 DEF TypeOK
    <2> QED  BY <2>1, <2>2
  <1> HIDE DEF new
  <1> QED  BY <1>2, <1>3, <1>4, <1>5, <1>7 DEF Draws, connVars

\* What Assemble, StoreBody and BreakOff store.
LEMMA StoreKind ==
  ASSUME TypeOK, Numbered, NEW q \in Pushes, Assemble(q) \/ StoreBody(q) \/ BreakOff(q), UNCHANGED connVars
  PROVE  /\ Stores(q)
         /\ pushes' \in [Pushes -> Push] /\ objects' \in [Ids -> SUBSET Content]
         /\ UNCHANGED <<parts, docs, drawn>>
  <1> DEFINE id == pushes[q].id
  <1>1. /\ id \in Ids /\ pushes[q].heavy \in BOOLEAN /\ pushes[q].place = "received"
        /\ UNCHANGED <<parts, docs, drawn>>
    <2>1. /\ pushes[q].place = "received" /\ pushes[q] \in Push /\ drawn \in 0 .. MaxIds
          /\ UNCHANGED <<parts, docs, drawn>>
      BY DEF TypeOK, Assemble, StoreBody, BreakOff
    <2>2. id \in 1 .. drawn  BY <2>1 DEF Numbered, Open
    <2>3. id \in Ids  BY <2>1, <2>2 DEF Ids
    <2>4. pushes[q].heavy \in BOOLEAN  BY <2>1, PushFields
    <2> QED  BY <2>1, <2>3, <2>4
  <1>2. CASE Assemble(q) \/ StoreBody(q)
    <2> DEFINE content == [parts |-> AllParts, heavy |-> pushes[q].heavy]
    <2>1. Saved(id, content) /\ ToPush(q, "stored")
      <3>1. [Whole EXCEPT !.heavy = pushes[q].heavy] = content  BY DEF Whole
      <3> QED  BY <1>2, <3>1 DEF Assemble, StoreBody
    <2>2. content \in Content  BY <1>1 DEF Content
    <2>3. objects' = [objects EXCEPT ![id] = {content}]  BY <2>1 DEF Saved
    <2>4. objects' \in [Ids -> SUBSET Content]  BY <1>1, <2>2, <2>3 DEF TypeOK
    <2>5. /\ pushes' \in [Pushes -> Push] /\ pushes'[q].place = "stored" /\ pushes'[q].id = id
          /\ pushes'[q].heavy = pushes[q].heavy
          /\ \A p \in Pushes : p # q => pushes'[p] = pushes[p]
      BY <2>1, ToPushFields
    <2> QED  BY <1>1, <2>3, <2>4, <2>5 DEF Stores, connVars
  <1>3. CASE BreakOff(q)
    <2>1. PICK n \in AllParts : Saved(id, [parts |-> 1 .. n - 1, heavy |-> pushes[q].heavy])
      BY <1>3 DEF BreakOff
    <2> DEFINE content == [parts |-> 1 .. n - 1, heavy |-> pushes[q].heavy]
    <2>2. content \in Content
      <3>1. 1 .. n - 1 \in SUBSET AllParts  BY DEF AllParts
      <3> QED  BY <1>1, <3>1 DEF Content
    <2>3. objects' = [objects EXCEPT ![id] = {content}]  BY <2>1 DEF Saved
    <2>4. objects' \in [Ids -> SUBSET Content]  BY <1>1, <2>2, <2>3 DEF TypeOK
    <2>5. /\ pushes' \in [Pushes -> Push] /\ pushes'[q].place = "failed" /\ pushes'[q].id = id
          /\ \A p \in Pushes : p # q => pushes'[p] = pushes[p]
      BY <1>3, ToPushFields DEF BreakOff
    <2> HIDE DEF content
    <2> QED  BY <1>1, <2>3, <2>4, <2>5 DEF Stores, connVars
  <1> QED  BY <1>2, <1>3

\* What CommitPush commits.
LEMMA CommitPushKind ==
  ASSUME TypeOK, NEW q \in Pushes, CommitPush(q), UNCHANGED connVars
  PROVE  /\ Commits(q)
         /\ pushes' \in [Pushes -> Push]
         /\ pushes[q].place = "stored"
         /\ UNCHANGED <<parts, objects, drawn>>
         /\ docs' = docs \cup {[id |-> pushes[q].id, from |-> pushes[q].from]}
         /\ pushes[q].from \in Sources \cup {Pasted}
  <1>1. /\ pushes[q].place = "stored" /\ ~pushes[q].heavy
        /\ UNCHANGED <<parts, objects, drawn>>
        /\ docs' = docs \cup {[id |-> pushes[q].id, from |-> pushes[q].from]}
        /\ ToPush(q, "done")
    BY DEF CommitPush, Queued
  <1>2. pushes[q].from \in Sources \cup {Pasted}  BY PushFields DEF TypeOK
  <1>3. /\ pushes' \in [Pushes -> Push] /\ pushes'[q].place = "done"
        /\ \A p \in Pushes : p # q => pushes'[p] = pushes[p]
    BY <1>1, ToPushFields
  <1> QED  BY <1>1, <1>2, <1>3 DEF Commits, connVars

\* A sync's row and the next file.
LEMMA RowsKind ==
  ASSUME TypeOK, InList, NEW s \in Syncs, CommitFile(s)
  PROVE  Rows(s)
  <1>1. syncs[s] \in Sync /\ syncs \in [Syncs -> Sync] /\ AtFile(s) /\ syncs[s].place = "saved"
    BY DEF TypeOK, CommitFile, AtFile
  <1>2. FileOf(s) \in Files /\ syncs[s].at \in 1 .. Len(syncs[s].files)  BY <1>1, AtAFile
  <1>3. /\ Advanced(syncs[s]) \in Sync
        /\ Advanced(syncs[s]).place \in {"closing", "checking"}
    BY <1>1, <1>2, AdvancedFields
  <1>4. syncs' = [syncs EXCEPT ![s] = Advanced(syncs[s])]  BY DEF CommitFile
  <1>5. UNCHANGED <<drawn, objects, pushes>>
        /\ docs' = docs \cup {[id |-> syncs[s].id, from |-> FileOf(s)]}
    BY DEF CommitFile, Queued
  <1> QED  BY <1>1, <1>2, <1>3, <1>4, <1>5 DEF Rows

\* A sync's file and the next id.
LEMMA SavesKind ==
  ASSUME TypeOK, NEW s \in Syncs, SaveFile(s)
  PROVE  Saves(s)
  <1>1. PICK n \in Ids : /\ Draw(n) /\ Saved(n, Whole)
                         /\ syncs' = [syncs EXCEPT ![s].place = "saved", ![s].id = n]
    BY DEF SaveFile
  <1> DEFINE new == [syncs[s] EXCEPT !.place = "saved", !.id = n]
  <1>2. syncs[s] \in Sync /\ syncs \in [Syncs -> Sync]  BY DEF TypeOK
  <1>3. new.place = "saved" /\ new.id = n  BY <1>2 DEF Sync
  <1>4. syncs' = [syncs EXCEPT ![s] = new]  BY <1>1
  <1>5. n = drawn' /\ drawn' = drawn + 1 /\ drawn' \in Ids /\ objects' = [objects EXCEPT ![n] = {Whole}]
    BY <1>1 DEF Draw, Saved
  <1>6. UNCHANGED <<docs, pushes>>  BY DEF SaveFile
  <1> HIDE DEF new
  <1> QED  BY <1>2, <1>3, <1>4, <1>5, <1>6 DEF Saves

\* The steps of a sync that touch nothing stored.
LEMMA SyncKeeps ==
  ASSUME TypeOK, InList, NEW s \in Syncs,
         \/ \E g \in Cards : BeginSync(s, g)
         \/ Check(s) \/ Fetch(s) \/ FileFails(s) \/ Close(s) \/ SyncDies(s)
  PROVE  Keeps
  <1>1. UNCHANGED uploadVars
    BY DEF BeginSync, Check, Fetch, FileFails, Close, SyncDies
  <1>2. \E new \in Sync : Only(s, new) /\ new.place # "saved"
    <2>1. CASE Begins(s) \/ Leaves(s) \/ Ends(s)  BY <2>1 DEF Begins, Leaves, Ends
    <2>2. CASE Works(s) /\ syncs[s].place # "holding"  BY <2>2 DEF Works
    <2>3. (Check(s) \/ Fetch(s)) => syncs[s].place # "holding"  BY DEF Check, Fetch
    <2> QED  BY <2>1, <2>2, <2>3, BeginKind, CheckKind, FetchKind, FailKind, EndKind
  <1>3. PICK new \in Sync : Only(s, new) /\ new.place # "saved"  BY <1>2
  <1>4. \A t \in Syncs : syncs'[t] = IF t = s THEN new ELSE syncs[t]  BY <1>3 DEF Only, TypeOK
  <1> QED  BY <1>1, <1>3, <1>4 DEF Keeps, uploadVars

\* What a step does to ids, objects and rows.
LEMMA StoreKinds ==
  ASSUME TypeOK, Numbered, InList, Next
  PROVE  \/ Keeps
         \/ \E q \in Pushes : Draws(q) \/ Stores(q) \/ Commits(q)
         \/ \E s \in Syncs : Saves(s) \/ Rows(s)
  <1>1. CASE UploadsNext /\ UNCHANGED connVars
    <2>1. ASSUME NEW u \in Sources, NEW n \in AllParts, SavePart(u, n)
          PROVE  Keeps
      BY <1>1, <2>1 DEF SavePart, Keeps, connVars
    <2>2. ASSUME NEW q \in Pushes, Receive(q) \/ Assemble(q) \/ BreakOff(q) \/ StoreBody(q) \/ CommitPush(q)
          PROVE  Draws(q) \/ Stores(q) \/ Commits(q)
      BY <1>1, <2>2, ReceiveKind, StoreKind, CommitPushKind
    <2>3. ASSUME NEW q \in Pushes, PushFails(q)
          PROVE  Keeps
      <3>1. ToPush(q, "failed")  BY <2>3 DEF PushFails
      <3>2. \A p \in Pushes : pushes'[p] = pushes[p] \/ pushes'[p].place = "failed"
        BY <3>1, ToPushFields
      <3> QED  BY <1>1, <2>3, <3>2 DEF PushFails, Keeps, connVars
    <2>4. ASSUME NEW d \in docs, DeleteDocument(d)
          PROVE  Keeps
      BY <1>1, <2>4 DEF DeleteDocument, Keeps, connVars
    <2> QED  BY <1>1, <2>1, <2>2, <2>3, <2>4 DEF UploadsNext
  <1>2. CASE UNCHANGED uploadVars /\ UNCHANGED syncs
    BY <1>2 DEF Keeps, uploadVars
  <1>3. ASSUME NEW v \in Visits, Visit(v) \/ \E g \in Cards : Seed(v, g)
        PROVE  UNCHANGED uploadVars /\ UNCHANGED syncs
    BY <1>3 DEF Visit, Seed
  <1>4. ASSUME NEW f \in Flows, \/ \E g \in Cards : StartOAuth(f, g)
                                \/ Callback(f) \/ Exchange(f) \/ StoreTokens(f) \/ FlowFails(f)
        PROVE  UNCHANGED uploadVars /\ UNCHANGED syncs
    BY <1>4 DEF StartOAuth, Callback, Exchange, StoreTokens, FlowFails
  <1>5. ASSUME NEW g \in Cards, Disconnect(g)
        PROVE  UNCHANGED uploadVars /\ UNCHANGED syncs
    BY <1>5 DEF Disconnect
  <1>6. ASSUME NEW s \in Syncs, \/ \E g \in Cards : BeginSync(s, g)
                                \/ Check(s) \/ Fetch(s) \/ FileFails(s) \/ Close(s) \/ SyncDies(s)
        PROVE  Keeps
    BY <1>6, SyncKeeps
  <1>7. ASSUME NEW s \in Syncs, SaveFile(s) \/ CommitFile(s)
        PROVE  Saves(s) \/ Rows(s)
    BY <1>7, SavesKind, RowsKind
  <1> QED  BY <1>1, <1>2, <1>3, <1>4, <1>5, <1>6, <1>7 DEF Next

-----------------------------------------------------------------------------
(* The parts of the invariant, one by one. *)

\* The ids in use stay below the counter.
LEMMA NumberedKept ==
  ASSUME TypeOK, Numbered, InList, Next
  PROVE  Numbered'
  <1>0. drawn \in Nat  BY DEF TypeOK
  <1>1. CASE Keeps  BY <1>1 DEF Keeps, Numbered, Open
  <1>2. ASSUME NEW q \in Pushes, Draws(q)  PROVE Numbered'
    BY <1>0, <1>2 DEF Draws, Numbered, Open
  <1>3. ASSUME NEW q \in Pushes, Stores(q)  PROVE Numbered'
    BY <1>0, <1>3 DEF Stores, Numbered, Open
  <1>4. ASSUME NEW q \in Pushes, Commits(q)  PROVE Numbered'
    BY <1>0, <1>4 DEF Commits, Numbered, Open
  <1>5. ASSUME NEW s \in Syncs, Saves(s)  PROVE Numbered'
    BY <1>0, <1>5 DEF Saves, Numbered, Open
  <1>6. ASSUME NEW s \in Syncs, Rows(s)  PROVE Numbered'
    BY <1>0, <1>6 DEF Rows, Numbered, Open
  <1> QED  BY <1>1, <1>2, <1>3, <1>4, <1>5, <1>6, StoreKinds

\* A sync stays in its list.
LEMMA InListKept ==
  ASSUME TypeOK, InList, Next
  PROVE  InList'
  <1>1. CASE UNCHANGED syncs  BY <1>1 DEF InList, AtFile
  <1>2. ASSUME NEW s \in Syncs, Begins(s) \/ Works(s) \/ Leaves(s) \/ Ends(s)
        PROVE  InList'
    <2>1. PICK new \in Sync :
            /\ Only(s, new)
            /\ new.at \in 0 .. Len(new.files) + 1
            /\ new.place \in {"checking", "fetching", "holding", "saved"} => new.at \in 1 .. Len(new.files)
            /\ new.place \in {"closing", "completed"} => new.at = Len(new.files) + 1
      <3>0. syncs[s] \in Sync  BY DEF TypeOK
      <3>1. CASE Begins(s)
        <4>1. PICK new \in Sync : /\ Only(s, new) /\ new.place = "checking" /\ new.at = 1
                                  /\ 1 <= Len(new.files)
          BY <3>1 DEF Begins
        <4> QED  BY <4>1, SyncFields
      <3>2. CASE Works(s)
        <4>1. syncs[s].at \in 1 .. Len(syncs[s].files) /\ Len(syncs[s].files) \in Nat
          BY <3>0, <3>2, SyncFields DEF Works, InList
        <4> QED  BY <3>2, <4>1 DEF Works
      <3>3. CASE Leaves(s)
        <4>1. syncs[s].at \in 1 .. Len(syncs[s].files) /\ Len(syncs[s].files) \in Nat
          BY <3>0, <3>3, SyncFields DEF Leaves, InList
        <4> QED  BY <3>3, <4>1, SMTT(30) DEF Leaves
      <3>4. CASE Ends(s)
        <4>1. /\ syncs[s].at \in 0 .. Len(syncs[s].files) + 1
              /\ syncs[s].place = "closing" => syncs[s].at = Len(syncs[s].files) + 1
          BY DEF InList
        <4> QED  BY <3>4, <4>1 DEF Ends
      <3> QED  BY <1>2, <3>1, <3>2, <3>3, <3>4
    <2>2. \A t \in Syncs : syncs'[t] = IF t = s THEN new ELSE syncs[t]  BY <2>1 DEF Only, TypeOK
    <2> QED  BY <2>1, <2>2 DEF InList, AtFile
  <1> QED  BY <1>1, <1>2, SyncKinds

\* The uploads' side of the types.
UploadTypes ==
  /\ parts \in [Sources -> SUBSET AllParts]
  /\ objects \in [Ids -> SUBSET Content]
  /\ docs \subseteq [id : Ids, from : Sources \cup Files \cup {Pasted}]
  /\ drawn \in 0 .. MaxIds
  /\ pushes \in [Pushes -> Push]

\* The connectors' side.
ConnTypes ==
  /\ cards \in [Cards -> CardRow]
  /\ visits \in [Visits -> {"idle", "seeding", "done"}]
  /\ flows \in [Flows -> Flow]
  /\ syncs \in [Syncs -> Sync]
  /\ ever \subseteq Files /\ raced \subseteq Files

\* A step of the uploads keeps them.
LEMMA UploadTypesKept ==
  ASSUME TypeOK, Numbered, UploadsNext, UNCHANGED connVars
  PROVE  TypeOK'
  <1>0. ConnTypes'  BY DEF TypeOK, ConnTypes, connVars
  <1>a. UploadTypes  BY DEF TypeOK, UploadTypes
  <1>1. ASSUME NEW u \in Sources, NEW n \in AllParts, SavePart(u, n)  PROVE UploadTypes'
    <2>1. parts' = [parts EXCEPT ![u] = parts[u] \cup {n}]  BY <1>1 DEF SavePart
    <2>2. parts' \in [Sources -> SUBSET AllParts]  BY <1>a, <2>1 DEF UploadTypes
    <2> QED  BY <1>a, <1>1, <2>2 DEF SavePart, UploadTypes
  <1>2. ASSUME NEW q \in Pushes, Receive(q)  PROVE UploadTypes'
    BY <1>a, <1>2, ReceiveKind DEF UploadTypes
  <1>3. ASSUME NEW q \in Pushes, Assemble(q) \/ StoreBody(q) \/ BreakOff(q)  PROVE UploadTypes'
    BY <1>a, <1>3, StoreKind DEF UploadTypes
  <1>4. ASSUME NEW q \in Pushes, CommitPush(q)  PROVE UploadTypes'
    <2>1. pushes[q].id \in Ids
      <3>1. pushes[q].id \in 1 .. drawn  BY <1>4 DEF CommitPush, Numbered, Open
      <3> QED  BY <1>a, <3>1 DEF UploadTypes, Ids
    <2> QED  BY <1>a, <1>4, <2>1, CommitPushKind DEF UploadTypes
  <1>5. ASSUME NEW q \in Pushes, PushFails(q)  PROVE UploadTypes'
    BY <1>a, <1>5, ToPushFields DEF PushFails, UploadTypes
  <1>6. ASSUME NEW d \in docs, DeleteDocument(d)  PROVE UploadTypes'
    BY <1>a, <1>6 DEF DeleteDocument, UploadTypes
  <1>7. UploadTypes'
    BY <1>1, <1>2, <1>3, <1>4, <1>5, <1>6 DEF UploadsNext
  <1> QED  BY <1>0, <1>7 DEF TypeOK, UploadTypes, ConnTypes

\* A visit and a seeding.
LEMMA CardTypesKept ==
  ASSUME TypeOK, NEW v \in Visits, Visit(v) \/ \E g \in Cards : Seed(v, g)
  PROVE  TypeOK'
  <1>1. CASE Visit(v)
    <2>1. visits' \in [Visits -> {"idle", "seeding", "done"}]  BY <1>1 DEF Visit, TypeOK
    <2> QED  BY <1>1, <2>1 DEF Visit, TypeOK, uploadVars
  <1>2. ASSUME NEW g \in Cards, Seed(v, g)  PROVE TypeOK'
    <2>1. visits' \in [Visits -> {"idle", "seeding", "done"}]  BY <1>2 DEF Seed, TypeOK
    <2>2. cards' \in [Cards -> CardRow]  BY <1>2, ZenonT(60) DEF Seed, TypeOK, CardRow
    <2> QED  BY <1>2, <2>1, <2>2 DEF Seed, TypeOK, uploadVars
  <1> QED  BY <1>1, <1>2

\* What a handshake writes of the card.
Granted(f) ==
  LET g == flows[f].card IN
  [cards[g] EXCEPT !.cred = Credential(f, @), !.synced = @ \/ ~flows[f].synced,
     !.status = IF flows[f].status = "connected" THEN @ ELSE "connected"]

\* The fields of a handshake and of the card it is about.
LEMMA FlowFields ==
  ASSUME TypeOK, NEW f \in Flows
  PROVE  /\ flows[f] \in Flow /\ flows[f].card \in Cards
         /\ flows[f].status \in {"disconnected", "connected"} /\ flows[f].synced \in BOOLEAN
         /\ flows[f].cred \in BOOLEAN /\ flows[f].token \in BOOLEAN
  BY DEF TypeOK, Flow

\* A card row and its fields.
LEMMA CardFields ==
  ASSUME TypeOK, NEW g \in Cards
  PROVE  /\ cards[g] \in CardRow
         /\ cards[g].there \in BOOLEAN /\ cards[g].status \in {"disconnected", "connected"}
         /\ cards[g].cred \in {"none", "empty", "token"} /\ cards[g].synced \in BOOLEAN
  BY DEF TypeOK, CardRow

\* The card after a handshake has the credential that Credential tells.
LEMMA GrantedFields ==
  ASSUME TypeOK, NEW f \in Flows
  PROVE  /\ Granted(f) \in CardRow
         /\ Granted(f).cred = Credential(f, cards[flows[f].card].cred)
  <1> DEFINE g      == flows[f].card
             cred   == Credential(f, cards[g].cred)
             synced == cards[g].synced \/ ~flows[f].synced
             status == IF flows[f].status = "connected" THEN cards[g].status ELSE "connected"
             new    == [cards[g] EXCEPT !.cred = cred, !.synced = synced, !.status = status]
  <1>1. g \in Cards  BY FlowFields
  <1>2. cards[g] \in CardRow /\ cards[g].status \in {"disconnected", "connected"}  BY <1>1, CardFields
  <1>3. synced \in BOOLEAN  OBVIOUS
  <1>4. status \in {"disconnected", "connected"}  BY <1>2
  <1>5. cred \in {"none", "empty", "token"}  BY <1>1, CardFields DEF Credential
  <1>6. Granted(f) = new  BY DEF Granted
  <1> HIDE DEF synced, status, g, cred
  <1>7. new \in CardRow /\ new.cred = cred  BY <1>2, <1>3, <1>4, <1>5 DEF CardRow
  <1> QED  BY <1>6, <1>7 DEF cred, g

\* The two ways a handshake ends at the database.
LEMMA StoreTokensFields ==
  ASSUME TypeOK, NEW f \in Flows, StoreTokens(f)
  PROVE  \/ ToFlow(f, "failed") /\ cards' = cards
         \/ ToFlow(f, "done") /\ cards' = [cards EXCEPT ![flows[f].card] = Granted(f)]
  BY DEF StoreTokens, Granted

\* A handshake.
LEMMA FlowTypesKept ==
  ASSUME TypeOK, NEW f \in Flows, \/ \E g \in Cards : StartOAuth(f, g)
                                  \/ Callback(f) \/ Exchange(f) \/ StoreTokens(f) \/ FlowFails(f)
  PROVE  TypeOK'
  <1>0. UNCHANGED <<uploadVars, visits, syncs, ever, raced>>
    BY DEF StartOAuth, Callback, Exchange, StoreTokens, FlowFails
  <1>a. /\ flows[f] \in Flow /\ flows[f].card \in Cards /\ flows \in [Flows -> Flow]
        /\ cards \in [Cards -> CardRow]
    BY FlowFields DEF TypeOK
  <1>b. ASSUME NEW place \in {"failed", "done"}, ToFlow(f, place)  PROVE flows' \in [Flows -> Flow]
    <2> DEFINE new == [flows[f] EXCEPT !.place = place]
    <2>1. new \in Flow  BY <1>a DEF Flow
    <2>2. flows' = [flows EXCEPT ![f] = new]  BY <1>b DEF ToFlow
    <2> QED  BY <1>a, <2>1, <2>2
  <1>1. ASSUME NEW g \in Cards, StartOAuth(f, g)  PROVE flows' \in [Flows -> Flow] /\ cards' = cards
    <2> DEFINE new == [flows[f] EXCEPT !.place = "consenting", !.card = g]
    <2>1. new \in Flow  BY <1>a DEF Flow
    <2>2. flows' = [flows EXCEPT ![f] = new]  BY <1>1 DEF StartOAuth, TypeOK
    <2> QED  BY <1>a, <1>1, <2>1, <2>2 DEF StartOAuth
  <1>2. CASE Callback(f)
    <2> DEFINE status == cards[flows[f].card].status
               synced == cards[flows[f].card].synced
               new == [flows[f] EXCEPT !.place = "exchanging", !.status = status, !.synced = synced]
    <2>1. status \in {"disconnected", "connected"} /\ synced \in BOOLEAN  BY <1>a, CardFields
    <2>2. flows' = [flows EXCEPT ![f] = new]  BY <1>2 DEF Callback, TypeOK
    <2> HIDE DEF status, synced
    <2>3. new \in Flow  BY <1>a, <2>1 DEF Flow
    <2>4. flows' \in [Flows -> Flow] /\ cards' = cards  BY <1>a, <1>2, <2>2, <2>3 DEF Callback
    <2> QED  BY <1>0, <1>a, <2>4 DEF TypeOK, uploadVars
  <1>3. CASE Exchange(f)
    <2> DEFINE cred == cards[flows[f].card].cred # "none"
    <2>1. PICK token \in BOOLEAN :
            flows' = [flows EXCEPT ![f].place = "exchanged", ![f].token = token, ![f].cred = cred]
      BY <1>3 DEF Exchange
    <2> DEFINE new == [flows[f] EXCEPT !.place = "exchanged", !.token = token, !.cred = cred]
    <2>a. cred \in BOOLEAN  OBVIOUS
    <2>2. flows' = [flows EXCEPT ![f] = new]  BY <2>1 DEF TypeOK
    <2> HIDE DEF cred
    <2>3. new \in Flow  BY <1>a, <2>a DEF Flow
    <2>4. flows' \in [Flows -> Flow] /\ cards' = cards  BY <1>a, <1>3, <2>2, <2>3 DEF Exchange
    <2> QED  BY <1>0, <1>a, <2>4 DEF TypeOK, uploadVars
  <1>4. CASE StoreTokens(f)
    <2>1. flows' \in [Flows -> Flow]  BY <1>4, <1>b, StoreTokensFields
    <2>2. cards' \in [Cards -> CardRow]  BY <1>4, <1>a, StoreTokensFields, GrantedFields
    <2> QED  BY <1>0, <1>a, <2>1, <2>2 DEF TypeOK, uploadVars
  <1>5. CASE FlowFails(f)
    <2>1. flows' \in [Flows -> Flow] /\ cards' = cards  BY <1>5, <1>b DEF FlowFails
    <2> QED  BY <1>0, <1>a, <2>1 DEF TypeOK, uploadVars
  <1>6. CASE \E g \in Cards : StartOAuth(f, g)
    <2>1. flows' \in [Flows -> Flow] /\ cards' = cards  BY <1>1, <1>6
    <2> QED  BY <1>0, <1>a, <2>1 DEF TypeOK, uploadVars
  <1> QED  BY <1>2, <1>3, <1>4, <1>5, <1>6

\* Disconnecting changes two fields of a card.
LEMMA DisconnectFields ==
  ASSUME TypeOK, NEW g \in Cards, Disconnect(g)
  PROVE  /\ cards' \in [Cards -> CardRow]
         /\ cards'[g].status = "disconnected" /\ cards'[g].cred = cards[g].cred
         /\ \A h \in Cards : h # g => cards'[h] = cards[h]
         /\ UNCHANGED <<uploadVars, visits, flows, syncs, ever, raced>>
  <1> DEFINE new == [cards[g] EXCEPT !.status = "disconnected", !.synced = FALSE]
  <1>1. new \in CardRow /\ new.status = "disconnected" /\ new.cred = cards[g].cred
    BY CardFields DEF CardRow
  <1>2. cards' = [cards EXCEPT ![g] = new] /\ cards \in [Cards -> CardRow]
        /\ UNCHANGED <<uploadVars, visits, flows, syncs, ever, raced>>
    BY DEF Disconnect, TypeOK
  <1> HIDE DEF new
  <1> QED  BY <1>1, <1>2

\* Closing a sync stamps the card.
LEMMA CloseFields ==
  ASSUME TypeOK, NEW s \in Syncs, Close(s)
  PROVE  /\ cards' \in [Cards -> CardRow]
         /\ \A g \in Cards : cards'[g].status = cards[g].status /\ cards'[g].cred = cards[g].cred
  <1>1. cards \in [Cards -> CardRow]  BY DEF TypeOK
  <1>2. CASE cards' = cards  BY <1>1, <1>2
  <1>3. CASE cards' = [cards EXCEPT ![syncs[s].card].synced = TRUE]
    <2> DEFINE g   == syncs[s].card
               new == [cards[g] EXCEPT !.synced = TRUE]
    <2>1. g \in Cards /\ cards[g] \in CardRow  BY SyncFields, CardFields DEF TypeOK
    <2>2. new \in CardRow /\ new.status = cards[g].status /\ new.cred = cards[g].cred
      BY <2>1 DEF CardRow
    <2>3. cards' = [cards EXCEPT ![g] = new]  BY <1>3, <2>1
    <2> HIDE DEF new, g
    <2> QED  BY <1>1, <2>1, <2>2, <2>3
  <1> QED  BY <1>2, <1>3 DEF Close

\* A sync.
LEMMA SyncTypesKept ==
  ASSUME TypeOK, Numbered, InList, NEW s \in Syncs,
         \/ \E g \in Cards : BeginSync(s, g)
         \/ Check(s) \/ Fetch(s) \/ SaveFile(s) \/ CommitFile(s)
         \/ FileFails(s) \/ Close(s) \/ SyncDies(s)
  PROVE  TypeOK'
  <1>1. \E new \in Sync : Only(s, new)
    <2>1. Begins(s) \/ Works(s) \/ Leaves(s) \/ Ends(s)
      BY BeginKind, CheckKind, FetchKind, SaveKind, CommitKind, FailKind, EndKind
    <2> QED  BY <2>1 DEF Begins, Works, Leaves, Ends
  <1>2. syncs' \in [Syncs -> Sync]  BY <1>1 DEF Only, TypeOK
  <1>3. cards' \in [Cards -> CardRow]
    <2>1. CASE Close(s)  BY <2>1, CloseFields
    <2>2. CASE cards' = cards  BY <2>2 DEF TypeOK
    <2> QED  BY <2>1, <2>2 DEF BeginSync, Check, Fetch, SaveFile, CommitFile, FileFails, SyncDies
  <1>4. UNCHANGED <<visits, flows>>
    BY DEF BeginSync, Check, Fetch, SaveFile, CommitFile, FileFails, Close, SyncDies
  <1>5. ever' \subseteq Files /\ raced' \subseteq Files /\ UploadTypes'
    <2>1. CASE SaveFile(s)
      <3>1. PICK n \in Ids : Draw(n) /\ Saved(n, Whole)  BY <2>1 DEF SaveFile
      <3>2. Whole \in Content  BY DEF Whole, Content
      <3>3. objects' \in [Ids -> SUBSET Content]  BY <3>1, <3>2 DEF Saved, TypeOK
      <3>4. drawn' \in 0 .. MaxIds  BY <3>1 DEF Draw, Ids
      <3> QED  BY <2>1, <3>3, <3>4 DEF SaveFile, TypeOK, UploadTypes
    <2>2. CASE CommitFile(s)
      <3>1. FileOf(s) \in Files  BY <2>2, AtAFile DEF CommitFile, AtFile
      <3>2. syncs[s].id \in Ids
        <4>1. syncs[s].id \in 1 .. drawn  BY <2>2 DEF CommitFile, Numbered
        <4> QED  BY <4>1 DEF TypeOK, Ids
      <3> QED  BY <2>2, <3>1, <3>2 DEF CommitFile, Queued, TypeOK, UploadTypes
    <2>3. CASE UNCHANGED <<uploadVars, ever, raced>>  BY <2>3 DEF TypeOK, UploadTypes, uploadVars
    <2> QED  BY <2>1, <2>2, <2>3 DEF BeginSync, Check, Fetch, FileFails, Close, SyncDies
  <1> QED  BY <1>2, <1>3, <1>4, <1>5 DEF TypeOK, UploadTypes

\* The types are kept.
LEMMA TypesKept ==
  ASSUME TypeOK, Numbered, InList, Next
  PROVE  TypeOK'
  <1>1. CASE UploadsNext /\ UNCHANGED connVars  BY <1>1, UploadTypesKept
  <1>2. ASSUME NEW v \in Visits, Visit(v) \/ \E g \in Cards : Seed(v, g)  PROVE TypeOK'
    BY <1>2, CardTypesKept
  <1>3. ASSUME NEW f \in Flows, \/ \E g \in Cards : StartOAuth(f, g)
                                \/ Callback(f) \/ Exchange(f) \/ StoreTokens(f) \/ FlowFails(f)
        PROVE TypeOK'
    BY <1>3, FlowTypesKept
  <1>4. ASSUME NEW g \in Cards, Disconnect(g)  PROVE TypeOK'
    BY <1>4, DisconnectFields DEF TypeOK, uploadVars
  <1>5. ASSUME NEW s \in Syncs, \/ \E g \in Cards : BeginSync(s, g)
                                \/ Check(s) \/ Fetch(s) \/ SaveFile(s) \/ CommitFile(s)
                                \/ FileFails(s) \/ Close(s) \/ SyncDies(s)
        PROVE TypeOK'
    BY <1>5, SyncTypesKept
  <1> QED  BY <1>1, <1>2, <1>3, <1>4, <1>5 DEF Next

\* An id is given out once.
LEMMA AloneKept ==
  ASSUME TypeOK, Numbered, InList, Alone, Next
  PROVE  Alone'
  <1>0. drawn \in Nat /\ ~(drawn + 1 \in 1 .. drawn)  BY DEF TypeOK
  <1>1. CASE Keeps  BY <1>1 DEF Keeps, Alone, Open
  <1>2. ASSUME NEW q \in Pushes, Draws(q)  PROVE Alone'
    <2>1. /\ \A d \in docs : d.id # drawn + 1
          /\ \A p \in Pushes : Open(p) => pushes[p].id # drawn + 1
          /\ \A s \in Syncs : syncs[s].place = "saved" => syncs[s].id # drawn + 1
      BY <1>0 DEF Numbered
    <2> QED  BY <1>2, <2>1 DEF Draws, Alone, Open
  <1>3. ASSUME NEW q \in Pushes, Stores(q)  PROVE Alone'
    BY <1>3 DEF Stores, Alone, Open
  <1>4. ASSUME NEW q \in Pushes, Commits(q)  PROVE Alone'
    BY <1>4 DEF Commits, Alone, Open
  <1>5. ASSUME NEW s \in Syncs, Saves(s)  PROVE Alone'
    <2>1. \A p \in Pushes : Open(p) => pushes[p].id # drawn + 1
      BY <1>0 DEF Numbered
    <2> QED  BY <1>5, <2>1 DEF Saves, Alone, Open
  <1>6. ASSUME NEW s \in Syncs, Rows(s)  PROVE Alone'
    BY <1>6 DEF Rows, Alone, Open
  <1> QED  BY <1>1, <1>2, <1>3, <1>4, <1>5, <1>6, StoreKinds

\* What is stored stays, until a request of its own id writes it.
LEMMA StoredKept ==
  ASSUME TypeOK, Numbered, InList, Alone, Stored, Next
  PROVE  Stored'
  <1>0. drawn \in Nat /\ ~(drawn + 1 \in 1 .. drawn) /\ objects \in [Ids -> SUBSET Content]
    BY DEF TypeOK
  <1>1. CASE Keeps
    BY <1>1 DEF Keeps, Stored, RowHasItsBytes
  <1>2. ASSUME NEW q \in Pushes, Draws(q)  PROVE Stored'
    BY <1>2 DEF Draws, Stored, RowHasItsBytes
  <1>3. ASSUME NEW q \in Pushes, Stores(q)  PROVE Stored'
    <2>1. pushes[q].id \in Ids /\ Open(q)
      BY <1>3 DEF Stores, Numbered, Open, TypeOK, Ids
    <2>2. \A n \in Ids : n # pushes[q].id => objects'[n] = objects[n]
      BY <1>0, <1>3 DEF Stores
    <2>3. RowHasItsBytes'
      <3>1. \A d \in docs : d.id # pushes[q].id /\ d.id \in Ids  BY <2>1 DEF Alone, TypeOK
      <3> QED  BY <1>3, <2>2, <3>1 DEF Stores, Stored, RowHasItsBytes
    <2>4. ASSUME NEW p \in Pushes, pushes'[p].place = "stored"
          PROVE  objects'[pushes'[p].id] = {[parts |-> AllParts, heavy |-> pushes'[p].heavy]}
      <3>1. CASE p = q  BY <1>0, <1>3, <2>1, <2>4, <3>1 DEF Stores
      <3>2. CASE p # q
        <4>1. pushes'[p] = pushes[p] /\ Open(p)  BY <1>3, <2>4, <3>2 DEF Stores, Open
        <4>2. pushes[p].id # pushes[q].id /\ pushes[p].id \in Ids
          BY <2>1, <3>2, <4>1 DEF Alone, Numbered, TypeOK, Ids
        <4> QED  BY <2>2, <2>4, <4>1, <4>2 DEF Stored
      <3> QED  BY <3>1, <3>2
    <2>5. \A s \in Syncs : syncs'[s].place = "saved" => objects'[syncs'[s].id] = {Whole}
      <3>1. \A s \in Syncs : syncs[s].place = "saved" =>
              syncs[s].id # pushes[q].id /\ syncs[s].id \in Ids
        BY <2>1 DEF Alone, Numbered, TypeOK, Ids
      <3> QED  BY <1>3, <2>2, <3>1 DEF Stores, Stored
    <2> QED  BY <2>3, <2>4, <2>5 DEF Stored
  <1>4. ASSUME NEW q \in Pushes, Commits(q)  PROVE Stored'
    <2>1. objects[pushes[q].id] = {Whole}
      <3>1. pushes[q].heavy = FALSE
        <4>1. pushes[q].heavy \in BOOLEAN  BY PushFields DEF TypeOK
        <4> QED  BY <1>4, <4>1 DEF Commits
      <3> QED  BY <1>4, <3>1 DEF Commits, Stored, Whole
    <2> QED  BY <1>4, <2>1 DEF Commits, Stored, RowHasItsBytes
  <1>5. ASSUME NEW s \in Syncs, Saves(s)  PROVE Stored'
    <2>1. \A n \in 1 .. drawn : n \in Ids /\ objects'[n] = objects[n]
      BY <1>0, <1>5 DEF Saves, TypeOK, Ids
    <2>2. objects'[drawn'] = {Whole}  BY <1>0, <1>5 DEF Saves
    <2>3. RowHasItsBytes'  BY <1>5, <2>1 DEF Saves, Stored, RowHasItsBytes, Numbered
    <2>4. \A q \in Pushes : pushes'[q].place = "stored" =>
            objects'[pushes'[q].id] = {[parts |-> AllParts, heavy |-> pushes'[q].heavy]}
      BY <1>5, <2>1 DEF Saves, Stored, Numbered, Open
    <2>5. \A t \in Syncs : syncs'[t].place = "saved" => objects'[syncs'[t].id] = {Whole}
      BY <1>5, <2>1, <2>2 DEF Saves, Stored, Numbered
    <2> QED  BY <2>3, <2>4, <2>5 DEF Stored
  <1>6. ASSUME NEW s \in Syncs, Rows(s)  PROVE Stored'
    BY <1>6 DEF Rows, Stored, RowHasItsBytes
  <1> QED  BY <1>1, <1>2, <1>3, <1>4, <1>5, <1>6, StoreKinds

-----------------------------------------------------------------------------
(* The files. *)

\* No row of a file appears.
NoNewFile == \A d \in docs' : d.from \in Files => d \in docs

\* An upload makes no row of a file.
LEMMA UploadsNoFile ==
  ASSUME TypeOK, UploadsNext, UNCHANGED connVars
  PROVE  NoNewFile
  <1>1. ASSUME NEW u \in Sources, NEW n \in AllParts, SavePart(u, n)  PROVE NoNewFile
    BY <1>1 DEF SavePart, NoNewFile
  <1>2. ASSUME NEW q \in Pushes, Receive(q) \/ Assemble(q) \/ BreakOff(q) \/ StoreBody(q) \/ PushFails(q)
        PROVE NoNewFile
    BY <1>2 DEF Receive, Assemble, BreakOff, StoreBody, PushFails, NoNewFile
  <1>3. ASSUME NEW q \in Pushes, CommitPush(q)  PROVE NoNewFile
    <2>1. PICK from \in Sources \cup {Pasted} :
            docs' = docs \cup {[id |-> pushes[q].id, from |-> from]}
      BY <1>3, CommitPushKind
    <2>2. from \notin Files  BY NamesAssumption
    <2> QED  BY <2>1, <2>2 DEF NoNewFile
  <1>4. ASSUME NEW d \in docs, DeleteDocument(d)  PROVE NoNewFile
    BY <1>4 DEF DeleteDocument, NoNewFile
  <1> QED  BY <1>1, <1>2, <1>3, <1>4 DEF UploadsNext

\* SyncKinds, with what happens to the rows when no sync moves.
LEMMA FileKinds ==
  ASSUME TypeOK, InList, Next
  PROVE  \/ UNCHANGED <<syncs, ever, raced>> /\ NoNewFile
         \/ \E s \in Syncs : Begins(s) \/ Works(s) \/ Leaves(s) \/ Ends(s)
  <1>1. CASE UploadsNext /\ UNCHANGED connVars
    BY <1>1, UploadsNoFile DEF connVars
  <1>2. CASE \E s \in Syncs : Begins(s) \/ Works(s) \/ Leaves(s) \/ Ends(s)
    BY <1>2
  <1>3. CASE UNCHANGED <<syncs, ever, raced, docs>>
    BY <1>3 DEF NoNewFile
  <1>4. ASSUME NEW v \in Visits, Visit(v) \/ \E g \in Cards : Seed(v, g)
        PROVE  UNCHANGED <<syncs, ever, raced, docs>>
    BY <1>4 DEF Visit, Seed, uploadVars
  <1>5. ASSUME NEW f \in Flows, \/ \E g \in Cards : StartOAuth(f, g)
                                \/ Callback(f) \/ Exchange(f) \/ StoreTokens(f) \/ FlowFails(f)
        PROVE  UNCHANGED <<syncs, ever, raced, docs>>
    BY <1>5 DEF StartOAuth, Callback, Exchange, StoreTokens, FlowFails, uploadVars
  <1>6. ASSUME NEW g \in Cards, Disconnect(g)
        PROVE  UNCHANGED <<syncs, ever, raced, docs>>
    BY <1>6 DEF Disconnect, uploadVars
  <1>7. ASSUME NEW s \in Syncs, \/ \E g \in Cards : BeginSync(s, g)
                                \/ Check(s) \/ Fetch(s) \/ SaveFile(s) \/ CommitFile(s)
                                \/ FileFails(s) \/ Close(s) \/ SyncDies(s)
        PROVE  Begins(s) \/ Works(s) \/ Leaves(s) \/ Ends(s)
    BY <1>7, BeginKind, CheckKind, FetchKind, SaveKind, CommitKind, FailKind, EndKind
  <1> QED  BY <1>1, <1>2, <1>3, <1>4, <1>5, <1>6, <1>7 DEF Next

\* Of a step of a sync, the others see nothing.
LEMMA OthersStay ==
  ASSUME TypeOK, NEW s \in Syncs, NEW new \in Sync, Only(s, new)
  PROVE  \A t \in Syncs : syncs'[t] = IF t = s THEN new ELSE syncs[t]
  BY DEF TypeOK, Only

\* A row of a file is written with the memory of it.
LEMMA RecordedKept ==
  ASSUME TypeOK, InList, Recorded, Next
  PROVE  Recorded'
  <1>1. CASE UNCHANGED <<syncs, ever, raced>> /\ NoNewFile  BY <1>1 DEF NoNewFile, Recorded
  <1>2. ASSUME NEW s \in Syncs, Begins(s) \/ Works(s) \/ Leaves(s) \/ Ends(s)  PROVE Recorded'
    <2>1. \/ UNCHANGED <<docs, ever, raced>>
          \/ /\ docs' = docs \cup {[id |-> syncs[s].id, from |-> FileOf(s)]}
             /\ ever' = ever \cup {FileOf(s)}
      BY <1>2 DEF Begins, Works, Leaves, Ends
    <2> QED  BY <2>1 DEF Recorded
  <1> QED  BY <1>1, <1>2, FileKinds

\* A sync that leaves a file behind has a reason.
LEMMA PassedKept ==
  ASSUME TypeOK, InList, Recorded, Passed, Next
  PROVE  Passed'
  <1>1. CASE UNCHANGED <<syncs, ever, raced>>  BY <1>1 DEF Passed
  <1>2. ASSUME NEW s \in Syncs, Begins(s) \/ Works(s) \/ Leaves(s) \/ Ends(s)  PROVE Passed'
    <2>1. ever \subseteq ever'
      BY <1>2 DEF Begins, Works, Leaves, Ends
    <2>2. PICK new \in Sync :
            /\ Only(s, new)
            /\ \A i \in 1 .. new.at - 1 : new.files[i] \in Unfit \cup new.hit \cup ever'
      <3>1. CASE Begins(s)
        <4>1. PICK new \in Sync : Only(s, new) /\ new.at = 1  BY <3>1 DEF Begins
        <4> QED  BY <4>1
      <3>2. CASE Works(s) \/ Ends(s)
        <4>1. PICK new \in Sync : /\ Only(s, new) /\ new.at = syncs[s].at
                                  /\ new.files = syncs[s].files /\ new.hit = syncs[s].hit
          BY <3>2 DEF Works, Ends
        <4> QED  BY <2>1, <4>1 DEF Passed
      <3>3. CASE Leaves(s)
        <4>1. PICK new \in Sync :
                /\ Only(s, new)
                /\ AtFile(s)
                /\ new.at = syncs[s].at + 1 /\ new.files = syncs[s].files
                /\ \/ new.hit = syncs[s].hit \cup {FileOf(s)} /\ UNCHANGED <<docs, ever, raced>>
                   \/ new.hit = syncs[s].hit /\ FileOf(s) \in Unfit /\ UNCHANGED <<docs, ever, raced>>
                   \/ new.hit = syncs[s].hit /\ ~IsNew(s) /\ UNCHANGED <<docs, ever, raced>>
                   \/ /\ new.hit = syncs[s].hit
                      /\ syncs[s].place = "saved"
                      /\ docs' = docs \cup {[id |-> syncs[s].id, from |-> FileOf(s)]}
                      /\ ever' = ever \cup {FileOf(s)}
          BY <3>3 DEF Leaves
        <4>2. FileOf(s) \in Files /\ syncs[s].at \in Nat  BY <4>1, AtAFile
        <4>3. ~IsNew(s) => FileOf(s) \in ever  BY <4>2 DEF IsNew, Recorded
        <4>4. FileOf(s) \in Unfit \cup new.hit \cup ever'  BY <4>1, <4>3
        <4>5. \A i \in 1 .. syncs[s].at - 1 : syncs[s].files[i] \in Unfit \cup new.hit \cup ever'
          BY <2>1, <4>1 DEF Passed
        <4>6. \A i \in 1 .. new.at - 1 : i \in 1 .. syncs[s].at - 1 \/ i = syncs[s].at
          BY <4>1, <4>2
        <4> QED  BY <4>1, <4>4, <4>5, <4>6 DEF FileOf
      <3> QED  BY <1>2, <3>1, <3>2, <3>3
    <2>3. \A t \in Syncs : syncs'[t] = IF t = s THEN new ELSE syncs[t]  BY <2>2, OthersStay
    <2> QED  BY <2>1, <2>2, <2>3 DEF Passed
  <1> QED  BY <1>1, <1>2, FileKinds

\* While a sync works on a file, who makes a row of it races with it.
LEMMA StillNewKept ==
  ASSUME TypeOK, InList, StillNew, Next
  PROVE  StillNew'
  <1>1. CASE UNCHANGED <<syncs, ever, raced>> /\ NoNewFile
    <2>1. ASSUME NEW s \in Syncs, syncs[s].place \in {"fetching", "holding", "saved"},
                 FileOf(s) \notin raced
          PROVE  IsNew(s)'
      <3>1. FileOf(s) \in Files  BY <2>1, AtAFile DEF AtFile
      <3> QED  BY <1>1, <2>1, <3>1 DEF NoNewFile, StillNew, IsNew, FileOf
    <2>2. \A s \in Syncs : FileOf(s)' = FileOf(s)  BY <1>1 DEF FileOf
    <2> QED  BY <1>1, <2>1, <2>2 DEF StillNew
  <1>2. ASSUME NEW s \in Syncs, Begins(s) \/ Ends(s)  PROVE StillNew'
    <2>1. PICK new \in Sync : Only(s, new) /\ new.place \notin {"fetching", "holding", "saved"}
                              /\ UNCHANGED <<docs, raced>>
      BY <1>2 DEF Begins, Ends
    <2>2. \A t \in Syncs : syncs'[t] = IF t = s THEN new ELSE syncs[t]  BY <2>1, OthersStay
    <2> QED  BY <2>1, <2>2 DEF StillNew, IsNew, FileOf
  <1>3. ASSUME NEW s \in Syncs, Works(s)  PROVE StillNew'
    <2>1. PICK new \in Sync : /\ Only(s, new) /\ new.at = syncs[s].at
                              /\ new.files = syncs[s].files /\ UNCHANGED <<docs, raced>>
      BY <1>3 DEF Works
    <2>2. \A t \in Syncs : syncs'[t] = IF t = s THEN new ELSE syncs[t]  BY <2>1, OthersStay
    <2>3. FileOf(s) \notin raced => IsNew(s)  BY <1>3 DEF Works, StillNew, AtFile
    <2> QED  BY <2>1, <2>2, <2>3 DEF StillNew, IsNew, FileOf
  <1>4. ASSUME NEW s \in Syncs, Leaves(s)  PROVE StillNew'
    <2>1. PICK new \in Sync :
            /\ Only(s, new)
            /\ new.place \in {"closing", "checking"}
            /\ \/ UNCHANGED <<docs, raced>>
               \/ /\ docs' = docs \cup {[id |-> syncs[s].id, from |-> FileOf(s)]}
                  /\ raced' = raced \cup IF Races(s) THEN {FileOf(s)} ELSE {}
      BY <1>4 DEF Leaves
    <2>2. \A t \in Syncs : syncs'[t] = IF t = s THEN new ELSE syncs[t]  BY <2>1, OthersStay
    <2>3. ASSUME NEW t \in Syncs, syncs'[t].place \in {"fetching", "holding", "saved"},
                 FileOf(t)' \notin raced'
          PROVE  IsNew(t)'
      <3>1. t # s /\ syncs'[t] = syncs[t]  BY <2>1, <2>2, <2>3
      <3>2. FileOf(t)' = FileOf(t)  BY <3>1 DEF FileOf
      <3>3. IsNew(t)  BY <2>1, <2>3, <3>1, <3>2 DEF StillNew
      <3>4. CASE UNCHANGED <<docs, raced>>  BY <3>2, <3>3, <3>4 DEF IsNew
      <3>5. CASE /\ docs' = docs \cup {[id |-> syncs[s].id, from |-> FileOf(s)]}
                 /\ raced' = raced \cup IF Races(s) THEN {FileOf(s)} ELSE {}
        <4>1. FileOf(t) # FileOf(s)  BY <2>3, <3>1, <3>2, <3>5 DEF Races
        <4> QED  BY <3>2, <3>3, <3>5, <4>1 DEF IsNew
      <3> QED  BY <2>1, <3>4, <3>5
    <2> QED  BY <2>3 DEF StillNew
  <1> QED  BY <1>1, <1>2, <1>3, <1>4, FileKinds

\* So its row is the only one, unless it has been raced.
LEMMA FileOnceKept ==
  ASSUME TypeOK, InList, StillNew, FileOnceUnlessRaced, Next
  PROVE  FileOnceUnlessRaced'
  <1>1. CASE UNCHANGED <<syncs, ever, raced>> /\ NoNewFile
    BY <1>1 DEF NoNewFile, FileOnceUnlessRaced
  <1>2. ASSUME NEW s \in Syncs, Begins(s) \/ Works(s) \/ Leaves(s) \/ Ends(s)
        PROVE  FileOnceUnlessRaced'
    <2>1. \/ UNCHANGED <<docs, raced>>
          \/ /\ syncs[s].place = "saved"
             /\ docs' = docs \cup {[id |-> syncs[s].id, from |-> FileOf(s)]}
             /\ raced \subseteq raced'
      BY <1>2 DEF Begins, Works, Leaves, Ends
    <2>2. syncs[s].place = "saved" /\ FileOf(s) \notin raced => \A d \in docs : d.from # FileOf(s)
      BY DEF StillNew, IsNew
    <2> QED  BY <2>1, <2>2 DEF FileOnceUnlessRaced
  <1> QED  BY <1>1, <1>2, FileKinds

-----------------------------------------------------------------------------
(* The card. *)

\* What stays when no handshake is completed and no card is connected.
LEMMA ExplainedStays ==
  ASSUME Explained,
         \A f \in Flows : flows'[f] = flows[f] \/ (flows[f].place # "done" /\ flows'[f].place # "done"),
         \A g \in Cards : /\ cards'[g].cred = cards[g].cred
                          /\ cards'[g].status = "connected" => cards[g].status = "connected"
  PROVE  Explained'
  <1>1. \A g \in Cards : Completed(g)' = Completed(g)  BY DEF Completed
  <1>2. \A g \in Cards : \A f \in Completed(g) : flows'[f] = flows[f]  BY DEF Completed
  <1> QED  BY <1>1, <1>2 DEF Explained

\* The steps of a handshake before its last.
LEMMA Undone ==
  ASSUME TypeOK, NEW f \in Flows,
         \/ \E g \in Cards : StartOAuth(f, g)
         \/ Callback(f) \/ Exchange(f) \/ FlowFails(f)
  PROVE  \A h \in Flows : flows'[h] = flows[h] \/ (flows[h].place # "done" /\ flows'[h].place # "done")
  <1>0. flows \in [Flows -> Flow]  BY DEF TypeOK
  <1>1. \A h \in Flows \ {f} : flows'[h] = flows[h]
    BY <1>0 DEF StartOAuth, Callback, Exchange, FlowFails, ToFlow
  <1>2. flows[f].place # "done"
    BY DEF StartOAuth, Callback, Exchange, FlowFails
  <1>3. flows'[f].place # "done"
    <2>1. flows[f] \in Flow  BY FlowFields
    <2>2. CASE \E g \in Cards : StartOAuth(f, g)
      BY <1>0, <2>1, <2>2 DEF StartOAuth, Flow
    <2>3. CASE Callback(f)  BY <1>0, <2>1, <2>3 DEF Callback, Flow
    <2>4. CASE Exchange(f)
      <3>1. PICK token \in BOOLEAN :
              flows' = [flows EXCEPT ![f].place = "exchanged", ![f].token = token,
                                     ![f].cred = cards[flows[f].card].cred # "none"]
        BY <2>4 DEF Exchange
      <3> DEFINE cred == cards[flows[f].card].cred # "none"
                 new  == [flows[f] EXCEPT !.place = "exchanged", !.token = token, !.cred = cred]
      <3>2. flows' = [flows EXCEPT ![f] = new]  BY <1>0, <3>1
      <3> HIDE DEF cred
      <3>3. new.place = "exchanged"  BY <2>1 DEF Flow
      <3> QED  BY <1>0, <3>2, <3>3
    <2>5. CASE FlowFails(f)  BY <1>0, <2>1, <2>5 DEF FlowFails, ToFlow, Flow
    <2> QED  BY <2>2, <2>3, <2>4, <2>5
  <1> QED  BY <1>1, <1>2, <1>3

\* ToFlow changes the place of one handshake.
LEMMA ToFlowFields ==
  ASSUME TypeOK, NEW f \in Flows, NEW place \in {"failed", "done"}, ToFlow(f, place)
  PROVE  /\ flows'[f].place = place
         /\ flows'[f].card = flows[f].card /\ flows'[f].token = flows[f].token
         /\ \A h \in Flows : h # f => flows'[h] = flows[h]
  <1> DEFINE new == [flows[f] EXCEPT !.place = place]
  <1>1. flows[f] \in Flow /\ flows \in [Flows -> Flow]  BY DEF TypeOK
  <1>2. new.place = place /\ new.card = flows[f].card /\ new.token = flows[f].token
    BY <1>1 DEF Flow
  <1>3. flows' = [flows EXCEPT ![f] = new]  BY DEF ToFlow
  <1> HIDE DEF new
  <1> QED  BY <1>1, <1>2, <1>3

\* The last step of a handshake keeps the token that is there, or brings the first.
LEMMA StoreTokensExplained ==
  ASSUME TypeOK, Explained, NEW f \in Flows, StoreTokens(f)
  PROVE  Explained'
  <1>0. flows[f].place = "exchanged"  BY DEF StoreTokens
  <1>1. CASE ToFlow(f, "failed") /\ cards' = cards
    BY <1>0, <1>1, ToFlowFields, ExplainedStays
  <1>2. CASE ToFlow(f, "done") /\ cards' = [cards EXCEPT ![flows[f].card] = Granted(f)]
    <2>0. PICK c \in Cards : c = flows[f].card  BY FlowFields
    <2>1. c \in Cards /\ cards \in [Cards -> CardRow] /\ flows[f].token \in BOOLEAN
      BY FlowFields DEF TypeOK
    <2>2. /\ cards'[c].cred = Credential(f, cards[c].cred)
          /\ \A g \in Cards : g # c => cards'[g] = cards[g]
      BY <1>2, <2>0, <2>1, GrantedFields
    <2>3. /\ flows'[f].place = "done" /\ flows'[f].card = c /\ flows'[f].token = flows[f].token
          /\ \A h \in Flows : h # f => flows'[h] = flows[h]
      BY <1>2, <2>0, ToFlowFields
    <2>4. Completed(c)' = Completed(c) \cup {f} /\ f \notin Completed(c)
      BY <1>0, <2>0, <2>3 DEF Completed
    <2>5. \A g \in Cards : g # c => Completed(g)' = Completed(g) /\ f \notin Completed(g)
      BY <2>0, <2>3 DEF Completed
    <2>6. \A g \in Cards : \A h \in Completed(g) : flows'[h].token = flows[h].token
      BY <2>3 DEF Completed
    <2>7. (\E h \in Completed(c)' : flows'[h].token)
            <=> flows[f].token \/ \E h \in Completed(c) : flows[h].token
      BY <2>3, <2>4, <2>6
    <2>8. cards[c].cred = "token" <=> \E h \in Completed(c) : flows[h].token
      BY <2>1 DEF Explained
    <2>9. /\ cards'[c].cred # "none"
          /\ cards'[c].cred = "token" <=> flows[f].token \/ cards[c].cred = "token"
      BY <2>2 DEF Credential
    <2>10. ASSUME NEW g \in Cards
           PROVE  /\ cards'[g].cred = "none" <=> Completed(g)' = {}
                  /\ cards'[g].cred = "token" <=> \E h \in Completed(g)' : flows'[h].token
                  /\ cards'[g].status = "connected" => cards'[g].cred # "none"
      <3>1. CASE g = c  BY <2>4, <2>7, <2>8, <2>9, <3>1
      <3>2. CASE g # c  BY <2>2, <2>5, <2>6, <3>2 DEF Explained
      <3> QED  BY <3>1, <3>2
    <2> QED  BY <2>10 DEF Explained
  <1> QED  BY <1>1, <1>2, StoreTokensFields

\* No step takes a token away or connects a card without a handshake.
LEMMA ExplainedKept ==
  ASSUME TypeOK, Explained, Next
  PROVE  Explained'
  <1>1. CASE UNCHANGED <<cards, flows>>  BY <1>1, ExplainedStays
  <1>2. ASSUME NEW v \in Visits, Visit(v) \/ \E g \in Cards : Seed(v, g)
        PROVE  Explained'
    <2>1. CASE Visit(v)  BY <1>1, <2>1 DEF Visit
    <2>2. ASSUME NEW g \in Cards, Seed(v, g)  PROVE Explained'
      <3> DEFINE new == [cards[g] EXCEPT !.there = TRUE]
      <3>1. new.status = cards[g].status /\ new.cred = cards[g].cred  BY CardFields DEF CardRow
      <3>2. cards' = [cards EXCEPT ![g] = new] /\ cards \in [Cards -> CardRow] /\ UNCHANGED flows
        BY <2>2 DEF Seed, TypeOK
      <3> HIDE DEF new
      <3> QED  BY <3>1, <3>2, ExplainedStays
    <2> QED  BY <1>2, <2>1, <2>2
  <1>3. ASSUME NEW f \in Flows, StoreTokens(f)  PROVE Explained'
    BY <1>3, StoreTokensExplained
  <1>4. ASSUME NEW f \in Flows, \/ \E g \in Cards : StartOAuth(f, g)
                                \/ Callback(f) \/ Exchange(f) \/ FlowFails(f)
        PROVE  Explained'
    <2>1. UNCHANGED cards  BY <1>4 DEF StartOAuth, Callback, Exchange, FlowFails
    <2> QED  BY <1>4, <2>1, Undone, ExplainedStays
  <1>5. ASSUME NEW g \in Cards, Disconnect(g)  PROVE Explained'
    <2>1. \A h \in Cards : /\ cards'[h].cred = cards[h].cred
                           /\ cards'[h].status = "connected" => cards[h].status = "connected"
      BY <1>5, DisconnectFields
    <2>2. UNCHANGED flows  BY <1>5 DEF Disconnect
    <2> QED  BY <2>1, <2>2, ExplainedStays
  <1>6. ASSUME NEW s \in Syncs, Close(s)  PROVE Explained'
    <2>1. UNCHANGED flows  BY <1>6 DEF Close
    <2> QED  BY <1>6, <2>1, CloseFields, ExplainedStays
  <1>7. ASSUME NEW s \in Syncs, \/ \E g \in Cards : BeginSync(s, g)
                                \/ Check(s) \/ Fetch(s) \/ SaveFile(s) \/ CommitFile(s)
                                \/ FileFails(s) \/ SyncDies(s)
        PROVE  UNCHANGED <<cards, flows>>
    BY <1>7 DEF BeginSync, Check, Fetch, SaveFile, CommitFile, FileFails, SyncDies
  <1>8. CASE UploadsNext /\ UNCHANGED connVars  BY <1>1, <1>8 DEF connVars
  <1> QED  BY <1>1, <1>2, <1>3, <1>4, <1>5, <1>6, <1>7, <1>8 DEF Next

-----------------------------------------------------------------------------
(* The theorems. *)

Inv ==
  /\ TypeOK /\ Numbered /\ InList /\ Alone /\ Stored /\ Recorded /\ Passed
  /\ Explained /\ StillNew /\ FileOnceUnlessRaced

\* The initial values of requests, cards, handshakes and syncs.
LEMMA InitTypes ==
  ASSUME Init
  PROVE  TypeOK
  <1> USE CardsAssumption
  <1>1. AnyCard \in Cards  BY DEF AnyCard
  <1>2. [place |-> "idle", from |-> Pasted, heavy |-> FALSE, id |-> 0] \in Push  BY DEF Push
  <1>3. [there |-> FALSE, status |-> "disconnected", cred |-> "none", synced |-> FALSE] \in CardRow
    BY DEF CardRow
  <1>4. [place |-> "idle", card |-> AnyCard, status |-> "disconnected", synced |-> FALSE,
         cred |-> FALSE, token |-> FALSE] \in Flow
    BY <1>1 DEF Flow
  <1>5. [place |-> "idle", card |-> AnyCard, files |-> <<>>, at |-> 0, id |-> 0, hit |-> {},
         poisoned |-> FALSE] \in Sync
    BY <1>1 DEF Sync
  <1>6. drawn \in 0 .. MaxIds  BY DEF Init, UploadsInit
  <1> QED  BY <1>2, <1>3, <1>4, <1>5, <1>6 DEF Init, UploadsInit, TypeOK

\* The invariant holds at first.
LEMMA InitInv ==
  ASSUME Init
  PROVE  Inv
  <1>1. TypeOK  BY InitTypes
  <1>2. Numbered /\ Alone /\ Stored /\ Recorded
    BY DEF Init, UploadsInit, Numbered, Alone, Stored, Recorded, Open, RowHasItsBytes
  <1>3. InList /\ Passed
    BY DEF Init, InList, Passed, AtFile
  <1>4. Explained
    <2>1. \A g \in Cards : Completed(g) = {}  BY DEF Init, Completed
    <2> QED  BY <2>1 DEF Init, Explained
  <1>5. StillNew /\ FileOnceUnlessRaced
    BY DEF Init, UploadsInit, StillNew, FileOnceUnlessRaced
  <1> QED  BY <1>1, <1>2, <1>3, <1>4, <1>5 DEF Inv

\* A stuttering step changes nothing that it is about.
LEMMA Stutter ==
  ASSUME Inv, UNCHANGED vars
  PROVE  Inv'
  <1> USE DEF vars, uploadVars, connVars
  <1>1. TypeOK'  BY DEF Inv, TypeOK
  <1>2. Numbered'  BY DEF Inv, Numbered, Open
  <1>3. InList'  BY DEF Inv, InList, AtFile
  <1>4. Alone'  BY DEF Inv, Alone, Open
  <1>5. Stored'  BY DEF Inv, Stored, RowHasItsBytes
  <1>6. Recorded' /\ Passed'  BY DEF Inv, Recorded, Passed
  <1>7. Explained'  BY ExplainedStays DEF Inv
  <1>8. StillNew'  BY DEF Inv, StillNew, IsNew, FileOf
  <1>9. FileOnceUnlessRaced'  BY DEF Inv, FileOnceUnlessRaced
  <1> QED  BY <1>1, <1>2, <1>3, <1>4, <1>5, <1>6, <1>7, <1>8, <1>9 DEF Inv

\* Every step keeps the invariant.
LEMMA InvKept ==
  ASSUME Inv, [Next]_vars
  PROVE  Inv'
  <1>1. CASE Next
    BY <1>1, TypesKept, NumberedKept, InListKept, AloneKept, StoredKept, RecordedKept, PassedKept,
       ExplainedKept, StillNewKept, FileOnceKept DEF Inv
  <1>2. CASE UNCHANGED vars  BY <1>2, Stutter
  <1> QED  BY <1>1, <1>2

\* The invariant holds always.
LEMMA Invariant == Spec => []Inv
  <1>1. Init => Inv  BY InitInv
  <1>2. Inv /\ [Next]_vars => Inv'  BY InvKept
  <1> QED  BY <1>1, <1>2, PTL DEF Spec

\* Every variable of Uploads and Connectors has its type, for any requests, files and faults.
THEOREM TypeCorrect == Spec => []TypeOK
  <1>1. Inv => TypeOK  BY DEF Inv
  <1> QED  BY <1>1, Invariant, PTL

\* A document row stands for bytes that are there, whole and within the limit: complete_multipart,
\* save_bytes and create_queued_document, however requests and syncs interleave and fail.
THEOREM RowsHaveTheirBytes == Spec => []RowHasItsBytes
  <1>1. Inv => RowHasItsBytes  BY DEF Inv, Stored
  <1> QED  BY <1>1, Invariant, PTL

\* A card that shows connected has a credential, with a token if any of its handshakes has
\* brought one: complete_oauth and disconnect, whatever their order and their stale copies.
THEOREM ConnectedKeepTokens == Spec => []ConnectedKeepsToken
  <1>1. ASSUME Inv  PROVE ConnectedKeepsToken
    <2>1. \A g \in Cards : cards[g].cred \in {"none", "empty", "token"}
      BY <1>1, CardFields DEF Inv
    <2> QED  BY <1>1, <2>1 DEF Inv, Explained, ConnectedKeepsToken
  <1> QED  BY <1>1, Invariant, PTL

\* One file's error costs the others nothing: the loop of sync.
THEOREM OthersSynced == Spec => []OthersStillSynced
  <1>1. ASSUME Inv  PROVE OthersStillSynced
    <2>1. ASSUME NEW s \in Syncs, syncs[s].place = "completed"
          PROVE  FilesOf(s) \ (Unfit \cup syncs[s].hit) \subseteq ever
      <3>1. Len(syncs[s].files) \in Nat  BY <1>1, SyncFields DEF Inv, TypeOK
      <3>2. syncs[s].at = Len(syncs[s].files) + 1  BY <1>1, <2>1 DEF Inv, InList
      <3>3. \A i \in 1 .. Len(syncs[s].files) : syncs[s].files[i] \in Unfit \cup syncs[s].hit \cup ever
        BY <1>1, <3>1, <3>2 DEF Inv, Passed
      <3> QED  BY <3>3 DEF FilesOf
    <2> QED  BY <2>1 DEF OthersStillSynced
  <1> QED  BY <1>1, Invariant, PTL

\* A Drive file has one document at most, by _already_synced alone, unless a sync was making
\* it when another one committed it: the race is the only way to two.
THEOREM FilesTwiceInARaceOnly == Spec => []FileOnceUnlessRaced
  <1>1. Inv => FileOnceUnlessRaced  BY DEF Inv
  <1> QED  BY <1>1, Invariant, PTL

=============================================================================
