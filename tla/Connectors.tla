----------------------------- MODULE Connectors ------------------------------
(***************************************************************************)
(* services/connector_service.py and connectors/google_drive.py for the     *)
(* Google Drive card of one workspace, next to its uploads: the seeding of   *)
(* the card, the OAuth handshake, the sync of selected files and            *)
(* disconnecting.  Google is modelled from how the code uses it.            *)
(***************************************************************************)
EXTENDS Uploads, Sequences

CONSTANTS
  Cards,     \* ids of connector rows
  Visits,    \* first requests for the list of connectors
  Flows,     \* OAuth handshakes
  Syncs,     \* requests to sync
  Files,     \* external ids of Drive files
  Unfit,     \* those over the limit or of a type that is not supported
  MaxFiles,  \* bound: files of one request
  MaxBegun,  \* bound: requests of any kind in one behaviour
  Faults     \* what may go wrong in this instance

ASSUME UnfitAssumption      == Unfit \subseteq Files
ASSUME CardsAssumption      == Cards # {}
ASSUME NamesAssumption      == Files \cap (Sources \cup {Pasted}) = {}
ASSUME BoundsAssumption     == MaxFiles \in Nat \ {0} /\ MaxBegun \in Nat
ASSUME ConnectorsAssumption == Faults \subseteq {"google", "db", "crash"}

VARIABLES
  cards,   \* rows of the connectors table and of connector_credentials
  visits,  \* requests that seed the card
  flows,   \* handshakes
  syncs,   \* sync requests
  ever,    \* history: files that have had a document
  raced    \* history: files that one sync was making when another one made them

connVars == <<cards, visits, flows, syncs, ever, raced>>
vars     == <<uploadVars, connVars>>

-----------------------------------------------------------------------------
\* cred: no connector_credentials row, one without a refresh token, or one with it.
CardRow == [there : BOOLEAN, status : {"disconnected", "connected"},
            cred : {"none", "empty", "token"}, synced : BOOLEAN]

\* status, synced and cred (a row was found): what the session has read; token: whether
\* Google has sent a refresh token.
Flow == [place : {"idle", "consenting", "exchanging", "exchanged", "done", "failed"}, card : Cards,
         status : {"disconnected", "connected"}, synced : BOOLEAN, cred : BOOLEAN,
         token : BOOLEAN]

\* at: position in the request; hit: the files this sync has met an error with.
Sync == [place : {"idle", "checking", "fetching", "holding", "saved", "closing",
                  "completed", "failed"},
         card : Cards, files : Seq(Files), at : Nat, id : Ids \cup {0},
         hit : SUBSET Files, poisoned : BOOLEAN]

Seeded     == {g \in Cards : cards[g].there}
AnyCard    == CHOOSE g \in Cards : TRUE
Requests   == UNION {[1 .. k -> Files] : k \in 1 .. MaxFiles}
FilesOf(s) == {syncs[s].files[i] : i \in 1 .. Len(syncs[s].files)}
FileOf(s)  == syncs[s].files[syncs[s].at]
\* Requests that have begun.
Begun ==
  Cardinality({q \in Pushes : pushes[q].place # "idle"}) + Cardinality({v \in Visits : visits[v] # "idle"})
    + Cardinality({f \in Flows : flows[f].place # "idle"}) + Cardinality({s \in Syncs : syncs[s].place # "idle"})

Running(s) == syncs[s].place \notin {"idle", "completed", "failed"}

-----------------------------------------------------------------------------
(* The card: ensure_default_connectors. *)

Visit(v) ==
  /\ visits[v] = "idle" /\ Begun < MaxBegun
  /\ visits' = [visits EXCEPT ![v] = IF Seeded = {} THEN "seeding" ELSE "done"]
  /\ UNCHANGED <<uploadVars, cards, flows, syncs, ever, raced>>

\* Mutant: the status has no default.
SeedWithoutStatus(v, g) ==
  /\ visits[v] = "seeding" /\ g \notin Seeded
  /\ cards' = [cards EXCEPT ![g].there = TRUE, ![g].status = "null"]
  /\ visits' = [visits EXCEPT ![v] = "done"]
  /\ UNCHANGED <<uploadVars, flows, syncs, ever, raced>>

\* Nothing makes the card unique but the SELECT before.
Seed(v, g) ==
  /\ visits[v] = "seeding" /\ g \notin Seeded
  /\ cards' = [cards EXCEPT ![g].there = TRUE]
  /\ visits' = [visits EXCEPT ![v] = "done"]
  /\ UNCHANGED <<uploadVars, flows, syncs, ever, raced>>

-----------------------------------------------------------------------------
(* The handshake: start_oauth and complete_oauth. *)

ToFlow(f, place) == flows' = [flows EXCEPT ![f].place = place]

\* scalar_one_or_none raises if there are two; the state Google returns names the card.
StartOAuth(f, g) ==
  /\ flows[f].place = "idle" /\ Seeded = {g} /\ Begun < MaxBegun
  /\ flows' = [flows EXCEPT ![f].place = "consenting", ![f].card = g]
  /\ UNCHANGED <<uploadVars, cards, visits, syncs, ever, raced>>

\* The callback loads the card, then asks Google for tokens.
Callback(f) ==
  /\ flows[f].place = "consenting"
  /\ LET card == cards[flows[f].card] IN
       flows' = [flows EXCEPT ![f].place = "exchanging", ![f].status = card.status,
                              ![f].synced = card.synced]
  /\ UNCHANGED <<uploadVars, cards, visits, syncs, ever, raced>>

\* The code is exchanged, for an answer with a refresh token or without one, and the stored
\* credential looked for.
Exchange(f) ==
  /\ flows[f].place = "exchanging"
  /\ \E token \in BOOLEAN :
       flows' = [flows EXCEPT ![f].place = "exchanged", ![f].token = token,
                              ![f].cred = cards[flows[f].card].cred # "none"]
  /\ UNCHANGED <<uploadVars, cards, visits, syncs, ever, raced>>

\* Mutant: what Google has not sent is written all the same.
CredentialAnyway(f, stored) == IF flows[f].token THEN "token" ELSE "empty"

\* A new refresh token replaces the stored one; without one that stays as it is.
Credential(f, stored) ==
  IF flows[f].token THEN "token" ELSE IF stored = "none" THEN "empty" ELSE stored

\* Credential and card in one commit; what the session's copy of the card has already is
\* not written, and of two first credentials the second violates the constraint.
StoreTokens(f) ==
  /\ flows[f].place = "exchanged"
  /\ LET g == flows[f].card IN
       IF ~flows[f].cred /\ cards[g].cred # "none"
       THEN ToFlow(f, "failed") /\ UNCHANGED cards
       ELSE /\ cards' = [cards EXCEPT ![g].cred = Credential(f, @), ![g].synced = @ \/ ~flows[f].synced,
              ![g].status = IF flows[f].status = "connected" THEN @ ELSE "connected"]
            /\ ToFlow(f, "done")
  /\ UNCHANGED <<uploadVars, visits, syncs, ever, raced>>

FlowFails(f) ==
  /\ Faults # {}
  /\ flows[f].place \in {"consenting", "exchanging", "exchanged"}
  /\ ToFlow(f, "failed")
  /\ UNCHANGED <<uploadVars, cards, visits, syncs, ever, raced>>

\* The credential is kept.
Disconnect(g) ==
  /\ g \in Seeded
  /\ cards' = [cards EXCEPT ![g].status = "disconnected", ![g].synced = FALSE]
  /\ UNCHANGED <<uploadVars, visits, flows, syncs, ever, raced>>

-----------------------------------------------------------------------------
(* sync: one file after another. *)

ToSync(s, place) == syncs' = [syncs EXCEPT ![s].place = place]

\* The next file, or the end of the list.
Advanced(sync) ==
  [sync EXCEPT !.at = @ + 1, !.id = 0,
     !.place = IF sync.at = Len(sync.files) THEN "closing" ELSE "checking"]

\* Mutant: an error ends the loop.
StoppedWith(sync, f) == [sync EXCEPT !.hit = @ \cup {f}, !.place = "closing", !.id = 0]

\* The except clause around one file.
FailedWith(sync, f) == Advanced([sync EXCEPT !.hit = @ \cup {f}])

\* The stored token is used whatever the status of the card says; without one the request
\* is refused.
BeginSync(s, g) ==
  /\ syncs[s].place = "idle" /\ g \in Seeded /\ cards[g].cred = "token" /\ Begun < MaxBegun
  /\ \E files \in Requests :
       syncs' = [syncs EXCEPT ![s].place = "checking", ![s].card = g,
                              ![s].files = files, ![s].at = 1]
  /\ UNCHANGED <<uploadVars, cards, visits, flows, ever, raced>>

\* Mutant: a repeated file id is only looked for once, before the loop.
NotSynced(s) == FileOf(s) \notin {d.from : d \in docs} \/ \E i \in 1 .. syncs[s].at - 1 : syncs[s].files[i] = FileOf(s)

\* _already_synced: SELECT by workspace and external id.
IsNew(s) == FileOf(s) \notin {d.from : d \in docs}

Check(s) ==
  /\ syncs[s].place = "checking"
  /\ syncs' = [syncs EXCEPT ![s] =
       IF @.poisoned THEN FailedWith(@, FileOf(s))
       ELSE IF IsNew(s) THEN [@ EXCEPT !.place = "fetching"]
       ELSE Advanced(@)]
  /\ UNCHANGED <<uploadVars, cards, visits, flows, ever, raced>>

\* The metadata, which may tell to skip the file, and its content.  Files do not change
\* while they are fetched.
Fetch(s) ==
  /\ syncs[s].place = "fetching"
  /\ syncs' = [syncs EXCEPT ![s] =
       IF FileOf(s) \in Unfit THEN Advanced(@) ELSE [@ EXCEPT !.place = "holding"]]
  /\ UNCHANGED <<uploadVars, cards, visits, flows, ever, raced>>

SaveFile(s) ==
  /\ syncs[s].place = "holding"
  /\ \E n \in Ids :
       /\ Draw(n) /\ Saved(n, Whole)
       /\ syncs' = [syncs EXCEPT ![s].place = "saved", ![s].id = n]
  /\ UNCHANGED <<parts, docs, pushes, cards, visits, flows, ever, raced>>

\* Other syncs have found the file of this one absent, and not made it yet.
Races(s) ==
  \E t \in Syncs \ {s} :
    syncs[t].place \in {"fetching", "holding", "saved"} /\ FileOf(t) = FileOf(s)

CommitFile(s) ==
  /\ syncs[s].place = "saved"
  /\ Queued(syncs[s].id, FileOf(s))
  /\ ever' = ever \cup {FileOf(s)}
  /\ raced' = raced \cup IF Races(s) THEN {FileOf(s)} ELSE {}
  /\ syncs' = [syncs EXCEPT ![s] = Advanced(@)]
  /\ UNCHANGED <<parts, objects, drawn, pushes, cards, visits, flows>>

\* Google or the store fails on one file; the database does, and the session is unusable
\* from then on since nothing rolls it back.
FileFails(s) ==
  /\ \/ /\ "google" \in Faults /\ syncs[s].place \in {"fetching", "holding"}
        /\ syncs' = [syncs EXCEPT ![s] = FailedWith(@, FileOf(s))]
     \/ /\ "db" \in Faults /\ syncs[s].place = "saved"
        /\ syncs' = [syncs EXCEPT ![s] = FailedWith([@ EXCEPT !.poisoned = TRUE], FileOf(s))]
  /\ UNCHANGED <<uploadVars, cards, visits, flows, ever, raced>>

\* The card's last_synced_at, in a commit of its own.
Close(s) ==
  /\ syncs[s].place = "closing"
  /\ IF syncs[s].poisoned
     THEN ToSync(s, "failed") /\ UNCHANGED cards
     ELSE ToSync(s, "completed") /\ cards' = [cards EXCEPT ![syncs[s].card].synced = TRUE]
  /\ UNCHANGED <<uploadVars, visits, flows, ever, raced>>

\* The API process dies; the user may ask again with another request.
SyncDies(s) ==
  /\ "crash" \in Faults /\ Running(s)
  /\ ToSync(s, "failed")
  /\ UNCHANGED <<uploadVars, cards, visits, flows, ever, raced>>

-----------------------------------------------------------------------------
Init ==
  /\ UploadsInit
  /\ cards = [g \in Cards |-> [there |-> FALSE, status |-> "disconnected", cred |-> "none", synced |-> FALSE]]
  /\ visits = [v \in Visits |-> "idle"]
  /\ flows = [f \in Flows |-> [place |-> "idle", card |-> AnyCard, status |-> "disconnected",
                               synced |-> FALSE, cred |-> FALSE, token |-> FALSE]]
  /\ syncs = [s \in Syncs |-> [place |-> "idle", card |-> AnyCard, files |-> <<>>, at |-> 0,
                               id |-> 0, hit |-> {}, poisoned |-> FALSE]]
  /\ ever = {} /\ raced = {}

Next ==
  \/ UploadsNext /\ UNCHANGED connVars /\ Begun' <= MaxBegun
  \/ \E v \in Visits : Visit(v) \/ \E g \in Cards : Seed(v, g)
  \/ \E f \in Flows : \/ \E g \in Cards : StartOAuth(f, g)
                      \/ Callback(f) \/ Exchange(f) \/ StoreTokens(f) \/ FlowFails(f)
  \/ \E g \in Cards : Disconnect(g)
  \/ \E s \in Syncs : \/ \E g \in Cards : BeginSync(s, g)
                      \/ Check(s) \/ Fetch(s) \/ SaveFile(s) \/ CommitFile(s)
                      \/ FileFails(s) \/ Close(s) \/ SyncDies(s)

Spec == Init /\ [][Next]_vars

-----------------------------------------------------------------------------
(* Properties. *)

\* Every variable has its type.
TypeOK ==
  /\ parts \in [Sources -> SUBSET AllParts]
  /\ objects \in [Ids -> SUBSET Content]
  /\ docs \subseteq [id : Ids, from : Sources \cup Files \cup {Pasted}]
  /\ drawn \in 0 .. MaxIds
  /\ pushes \in [Pushes -> Push]
  /\ cards \in [Cards -> CardRow]
  /\ visits \in [Visits -> {"idle", "seeding", "done"}]
  /\ flows \in [Flows -> Flow]
  /\ syncs \in [Syncs -> Sync]
  /\ ever \subseteq Files /\ raced \subseteq Files

\* A Drive file is one document, twice in one request, in several one after another, or
\* after one that died half way; it is two only if a sync was making it when another one
\* committed it.
FileOnceUnlessRaced ==
  \A d, e \in docs : (d.from = e.from /\ d.from \in Files \ raced) => d = e

\* A card that shows connected has a credential, with a token if any of its handshakes has
\* brought one, in whatever order they and disconnects went, over each other's stale
\* copies, and with errors at any of their steps.
Completed(g) == {f \in Flows : flows[f].place = "done" /\ flows[f].card = g}
ConnectedKeepsToken ==
  \A g \in Cards : cards[g].status = "connected" =>
     /\ Completed(g) # {}
     /\ cards[g].cred = IF \E f \in Completed(g) : flows[f].token THEN "token" ELSE "empty"

\* "Best-effort per file": a sync that reports completed has made a document of every
\* file it could, whatever has happened to the files before it in the list.
OthersStillSynced ==
  \A s \in Syncs : syncs[s].place = "completed" =>
     FilesOf(s) \ (Unfit \cup syncs[s].hit) \subseteq ever

-----------------------------------------------------------------------------
(* Promises of the docs that the code does not keep; no run states them. *)

\* One card per connector type: two first visits leave two, and start_oauth raises from
\* then on.
OneCard == Cardinality(Seeded) <= 1

\* Spec 006, 3: "Disconnect revokes credentials and marks disconnected".
DisconnectRevokes ==
  [][\A g \in Cards : cards[g].status = "connected" /\ cards'[g].status = "disconnected"
        => cards'[g].cred # "token"]_vars

\* Spec 006, 2: "Sync skips already-synced (id+mtime), unsupported MIME, and >500 MB files",
\* for syncs that run side by side, too.
FileOnce == \A d, e \in docs : d.from = e.from /\ d.from \in Files => d = e

\* "The card only exposes Browse once connected", so that it has a token: Google's answer may
\* come without one, and the card is connected all the same.
ConnectedIsAuthorized == \A g \in Cards : cards[g].status = "connected" => cards[g].cred = "token"

\* A card that has been disconnected does not show a sync.
DisconnectedIsBlank == \A g \in Cards : cards[g].status = "disconnected" => ~cards[g].synced

\* "Best-effort per file; keep syncing": an error of the database, too, is one file's.
KeepsSyncing == \A s \in Syncs : ~syncs[s].poisoned

=============================================================================
