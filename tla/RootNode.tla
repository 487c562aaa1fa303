------------------------------ MODULE RootNode ------------------------------
(***************************************************************************)
(* The Root node's request handlers: the ones that hold AppState.lock      *)
(* (verify-and-publish, the two authorizations, the domain update and the  *)
(* revocation), step by step, one step per file or table they write.       *)
(*                                                                         *)
(* Root keeps its state in files, each rewritten as a whole by fs::write,  *)
(* and in SQLite tables.  A step of a handler is what it does up to and    *)
(* including one write.  Between two steps the process may crash, a write  *)
(* may fail, or the client may disconnect; a failed write can leave the    *)
(* file truncated ("torn"), which no reader can parse.                     *)
(*                                                                         *)
(* A document stands for its hash.  An event's hash, previous hash and     *)
(* signature are the subject of module Bulletin; here an event is          *)
(* identified by its core.  Timestamps are left out.                       *)
(***************************************************************************)
EXTENDS Integers, Sequences, FiniteSets

CONSTANTS
    Procs,       \* tasks that serve requests
    Agents,      \* DIDs of Agents
    Documents,   \* Agent DID Documents, each standing for its hash
    Nodes,       \* DIDs of Registrar and Discovery nodes
    Domains,     \* capability domains, the wildcard "*" among them
    AnyDomain,   \* the wildcard "*"
    Nonces,      \* request nonces
    NoProc, NoDocument, NoNonce,
    Requests,    \* the requests clients may send
    Seed,        \* the bulletin the deployment starts from
    UseSqlite,   \* whether paths.database_url is configured
    Tearable,    \* files whose interrupted write may leave them truncated
    MaxEvents,   \* bound: no request is taken once the bulletin has this many
    MaxFaults    \* bound: crashes and failed writes

Roles == {"registrar", "discovery", "vc-issuer"}
Status == {"absent", "active", "revoked"}
Files == {"nonces", "bulletin", "authorization", "latest",
          "cdn_queue", "discovery_queue"}

AgentEvent ==
    [sequence    : Nat,
     event_type  : {"AGENT_DID_DOCUMENT_ANCHORED", "AGENT_DID_DOCUMENT_UPDATED"},
     subject_did : Agents,
     payload     : [registrarDid : Nodes, didDocument : Documents,
                    documentVersion : Nat,
                    operation : {"create", "update", "no-op"}]]

NodeEvent ==
    [sequence    : Nat,
     event_type  : {"REGISTRAR_AUTHORIZED", "REGISTRAR_REVOKED",
                    "DISCOVERY_NODE_AUTHORIZED",
                    "DISCOVERY_NODE_DOMAINS_UPDATED", "NODE_REVOKED"},
     subject_did : Nodes,
     payload     : [role : Roles, authorizedDomains : SUBSET Domains]]

Event == AgentEvent \cup NodeEvent

\* signature_ok: requestSignature is absent or verifies.  credential_ok: every
\* check of verify_request that looks at the request alone succeeds (DID
\* syntax, document structure, subject type, registration credential).
PublishRequest ==
    [op : {"publish"}, registrarDid : Nodes, agentDid : Agents,
     didDocument : Documents, nonce : Nonces \cup {NoNonce},
     signature_ok : BOOLEAN, credential_ok : BOOLEAN]

NodeRequest ==
    [op : {"authorize_registrar", "authorize_discovery", "update_domains",
           "revoke"},
     did : Nodes, role : Roles, authorizedDomains : SUBSET Domains]

ASSUME ConstantsAssumption ==
    /\ NoProc \notin Procs
    /\ NoDocument \notin Documents
    /\ NoNonce \notin Nonces
    /\ AnyDomain \in Domains
    /\ Requests \subseteq PublishRequest \cup NodeRequest
    /\ UseSqlite \in BOOLEAN
    /\ Tearable \subseteq Files
    /\ MaxEvents \in Nat
    /\ MaxFaults \in Nat

ASSUME SeedAssumption ==
    /\ Seed \in Seq(NodeEvent)
    /\ \A i \in 1..Len(Seed) : Seed[i].sequence = i

VARIABLES
    bulletin,      \* bulletin.json
    authorization, \* authorization-state.json
    snapshot,      \* AppState.authorization_state, loaded at startup
    nonces,        \* request-nonces.json
    latest,        \* indexes/latest-did-document-versions.json
    archive,       \* archive/<did>/v<n>/package.json
    cdnJson,       \* queues/cdn-publish.json
    cdnSql,        \* table namespace root.cdn_publish_queue
    discoveryJson, \* queues/discovery-notify.json
    discoverySql,  \* table namespace root.discovery_notify_queue
    torn,          \* files truncated by an interrupted write
    lock,          \* AppState.lock: its holder
    pc,            \* per task: the write its handler does next
    req,           \* per task: the request it serves
    view,          \* per task: the bulletin read by append_event
    event,         \* per task: the event it appends
    answered,      \* history: the "verified-and-queued" responses sent
    anchors,       \* history: nonce and sequence of each request anchored
    faults         \* how many crashes and failed writes so far

fileVars == <<bulletin, authorization, nonces, latest, archive, torn>>
queueVars == <<cdnJson, cdnSql, discoveryJson, discoverySql>>
handlerVars == <<lock, pc, req, view, event>>
historyVars == <<answered, anchors, faults>>
rootVars == <<fileVars, snapshot, queueVars, handlerVars, historyVars>>

NoRequest == [op |-> "none"]
NoEvent == [sequence |-> 0]
NoVersion == [version |-> 0, didDocument |-> NoDocument, sequence |-> 0]
NoVersions == [a \in Agents |-> NoVersion]

NoAuthorization ==
    [registrars      |-> [n \in Nodes |-> "absent"],
     vc_issuers      |-> [n \in Nodes |-> "absent"],
     discovery_nodes |-> [n \in Nodes |-> [status |-> "absent",
                                           authorizedDomains |-> {}]]]

Authorization ==
    [registrars      : [Nodes -> Status],
     vc_issuers      : [Nodes -> Status],
     discovery_nodes : [Nodes -> [status : Status,
                                  authorizedDomains : SUBSET Domains]]]

\* A verified package, and a notification item: rootProof.bulletinEventHash and
\* bulletinSequence both name the event, here by its sequence number.
Package == [did : Agents, didDocument : Documents, sequence : Nat]

\* A package under its version number, as archived and as answered.
VersionedPackage == [did : Agents, version : Nat, didDocument : Documents,
                     sequence : Nat]

-----------------------------------------------------------------------------
(* Reading the files.                                                      *)

\* load_authorization_state(..).unwrap_or_else(|_| startup snapshot)
LoadAuthorization ==
    IF "authorization" \in torn THEN snapshot ELSE authorization

\* read_latest_versions: an unreadable index reads as an empty one
ReadLatest == IF "latest" \in torn THEN NoVersions ELSE latest

\* the queue files are read with unwrap_or_default
ReadCdnJson == IF "cdn_queue" \in torn THEN {} ELSE cdnJson
ReadDiscoveryJson == IF "discovery_queue" \in torn THEN {} ELSE discoveryJson

Recorded(b, type, did) ==
    \E i \in 1..Len(b) : b[i].event_type = type /\ b[i].subject_did = did

RegistrarAuthorized(b, did) ==
    /\ Recorded(b, "REGISTRAR_AUTHORIZED", did)
    /\ ~Recorded(b, "REGISTRAR_REVOKED", did)

-----------------------------------------------------------------------------
Init ==
    /\ bulletin = Seed
    /\ authorization = NoAuthorization
    /\ snapshot = NoAuthorization
    /\ nonces = {}
    /\ latest = NoVersions
    /\ archive = {}
    /\ cdnJson = {} /\ cdnSql = {}
    /\ discoveryJson = {} /\ discoverySql = {}
    /\ torn = {}
    /\ lock = NoProc
    /\ pc = [p \in Procs |-> "idle"]
    /\ req = [p \in Procs |-> NoRequest]
    /\ view = [p \in Procs |-> <<>>]
    /\ event = [p \in Procs |-> NoEvent]
    /\ answered = {} /\ anchors = {}
    /\ faults = 0

At(p, here) == pc[p] = here
GoTo(p, next) == pc' = [pc EXCEPT ![p] = next]

ReturnKeepingLock(p) ==
    /\ UNCHANGED lock
    /\ GoTo(p, "idle")
    /\ req' = [req EXCEPT ![p] = NoRequest]
    /\ view' = [view EXCEPT ![p] = <<>>]
    /\ event' = [event EXCEPT ![p] = NoEvent]

\* The handler returns, with a response or an error: its guard is dropped.
Return(p) ==
    /\ lock' = NoProc
    /\ GoTo(p, "idle")
    /\ req' = [req EXCEPT ![p] = NoRequest]
    /\ view' = [view EXCEPT ![p] = <<>>]
    /\ event' = [event EXCEPT ![p] = NoEvent]

AcquireUnguarded(p, r) ==
    /\ At(p, "idle")
    /\ Len(bulletin) < MaxEvents
    /\ lock' = p
    /\ req' = [req EXCEPT ![p] = r]
    /\ GoTo(p, IF r.op = "publish" THEN "nonce" ELSE "read")
    /\ UNCHANGED <<fileVars, snapshot, queueVars, view, event, historyVars>>

\* let _guard = state.lock.lock().await
Acquire(p, r) ==
    /\ At(p, "idle")
    /\ lock = NoProc
    /\ Len(bulletin) < MaxEvents
    /\ lock' = p
    /\ req' = [req EXCEPT ![p] = r]
    /\ GoTo(p, IF r.op = "publish" THEN "nonce" ELSE "read")
    /\ UNCHANGED <<fileVars, snapshot, queueVars, view, event, historyVars>>

(***************************************************************************)
(* verify_and_publish                                                      *)
(***************************************************************************)
NonceUnchecked(r) == r.signature_ok

NonceAccepted(r) ==
    /\ r.signature_ok
    /\ r.nonce # NoNonce => "nonces" \notin torn /\ r.nonce \notin nonces

\* verify_request_signature and verify_request_nonce; the nonce is saved before
\* anything else of the request is looked at.
VerifyNonce(p) ==
    /\ At(p, "nonce")
    /\ NonceAccepted(req[p])
    /\ nonces' = nonces \cup ({req[p].nonce} \ {NoNonce})
    /\ GoTo(p, "verify")
    /\ UNCHANGED <<bulletin, authorization, latest, archive, torn, snapshot,
                   queueVars, lock, req, view, event, historyVars>>

AnyRegistrarAccepted(r) == "bulletin" \notin torn /\ r.credential_ok

RequestAccepted(r) ==
    /\ "bulletin" \notin torn
    /\ RegistrarAuthorized(bulletin, r.registrarDid)
    /\ r.credential_ok

OperationWithoutNoOp(r) ==
    IF ReadLatest[r.agentDid].version = 0 THEN "create" ELSE "update"

Operation(r) ==
    IF ReadLatest[r.agentDid].version = 0 THEN "create"
    ELSE IF ReadLatest[r.agentDid].didDocument = r.didDocument THEN "no-op"
    ELSE "update"

NextVersionOnCreate(r) ==
    ReadLatest[r.agentDid].version + (IF Operation(r) = "create" THEN 1 ELSE 0)

NextVersion(r) ==
    ReadLatest[r.agentDid].version + (IF Operation(r) = "no-op" THEN 0 ELSE 1)

NextSequenceFromZero == Len(bulletin)

\* append_event: bulletin.events.len() as u64 + 1
NextSequence == Len(bulletin) + 1

\* verify_request, the version decision and the read half of append_event: all
\* reads, no write between them.
VerifyRequest(p) ==
    LET r == req[p] IN
    /\ At(p, "verify")
    /\ RequestAccepted(r)
    /\ view' = [view EXCEPT ![p] = bulletin]
    /\ event' = [event EXCEPT ![p] =
         [sequence    |-> NextSequence,
          event_type  |-> IF Operation(r) = "update"
                          THEN "AGENT_DID_DOCUMENT_UPDATED"
                          ELSE "AGENT_DID_DOCUMENT_ANCHORED",
          subject_did |-> r.agentDid,
          payload     |-> [registrarDid    |-> r.registrarDid,
                           didDocument     |-> r.didDocument,
                           documentVersion |-> NextVersion(r),
                           operation       |-> Operation(r)]]]
    /\ GoTo(p, "write")
    /\ UNCHANGED <<fileVars, snapshot, queueVars, lock, req, historyVars>>

RejectRequest(p) ==
    /\ \/ At(p, "nonce") /\ ~NonceAccepted(req[p])
       \/ At(p, "verify") /\ ~RequestAccepted(req[p])
    /\ Return(p)
    /\ UNCHANGED <<fileVars, snapshot, queueVars, historyVars>>

\* The write half of append_event.
WriteBulletin(p) ==
    /\ At(p, "write")
    /\ bulletin' = Append(view[p], event[p])
    /\ view' = [view EXCEPT ![p] = <<>>]
    /\ anchors' = IF req[p].op = "publish"
                  THEN anchors \cup {[nonce    |-> req[p].nonce,
                                      sequence |-> event[p].sequence]}
                  ELSE anchors
    /\ GoTo(p, IF req[p].op = "publish" THEN "archive" ELSE "authorization")
    /\ UNCHANGED <<authorization, nonces, latest, archive, torn, snapshot,
                   queueVars, lock, req, event, answered, faults>>

VersionOfSwapped(p) ==
    [version     |-> event[p].payload.documentVersion,
     didDocument |-> event[p].subject_did,
     sequence    |-> event[p].sequence]

\* The version entry and the package of the event task p has appended.
VersionOf(p) ==
    [version     |-> event[p].payload.documentVersion,
     didDocument |-> event[p].payload.didDocument,
     sequence    |-> event[p].sequence]

PackageOf(p) ==
    [did         |-> event[p].subject_did,
     didDocument |-> event[p].payload.didDocument,
     sequence    |-> event[p].sequence]

ArchiveEntry(p) ==
    [did         |-> event[p].subject_did,
     version     |-> event[p].payload.documentVersion,
     didDocument |-> event[p].payload.didDocument,
     sequence    |-> event[p].sequence]

ArchiveVerifiedOnce(p) ==
    /\ At(p, "archive")
    /\ archive' = IF \E x \in archive : /\ x.did = ArchiveEntry(p).did
                                         /\ x.version = ArchiveEntry(p).version
                  THEN archive ELSE archive \cup {ArchiveEntry(p)}
    /\ GoTo(p, "latest")
    /\ UNCHANGED <<bulletin, authorization, nonces, latest, torn, snapshot,
                   queueVars, lock, req, view, event, historyVars>>

\* The three files under archive/<did>/v<version>, overwriting the ones there.
ArchiveVerified(p) ==
    /\ At(p, "archive")
    /\ archive' = {x \in archive : \/ x.did # ArchiveEntry(p).did
                                   \/ x.version # ArchiveEntry(p).version}
                    \cup {ArchiveEntry(p)}
    /\ GoTo(p, "latest")
    /\ UNCHANGED <<bulletin, authorization, nonces, latest, torn, snapshot,
                   queueVars, lock, req, view, event, historyVars>>

\* update_latest_version; the SQLite mirror that follows is read by nobody, but
\* awaiting it is a point where the handler can be dropped.
UpdateLatestVersion(p) ==
    /\ At(p, "latest")
    /\ latest' = [ReadLatest EXCEPT ![event[p].subject_did] = VersionOf(p)]
    /\ torn' = torn \ {"latest"}
    /\ GoTo(p, "cdn_json")
    /\ UNCHANGED <<bulletin, authorization, nonces, archive, snapshot,
                   queueVars, lock, req, view, event, historyVars>>

\* queue.retain(|item| item.did != package.did); queue.push(package)
Supersede(queue, package) ==
    {x \in queue : x.did # package.did} \cup {package}

\* enqueue_cdn, the file: queue is what reading it returned
EnqueueCdnJson(p, queue) ==
    /\ At(p, "cdn_json")
    /\ cdnJson' = Supersede(queue, PackageOf(p))
    /\ torn' = torn \ {"cdn_queue"}
    /\ GoTo(p, IF UseSqlite THEN "cdn_sql" ELSE "discovery_json")
    /\ UNCHANGED <<bulletin, authorization, nonces, latest, archive, snapshot,
                   cdnSql, discoveryJson, discoverySql, lock, req, view, event,
                   historyVars>>

\* enqueue_cdn, the table: a row per DID
EnqueueCdnSql(p) ==
    /\ At(p, "cdn_sql")
    /\ cdnSql' = Supersede(cdnSql, PackageOf(p))
    /\ GoTo(p, "discovery_json")
    /\ UNCHANGED <<fileVars, snapshot, cdnJson, discoveryJson, discoverySql,
                   lock, req, view, event, historyVars>>

Respond(p) ==
    /\ answered' = answered \cup {ArchiveEntry(p)}
    /\ Return(p)

\* enqueue_discovery, the file; without SQLite it is the last step
EnqueueDiscoveryJson(p, queue) ==
    /\ At(p, "discovery_json")
    /\ discoveryJson' = queue \cup {PackageOf(p)}
    /\ torn' = torn \ {"discovery_queue"}
    /\ IF UseSqlite
         THEN /\ GoTo(p, "discovery_sql")
              /\ UNCHANGED <<lock, req, view, event, answered>>
         ELSE Respond(p)
    /\ UNCHANGED <<bulletin, authorization, nonces, latest, archive, snapshot,
                   cdnJson, cdnSql, discoverySql, anchors, faults>>

\* enqueue_discovery, the table: a row per DID and sequence
EnqueueDiscoverySql(p) ==
    /\ At(p, "discovery_sql")
    /\ discoverySql' = discoverySql \cup {PackageOf(p)}
    /\ Respond(p)
    /\ UNCHANGED <<fileVars, snapshot, cdnJson, cdnSql, discoveryJson, anchors,
                   faults>>

(***************************************************************************)
(* authorize_registrar, authorize_discovery, update_discovery_domains and  *)
(* revoke_node: append an event, then bring the authorization file along.  *)
(***************************************************************************)
NodeEventType(op) ==
    CASE op = "authorize_registrar" -> "REGISTRAR_AUTHORIZED"
      [] op = "authorize_discovery" -> "DISCOVERY_NODE_AUTHORIZED"
      [] op = "update_domains"      -> "DISCOVERY_NODE_DOMAINS_UPDATED"
      [] op = "revoke"              -> "NODE_REVOKED"

ReadBulletin(p) ==
    /\ At(p, "read")
    /\ "bulletin" \notin torn
    /\ view' = [view EXCEPT ![p] = bulletin]
    /\ event' = [event EXCEPT ![p] =
         [sequence    |-> NextSequence,
          event_type  |-> NodeEventType(req[p].op),
          subject_did |-> req[p].did,
          payload     |-> [role |-> req[p].role,
                           authorizedDomains |-> req[p].authorizedDomains]]]
    /\ GoTo(p, "write")
    /\ UNCHANGED <<fileVars, snapshot, queueVars, lock, req, historyVars>>

\* read_bulletin fails: the handler answers with an internal error
FailRead(p) ==
    /\ At(p, "read")
    /\ "bulletin" \in torn
    /\ Return(p)
    /\ UNCHANGED <<fileVars, snapshot, queueVars, historyVars>>

\* update_authorization_state with discovery = None: the role "discovery" has no
\* entry to insert, every other role but "vc-issuer" inserts a registrar.
AuthorizeRegistrar(a, did, role) ==
    CASE role = "discovery" -> a
      [] role = "vc-issuer" -> [a EXCEPT !.vc_issuers[did] = "active"]
      [] OTHER              -> [a EXCEPT !.registrars[did] = "active"]

AuthorizeDiscovery(a, did) ==
    [a EXCEPT !.discovery_nodes[did] = [status |-> "active",
                                        authorizedDomains |-> {AnyDomain}]]

UpdateDomains(a, did, domains) ==
    [a EXCEPT !.discovery_nodes[did].authorizedDomains = domains]

RevokedIfPresent(status) == IF status = "absent" THEN "absent" ELSE "revoked"

RevokeInfrastructure(a, did) ==
    [a EXCEPT !.registrars[did] = RevokedIfPresent(@),
              !.vc_issuers[did] = RevokedIfPresent(@)]

Revoke(a, did) ==
    [a EXCEPT !.registrars[did] = RevokedIfPresent(@),
              !.vc_issuers[did] = RevokedIfPresent(@),
              !.discovery_nodes[did].status = RevokedIfPresent(@)]

Amended(a, r) ==
    CASE r.op = "authorize_registrar" -> AuthorizeRegistrar(a, r.did, r.role)
      [] r.op = "authorize_discovery" -> AuthorizeDiscovery(a, r.did)
      [] r.op = "update_domains"      -> UpdateDomains(a, r.did, r.authorizedDomains)
      [] r.op = "revoke"              -> Revoke(a, r.did)

\* update_discovery_domains writes nothing when it has no entry for the node.
UpdateAuthorization(p) ==
    LET loaded == LoadAuthorization IN
    /\ At(p, "authorization")
    /\ IF /\ req[p].op = "update_domains"
          /\ loaded.discovery_nodes[req[p].did].status = "absent"
         THEN UNCHANGED <<authorization, torn>>
         ELSE /\ authorization' = Amended(loaded, req[p])
              /\ torn' = torn \ {"authorization"}
    /\ Return(p)
    /\ UNCHANGED <<bulletin, nonces, latest, archive, snapshot, queueVars,
                   historyVars>>

(***************************************************************************)
(* Failures                                                                *)
(***************************************************************************)
\* The file a task at this point is about to write.
FileAt ==
    [nonce |-> "nonces", write |-> "bulletin", authorization |-> "authorization",
     latest |-> "latest", cdn_json |-> "cdn_queue",
     discovery_json |-> "discovery_queue"]

Tears(p) ==
    IF pc[p] \in DOMAIN FileAt /\ FileAt[pc[p]] \in Tearable
    THEN {torn, torn \cup {FileAt[pc[p]]}}
    ELSE {torn}

Writing == {"nonce", "write", "archive", "latest", "cdn_json", "cdn_sql",
            "discovery_json", "discovery_sql", "authorization"}

\* A write returns an error, or the client disconnects and the handler's future
\* is dropped where it awaits SQLite.
Abandon(p) ==
    /\ faults < MaxFaults
    /\ pc[p] \in Writing
    /\ torn' \in Tears(p)
    /\ faults' = faults + 1
    /\ Return(p)
    /\ UNCHANGED <<bulletin, authorization, nonces, latest, archive, snapshot,
                   queueVars, answered, anchors>>

\* The process dies and is started again: main() reloads the snapshot, an
\* unreadable authorization file giving an empty one.
Restart(tears) ==
    /\ faults < MaxFaults
    /\ torn' \in {torn} \cup tears
    /\ snapshot' = IF "authorization" \in torn' THEN NoAuthorization
                   ELSE authorization
    /\ faults' = faults + 1
    /\ lock' = NoProc
    /\ pc' = [p \in Procs |-> "idle"]
    /\ req' = [p \in Procs |-> NoRequest]
    /\ view' = [p \in Procs |-> <<>>]
    /\ event' = [p \in Procs |-> NoEvent]
    /\ UNCHANGED <<bulletin, authorization, nonces, latest, archive, queueVars,
                   answered, anchors>>

Crash == Restart(UNION {Tears(p) : p \in Procs})

-----------------------------------------------------------------------------
Step(p) ==
    \/ VerifyNonce(p) \/ VerifyRequest(p) \/ RejectRequest(p)
    \/ ReadBulletin(p) \/ FailRead(p) \/ WriteBulletin(p)
    \/ ArchiveVerified(p) \/ UpdateLatestVersion(p)
    \/ EnqueueCdnJson(p, ReadCdnJson) \/ EnqueueCdnSql(p)
    \/ EnqueueDiscoveryJson(p, ReadDiscoveryJson) \/ EnqueueDiscoverySql(p)
    \/ UpdateAuthorization(p)

Next ==
    \/ \E p \in Procs, r \in Requests : Acquire(p, r)
    \/ \E p \in Procs : Step(p)
    \/ \E p \in Procs : Abandon(p)
    \/ Crash

Spec == Init /\ [][Next]_rootVars

\* A handler that was admitted runs on: it is a task of the async runtime, and
\* everything it waits for is local.
FairSpec == Spec /\ \A p \in Procs : WF_rootVars(Step(p))

-----------------------------------------------------------------------------
(* Properties                                                              *)

FilesTypeOK ==
    /\ bulletin \in Seq(Event)
    /\ authorization \in Authorization
    /\ snapshot \in Authorization
    /\ nonces \subseteq Nonces
    /\ latest \in [Agents -> [version : Nat,
                              didDocument : Documents \cup {NoDocument},
                              sequence : Nat]]
    /\ archive \subseteq VersionedPackage
    /\ torn \subseteq Tearable

QueuesTypeOK ==
    /\ cdnJson \subseteq Package /\ cdnSql \subseteq Package
    /\ discoveryJson \subseteq Package /\ discoverySql \subseteq Package

HandlersTypeOK ==
    /\ lock \in Procs \cup {NoProc}
    /\ pc \in [Procs -> Writing \cup {"idle", "verify", "read"}]
    /\ req \in [Procs -> Requests \cup {NoRequest}]
    /\ view \in [Procs -> Seq(Event)]
    /\ event \in [Procs -> Event \cup {NoEvent}]

HistoryTypeOK ==
    /\ answered \subseteq VersionedPackage
    /\ anchors \subseteq [nonce : Nonces \cup {NoNonce}, sequence : Nat]
    /\ faults \in Nat

\* Every variable has its type.
TypeOK == FilesTypeOK /\ QueuesTypeOK /\ HandlersTypeOK /\ HistoryTypeOK

\* The bulletin is an append-only log: whatever the handlers, crashes and failed
\* writes do, a step leaves it as it is or adds one event at its end
\* (append_event reads the file, and writes it back one event longer).
BulletinIsAppendOnly ==
    [][/\ Len(bulletin') \in {Len(bulletin), Len(bulletin) + 1}
       /\ SubSeq(bulletin', 1, Len(bulletin)) = bulletin]_bulletin

\* Events are numbered by their place, which verify_hash_chain asks for and what
\* makes a sequence number (and an event hash) name one event.
EventsAreNumbered ==
    \A i \in 1..Len(bulletin) : bulletin[i].sequence = i

\* An agent event whose request carried a nonce is the only one that nonce ever
\* pays for, across rejected requests, failures and restarts
\* (verify_request_nonce saves the nonce before the request is verified).
NonceAnchorsOnce ==
    \A x, y \in anchors : x.nonce = y.nonce /\ x.nonce # NoNonce => x = y

\* Every agent event names a registrar whose authorization is recorded earlier in
\* the bulletin, and was not withdrawn by a REGISTRAR_REVOKED event before it.
OnlyAuthorizedRegistrarsAnchor ==
    \A i \in 1..Len(bulletin) :
        bulletin[i] \in AgentEvent =>
            RegistrarAuthorized(SubSeq(bulletin, 1, i - 1),
                                bulletin[i].payload.registrarDid)

\* The agent event a version entry, an archived package or a queued package
\* claims as its proof.
AnchoredIn(b, did, document, sequence) ==
    /\ sequence \in 1..Len(b)
    /\ b[sequence] \in AgentEvent
    /\ b[sequence].subject_did = did
    /\ b[sequence].payload.didDocument = document

AnchoredAs(did, document, sequence) == AnchoredIn(bulletin, did, document, sequence)

\* Nothing leaves Root, or is remembered by it, that the bulletin does not
\* record: the index, the archive, both queues and every response point at an
\* event of the bulletin about the same Agent and document.
NothingUnanchored ==
    /\ \A a \in Agents : latest[a].version # 0 =>
         AnchoredAs(a, latest[a].didDocument, latest[a].sequence)
    /\ \A x \in archive \cup answered \cup cdnJson \cup cdnSql
                        \cup discoveryJson \cup discoverySql :
         AnchoredAs(x.did, x.didDocument, x.sequence)

\* Once Root has answered that version n of an Agent is a certain document, no
\* other document is ever answered under that number, also when handlers die
\* between the bulletin and the index and their numbers are given out again.
AnsweredVersionNamesOneDocument ==
    \A x, y \in answered :
        x.did = y.did /\ x.version = y.version => x.didDocument = y.didDocument

\* What was answered under a version number is what the archive holds for it,
\* although a later handler of the same version overwrites the archived files.
AnsweredIsArchived ==
    \A x \in answered :
        \E y \in archive : /\ y.did = x.did /\ y.version = x.version
                           /\ y.didDocument = x.didDocument
                           /\ y.sequence >= x.sequence

(* Root's authorization file against its bulletin.                         *)

EventsOf(types, did) ==
    {i \in Len(Seed) + 1 .. Len(bulletin) :
        bulletin[i].event_type \in types /\ bulletin[i].subject_did = did}

Latest(S) == CHOOSE i \in S : \A j \in S : j <= i

\* The status the events since the deployment give a node, when granted is the
\* set of events that authorize it in one role.
StatusFrom(granted, did) ==
    IF granted = {} THEN "absent"
    ELSE IF \E i \in EventsOf({"NODE_REVOKED"}, did) : i > Latest(granted)
         THEN "revoked" ELSE "active"

RegistrarGrants(did) ==
    {i \in EventsOf({"REGISTRAR_AUTHORIZED"}, did) :
        bulletin[i].payload.role = "registrar"}

IssuerGrants(did) ==
    {i \in EventsOf({"REGISTRAR_AUTHORIZED"}, did) :
        bulletin[i].payload.role = "vc-issuer"}

DiscoveryGrants(did) == EventsOf({"DISCOVERY_NODE_AUTHORIZED"}, did)

DomainsFrom(granted, did) ==
    LET changes == {i \in EventsOf({"DISCOVERY_NODE_DOMAINS_UPDATED"}, did) :
                      i > Latest(granted)}
    IN  IF granted = {} THEN {}
        ELSE IF changes = {} THEN {AnyDomain}
        ELSE bulletin[Latest(changes)].payload.authorizedDomains

\* As long as nothing failed, the authorization file between two handlers is the
\* replay of the bulletin: for every role the last word of the log on a node is
\* the status in the file, and a discovery node's domains are the last ones given
\* since it was last authorized.
AuthorizationReplaysBulletin ==
    faults = 0 /\ lock = NoProc =>
        \A n \in Nodes :
            /\ authorization.registrars[n] = StatusFrom(RegistrarGrants(n), n)
            /\ authorization.vc_issuers[n] = StatusFrom(IssuerGrants(n), n)
            /\ authorization.discovery_nodes[n] =
                 [status |-> StatusFrom(DiscoveryGrants(n), n),
                  authorizedDomains |-> DomainsFrom(DiscoveryGrants(n), n)]

GrantsRecorded(a) ==
    \A n \in Nodes :
        /\ a.registrars[n] # "absent" => RegistrarGrants(n) # {}
        /\ a.vc_issuers[n] # "absent" => IssuerGrants(n) # {}
        /\ a.discovery_nodes[n].status # "absent" => DiscoveryGrants(n) # {}
        /\ a.discovery_nodes[n].authorizedDomains \subseteq
             {AnyDomain} \cup UNION {bulletin[i].payload.authorizedDomains :
                 i \in EventsOf({"DISCOVERY_NODE_DOMAINS_UPDATED"}, n)}

\* The bulletin comes first: after any failures, neither the authorization file
\* nor the snapshot it may be replaced with grants a role or a domain that no
\* event records.
GrantsArePublished == GrantsRecorded(authorization) /\ GrantsRecorded(snapshot)

\* The authorization file follows the bulletin: exactly as long as nothing
\* failed, and never ahead of it whatever fails.
AuthorizationFollowsBulletin == AuthorizationReplaysBulletin /\ GrantsArePublished

\* A handler that took the lock gives it back.
LockIsReleased == \A p \in Procs : (lock = p) ~> (lock # p)

Registry == INSTANCE AgentRegistry WITH
    current <- [a \in Agents |-> [version |-> latest[a].version,
                                  didDocument |-> latest[a].didDocument]]

\* The index of latest versions is the registry Root promises: the document of an
\* Agent changes only to the next version, and only when it is another document.
ImplementsRegistry == Registry!Spec

(* What the documents say of Root, and its code does not do.               *)

\* "Registrar is authorized and not revoked" (services/root-node/docs/design.md,
\* line 133): no agent event follows a NODE_REVOKED event of its registrar unless
\* an authorization lies between them.
RevokedRegistrarsDoNotAnchor ==
    \A i, j \in 1..Len(bulletin) :
        /\ i < j
        /\ bulletin[i].event_type = "NODE_REVOKED"
        /\ bulletin[j] \in AgentEvent
        /\ bulletin[j].payload.registrarDid = bulletin[i].subject_did
        => \E k \in i..j : /\ bulletin[k].event_type = "REGISTRAR_AUTHORIZED"
                           /\ bulletin[k].subject_did = bulletin[i].subject_did
=============================================================================
