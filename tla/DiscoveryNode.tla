---------------------------- MODULE DiscoveryNode ----------------------------
(***************************************************************************)
(* A Discovery node beside the CDN it syncs from and the Root whose        *)
(* bulletin it checks against.                                             *)
(*                                                                         *)
(* sync_from_cdn takes no lock: its fetches and writes are single steps,   *)
(* several syncs may be under way, and the bulletin, the manifest and the  *)
(* packages change between its fetches.  Root's key, the bulletin's hash   *)
(* chain and the resolution of the CDN's address are abstracted: there is  *)
(* one Root and one CDN.  The order of the manifest's entries is left open.*)
(***************************************************************************)
EXTENDS CdnNode

CONSTANTS
    Discovery,      \* the DID of this node
    Domains,        \* capability domains
    AnyDomain,      \* the wildcard "*"
    DomainsOf,      \* the canonical domains a document's tags fall under
    Registrations,  \* Agent and document of each registration Root may anchor
    Restrictions,   \* sets of domains Root may restrict the node to
    Syncs,          \* tasks that run sync_from_cdn
    UseSqlite,      \* whether paths.database_url is configured
    IndexTearable,  \* index files whose interrupted write leaves them torn
    MaxEvents       \* bound: length of the bulletin

IndexFiles == {"capabilities", "history"}

AgentEvent == [event_type : {"AGENT_DID_DOCUMENT_ANCHORED"},
               subject_did : Agents, didDocument : Documents]
DomainsEvent == [event_type : {"DISCOVERY_NODE_DOMAINS_UPDATED"},
                 subject_did : {Discovery}, authorizedDomains : SUBSET Domains]

ASSUME DiscoveryAssumption ==
    /\ DomainsOf \in [Documents -> SUBSET Domains]
    /\ Registrations \subseteq Agents \X Documents
    /\ Restrictions \subseteq SUBSET Domains
    /\ UseSqlite \in BOOLEAN
    /\ IndexTearable \subseteq IndexFiles
    /\ MaxEvents \in Nat

VARIABLES
    bulletin,     \* Root's bulletin, the events this node looks at
    sent,         \* per Agent: the last package Root sent to the CDN
    syncs,        \* per task: where its sync is and what it has gathered
    capabilities, \* index/capabilities.json
    rows,         \* table namespace discovery.indexed_packages, a row per DID
    indexTorn,    \* index files left torn
    overlapped,   \* history: a sync was started while another was under way
    basis,        \* history: length of the bulletin the last complete sync read
    shown         \* history: per Agent, the latest package a query could return

rootSideVars == <<bulletin, sent>>
indexVars == <<capabilities, rows, indexTorn>>
observerVars == <<overlapped, basis, shown>>
discoveryVars == <<syncs, indexVars, observerVars>>
distributionVars == <<cdnVars, rootSideVars, discoveryVars>>

IdleSync == [at |-> "idle", view |-> <<>>, todo |-> {}, indexed |-> {}]

\* read_indexed_packages: the table if it has rows, else the file
LookupIn(table, file, torn) ==
    IF UseSqlite /\ table # {} THEN table
    ELSE IF "capabilities" \in torn THEN {} ELSE file

Lookup == LookupIn(rows, capabilities, indexTorn)

DiscoveryInit ==
    /\ bulletin = <<>>
    /\ sent = [a \in Agents |-> 0]
    /\ syncs = [s \in Syncs |-> IdleSync]
    /\ capabilities = {} /\ rows = {}
    /\ indexTorn = {}
    /\ overlapped = FALSE
    /\ basis = 0
    /\ shown = [a \in Agents |-> 0]

-----------------------------------------------------------------------------
(* Root, as this node and the CDN see it.                                  *)

\* append_event of a registration
Anchor(a, d) ==
    /\ Len(bulletin) < MaxEvents
    /\ bulletin' = Append(bulletin, [event_type |-> "AGENT_DID_DOCUMENT_ANCHORED",
                                     subject_did |-> a, didDocument |-> d])
    /\ UNCHANGED <<cdnVars, sent, discoveryVars>>

\* append_event of update_discovery_domains
Restrict(domains) ==
    /\ Len(bulletin) < MaxEvents
    /\ bulletin' = Append(bulletin, [event_type |-> "DISCOVERY_NODE_DOMAINS_UPDATED",
                                     subject_did |-> Discovery,
                                     authorizedDomains |-> domains])
    /\ UNCHANGED <<cdnVars, sent, discoveryVars>>

SendAnyOrder(t, i) ==
    LET a == bulletin[i].subject_did IN
    /\ bulletin[i] \in AgentEvent
    /\ Receive(t, [did |-> a, didDocument |-> bulletin[i].didDocument,
                   sequence |-> i, flaws |-> {}])
    /\ sent' = [sent EXCEPT ![a] = i]
    /\ UNCHANGED <<bulletin, discoveryVars>>

\* publish_cdn_batch: a package is sent until the CDN is known to have it, and
\* never after a later one of the same Agent (CdnNeverRegresses of RootBatches).
Send(t, i) ==
    LET a == bulletin[i].subject_did IN
    /\ bulletin[i] \in AgentEvent
    /\ i >= sent[a] /\ i > accepted[a].sequence
    /\ Receive(t, [did |-> a, didDocument |-> bulletin[i].didDocument,
                   sequence |-> i, flaws |-> {}])
    /\ sent' = [sent EXCEPT ![a] = i]
    /\ UNCHANGED <<bulletin, discoveryVars>>

-----------------------------------------------------------------------------
(* What a sync derives from the bulletin it fetched.                       *)

UpdatesIn(b) == {i \in 1..Len(b) : b[i] \in DomainsEvent}

AuthorizedDomains(b) ==
    IF UpdatesIn(b) = {} THEN {AnyDomain}
    ELSE LET last == CHOOSE i \in UpdatesIn(b) : \A j \in UpdatesIn(b) : j <= i
         IN  b[last].authorizedDomains

\* verify_package_root_proof: any event of the bulletin with the proof's hash and
\* the package's DID, and Root's signature of that hash
RootProofVerifies(package, b) ==
    /\ package.sequence \in 1..Len(b)
    /\ b[package.sequence].subject_did = package.did
    /\ "invalid_signature" \notin package.flaws

DomainsMatch(document, domains) ==
    AnyDomain \in domains \/ DomainsOf[document] \cap domains # {}

\* The checks of sync_from_cdn on one package file; the reason of a rejection is
\* left out.
PassesUnanchored(file, b) ==
    /\ Readable(file)
    /\ file.flaws = {}
    /\ DomainsMatch(file.didDocument, AuthorizedDomains(b))

Passes(file, b) ==
    /\ Readable(file)
    /\ file.flaws \cap {"not_indexable", "invalid_did_document_hash",
                       "invalid_metadata_hash"} = {}
    /\ RootProofVerifies(file, b)
    /\ DomainsMatch(file.didDocument, AuthorizedDomains(b))

-----------------------------------------------------------------------------
(* sync_from_cdn                                                           *)

\* What queries could return after a step that leaves this table and this file.
Observe(table, file, torn) ==
    shown' = [a \in Agents |->
        LET found == {x.sequence : x \in {y \in LookupIn(table, file, torn) : y.did = a}}
        IN  IF \E i \in found : i > shown[a]
            THEN CHOOSE i \in found : \A j \in found : j <= i ELSE shown[a]]

FetchBulletin(s) ==
    /\ syncs[s].at = "idle"
    /\ syncs' = [syncs EXCEPT ![s].at = "manifest", ![s].view = bulletin]
    /\ overlapped' = (overlapped \/ \E r \in Syncs : syncs[r].at # "idle")
    /\ UNCHANGED <<cdnVars, rootSideVars, indexVars, basis, shown>>

FetchManifest(s) ==
    /\ syncs[s].at = "manifest"
    /\ \E file \in SeenManifest :
         syncs' = [syncs EXCEPT ![s] =
           IF Readable(file)
           THEN [@ EXCEPT !.at = "packages", !.todo = {e.did : e \in file}]
           ELSE IdleSync]                     \* decode_cdn_manifest_failed
    /\ UNCHANGED <<cdnVars, rootSideVars, indexVars, observerVars>>

FetchPackage(s, a) ==
    /\ syncs[s].at = "packages"
    /\ a \in syncs[s].todo
    /\ \E file \in SeenPackage(a) :
         syncs' = [syncs EXCEPT
           ![s].todo = @ \ {a},
           ![s].indexed = IF Passes(file, syncs[s].view) THEN @ \cup {file} ELSE @]
    /\ UNCHANGED <<cdnVars, rootSideVars, indexVars, observerVars>>

WriteCapabilities(s) ==
    /\ syncs[s].at = "packages"
    /\ syncs[s].todo = {}
    /\ capabilities' = syncs[s].indexed
    /\ indexTorn' = indexTorn \ {"capabilities"}
    /\ syncs' = [syncs EXCEPT ![s].at = IF UseSqlite THEN "clear" ELSE "history"]
    /\ Observe(rows, capabilities', indexTorn')
    /\ UNCHANGED <<cdnVars, rootSideVars, rows, overlapped, basis>>

\* delete_namespace, then upsert_json of each package
KeepIndex(s) ==
    /\ syncs[s].at = "clear"
    /\ syncs' = [syncs EXCEPT
         ![s].at = IF syncs[s].indexed = {} THEN "history" ELSE "upsert"]
    /\ UNCHANGED <<cdnVars, rootSideVars, indexVars, observerVars>>

ClearIndex(s) ==
    /\ syncs[s].at = "clear"
    /\ rows' = {}
    /\ syncs' = [syncs EXCEPT
         ![s].at = IF syncs[s].indexed = {} THEN "history" ELSE "upsert"]
    /\ Observe(rows', capabilities, indexTorn)
    /\ UNCHANGED <<cdnVars, rootSideVars, capabilities, indexTorn,
                   overlapped, basis>>

UpsertOnly(s, package) ==
    /\ syncs[s].at = "upsert"
    /\ package \in syncs[s].indexed
    /\ rows' = {x \in rows : x.did # package.did} \cup {package}
    /\ syncs' = [syncs EXCEPT ![s].indexed = {}, ![s].at = "history"]
    /\ Observe(rows', capabilities, indexTorn)
    /\ UNCHANGED <<cdnVars, rootSideVars, capabilities, indexTorn,
                   overlapped, basis>>

Upsert(s, package) ==
    /\ syncs[s].at = "upsert"
    /\ package \in syncs[s].indexed
    /\ rows' = {x \in rows : x.did # package.did} \cup {package}
    /\ syncs' = [syncs EXCEPT
         ![s].indexed = @ \ {package},
         ![s].at = IF syncs[s].indexed = {package} THEN "history" ELSE @]
    /\ Observe(rows', capabilities, indexTorn)
    /\ UNCHANGED <<cdnVars, rootSideVars, capabilities, indexTorn,
                   overlapped, basis>>

\* append_json_log gives up on a file it cannot parse, although the index has
\* been written by then.  The table namespace discovery.sync_history and
\* rejected-packages.json follow, which only the APIs show.
WriteHistory(s) ==
    /\ syncs[s].at = "history"
    /\ basis' = IF "history" \in indexTorn THEN basis ELSE Len(syncs[s].view)
    /\ syncs' = [syncs EXCEPT ![s] = IdleSync]
    /\ UNCHANGED <<cdnVars, rootSideVars, indexVars, overlapped, shown>>

(***************************************************************************)
(* Failures                                                                *)
(***************************************************************************)
FileOf == [packages |-> "capabilities", history |-> "history"]

IndexTears(s) ==
    {indexTorn} \cup
      (IF /\ syncs[s].at \in DOMAIN FileOf
          /\ syncs[s].at = "packages" => syncs[s].todo = {}
          /\ FileOf[syncs[s].at] \in IndexTearable
       THEN {indexTorn \cup {FileOf[syncs[s].at]}} ELSE {})

Fault == faults < MaxFaults /\ faults' = faults + 1

\* A fetch, a write or a row fails, or the caller disconnects.
FailSync(s) ==
    /\ Fault
    /\ syncs[s].at # "idle"
    /\ indexTorn' \in IndexTears(s)
    /\ syncs' = [syncs EXCEPT ![s] = IdleSync]
    /\ Observe(rows, capabilities, indexTorn')
    /\ UNCHANGED <<fileVars, taskVars, accepted, rootSideVars, capabilities, rows,
                   overlapped, basis>>

\* The node dies and is started again: it keeps nothing in memory.
DiscoveryCrash ==
    /\ Fault
    /\ indexTorn' \in UNION {IndexTears(s) : s \in Syncs}
    /\ syncs' = [s \in Syncs |-> IdleSync]
    /\ Observe(rows, capabilities, indexTorn')
    /\ UNCHANGED <<fileVars, taskVars, accepted, rootSideVars, capabilities, rows,
                   overlapped, basis>>

-----------------------------------------------------------------------------
CdnStep(t) ==
    /\ WriteFile(t) \/ Publish(t)
    /\ UNCHANGED <<rootSideVars, discoveryVars>>

SyncStep(s) ==
    \/ FetchBulletin(s) \/ FetchManifest(s)
    \/ \E a \in syncs[s].todo : FetchPackage(s, a)
    \/ WriteCapabilities(s) \/ ClearIndex(s)
    \/ \E x \in syncs[s].indexed : Upsert(s, x)
    \/ WriteHistory(s)

DistributionInit == CdnInit /\ DiscoveryInit

DistributionNext ==
    \/ \E r \in Registrations : Anchor(r[1], r[2])
    \/ \E domains \in Restrictions : Restrict(domains)
    \/ \E t \in CdnTasks, i \in 1..Len(bulletin) : Send(t, i)
    \/ \E t \in CdnTasks : CdnStep(t)
    \/ \E t \in CdnTasks :
         /\ LoseAnswer(t) \/ InterruptPublish(t)
         /\ UNCHANGED <<rootSideVars, discoveryVars>>
    \/ \E s \in Syncs : SyncStep(s)
    \/ \E s \in Syncs : FailSync(s)
    \/ DiscoveryCrash

DistributionSpec == DistributionInit /\ [][DistributionNext]_distributionVars

\* The CDN finishes what it was sent, and the node's operator syncs it again and
\* again, each sync running on.
FairDistributionSpec ==
    /\ DistributionSpec
    /\ \A t \in CdnTasks : WF_distributionVars(CdnStep(t))
    /\ \A s \in Syncs : WF_distributionVars(SyncStep(s))

-----------------------------------------------------------------------------
(* Properties                                                              *)

\* Whatever syncs overlap, fail or are cut short, a query finds only packages that
\* passed every check of sync_from_cdn, and whose event is in Root's bulletin of
\* today, although they were checked against an earlier one.
ServedIsVerified ==
    \A x \in Lookup :
        /\ x.flaws = {}
        /\ RootProofVerifies(x, bulletin)

\* One answer never offers two packages of an Agent, also when the rows of two
\* syncs are interleaved.
OnePackagePerAgent ==
    \A x, y \in Lookup : x.did = y.did => x = y

\* What a query can find is verified and unambiguous, however syncs mix.
AnswersAreSound == ServedIsVerified /\ OnePackagePerAgent

\* As long as syncs do not overlap, the restriction of a node's domains takes
\* effect with the first sync completed after it: what is served lies in the
\* domains of the bulletin that sync read, or of a later one.
ServedWithinDomains ==
    ~overlapped => \A x \in Lookup : \E k \in basis..Len(bulletin) :
        DomainsMatch(x.didDocument, AuthorizedDomains(SubSeq(bulletin, 1, k)))

\* As long as syncs do not overlap, a query never returns an older package of an
\* Agent than an earlier query could, through the phases in which the file is
\* newer than the table, the table is empty, and the table is partly refilled,
\* and through crashes in any of them.
ServedNeverRegresses ==
    ~overlapped => \A x \in Lookup : x.sequence >= shown[x.did]

\* An Agent whose package the CDN lists and holds for good, and whose package
\* passes the checks, is found in the end by every query made between syncs.
AgentIsDiscoverable ==
    \A a \in Agents :
        <>[](/\ Listed(a) /\ accepted[a] # NoPackage
             /\ files["packages"][a] = accepted[a]
             /\ Passes(accepted[a], bulletin))
        => <>[]((\A s \in Syncs : syncs[s].at = "idle") => accepted[a] \in Lookup)
=============================================================================
