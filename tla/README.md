# OpenAgenet: specifications, model checks and proofs

TLA+ models of the OpenAgenet trust services, the TLC configurations that check
them, and TLAPS proofs about them. The models are translated from the source under
`src/`; where a document says otherwise, the model follows the code (see
*Findings*).

    tlc -config propagation.cfg MCPropagation.tla         # a run
    tlapm PropagationProofs.tla                           # a proof

`PROJECT.json` maps every definition to the lines it stands for.

## 1. The system

OpenAgenet lets Agents be registered under a DID, found, and called with trust.
The repository has the services twice. Under `services/`, `crates/` and `agents/`
are the **first services**: one signature suite, whole-file JSON storage with
SQLite mirrors, batches started by requests. Under
`docs/research/redo-experiments/system-ablation/` (below: `ablation/`) are the
**reference services**, which grew out of them: SQLite tables first, leased jobs,
publication feed and cursors, signed request envelopes, three signature suites, an
asynchronous submission path in the Registrar.

| part | source | state it keeps | operations |
|---|---|---|---|
| Root node | `services/root-node` | `bulletin.json` (signed, hash-chained log), `authorization-state.json`, `request-nonces.json`, `indexes/latest-did-document-versions.json`, `archive/`, two queues (a JSON file and a SQLite namespace each), a snapshot of the authorizations in memory | verify-and-publish, authorize registrar, authorize Discovery, update domains, revoke, publish-cdn batch, notify-discovery batch, views |
| CDN node | `services/cdn-node` | `documents/`, `metadata/`, `packages/`, `manifest.json` | publish package, GETs, an advisory purge |
| Discovery node | `services/discovery-node` | `capabilities.json`, the table `discovery.indexed_packages`, sync history, rejected packages | sync, query, route lookup, views |
| Registrar node | `services/registrar-node` | one file per draft, one per record, a SQLite mirror of each | create, update, validate, issue credential, submit, register |
| capability tree | `crates/oan-core` | none | normalise tags, subtree test, match of authorized domains |
| crypto, credentials, package, DID, protocol, client crates | `crates/*` | none | hash, sign, verify, parse |
| Service Agent | `agents/service-agent-python` | `SEEN_NONCES` in memory | verify a trusted invocation, answer it |
| User Agent | `agents/user-agent-python` | none | discover, build an invocation, call |
| reference Root: registration and workers | `ablation/oan-reference-services/services/root-node` | rows of accepted versions (the publication feed), leased CDN jobs, a pending and a delivered watermark per Discovery node | verify-and-publish, publish cycle, notify cycle, governance of targets |
| reference Root: governance | same | bulletin table, `bulletin.json`, authorization file and snapshot | authorize, revoke, export, start, views |
| reference Root without SQLite | same | index of versions, CDN queue, archive, as files | register, publish cycle |
| reference Registrar | `.../services/registrar-node` | three rows per draft, submission records, submission permits | create, update, challenge, verify, issue, submit (waiting or not) |
| reference CDN | `.../services/cdn-node` | three files per Agent, manifest table, history table, JSON copies | publish package, export |
| reference Discovery | `.../services/discovery-node` | cursor into the feed, index of packages | sync, query, authorization view |
| service security | `.../crates/oan-service-security` | nonce file | sign and verify envelopes, bindings, control proofs |
| protocol crates | `ablation/oan-protocol-common` | none; the leased job table of `oan-storage` | suites, proofs, hash chain, leases |

How they interact. A Registrar posts a DID Document to Root. Root verifies it,
appends an event to the bulletin, archives the version, updates its index and
queues the package. Packages are posted to the CDN and Discovery nodes whose
domains match are told; these fetch the bulletin and the packages, check the one
against the other and replace or extend their index, which queries read. A User
Agent queries Discovery and calls a Service Agent with signed requests that carry
nonces. In the first Root all handlers run under one lock and the two batches run
beside them, without it. In the reference Root nothing is under a lock: the
accepting transaction gives each version a row number, a publish worker leases the
job of the version, posts it and raises the *pending* watermark of the matching
nodes to the row number, and a notify worker asks the nodes whose watermark is
ahead to sync up to it; a node reads the feed page by page from its own cursor.

What is hard. (1) Files are rewritten whole by `fs::write`: a reader without the
lock, or after a crash, may find one truncated, and most readers take that for an
empty file. (2) A handler writes up to eight places one after the other and may
die, fail or be dropped between any two. (3) Batches, workers, syncs and posts run
beside the handlers, and several at once, on copies of what they read. (4) What
each part knows of the others is old by the time it is used: registrar status, queue
entries, domains, the fetched bulletin, a lease. (5) Calls time out and take effect
all the same: a post may reach the CDN after its lease was given to another worker,
and Root may accept after the Registrar recorded that it did not answer. (6)
Parties of different suites meet in one registration.

What makes each part correct:

* **Root**: the bulletin is a numbered append-only log; nothing is indexed,
  archived, queued or answered that it does not record; a nonce pays for one
  event; only authorized registrars anchor; an answered version number names one
  document for good and the archive has it; the authorization file and every view
  follow the bulletin; the lock always comes back.
* **Batches and workers**: only anchored packages leave; an answered Agent is never
  lost from distribution and is served in the end; a finished job was stored and
  announced; a watermark promises only what the CDN was given.
* **CDN**: its places agree about a package; nobody is unlisted by another's
  publication.
* **Discovery**: only verified packages are served, one per Agent, within the
  domains Root allows; a cursor never skips a row; a listed Agent is found; an
  answer holds the best matches.
* **Registrar**: what Root accepts bears a credential the Registrar issued after it
  verified a proof of control for that very document; record, submission and Root agree.
* **Security**: an envelope is accepted once; honest parties of whatever suites pass
  (and which do not is known); a reader's bulletin is one Root signed.
* **Service Agent**: an answered nonce is refused from then on.

## 2. Modules

    AgentRegistry        abstract: what Root promises about versions
    RootNode             the handlers                  (implements AgentRegistry)
      RootBatches        EXTENDS RootNode: the two batches beside the handlers
        RootViews        EXTENDS RootBatches: what Root shows of its state
    CdnNode              POST /cdn/packages and the readers
      DiscoveryNode      EXTENDS CdnNode: syncs, beside the CDN and Root's bulletin
    RegistrarNode        drafts, records and registrations of the first Registrar
    ServiceAgent         verify_invocation on threads
    TagTree              the walk up the capability tree

    LeasedJobs           the leased job table, as operators
      RootWorkers        EXTENDS LeasedJobs: the reference Root from row to watermark
        Propagation      EXTENDS RootWorkers: composed with the syncs of Discovery nodes
    RootGovernance       bulletin table, export, authorization file
      GovernanceViews    EXTENDS RootGovernance: its views
    RootFiles            the reference Root on JSON files
    RegistrarDrafts      a draft of the reference Registrar, row by row
    ReferenceCdn         posts to the reference CDN, file by file
    DiscoveryQuery       matching, order and limit of a query
    Envelopes            freshness and the nonce file
    SignatureSuites      one registration carried through three suites
      HashChain          EXTENDS SignatureSuites: sealing and verifying a bulletin

    MCRootNode, MCRootBatches, MCDiscoveryNode, MCPropagation, MCServices
                         instances for TLC
    RootNodeProofs         theorems about RootNode
      RootRegistryProofs   ... its versions, authorization file and refinement
        RootBatchesProofs  ... RootBatches and RootViews
    DiscoveryNodeProofs    ... CdnNode and DiscoveryNode
    PropagationProofs      ... RootWorkers and Propagation
    RegistrarProofs        ... RegistrarNode and RegistrarDrafts
    ReferenceProofs        ... ReferenceCdn, RootGovernance, GovernanceViews, RootFiles
    ServicesProofs         ... ServiceAgent, Envelopes, SignatureSuites, HashChain,
                           TagTree, DiscoveryQuery

### RootNode

One step of a handler is what it does up to and including one write to a file or
table; everything it reads in between belongs to that step, since no other holder
of the lock can change it. `pc[p]` names the write task `p` does next:

| `pc` | action | code |
|---|---|---|
| `idle` | `Acquire` | the `lock().await` of each handler |
| `nonce` | `VerifyNonce`, `RejectRequest` | `verify_request_signature`, `verify_request_nonce` |
| `verify` | `VerifyRequest`, `RejectRequest` | `verify_request`, version decision, read half of `append_event` |
| `read` | `ReadBulletin`, `FailRead` | read half of `append_event` in the governance handlers |
| `write` | `WriteBulletin` | write half of `append_event` |
| `archive` | `ArchiveVerified` | `archive_verified` |
| `latest` | `UpdateLatestVersion` | `update_latest_version` |
| `cdn_json`, `cdn_sql` | `EnqueueCdnJson`, `EnqueueCdnSql` | `enqueue_cdn` |
| `discovery_json`, `discovery_sql` | `EnqueueDiscoveryJson`, `EnqueueDiscoverySql` | `enqueue_discovery`, then the answer |
| `authorization` | `UpdateAuthorization` | the four updates of the authorization file |

`Abandon` is a failed write, or a request dropped where it awaits SQLite; `Crash`
is a process that dies and is started again. Both may leave the file being
written in `torn`; its readers then behave as the code's do (an error, an empty
value, or the startup snapshot). The variable keeps the last complete content of a
torn file: for the bulletin, which nobody can read or append to again in that
state, this is the log as it was.

Abstractions: a document stands for its hash; an event is identified by its
sequence number, which `EventsAreNumbered` justifies; hashing, signatures,
timestamps, and the checks that look at a request alone (`signature_ok`,
`credential_ok`) are inputs; the three files of an archived version are written in
one step. The history variables `answered`, `anchors` and `faults` are read by
properties and bounds only. Not written by any handler, hence not in the model:
`REGISTRAR_REVOKED`, `DISCOVERY_NODE_REVOKED`, `AGENT_REVOKED`,
`CDN_SERVICE_INFO_UPDATED` (the first is still looked for by `RegistrarAuthorized`,
as in the code, and may be in `Seed`).

### RootBatches

`publisher[w]` and `notifier[w]` are batches under way: where they are, what they
read, what is left. `SeenCdnJson` and its relatives are what a reader without
the lock may get beside a write. The CDN is external: the last package it was sent
for each Agent. `write_batch_history` is read by nobody and left out; the order
within a batch is left open, as SQLite orders by a timestamp of one second.

### CdnNode and DiscoveryNode

`files[kind][did]` is the file of an Agent under `documents/`, `metadata/` or
`packages/`. `publish_package` has no await after taking the lock, so a dropped
request does not stop it; a crash or a failed write does (`InterruptPublish`).

`syncs[s]` is a sync under way: `view` is the bulletin it fetched, `todo` the
manifest entries still to fetch, `indexed` the packages that passed. The
fetches and writes of `sync_from_cdn` are separate actions; `Observe` keeps, in
`shown`, the latest package of each Agent that a query could have returned.
`overlapped` remembers whether two syncs ever overlapped and `basis` how long the
bulletin was that the last completed sync read. Root is reduced to what this side
sees of it: `Anchor` and `Restrict` append events, `Send` posts packages in the
order `CdnNeverRegresses` of RootBatches shows for one publisher.

Abstractions: one Root and one CDN, so the key, the hash chain and the address
of the CDN are given; the reason of a rejection and the two history stores, which
only APIs show, are left out; the order of the manifest is left open. `Altered` are
packages the CDN holds that Root did not send. `Lookup` is what queries start from;
their matching and order are in DiscoveryQuery.

### RootViews

The GET handlers of Root as operators over the state of RootBatches, with what the
Registrar and the Discovery node derive from Root's answers about themselves. A view
that fails with the bulletin answers `Failed`. They are read in every state, also
in the middle of a handler, since they take no lock.

### RegistrarNode

One draft file and one record file per Agent, each with its mirror. A write is two
steps, `TruncateDraft` and `WriteDraft`, then the mirror; handlers read when they begin
and nothing keeps them apart. `register_agent` records the Agent, then its mirror,
then posts to Root; `RootAnswers` may come after the handler was cut short. A document stands for its Agent and whether `validate_mvp` accepts it.

### ServiceAgent

`LookUp` is `verify_invocation` up to the search in `SEEN_NONCES`, `Verify` the rest:
the signatures, and the nonce is added. Between the two other threads run. The
environment repeats and forges invocations; a restart forgets the set.

### TagTree

`Climb` is one turn of the loop in `is_descendant_or_same`. The initial states are all
tables of up to `MaxTags` tags, the empty one, cyclic ones, dangling parents, tags that
stand twice and aliases included; the answer is compared with the definition of an
ancestor, the smallest set closed under parents, and the walk has to end.

### RootWorkers and Propagation

`feed` is `root_subject_version`: the row number of a version is its cursor. `jobs`
is the leased job table (LeasedJobs); `tasks` are posts under way with what their
cycle still does after them:

| step | code |
|---|---|
| `Commit`, `EnqueueAccepted`, `FailEnqueue` | the transaction of `verify_and_publish`; the job enqueued after it |
| `StartCycle` | `lease_ready_jobs` of a publish cycle |
| `CdnStores`, `PostFails`, `CdnStoresLate` | the POST, answered, or taken for failed and stored later |
| `ReadAudience`, `Announce` | the authorization file is read, then each matching target's pending watermark raised |
| `MarkPublished`, `TaskFails` | the job's final mark, by key alone, or its end without one |
| `StartNotify`, `Call` | targets whose pending is ahead are leased; `POST /discovery/sync` one after the other |
| `MarkNotified`, `MarkTargetRetry` | the delivered watermark, or the retry |
| `LapseJob`, `LapseTarget` | a lease whose time has passed |
| `Govern`, `SyncTarget` | the authorization file, then the target's status |
| `Restart` | the Root stops and its tasks, calls and requests with it |

Propagation adds, per Discovery node, `cursor`, `index` and `syncs`: one per
caller, since syncs overlap. A sync reads the cursor (`Begin`), one page of the feed,
each package from the CDN (`FetchPackage`), writes the index (`IndexPackage`), and ends
by writing the cursor it reached (`FinishSync`). It stops before a missing package and keeps its cursor where packages were
rejected. `MaxDisturbances` bounds whatever need not happen: failures, timeouts, lapsed
leases, restarts, governance, syncs by operators.

Abstractions: a retry's waiting time is the choice of when it is claimed; requests that
fail verification change nothing here; authorized domains are `Serves`, a set of
Agents per node; the bulletin and its hash chain are in other modules.

### RootGovernance and GovernanceViews

`SealEvent` is the read half of `append_event`, `PersistEvent` its upsert by
sequence; the two changes of the authorization file are read, truncate, write. The
export loop copies the table to `bulletin.json`; `StartRoot` puts what it finds there
back into the table, event by event, and reads the authorization snapshot. A hash is
the serial number of the event sealed, so that two events never share one.

### RootFiles

The same Root without SQLite: index and queue are rewritten whole, without a lock,
and read as empty when they cannot be parsed. `disturbed` remembers which file changes
overlapped or were cut short; the properties say that nothing else goes wrong.

### RegistrarDrafts

A draft is its core, its control row and its credential. A handler reads the three one
after the other, works on this copy, and writes back its rows one after the other; a
submission writes all three when Root has answered. `sent` are submissions on the way to
Root. Two initial states: no draft, and a draft whose credential was issued; from the
second the submission steps are within the bound on requests. The documents are
those of one Agent, some of which `validate_mvp` accepts.

### ReferenceCdn

A post writes `documents`, `metadata`, `packages`, then the manifest row and the history
row, beside other posts of the same Agent. `mixed` remembers the Agents whose posts
overlapped or were cut short, until one runs alone again.

### Envelopes, SignatureSuites, HashChain, DiscoveryQuery

Envelopes counts time in ticks, `PerSecond` of them a second, because the age of a
request is counted in whole seconds and a nonce is pruned to the tick. SignatureSuites
carries one registration from the challenge over the credential, the envelope and Root's
package to the index of a Discovery node, with every choice of suites by Agent,
Registrar and Root and of whether methods and proofs name theirs; cryptography is
symbolic. HashChain adds a bulletin that may be restored from an older copy, and a
reader that puts together any sequence of the events Root ever signed. DiscoveryQuery
filters, sorts and cuts over every index of up to two packages.

## 3. Runs

| run | question | bounds |
|---|---|---|
| `root_registration` | versions, nonces, registrars, archive, and the refinement of AgentRegistry, with SQLite | 2 tasks, 1 Agent, 2 documents, 2 nonces, 2 registrars, 5 events, 2 failures that may tear the bulletin |
| `root_failures` | the log, the authorization file, the views and anchoring, with every file tearable, without SQLite | 2 tasks, 1 publisher, 1 notifier, 1 Agent, 2 documents, 2 governed nodes, 4 events, 2 failures |
| `batches` | does an answered Agent stay in distribution, does the CDN only move forward, are notifications complete and authorized | 1 publisher and 1 notifier, 1 Agent, 2 documents, notification batches of 1, 4 events, 1 failure |
| `batch_liveness` | is an answered Agent served, does the lock come back | 1 task, 1 publisher, 3 events, 1 failure |
| `discovery` | CDN consistency and what queries see | 2 CDN tasks, 2 syncs, 2 Agents, 2 events, 1 failure, SQLite |
| `discovery_liveness` | is a listed Agent found | 1 CDN task, 1 sync, 2 Agents, 2 events, 2 failures that may tear the manifest |
| `propagation` | do finished jobs, watermarks, cursors and indexes keep their promises | 3 Agents of which the Discovery node serves 2, 2 workers, 1 notifier, 1 operator, 2 versions per Agent, 2 registrations, publish batches of 2, notify batches of 1, 2 disturbances |
| `propagation_liveness` | is every queued version published and every watermark delivered | 1 Agent, 2 versions, 2 workers, 1 notifier, 1 operator, 1 disturbance |
| `services` | eleven parts that share no state, each from its own initial states | see below |

The bounds of `services`: governance 1 administrator, 2 nodes, 3 events, 2 restarts;
drafts 3 documents of which 2 are valid, 2 requests at a time, 3 in all, 1 abandoned; CDN
1 Agent, 2 versions, 2 posts at a time, 3 in all, 1 stop, 1 export; envelopes 3 nonces,
2 ticks a second, skew 1 s, time to live 2 s, 2 entries, 6 ticks; JSON files 2 Agents,
2 documents, 2 tasks, 2 registrations, 1 failure; suites 2 documents, 2 revisions; chain 3
events, 1 restoration; Registrar 2 Agents, 2 handlers, 3 requests, 1 dropped; tags 3 names
in tables of up to 2; queries over indexes of up to 2; Service Agent 1 nonce, 2 invocations,
2 threads, 1 restart.

The three violation runs are under *Findings*.

Why these bounds are enough to be interesting. Two tasks make a second request
wait, and overlap when the guard is dropped (the mutants that unguard the handlers
break the log and the CDN's files in these very runs). Two documents of one Agent are
what a version history needs: create, update, no-op and back. Two failures allow
one to make the state bad and one to hit the recovery. A batch of one leaves
something behind. Two events in `discovery` are a registration and its update, two Agents,
or a registration and a restriction. In `propagation` two workers hold one job when a
lease lapses, an Agent outside the domains makes the feed have rows to pass over,
pages of one and two make a sync stop in the middle, and the operator's sync overlaps
the notified one. Two requests at a time and a third one are what it takes for a slow
handler to undo another and for a further one to act on the outcome. Skew and time to
live differ by a second, of two ticks, which is where truncation to seconds shows.

The models stop at their bounds, so the configurations do not check deadlock;
`LockIsReleased` is the property a deadlock of Root would break, `QueuedIsPublished` and
`WatermarkIsDelivered` those a stuck worker would.

Symmetry is used in safety runs only: of tasks, of the two Agents a Discovery node
serves, and, in `services`, of the requests and of the Agents, nodes or documents'
owners that are as good as each other.

Every property has a mutant in `PROJECT.json`: a plausible bug in one definition
(a dropped guard, a missing retain, an off-by-one) with which TLC finds it violated
under the same configuration. The mutated forms stand beside the originals in the
modules, and are used by nothing.

**Fairness.** `FairBatchSpec` assumes that an admitted handler runs on: it is a task
of the async runtime and waits only for local files and tables. No fairness is assumed of
requests, failures or the answers of the CDN; a failed send is a failure and bounded.
Batches and syncs of the first services are started by requests: the liveness
properties assume an operator who starts them again and again, which is how
`docs/design.md` describes their use. `AgentIsDiscoverable` is conditional on the
CDN listing and holding the package for good, since a torn manifest unlists Agents
(`CdnNode!Relist`). The reference Root has worker loops, spawned at its start, that
run a cycle at every interval. `FairSpec` of Propagation has weak fairness for
what is under way (enqueueing, posts and their marks, calls, syncs, the passing of
leases), and strong fairness for the start of a cycle that takes a given job or target: the
loop comes round for ever and `lease_ready_jobs` takes the job that has been due longest, but
a job is not due all the time, as it may be leased by another worker and put off again in
between. Targets are taken in the order of their pending cursors, the highest first; the
liveness run has one node, so it says nothing of a node starved by others.

## 4. Findings

| run | the code | what it says elsewhere |
|---|---|---|
| `root_revoked_registrar` | `verify_request` looks for `REGISTRAR_REVOKED`; revocation appends `NODE_REVOKED`. A revoked registrar goes on anchoring. | "Registrar is authorized and not revoked", `services/root-node/docs/design.md:133` |
| `delivered_synced` | a Discovery node counts as notified up to a cursor once it answers; its sync may have stopped before a missing package, read one page only, or kept its cursor at a rejected one. Nothing calls it again until the next version. | the test `discovery_trigger_model_allows_followup_sync_noop_after_notification` of the reference Root takes a notified node to have the cursor |
| `chain_race` | `append_event` of the reference Root reads the newest event and upserts the next without a lock: two requests at a time use one sequence, the hash chain breaks, and with it every sync | "Append-only JSON bulletin events and hash-chain verification", `ablation/oan-protocol-common/crates/oan-bulletin/README.md:9` |

Seen while modelling, without a run of their own:

* The first Root appends the event before it archives the version
  (`services/root-node/docs/design.md:161` has the other order); a crash in between leaves an
  anchored version in no archive.
* Authorizing a Discovery node again gives it `*` in the authorization file and no
  domains event, so file and bulletin differ, against
  `services/discovery-node/docs/design.md:152`; `ListsAgreeWithDetails` says what does hold.
* The publishing batch takes packages off the queue by DID and may drop one that was
  enqueued while an older one was sent (`docs/design.md:126`); the JSON mode of the
  reference Root does the same (`AnsweredIsServed` excepts it).
* The notification batch does not wait for the publishing batch, which
  `docs/design.md:128` puts first.
* Overlapping syncs of a first Discovery node may replace a newer index by an older one;
  `ServedWithinDomains` and `ServedNeverRegresses` hold only as long as syncs do not overlap.
* The reference CDN takes the version posted last, which may be the older one.
* With the default settings of the reference services, skew and nonce lifetime are both
  300 seconds; since ages are truncated to seconds, an envelope is still fresh for less than
  a second after its nonce is pruned. `AcceptedOnce` is checked with a longer lifetime.
* Registrar and Root of the reference services may hash a document with different
  algorithms (the Registrar's own, the subject's): such registrations are refused though
  everybody is honest. `CertifiedPasses` names this exception.
* Two invocations of the Service Agent with one nonce may both pass while neither has been
  answered; `NoncesGuard` says what holds.

## 5. Proofs

Every safety and action property the passing runs check is also proved, for all values of
the constants (any number of tasks, Agents, nodes, requests and failures, any batches, any
bounds), from the assumptions named:

| module | theorem | states |
|---|---|---|
| RootNodeProofs | `TypeCorrect` | `Spec => []TypeOK` |
| | `EventsNumbered` | `Spec => []EventsAreNumbered` |
| | `AppendOnly` | `Spec => BulletinIsAppendOnly` |
| | `Anchored` | `Spec => []NothingUnanchored` |
| | `NonceOnce` | `Spec => []NonceAnchorsOnce` |
| | `OnlyAuthorizedAnchor` | `Spec => []OnlyAuthorizedRegistrarsAnchor` |
| RootRegistryProofs | `AnsweredOnce` | `Spec => []AnsweredVersionNamesOneDocument`, if `"latest" \notin Tearable` |
| | `AnswersAreArchived` | `Spec => []AnsweredIsArchived`, under the same assumption |
| | `Refinement` | `Spec => ImplementsRegistry`, under the same assumption |
| | `AuthorizationFollows` | `Spec => []AuthorizationFollowsBulletin` |
| RootBatchesProofs | `BatchesAnchored` | `BatchSpec => [](TypeOK /\ NothingUnanchored)` |
| | `BatchesKeepBulletin` | `BatchSpec =>` the other properties of the bulletin above |
| | `BatchesImplementRegistry` | `BatchSpec =>` the three about versions, if `"latest" \notin Tearable` |
| | `ViewsAgree` | `BatchSpec => []ListsAgreeWithDetails` |
| | `QueuedOrServed` | `BatchSpec => []AnsweredAgentIsQueuedOrServed` |
| | `NothingForgotten` | `BatchSpec => []NoNotificationForgotten` |
| | `NotificationsFollow` | `BatchSpec => NotificationsFollowBulletin` |
| | `NeverRegresses` | `BatchSpec => CdnNeverRegresses`, for one publisher |
| DiscoveryNodeProofs | `PublicationsStand` | `DistributionSpec => []PublicationsHold` |
| | `AnswersSound` | `DistributionSpec => []AnswersAreSound` |
| | `DomainsTakeEffect` | `DistributionSpec => []ServedWithinDomains` |
| | `IndexNeverRegresses` | `DistributionSpec => []ServedNeverRegresses`, if `NothingForged` |
| PropagationProofs | `ClaimsAreStored` | `Spec => []ClaimedIsStored` |
| | `PublishedIsAnnounced` | `Spec => []DoneIsAnnounced` |
| | `IndexIsStored` | `Spec => []IndexedIsStored` |
| | `CursorSkipsNothing` | `Spec => []NothingSkipped` |
| RegistrarProofs | `RegisteredKnown` | `RegistrarSpec => []RegisteredIsKnown` |
| | `AcceptedProof` | `DraftsSpec => []AcceptedWasProved` |
| | `SubmissionsFollowRoot` | `DraftsSpec => []SubmissionsHold` |
| ReferenceProofs | `VerifiedServed` | only verified packages are in files |
| | `CdnAgrees` | `CdnNodeSpec => []FilesAndTablesAgree`, if versions start at 1 |
| | `BulletinOfOneAdministrator` | `GovernanceSpec => []BulletinHolds`, if `OneAdministrator` |
| | `RevocationsOfOneAdministrator` | `GovernanceSpec => []RevocationsHold`, if `OneAdministrator` |
| | `AnsweredStaysServed` | `FilesSpec => []AnsweredIsServed` |
| ServicesProofs | `NoncesGuardAgent` | `AgentSpec => []NoncesGuard` |
| | `EnvelopeTakenOnce` | `EnvelopesSpec => []AcceptedOnce`, if `KeptForLonger` |
| | `WhateverSuites` | `SuitesSpec => []CertifiedPasses` |
| | `ChainIsOneHistory` | `ChainSpec => []VerdictIsRight` |
| | `WalkDecides` | `TagSpec => []WalkIsAncestry` |
| | `AnswersAreBest` | `QuerySpec => []AnswerIsBest` |

The hypotheses are not technical. A torn index is read as empty and numbering starts again
at 1, hence `"latest" \notin Tearable`. Two publishers may post two packages of an Agent in
either order. Two administrators break the bulletin (the finding `chain_race`), hence
`OneAdministrator`. `KeptForLonger` says that nonces live longer than the skew, which the
default settings do not give (see *Findings*). `NothingForged` says that
whatever else than Root's packages the CDN hands out has a flaw or names no event of the
bulletin: a flawless one with the number of an event passes no check either, but may make a
sync drop an Agent, and what comes back is then older than what was seen. That versions start
at 1 is how Root counts. The named `ASSUME`s beside the constants say which sets of
them do not overlap, that bounds are natural numbers and that the tags, and the tags of a
query, are finite; in Envelopes, that time to live, skew and clock are numbers.

**RootNodeProofs**, from `ConstantsAssumption` and `SeedAssumption`. None of these is
inductive alone: that a write appends one event depends on the bulletin being the one the
handler read, which depends on the lock. `Inv == TypeOK /\ Handlers /\ EventsAreNumbered`
adds what each handler knows at each point (`Serving`): off `idle` it holds the lock, so no
two are under way (`OneHandler`); at `write` its copy of the bulletin is the file and its
event carries the next number; afterwards its event is in the bulletin. `NextKeepsInv` has a
step per action. `AppendOnly` and `Anchored` follow from `Inv`. `NonceOnce` adds that a
nonce in the hands of a handler is spent in the file and not yet paid (`NonceIsSpent`);
`OnlyAuthorizedAnchor` that the check made on the bulletin read is still true of the bulletin
appended to (`ChecksHold`).

All of this is proved of `OpenSpec`, in which somebody else may take anything from the queue
files or bring back what the bulletin has (`OthersQueue`). `Spec` implements it (`SpecIsOpen`),
and so does `BatchSpec` (`BatchesAreOpen`), which carries the theorems over to the batches.

**RootRegistryProofs** adds `VersionInv`: from the version decision to the index update, the
handler's version and document follow the index as it is (`Follows`), and every answered
version is the current one of its Agent or an earlier one. The refinement maps `current` to
version and document of the index; every step either leaves it alone or is `Register` of the
abstract specification. `AuthorizationFollows` is about a replay: what the last of an unbounded
number of events says. `ReplayInv` has that the file replays the bulletin whenever no handler
is about to amend it, and is one amendment behind otherwise; `LatestIsLast` gives the `CHOOSE`
over places its meaning, by well-foundedness of the distance to the end.

**RootBatchesProofs**. `BatchInv`: what a batch carries was queued once, so it is anchored.
`QueuedOrServed`: a row is deleted only when the CDN has a package of its Agent, and until
then the row, the batch that read it (`Carrying`) or the handler about to write it (`UnderWay`)
keeps it. `NothingForgotten` follows an item from the table into a batch and out of it.
`NeverRegresses` needs `OrderInv`: one package of an Agent in each
queue and each copy a batch holds, a handler's own event the latest of all (`Shape`), and nothing
that can be published older than what the CDN has (`InOrder`). The file may keep an old entry:
with the table it is never published, without it no file entry is older than the one in the
batch. `ViewsAgree` uses `ReplayInv` and that
what the index lists was archived (`ListedInv`).

**DiscoveryNodeProofs**, from `CdnAssumption` and `DiscoveryAssumption`. `CdnInv`: the task
under way holds the lock (`Serving`), and, before anything fails, the files it has behind it
are of its package while those of every other Agent are of the package accepted (`Whole`).
`DistributionInv`: the bulletin a sync works with is a beginning of Root's of today, so that what
passed its checks still verifies (`PassedIsProven`); what it has gathered is proven, one
package of an Agent, and of no Agent it still has to fetch (`SyncSound`). `DomainsInv` says how
far the bulletin was that file, table and the sync under way were made with, stage by stage;
`OrderInv` that what comes next is no older than what a query has shown, where the table and
the file change places as the source of answers within one sync.

**PropagationProofs**, from `WorkersAssumption` and `PropagationAssumption`, first shows that
the feed numbers versions once and for all (`FeedNumbered`: an Agent's versions have no gap and
one row each), so that the cursor of a version never moves. `RootInv` then follows a version:
what a task has behind its post, and what a job has when it is done, the CDN stored (`Posted`);
watermarks stay within the feed and point to rows the CDN stored (`Watermarks`); a task past
`stored` has raised the watermark of every matching node that it no longer has to tell
(`Audience`), which holds as long as no administrator changes a target. `DiscoveryInv` adds the
nodes. That cursors skip nothing is not inductive: a sync writes its cursor long after it read
it, and others write theirs in between. What is inductive is that everything a sync has behind
it is covered (`SyncSound`): the rows up to where it started, those up to where it would move
the cursor, and those up to the next entry of its page; `Covered` only grows, because index
entries are replaced but never removed (`CoveredStays`).

**RegistrarProofs.** `RegistrarInv`: every draft a handler carries has a certificate that
was signed here or is unsigned (`Genuine`), which survives lost updates because handlers copy
certificates whole; and a registration past the writes has its record and mirror. Of the
reference Registrar, whose three rows are written one after the other and may together be a
mixture, `DraftsInv` says that every proof stored or carried is none or one the Registrar
verified, and so is the proof every issued credential rests on (`ProofsKept`); that at most one
submission is in flight (`AdmissionKept`); and that a draft listed as accepted or rejected has
Root's message for it (`OutcomesKept`).

**ReferenceProofs.** Of the CDN, `Typed` gives verified packages; `Complete` says that an Agent
in the manifest has three files and that a post past a stage has written that stage's file, torn
or not; `Alone` follows the one post of an Agent that runs by itself: the files behind it are
whole and of its version, and so is the entry. Of governance, the table is a chain that
verifies, the export and every copy of it are beginnings of the table, and a sealed event still
follows the newest one (`BulletinKept`); every active authorization rests on an event of the
table (`GrantsKept`); and a node whose revocation is settled is not active in the file, nor in
what a start makes of a torn one, which is nothing (`RevocationsKept`). Of the JSON
files, `FilesInv` says of every task what it read and whether anybody wrote since: a task that
overlapped with none has the file as it is, which is what makes its rewrite keep the entries of
the others (`IndexHolds`, `QueueHolds`, `OrderHolds`, `AgentHolds`, `CyclesHold`).

**ServicesProofs.** `SeenIsSpent`: `SEEN_NONCES` is the set of nonces answered since the start,
all genuine. `EnvelopesInv`: a nonce that was taken is in the file until the request is too old
in whole seconds, or had to make room. `SuitesInv` follows document, proof, credential, request
and package, each bound to the document as it was then. `ChainInv`: an event's hash fixes all
events before it, so that two histories agree up to the last event they share; the first flaw
(`FirstFlaw`) exists by well-foundedness. `TagInv`: the walk has passed only tags above the
capability, one a turn, and holds the parent of every one, so that where it stops it has them
all; it ends because tags are finitely many. `QueryInv` has the candidates of the places read;
`SortedIsInOrder` shows that a sequence without repetitions can be put in order at all: the
number of elements ahead of an element is its place, and no two have the same.

Theorems whose induction is over data (the last event, the first flaw, the first row of a
table) go through `WFMin` of the well-foundedness theorems, which takes no operator parameter: a
counterexample that is smallest, or nearest the end.

**Only model-checked**: `AnsweredAgentIsServed`, `LockIsReleased`, `AgentIsDiscoverable`,
`QueuedIsPublished` and `WatermarkIsDelivered`, which are liveness under fairness and so rest on
ENABLED, out of reach of the prover; and what the three violation runs show.

## 6. Not modelled

* The User Agent: a sequential client without state. What it sends is the environment of
  ServiceAgent and of DiscoveryQuery.
* Status, queue and tag views, which only count or format what the modelled ones read.
* Key encodings, canonical JSON and DID syntax: stateless; canonical text stands for its
  value. The single-suite crypto and credential crates of the first services give verdicts that
  are inputs of the models.
* SQLite pool set-up and schema, the credential store, identity mapping tables.
* Sync history and rejection records, read by nothing that decides; static admin tokens, one
  comparison; `write_batch_history`.
* The bulletin of the reference Root in its JSON mode, rewritten as in the first Root.
* The other copies and experiments under `docs/research`, `examples`, `scripts`, `packages`,
  `apps`, `upgrade-sync-package`: copies, benchmark drivers, demonstrations and placeholders.

## 7. Plan

Done, in this order: the first Root, its proofs, its batches, CDN and Discovery; the
Registrar, Service Agent, tag tree and views; the reference Root's workers composed with
Discovery, and their proofs; governance, drafts, CDN, envelopes, files, suites, chain and query
of the reference services.

Then the proofs, until every safety property of the passing runs had its theorem.

Next: the Registrar composed with the reference Root, so that a late answer and a lapsed lease
meet in one model; the invariants behind the liveness properties (what is always enabled where
something waits) as theorems of their own.
