---------------------------- MODULE RootWorkers ----------------------------
(***************************************************************************)
(* The Root node of the reference services, with its SQLite store: how an  *)
(* accepted Agent version reaches the CDN, and how the Discovery nodes are *)
(* told of it.                                                             *)
(*                                                                         *)
(* verify_and_publish commits the version and, outside the transaction,    *)
(* enqueues a leased job for it.  A publish cycle (the worker loop's, or   *)
(* an administrator's) leases jobs and posts their packages side by side;  *)
(* each post that succeeds raises the pending watermark of the matching    *)
(* Discovery nodes to the version's row number and then marks the job.  A  *)
(* notify cycle leases the targets whose pending watermark is ahead and    *)
(* asks them, one after the other, to sync up to it.                       *)
(*                                                                         *)
(* Requests that fail verification change nothing here and are left out;   *)
(* the bulletin and the drafts of the Registrar have modules of their own. *)
(***************************************************************************)
EXTENDS LeasedJobs, Sequences, FiniteSetsExt

CONSTANTS
    Agents,         \* the Agent DIDs
    Discoveries,    \* the Discovery nodes
    Serves,         \* Serves[d]: the Agents whose tags lie in d's authorized domains
    Authorized,     \* the Discovery nodes authorized when the run starts
    Workers,        \* the tasks that run publish cycles
    Notifiers,      \* the tasks that run notify cycles
    MaxVersion,     \* bound on the versions of an Agent
    MaxRequests,    \* bound on the registrations accepted
    CdnBatch,       \* cdn_batch_size
    NotifyBatch,    \* discovery_batch_size, also sent as maxPublications
    MaxDisturbances, \* bound on what need not happen: failures, timeouts, lapsed leases,
                    \* restarts, authorizations, revocations, syncs by operators
    NoNode          \* no Discovery node

ASSUME WorkersAssumption ==
    /\ Serves \in [Discoveries -> SUBSET Agents]
    /\ Authorized \subseteq Discoveries
    /\ MaxVersion \in Nat /\ MaxRequests \in Nat /\ CdnBatch \in Nat \ {0} /\ NotifyBatch \in Nat \ {0}
    /\ MaxDisturbances \in Nat
    /\ NoNode \notin Discoveries

VARIABLES
    feed,      \* root_subject_version: the accepted versions in row order
    jobs,      \* the leased CDN jobs, by version
    accepting, \* versions committed by a request that has not enqueued them yet
    tasks,     \* posts in flight, with what their cycle still does after them
    late,      \* posts nobody waits for any more that may still reach the CDN
    cdn,       \* the version of each Agent the CDN holds, 0 for none
    auth,      \* the status of each Discovery node in the authorization file
    syncing,   \* the target status an authorization or revocation has yet to write
    targets,   \* root_discovery_target: the watermarks
    notify,    \* each notify cycle: the leases it has left, and its call
    requests, disturbances,
    governed,  \* history: whether an administrator governed a Discovery node
    stored     \* history: every version the CDN ever stored

rootVars == <<feed, jobs, accepting, tasks, late, cdn, auth, syncing, targets, notify,
              requests, disturbances, governed, stored>>

Version == [did : Agents, version : 1..MaxVersion]
Statuses == {"none", "active", "revoked"}
Target == [pending : Nat, delivered : Nat, status : Statuses, lease : {"free", "held", "lapsed"}]
Idle == [leases |-> {}, call |-> NoNode, hint |-> 0, reply |-> "none"]

Latest(did) == Cardinality({c \in DOMAIN feed : feed[c].did = did})

\* Mutant: the cursor of the newest row.
CursorOfNewest(version) == Len(feed)

\* publication_cursor_for_job: the row number of a version.
Cursor(version) == CHOOSE c \in DOMAIN feed : feed[c] = version

\* One of the events the bound MaxDisturbances counts.
Disturbance == disturbances < MaxDisturbances /\ disturbances' = disturbances + 1

RootInit ==
    /\ feed = <<>>
    /\ jobs = [v \in Version |-> "none"]
    /\ accepting = {} /\ tasks = {} /\ late = {}
    /\ cdn = [a \in Agents |-> 0]
    /\ auth = [d \in Discoveries |-> IF d \in Authorized THEN "active" ELSE "none"]
    /\ syncing = [d \in Discoveries |-> "none"]
    /\ targets = [d \in Discoveries |-> [pending |-> 0, delivered |-> 0, status |-> auth[d], lease |-> "free"]]
    /\ notify = [n \in Notifiers |-> Idle]
    /\ requests = 0 /\ disturbances = 0 /\ governed = FALSE
    /\ stored = {}

----------------------------------------------------------------------------
(* verify_and_publish *)

\* The transaction: a new document gets the Agent's next version and the next
\* row; the same document again keeps the version and its row.
Commit(version) ==
    /\ requests < MaxRequests /\ requests' = requests + 1
    /\ \/ /\ version.version = Latest(version.did) + 1
          /\ feed' = Append(feed, version)
       \/ /\ version.version = Latest(version.did)
          /\ UNCHANGED feed
    /\ version \notin accepting
    /\ accepting' = accepting \union {version}
    /\ UNCHANGED <<jobs, tasks, late, cdn, auth, syncing, targets, notify, disturbances, governed, stored>>

\* After the COMMIT the job is enqueued on another connection.
EnqueueAccepted(version) ==
    /\ version \in accepting
    /\ accepting' = accepting \ {version}
    /\ jobs' = Enqueued(jobs, version)
    /\ UNCHANGED <<feed, tasks, late, cdn, auth, syncing, targets, notify, disturbances, governed, stored, requests>>

\* ... which may fail: the request is answered with an error, its version stays.
FailEnqueue(version) ==
    /\ version \in accepting
    /\ Disturbance
    /\ accepting' = accepting \ {version}
    /\ UNCHANGED <<feed, jobs, tasks, late, cdn, auth, syncing, targets, notify, governed, stored, requests>>

----------------------------------------------------------------------------
(* run_cdn_publish_cycle *)

RunsCycle(w) == \E t \in tasks : t.worker = w
PostOf(w, version) == [worker |-> w, job |-> version, stage |-> "posting", left |-> {}]

\* A cycle leases its jobs and posts them all, each in a task of its own.
StartCycle(w, versions) ==
    /\ ~RunsCycle(w)
    /\ versions \in Claims(jobs, CdnBatch)
    /\ jobs' = Leased(jobs, versions)
    /\ tasks' = tasks \union {PostOf(w, v) : v \in versions}
    /\ UNCHANGED <<feed, accepting, late, cdn, auth, syncing, targets, notify, disturbances, governed, stored, requests>>

\* The cycle ends where it looks up the CDN's address: its leases stay.
CycleWithoutCdn(w, versions) ==
    /\ ~RunsCycle(w)
    /\ versions \in Claims(jobs, CdnBatch)
    /\ Disturbance
    /\ jobs' = Leased(jobs, versions)
    /\ UNCHANGED <<feed, accepting, tasks, late, cdn, auth, syncing, targets, notify, governed, stored, requests>>

\* The CDN stores the package it is sent, whatever version it holds.
Stores(version) ==
    /\ cdn' = [cdn EXCEPT ![version.did] = version.version]
    /\ stored' = stored \union {version}

CdnStores(t) ==
    /\ t \in tasks /\ t.stage = "posting"
    /\ Stores(t.job)
    /\ tasks' = (tasks \ {t}) \union {[t EXCEPT !.stage = "stored"]}
    /\ UNCHANGED <<feed, jobs, accepting, late, auth, syncing, targets, notify, disturbances, governed, requests>>

\* The post fails or times out; what was sent may still arrive.
PostFails(t) ==
    /\ t \in tasks /\ t.stage = "posting"
    /\ Disturbance
    /\ tasks' = tasks \ {t}
    /\ jobs' = PutOff(jobs, t.job)
    /\ late' \in {late, late \union {t.job}}
    /\ UNCHANGED <<feed, accepting, cdn, auth, syncing, targets, notify, governed, stored, requests>>

CdnStoresLate(version) ==
    /\ version \in late
    /\ Stores(version)
    /\ late' = late \ {version}
    /\ UNCHANGED <<feed, jobs, accepting, tasks, auth, syncing, targets, notify, disturbances, governed, requests>>

\* advance_discovery_target_watermarks reads the authorization file first ...
ReadAudience(t) ==
    /\ t \in tasks /\ t.stage = "stored"
    /\ LET audience == {d \in Discoveries : auth[d] = "active" /\ t.job.did \in Serves[d]} IN
       tasks' = (tasks \ {t}) \union {[t EXCEPT !.stage = "announcing", !.left = audience]}
    /\ UNCHANGED <<feed, jobs, accepting, late, cdn, auth, syncing, targets, notify, disturbances, governed, stored, requests>>

\* ... and then raises the watermarks one by one; each becomes active again.
Raised(target, cursor) ==
    [target EXCEPT !.pending = Max({@, cursor}), !.status = "active"]
Announce(t, d) ==
    /\ t \in tasks /\ t.stage = "announcing" /\ d \in t.left
    /\ targets' = [targets EXCEPT ![d] = Raised(@, Cursor(t.job))]
    /\ tasks' = (tasks \ {t}) \union {[t EXCEPT !.left = @ \ {d}]}
    /\ UNCHANGED <<feed, jobs, accepting, late, cdn, auth, syncing, notify, disturbances, governed, stored, requests>>

\* Mutant: the job is marked as soon as the CDN has answered.
AcknowledgesEarly(t) == t.stage # "posting"

\* Last, mark_cdn_job_published.
Acknowledges(t) == t.stage = "announcing" /\ t.left = {}
MarkPublished(t) ==
    /\ t \in tasks /\ Acknowledges(t)
    /\ jobs' = Succeeded(jobs, t.job)
    /\ tasks' = tasks \ {t}
    /\ UNCHANGED <<feed, accepting, late, cdn, auth, syncing, targets, notify, disturbances, governed, stored, requests>>

\* A statement after the post fails: the task ends, its lease stays.
TaskFails(t) ==
    /\ t \in tasks /\ t.stage # "posting"
    /\ Disturbance
    /\ tasks' = tasks \ {t}
    /\ UNCHANGED <<feed, jobs, accepting, late, cdn, auth, syncing, targets, notify, governed, stored, requests>>

\* A lease runs out: always when nobody holds the job any more, and as a fault
\* while a task still does.
LapseJob(version) ==
    /\ jobs[version] = "leased"
    /\ IF \E t \in tasks : t.job = version THEN Disturbance ELSE UNCHANGED disturbances
    /\ jobs' = Lapsed(jobs, version)
    /\ UNCHANGED <<feed, accepting, tasks, late, cdn, auth, syncing, targets, notify, governed, stored, requests>>

----------------------------------------------------------------------------
(* run_discovery_notify_cycle *)

\* Mutant: a lease is never taken over.
ClaimableIfFree(d) ==
    targets[d].status = "active" /\ targets[d].pending > targets[d].delivered /\ targets[d].lease = "free"

Claimable(d) ==
    /\ targets[d].status = "active"
    /\ targets[d].pending > targets[d].delivered
    /\ targets[d].lease # "held"

\* claim_discovery_targets leases the targets, and the cycle reads the
\* authorization file: targets that are not active there are put off at once.
StartNotify(n, nodes) ==
    /\ notify[n] = Idle
    /\ nodes # {} /\ Cardinality(nodes) <= NotifyBatch
    /\ \A d \in nodes : Claimable(d)
    /\ LET called == {d \in nodes : auth[d] = "active"} IN
       /\ targets' = [d \in Discoveries |->
             IF d \in nodes
             THEN [targets[d] EXCEPT !.lease = IF d \in called THEN "held" ELSE "free"]
             ELSE targets[d]]
       /\ notify' = [notify EXCEPT ![n] = [Idle EXCEPT
             !.leases = {[node |-> d, cursor |-> targets[d].pending] : d \in called}]]
    /\ UNCHANGED <<feed, jobs, accepting, tasks, late, cdn, auth, syncing, disturbances, governed, stored, requests>>

\* The next target of the cycle is posted its cursor (the Discovery node takes
\* the request up in a step of its own).
Call(n, lease) ==
    /\ lease \in notify[n].leases /\ notify[n].call = NoNode
    /\ notify' = [notify EXCEPT ![n].leases = @ \ {lease}, ![n].call = lease.node,
                                ![n].hint = lease.cursor, ![n].reply = "sent"]
    /\ UNCHANGED <<feed, jobs, accepting, tasks, late, cdn, auth, syncing, targets, disturbances, governed, stored, requests>>

\* A successful answer moves the delivered watermark to the cursor of the lease.
Delivered(target, cursor) ==
    [target EXCEPT !.delivered = Max({@, cursor}), !.status = "active", !.lease = "free"]
CallEnds(n) ==
    notify' = [notify EXCEPT ![n].call = NoNode, ![n].hint = 0, ![n].reply = "none"]
MarkNotified(n) ==
    /\ notify[n].reply = "ok"
    /\ targets' = [targets EXCEPT ![notify[n].call] = Delivered(@, notify[n].hint)]
    /\ CallEnds(n)
    /\ UNCHANGED <<feed, jobs, accepting, tasks, late, cdn, auth, syncing, disturbances, governed, stored, requests>>

\* An error answer, or none in time, puts the target off.
MarkTargetRetry(n) ==
    /\ \/ notify[n].reply = "error" /\ UNCHANGED disturbances
       \/ notify[n].reply \in {"sent", "working"} /\ Disturbance
    /\ targets' = [targets EXCEPT ![notify[n].call].lease = "free"]
    /\ CallEnds(n)
    /\ UNCHANGED <<feed, jobs, accepting, tasks, late, cdn, auth, syncing, governed, stored, requests>>

\* A target's lease runs out: the cycle calls its targets one after the other,
\* and may well take longer than lease_seconds.
LapseTarget(d) ==
    /\ targets[d].lease = "held"
    /\ IF \E n \in Notifiers : notify[n].call = d \/ \E l \in notify[n].leases : l.node = d
       THEN Disturbance ELSE UNCHANGED disturbances
    /\ targets' = [targets EXCEPT ![d].lease = "lapsed"]
    /\ UNCHANGED <<feed, jobs, accepting, tasks, late, cdn, auth, syncing, notify, governed, stored, requests>>

----------------------------------------------------------------------------
(* Governance of Discovery nodes, and restarts *)

\* The authorization file first ...
Govern(d, status) ==
    /\ Disturbance /\ governed' = TRUE
    /\ syncing[d] = "none"
    /\ auth' = [auth EXCEPT ![d] = IF status = "revoked" /\ @ = "none" THEN "none" ELSE status]
    /\ syncing' = [syncing EXCEPT ![d] = status]
    /\ UNCHANGED <<feed, jobs, accepting, tasks, late, cdn, targets, notify, stored, requests>>

\* ... then sync_discovery_target_state, which clears the lease unless it revokes.
SyncTarget(d) ==
    /\ syncing[d] # "none"
    /\ targets' = [targets EXCEPT ![d].status = syncing[d],
                     ![d].lease = IF syncing[d] = "revoked" THEN @ ELSE "free"]
    /\ syncing' = [syncing EXCEPT ![d] = "none"]
    /\ UNCHANGED <<feed, jobs, accepting, tasks, late, cdn, auth, notify, disturbances, governed, stored, requests>>

\* Root stops and starts again: the tables stay, with the leases they record.
Restart ==
    /\ Disturbance
    /\ accepting' = {} /\ tasks' = {}
    /\ late' \in {late, late \union {t.job : t \in {u \in tasks : u.stage = "posting"}}}
    /\ syncing' = [d \in Discoveries |-> "none"]
    /\ notify' = [n \in Notifiers |-> Idle]
    /\ UNCHANGED <<feed, jobs, cdn, auth, targets, governed, stored, requests>>

RootStep ==
    \/ \E v \in Version : Commit(v) \/ EnqueueAccepted(v) \/ FailEnqueue(v) \/ LapseJob(v) \/ CdnStoresLate(v)
    \/ \E w \in Workers, vs \in Claims(jobs, CdnBatch) : StartCycle(w, vs) \/ CycleWithoutCdn(w, vs)
    \/ \E t \in tasks : CdnStores(t) \/ PostFails(t) \/ ReadAudience(t) \/ MarkPublished(t) \/ TaskFails(t)
    \/ \E t \in tasks, d \in Discoveries : Announce(t, d)
    \/ \E n \in Notifiers, ds \in SUBSET Discoveries : StartNotify(n, ds)
    \/ \E n \in Notifiers : \E l \in notify[n].leases : Call(n, l)
    \/ \E n \in Notifiers : MarkNotified(n) \/ MarkTargetRetry(n)
    \/ \E d \in Discoveries : LapseTarget(d) \/ SyncTarget(d)
    \/ \E d \in Discoveries, status \in {"active", "revoked"} : Govern(d, status)
    \/ Restart
============================================================================
