------------------------------ MODULE RootFiles ------------------------------
(***************************************************************************)
(* The Root node of the reference services without SQLite: registrations   *)
(* and publishing cycles that share two JSON files, the index of latest    *)
(* versions and the CDN queue.  Each change reads a file and writes it     *)
(* back whole, truncating it first, and nothing keeps two of them apart; a *)
(* file that cannot be parsed reads as empty.  That much goes wrong when   *)
(* they overlap is plain; what these properties say is that nothing else   *)
(* does.                                                                   *)
(***************************************************************************)
EXTENDS Naturals, FiniteSets

CONSTANTS
    FileAgents, FileDocuments,
    FileTasks,     \* the requests, and the cycles, that may run at a time
    MaxFiled,      \* bound on the registrations
    MaxFileFaults  \* bound on the failures and restarts

VARIABLES
    latest,     \* the index: version and document per Agent
    queued,     \* the CDN queue
    archived,   \* the document archived under each version
    torn,       \* which of the two files is truncated
    filing,     \* each registration
    posting,    \* each cycle: its tasks, one per package
    cdnHas,     \* the version the CDN holds of each Agent
    filed, fileFaults,
    answers,    \* history: the packages whose registration was answered
    disturbed   \* history: what overlapped, or was cut short

\* A file that names no version yet names no document.
ASSUME FilesAssumption == MaxFiled \in Nat /\ "none" \notin FileDocuments

fileVars == <<latest, queued, archived, torn, filing, posting, cdnHas, filed, fileFaults, answers, disturbed>>

NotFiled == [version |-> 0, document |-> "none"]
NotFiling == [at |-> "idle"]

FilesInit ==
    /\ latest = [a \in FileAgents |-> NotFiled]
    /\ queued = {} /\ archived = [a \in FileAgents |-> [v \in 1..MaxFiled |-> "none"]]
    /\ torn = {} /\ filing = [t \in FileTasks |-> NotFiling] /\ posting = [t \in FileTasks |-> {}]
    /\ cdnHas = [a \in FileAgents |-> 0]
    /\ filed = 0 /\ fileFaults = 0 /\ answers = {} /\ disturbed = {}

\* read_latest_versions, read_cdn_queue: a truncated file is empty.
LatestSeen == IF "latest" \in torn THEN [a \in FileAgents |-> NotFiled] ELSE latest
QueueSeen == IF "queue" \in torn THEN {} ELSE queued

\* A change of this file begins while another is under way, or after one that
\* was cut short.
Disturbs(file) == IF file \in torn THEN {file} ELSE {}

----------------------------------------------------------------------------
(* verify_and_publish *)

NextVersionOf(previous, document) == previous.version + IF document = previous.document THEN 0 ELSE 1

\* load_latest_version; two registrations of one Agent may read the same.
LoadLatest(t, a, d) ==
    /\ filing[t] = NotFiling /\ filed < MaxFiled /\ filed' = filed + 1
    /\ filing' = [filing EXCEPT ![t] = [at |-> "index",
          package |-> [did |-> a, version |-> NextVersionOf(LatestSeen[a], d), document |-> d]]]
    /\ disturbed' = disturbed \union Disturbs("latest")
          \union (IF \E u \in FileTasks : filing[u] # NotFiling /\ filing[u].package.did = a
                  THEN {"latest"} ELSE {})
    /\ UNCHANGED <<latest, queued, archived, torn, posting, cdnHas, fileFaults, answers>>

\* update_latest_version reads the index and truncates it ...
BeginIndex(t) ==
    /\ filing[t].at = "index"
    /\ filing' = [filing EXCEPT ![t] = [at |-> "indexing", package |-> @.package, seen |-> LatestSeen]]
    /\ torn' = torn \union {"latest"} /\ disturbed' = disturbed \union Disturbs("latest")
    /\ UNCHANGED <<latest, queued, archived, posting, cdnHas, filed, fileFaults, answers>>

\* ... and writes it.
update_latest_version(t) ==
    LET new == filing[t].package IN
    /\ filing[t].at = "indexing"
    /\ latest' = [filing[t].seen EXCEPT ![new.did] = [version |-> new.version, document |-> new.document]]
    /\ torn' = torn \ {"latest"}
    /\ filing' = [filing EXCEPT ![t] = [at |-> "queue", package |-> new]]
    /\ UNCHANGED <<queued, archived, posting, cdnHas, filed, fileFaults, answers, disturbed>>

Requeued(queue, new) == {old \in queue : old.did # new.did} \union {new}

BeginEnqueue(t) ==
    /\ filing[t].at = "queue"
    /\ filing' = [filing EXCEPT ![t] = [at |-> "enqueuing", package |-> @.package, seen |-> QueueSeen]]
    /\ torn' = torn \union {"queue"} /\ disturbed' = disturbed \union Disturbs("queue")
    /\ UNCHANGED <<latest, queued, archived, posting, cdnHas, filed, fileFaults, answers>>

\* A cycle that carries an older package will take the newer one off the queue.
enqueue_cdn_legacy(t) ==
    LET new == filing[t].package IN
    /\ filing[t].at = "enqueuing"
    /\ queued' = Requeued(filing[t].seen, new) /\ torn' = torn \ {"queue"}
    /\ filing' = [filing EXCEPT ![t] = [at |-> "archive", package |-> new]]
    /\ disturbed' = disturbed \union
          {new.did : u \in {v \in FileTasks : \E task \in posting[v] : task.package.did = new.did}}
    /\ UNCHANGED <<latest, archived, posting, cdnHas, filed, fileFaults, answers>>

\* archive_verified; then the answer.
archive_verified(t) ==
    LET new == filing[t].package IN
    /\ filing[t].at = "archive"
    /\ archived' = [archived EXCEPT ![new.did][new.version] = new.document]
    /\ answers' = answers \union {new}
    /\ filing' = [filing EXCEPT ![t] = NotFiling]
    /\ UNCHANGED <<latest, queued, torn, posting, cdnHas, filed, fileFaults, disturbed>>

----------------------------------------------------------------------------
(* run_cdn_publish_cycle *)

\* claim_cdn_jobs without leases: whatever is on the queue, claimed or not.
ClaimQueue(t) ==
    /\ posting[t] = {} /\ QueueSeen # {}
    /\ posting' = [posting EXCEPT ![t] = {[package |-> new, at |-> "post", seen |-> {}] : new \in QueueSeen}]
    /\ disturbed' = disturbed \union IF \E u \in FileTasks : posting[u] # {} THEN {"cycles"} ELSE {}
    /\ UNCHANGED <<latest, queued, archived, torn, filing, cdnHas, filed, fileFaults, answers>>

Moves(t, task, on) == posting' = [posting EXCEPT ![t] = (@ \ {task}) \union on]

PostPackage(t, task) ==
    /\ task \in posting[t] /\ task.at = "post"
    /\ cdnHas' = [cdnHas EXCEPT ![task.package.did] = task.package.version]
    /\ Moves(t, task, {[task EXCEPT !.at = "mark"]})
    /\ UNCHANGED <<latest, queued, archived, torn, filing, filed, fileFaults, answers, disturbed>>

\* mark_cdn_job_retry does nothing here: the package is still on the queue.
mark_cdn_job_retry(t, task) ==
    /\ task \in posting[t] /\ task.at = "post"
    /\ fileFaults < MaxFileFaults /\ fileFaults' = fileFaults + 1
    /\ Moves(t, task, {})
    /\ UNCHANGED <<latest, queued, archived, torn, filing, cdnHas, filed, answers, disturbed>>

BeginMark(t, task) ==
    /\ task \in posting[t] /\ task.at = "mark"
    /\ Moves(t, task, {[task EXCEPT !.at = "marking", !.seen = QueueSeen]})
    /\ torn' = torn \union {"queue"} /\ disturbed' = disturbed \union Disturbs("queue")
    /\ UNCHANGED <<latest, queued, archived, filing, cdnHas, filed, fileFaults, answers>>

\* Mutant: every package that was claimed leaves the queue.
AllTaken(queue, did) == {}

\* Whatever version of the Agent is on the queue leaves it.
Taken(queue, did) == {old \in queue : old.did # did}

mark_cdn_queue_published(t, task) ==
    /\ task \in posting[t] /\ task.at = "marking"
    /\ queued' = Taken(task.seen, task.package.did) /\ torn' = torn \ {"queue"}
    /\ Moves(t, task, {})
    /\ UNCHANGED <<latest, archived, filing, cdnHas, filed, fileFaults, answers, disturbed>>

\* Root stops: what was being written stays truncated.
RestartFiles ==
    /\ fileFaults < MaxFileFaults /\ fileFaults' = fileFaults + 1
    /\ filing' = [t \in FileTasks |-> NotFiling] /\ posting' = [t \in FileTasks |-> {}]
    /\ disturbed' = disturbed \union torn
    /\ UNCHANGED <<latest, queued, archived, torn, cdnHas, filed, answers>>

FilesNext ==
    \/ \E t \in FileTasks, a \in FileAgents, d \in FileDocuments : LoadLatest(t, a, d)
    \/ \E t \in FileTasks : \/ BeginIndex(t) \/ update_latest_version(t) \/ BeginEnqueue(t)
                            \/ enqueue_cdn_legacy(t) \/ archive_verified(t) \/ ClaimQueue(t)
    \/ \E t \in FileTasks : \E task \in posting[t] :
          \/ PostPackage(t, task) \/ mark_cdn_job_retry(t, task) \/ BeginMark(t, task)
          \/ mark_cdn_queue_published(t, task)
    \/ RestartFiles

FilesSpec == FilesInit /\ [][FilesNext]_fileVars

----------------------------------------------------------------------------
(* Properties *)

\* Unless registrations of one Agent overlapped or the index was cut short, an
\* answered version names one document, which the archive holds under it;
\* whatever happened on the queue, and through restarts.
FiledOnce ==
    "latest" \notin disturbed =>
        /\ \A one, other \in answers :
              one.did = other.did /\ one.version = other.version => one.document = other.document
        /\ \A one \in answers : archived[one.did][one.version] = one.document

\* Unless changes of the queue overlapped or were cut short, the CDN has or
\* will be sent the newest version that was answered, but for an Agent whose
\* package was queued while a cycle carried an older one.
NewestIsQueuedOrServed ==
    \A one \in answers :
        \/ {"latest", "queue", one.did} \cap disturbed # {}
        \/ cdnHas[one.did] >= one.version
        \/ \E waiting \in queued : waiting.did = one.did /\ waiting.version >= one.version

\* What waits on the queue is never older than what the CDN has; as long as
\* cycles do not overlap either, no cycle is about to take the CDN back.
QueueIsAhead ==
    {"latest", "queue"} \cap disturbed = {} =>
        /\ \A waiting \in queued : waiting.version >= cdnHas[waiting.did]
        /\ "cycles" \notin disturbed =>
              \A t \in FileTasks : \A task \in posting[t] :
                 task.at = "post" => task.package.version >= cdnHas[task.package.did]

\* What was answered is filed once, its newest version is queued or with the
\* CDN, and neither the queue nor a cycle of its own has an older one than that.
AnsweredIsServed == FiledOnce /\ NewestIsQueuedOrServed /\ QueueIsAhead
============================================================================
