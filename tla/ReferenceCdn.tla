---------------------------- MODULE ReferenceCdn ----------------------------
(***************************************************************************)
(* The CDN of the reference services, with its SQLite store.  A package    *)
(* that Root posts is written to three files, one after the other, then to *)
(* the manifest table and the history.  There is no lock and no comparison *)
(* of versions: several posts, of one Agent too, write beside each other.  *)
(* A file stands for the version it was taken from; one that is being      *)
(* rewritten is torn until it is written, and stays so if the CDN stops.   *)
(* A loop copies the manifest and the history to JSON files, from which a  *)
(* CDN without SQLite would serve them.                                    *)
(***************************************************************************)
EXTENDS Naturals, FiniteSets

CONSTANTS
    CdnAgents,      \* the Agents
    Posts,          \* posts that may run at a time
    CdnVersions,    \* the versions a package may have
    MaxPosts,       \* bound on the posts
    MaxCdnStops,    \* bound on posts cut short, by an error or by the end of the CDN
    MaxCdnExports   \* bound on the exports

VARIABLES
    files,     \* per kind and Agent: the version written, 0 for none, and whether it is torn
    entries,   \* cdn_manifest_entry: the version listed for an Agent, 0 for none
    published, \* cdn_publish_history, as a set
    posts,     \* each post: its package and how far it is
    copied,    \* manifest.json and publish-history.json
    posted, stopped, exported,
    mixed      \* history: the Agents of whom posts overlapped or were cut short, until one runs alone

cdnNodeVars == <<files, entries, published, posts, copied, posted, stopped, exported, mixed>>

\* sound: the envelope, the two hashes and the Root's DID are as they should be.
Package == [did : CdnAgents, version : CdnVersions, sound : BOOLEAN]
Kinds == {"documents", "metadata", "packages"}
NextStage == [documents |-> "metadata", metadata |-> "packages", packages |-> "manifest",
              manifest |-> "history", history |-> "done"]
NoPost == [at |-> "idle"]

CdnNodeInit ==
    /\ files = [k \in Kinds |-> [a \in CdnAgents |-> [version |-> 0, torn |-> FALSE, sound |-> TRUE]]]
    /\ entries = [a \in CdnAgents |-> 0]
    /\ published = {} /\ posts = [p \in Posts |-> NoPost]
    /\ copied = [manifest |-> {}, history |-> {}]
    /\ posted = 0 /\ stopped = 0 /\ exported = 0 /\ mixed = {}

\* verify_signed_request_envelope, verify_document_hash, verify_metadata_hash.
Verified(package) == package.sound

Running(did) == {p \in Posts : posts[p] # NoPost /\ posts[p].package.did = did}
ReceivePost(p, package) ==
    /\ posts[p] = NoPost /\ posted < MaxPosts /\ posted' = posted + 1
    /\ mixed' = IF ~Verified(package) THEN mixed
                ELSE IF Running(package.did) = {} THEN mixed \ {package.did} ELSE mixed \union {package.did}
    /\ posts' = [posts EXCEPT ![p] = IF Verified(package)
                    THEN [at |-> "documents", package |-> package, torn |-> FALSE] ELSE NoPost]
    /\ UNCHANGED <<files, entries, published, copied, stopped, exported>>

\* JsonStore::write truncates the file first ...
TruncateFile(p) ==
    /\ posts[p].at \in Kinds /\ ~posts[p].torn
    /\ files' = [files EXCEPT ![posts[p].at][posts[p].package.did].torn = TRUE]
    /\ posts' = [posts EXCEPT ![p].torn = TRUE]
    /\ UNCHANGED <<entries, published, copied, posted, stopped, exported, mixed>>

\* Mutant: the manifest entry precedes the package file.
ManifestBeforePackage(stage) ==
    [NextStage EXCEPT !["metadata"] = "manifest", !["manifest"] = "packages", !["packages"] = "history"][stage]

AfterStage(stage) == NextStage[stage]

\* The post goes on, or is answered.
Reached(p) ==
    posts' = [posts EXCEPT ![p] = IF AfterStage(@.at) = "done" THEN NoPost
                                  ELSE [@ EXCEPT !.at = AfterStage(posts[p].at), !.torn = FALSE]]

\* ... and then fills it.
WriteFile(p) ==
    /\ posts[p].at \in Kinds /\ posts[p].torn
    /\ files' = [files EXCEPT ![posts[p].at][posts[p].package.did] =
                    [version |-> posts[p].package.version, torn |-> FALSE, sound |-> posts[p].package.sound]]
    /\ Reached(p)
    /\ UNCHANGED <<entries, published, copied, posted, stopped, exported, mixed>>

Entry(p) == posts[p].package.version

\* upsert_manifest_entry, whatever version the row holds.
UpsertEntry(p) ==
    /\ posts[p].at = "manifest"
    /\ entries' = [entries EXCEPT ![posts[p].package.did] = Entry(p)]
    /\ Reached(p)
    /\ UNCHANGED <<files, published, copied, posted, stopped, exported, mixed>>

AppendHistory(p) ==
    /\ posts[p].at = "history"
    /\ published' = published \union {[did |-> posts[p].package.did, version |-> posts[p].package.version]}
    /\ Reached(p)
    /\ UNCHANGED <<files, entries, copied, posted, stopped, exported, mixed>>

\* A statement or a write of the post fails.
StopPost(p) ==
    /\ posts[p] # NoPost
    /\ stopped < MaxCdnStops /\ stopped' = stopped + 1
    /\ posts' = [posts EXCEPT ![p] = NoPost]
    /\ mixed' = mixed \union {posts[p].package.did}
    /\ UNCHANGED <<files, entries, published, copied, posted, exported>>

\* The CDN starts again: no post goes on, and the files are as they were left.
RestartCdn ==
    /\ stopped < MaxCdnStops /\ stopped' = stopped + 1
    /\ posts' = [p \in Posts |-> NoPost]
    /\ mixed' = mixed \union {a \in CdnAgents : Running(a) # {}}
    /\ UNCHANGED <<files, entries, published, copied, posted, exported>>

----------------------------------------------------------------------------
(* What the CDN shows *)

read_manifest == {[did |-> a, version |-> entries[a]] : a \in {b \in CdnAgents : entries[b] > 0}}

\* read_by_did: a torn file is not found.
read_by_did(kind, did) == IF files[kind][did].torn THEN 0 ELSE files[kind][did].version

\* export_cdn_debug_snapshot: the manifest, and then the history as it is by then.
ExportManifest ==
    /\ exported < MaxCdnExports /\ exported' = exported + 1
    /\ copied' = [copied EXCEPT !.manifest = read_manifest]
    /\ UNCHANGED <<files, entries, published, posts, posted, stopped, mixed>>
ExportHistory ==
    /\ exported > 0 /\ copied' = [copied EXCEPT !.history = published]
    /\ UNCHANGED <<files, entries, published, posts, posted, stopped, exported, mixed>>

CdnNodeNext ==
    \/ \E p \in Posts, package \in Package : ReceivePost(p, package)
    \/ \E p \in Posts : TruncateFile(p) \/ WriteFile(p) \/ UpsertEntry(p) \/ AppendHistory(p) \/ StopPost(p)
    \/ RestartCdn \/ ExportManifest \/ ExportHistory

CdnNodeSpec == CdnNodeInit /\ [][CdnNodeNext]_cdnNodeVars

----------------------------------------------------------------------------
(* Properties *)

\* What the CDN serves was signed by Root and has the hashes it names.
ServedWasVerified == \A k \in Kinds, a \in CdnAgents : files[k][a].sound

\* An Agent in the manifest, or in its copy, has a document, metadata and a
\* package to fetch, in every order the posts of its versions may write.
ListedIsServed ==
    \A item \in read_manifest \union copied.manifest : \A k \in Kinds : files[k][item.did].version > 0

\* What the history says was published is listed, in some version, and so is
\* what its copy says.
PublishedIsListed ==
    \A item \in published \union copied.history : \E listed \in read_manifest : listed.did = item.did

\* A post that runs alone brings the Agent's three files and its entry to one
\* version, its own, whatever overlapping or broken posts left before it, and
\* none of the files is torn.
AloneAgrees ==
    \A a \in CdnAgents \ mixed :
        Running(a) = {} => \A k \in Kinds : read_by_did(k, a) = entries[a]

\* Manifest, history and files agree however posts of one Agent mix: what one of
\* them names the others have, and after a post that ran alone all are of one
\* version.
FilesAndTablesAgree == ListedIsServed /\ PublishedIsListed /\ AloneAgrees
============================================================================
