--------------------------- MODULE RootGovernance ---------------------------
(***************************************************************************)
(* Governance in the Root node of the reference services, with its SQLite  *)
(* store: administrators authorize and revoke nodes.  Each request reads   *)
(* the newest event of the bulletin, writes the event that follows it, and *)
(* then reads and rewrites the authorization file, from which the          *)
(* registration handlers tell who may register Agents.  Nothing keeps two  *)
(* requests apart.  An export loop copies the bulletin table to a JSON     *)
(* file, from which the next start of Root fills the table again.  A file  *)
(* that is being rewritten is truncated first; who reads it then, or after *)
(* a crash in between, cannot parse it and falls back on the authorization *)
(* state Root read when it started.                                        *)
(*                                                                         *)
(* Of the two kinds of node a file entry of the other kind is left out, and *)
(* so are an entry's document and time.                                   *)
(***************************************************************************)
EXTENDS Naturals, Sequences, FiniteSetsExt, SequencesExt

CONSTANTS
    Admins,         \* the governance requests that may run at a time
    GovernedNodes,  \* the nodes they are about
    MaxGovernance,  \* bound on the events sealed
    MaxStops        \* bound on the restarts of Root

VARIABLES
    rows,       \* root_bulletin_event, by sequence
    sealed,     \* how many events were ever sealed, which tells their hashes apart
    export,     \* bulletin.json
    exporting,  \* the export in progress: the rows read, or none
    authorization,  \* the authorization file
    snapshot,   \* the authorization state read when Root started
    admin,      \* what each request is about to do
    running,    \* whether Root runs
    stops,
    settled,    \* history: nodes whose revocation was answered, not authorized since
    honoured,   \* history: those of them whose revocation precedes Root's start
    accepted    \* history: the nodes Root has accepted registrations from since it started

governanceVars == <<rows, sealed, export, exporting, authorization, snapshot, admin,
                    running, stops, settled, honoured, accepted>>

Operations == {"authorize registrar", "authorize other", "revoke"}

\* A file is the value written last, and whether it is truncated.
File(value) == [value |-> value, torn |-> FALSE]
Truncated(file) == [file EXCEPT !.torn = TRUE]
NoEntries == [n \in GovernedNodes |-> "none"]
NoRequest == [at |-> "idle"]

GovernanceInit ==
    /\ rows = <<>> /\ sealed = 0
    /\ export = File(<<>>) /\ exporting = [at |-> "idle"]
    /\ authorization = File(NoEntries) /\ snapshot = NoEntries
    /\ admin = [a \in Admins |-> NoRequest]
    /\ running = TRUE /\ stops = 0
    /\ settled = {} /\ honoured = {} /\ accepted = {}

----------------------------------------------------------------------------
(* append_event *)

\* Upsert by sequence, as the event writes and the start of Root do.
Upserted(table, sequence, event) ==
    IF sequence <= Len(table) THEN [table EXCEPT ![sequence] = event] ELSE Append(table, event)

\* Mutant: the newest sequence is used again.
NewestSequence(table) == Max({1, Len(table)})

FollowingSequence(table) == Len(table) + 1

PreviousHash(table) == IF table = <<>> THEN 0 ELSE Last(table).hash

\* The event that follows the newest one is sealed ...
SealEvent(a, operation, node) ==
    /\ running /\ admin[a] = NoRequest /\ sealed < MaxGovernance
    /\ sealed' = sealed + 1
    /\ admin' = [admin EXCEPT ![a] =
          [at |-> "sealed", sequence |-> FollowingSequence(rows),
           event |-> [hash |-> sealed + 1, previous |-> PreviousHash(rows),
                      operation |-> operation, node |-> node]]]
    /\ settled' = IF operation = "authorize registrar" THEN settled \ {node} ELSE settled
    /\ honoured' = IF operation = "authorize registrar" THEN honoured \ {node} ELSE honoured
    /\ UNCHANGED <<rows, export, exporting, authorization, snapshot, running, stops, accepted>>

\* ... and written under the sequence it was sealed with.
PersistEvent(a) ==
    /\ admin[a].at = "sealed"
    /\ rows' = Upserted(rows, admin[a].sequence, admin[a].event)
    /\ admin' = [admin EXCEPT ![a].at = "published"]
    /\ UNCHANGED <<sealed, export, exporting, authorization, snapshot, running, stops,
                   settled, honoured, accepted>>

----------------------------------------------------------------------------
(* The authorization file *)

\* load_authorization_state, or the state at the start of Root.
SeenEntries == IF authorization.torn THEN snapshot ELSE authorization.value

\* Mutant: a revocation forgets the registrar's entry.
EntriesAfterRevokingOthers(entries, event) ==
    IF event.operation = "authorize registrar" THEN [entries EXCEPT ![event.node] = "active"] ELSE entries

EntriesAfter(entries, event) ==
    CASE event.operation = "authorize registrar" -> [entries EXCEPT ![event.node] = "active"]
      [] event.operation = "revoke" /\ entries[event.node] # "none" ->
            [entries EXCEPT ![event.node] = "revoked"]
      [] OTHER -> entries

LoadEntries(a) ==
    /\ admin[a].at = "published"
    /\ admin' = [admin EXCEPT ![a] = [at |-> "loaded", event |-> @.event,
                                      entries |-> EntriesAfter(SeenEntries, @.event)]]
    /\ UNCHANGED <<rows, sealed, export, exporting, authorization, snapshot, running, stops,
                   settled, honoured, accepted>>

TruncateEntries(a) ==
    /\ admin[a].at = "loaded"
    /\ authorization' = Truncated(authorization)
    /\ admin' = [admin EXCEPT ![a].at = "writing"]
    /\ UNCHANGED <<rows, sealed, export, exporting, snapshot, running, stops, settled, honoured, accepted>>

\* The file is written, and the request answered.
WriteEntries(a) ==
    /\ admin[a].at = "writing"
    /\ authorization' = File(admin[a].entries)
    /\ admin' = [admin EXCEPT ![a] = NoRequest]
    /\ settled' = IF admin[a].event.operation = "revoke" THEN settled \union {admin[a].event.node} ELSE settled
    /\ UNCHANGED <<rows, sealed, export, exporting, snapshot, running, stops, honoured, accepted>>

\* verify_request, as far as the Registrar's authorization goes.
AcceptRegistrar(node) ==
    /\ running
    /\ SeenEntries[node] = "active"
    /\ accepted' = accepted \union {node}
    /\ UNCHANGED <<rows, sealed, export, exporting, authorization, snapshot, admin, running, stops,
                   settled, honoured>>

----------------------------------------------------------------------------
(* root_debug_export_loop, and restarts *)

ReadBulletinRows ==
    /\ running /\ exporting.at = "idle"
    /\ exporting' = [at |-> "read", rows |-> rows]
    /\ UNCHANGED <<rows, sealed, export, authorization, snapshot, admin, running, stops,
                   settled, honoured, accepted>>

TruncateExport ==
    /\ exporting.at = "read"
    /\ export' = Truncated(export)
    /\ exporting' = [exporting EXCEPT !.at = "writing"]
    /\ UNCHANGED <<rows, sealed, authorization, snapshot, admin, running, stops, settled, honoured, accepted>>

WriteExport ==
    /\ exporting.at = "writing"
    /\ export' = File(exporting.rows)
    /\ exporting' = [at |-> "idle"]
    /\ UNCHANGED <<rows, sealed, authorization, snapshot, admin, running, stops, settled, honoured, accepted>>

StopRoot ==
    /\ running /\ stops < MaxStops
    /\ running' = FALSE /\ stops' = stops + 1
    /\ admin' = [a \in Admins |-> NoRequest] /\ exporting' = [at |-> "idle"]
    /\ accepted' = {}
    /\ UNCHANGED <<rows, sealed, export, authorization, snapshot, settled, honoured>>

\* Root starts with the file's entries, with none when it cannot be parsed, and
\* puts the exported events back into the table; a truncated export stops it.
BootstrappedRows ==
    [i \in 1..Max({Len(rows), Len(export.value)}) |->
        IF i <= Len(export.value) THEN export.value[i] ELSE rows[i]]
StartRoot ==
    /\ ~running /\ ~export.torn
    /\ running' = TRUE
    /\ snapshot' = IF authorization.torn THEN NoEntries ELSE authorization.value
    /\ rows' = BootstrappedRows
    /\ honoured' = settled
    /\ UNCHANGED <<sealed, export, exporting, authorization, admin, stops, settled, accepted>>

GovernanceNext ==
    \/ \E a \in Admins, o \in Operations, n \in GovernedNodes : SealEvent(a, o, n)
    \/ \E a \in Admins : PersistEvent(a) \/ LoadEntries(a) \/ TruncateEntries(a) \/ WriteEntries(a)
    \/ \E n \in GovernedNodes : AcceptRegistrar(n)
    \/ ReadBulletinRows \/ TruncateExport \/ WriteExport \/ StopRoot \/ StartRoot

GovernanceSpec == GovernanceInit /\ [][GovernanceNext]_governanceVars

----------------------------------------------------------------------------
(* Properties *)

\* verify_hash_chain: the hashes link every event to the one before it.
HashChainVerifies(events) ==
    \A i \in 1..Len(events) : events[i].previous = IF i = 1 THEN 0 ELSE events[i - 1].hash

\* The bulletin verifies at all times, as Discovery nodes require before every
\* sync, and so does the exported copy; across crashes between the event and
\* the file and across starts that fill the table from an older export.
BulletinVerifies ==
    HashChainVerifies(rows) /\ HashChainVerifies(export.value)

\* An event once exported is never replaced in the bulletin by another one.
ExportedIsKept ==
    /\ Len(export.value) <= Len(rows)
    /\ \A i \in 1..Len(export.value) : rows[i] = export.value[i]

\* Nobody may register Agents without an authorization in the bulletin: not
\* through the file, nor through the state Root fell back on.
GrantsHaveEvents ==
    \A n \in GovernedNodes :
        authorization.value[n] = "active" \/ snapshot[n] = "active" \/ n \in accepted =>
            \E i \in 1..Len(rows) : rows[i].operation = "authorize registrar" /\ rows[i].node = n

\* With one request at a time the bulletin is whole in both places, across
\* restarts from an older export, and every grant rests on it.
BulletinHolds == BulletinVerifies /\ ExportedIsKept /\ GrantsHaveEvents

\* A revocation that was answered before Root last started is honoured: no
\* truncated file and no fallback makes Root accept that registrar again.
\* (Until that start the fallback may still be the state before it.)
RevocationsAreHonoured == accepted \cap honoured = {}
============================================================================
