------------------------------ MODULE RootViews ------------------------------
(***************************************************************************)
(* What Root shows of its state: the GET handlers of its API, and what the *)
(* Registrar and the Discovery nodes tell of themselves from Root's        *)
(* answers.  A view reads files without AppState.lock; it answers an error *)
(* when it needs the bulletin and cannot read it.                          *)
(***************************************************************************)
EXTENDS RootBatches

Failed == [error |-> TRUE]

\* read_bulletin, by a handler that fails with it.
FromBulletin(answer) == IF "bulletin" \in torn THEN Failed ELSE [error |-> FALSE, answer |-> answer]

EventsAbout(did) == {i \in 1..Len(bulletin) : bulletin[i].subject_did = did}
EventsOfTypes(types) == {i \in 1..Len(bulletin) : bulletin[i].event_type \in types}

----------------------------------------------------------------------------
(* Registrars and Discovery nodes *)

\* api_registrars: the file's entries, or else the events.
api_registrars ==
    LET entries == LoadAuthorization.registrars
        listed == {[did |-> n, status |-> entries[n]] : n \in {m \in Nodes : entries[m] # "absent"}} IN
    IF listed # {} THEN [error |-> FALSE, answer |-> listed]
    ELSE FromBulletin({bulletin[i] : i \in EventsOfTypes({"REGISTRAR_AUTHORIZED", "REGISTRAR_REVOKED"})})

api_registrar_detail(did) == FromBulletin({bulletin[i] : i \in EventsAbout(did)})

api_discovery_nodes ==
    LET entries == LoadAuthorization.discovery_nodes
        listed == {[did |-> n, status |-> entries[n].status,
                    authorizedDomains |-> entries[n].authorizedDomains] :
                       n \in {m \in Nodes : entries[m].status # "absent"}} IN
    IF listed # {} THEN [error |-> FALSE, answer |-> listed]
    ELSE FromBulletin({bulletin[i] : i \in EventsOfTypes({"DISCOVERY_NODE_AUTHORIZED",
             "DISCOVERY_NODE_DOMAINS_UPDATED", "DISCOVERY_NODE_REVOKED"})})

\* What the Discovery node makes of Root's bulletin: it looks for an event that
\* no handler appends.
discovery_authorization_status(did) ==
    IF \E i \in EventsAbout(did) : bulletin[i].event_type = "DISCOVERY_NODE_REVOKED"
    THEN "revoked" ELSE "active"

\* What Root makes of it: a revocation stands for good, authorized again or not.
latest_node_status(did) ==
    IF \E i \in EventsAbout(did) : bulletin[i].event_type = "NODE_REVOKED"
    THEN "revoked" ELSE "active"

\* The last domains, or every one; the Discovery node reads them the same way.
discovery_authorized_domains(did) ==
    LET updates == EventsAbout(did) \cap EventsOfTypes({"DISCOVERY_NODE_DOMAINS_UPDATED"}) IN
    IF updates = {} THEN {AnyDomain} ELSE bulletin[Latest(updates)].payload.authorizedDomains

api_discovery_detail(did) ==
    FromBulletin([status |-> latest_node_status(did), domains |-> discovery_authorized_domains(did),
                  events |-> EventsAbout(did)])

\* api_root_authorization of the Discovery node and of the Registrar.  A Root
\* that answers an error is unreachable to the one, and reached but unknown to
\* the other.
DiscoveryRootAuthorization(did, answers) ==
    IF ~answers \/ "bulletin" \in torn THEN [rootReachable |-> FALSE, status |-> "unknown"]
    ELSE [rootReachable |-> TRUE, status |-> discovery_authorization_status(did),
          authorizedDomains |-> discovery_authorized_domains(did)]
RegistrarRootAuthorization(did, answers) ==
    IF ~answers THEN [rootReachable |-> FALSE]
    ELSE IF api_registrar_detail(did).error THEN [rootReachable |-> TRUE, status |-> "unknown"]
    ELSE [rootReachable |-> TRUE, authorization |-> api_registrar_detail(did).answer]

----------------------------------------------------------------------------
(* Agents *)

api_agents ==
    {[did |-> a, version |-> ReadLatest[a].version, didDocument |-> ReadLatest[a].didDocument] :
        a \in {b \in Agents : ReadLatest[b].version # 0}}

\* The archived files of one version; a later handler may have replaced them.
api_agent_version_detail(did, version) ==
    LET kept == {x \in archive : x.did = did /\ x.version = version} IN
    IF kept = {} THEN {} ELSE {x.didDocument : x \in {y \in kept : \A z \in kept : z.sequence <= y.sequence}}

----------------------------------------------------------------------------
(* Properties *)

\* Whoever is listed finds its history: a Registrar in the list learns of an
\* event about itself from Root, and a node listed as revoked is revoked in the
\* detail view, too.  The events come before the file, in every failure.
NodesListedAreKnown ==
    "bulletin" \notin torn =>
        /\ \A n \in Nodes : LoadAuthorization.registrars[n] # "absent" =>
              /\ \E x \in api_registrars.answer : x.did = n
              /\ RegistrarRootAuthorization(n, TRUE).authorization # {}
        /\ \A x \in api_discovery_nodes.answer :
              "status" \in DOMAIN x /\ x.status = "revoked" => api_discovery_detail(x.did).answer.status = "revoked"

\* As long as nothing failed, the domains an active Discovery node learns from
\* Root's bulletin are those of Root's file, unless it was authorized again
\* since they were last set: that resets the file alone.
DomainsShownAreGranted ==
    faults = 0 /\ lock = NoProc =>
        \A x \in {y \in api_discovery_nodes.answer : "status" \in DOMAIN y /\ y.status = "active"} :
            LET updates == EventsAbout(x.did) \cap EventsOfTypes({"DISCOVERY_NODE_DOMAINS_UPDATED"}) IN
            \/ x.authorizedDomains = DiscoveryRootAuthorization(x.did, TRUE).authorizedDomains
            \/ \E grant \in DiscoveryGrants(x.did) : \A i \in updates : grant > i

\* Every Agent in the list can be looked up: the archive holds the listed
\* version, and it is the listed document; across crashes that let a version
\* number be given out twice.
ListedAgentsAreArchived ==
    \A x \in api_agents : x.didDocument \in api_agent_version_detail(x.did, x.version)

\* What one view lists another one knows in detail: nodes, domains and Agents.
ListsAgreeWithDetails == NodesListedAreKnown /\ DomainsShownAreGranted /\ ListedAgentsAreArchived
============================================================================
