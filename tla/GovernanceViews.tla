--------------------------- MODULE GovernanceViews ---------------------------
(***************************************************************************)
(* What the Root node of the reference services shows of its governance,   *)
(* and what a Registrar and a Discovery node tell of their own standing    *)
(* from that.  The views take no part in the requests beside them: they    *)
(* read the table and the file as they are, in the middle of a change too. *)
(***************************************************************************)
EXTENDS RootGovernance

\* The Root does not answer, or answers an error.
NoAnswerOfRoot == [reachable |-> FALSE]

EventsOf(node) == {i \in DOMAIN rows : rows[i].node = node}

----------------------------------------------------------------------------
(* Root *)

\* The entries of the file, or of the state Root started with; without any, the
\* events about Registrars.
api_registrars ==
    LET listed == {n \in GovernedNodes : SeenEntries[n] # "none"} IN
    IF listed # {} THEN {[did |-> n, status |-> SeenEntries[n]] : n \in listed}
    ELSE {[did |-> rows[i].node, status |-> "none"] :
              i \in {j \in DOMAIN rows : rows[j].operation = "authorize registrar"}}

api_registrar_detail(node) == {[sequence |-> i, operation |-> rows[i].operation] : i \in EventsOf(node)}

\* A node that was ever revoked is revoked, authorized again or not.
latest_node_status(node) ==
    IF \E i \in EventsOf(node) : rows[i].operation = "revoke" THEN "revoked" ELSE "active"

----------------------------------------------------------------------------
(* The nodes *)

\* The Registrar passes on what Root has about it, as it comes.
RegistrarRootAuthorization(node) ==
    IF running THEN [reachable |-> TRUE, authorization |-> api_registrar_detail(node)] ELSE NoAnswerOfRoot

\* The Discovery node fetches the whole bulletin, without verifying it, and
\* looks for DISCOVERY_NODE_REVOKED, which no handler of Root appends.
fetch_bulletin == IF running THEN rows ELSE <<>>
discovery_authorization_status(events, node) ==
    IF \E i \in DOMAIN events : events[i].operation = "revoke discovery" /\ events[i].node = node
    THEN "revoked" ELSE "active"
DiscoveryRootAuthorization(node) ==
    IF running THEN [reachable |-> TRUE, status |-> discovery_authorization_status(fetch_bulletin, node)]
    ELSE NoAnswerOfRoot

----------------------------------------------------------------------------
(* Properties *)

\* A revocation that was answered shows, until the node is authorized again:
\* Root's detail view says so for good, the list of Registrars does not call
\* the node active, and the Registrar can learn of it; across restarts that
\* fill the table from an older export or find the file truncated.  Only the
\* Discovery node goes on calling itself active.
RevokedIsShown ==
    \A n \in settled : running =>
        /\ latest_node_status(n) = "revoked"
        /\ ~authorization.torn => [did |-> n, status |-> "active"] \notin api_registrars
        /\ \E item \in RegistrarRootAuthorization(n).authorization : item.operation = "revoke"
        /\ DiscoveryRootAuthorization(n).status = "active"

\* A revocation that was answered holds: it is honoured by Root and shown to
\* everybody, across truncated files and restarts.
RevocationsHold == RevocationsAreHonoured /\ RevokedIsShown
============================================================================
