----------------------------- MODULE MCServices -----------------------------
(***************************************************************************)
(* The components that are each checked on their own, in one run: which of *)
(* them a behaviour is about is chosen at the start, and the others rest.  *)
(***************************************************************************)
EXTENDS GovernanceViews, RegistrarDrafts, ReferenceCdn, Envelopes, RootFiles, HashChain,
        RegistrarNode, TagTree, DiscoveryQuery, ServiceAgent, TLC

CONSTANTS p, q, x, y, tag

VARIABLE part

vars == <<part, governanceVars, draftVars, cdnNodeVars, envelopeVars, fileVars, suiteVars, chainVars,
          registrarVars, tagVars, queryVars, agentVars>>

Parts == {"governance", "drafts", "cdn", "envelopes", "files", "suites", "chain", "registrar", "tags", "query", "agent"}

\* Requests of two handlers, and two Agents or nodes, are as good as each other.
Alike == Permutations({p, q}) \union Permutations({x, y})

Service(type, protocol) == [type |-> type, protocol |-> protocol]
SomePackages ==
    {[tags |-> ts, mentions |-> m, identity |-> "service-agent", services |-> ss, active |-> a] :
        ts \in {{}, {tag}}, m \in {TRUE}, a \in BOOLEAN,
        ss \in {{}, {Service("invoke", "http"), Service("other", "mcp")}}}
    \union {[tags |-> {tag}, mentions |-> FALSE, identity |-> "service-agent",
             services |-> {Service("invoke", "http")}, active |-> TRUE]}
SomeQueries ==
    [text : BOOLEAN, tags : {{}, {tag}}, type : {Unasked, "invoke", "service-agent"},
     protocol : {Unasked, "mcp"}, limit : {0, 1, 2, 5}]

\* A component at rest starts in one state.
RestingSuites ==
    suites = [s \in Parties |-> "legacy"] /\ stated = [s \in {"method", "proof"} |-> TRUE]
        /\ prepared.document = CHOOSE d \in SuiteDocuments : TRUE

ServicesInit ==
    /\ part \in Parts
    /\ GovernanceInit /\ CdnNodeInit /\ EnvelopesInit /\ FilesInit /\ RegistrarInit /\ AgentInit
    /\ part # "drafts" => EmptyDraft
    /\ DraftsInit
    /\ SuitesInit /\ (part # "suites" => RestingSuites)
    /\ ChainInit /\ (part # "chain" => rootSuite = "legacy")
    /\ IF part = "tags" THEN TagInit
       ELSE table = <<>> /\ asked = NoTag /\ at = NoTag /\ seen = {} /\ verdict = "none" /\ turns = 0
    /\ IF part = "query" THEN QueryInit
       ELSE index = <<>> /\ query = Unasked /\ next = 1 /\ candidates = <<>> /\ answered = FALSE

ServicesNext ==
    \/ /\ part = "governance" /\ GovernanceNext
       /\ UNCHANGED <<part, draftVars, cdnNodeVars, envelopeVars, fileVars, suiteVars,
                      chainVars, registrarVars, tagVars, queryVars, agentVars>>
    \/ /\ part = "drafts" /\ DraftsNext
       /\ UNCHANGED <<part, governanceVars, cdnNodeVars, envelopeVars, fileVars, suiteVars,
                      chainVars, registrarVars, tagVars, queryVars, agentVars>>
    \/ /\ part = "cdn" /\ CdnNodeNext
       /\ UNCHANGED <<part, governanceVars, draftVars, envelopeVars, fileVars, suiteVars,
                      chainVars, registrarVars, tagVars, queryVars, agentVars>>
    \/ /\ part = "envelopes" /\ EnvelopesNext
       /\ UNCHANGED <<part, governanceVars, draftVars, cdnNodeVars, fileVars, suiteVars,
                      chainVars, registrarVars, tagVars, queryVars, agentVars>>
    \/ /\ part = "files" /\ FilesNext
       /\ UNCHANGED <<part, governanceVars, draftVars, cdnNodeVars, envelopeVars, suiteVars,
                      chainVars, registrarVars, tagVars, queryVars, agentVars>>
    \/ /\ part = "suites" /\ SuitesNext
       /\ UNCHANGED <<part, governanceVars, draftVars, cdnNodeVars, envelopeVars, fileVars,
                      chainVars, registrarVars, tagVars, queryVars, agentVars>>
    \/ /\ part = "chain" /\ ChainNext
       /\ UNCHANGED <<part, governanceVars, draftVars, cdnNodeVars, envelopeVars, fileVars,
                      suiteVars, registrarVars, tagVars, queryVars, agentVars>>
    \/ /\ part = "registrar" /\ RegistrarNext
       /\ UNCHANGED <<part, governanceVars, draftVars, cdnNodeVars, envelopeVars, fileVars,
                      suiteVars, chainVars, tagVars, queryVars, agentVars>>
    \/ /\ part = "tags" /\ TagNext
       /\ UNCHANGED <<part, governanceVars, draftVars, cdnNodeVars, envelopeVars, fileVars,
                      suiteVars, chainVars, registrarVars, queryVars, agentVars>>
    \/ /\ part = "query" /\ QueryNext
       /\ UNCHANGED <<part, governanceVars, draftVars, cdnNodeVars, envelopeVars, fileVars,
                      suiteVars, chainVars, registrarVars, tagVars, agentVars>>
    \/ /\ part = "agent" /\ AgentNext
       /\ UNCHANGED <<part, governanceVars, draftVars, cdnNodeVars, envelopeVars, fileVars,
                      suiteVars, chainVars, registrarVars, tagVars, queryVars>>

ServicesSpec == ServicesInit /\ [][ServicesNext]_vars
============================================================================
