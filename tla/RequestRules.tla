---------------------------- MODULE RequestRules ----------------------------
(***************************************************************************)
(* The rules a request, its research manifest and its report are held      *)
(* against: RequestClassifier.classify (routing.py), resolve_capabilities  *)
(* (capabilities.py), PreRequestPlanner.validate_manifest (planner.py),    *)
(* the validators of the data models (models.py) and _validate_report      *)
(* (engine.py).  They are pure: each says what is raised.  Free text is    *)
(* left out; of a text that must not be empty only that is kept.           *)
(***************************************************************************)
EXTENDS Integers, Sequences, FiniteSets

CONSTANTS
    Skills,        \* catalog: Skills[name] = [mode, sections]
    Workflows,     \* catalog: [mode, primary, components, domains, sections]
    Domains,       \* catalog: Domains[name] = its default capabilities
    Capabilities,  \* names of the enabled capabilities
    NoName         \* no skill or no workflow was selected

Modes == {"review", "design", "consult", "investigate", "verify", "write"}

LocalBase == {"repo.read", "repo.search", "repo.glob", "git.revision"}
OnlineBase == {"web.search", "web.open", "docs.official"}

\* Only a catalog whose entries fit each other loads or classifies.
ASSUME RulesAssumption ==
    /\ \A s \in DOMAIN Skills : Skills[s].mode \in Modes
    /\ \A w \in DOMAIN Workflows : Workflows[w].mode \in Modes
    /\ NoName \notin DOMAIN Skills \cup DOMAIN Workflows

-----------------------------------------------------------------------------
(* Routing                                                                 *)

\* The domains of a route: the workflow's and the request's, or a default.
RoutedDomains(req) ==
    LET named == req.domains \cup
            (IF req.workflow = NoName THEN {} ELSE Workflows[req.workflow].domains) IN
    IF named # {} THEN named
    ELSE IF req.mode \in {"review", "design", "consult"} THEN {"architecture"} ELSE {"testing"}

Classifiable(req) ==
    /\ (req.skill = NoName) # (req.workflow = NoName)
    /\ IF req.workflow # NoName
       THEN /\ req.workflow \in DOMAIN Workflows
            /\ LET w == Workflows[req.workflow] IN
               /\ req.mode = w.mode
               /\ {w.primary} \cup w.components \subseteq DOMAIN Skills
            /\ req.workflow = "change-impact-assessment" =>
                  req.diff \/ req.artifacts # << >> \/ req.include # {}
       ELSE req.skill \in DOMAIN Skills /\ req.mode = Skills[req.skill].mode
    /\ RoutedDomains(req) \subseteq DOMAIN Domains

AllowedCapabilities(req) ==
    Capabilities \cap
        (LocalBase \cup (UNION {Domains[d] : d \in RoutedDomains(req)})
            \cup (IF req.static THEN {} ELSE OnlineBase)
            \cup (IF req.diff THEN {"git.diff"} ELSE {}))

Route(req) ==
    LET primary == IF req.workflow = NoName THEN req.skill ELSE Workflows[req.workflow].primary IN
    [name         |-> IF req.workflow = NoName THEN req.skill ELSE req.workflow,
     mode         |-> req.mode,
     skill        |-> primary,
     domains      |-> RoutedDomains(req),
     capabilities |-> AllowedCapabilities(req),
     sections     |-> Skills[primary].sections \cup
                         (IF req.workflow = NoName THEN {} ELSE Workflows[req.workflow].sections)]

-----------------------------------------------------------------------------
(* The manifest                                                            *)

ValidManifest(m, route) ==
    /\ m.tools \subseteq route.capabilities
    /\ m.queries <= m.maxQueries
    /\ \A i \in DOMAIN m.requirements :
          LET q == m.requirements[i] IN
          q.required => q.patterns # {} \/ q.exact # {} \/ q.search
    /\ route.mode \in m.intent
    /\ m.domains \subseteq DOMAIN Domains \cap route.domains
    /\ route.sections \subseteq m.sections
    /\ route.mode = "verify" => m.evidence # {}

-----------------------------------------------------------------------------
(* The report                                                              *)

\* The validators of the parts of a report.
WellFormed(report) ==
    /\ \A f \in report.findings : f.severity \in {"high", "critical"} => f.evidence
    /\ \A h \in report.hypotheses : h.confident \/ h.nextTest
    /\ \A t \in report.trace : t.status = "completed" => t.urls # {}
    /\ \A c \in report.coverage : c.status = "satisfied" => c.evidence

\* Mutant: options belong to the consult mode only.
Mutant_ModeContract(report) == (report.mode = "consult") = (report.options # << >>) /\ report.plan

\* mode_contract: what each mode owes.  Options are [name, guidance] pairs.
ModeContract(report) ==
    LET options == report.options IN
    /\ report.mode = "consult" =>
          /\ Len(options) >= 2
          /\ \A i \in DOMAIN options : options[i].guidance
          /\ \A i, j \in DOMAIN options : options[i].name = options[j].name => i = j
    /\ report.mode \in {"write", "design"} => report.deliverables
    /\ report.mode = "investigate" => report.hypotheses # {}
    /\ report.mode = "verify" => report.coverage # {} /\ report.verdict \in {"pass", "fail", "insufficient"}
    /\ report.plan

\* Mutant: the tasks of the manifest are not asked for.
Mutant_Accounts(id, req, route, m, report) ==
    /\ report.mode = req.mode /\ report.request = id
    /\ route.sections \subseteq report.sections
    /\ m.evidence \subseteq {c.requirement : c \in report.coverage}

\* _validate_report: the report is of this request and accounts for the route
\* and the manifest.
Accounts(id, req, route, m, report) ==
    /\ report.mode = req.mode /\ report.request = id
    /\ route.sections \subseteq report.sections
    /\ m.tasks \subseteq {t.task : t \in report.trace}
    /\ m.evidence \subseteq {c.requirement : c \in report.coverage}
    /\ UNION {t.urls : t \in report.trace} \subseteq report.sources
    /\ route.name = "deep-design-review" => report.options # << >>

ValidReport(id, req, route, m, report) ==
    WellFormed(report) /\ ModeContract(report) /\ Accounts(id, req, route, m, report)

=============================================================================
