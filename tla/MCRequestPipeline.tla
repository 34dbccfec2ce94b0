------------------------- MODULE MCRequestPipeline --------------------------
(***************************************************************************)
(* RequestPipeline for TLC: three files, one of which has two other names, *)
(* and a handful of requests, manifests and reports that differ in what    *)
(* the rules look at.                                                      *)
(***************************************************************************)
EXTENDS RequestPipeline, TLC

CONSTANTS
    inner, outer,   \* a link to file 1, a link outside
    inside, away,   \* file 1 and a file outside, each through a linked directory
    up              \* a name with ".."

MCTarget == inner :> 1 @@ outer :> Outside @@ inside :> 1 @@ away :> Outside

State(kind, size, hit) == [kind |-> kind, size |-> size, hit |-> hit]
small == State("text", 2, TRUE)
large == State("text", 4, FALSE)
huge == State("text", 9, TRUE)
binary == State("binary", 2, TRUE)
gone == State("gone", 0, FALSE)

MCFileStates == {small, large, huge, binary, gone}
MCRepos == {[f \in Files |-> IF f = 1 THEN a ELSE IF f = 2 THEN b ELSE c] :
               a \in {small, large}, b \in {large, huge, binary}, c \in {small, large, gone}}
MCDiffs == {[size |-> 0, hit |-> FALSE], [size |-> 2, hit |-> FALSE], [size |-> 4, hit |-> TRUE]}

MCSkills ==
    "technical-review" :> [mode |-> "review", sections |-> {"findings"}] @@
    "independent-design" :> [mode |-> "design", sections |-> {"design"}] @@
    "evidence-verification" :> [mode |-> "verify", sections |-> {"coverage"}] @@
    "technical-consult" :> [mode |-> "consult", sections |-> {"options"}]
MCWorkflows ==
    "deep-design-review" :>
        [mode |-> "review", primary |-> "technical-review", components |-> {"technical-review", "technical-consult"},
         domains |-> {"architecture"}, sections |-> {"alternatives"}] @@
    "change-impact-assessment" :>
        [mode |-> "verify", primary |-> "evidence-verification", components |-> {"evidence-verification"},
         domains |-> {"testing"}, sections |-> {"impact"}]
MCDomains == "architecture" :> {"web.search"} @@ "testing" :> {"repo.search"}
MCCapabilities == {"repo.read", "repo.search", "web.search", "web.open", "git.diff"}

Glob(files, matches) == [files |-> files, matches |-> matches, traverses |-> FALSE]
File(n, role, p) == [path |-> n, role |-> role, rank |-> p, inline |-> None]
Text(n, role, size) == [path |-> n, role |-> role, rank |-> 1, inline |-> [size |-> size, hit |-> FALSE]]

Raw(mode, skill, workflow) ==
    [mode |-> mode, skill |-> skill, workflow |-> workflow, domains |-> {}, static |-> TRUE,
     include |-> {}, excluded |-> {}, artifacts |-> << >>, diff |-> FALSE, maxBytes |-> 6]
review == Raw("review", "technical-review", NoName)
design == Raw("design", "independent-design", NoName)
MCRawRequests ==
    {[review EXCEPT !.include = {Glob({1, 3, inside}, {1, 3})}, !.excluded = {1, 3}],
     [review EXCEPT !.include = {Glob({1, inner, away}, {1})}],
     [review EXCEPT !.include = {Glob({3}, {2, 3})}, !.diff = TRUE],
     [review EXCEPT !.artifacts = <<Text(3, "context", 2), Text(3, "context", 2), File(2, "context", 1)>>,
              !.domains = {"testing"}],
     [review EXCEPT !.include = {[Glob({1}, {1}) EXCEPT !.traverses = TRUE]}],
     [Raw("review", NoName, "deep-design-review") EXCEPT !.artifacts = <<File(2, "candidate-solution", 0)>>],
     [design EXCEPT !.include = {Glob({1, 3}, {1, 3})}, !.diff = TRUE,
                    !.artifacts = <<File(1, "candidate-solution", 0), File(2, "context", 0), Text(2, "candidate-solution", 2)>>],
     [design EXCEPT !.artifacts = <<File(1, "candidate-solution", 0), File(1, "context", 1)>>],
     [design EXCEPT !.artifacts = <<File(inner, "candidate-solution", 0)>>],
     [Raw("verify", NoName, "change-impact-assessment") EXCEPT !.diff = TRUE, !.static = FALSE],
     Raw("verify", NoName, "change-impact-assessment"),
     [Raw("consult", "technical-consult", NoName) EXCEPT !.artifacts = <<File(outer, "context", 2)>>],
     Raw("consult", "technical-review", NoName)}

need == [exact |-> {}, patterns |-> {}, search |-> FALSE, rank |-> 1, required |-> TRUE]
plain == [requirements |-> << >>, maxBytes |-> 6, tools |-> {"repo.read"}, queries |-> 1, maxQueries |-> 2,
          intent |-> Modes, domains |-> {}, tasks |-> {"t1"}, evidence |-> {"e1"},
          sections |-> {"findings", "design", "coverage", "options", "alternatives", "impact"}]
MCManifests ==
    {plain,
     [plain EXCEPT !.requirements = <<[need EXCEPT !.exact = {1}, !.rank = 0],
                                      [need EXCEPT !.patterns = {Glob({3}, {3})}, !.search = TRUE]>>],
     [plain EXCEPT !.requirements = <<[need EXCEPT !.exact = {GitDiff}], [need EXCEPT !.exact = {2}, !.required = FALSE]>>],
     [plain EXCEPT !.requirements = <<[need EXCEPT !.exact = {inner}, !.required = FALSE, !.rank = 2],
                                      [need EXCEPT !.patterns = {Glob({1, 2, 3, inside}, {1, 2, 3})}, !.rank = 3]>>,
                   !.maxBytes = 4],
     [plain EXCEPT !.requirements = <<[need EXCEPT !.search = TRUE, !.rank = 2], [need EXCEPT !.exact = {3}, !.rank = 0]>>,
                   !.evidence = {}],
     [plain EXCEPT !.requirements = <<[need EXCEPT !.exact = {up}]>>, !.tools = {"git.diff"}],
     [plain EXCEPT !.requirements = <<need>>],
     [plain EXCEPT !.sections = {"findings"}],
     [plain EXCEPT !.queries = 3]}

full(mode) ==
    [request |-> Id, mode |-> mode, verdict |-> "pass", sections |-> plain.sections, deliverables |-> TRUE, plan |-> TRUE,
     findings |-> {[severity |-> "high", evidence |-> TRUE]}, hypotheses |-> {[confident |-> FALSE, nextTest |-> TRUE]},
     options |-> <<[name |-> "a", guidance |-> TRUE], [name |-> "b", guidance |-> TRUE]>>,
     trace |-> {[task |-> "t1", status |-> "completed", urls |-> {"u"}]}, sources |-> {"u"},
     coverage |-> {[requirement |-> "e1", status |-> "satisfied", evidence |-> TRUE]}]
variants(r) ==
    {r, [r EXCEPT !.request = "other"], [r EXCEPT !.sections = {"findings"}], [r EXCEPT !.options = << >>],
     [r EXCEPT !.trace = {}], [r EXCEPT !.trace = {[task |-> "t1", status |-> "completed", urls |-> {}]}],
     [r EXCEPT !.trace = {[task |-> "t1", status |-> "blocked", urls |-> {}]}], [r EXCEPT !.sources = {}],
     [r EXCEPT !.coverage = {}], [r EXCEPT !.coverage = {[requirement |-> "e1", status |-> "satisfied", evidence |-> FALSE]}],
     [r EXCEPT !.coverage = {[requirement |-> "e1", status |-> "missing", evidence |-> FALSE]}],
     [r EXCEPT !.plan = FALSE], [r EXCEPT !.verdict = "looks fine"]}
MCReports == UNION {variants(full(mode)) : mode \in {"review", "design", "verify", "consult"}}

=============================================================================
