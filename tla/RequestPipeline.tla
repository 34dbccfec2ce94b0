--------------------------- MODULE RequestPipeline --------------------------
(***************************************************************************)
(* One request of the automatic workflow (ReviewEngine.run_automatic,      *)
(* engine.py) seen as what passes between its stages: the routing          *)
(* decision, the planner's manifest, the context pack and the report, each *)
(* held against what came before.  The rules are RequestRules', the        *)
(* context is ContextBuilder's; whose locks and files the stages use is    *)
(* AutomaticRun's.                                                         *)
(***************************************************************************)
EXTENDS ContextBuilder, RequestRules

CONSTANTS
    RawRequests,  \* requests that may come
    Manifests,    \* manifests the planner may answer
    Reports       \* reports the final model may answer

Id == "this"      \* the request's id; a report may name another

ASSUME PipelineAssumption ==
    /\ \A r \in RawRequests : r.artifacts \in Seq(ArtifactSpec) /\ r.maxBytes \in Nat
    /\ \A m \in Manifests : m.requirements \in Seq(Requirement) /\ m.maxBytes \in Nat

VARIABLES
    stage,   \* "routing", "planning", "building", "reporting", "complete" or "refused"
    asked,   \* the raw request, or None
    route,   \* its routing decision, or None
    answer   \* the report that was returned, or None

pipeline == <<stage, asked, route, answer>>
vars == <<buildVars, pipeline>>

Init ==
    /\ BuildInit
    /\ stage = "routing"
    /\ asked = None /\ route = None /\ answer = None

\* route and the planner's prompt.
Classify(req) ==
    /\ stage = "routing"
    /\ IF Classifiable(req)
       THEN stage' = "planning" /\ asked' = req /\ route' = Route(req)
       ELSE stage' = "refused" /\ UNCHANGED <<asked, route>>
    /\ UNCHANGED <<buildVars, answer>>

\* The planner's answer is validated and the context is built for it.
Plan(m) ==
    /\ stage = "planning"
    /\ IF ValidManifest(m, route)
       THEN stage' = "building" /\ Start(asked, m)
       ELSE stage' = "refused" /\ UNCHANGED buildVars
    /\ UNCHANGED <<asked, route, answer>>

\* build returns, and the final prompt is sent, or raises.
Built ==
    /\ stage = "building"
    /\ step \in {"built", "unsafe", "too-large", "unsatisfied"}
    /\ stage' = IF step = "built" THEN "reporting" ELSE "refused"
    /\ UNCHANGED <<buildVars, asked, route, answer>>

\* The final answer is validated and returned.
Report(report) ==
    /\ stage = "reporting"
    /\ IF ValidReport(Id, asked, route, task.manifest, report)
       THEN stage' = "complete" /\ answer' = report
       ELSE stage' = "refused" /\ UNCHANGED answer
    /\ UNCHANGED <<buildVars, asked, route>>

Next ==
    \/ \E req \in RawRequests : Classify(req)
    \/ \E m \in Manifests : Plan(m)
    \/ BuildStep /\ UNCHANGED pipeline
    \/ Built
    \/ \E report \in Reports : Report(report)

Spec == Init /\ [][Next]_vars

-----------------------------------------------------------------------------
(* Properties.                                                             *)

\* A report that is returned accounts for what was asked and planned: each
\* section of the routed skill and workflow, each online task, with sources
\* it names itself where it calls a task completed, and each evidence
\* requirement, with evidence where it calls one satisfied; and the context
\* it rests on met the same manifest (engine.py:109-147).
Accountable ==
    stage = "complete" =>
        /\ answer.request = Id /\ step = "built"
        /\ Skills[route.skill].sections \subseteq answer.sections
        /\ asked.workflow # NoName => Workflows[asked.workflow].sections \subseteq answer.sections
        /\ \A t \in task.manifest.tasks : \E entry \in answer.trace :
              entry.task = t /\ (entry.status = "completed" => entry.urls \cap answer.sources # {})
        /\ \A e \in task.manifest.evidence : \E c \in answer.coverage :
              c.requirement = e /\ (c.status = "satisfied" => c.evidence)

\* The rules can be met together: once the final prompt is sent there is a
\* report that would be accepted, whatever the route and the manifest.
Answerable ==
    stage = "reporting" => \E report \in Reports : ValidReport(Id, asked, route, task.manifest, report)

=============================================================================
