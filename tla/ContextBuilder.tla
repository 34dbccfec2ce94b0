--------------------------- MODULE ContextBuilder ---------------------------
(***************************************************************************)
(* ContextBuilder.build (context_builder.py): which files of a repository  *)
(* enter the context pack of a request.  Files are collected by the        *)
(* request's patterns, then by each requirement of the research manifest   *)
(* and by the request's artifacts; they are read in the order of their     *)
(* priority while the byte budget lasts; then the manifest's required      *)
(* requirements are held against what was read.  Nothing is locked: an     *)
(* editor may change, truncate or delete any file between two steps.       *)
(*                                                                         *)
(* A file is its place in the order of path strings and, by that, its own  *)
(* name.  It may have other names: a symbolic link, or a path on whose way *)
(* a directory is one.  The code tests names as they are given and then    *)
(* resolves them, and so does the model.  Names are compared after         *)
(* normalisation.                                                          *)
(*                                                                         *)
(* A pattern is read twice, by glob to collect and by fnmatch in the last  *)
(* check: `files` are the names the one yields, `matches` the files the    *)
(* other does, and they may differ.  One search term stands for all.  The  *)
(* order of a pack is left out; `place` tells apart two inline artifacts   *)
(* that are the same in name and content.                                  *)
(***************************************************************************)
EXTENDS Integers, Sequences, FiniteSetsExt

CONSTANTS
    Files,        \* regular files of the repository, in path order
    Links,        \* names of symbolic links
    Aliases,      \* names that are no link themselves, but pass through one
    Target,       \* Target[n]: the file such a name leads to, or Outside
    Outside,      \* a file outside the repository
    Traversing,   \* names with a ".." part
    GitDiff,      \* the name "<git-diff>"
    FileStates,   \* what a file may hold: [kind, size, hit]
    Repos,        \* contents the repository may have at first
    Diffs,        \* what git diff may print: [size, hit]; size 0 is no diff
    MaxFileBytes, \* max_file_bytes
    MaxEdits,     \* bound: changes to the repository during a build
    None

Ranks == 0 .. 4              \* priorities P0 .. P4
NotCandidate == 5
Kinds == {"text", "binary", "non-utf8", "gone"}

ASSUME ContextAssumption ==
    /\ Files \subseteq Nat /\ IsFiniteSet(Files)
    /\ Target \in [Links \cup Aliases -> Files \cup {Outside}]
    /\ FileStates \subseteq [kind : Kinds, size : Nat, hit : BOOLEAN]
    /\ Repos \subseteq [Files -> FileStates]
    /\ Diffs \subseteq [size : Nat, hit : BOOLEAN] /\ MaxFileBytes \in Nat /\ MaxEdits \in Nat

VARIABLES
    repo,       \* repo[f]: what file f holds now
    edits,      \* changes so far
    task,       \* [request, manifest] being built for, or None
    step,       \* the step of build that is next
    item,       \* index of the next requirement or artifact
    rank,       \* candidates: priority rank of each, or NotCandidate
    left,       \* candidates not yet read
    pack,       \* artifacts of the context pack
    total,      \* bytes counted
    omitted     \* [file, why] of candidates left out

collected == <<task, item, rank>>
read == <<left, pack, total, omitted>>
buildVars == <<repo, edits, task, step, item, rank, left, pack, total, omitted>>

\* What requests and manifests bring to a build.  `excluded` are the names
\* the request's exclude patterns and the pruned directories cover.  An
\* artifact has a path or, when `inline` is not None, a content and a name.
Names == Files \cup Links \cup Aliases \cup Traversing

Artifact == [source : {"filesystem", "inline", "git-diff"}, path : Names \cup {GitDiff},
             place : Nat, size : Nat, hit : BOOLEAN]

Pattern == [files : SUBSET (Names \ Traversing), matches : SUBSET (Files \cup {GitDiff}), traverses : BOOLEAN]

ArtifactSpec == [path : Names, role : {"context", "candidate-solution"},
                 rank : Ranks, inline : [size : Nat, hit : BOOLEAN] \cup {None}]

Requirement == [exact : SUBSET (Names \cup {GitDiff}), patterns : SUBSET Pattern,
                search : BOOLEAN, rank : Ranks, required : BOOLEAN]

BuildInit ==
    /\ repo \in Repos
    /\ edits = 0
    /\ task = None
    /\ step = "idle"
    /\ item = 1
    /\ rank = [f \in Files |-> NotCandidate]
    /\ left = {} /\ pack = {} /\ total = 0 /\ omitted = {}

request == task.request
requirements == task.manifest.requirements
Budget == Min({request.maxBytes, task.manifest.maxBytes})

-----------------------------------------------------------------------------
(* Collection                                                              *)

\* candidate_paths: what an independent design must not see, by name.
Hidden ==
    IF request.mode # "design" THEN {}
    ELSE {a.path : a \in {b \in Range(request.artifacts) : b.role = "candidate-solution" /\ b.inline = None}}

\* request_metadata_for_online: the names a request takes online.
Disclosed(req) ==
    LET withheld(a) == req.mode = "design" /\ a.role = "candidate-solution" IN
    {a.path : a \in {b \in Range(req.artifacts) : ~withheld(b)}}
        \cup (IF req.mode = "design" THEN {} ELSE UNION {p.files : p \in req.include})

IsFile(f) == repo[f].kind # "gone"

\* _safe_path: name n resolves to t.
Leads(n, t) == n = t \/ (n \in Links \cup Aliases /\ Target[n] = t)

\* _collect_exact: a hidden name is passed over, any other is resolved.
ExactFiles(names) == {f \in Files : IsFile(f) /\ \E n \in names \ Hidden : Leads(n, f)}

LeavesRoot(names) == names \cap Traversing # {} \/ \E n \in names \ Hidden : Leads(n, Outside)

\* _collect_pattern: what glob yields, but for names that are links, excluded
\* or hidden; the rest is resolved.
Globbed(patterns) == (UNION {p.files : p \in patterns}) \ (Links \cup request.excluded \cup Hidden)

GlobFiles(patterns) == {f \in Files : IsFile(f) /\ \E n \in Globbed(patterns) : Leads(n, f)}

Unsafe(patterns) == (\E p \in patterns : p.traverses) \/ \E n \in Globbed(patterns) : Leads(n, Outside)

\* Mutant: the search reads hidden files as well.
Mutant_SearchFiles ==
    {f \in Files \ request.excluded :
        repo[f].kind \in {"text", "binary"} /\ repo[f].size <= MaxFileBytes /\ repo[f].hit}

\* _search_terms: what can be read as text and holds the term.
SearchFiles ==
    {f \in Files \ (request.excluded \cup Hidden) :
        repo[f].kind \in {"text", "binary"} /\ repo[f].size <= MaxFileBytes /\ repo[f].hit}

\* _add_candidate: a file keeps the best of its priorities.
AddCandidates(files, p) == rank' = [f \in Files |-> IF f \in files /\ p < rank[f] THEN p ELSE rank[f]]

Goto(from, to) == step = from /\ step' = to

\* An exception leaves build.
Refuse(why) == step' = why /\ UNCHANGED <<repo, edits, collected, read>>

Start(req, man) ==
    /\ Goto("idle", "include")
    /\ task' = [request |-> req, manifest |-> man]
    /\ UNCHANGED <<repo, edits, item, rank, read>>

\* The request's own patterns, which an independent design suppresses.
CollectIncluded ==
    /\ step = "include"
    /\ IF request.mode = "design"
       THEN /\ Goto("include", "require")
            /\ omitted' = IF request.include = {} THEN {} ELSE {[file |-> None, why |-> "independence"]}
            /\ UNCHANGED <<rank, repo, edits, task, item, left, pack, total>>
       ELSE IF Unsafe(request.include)
       THEN Refuse("unsafe")
       ELSE /\ Goto("include", "require")
            /\ AddCandidates(GlobFiles(request.include), 1)
            /\ UNCHANGED <<repo, edits, task, item, read>>

CollectRequirement ==
    /\ step = "require" /\ item <= Len(requirements)
    /\ LET q == requirements[item] IN
       IF LeavesRoot(q.exact) \/ Unsafe(q.patterns)
       THEN Refuse("unsafe")
       ELSE /\ AddCandidates(ExactFiles(q.exact) \cup GlobFiles(q.patterns)
                                \cup (IF q.search THEN SearchFiles ELSE {}), q.rank)
            /\ item' = item + 1
            /\ UNCHANGED <<repo, edits, task, step, read>>

TakeArtifact ==
    /\ step = "artifacts" /\ item <= Len(request.artifacts)
    /\ LET a == request.artifacts[item] IN
       IF request.mode = "design" /\ a.role = "candidate-solution"
       THEN /\ omitted' = omitted \cup {[file |-> None, why |-> "independence"]}
            /\ item' = item + 1
            /\ UNCHANGED <<repo, edits, task, step, rank, left, pack, total>>
       ELSE IF a.inline # None
       THEN /\ pack' = pack \cup {[source |-> "inline", path |-> a.path, place |-> item,
                                   size |-> a.inline.size, hit |-> a.inline.hit]}
            /\ total' = total + a.inline.size
            /\ item' = item + 1
            /\ UNCHANGED <<repo, edits, task, step, rank, left, omitted>>
       ELSE IF LeavesRoot({a.path})
       THEN Refuse("unsafe")
       ELSE /\ AddCandidates(ExactFiles({a.path}), a.rank)
            /\ item' = item + 1
            /\ UNCHANGED <<repo, edits, task, step, read>>

\* A loop of build is over.
LoopEnds ==
    \/ /\ Goto("require", "artifacts") /\ item > Len(requirements)
       /\ item' = 1
       /\ UNCHANGED <<repo, edits, task, rank, read>>
    \/ /\ Goto("artifacts", "diff") /\ item > Len(request.artifacts)
       /\ UNCHANGED <<repo, edits, collected, read>>

-----------------------------------------------------------------------------
(* Reading                                                                 *)

\* The diff, unless the request designs; then the files are put in order.
TakeDiff(diff) ==
    LET taken == IF request.diff /\ request.mode # "design" THEN diff.size ELSE 0 IN
    /\ step = "diff"
    /\ IF total + taken > Budget
       THEN Refuse("too-large")
       ELSE /\ step' = "read"
            /\ pack' = IF taken = 0 THEN pack
                       ELSE pack \cup {[source |-> "git-diff", path |-> GitDiff, place |-> 0,
                                         size |-> taken, hit |-> diff.hit]}
            /\ total' = total + taken
            /\ left' = {f \in Files : rank[f] # NotCandidate}
            /\ UNCHANGED <<repo, edits, collected, omitted>>

\* Mutant: the files are read in path order.
Mutant_Before(f, g) == f <= g

\* The order of `ordered`: by priority, then by path.
Before(f, g) == rank[f] < rank[g] \/ (rank[f] = rank[g] /\ f <= g)

Omit(f, why) ==
    /\ omitted' = omitted \cup {[file |-> f, why |-> why]}
    /\ left' = left \ {f}
    /\ UNCHANGED <<repo, edits, step, collected, pack, total>>

\* Mutant: a P0 file that does not fit is left out like any other.
Mutant_OmitOrRefuse(f, why) == Omit(f, why)

\* What the length of a file leads to; a P0 file may not be left out for it.
OmitOrRefuse(f, why) == IF rank[f] = 0 THEN Refuse("too-large") ELSE Omit(f, why)

Take(f) ==
    /\ pack' = pack \cup {[source |-> "filesystem", path |-> f, place |-> 0,
                            size |-> repo[f].size, hit |-> repo[f].hit]}
    /\ total' = total + repo[f].size
    /\ left' = left \ {f}
    /\ UNCHANGED <<repo, edits, step, collected, omitted>>

\* Mutant: a file fits while there is any room.
Mutant_Fits(f) == total < Budget

Fits(f) == total + repo[f].size <= Budget

\* One turn of the reading loop.
ReadFile(f) ==
    LET now == repo[f]
        small == now.kind # "gone" /\ now.size <= MaxFileBytes IN
    /\ step = "read" /\ f \in left /\ \A g \in left : Before(f, g)
    /\ \/ now.kind = "gone" /\ Omit(f, "unreadable")
       \/ now.kind # "gone" /\ now.size > MaxFileBytes /\ OmitOrRefuse(f, "oversize")
       \/ small /\ now.kind # "text" /\ Omit(f, now.kind)
       \/ small /\ now.kind = "text" /\ ~Fits(f) /\ OmitOrRefuse(f, "budget")
       \/ small /\ now.kind = "text" /\ Fits(f) /\ Take(f)

\* _validate_required_context: what of the pack answers requirement q.
Answers(q, a) ==
    a.path \in q.exact \/ (\E p \in q.patterns : a.path \in p.matches) \/ (q.search /\ a.hit)

Met(q) == \E a \in pack : Answers(q, a)

Validate ==
    /\ step = "read" /\ left = {}
    /\ step' = IF \A i \in DOMAIN requirements : requirements[i].required => Met(requirements[i])
               THEN "built" ELSE "unsatisfied"
    /\ UNCHANGED <<repo, edits, collected, read>>

-----------------------------------------------------------------------------
\* Another program writes, truncates or deletes a file.
Edit(f, new) ==
    /\ edits < MaxEdits
    /\ step \in {"include", "require", "artifacts", "diff", "read"} /\ new # repo[f]
    /\ repo' = [repo EXCEPT ![f] = new]
    /\ edits' = edits + 1
    /\ UNCHANGED <<task, step, item, rank, read>>

BuildStep ==
    \/ CollectIncluded \/ CollectRequirement \/ TakeArtifact \/ LoopEnds
    \/ \E diff \in Diffs : TakeDiff(diff)
    \/ \E f \in Files : ReadFile(f)
    \/ Validate
    \/ \E f \in Files, new \in FileStates : Edit(f, new)

BuildNext(Tasks) == BuildStep \/ \E t \in Tasks : Start(t.request, t.manifest)

-----------------------------------------------------------------------------
(* Properties.                                                             *)

BuildTypeOK ==
    /\ repo \in [Files -> FileStates]
    /\ edits \in Nat
    /\ step \in {"idle", "include", "require", "artifacts", "diff", "read",
                 "built", "unsafe", "too-large", "unsatisfied"}
    /\ item \in Nat
    /\ rank \in [Files -> Ranks \cup {NotCandidate}]
    /\ left \subseteq Files
    /\ pack \subseteq Artifact
    /\ total \in Nat
    /\ omitted \subseteq [file : Files \cup {None},
                          why : {"independence", "unreadable", "oversize", "binary", "non-utf8", "budget"}]

Bytes(artifacts) == MapThenSumSet(LAMBDA a : a.size, artifacts)

\* The bytes of a pack, as they were when each file was read, are within
\* the smaller of the request's and the planner's budget, and total_bytes
\* says how many they are (build's budget tests, lines 95-136).
WithinBudget ==
    step \in {"read", "built"} => total <= Budget /\ total = Bytes(pack)

\* A P0 file is in the pack, or it was not readable text when its turn came:
\* it is never dropped for its length, whatever grew meanwhile (lines 106-123).
MandatoryKept ==
    step = "built" =>
        \A f \in Files : rank[f] = 0 =>
            \/ \E a \in pack : a.source = "filesystem" /\ a.path = f
            \/ \E o \in omitted : o.file = f /\ o.why \in {"unreadable", "binary", "non-utf8"}

\* A file gives way to the budget only to what the request gave inline and
\* to files of its own or a better priority (the order of line 94).
PriorityRespected ==
    [][\A f \in Files : [file |-> f, why |-> "budget"] \in omitted' \ omitted
           => \A a \in pack : a.source = "filesystem" => rank[a.path] <= rank[f]]_buildVars

\* The names under which the build was asked for content: by the manifest,
\* whose searches ask for every file by its own name, and by the artifacts.
Asked ==
    {request.artifacts[i].path : i \in DOMAIN request.artifacts} \cup
    UNION {LET q == requirements[i] IN
           q.exact \cup (UNION {p.files : p \in q.patterns}) \cup (IF q.search THEN Files ELSE {}) :
           i \in DOMAIN requirements}

\* An independent design is isolated by name: it sees no diff, no inline
\* candidate solution and no file but those somebody asked for under a name
\* that is not a candidate's, whichever way the file was collected; nor is
\* a candidate's name told, unless the request lists it in another role too
\* (lines 41, 57, 78, 222, 253 and 286, request_sanitizer.py).  This is
\* less than SECURITY.md:13 and FUNCTIONAL_REVIEW.md:16 say: the content of
\* a candidate is not kept out when it is asked for under another name, be
\* it a link's, one through a linked directory, or the file's own where the
\* request marked a link.
Isolated ==
    step = "built" /\ request.mode = "design" =>
        /\ \A a \in pack : a.source # "git-diff"
        /\ \A a \in pack : a.source = "inline" => request.artifacts[a.place].role # "candidate-solution"
        /\ \A a \in pack : a.source = "filesystem" => \E n \in Asked \ Hidden : Leads(n, a.path)
        /\ \A n \in Hidden \cap Disclosed(request) :
              \E i \in DOMAIN request.artifacts :
                  request.artifacts[i].path = n /\ request.artifacts[i].role # "candidate-solution"

=============================================================================
