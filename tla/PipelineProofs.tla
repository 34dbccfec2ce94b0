--------------------------- MODULE PipelineProofs ---------------------------
(***************************************************************************)
(* For any repository, request, manifest and report, and any editing of    *)
(* the files meanwhile: a pack that is handed out is within the budget and *)
(* of the size it says (BudgetIsKept), keeps what is mandatory             *)
(* (MandatoryIsKept), gives way to the budget in the order of priority     *)
(* (PriorityIsRespected) and shows an independent design only what was     *)
(* asked for under a name that is no candidate's (DesignsAreIsolated); a   *)
(* report that is returned accounts for what was asked and planned         *)
(* (ReportsAccount), and there is one that would be returned               *)
(* (AnswersExist).                                                         *)
(*                                                                         *)
(* Bytes is a fold over a set.  What it adds up is proved by induction on  *)
(* the number of elements, from the least number that would refute it.     *)
(***************************************************************************)
EXTENDS RequestPipeline, FiniteSetTheorems, WellFoundedInduction, TLAPS

-----------------------------------------------------------------------------
(* What Bytes adds up.                                                     *)

Sized(S) == IsFiniteSet(S) /\ \A a \in S : a.size \in Nat

\* The fold of Bytes, written out: g[s] is the sum over s, an element at a time.
First(s) == CHOOSE a \in s : TRUE
Sums(g, dom) == \A s \in dom : g[s] = IF s = {} THEN 0 ELSE First(s).size + g[s \ {First(s)}]
IsFold(g, S) == g = [s \in SUBSET S |-> IF s = {} THEN 0 ELSE First(s).size + g[s \ {First(s)}]]
UpTo(S, n) == {s \in SUBSET S : Cardinality(s) <= n}

LEMMA NatSetInduction ==
    ASSUME NEW T, 0 \in T, \A n \in Nat : n \in T => n + 1 \in T
    PROVE  Nat \subseteq T
  <1> SUFFICES ASSUME Nat \ T # {} PROVE FALSE
    OBVIOUS
  <1>1. PICK n \in Nat \ T : \A m \in Nat \ T : <<m, n>> \notin OpToRel(<, Nat)
    BY WFMin, NatLessThanWellFounded
  <1>2. n \in Nat /\ n # 0 /\ n \notin T
    BY <1>1
  <1>3. n - 1 \in Nat /\ n - 1 < n /\ (n - 1) + 1 = n
    BY <1>2
  <1>4. n - 1 \in T
    BY <1>1, <1>2, <1>3 DEF OpToRel
  <1>5. QED
    BY <1>2, <1>3, <1>4

LEMMA FirstIn == \A s : s # {} => First(s) \in s
  BY DEF First

LEMMA SizedSubset ==
    ASSUME NEW S, Sized(S), NEW s \in SUBSET S
    PROVE  /\ Sized(s) /\ Cardinality(s) \in Nat /\ Cardinality(s) <= Cardinality(S)
           /\ \A a \in s : Sized(s \ {a}) /\ Cardinality(s \ {a}) = Cardinality(s) - 1
  <1>1. IsFiniteSet(s) /\ Cardinality(s) <= Cardinality(S)
    BY FS_Subset DEF Sized
  <1>2. Cardinality(s) \in Nat
    BY <1>1, FS_CardinalityType
  <1>3. ASSUME NEW a \in s PROVE IsFiniteSet(s \ {a}) /\ Cardinality(s \ {a}) = Cardinality(s) - 1
    BY <1>1, FS_RemoveElement
  <1>4. QED
    BY <1>1, <1>2, <1>3 DEF Sized

LEMMA FoldExists ==
    ASSUME NEW S, Sized(S)
    PROVE  \E g \in [SUBSET S -> Nat] : IsFold(g, S)
  <1> DEFINE T == {n \in Nat : \E g \in [UpTo(S, n) -> Nat] : Sums(g, UpTo(S, n))}
  <1>1. 0 \in T
    <2> DEFINE g == [s \in UpTo(S, 0) |-> 0]
    <2>1. \A s \in UpTo(S, 0) : s = {}
      BY SizedSubset, FS_EmptySet DEF UpTo, Sized
    <2>2. g \in [UpTo(S, 0) -> Nat] /\ Sums(g, UpTo(S, 0))
      BY <2>1 DEF Sums
    <2>3. QED
      BY <2>2
  <1>2. ASSUME NEW n \in Nat, n \in T PROVE n + 1 \in T
    <2>1. PICK g \in [UpTo(S, n) -> Nat] : Sums(g, UpTo(S, n))
      BY <1>2
    <2> DEFINE h == [s \in UpTo(S, n + 1) |-> IF s = {} THEN 0 ELSE First(s).size + g[s \ {First(s)}]]
    <2>2. ASSUME NEW s \in UpTo(S, n + 1), s # {}
          PROVE  /\ First(s).size \in Nat /\ s \ {First(s)} \in UpTo(S, n)
                 /\ s \ {First(s)} \in UpTo(S, n + 1)
      <3>1. First(s) \in s /\ First(s) \in S
        BY <2>2, FirstIn DEF UpTo
      <3>2. Cardinality(s \ {First(s)}) = Cardinality(s) - 1 /\ Cardinality(s) \in Nat /\ Cardinality(s) <= n + 1
        BY <3>1, SizedSubset DEF UpTo
      <3>3. QED
        BY <3>1, <3>2 DEF UpTo, Sized
    <2>3. h \in [UpTo(S, n + 1) -> Nat]
      BY <2>2
    <2>4. ASSUME NEW t \in UpTo(S, n), t \in UpTo(S, n + 1) PROVE h[t] = g[t]
      BY <2>1, <2>4 DEF Sums
    <2>5. Sums(h, UpTo(S, n + 1))
      <3> SUFFICES ASSUME NEW s \in UpTo(S, n + 1)
                   PROVE  h[s] = IF s = {} THEN 0 ELSE First(s).size + h[s \ {First(s)}]
        BY DEF Sums
      <3>1. CASE s = {}
        BY <3>1
      <3>2. CASE s # {}
        BY <2>2, <2>4, <3>2
      <3>3. QED
        BY <3>1, <3>2
    <2> HIDE DEF h
    <2>6. QED
      BY <2>3, <2>5
  <1> HIDE DEF T
  <1>3. Cardinality(S) \in T
    BY <1>1, <1>2, NatSetInduction, FS_CardinalityType DEF Sized
  <1>4. UpTo(S, Cardinality(S)) = SUBSET S
    BY SizedSubset DEF UpTo
  <1>5. PICK g \in [SUBSET S -> Nat] : Sums(g, SUBSET S)
    BY <1>3, <1>4 DEF T
  <1>6. IsFold(g, S)
    BY <1>5 DEF Sums, IsFold
  <1>7. QED
    BY <1>5, <1>6

\* Two folds, of a set and of a part of it, agree on the part.
LEMMA FoldsAgree ==
    ASSUME NEW S, Sized(S), NEW R \in SUBSET S, NEW g, IsFold(g, S), NEW h, IsFold(h, R)
    PROVE  \A s \in SUBSET R : g[s] = h[s]
  <1> DEFINE T == {n \in Nat : \A s \in SUBSET R : Cardinality(s) = n => g[s] = h[s]}
  <1>1. 0 \in T
    <2>1. \A s \in SUBSET R : Cardinality(s) = 0 => s = {}
      BY SizedSubset, FS_EmptySet DEF Sized
    <2>2. g[{}] = 0 /\ h[{}] = 0
      BY DEF IsFold
    <2>3. QED
      BY <2>1, <2>2
  <1>2. ASSUME NEW n \in Nat, n \in T PROVE n + 1 \in T
    <2> SUFFICES ASSUME NEW s \in SUBSET R, Cardinality(s) = n + 1 PROVE g[s] = h[s]
      OBVIOUS
    <2>1. s # {}
      BY FS_EmptySet
    <2>2. First(s) \in s /\ s \in SUBSET S
      BY <2>1, FirstIn
    <2>3. Cardinality(s \ {First(s)}) = n /\ s \ {First(s)} \in SUBSET R
      BY <2>2, SizedSubset
    <2>4. g[s \ {First(s)}] = h[s \ {First(s)}]
      BY <1>2, <2>3
    <2>5. QED
      BY <2>1, <2>4 DEF IsFold
  <1>3. Nat \subseteq T
    <2> HIDE DEF T
    <2>1. QED
      BY <1>1, <1>2, NatSetInduction
  <1>4. \A s \in SUBSET R : Cardinality(s) \in Nat
    BY SizedSubset
  <1>5. QED
    BY <1>3, <1>4

LEMMA BytesIsFold ==
    ASSUME NEW S, Sized(S)
    PROVE  \E g : IsFold(g, S) /\ Bytes(S) = g[S] /\ Bytes(S) \in Nat
  <1>1. Bytes(S) = (CHOOSE g : IsFold(g, S))[S]
    BY DEF Bytes, MapThenSumSet, MapThenFoldSet, IsFold, First
  <1>2. PICK h \in [SUBSET S -> Nat] : IsFold(h, S)
    BY FoldExists
  <1>3. IsFold(CHOOSE g : IsFold(g, S), S)
    BY <1>2
  <1>4. h[S] = (CHOOSE g : IsFold(g, S))[S]
    BY <1>2, <1>3, FoldsAgree
  <1>5. h[S] \in Nat
    BY <1>2
  <1>6. QED
    BY <1>1, <1>3, <1>4, <1>5

LEMMA BytesFirst ==
    ASSUME NEW S, Sized(S), S # {}
    PROVE  Bytes(S) = First(S).size + Bytes(S \ {First(S)})
  <1> DEFINE R == S \ {First(S)}
  <1>1. Sized(R) /\ R \in SUBSET S
    BY SizedSubset, FirstIn
  <1>2. PICK g : IsFold(g, S) /\ Bytes(S) = g[S]
    BY BytesIsFold
  <1>3. PICK h : IsFold(h, R) /\ Bytes(R) = h[R]
    BY <1>1, BytesIsFold
  <1>4. g[R] = h[R]
    BY <1>1, <1>2, <1>3, FoldsAgree
  <1>5. g[S] = First(S).size + g[R]
    BY <1>2 DEF IsFold
  <1>6. QED
    BY <1>2, <1>3, <1>4, <1>5

LEMMA BytesEmpty == Bytes({}) = 0
  <1>1. Sized({})
    BY FS_EmptySet DEF Sized
  <1>2. QED
    BY <1>1, BytesIsFold DEF IsFold

\* In whatever order the fold takes them, any artifact adds its own size.
LEMMA BytesWithout ==
    ASSUME NEW S, Sized(S), NEW a \in S
    PROVE  Bytes(S) = a.size + Bytes(S \ {a})
  <1> DEFINE Splits(s) == \A b \in s : Bytes(s) = b.size + Bytes(s \ {b})
             T == {n \in Nat : \A s \in SUBSET S : Cardinality(s) = n => Splits(s)}
  <1>1. 0 \in T
    <2>1. \A s \in SUBSET S : Cardinality(s) = 0 => s = {}
      BY SizedSubset, FS_EmptySet DEF Sized
    <2>2. QED
      BY <2>1
  <1>2. ASSUME NEW n \in Nat, n \in T PROVE n + 1 \in T
    <2> SUFFICES ASSUME NEW s \in SUBSET S, Cardinality(s) = n + 1, NEW b \in s
                 PROVE  Bytes(s) = b.size + Bytes(s \ {b})
      OBVIOUS
    <2> DEFINE c == First(s)
    <2>1. c \in s /\ Sized(s) /\ Bytes(s) = c.size + Bytes(s \ {c})
      BY SizedSubset, FirstIn, BytesFirst
    <2> HIDE DEF c
    <2>2. CASE b = c
      BY <2>1, <2>2
    <2>3. CASE b # c
      <3>1. /\ Sized(s \ {c}) /\ Cardinality(s \ {c}) = n /\ b \in s \ {c}
            /\ Sized(s \ {b}) /\ Cardinality(s \ {b}) = n /\ c \in s \ {b}
            /\ s \ {c} \in SUBSET S /\ s \ {b} \in SUBSET S
        BY <2>1, <2>3, SizedSubset
      <3>2. Bytes(s \ {c}) = b.size + Bytes((s \ {c}) \ {b}) /\ Bytes(s \ {b}) = c.size + Bytes((s \ {b}) \ {c})
        BY <1>2, <3>1
      <3>3. (s \ {c}) \ {b} = (s \ {b}) \ {c} /\ Sized((s \ {c}) \ {b})
        BY <3>1, SizedSubset
      <3>4. b.size \in Nat /\ c.size \in Nat /\ Bytes((s \ {c}) \ {b}) \in Nat
        BY <2>1, <3>3, BytesIsFold DEF Sized
      <3>5. Bytes(s) = c.size + (b.size + Bytes((s \ {c}) \ {b}))
        BY <2>1, <3>2
      <3>6. Bytes(s \ {b}) = c.size + Bytes((s \ {c}) \ {b})
        BY <3>2, <3>3
      <3>7. \A i, j, m \in Nat : i + (j + m) = j + (i + m)
        OBVIOUS
      <3>8. QED
        BY <3>4, <3>5, <3>6, <3>7
    <2>4. QED
      BY <2>2, <2>3
  <1>3. Cardinality(S) \in T
    <2> HIDE DEF T
    <2>1. Nat \subseteq T
      BY <1>1, <1>2, NatSetInduction
    <2>2. QED
      BY <2>1, SizedSubset
  <1>4. QED
    BY <1>3

LEMMA BytesAdd ==
    ASSUME NEW S, Sized(S), NEW a, a \notin S, a.size \in Nat
    PROVE  Sized(S \cup {a}) /\ Bytes(S \cup {a}) = Bytes(S) + a.size /\ Bytes(S) \in Nat
  <1>1. Sized(S \cup {a})
    BY FS_AddElement DEF Sized
  <1>2. (S \cup {a}) \ {a} = S
    OBVIOUS
  <1>3. Bytes(S \cup {a}) = a.size + Bytes(S) /\ Bytes(S) \in Nat
    BY <1>1, <1>2, BytesWithout, BytesIsFold
  <1>4. QED
    BY <1>1, <1>3

-----------------------------------------------------------------------------
(* The inductive invariant.                                                *)

Collecting == {"include", "require", "artifacts", "diff"}

\* Types, and where a request and its manifest come from.
TypeInv ==
    /\ repo \in [Files -> FileStates]
    /\ rank \in [Files -> 0 .. 5]
    /\ item \in Nat \ {0}
    /\ stage = "planning" => asked \in RawRequests
    /\ step # "idle" => task.request \in RawRequests /\ task.manifest \in Manifests
    /\ step = "idle" => rank = [f \in Files |-> NotCandidate] /\ pack = {} /\ left = {}

InPack(f) == \E a \in pack : a.source = "filesystem" /\ a.path = f

\* Each candidate is still to be read, is in the pack or was left out, for a
\* reason that a P0 file allows.
ReadInv ==
    /\ step \in {"idle"} \cup Collecting => \A a \in pack : a.source # "filesystem"
    /\ step \in {"read", "built"} =>
          \A f \in Files : rank[f] = 0 =>
              \/ f \in left \/ InPack(f)
              \/ \E o \in omitted : o.file = f /\ o.why \in {"unreadable", "binary", "non-utf8"}
    /\ step = "built" => left = {}

\* Files are read in their order.
OrderInv ==
    step = "read" =>
        /\ left \subseteq Files
        /\ \A a \in pack : a.source = "filesystem" => a.path \in Files /\ \A g \in left : Before(a.path, g)

\* File f was asked for under a name that is not a candidate's.
Named(f) == \E n \in Asked \ Hidden : Leads(n, f)

\* What an independent design has been given.
IsolationInv ==
    step # "idle" /\ request.mode = "design" =>
        /\ \A f \in Files : rank[f] # NotCandidate => Named(f)
        /\ \A a \in pack : a.source # "git-diff"
        /\ \A a \in pack : a.source = "inline" => request.artifacts[a.place].role # "candidate-solution"
        /\ \A f \in left : f \in Files /\ rank[f] # NotCandidate
        /\ \A a \in pack : a.source = "filesystem" => a.path \in Files /\ rank[a.path] # NotCandidate

\* What a later stage knows of the earlier ones.
StageInv ==
    /\ stage \in {"planning", "building", "reporting", "complete"} => route = Route(asked)
    /\ stage \in {"building", "reporting"} =>
          step # "idle" /\ asked \in RawRequests /\ ValidManifest(task.manifest, route)
    /\ stage \in {"reporting", "complete"} => step = "built"
    /\ stage = "complete" => ValidReport(Id, asked, route, task.manifest, answer)

\* The bytes that were counted are those of the pack.  An artifact that is
\* added is another one than those there: its place, or its path, is new.
BudgetInv ==
    /\ Sized(pack) /\ total = Bytes(pack)
    /\ step \in {"idle", "include", "require"} => pack = {}
    /\ step = "artifacts" => \A a \in pack : a.source = "inline" /\ a.place \in 1 .. item - 1
    /\ step = "diff" => \A a \in pack : a.source = "inline"
    /\ step = "read" => \A a \in pack : a.source = "filesystem" => a.path \notin left
    /\ step \in {"read", "built"} => total <= Budget

Inv == BudgetInv /\ TypeInv /\ ReadInv /\ OrderInv /\ IsolationInv /\ StageInv

\* What each step of a build may touch.
LEMMA BuildFrame ==
    ASSUME BuildStep
    PROVE  UNCHANGED task /\ step # "idle" /\ step' # "idle" /\ step # "built"
  BY DEF BuildStep, CollectIncluded, CollectRequirement, TakeArtifact, LoopEnds, TakeDiff, ReadFile, Omit, OmitOrRefuse,
         Take, Validate, Edit, Refuse, Goto, AddCandidates, collected, read

\* The steps that collect add files by some name, at some rank.
LEMMA Collected ==
    ASSUME Inv, CollectIncluded \/ CollectRequirement \/ TakeArtifact, rank' # rank
    PROVE  /\ UNCHANGED <<repo, edits, task, left, pack, total, omitted>>
           /\ step' \in Collecting /\ step \in Collecting
           /\ \E files \in SUBSET Files, p \in Ranks :
                 /\ AddCandidates(files, p)
                 /\ request.mode = "design" => \A f \in files : Named(f)
  <1> USE DEF Inv, TypeInv
  <1>1. CASE CollectIncluded
    <2>1. GlobFiles(request.include) \in SUBSET Files /\ 1 \in Ranks
      BY DEF GlobFiles, Ranks
    <2>2. AddCandidates(GlobFiles(request.include), 1) /\ request.mode # "design"
          /\ step = "include" /\ step' = "require" /\ UNCHANGED <<repo, edits, task, item, read>>
      BY <1>1 DEF CollectIncluded, Refuse, Goto, collected
    <2>3. QED
      BY <2>1, <2>2 DEF read, Collecting
  <1>2. CASE CollectRequirement
    <2> DEFINE q == requirements[item]
               files == ExactFiles(q.exact) \cup GlobFiles(q.patterns) \cup (IF q.search THEN SearchFiles ELSE {})
    <2>1. step = "require" /\ step' = "require" /\ AddCandidates(files, q.rank)
          /\ UNCHANGED <<repo, edits, task, read>>
      BY <1>2 DEF CollectRequirement, Refuse, collected
    <2>2. item \in DOMAIN requirements /\ q \in Requirement
      <3>1. requirements \in Seq(Requirement)
        BY <2>1, PipelineAssumption DEF requirements
      <3>2. item <= Len(requirements)
        BY <1>2 DEF CollectRequirement
      <3>3. QED
        BY <3>1, <3>2
    <2>3. files \in SUBSET Files /\ q.rank \in Ranks
      BY <2>2 DEF Requirement, ExactFiles, GlobFiles, SearchFiles
    <2>4. ASSUME NEW f \in files PROVE Named(f)
      <3>1. q.exact \subseteq Asked /\ UNION {p.files : p \in q.patterns} \subseteq Asked /\ (q.search => Files \subseteq Asked)
        BY <2>2 DEF Asked
      <3>2. CASE f \in ExactFiles(q.exact)
        BY <3>1, <3>2 DEF ExactFiles, Named
      <3>3. CASE f \in GlobFiles(q.patterns)
        BY <3>1, <3>3 DEF GlobFiles, Globbed, Named
      <3>4. CASE q.search /\ f \in SearchFiles
        BY <3>1, <3>4 DEF SearchFiles, Named, Leads
      <3>5. QED
        BY <2>4, <3>2, <3>3, <3>4
    <2> HIDE DEF files, q
    <2>5. QED
      BY <2>1, <2>3, <2>4 DEF read, Collecting
  <1>3. CASE TakeArtifact
    <2> DEFINE a == request.artifacts[item]
               files == ExactFiles({a.path})
    <2>1. step = "artifacts" /\ step' = "artifacts" /\ AddCandidates(files, a.rank)
          /\ UNCHANGED <<repo, edits, task, read>>
      BY <1>3 DEF TakeArtifact, Refuse, collected
    <2>2. item \in DOMAIN request.artifacts /\ a \in ArtifactSpec
      <3>1. request.artifacts \in Seq(ArtifactSpec)
        BY <2>1, PipelineAssumption DEF request
      <3>2. item <= Len(request.artifacts)
        BY <1>3 DEF TakeArtifact
      <3>3. QED
        BY <3>1, <3>2
    <2>3. files \in SUBSET Files /\ a.rank \in Ranks
      BY <2>2 DEF ArtifactSpec, ExactFiles
    <2>4. ASSUME NEW f \in files PROVE Named(f)
      <3>1. a.path \in Asked
        BY <2>2 DEF Asked
      <3>2. QED
        BY <2>4, <3>1 DEF ExactFiles, Named
    <2> HIDE DEF files, a
    <2>5. QED
      BY <2>1, <2>3, <2>4 DEF read, Collecting
  <1>4. QED
    BY <1>1, <1>2, <1>3

LEMMA TypeInductive == Inv /\ [Next]_vars => TypeInv'
  <1> SUFFICES ASSUME Inv, [Next]_vars PROVE TypeInv'
    OBVIOUS
  <1> USE DEF Inv, TypeInv
  <1>1. CASE BuildStep /\ UNCHANGED pipeline
    <2>1. step # "idle" /\ step' # "idle" /\ UNCHANGED task
      BY <1>1, BuildFrame
    <2>2. repo' \in [Files -> FileStates]
      BY <1>1
      DEF BuildStep, CollectIncluded, CollectRequirement, TakeArtifact, LoopEnds, TakeDiff, ReadFile, Omit,
          OmitOrRefuse, Take, Validate, Edit, Refuse
    <2>3. rank' \in [Files -> 0 .. 5]
      <3>1. CASE (CollectIncluded \/ CollectRequirement \/ TakeArtifact) /\ rank' # rank
        <4>1. PICK files \in SUBSET Files, p \in Ranks : AddCandidates(files, p)
          BY <3>1, Collected
        <4>2. QED
          BY <4>1 DEF AddCandidates, Ranks
      <3>2. CASE rank' = rank
        BY <3>2
      <3>3. CASE ~(CollectIncluded \/ CollectRequirement \/ TakeArtifact)
        BY <1>1, <3>3
        DEF BuildStep, LoopEnds, TakeDiff, ReadFile, Omit, OmitOrRefuse, Take, Validate, Edit, Refuse, collected
      <3>4. QED
        BY <3>1, <3>2, <3>3
    <2>4. item' \in Nat \ {0}
      <3>1. item' \in {1, item, item + 1}
        BY <1>1
        DEF BuildStep, CollectIncluded, CollectRequirement, TakeArtifact, LoopEnds, TakeDiff, ReadFile, Omit,
            OmitOrRefuse, Take, Validate, Edit, Refuse, collected
      <3>2. QED
        BY <3>1
    <2>5. QED
      BY <1>1, <2>1, <2>2, <2>3, <2>4 DEF pipeline
  <1>2. ASSUME NEW m \in Manifests, Plan(m) PROVE TypeInv'
    BY <1>2 DEF Plan, Start, Goto, buildVars, read
  <1>3. ASSUME NEW req \in RawRequests, Classify(req) PROVE TypeInv'
    BY <1>3 DEF Classify, buildVars
  <1>4. CASE Built \/ (\E report \in Reports : Report(report)) \/ UNCHANGED vars
    BY <1>4 DEF Built, Report, vars, pipeline, buildVars
  <1>5. QED
    BY <1>1, <1>2, <1>3, <1>4 DEF Next

\* What is not a step of a build leaves it alone, or starts it.
LEMMA StagesKeepBuild ==
    ASSUME Inv, Next, ~(BuildStep /\ UNCHANGED pipeline)
    PROVE  \/ UNCHANGED buildVars
           \/ /\ step = "idle" /\ step' = "include" /\ stage = "planning" /\ stage' = "building"
              /\ UNCHANGED <<repo, edits, item, rank, left, pack, total, omitted, asked, route, answer>>
  BY DEF Next, Classify, Plan, Start, Goto, Built, Report, read

LEMMA ReadInductive == Inv /\ [Next]_vars => ReadInv'
  <1> SUFFICES ASSUME Inv, [Next]_vars PROVE ReadInv'
    OBVIOUS
  <1> USE DEF Inv, ReadInv, InPack, Collecting
  <1>1. CASE BuildStep /\ UNCHANGED pipeline
    <2>1. CASE CollectIncluded \/ CollectRequirement \/ TakeArtifact \/ LoopEnds
      <3>1. /\ step \in Collecting /\ step' \notin {"read", "built"}
            /\ step' \in Collecting => \A a \in pack' : a \in pack \/ a.source = "inline"
        BY <2>1 DEF CollectIncluded, CollectRequirement, TakeArtifact, LoopEnds, Refuse, Goto, read
      <3>2. step' # "idle"
        BY <1>1, BuildFrame
      <3>3. QED
        BY <3>1, <3>2
    <2>2. ASSUME NEW diff \in Diffs, TakeDiff(diff) PROVE ReadInv'
      BY <2>2 DEF TakeDiff, Refuse, collected, NotCandidate
    <2>3. ASSUME NEW f \in Files, ReadFile(f) PROVE ReadInv'
      <3>1. step = "read" /\ f \in left
        BY <2>3 DEF ReadFile
      <3>2. CASE \E why : Omit(f, why) /\ (rank[f] = 0 => why \in {"unreadable", "binary", "non-utf8"})
        <4>1. PICK why : Omit(f, why) /\ (rank[f] = 0 => why \in {"unreadable", "binary", "non-utf8"})
          BY <3>2
        <4>2. /\ step' = "read" /\ pack' = pack /\ rank' = rank /\ left' = left \ {f}
              /\ omitted' = omitted \cup {[file |-> f, why |-> why]}
          BY <3>1, <4>1 DEF Omit, collected
        <4>3. [file |-> f, why |-> why] \in omitted' /\ omitted \subseteq omitted'
          BY <4>2
        <4>4. ASSUME NEW g \in Files, rank[g] = 0
              PROVE  \/ g \in left' \/ InPack(g)
                     \/ \E o \in omitted' : o.file = g /\ o.why \in {"unreadable", "binary", "non-utf8"}
          <5>1. CASE g = f
            <6> DEFINE o == [file |-> f, why |-> why]
            <6>1. o \in omitted' /\ o.file = g /\ o.why \in {"unreadable", "binary", "non-utf8"}
              BY <4>1, <4>3, <4>4, <5>1
            <6>2. QED
              BY <6>1
          <5>2. CASE g # f
            BY <3>1, <4>2, <4>3, <4>4, <5>2
          <5>3. QED
            BY <5>1, <5>2
        <4>5. QED
          BY <3>1, <4>2, <4>4
      <3>3. CASE \E why : Refuse(why) /\ why \notin {"idle", "read", "built"} \cup Collecting
        BY <3>3 DEF Refuse
      <3>4. CASE Take(f)
        <4> DEFINE a == [source |-> "filesystem", path |-> f, place |-> 0,
                         size |-> repo[f].size, hit |-> repo[f].hit]
        <4>1. /\ step' = "read" /\ omitted' = omitted /\ rank' = rank /\ left' = left \ {f}
              /\ pack' = pack \cup {a}
          BY <3>1, <3>4 DEF Take, collected
        <4>2. a \in pack' /\ a.source = "filesystem" /\ a.path = f
          BY <4>1
        <4> HIDE DEF a
        <4>3. QED
          BY <3>1, <4>1, <4>2
      <3>5. QED
        <4>1. repo[f].kind \in Kinds
          BY ContextAssumption DEF TypeInv
        <4>2. CASE repo[f].kind = "gone" /\ Omit(f, "unreadable")
          BY <3>2, <4>2
        <4>3. CASE OmitOrRefuse(f, "oversize") \/ OmitOrRefuse(f, "budget")
          BY <3>2, <3>3, <4>3 DEF OmitOrRefuse
        <4>4. CASE repo[f].kind \notin {"gone", "text"} /\ Omit(f, repo[f].kind)
          BY <3>2, <4>1, <4>4 DEF Kinds
        <4>5. QED
          BY <2>3, <3>4, <4>2, <4>3, <4>4 DEF ReadFile
    <2>4. CASE Validate
      BY <2>4 DEF Validate, collected, read
    <2>5. ASSUME NEW f \in Files, NEW new \in FileStates, Edit(f, new) PROVE ReadInv'
      BY <2>5 DEF Edit, read
    <2>6. QED
      BY <1>1, <2>1, <2>2, <2>3, <2>4, <2>5 DEF BuildStep
  <1>2. CASE Next /\ ~(BuildStep /\ UNCHANGED pipeline)
    BY <1>2, StagesKeepBuild DEF buildVars
  <1>3. CASE UNCHANGED vars
    BY <1>3 DEF vars, buildVars
  <1>4. QED
    BY <1>1, <1>2, <1>3

LEMMA OrderInductive == Inv /\ [Next]_vars => OrderInv'
  <1> SUFFICES ASSUME Inv, [Next]_vars, step' = "read" PROVE OrderInv'
    BY DEF OrderInv
  <1> USE DEF Inv, OrderInv
  <1>1. CASE BuildStep /\ UNCHANGED pipeline
    <2>1. CASE CollectIncluded \/ CollectRequirement \/ TakeArtifact \/ LoopEnds \/ Validate
      BY <2>1 DEF CollectIncluded, CollectRequirement, TakeArtifact, LoopEnds, Validate, Refuse, Goto
    <2>2. ASSUME NEW diff \in Diffs, TakeDiff(diff) PROVE OrderInv'
      <3>1. /\ \A a \in pack' : a \in pack \/ a.source = "git-diff"
            /\ left' \subseteq Files /\ step = "diff"
        BY <2>2 DEF TakeDiff, Refuse
      <3>2. QED
        BY <3>1 DEF ReadInv, Collecting
    <2>3. ASSUME NEW f \in Files, ReadFile(f) PROVE OrderInv'
      <3>1. /\ step = "read" /\ f \in left /\ \A g \in left : Before(f, g)
            /\ rank' = rank /\ left' = left \ {f}
            /\ \A a \in pack' : a \in pack \/ (a.source = "filesystem" /\ a.path = f)
        BY <2>3 DEF ReadFile, Omit, OmitOrRefuse, Refuse, Take, collected
      <3>2. \A g, h : Before(g, h)' = Before(g, h)
        BY <3>1 DEF Before
      <3>3. QED
        BY <3>1, <3>2
    <2>4. ASSUME NEW f \in Files, NEW new \in FileStates, Edit(f, new) PROVE OrderInv'
      BY <2>4 DEF Edit, read, Before
    <2>5. QED
      BY <1>1, <2>1, <2>2, <2>3, <2>4 DEF BuildStep
  <1>2. CASE Next /\ ~(BuildStep /\ UNCHANGED pipeline)
    BY <1>2, StagesKeepBuild DEF buildVars, Before
  <1>3. CASE UNCHANGED vars
    BY <1>3 DEF vars, buildVars, Before
  <1>4. QED
    BY <1>1, <1>2, <1>3

LEMMA IsolationInductive == Inv /\ [Next]_vars => IsolationInv'
  <1> SUFFICES ASSUME Inv, [Next]_vars, step' # "idle", task'.request.mode = "design" PROVE IsolationInv'
    BY DEF IsolationInv, request
  <1> USE DEF Inv, IsolationInv
  <1>1. CASE BuildStep /\ UNCHANGED pipeline
    <2>1. /\ UNCHANGED task /\ step # "idle" /\ request.mode = "design" /\ request' = request
          /\ \A f : Named(f)' = Named(f)
      BY <1>1, BuildFrame DEF request, Hidden, Named, Asked, requirements
    <2>2. CASE (CollectIncluded \/ CollectRequirement \/ TakeArtifact) /\ rank' # rank
      <3>1. PICK files \in SUBSET Files, p \in Ranks :
               /\ AddCandidates(files, p)
               /\ \A f \in files : Named(f)
        BY <2>1, <2>2, Collected
      <3>2. UNCHANGED <<left, pack>>
        BY <2>2, Collected
      <3>3. \A f \in Files : rank'[f] # NotCandidate => f \in files \/ rank[f] # NotCandidate
        BY <3>1 DEF AddCandidates
      <3>4. \A f \in Files : rank[f] # NotCandidate => rank'[f] # NotCandidate
        BY <3>1 DEF AddCandidates, TypeInv, Ranks, NotCandidate
      <3>5. QED
        BY <2>1, <3>1, <3>2, <3>3, <3>4
    <2>3. CASE (CollectIncluded \/ CollectRequirement \/ TakeArtifact) /\ rank' = rank
      <3>1. /\ left' = left
            /\ \A a \in pack' : a \in pack
                  \/ (a.source = "inline" /\ request.artifacts[a.place].role # "candidate-solution")
        BY <2>1, <2>3 DEF CollectIncluded, CollectRequirement, TakeArtifact, Refuse, read
      <3>2. QED
        BY <2>1, <2>3, <3>1
    <2>4. ASSUME NEW diff \in Diffs, TakeDiff(diff) PROVE IsolationInv'
      <3>1. /\ rank' = rank /\ pack' = pack
            /\ left' = left \/ left' = {f \in Files : rank[f] # NotCandidate}
        BY <2>1, <2>4 DEF TakeDiff, Refuse, collected, read
      <3>2. QED
        BY <2>1, <3>1
    <2>5. ASSUME NEW f \in Files, ReadFile(f) PROVE IsolationInv'
      <3>1. /\ f \in left /\ rank' = rank /\ left' \subseteq left
            /\ \A a \in pack' : a \in pack \/ (a.source = "filesystem" /\ a.path = f)
        BY <2>5 DEF ReadFile, Omit, OmitOrRefuse, Refuse, Take, collected, read
      <3>2. QED
        BY <2>1, <3>1
    <2>6. CASE LoopEnds \/ Validate \/ \E f \in Files, new \in FileStates : Edit(f, new)
      <3>1. UNCHANGED <<rank, left, pack>>
        BY <2>6 DEF LoopEnds, Validate, Edit, collected, read
      <3>2. QED
        BY <2>1, <3>1
    <2>7. QED
      BY <1>1, <2>2, <2>3, <2>4, <2>5, <2>6 DEF BuildStep
  <1>2. CASE UNCHANGED buildVars
    BY <1>2 DEF buildVars, request, Hidden, Named, Asked, requirements
  <1>3. CASE Next /\ ~(BuildStep /\ UNCHANGED pipeline) /\ ~UNCHANGED buildVars
    <2>1. step = "idle" /\ UNCHANGED <<rank, left, pack>>
      BY <1>3, StagesKeepBuild
    <2>2. \A f \in Files : rank[f] = NotCandidate
      BY <2>1 DEF TypeInv
    <2>3. pack = {} /\ left = {}
      BY <2>1 DEF TypeInv
    <2>4. QED
      BY <2>1, <2>2, <2>3
  <1>4. QED
    BY <1>1, <1>2, <1>3 DEF vars

\* The smaller of the two budgets is one of them.
LEMMA BudgetIsNat == Inv /\ step # "idle" => Budget \in Nat
  <1> SUFFICES ASSUME Inv, step # "idle" PROVE Budget \in Nat
    OBVIOUS
  <1> DEFINE i == request.maxBytes
             j == task.manifest.maxBytes
  <1>1. i \in Nat /\ j \in Nat
    BY PipelineAssumption DEF Inv, TypeInv, request
  <1> HIDE DEF i, j
  <1>2. \E x \in {i, j} : \A y \in {i, j} : x =< y
    BY <1>1
  <1>3. Min({i, j}) \in {i, j}
    BY <1>2 DEF Min
  <1>4. QED
    BY <1>1, <1>3 DEF Budget, i, j

\* The size of a new artifact is added to the count.
LEMMA Counted ==
    ASSUME Inv, NEW a, a \notin pack, a.size \in Nat, pack' = pack \cup {a}, total' = total + a.size
    PROVE  Sized(pack') /\ total' = Bytes(pack')
  BY BytesAdd DEF Inv, BudgetInv

LEMMA InlineCounted ==
    ASSUME Inv, TakeArtifact PROVE BudgetInv'
  <1> DEFINE spec == request.artifacts[item]
             a == [source |-> "inline", path |-> spec.path, place |-> item,
                   size |-> spec.inline.size, hit |-> spec.inline.hit]
  <1> USE DEF Inv, BudgetInv
  <1>1. step = "artifacts" /\ step' \in {"artifacts", "unsafe"} /\ item \in Nat \ {0}
    BY DEF TakeArtifact, Refuse, TypeInv
  <1>2. CASE UNCHANGED <<pack, total>> /\ (step' = "artifacts" => item' = item + 1)
    BY <1>1, <1>2
  <1>3. CASE /\ spec.inline # None /\ item' = item + 1 /\ UNCHANGED step
             /\ pack' = pack \cup {a} /\ total' = total + spec.inline.size
    <2>1. spec \in ArtifactSpec
      <3>1. request.artifacts \in Seq(ArtifactSpec)
        BY <1>1, PipelineAssumption DEF request, TypeInv
      <3>2. item <= Len(request.artifacts)
        BY DEF TakeArtifact
      <3>3. QED
        BY <1>1, <3>1, <3>2
    <2>2. a.source = "inline" /\ a.place = item /\ a.size \in Nat /\ total' = total + a.size
      BY <1>3, <2>1 DEF ArtifactSpec
    <2>3. pack' = pack \cup {a}
      BY <1>3
    <2> HIDE DEF a
    <2>4. a \notin pack
      BY <1>1, <2>2
    <2>5. Sized(pack') /\ total' = Bytes(pack')
      BY <2>2, <2>3, <2>4, Counted
    <2>6. \A b \in pack' : b.source = "inline" /\ b.place \in 1 .. item' - 1
      BY <1>1, <1>3, <2>2, <2>3
    <2>7. QED
      BY <1>1, <1>3, <2>5, <2>6
  <1>4. QED
    BY <1>1, <1>2, <1>3 DEF TakeArtifact, Refuse, read

LEMMA DiffCounted ==
    ASSUME Inv, NEW diff \in Diffs, TakeDiff(diff), UNCHANGED Budget PROVE BudgetInv'
  <1> DEFINE taken == IF request.diff /\ request.mode # "design" THEN diff.size ELSE 0
             a == [source |-> "git-diff", path |-> GitDiff, place |-> 0, size |-> taken, hit |-> diff.hit]
  <1> USE DEF Inv, BudgetInv
  <1>1. step = "diff" /\ step' \in {"read", "too-large"} /\ taken \in Nat
    BY ContextAssumption DEF TakeDiff, Refuse
  <1>2. CASE step' = "too-large"
    BY <1>1, <1>2 DEF TakeDiff, Refuse, read
  <1>3. CASE step' = "read"
    <2>1. /\ total' = total + taken /\ ~(total + taken > Budget)
          /\ pack' = IF taken = 0 THEN pack ELSE pack \cup {a}
      BY <1>3 DEF TakeDiff, Refuse
    <2>2. a.source = "git-diff" /\ a.size = taken
      OBVIOUS
    <2> HIDE DEF a, taken
    <2>3. total' <= Budget
      <3>1. total \in Nat
        BY BytesIsFold
      <3>2. Budget \in Nat
        BY <1>1, BudgetIsNat
      <3>3. QED
        BY <1>1, <2>1, <3>1, <3>2
    <2>4. Sized(pack') /\ total' = Bytes(pack')
      <3>1. a \notin pack
        BY <1>1, <2>2
      <3>2. CASE taken = 0
        BY <2>1, <3>2, BytesIsFold
      <3>3. CASE taken # 0
        BY <1>1, <2>1, <2>2, <3>1, <3>3, Counted
      <3>4. QED
        BY <3>2, <3>3
    <2>5. \A b \in pack' : b.source # "filesystem"
      BY <1>1, <2>1, <2>2
    <2>6. QED
      BY <1>3, <2>3, <2>4, <2>5
  <1>4. QED
    BY <1>1, <1>2, <1>3

LEMMA FileCounted ==
    ASSUME Inv, NEW f \in Files, ReadFile(f), UNCHANGED Budget PROVE BudgetInv'
  <1> DEFINE a == [source |-> "filesystem", path |-> f, place |-> 0, size |-> repo[f].size, hit |-> repo[f].hit]
  <1> USE DEF Inv, BudgetInv
  <1>1. step = "read" /\ f \in left
    BY DEF ReadFile
  <1>2. CASE UNCHANGED <<pack, total>> /\ left' \subseteq left /\ step' \in {"read", "too-large"}
    BY <1>1, <1>2
  <1>3. CASE Fits(f) /\ Take(f)
    <2>1. /\ pack' = pack \cup {a} /\ total' = total + a.size /\ total' <= Budget
          /\ step' = "read" /\ left' = left \ {f}
      BY <1>1, <1>3 DEF Fits, Take
    <2>2. a.source = "filesystem" /\ a.path = f
      OBVIOUS
    <2>3. a.size \in Nat
      BY ContextAssumption DEF TypeInv
    <2> HIDE DEF a
    <2>4. a \notin pack
      BY <1>1, <2>2
    <2>5. Sized(pack') /\ total' = Bytes(pack')
      BY <2>1, <2>3, <2>4, Counted
    <2>6. \A b \in pack' : b.source = "filesystem" => b.path \notin left'
      BY <1>1, <2>1, <2>2
    <2>7. QED
      BY <2>1, <2>5, <2>6
  <1>4. QED
    BY <1>1, <1>2, <1>3 DEF ReadFile, Omit, OmitOrRefuse, Refuse, read

LEMMA BudgetInductive == Inv /\ [Next]_vars => BudgetInv'
  <1> SUFFICES ASSUME Inv, [Next]_vars PROVE BudgetInv'
    OBVIOUS
  <1>1. CASE BuildStep /\ UNCHANGED pipeline
    <2>1. Budget' = Budget
      BY <1>1, BuildFrame DEF Budget, request
    <2>2. CASE CollectIncluded \/ CollectRequirement
      <3>1. /\ UNCHANGED <<pack, total>> /\ step' \notin {"artifacts", "diff", "read", "built"}
            /\ step \in {"include", "require"}
        BY <2>2 DEF CollectIncluded, CollectRequirement, Refuse, Goto, read
      <3>2. QED
        BY <3>1 DEF Inv, BudgetInv
    <2>3. CASE LoopEnds
      BY <2>3 DEF Inv, BudgetInv, LoopEnds, Goto, read
    <2>4. CASE Validate
      BY <2>1, <2>4 DEF Inv, BudgetInv, Validate, read
    <2>5. ASSUME NEW f \in Files, NEW new \in FileStates, Edit(f, new) PROVE BudgetInv'
      BY <2>1, <2>5 DEF Inv, BudgetInv, Edit, read
    <2>6. QED
      BY <1>1, <2>1, <2>2, <2>3, <2>4, <2>5, InlineCounted, DiffCounted, FileCounted DEF BuildStep
  <1>2. CASE UNCHANGED buildVars
    BY <1>2 DEF Inv, BudgetInv, buildVars, Budget, request
  <1>3. CASE Next /\ ~(BuildStep /\ UNCHANGED pipeline) /\ ~UNCHANGED buildVars
    BY <1>3, StagesKeepBuild DEF Inv, BudgetInv
  <1>4. QED
    BY <1>1, <1>2, <1>3 DEF vars

LEMMA StageInductive == Inv /\ [Next]_vars => StageInv'
  <1> SUFFICES ASSUME Inv, [Next]_vars PROVE StageInv'
    OBVIOUS
  <1> USE DEF Inv, StageInv
  <1>1. CASE BuildStep /\ UNCHANGED pipeline
    <2>1. step # "built" /\ UNCHANGED task
      BY <1>1, BuildFrame
    <2>2. stage \notin {"reporting", "complete"}
      BY <2>1
    <2>3. QED
      BY <1>1, <2>1, <2>2, BuildFrame DEF pipeline
  <1>2. ASSUME NEW req \in RawRequests, Classify(req) PROVE StageInv'
    BY <1>2 DEF Classify, buildVars
  <1>3. ASSUME NEW m \in Manifests, Plan(m) PROVE StageInv'
    BY <1>3 DEF TypeInv, Plan, Start, Goto, buildVars
  <1>4. CASE Built
    BY <1>4 DEF Built, buildVars
  <1>5. ASSUME NEW report \in Reports, Report(report) PROVE StageInv'
    BY <1>5 DEF Report, buildVars
  <1>6. CASE UNCHANGED vars
    BY <1>6 DEF vars, pipeline, buildVars
  <1>7. QED
    BY <1>1, <1>2, <1>3, <1>4, <1>5, <1>6 DEF Next

LEMMA InvInitial == Init => Inv
  <1> SUFFICES ASSUME Init PROVE Inv
    OBVIOUS
  <1>1. TypeInv /\ ReadInv /\ OrderInv /\ IsolationInv /\ StageInv
    BY ContextAssumption
    DEF Init, BuildInit, TypeInv, ReadInv, OrderInv, IsolationInv, StageInv, NotCandidate, Collecting
  <1>2. BudgetInv
    BY BytesEmpty, FS_EmptySet DEF Init, BuildInit, BudgetInv, Sized
  <1>3. QED
    BY <1>1, <1>2 DEF Inv

LEMMA InvInductive == Inv /\ [Next]_vars => Inv'
  BY BudgetInductive, TypeInductive, ReadInductive, OrderInductive, IsolationInductive, StageInductive DEF Inv

LEMMA TypesInductive == Inv /\ BuildTypeOK /\ [Next]_vars => BuildTypeOK'
  <1> SUFFICES ASSUME Inv, Inv', BuildTypeOK, [Next]_vars PROVE BuildTypeOK'
    BY InvInductive
  <1>1. /\ repo' \in [Files -> FileStates] /\ item' \in Nat /\ total' \in Nat
        /\ rank' \in [Files -> Ranks \cup {NotCandidate}]
    <2>1. Ranks \cup {NotCandidate} = 0 .. 5
      BY DEF Ranks, NotCandidate
    <2>2. total' \in Nat
      BY BytesIsFold DEF Inv, BudgetInv
    <2>3. QED
      BY <2>1, <2>2 DEF Inv, TypeInv
  <1>2. CASE BuildStep /\ UNCHANGED pipeline
    <2>1. edits' \in Nat
      BY <1>2
      DEF BuildTypeOK, BuildStep, CollectIncluded, CollectRequirement, TakeArtifact, LoopEnds, TakeDiff, ReadFile,
          Omit, OmitOrRefuse, Take, Validate, Edit, Refuse
    <2>2. step' \in {"idle", "include", "require", "artifacts", "diff", "read",
                     "built", "unsafe", "too-large", "unsatisfied"}
      BY <1>2
      DEF BuildTypeOK, BuildStep, CollectIncluded, CollectRequirement, TakeArtifact, LoopEnds, TakeDiff, ReadFile,
          Omit, OmitOrRefuse, Take, Validate, Edit, Refuse, Goto
    <2>3. left' \subseteq Files
      BY <1>2
      DEF BuildTypeOK, BuildStep, CollectIncluded, CollectRequirement, TakeArtifact, LoopEnds, TakeDiff, ReadFile,
          Omit, OmitOrRefuse, Take, Validate, Edit, Refuse, Goto, read
    <2> DEFINE Reasons == {"independence", "unreadable", "oversize", "binary", "non-utf8", "budget"}
    <2>4. omitted' \subseteq [file : Files \cup {None}, why : Reasons]
      <3>1. ASSUME NEW f \in Files, ReadFile(f) PROVE omitted' \subseteq [file : Files \cup {None}, why : Reasons]
        <4>1. repo[f].kind \in Kinds
          BY ContextAssumption DEF Inv, TypeInv
        <4>2. UNCHANGED omitted \/ \E why \in Reasons : omitted' = omitted \cup {[file |-> f, why |-> why]}
          BY <3>1, <4>1 DEF ReadFile, Omit, OmitOrRefuse, Refuse, Take, Kinds, read
        <4>3. QED
          BY <4>2 DEF BuildTypeOK
      <3>2. CASE ~\E f \in Files : ReadFile(f)
        <4>1. omitted' \subseteq omitted \cup {[file |-> None, why |-> "independence"]}
          BY <1>2, <3>2
          DEF BuildStep, CollectIncluded, CollectRequirement, TakeArtifact, LoopEnds, TakeDiff, Validate, Edit,
              Refuse, read
        <4>2. QED
          BY <4>1 DEF BuildTypeOK
      <3>3. QED
        BY <3>1, <3>2
    <2>5. pack' \subseteq Artifact
      <3>1. CASE TakeArtifact
        <4>1. CASE pack' = pack
          BY <4>1 DEF BuildTypeOK
        <4>2. CASE pack' # pack
          <5> DEFINE spec == request.artifacts[item]
          <5>1. /\ spec.inline # None /\ step = "artifacts"
                /\ pack' = pack \cup {[source |-> "inline", path |-> spec.path, place |-> item,
                                       size |-> spec.inline.size, hit |-> spec.inline.hit]}
            BY <3>1, <4>2 DEF TakeArtifact, Refuse, read
          <5>2. spec \in ArtifactSpec /\ item \in Nat
            <6>1. request.artifacts \in Seq(ArtifactSpec) /\ item \in Nat \ {0}
              BY <5>1, PipelineAssumption DEF request, Inv, TypeInv
            <6>2. item <= Len(request.artifacts)
              BY <3>1 DEF TakeArtifact
            <6>3. QED
              BY <6>1, <6>2
          <5>3. spec.path \in Names /\ spec.inline \in [size : Nat, hit : BOOLEAN]
            BY <5>1, <5>2 DEF ArtifactSpec
          <5>4. QED
            BY <5>1, <5>2, <5>3 DEF Artifact, BuildTypeOK
        <4>3. QED
          BY <4>1, <4>2
      <3>2. ASSUME NEW diff \in Diffs, TakeDiff(diff) PROVE pack' \subseteq Artifact
        BY <3>2, ContextAssumption DEF TakeDiff, Refuse, read, Artifact, BuildTypeOK
      <3>3. ASSUME NEW f \in Files, ReadFile(f) PROVE pack' \subseteq Artifact
        <4>1. repo[f].size \in Nat /\ repo[f].hit \in BOOLEAN /\ f \in Names
          BY ContextAssumption DEF Inv, TypeInv, Names
        <4>2. \/ UNCHANGED pack
              \/ pack' = pack \cup {[source |-> "filesystem", path |-> f, place |-> 0,
                                     size |-> repo[f].size, hit |-> repo[f].hit]}
          BY <3>3 DEF ReadFile, Omit, OmitOrRefuse, Refuse, Take, read
        <4>3. QED
          BY <4>1, <4>2 DEF Artifact, BuildTypeOK
      <3>4. CASE CollectIncluded \/ CollectRequirement \/ LoopEnds \/ Validate
                 \/ \E f \in Files, new \in FileStates : Edit(f, new)
        BY <3>4 DEF CollectIncluded, CollectRequirement, LoopEnds, Validate, Edit, Refuse, read, BuildTypeOK
      <3>5. QED
        BY <1>2, <3>1, <3>2, <3>3, <3>4 DEF BuildStep
    <2>6. QED
      BY <1>1, <2>1, <2>2, <2>3, <2>4, <2>5 DEF BuildTypeOK
  <1>3. CASE UNCHANGED buildVars
    BY <1>3 DEF BuildTypeOK, buildVars
  <1>4. CASE Next /\ ~(BuildStep /\ UNCHANGED pipeline) /\ ~UNCHANGED buildVars
    BY <1>4, StagesKeepBuild DEF BuildTypeOK
  <1>5. QED
    BY <1>2, <1>3, <1>4 DEF vars

-----------------------------------------------------------------------------
(* The theorems.                                                           *)

\* The variables of a build have the types they are declared with.
THEOREM ContextTypeCorrect == Spec => []BuildTypeOK
  <1>1. Init => BuildTypeOK
    BY ContextAssumption DEF Init, BuildInit, BuildTypeOK, Ranks, NotCandidate
  <1>2. QED
    BY <1>1, InvInitial, InvInductive, TypesInductive, PTL DEF Spec

\* The bytes of a pack are within the budget, and are as many as it says.
THEOREM BudgetIsKept == Spec => []WithinBudget
  <1>1. Inv => WithinBudget
    BY DEF Inv, BudgetInv, WithinBudget
  <1>2. QED
    BY <1>1, InvInitial, InvInductive, PTL DEF Spec

\* No length and no budget drops a P0 file from a pack that is handed out.
THEOREM MandatoryIsKept == Spec => []MandatoryKept
  <1>1. Inv => MandatoryKept
    BY DEF Inv, ReadInv, InPack, MandatoryKept
  <1>2. QED
    BY <1>1, InvInitial, InvInductive, PTL DEF Spec

\* An independent design gets no diff, no inline candidate solution, and no
\* file that was not asked for under some name other than a candidate's.  The
\* code tests names: the content of a candidate that is asked for under
\* another name of its file is not kept out.
THEOREM DesignsAreIsolated == Spec => []Isolated
  <1>1. Inv => Isolated
    <2> SUFFICES ASSUME Inv, step = "built", request.mode = "design" PROVE Isolated
      BY DEF Isolated
    <2>1. /\ \A a \in pack : a.source # "git-diff"
          /\ \A a \in pack : a.source = "inline" => request.artifacts[a.place].role # "candidate-solution"
          /\ \A a \in pack : a.source = "filesystem" => \E n \in Asked \ Hidden : Leads(n, a.path)
      BY DEF Inv, IsolationInv, Named
    <2>2. ASSUME NEW n \in Disclosed(request)
          PROVE  \E i \in DOMAIN request.artifacts :
                    request.artifacts[i].path = n /\ request.artifacts[i].role # "candidate-solution"
      BY <2>2 DEF Disclosed, Range
    <2>3. QED
      BY <2>1, <2>2 DEF Isolated
  <1>2. QED
    BY <1>1, InvInitial, InvInductive, PTL DEF Spec

\* A report that is returned accounts for the route and the manifest.
THEOREM ReportsAccount == Spec => []Accountable
  <1>1. Inv => Accountable
    <2> SUFFICES ASSUME Inv, stage = "complete" PROVE Accountable
      BY DEF Accountable
    <2>1. step = "built" /\ route = Route(asked) /\ ValidReport(Id, asked, route, task.manifest, answer)
      BY DEF Inv, StageInv
    <2>2. answer.request = Id /\ route.sections \subseteq answer.sections
      BY <2>1 DEF ValidReport, Accounts
    <2>3. /\ Skills[route.skill].sections \subseteq route.sections
          /\ asked.workflow # NoName => Workflows[asked.workflow].sections \subseteq route.sections
      BY <2>1 DEF Route
    <2>4. ASSUME NEW t \in task.manifest.tasks
          PROVE  \E entry \in answer.trace :
                    entry.task = t /\ (entry.status = "completed" => entry.urls \cap answer.sources # {})
      <3>1. PICK entry \in answer.trace : entry.task = t
        BY <2>1 DEF ValidReport, Accounts
      <3>2. entry.urls \subseteq answer.sources /\ (entry.status = "completed" => entry.urls # {})
        BY <2>1 DEF ValidReport, Accounts, WellFormed
      <3>3. QED
        BY <3>1, <3>2
    <2>5. ASSUME NEW e \in task.manifest.evidence
          PROVE  \E c \in answer.coverage : c.requirement = e /\ (c.status = "satisfied" => c.evidence)
      BY <2>1 DEF ValidReport, Accounts, WellFormed
    <2>6. QED
      BY <2>1, <2>2, <2>3, <2>4, <2>5 DEF Accountable
  <1>2. QED
    BY <1>1, InvInitial, InvInductive, PTL DEF Spec

\* A report that claims nothing: each task is blocked, each piece of evidence
\* is missing.
Sober(req, m) ==
    [request |-> Id, mode |-> req.mode, verdict |-> "insufficient", sections |-> Route(req).sections,
     deliverables |-> TRUE, plan |-> TRUE, findings |-> {},
     hypotheses |-> {[confident |-> FALSE, nextTest |-> TRUE]},
     options |-> <<[name |-> "a", guidance |-> TRUE], [name |-> "b", guidance |-> TRUE]>>,
     trace |-> {[task |-> t, status |-> "blocked", urls |-> {}] : t \in m.tasks}, sources |-> {},
     coverage |-> {[requirement |-> e, status |-> "missing", evidence |-> FALSE] : e \in m.evidence}]

\* The rules ask for nothing that contradicts: where the manifest was accepted,
\* a report that claims nothing is.  In the verify mode it owes coverage, which
\* is there to give only because a manifest without evidence was refused.
LEMMA SoberIsValid ==
    ASSUME NEW req, NEW m, ValidManifest(m, Route(req))
    PROVE  ValidReport(Id, req, Route(req), m, Sober(req, m))
  <1> DEFINE report == Sober(req, m)
  <1>1. /\ report.request = Id /\ report.mode = req.mode /\ report.verdict = "insufficient"
        /\ report.sections = Route(req).sections /\ report.deliverables /\ report.plan
        /\ report.findings = {} /\ report.hypotheses = {[confident |-> FALSE, nextTest |-> TRUE]}
        /\ report.options = <<[name |-> "a", guidance |-> TRUE], [name |-> "b", guidance |-> TRUE]>>
        /\ report.trace = {[task |-> t, status |-> "blocked", urls |-> {}] : t \in m.tasks}
        /\ report.sources = {}
        /\ report.coverage = {[requirement |-> e, status |-> "missing", evidence |-> FALSE] : e \in m.evidence}
    BY DEF Sober
  <1>2. req.mode = "verify" => m.evidence # {}
    BY DEF ValidManifest, Route
  <1> HIDE DEF report
  <1>3. WellFormed(report)
    BY <1>1 DEF WellFormed
  <1>4. ModeContract(report)
    <2>1. Len(report.options) = 2 /\ \A i \in DOMAIN report.options : report.options[i].guidance
      BY <1>1
    <2>2. \A i, j \in DOMAIN report.options : report.options[i].name = report.options[j].name => i = j
      BY <1>1
    <2>3. report.hypotheses # {} /\ (req.mode = "verify" => report.coverage # {})
      BY <1>1, <1>2
    <2>4. QED
      BY <1>1, <2>1, <2>2, <2>3 DEF ModeContract
  <1>5. Accounts(Id, req, Route(req), m, report)
    <2>1. m.tasks \subseteq {t.task : t \in report.trace}
      <3>1. ASSUME NEW t \in m.tasks PROVE \E entry \in report.trace : entry.task = t
        <4>1. [task |-> t, status |-> "blocked", urls |-> {}] \in report.trace
          BY <1>1
        <4>2. QED
          BY <4>1
      <3>2. QED
        BY <3>1
    <2>2. m.evidence \subseteq {c.requirement : c \in report.coverage}
      <3>1. ASSUME NEW e \in m.evidence PROVE \E c \in report.coverage : c.requirement = e
        <4>1. [requirement |-> e, status |-> "missing", evidence |-> FALSE] \in report.coverage
          BY <1>1
        <4>2. QED
          BY <4>1
      <3>2. QED
        BY <3>1
    <2>3. \A t \in report.trace : t.urls = {}
      BY <1>1
    <2>4. UNION {t.urls : t \in report.trace} \subseteq report.sources
      BY <2>3
    <2>5. report.options # << >>
      BY <1>1
    <2>6. QED
      BY <1>1, <2>1, <2>2, <2>4, <2>5 DEF Accounts
  <1>6. QED
    BY <1>3, <1>4, <1>5 DEF ValidReport, report

\* If the final model is free to answer a report that claims nothing, then
\* whenever it is asked there is a report that would be accepted.
THEOREM AnswersExist ==
    ASSUME \A req \in RawRequests, m \in Manifests : Sober(req, m) \in Reports
    PROVE  Spec => []Answerable
  <1>1. Inv => Answerable
    <2> SUFFICES ASSUME Inv, stage = "reporting"
                 PROVE  \E report \in Reports : ValidReport(Id, asked, route, task.manifest, report)
      BY DEF Answerable
    <2>1. /\ asked \in RawRequests /\ task.manifest \in Manifests
          /\ route = Route(asked) /\ ValidManifest(task.manifest, route)
      BY DEF Inv, TypeInv, StageInv
    <2>2. ValidReport(Id, asked, route, task.manifest, Sober(asked, task.manifest))
      BY <2>1, SoberIsValid
    <2>3. QED
      BY <2>1, <2>2
  <1>2. QED
    BY <1>1, InvInitial, InvInductive, PTL DEF Spec

\* A file is left out for the budget only when the files read before it are
\* of its own priority or a better one.
THEOREM PriorityIsRespected == Spec => PriorityRespected
  <1> DEFINE Respected ==
        \A f \in Files : [file |-> f, why |-> "budget"] \in omitted' \ omitted
            => \A a \in pack : a.source = "filesystem" => rank[a.path] <= rank[f]
  <1>1. ASSUME Inv, [Next]_vars PROVE [Respected]_buildVars
    <2> SUFFICES ASSUME NEW f \in Files, [file |-> f, why |-> "budget"] \in omitted' \ omitted,
                        NEW a \in pack, a.source = "filesystem"
                 PROVE  rank[a.path] <= rank[f]
      OBVIOUS
    <2>1. BuildStep
      BY <1>1, StagesKeepBuild DEF vars, buildVars
    <2>2. ~(\E g \in Files, new \in FileStates : Edit(g, new)) /\ ~Validate /\ ~LoopEnds /\ ~CollectRequirement
          /\ ~(\E diff \in Diffs : TakeDiff(diff))
      BY DEF Edit, Validate, LoopEnds, CollectRequirement, TakeDiff, Refuse, read
    <2>3. ~CollectIncluded /\ ~TakeArtifact
      BY DEF CollectIncluded, TakeArtifact, Refuse, read
    <2>4. PICK g \in Files : ReadFile(g)
      BY <2>1, <2>2, <2>3 DEF BuildStep
    <2>5. step = "read" /\ g \in left /\ g = f
      BY <2>4 DEF ReadFile, Omit, OmitOrRefuse, Take, Refuse, read
    <2>6. a.path \in Files /\ Before(a.path, f)
      BY <1>1, <2>5 DEF Inv, OrderInv
    <2>7. rank[a.path] \in 0 .. 5 /\ rank[f] \in 0 .. 5
      BY <1>1, <2>6 DEF Inv, TypeInv
    <2>8. QED
      BY <2>6, <2>7 DEF Before
  <1>2. QED
    BY <1>1, InvInitial, InvInductive, PTL DEF Spec, PriorityRespected

=============================================================================
