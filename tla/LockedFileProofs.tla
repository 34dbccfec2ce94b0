--------------------------- MODULE LockedFileProofs ---------------------------
(***************************************************************************)
(* For every number of threads and processes: a section of the stores is   *)
(* one atomic update of its record (SectionsAreAtomic).                    *)
(***************************************************************************)
EXTENDS LockedFile, TLAPS

\* The inductive invariant.  Exclusion gives that only one thread writes the
\* record and the temporary file of its process; SectionSeesRecord that what
\* it is about to write contains the record.
Inv == TypeOK /\ Exclusion /\ SectionSeesRecord /\ NeverTorn

LEMMA InvInductive ==
    /\ Init => Inv
    /\ Inv /\ [Next]_vars => Inv'
  <1>1. Init => Inv
    BY DEF Init, Inv, TypeOK, Exclusion, SectionSeesRecord, NeverTorn, Labels,
           Critical, Content, Whole, Torn
  <1>2. ASSUME Inv, [Next]_vars PROVE Inv'
    <2> USE <1>2, LockedFileAssumption DEF Inv, Goto
    <2>1. ASSUME NEW t \in Threads, Start(t) PROVE Inv'
      BY <2>1 DEF Start, TypeOK, Exclusion, SectionSeesRecord, NeverTorn, Labels, Critical
    <2>2. ASSUME NEW t \in Threads, Acquire(t) PROVE Inv'
      <3>1. \A u \in Threads : pc[u] \notin Critical
        BY <2>2 DEF Acquire, Exclusion
      <3>2. QED
        BY <2>2, <3>1
        DEF Acquire, TypeOK, Exclusion, SectionSeesRecord, NeverTorn, Labels, Critical
    <2>3. ASSUME NEW t \in Threads, Read(t) PROVE Inv'
      <3>1. pc[t] = "read" /\ holder = t
        BY <2>3 DEF Read, Exclusion, Critical
      <3>2. TypeOK'
        BY <2>3 DEF Read, TypeOK, Labels, Content
      <3>3. Exclusion'
        BY <2>3, <3>1 DEF Read, TypeOK, Exclusion, Critical
      <3>4. SectionSeesRecord' /\ NeverTorn'
        BY <2>3, <3>1 DEF Read, TypeOK, Exclusion, SectionSeesRecord, NeverTorn, Critical
      <3>5. QED
        BY <3>2, <3>3, <3>4
    <2>4. ASSUME NEW t \in Threads, OpenTemporary(t) PROVE Inv'
      <3>1. \A u \in Threads : u # t => pc[u] \notin Critical
        BY <2>4 DEF OpenTemporary, Exclusion, Critical
      <3>2. QED
        BY <2>4, <3>1
        DEF OpenTemporary, TypeOK, Exclusion, SectionSeesRecord, NeverTorn, Labels, Critical,
            Content, Torn
    <2>5. ASSUME NEW t \in Threads, WriteTemporary(t) PROVE Inv'
      <3>1. \A u \in Threads : u # t => pc[u] \notin Critical
        BY <2>5 DEF WriteTemporary, Exclusion, Critical
      <3>2. Whole(seen[t] \cup {t}) \in Content
        BY DEF TypeOK, Whole, Content
      <3>3. tmp'[Pid[t]] = Whole(seen[t] \cup {t}) /\ seen[t] = file.updates
        BY <2>5 DEF WriteTemporary, TypeOK, SectionSeesRecord
      <3>4. TypeOK'
        BY <2>5, <3>2 DEF WriteTemporary, TypeOK, Labels
      <3>5. Exclusion' /\ NeverTorn'
        BY <2>5 DEF WriteTemporary, TypeOK, Exclusion, NeverTorn, Critical
      <3>6. SectionSeesRecord'
        BY <2>5, <3>1, <3>3 DEF WriteTemporary, TypeOK, SectionSeesRecord, Critical
      <3>7. QED
        BY <3>4, <3>5, <3>6
    <2>6. ASSUME NEW t \in Threads, Replace(t) PROVE Inv'
      <3>1. \A u \in Threads : u # t => pc[u] \notin Critical
        BY <2>6 DEF Replace, Exclusion, Critical
      <3>2. file'.whole
        <4>1. file' = Whole(file.updates \cup {t})
          BY <2>6 DEF Replace, SectionSeesRecord
        <4>2. Whole(file.updates \cup {t}).whole = TRUE
          BY DEF Whole
        <4>3. file'.whole = TRUE
          BY <4>1, <4>2
        <4>4. QED
          BY <4>3
      <3>3. TypeOK'
        BY <2>6 DEF Replace, TypeOK, Labels, Content, Torn
      <3>4. QED
        BY <2>6, <3>1, <3>2, <3>3
        DEF Replace, TypeOK, Exclusion, SectionSeesRecord, NeverTorn, Critical
    <2>7. ASSUME NEW t \in Threads, Unlock(t) PROVE Inv'
      <3>1. \A u \in Threads : u # t => pc[u] \notin Critical
        BY <2>7 DEF Unlock, Exclusion, Critical
      <3>2. QED
        BY <2>7, <3>1
        DEF Unlock, TypeOK, Exclusion, SectionSeesRecord, NeverTorn, Labels, Critical
    <2>8. ASSUME NEW i \in Pids, Die(i) PROVE Inv'
      <3>1. TypeOK'
        BY <2>8 DEF Die, TypeOK, Labels
      <3>2. \A u \in Threads : pc'[u] \in Critical => pc'[u] = pc[u] /\ holder' = u
        BY <2>8 DEF Die, TypeOK, Exclusion, Critical
      <3>3. Exclusion' /\ SectionSeesRecord' /\ NeverTorn'
        BY <2>8, <3>2 DEF Die, Exclusion, SectionSeesRecord, NeverTorn, Critical
      <3>4. QED
        BY <3>1, <3>3
    <2>9. CASE UNCHANGED vars
      BY <2>9 DEF vars, TypeOK, Exclusion, SectionSeesRecord, NeverTorn
    <2>10. QED
      BY <2>1, <2>2, <2>3, <2>4, <2>5, <2>6, <2>7, <2>8, <2>9 DEF Next, Step
  <1>3. QED
    BY <1>1, <1>2

-----------------------------------------------------------------------------
\* Type correctness.
THEOREM TypeCorrect == Spec => []TypeOK
  <1>1. Inv => TypeOK
    BY DEF Inv
  <1>2. QED
    BY <1>1, InvInductive, PTL DEF Spec

\* Sections of one record exclude each other, across threads and processes
\* and through crashes, and readers without the lock see whole records.
THEOREM SectionsExclude == Spec => [](Exclusion /\ SectionSeesRecord /\ NeverTorn)
  <1>1. Inv => Exclusion /\ SectionSeesRecord /\ NeverTorn
    BY DEF Inv
  <1>2. QED
    BY <1>1, InvInductive, PTL DEF Spec

\* The sections implement atomic updates: no update is lost.
THEOREM SectionsAreAtomic == Spec => Implements
  <1>1. Init => Atomic!Init
    BY DEF Init, Atomic!Init, Whole
  <1>2. Inv /\ [Next]_vars => [Atomic!Next]_(file.updates)
    <2> SUFFICES ASSUME Inv, [Next]_vars, UNCHANGED file => FALSE
                 PROVE  Atomic!Next
      OBVIOUS
    <2>1. PICK t \in Threads : Replace(t)
      BY DEF Next, Step, vars, Start, Acquire, Read, OpenTemporary, WriteTemporary, Unlock, Die
    <2>2. file' = Whole(file.updates \cup {t})
      BY <2>1 DEF Inv, SectionSeesRecord, Replace, Goto
    <2>3. file'.updates = file.updates \cup {t}
      BY <2>2 DEF Whole
    <2>4. QED
      BY <2>3 DEF Atomic!Next, Atomic!Update
  <1>3. QED
    BY <1>1, <1>2, InvInductive, PTL DEF Spec, Implements, Atomic!Spec

=============================================================================
