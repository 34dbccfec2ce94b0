----------------------------- MODULE LockedFile -----------------------------
(***************************************************************************)
(* One section of RequestStore or SessionStore, instruction by instruction *)
(* (exclusive_file_lock in file_lock.py, _atomic_write in store.py): take  *)
(* flock on a handle of one's own, read the record, write a temporary file *)
(* named after the process id, rename it over the record, unlock.          *)
(* Threads of one process share the temporary file's name; processes may   *)
(* die at any instruction, with all their threads; list_statuses and       *)
(* list_sessions read the record without the lock.                         *)
(*                                                                         *)
(* The record's content is the set of threads whose update is in it.  The  *)
(* modules of the stores take each section as one step: this is why.       *)
(***************************************************************************)

CONSTANTS
    Threads,
    Pids,
    Pid,    \* Pid[t]: process of thread t
    None

VARIABLES
    pc,     \* pc[t]: next instruction of t
    holder, \* thread whose handle has the lock, or None
    file,   \* the record
    tmp,    \* tmp[i]: temporary file of process i
    seen    \* seen[t]: what t read

vars == <<pc, holder, file, tmp, seen>>

ASSUME LockedFileAssumption ==
    /\ Pid \in [Threads -> Pids]
    /\ None \notin Threads

Labels == {"idle", "flock", "read", "open", "write", "replace", "unlock", "done", "dead"}

Critical == {"read", "open", "write", "replace", "unlock"}

\* What a file holds: the updates in it, and whether it was written to its end.
Content == [updates : SUBSET Threads, whole : BOOLEAN]

\* A file just opened for writing (and, as good as it, a file not there).
Torn == [updates |-> {}, whole |-> FALSE]

Whole(updates) == [updates |-> updates, whole |-> TRUE]

TypeOK ==
    /\ pc \in [Threads -> Labels]
    /\ holder \in Threads \cup {None}
    /\ file \in Content
    /\ tmp \in [Pids -> Content]
    /\ seen \in [Threads -> SUBSET Threads]

Init ==
    /\ pc = [t \in Threads |-> "idle"]
    /\ holder = None
    /\ file = Whole({})
    /\ tmp = [i \in Pids |-> Torn]
    /\ seen = [t \in Threads |-> {}]

Goto(t, from, to) == pc[t] = from /\ pc' = [pc EXCEPT ![t] = to]

Start(t) == Goto(t, "idle", "flock") /\ UNCHANGED <<holder, file, tmp, seen>>

\* flock(LOCK_EX) waits for whoever has the lock, in any process.
Acquire(t) ==
    /\ Goto(t, "flock", "read")
    /\ holder = None
    /\ holder' = t
    /\ UNCHANGED <<file, tmp, seen>>

\* The section may find that there is nothing to write, or raise.
Read(t) ==
    /\ Goto(t, "read", "open") \/ Goto(t, "read", "unlock")
    /\ seen' = [seen EXCEPT ![t] = file.updates]
    /\ UNCHANGED <<holder, file, tmp>>

\* Mutant: the record itself is opened for writing.
Mutant_OpenTemporary(t) ==
    /\ Goto(t, "open", "write")
    /\ file' = Torn
    /\ UNCHANGED <<holder, tmp, seen>>

OpenTemporary(t) ==
    /\ Goto(t, "open", "write")
    /\ tmp' = [tmp EXCEPT ![Pid[t]] = Torn]
    /\ UNCHANGED <<holder, file, seen>>

\* Mutant: the record is written from what the caller had read before.
Mutant_WriteTemporary(t) ==
    /\ Goto(t, "write", "replace")
    /\ tmp' = [tmp EXCEPT ![Pid[t]] = Whole({t})]
    /\ UNCHANGED <<holder, file, seen>>

WriteTemporary(t) ==
    /\ Goto(t, "write", "replace")
    /\ tmp' = [tmp EXCEPT ![Pid[t]] = Whole(seen[t] \cup {t})]
    /\ UNCHANGED <<holder, file, seen>>

Replace(t) ==
    /\ Goto(t, "replace", "unlock")
    /\ file' = tmp[Pid[t]]
    /\ tmp' = [tmp EXCEPT ![Pid[t]] = Torn]
    /\ UNCHANGED <<holder, seen>>

\* Mutant: an exception leaves the lock locked.
Mutant_Unlock(t) ==
    /\ Goto(t, "unlock", "done")
    /\ holder' = IF t \in file.updates THEN None ELSE holder
    /\ UNCHANGED <<file, tmp, seen>>

Unlock(t) ==
    /\ Goto(t, "unlock", "done")
    /\ holder' = None
    /\ UNCHANGED <<file, tmp, seen>>

\* The process dies: the operating system drops the locks of its handles,
\* its temporary file stays.
Die(i) ==
    /\ pc' = [t \in Threads |-> IF Pid[t] = i /\ pc[t] # "done" THEN "dead" ELSE pc[t]]
    /\ holder' = IF holder # None /\ Pid[holder] = i THEN None ELSE holder
    /\ UNCHANGED <<file, tmp, seen>>

Step(t) ==
    \/ Start(t) \/ Acquire(t) \/ Read(t) \/ OpenTemporary(t) \/ WriteTemporary(t)
    \/ Replace(t) \/ Unlock(t)

Next == (\E t \in Threads : Step(t)) \/ (\E i \in Pids : Die(i))

Spec == Init /\ [][Next]_vars

FairSpec == Spec /\ \A t \in Threads : WF_vars(Step(t))

-----------------------------------------------------------------------------
(* Properties.                                                             *)

\* Who is between flock and unlock has the lock.
Exclusion == \A t \in Threads : pc[t] \in Critical => holder = t

\* While a thread has the lock the record is what it read, and the temporary
\* file it is about to rename is its own update, complete, although other
\* threads of the process use the same name.
SectionSeesRecord ==
    \A t \in Threads :
        /\ pc[t] \in {"open", "write", "replace"} => seen[t] = file.updates
        /\ pc[t] = "replace" => tmp[Pid[t]] = Whole(file.updates \cup {t})

\* Readers without the lock never find a half-written record.
NeverTorn == file.whole

\* No update is lost, torn or made to stale content: the stores' sections
\* implement atomic updates of the record.
Atomic == INSTANCE AtomicFile WITH file <- file.updates

Implements == Atomic!Spec

\* Every section ends, unless its process dies: no death and no exception
\* leaves the lock locked.
SectionsEnd == \A t \in Threads : pc[t] = "flock" ~> pc[t] \in {"done", "dead"}

=============================================================================
