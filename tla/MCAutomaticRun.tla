--------------------------- MODULE MCAutomaticRun ---------------------------
(***************************************************************************)
(* AutomaticRun for TLC: runs that meet in the default session of one      *)
(* repository.                                                             *)
(***************************************************************************)
EXTENDS AutomaticRun, TLC

CONSTANTS s1, rootA, v1, v2

Plain(policy) ==
    [session_id |-> None, repo_root |-> rootA, policy |-> policy,
     chat_id |-> None, conversation_id |-> None]

Default == [r \in Roots |-> s1]

\* Every policy, and chats named by id; conversations come from the provider.
PolicyInputs ==
    {Plain(policy) : policy \in Policies}
    \cup {[Plain("continue") EXCEPT !.chat_id = c] : c \in Chats}

\* All runs want the active chat.
ContinueInputs == {Plain("continue")}

Symmetry == Permutations(Chats) \cup Permutations(Clients)
RunSymmetry == Symmetry \cup Permutations(Conversations)

=============================================================================
