--------------------------- MODULE MCConversations ---------------------------
(***************************************************************************)
(* Conversations for TLC: two clients, two repositories whose requests may *)
(* name the same session, and every policy.                                *)
(***************************************************************************)
EXTENDS Conversations, TLC

CONSTANTS s1, s2, rootA, rootB

\* A request with the defaults of RawRequest.
Plain(root, policy) ==
    [session_id |-> None, repo_root |-> root, policy |-> policy,
     chat_id |-> None, conversation_id |-> None]

\* s1 is the default session of rootA; s2 is not a default one.
Default == [r \in Roots |-> s1]

\* Two repositories name session s2: one with every policy, one with
\* a chat named; and requests in a default session that bring conversations of their own.
SharedSessionInputs ==
    {[Plain(rootA, policy) EXCEPT !.session_id = s2] : policy \in Policies}
    \cup {[Plain(rootB, "continue") EXCEPT !.session_id = s2, !.chat_id = c] :
            c \in Chats}
    \cup {[Plain(rootA, "continue") EXCEPT !.conversation_id = v] : v \in Conversations}

Symmetry == Permutations(Chats) \cup Permutations(Clients) \cup Permutations(Conversations)

=============================================================================
