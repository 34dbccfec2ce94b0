---------------------------- MODULE AutomaticRun ----------------------------
(***************************************************************************)
(* ReviewEngine.run_automatic (engine.py) with everything it calls: the    *)
(* resolution of Conversations, the status file of RequestStore, the       *)
(* chat's operation lock, the provider (web_automation.py) and its         *)
(* progress pollers.                                                       *)
(*                                                                         *)
(* A client of Conversations that is resolved goes on as a run; its name   *)
(* is also its request id.  pc is where it stands; bound is the            *)
(* conversation its final turn names (final_request.metadata), None for a  *)
(* fresh one.  Runs are threads of MCP servers and CLI processes that      *)
(* share the work directory: any of them may die at any step, the          *)
(* operating system then releases its lock, and nobody takes over.         *)
(*                                                                         *)
(* The model behind the provider is external: a turn answers with some     *)
(* conversation, or fails (error, timeout, lost tunnel).                   *)
(***************************************************************************)
EXTENDS Conversations

CONSTANT Pollers  \* runs whose tunnel reports progress (extension tunnels)

VARIABLES
    status,  \* status.json of each request (RequestStore)
    result,  \* result[p]: final-result.json of p was written
    holder,  \* holder[c]: the run that has the operation lock of chat c
    answer,  \* answer[p]: conversation_id of the final response
    opened,  \* provider side: the conversations that exist
    polled   \* polled[p]: turns of which a poller has text not yet stored

INSTANCE RequestStore

engineVars == <<status, result, holder, answer, opened, polled>>
runVars == <<session, chat, pc, input, target, bound, stale,
             status, result, holder, answer, opened, polled>>

ASSUME RunsAssumption == Clients \subseteq Requests /\ Pollers \subseteq Clients
ASSUME NoneIsNoRun == None \notin Clients /\ None \notin StatusRecord

\* Steps under the chat's operation lock (engine.py:276-311).
LockedLabels == {"reread", "final", "bind-read", "bind-write", "update",
                 "report", "complete", "unlock", "unlock-fail"}

RunLabels ==
    {"attach", "start", "provider", "planner", "plan", "lock", "failing", "done"}
    \cup LockedLabels

RunTypeOK ==
    /\ StoreTypeOK
    /\ pc \in [Clients -> ResolveLabels \cup RunLabels]
    /\ input \in [Clients -> Inputs \cup {None}]
    /\ target \in [Clients -> Chats \cup {None}]
    /\ bound \in [Clients -> Conversations \cup {None}]
    /\ stale \in [Clients -> BOOLEAN]
    /\ StatusTypeOK
    /\ result \in [Clients -> BOOLEAN]
    /\ holder \in [Chats -> Clients \cup {None}]
    /\ answer \in [Clients -> Conversations \cup {None}]
    /\ opened \subseteq Conversations
    /\ polled \in [Clients -> SUBSET Stages]

RunInit ==
    /\ ConvInit
    /\ StatusInit
    /\ result = [p \in Clients |-> FALSE]
    /\ holder = [c \in Chats |-> None]
    /\ answer = [p \in Clients |-> None]
    /\ opened = {in.conversation_id : in \in Inputs} \ {None}
    /\ polled = [p \in Clients |-> {}]

\* p goes from one label to another, its other local variables kept.
Step(p, from, to) ==
    /\ pc[p] = from
    /\ Goto(p, to)
    /\ UNCHANGED <<input, target, stale>>

-----------------------------------------------------------------------------
(* _new_request                                                            *)

NewRequest(p) ==
    /\ Step(p, "resolved", "attach")
    /\ CreateStatus(p, target[p])
    /\ UNCHANGED <<storeVars, bound, result, holder, answer, opened, polled>>

\* Mutant: the request is listed by no chat.
Mutant_Attach(p) ==
    /\ Step(p, "attach", "start")
    /\ UNCHANGED <<storeVars, bound, engineVars>>

Attach(p) ==
    /\ Step(p, "attach", "start")
    /\ IF target[p] = None
       THEN UNCHANGED storeVars
       ELSE AppendRequest(SessionOf(input[p]), target[p], p)
    /\ UNCHANGED <<bound, engineVars>>

-----------------------------------------------------------------------------
(* The planner turn, always in a temporary conversation.                   *)

StartPlanner(p) ==
    /\ Step(p, "start", "provider")
    /\ Transition(p, "new", "running-planner")
    /\ UNCHANGED <<storeVars, bound, result, holder, answer, opened, polled>>

\* provider.start, then the planner turn; both may raise.
StartProvider(p) ==
    /\ \E to \in {"planner", "failing"} : Step(p, "provider", to)
    /\ UNCHANGED <<storeVars, bound, engineVars>>

PlannerTurn(p) ==
    /\ \E to \in {"plan", "failing"} : Step(p, "planner", to)
    /\ UNCHANGED <<storeVars, bound, engineVars>>

\* The manifest is valid and the context fits, or not.
Plan(p) ==
    /\ \/ /\ Step(p, "plan", "lock")
          /\ Transition(p, "running-planner", "running-final")
       \/ Step(p, "plan", "failing") /\ UNCHANGED status
    /\ UNCHANGED <<storeVars, bound, result, holder, answer, opened, polled>>

-----------------------------------------------------------------------------
(* The final turn, under the operation lock of the chat.                   *)

\* Mutant: the lock is never waited for.
Mutant_AcquireChat(p) ==
    /\ Step(p, "lock", "reread")
    /\ IF target[p] = None
       THEN UNCHANGED holder
       ELSE holder' = [holder EXCEPT ![target[p]] = p]
    /\ UNCHANGED <<storeVars, bound, status, result, answer, opened, polled>>

\* chat_operation_lock; a temporary request has no chat and no lock.
AcquireChat(p) ==
    /\ Step(p, "lock", "reread")
    /\ IF target[p] = None
       THEN UNCHANGED holder
       ELSE /\ holder[target[p]] = None
            /\ holder' = [holder EXCEPT ![target[p]] = p]
    /\ UNCHANGED <<storeVars, bound, status, result, answer, opened, polled>>

\* Mutant: the conversation known when the request was resolved is used.
Mutant_Reread(p) ==
    /\ Step(p, "reread", "final")
    /\ UNCHANGED <<storeVars, bound, engineVars>>

\* The run that had the lock may have recorded a conversation since.
Reread(p) ==
    /\ Step(p, "reread", "final")
    /\ bound' = [bound EXCEPT ![p] =
            IF target[p] # None /\ chat[target[p]].conversation # None
            THEN chat[target[p]].conversation ELSE @]
    /\ UNCHANGED <<storeVars, engineVars>>

\* The provider answers in the conversation it was told, in a fresh one or
\* in none it can name; external.
Answers(p) == {None, bound[p]} \cup (Conversations \ opened)

FinalAnswers(p) ==
    /\ Step(p, "final", "bind-read")
    /\ \E v \in Answers(p) :
        /\ answer' = [answer EXCEPT ![p] = v]
        /\ opened' = opened \cup ({v} \ {None})
    /\ UNCHANGED <<storeVars, bound, status, result, holder, polled>>

FinalFails(p) ==
    /\ Step(p, "final", "unlock-fail")
    /\ UNCHANGED <<storeVars, bound, engineVars>>

\* Mutant: bind_conversation does not compare.
Mutant_Conflict(c, v) == FALSE

\* "provider returned a different conversation for the selected chat"
Conflict(c, v) == chat[c].conversation \notin {None, v}

\* bind_conversation: read the chat ...
BindRead(p) ==
    /\ LET unbound == answer[p] = None \/ target[p] = None IN
        \/ unbound /\ Step(p, "bind-read", "update")
        \/ ~unbound /\ Conflict(target[p], answer[p]) /\ Step(p, "bind-read", "unlock-fail")
        \/ ~unbound /\ ~Conflict(target[p], answer[p]) /\ Step(p, "bind-read", "bind-write")
    /\ UNCHANGED <<storeVars, bound, engineVars>>

\* ... then, in another section, rewrite it.
BindWrite(p) ==
    /\ Step(p, "bind-write", "update")
    /\ UpdateChat(SessionOf(input[p]), target[p], BoundRecord(target[p], answer[p]))
    /\ UNCHANGED <<bound, engineVars>>

Update(p) ==
    /\ Step(p, "update", "report")
    /\ UpdateConversation(p, answer[p])
    /\ UNCHANGED <<storeVars, bound, result, holder, answer, opened, polled>>

\* The report is valid and written, or the run fails.
Report(p) ==
    /\ \/ /\ Step(p, "report", "complete")
          /\ result' = [result EXCEPT ![p] = TRUE]
       \/ Step(p, "report", "unlock-fail") /\ UNCHANGED result
    /\ UNCHANGED <<storeVars, bound, status, holder, answer, opened, polled>>

Complete(p) ==
    /\ Step(p, "complete", "unlock")
    /\ Transition(p, "running-final", "complete")
    /\ UNCHANGED <<storeVars, bound, result, holder, answer, opened, polled>>

\* Mutant: the lock file is left locked when an exception passes.
Mutant_Released(p) == IF pc[p] = "unlock-fail" THEN holder ELSE
    [c \in Chats |-> IF holder[c] = p THEN None ELSE holder[c]]

\* What holder is once p has no lock.
Released(p) == [c \in Chats |-> IF holder[c] = p THEN None ELSE holder[c]]

\* Leaving the with block, by return or by an exception.
Unlock(p) ==
    /\ Step(p, "unlock", "done") \/ Step(p, "unlock-fail", "failing")
    /\ holder' = Released(p)
    /\ UNCHANGED <<storeVars, bound, status, result, answer, opened, polled>>

\* The handler of every exception.
RecordFailure(p) ==
    /\ Step(p, "failing", "done")
    /\ Fail(p)
    /\ UNCHANGED <<storeVars, bound, result, holder, answer, opened, polled>>

-----------------------------------------------------------------------------
(* The progress pollers: one daemon thread per turn.  stop() sets an event *)
(* and does not join, so a text read during a turn may be stored after it. *)

PollText(p) ==
    \E stage \in Stages :
        /\ pc[p] = stage /\ p \in Pollers
        /\ polled' = [polled EXCEPT ![p] = @ \cup {stage}]
        /\ UNCHANGED <<convVars, status, result, holder, answer, opened>>

StoreText(p) ==
    \E stage \in polled[p] :
        /\ polled' = [polled EXCEPT ![p] = @ \ {stage}]
        /\ UpdateProgress(p, stage)
        /\ UNCHANGED <<convVars, result, holder, answer, opened>>

\* The process of a run dies, with its threads; flock ends with it.  (Dying
\* while it resolves, with no lock and no status yet, is taking no more step.)
Crash(p) ==
    /\ pc[p] \in RunLabels \ {"done"}
    /\ Goto(p, "dead")
    /\ holder' = Released(p)
    /\ polled' = [polled EXCEPT ![p] = {}]
    /\ UNCHANGED <<storeVars, input, target, bound, stale, status, result, answer, opened>>

-----------------------------------------------------------------------------
RunStep(p) ==
    \/ ResolveStep(p) /\ UNCHANGED engineVars
    \/ NewRequest(p) \/ Attach(p)
    \/ StartPlanner(p) \/ StartProvider(p) \/ PlannerTurn(p) \/ Plan(p)
    \/ AcquireChat(p) \/ Reread(p) \/ FinalAnswers(p) \/ FinalFails(p)
    \/ BindRead(p) \/ BindWrite(p) \/ Update(p) \/ Report(p) \/ Complete(p)
    \/ Unlock(p) \/ RecordFailure(p)

RunNext ==
    \/ \E p \in Clients :
        \/ \E in \in Inputs : CallResolve(p, in) /\ UNCHANGED engineVars
        \/ RunStep(p)
        \/ PollText(p) \/ StoreText(p)
        \/ Crash(p)
    \/ ManageStep /\ UNCHANGED engineVars

RunSpec == RunInit /\ [][RunNext]_runVars

\* A thread that can go on does (turns end within their timeout); nothing is
\* assumed of users, pollers and crashes.
FairRunSpec == RunSpec /\ \A p \in Clients : WF_runVars(RunStep(p))

-----------------------------------------------------------------------------
(* Properties.                                                             *)

\* "Final execution is serialized per chat" (docs/SESSION_ARCHITECTURE.md:64):
\* between reading the chat's conversation and completing, a run is alone in
\* its chat, whatever fails or dies.
ChatSerialized ==
    \A p, q \in Clients :
        p # q /\ pc[p] \in LockedLabels /\ pc[q] \in LockedLabels
            => target[p] = None \/ target[p] # target[q]

\* Why ChatSerialized holds: a run in those steps holds its chat's lock.
LockHeld ==
    \A p \in Clients : pc[p] \in LockedLabels /\ target[p] # None
        => holder[target[p]] = p

\* A final turn never opens a second conversation for a chat that has one:
\* of several runs resolved before the first answer, those that waited for
\* the lock continue what the first one opened.
FinalContinuesChat ==
    \A p \in Clients : pc[p] = "final" /\ target[p] # None =>
        chat[target[p]].conversation \in {None, bound[p]}

\* No provider conversation is recorded for two chats.
OneChatPerConversation ==
    \A c, d \in Chats :
        c # d /\ chat[c] # None /\ chat[d] # None /\ chat[c].conversation # None
            => chat[c].conversation # chat[d].conversation

\* A request whose planner has started is listed by the chat its status
\* names, also after a crash, so that list_session_requests shows it.
StartedIsListed ==
    \A p \in Clients : status[p] # None /\ status[p].chat # None /\ ~InState(p, "new")
        => p \in chat[status[p].chat].requests

\* "A failed parser or report validator does not discard the provider
\* conversation" (docs/SESSION_ARCHITECTURE.md:70): the conversation a status
\* names is the one its chat has recorded.
ConversationKept ==
    \A p \in Clients :
        status[p] # None /\ status[p].chat # None /\ status[p].conversation # None
            => chat[status[p].chat].conversation = status[p].conversation

\* A chat and its conversation belong together, whatever fails on the way.
ChatOwnsConversation == FinalContinuesChat /\ OneChatPerConversation /\ ConversationKept

\* Readers that see "complete" find the report.
CompleteHasResult == \A p \in Clients : InState(p, "complete") => result[p]

\* What a status says is there: the chat lists the request, and a complete
\* request has its report, though each is a file of its own.
RequestsAccounted == StartedIsListed /\ CompleteHasResult

\* Every run that was given a chat ends complete or failed unless its process
\* dies: failures on the way release the lock the others wait for.
RunsEnd ==
    \A p \in Clients :
        pc[p] = "resolved" ~> pc[p] = "dead" \/ InState(p, "complete") \/ InState(p, "failed")

=============================================================================
