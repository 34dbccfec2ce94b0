------------------------------ MODULE Tunnels ------------------------------
(***************************************************************************)
(* run_request_automatic (mcp_server.py) from the choice of a tunnel to    *)
(* the end of the call: TunnelRegistry, TunnelManager.probe and            *)
(* TunnelResolver.select choose, TunnelDriverFactory builds, the browser   *)
(* runtimes (web/runtime/browser_page.py) start and stop, and the call     *)
(* passes through three locks: its tunnel's, of the server process, then   *)
(* the Playwright profile's and the chat's, which are files.  Browsers and *)
(* bridges come and go meanwhile.  What the turns ask and answer is        *)
(* RequestPipeline's, what the stores keep is AutomaticRun's.              *)
(*                                                                         *)
(* Tunnels are numbered in the order of their ids.  No clock: a snapshot   *)
(* of a bridge, kept for one second, may be used again or have expired,    *)
(* and an attempt to reach a browser may fail though it is there.          *)
(***************************************************************************)
EXTENDS Integers, Sequences, FiniteSets

CONSTANTS
    Calls,
    ProcessOf,   \* ProcessOf[c]: the server process call c runs in
    Catalog,     \* Catalog[t]: tunnel t, a TunnelSpec
    Disabled,    \* FANCY_GPT_DISABLED_TUNNELS
    Installed,   \* browsers Playwright has installed
    Requests,    \* Requests[c]: the [tunnel, policy, chat] call c may ask for
    FirstUp,     \* what may be reachable at first, see `up`
    MaxChanges,  \* bound: browsers that come or go
    None

Ids == DOMAIN Catalog
Runtimes == {"extension", "playwright", "cdp", "interactive", "fake"}
Profiles == {"chromium", "firefox"}
Policies == {"auto", "prefer-extension", "prefer-native", "prefer-remote", "prefer-playwright", "prefer-cdp"}
Healths == {"healthy", "degraded", "unknown", "unavailable"}

TunnelSpec == [runtime : Runtimes, transport : STRING, scope : STRING, browser : STRING,
               priority : 0 .. 1000, enabled : BOOLEAN, automatic : BOOLEAN, extension : BOOLEAN,
               install : BOOLEAN, bridge : BOOLEAN, host : BOOLEAN, endpoint : STRING]

ASSUME TunnelsAssumption ==
    /\ IsFiniteSet(Calls) /\ IsFiniteSet(Ids) /\ Ids \subseteq Nat /\ None \notin Calls \cup Ids
    /\ Catalog \in [Ids -> TunnelSpec]
    /\ Installed \subseteq Profiles
    /\ \A c \in Calls : \A r \in Requests[c] : r.policy \in Policies
    /\ FirstUp \subseteq SUBSET {t \in Ids : Catalog[t].runtime \in {"extension", "cdp"}}
    /\ MaxChanges \in Nat

VARIABLES
    up,          \* tunnels whose browser can be reached: a worker of the bridge
                 \* lists it, or its CDP endpoint answers
    changes,     \* changes of `up` so far
    pc,          \* pc[c]: where call c is
    ask,         \* ask[c]: its request
    todo,        \* todo[c]: tunnels to probe
    seen,        \* seen[c][t]: what the probe of t said
    cache,       \* cache[c][e]: the snapshot of the bridge at e: its tunnels, or None
    tunnel,      \* tunnel[c]: the chosen one, or None
    tunnelLock,  \* tunnelLock[p][t]: the call that holds it in process p, or None
    profileLock, \* profileLock[profile]: the call that holds the file, or None
    chatLock,    \* chatLock[chat]: likewise
    contexts,    \* calls whose Playwright context is open
    upSince      \* history: upSince[c]: tunnels reachable at some time since c began to choose

choice == <<ask, todo, seen, cache, tunnel>>
locks == <<tunnelLock, profileLock, chatLock>>
vars == <<up, changes, pc, choice, locks, contexts, upSince>>

Endpoints == {Catalog[t].endpoint : t \in Ids}
Asked == UNION {Requests[c] : c \in Calls}
Chats == {r.chat : r \in Asked} \ {None}
Processes == {ProcessOf[c] : c \in Calls}

Labels == {"idle", "probing", "selected", "locked", "starting", "launching", "checking",
           "planned", "final", "stopping", "closed", "leaving", "ended"}

-----------------------------------------------------------------------------
(* Composition                                                             *)

Runtime(transports, browsers, scopes, automatic, extension, install) ==
    [transports |-> transports, browsers |-> browsers, scopes |-> scopes,
     automatic |-> automatic, extension |-> extension, install |-> install]

\* The runtimes' contracts (web/runtime/contracts.py).
RuntimeContract(r) ==
    CASE r = "extension" ->
            Runtime({"native-messaging", "websocket"}, {"chrome", "edge", "firefox"}, {"local", "remote"}, TRUE, TRUE, FALSE)
      [] r = "playwright" -> Runtime({"local-process"}, {"chromium", "firefox"}, {"local"}, TRUE, FALSE, TRUE)
      [] r = "cdp" -> Runtime({"cdp"}, {"chrome", "edge"}, {"local", "remote"}, TRUE, FALSE, FALSE)
      [] r = "interactive" ->
            Runtime({"human"}, {"any", "chrome", "edge", "firefox", "safari"}, {"local", "remote", "any"}, FALSE, FALSE, FALSE)
      [] r = "fake" -> Runtime({"in-memory"}, {"fake"}, {"local"}, TRUE, FALSE, FALSE)

\* The transports' (web/transport/contracts.py).
TransportScopes(x) ==
    CASE x \in {"websocket", "cdp"} -> {"local", "remote"}
      [] x = "human" -> {"local", "remote", "any"}
      [] OTHER -> {"local"}

\* TunnelCompositionValidator.check; an unknown transport supports nothing.
Compatible(s) ==
    LET r == RuntimeContract(s.runtime) IN
    /\ s.transport \in r.transports
    /\ s.browser \in r.browsers \/ "any" \in r.browsers
    /\ s.scope \in r.scopes \cap TransportScopes(s.transport)
    /\ s.extension = r.extension /\ s.install = r.install /\ s.automatic = r.automatic
    /\ s.bridge = (s.transport \in {"native-messaging", "websocket"})
    /\ s.host = (s.transport = "native-messaging")

\* TunnelRegistry: loads if every entry fits together, then lists what is enabled.
Loads == \A t \in Ids : Compatible(Catalog[t])

Effective == {t \in Ids : Catalog[t].enabled /\ t \notin Disabled}

\* The order of TunnelRegistry.all.
Precedes(s, t) ==
    \/ Catalog[s].priority < Catalog[t].priority
    \/ Catalog[s].priority = Catalog[t].priority /\ s <= t

-----------------------------------------------------------------------------
(* Selection                                                               *)

Goto(c, from, to) == pc[c] = from /\ pc' = [pc EXCEPT ![c] = to]

Init ==
    /\ up \in FirstUp
    /\ changes = 0
    /\ pc = [c \in Calls |-> "idle"]
    /\ ask = [c \in Calls |-> None]
    /\ todo = [c \in Calls |-> {}]
    /\ seen = [c \in Calls |-> [t \in Ids |-> "unavailable"]]
    /\ cache = [c \in Calls |-> [e \in Endpoints |-> None]]
    /\ tunnel = [c \in Calls |-> None]
    /\ tunnelLock = [p \in Processes |-> [t \in Ids |-> None]]
    /\ profileLock = [f \in Profiles |-> None]
    /\ chatLock = [x \in Chats |-> None]
    /\ contexts = {}
    /\ upSince = [c \in Calls |-> {}]

\* Mutant: one manager serves all calls of a process.
Mutant_NewCache(c) ==
    LET others == {d \in Calls : ProcessOf[d] = ProcessOf[c] /\ \E e \in Endpoints : cache[d][e] # None} IN
    cache[IF others = {} THEN c ELSE CHOOSE d \in others : TRUE]

\* A call makes a manager of its own.
NewCache(c) == [e \in Endpoints |-> None]

\* A call asks for a tunnel by its id, or for any automatic one.
Admits(r) == Loads /\ (r.tunnel # None => r.tunnel \in Effective /\ Catalog[r.tunnel].automatic)

Begin(c, r) ==
    /\ Goto(c, "idle", IF Admits(r) THEN "probing" ELSE "ended")
    /\ ask' = [ask EXCEPT ![c] = r]
    /\ todo' = [todo EXCEPT ![c] =
                   IF ~Admits(r) THEN {}
                   ELSE IF r.tunnel # None THEN {r.tunnel} ELSE {t \in Effective : Catalog[t].automatic}]
    /\ cache' = [cache EXCEPT ![c] = NewCache(c)]
    /\ upSince' = [upSince EXCEPT ![c] = up]
    /\ UNCHANGED <<up, changes, seen, tunnel, locks, contexts>>

\* TunnelManager.probe: by a snapshot of the bridge, the one at hand or a new one.
ProbeBridge(c, t) ==
    LET e == Catalog[t].endpoint
        new == {s \in up : Catalog[s].runtime = "extension" /\ Catalog[s].endpoint = e} IN
    /\ Catalog[t].runtime = "extension"
    /\ \E snapshot \in {cache[c][e], new} \ {None} :
         /\ cache' = [cache EXCEPT ![c][e] = snapshot]
         /\ seen' = [seen EXCEPT ![c][t] = IF t \in snapshot THEN "healthy" ELSE "unavailable"]

ProbeOther(c, t) ==
    LET s == Catalog[t] IN
    /\ s.runtime # "extension"
    /\ seen' = [seen EXCEPT ![c][t] =
           CASE s.runtime = "playwright" -> IF s.browser \in Installed THEN "degraded" ELSE "unavailable"
             [] s.runtime = "cdp" -> IF t \in up THEN "healthy" ELSE "unavailable"
             [] s.runtime = "interactive" -> "healthy"
             [] OTHER -> "unknown"]
    /\ UNCHANGED cache

\* Any exception means unavailable, and no snapshot is kept.
ProbeFails(c, t) ==
    /\ seen' = [seen EXCEPT ![c][t] = "unavailable"]
    /\ UNCHANGED cache

Probe(c, t) ==
    /\ pc[c] = "probing" /\ t \in todo[c] /\ \A s \in todo[c] : Precedes(t, s)
    /\ ProbeBridge(c, t) \/ ProbeOther(c, t) \/ ProbeFails(c, t)
    /\ todo' = [todo EXCEPT ![c] = @ \ {t}]
    /\ UNCHANGED <<up, changes, pc, ask, tunnel, locks, contexts, upSince>>

\* _policy_bonus.
Preferred(t, policy) ==
    LET s == Catalog[t] IN
    \/ policy = "prefer-extension" /\ s.runtime = "extension"
    \/ policy = "prefer-native" /\ s.transport = "native-messaging"
    \/ policy = "prefer-remote" /\ s.scope = "remote"
    \/ policy = "prefer-playwright" /\ s.runtime = "playwright"
    \/ policy = "prefer-cdp" /\ s.runtime = "cdp"

Penalty(health) == CASE health = "healthy" -> 0 [] health = "degraded" -> 200 [] OTHER -> 400

\* Mutant: no health is worse than another, so long as the tunnel is there.
Mutant_Score(c, t) == Catalog[t].priority - (IF Preferred(t, ask[c].policy) THEN 100 ELSE 0)

\* Mutant: a preference outweighs ten steps of priority.
Mutant_Bonus(c, t) ==
    Catalog[t].priority - (IF Preferred(t, ask[c].policy) THEN 10 ELSE 0) + Penalty(seen[c][t])

Score(c, t) ==
    Catalog[t].priority - (IF Preferred(t, ask[c].policy) THEN 100 ELSE 0) + Penalty(seen[c][t])

Usable(c) == {t \in Ids : seen[c][t] # "unavailable"}

\* select takes the best; provider builds a driver, which a fake one has not.
Select(c, t) ==
    /\ pc[c] = "probing" /\ todo[c] = {} /\ t \in Usable(c)
    /\ \A s \in Usable(c) : Score(c, t) < Score(c, s) \/ (Score(c, t) = Score(c, s) /\ t <= s)
    /\ tunnel' = [tunnel EXCEPT ![c] = t]
    /\ pc' = [pc EXCEPT ![c] = IF Catalog[t].runtime = "fake" THEN "ended" ELSE "selected"]
    /\ UNCHANGED <<up, changes, ask, todo, seen, cache, locks, contexts, upSince>>

NoTunnel(c) ==
    /\ todo[c] = {} /\ Usable(c) = {} /\ Goto(c, "probing", "ended")
    /\ UNCHANGED <<up, changes, choice, locks, contexts, upSince>>

-----------------------------------------------------------------------------
(* The call                                                                *)

Mine(c) == Catalog[tunnel[c]]
Profile(c) == IF Mine(c).browser = "firefox" THEN "firefox" ELSE "chromium"
OwnsProfile(c) == Mine(c).runtime = "playwright"

\* with _tunnel_lock(...): a lock of this process.  What the probes found is
\* not used any more.
TakeTunnel(c) ==
    /\ Goto(c, "selected", "locked")
    /\ tunnelLock[ProcessOf[c]][tunnel[c]] = None
    /\ tunnelLock' = [tunnelLock EXCEPT ![ProcessOf[c]][tunnel[c]] = c]
    /\ seen' = [seen EXCEPT ![c] = [t \in Ids |-> "unavailable"]]
    /\ cache' = [cache EXCEPT ![c] = [e \in Endpoints |-> None]]
    /\ upSince' = [upSince EXCEPT ![c] = {}]
    /\ UNCHANGED <<up, changes, ask, todo, tunnel, profileLock, chatLock, contexts>>

\* run_automatic fails before it starts the provider, or gets to provider.start.
Prepare(c) ==
    /\ Goto(c, "locked", "starting") \/ Goto(c, "locked", "leaving")
    /\ UNCHANGED <<up, changes, choice, locks, contexts, upSince>>

\* An extension or CDP driver connects; nothing is locked.
Connect(c) ==
    /\ Goto(c, "starting", "checking") \/ Goto(c, "starting", "leaving")
    /\ ~OwnsProfile(c) /\ (pc'[c] = "checking" => tunnel[c] \in up)
    /\ UNCHANGED <<up, changes, choice, locks, contexts, upSince>>

\* PlaywrightPageRuntime.start: the file lock, then the browser.
LockProfile(c) ==
    /\ Goto(c, "starting", "launching") /\ OwnsProfile(c)
    /\ profileLock[Profile(c)] = None
    /\ profileLock' = [profileLock EXCEPT ![Profile(c)] = c]
    /\ UNCHANGED <<up, changes, choice, tunnelLock, chatLock, contexts, upSince>>

\* Mutant: the lock is not given back when the launch fails.
Mutant_Launch(c) ==
    /\ \/ Goto(c, "launching", "checking") /\ contexts' = contexts \cup {c}
       \/ Goto(c, "launching", "leaving") /\ UNCHANGED contexts
    /\ UNCHANGED <<up, changes, choice, locks, upSince>>

Launch(c) ==
    /\ \/ Goto(c, "launching", "checking") /\ contexts' = contexts \cup {c} /\ UNCHANGED profileLock
       \/ /\ Goto(c, "launching", "leaving")
          /\ profileLock' = [profileLock EXCEPT ![Profile(c)] = None]
          /\ UNCHANGED contexts
    /\ UNCHANGED <<up, changes, choice, tunnelLock, chatLock, upSince>>

\* health_check, which a browser that is not signed in fails, the planner turn
\* and the context; a failure of any leads to the driver's stop.
Work(c) ==
    /\ Goto(c, "checking", "planned") \/ Goto(c, "checking", "stopping")
    /\ UNCHANGED <<up, changes, choice, locks, contexts, upSince>>

\* with chat_lock: one final turn at a time on a chat.
TakeChat(c) ==
    LET chat == ask[c].chat IN
    /\ Goto(c, "planned", "final")
    /\ IF chat = None THEN UNCHANGED chatLock
       ELSE chatLock[chat] = None /\ chatLock' = [chatLock EXCEPT ![chat] = c]
    /\ UNCHANGED <<up, changes, choice, tunnelLock, profileLock, contexts, upSince>>

\* Mutant: the chat stays locked when the final turn fails.
Mutant_FinalTurn(c) ==
    LET chat == ask[c].chat IN
    /\ Goto(c, "final", "stopping")
    /\ \/ UNCHANGED chatLock
       \/ chatLock' = IF chat = None THEN chatLock ELSE [chatLock EXCEPT ![chat] = None]
    /\ UNCHANGED <<up, changes, choice, tunnelLock, profileLock, contexts, upSince>>

\* The final turn, whatever comes of it, and the chat's release.
FinalTurn(c) ==
    LET chat == ask[c].chat IN
    /\ Goto(c, "final", "stopping")
    /\ chatLock' = IF chat = None THEN chatLock ELSE [chatLock EXCEPT ![chat] = None]
    /\ UNCHANGED <<up, changes, choice, tunnelLock, profileLock, contexts, upSince>>

\* Mutant: the profile is given back first.
Mutant_CloseContext(c) ==
    /\ Goto(c, "stopping", "closed")
    /\ profileLock' = [f \in Profiles |-> IF profileLock[f] = c THEN None ELSE profileLock[f]]
    /\ UNCHANGED <<up, changes, choice, tunnelLock, chatLock, contexts, upSince>>

\* stop: the context, whose close raises only when the browser has gone ...
CloseContext(c) ==
    /\ Goto(c, "stopping", "closed")
    /\ contexts' = contexts \ {c}
    /\ UNCHANGED <<up, changes, choice, locks, upSince>>

\* ... and, in any case, the profile.
UnlockProfile(c) ==
    /\ Goto(c, "closed", "leaving")
    /\ profileLock' = IF OwnsProfile(c) THEN [profileLock EXCEPT ![Profile(c)] = None] ELSE profileLock
    /\ UNCHANGED <<up, changes, choice, tunnelLock, chatLock, contexts, upSince>>

Leave(c) ==
    /\ Goto(c, "leaving", "ended")
    /\ tunnelLock' = [tunnelLock EXCEPT ![ProcessOf[c]][tunnel[c]] = None]
    /\ ask' = [ask EXCEPT ![c] = None] /\ tunnel' = [tunnel EXCEPT ![c] = None]
    /\ UNCHANGED <<up, changes, todo, seen, cache, profileLock, chatLock, contexts, upSince>>

\* A browser worker or a CDP endpoint comes or goes.
Change(t) ==
    /\ Catalog[t].runtime \in {"extension", "cdp"} /\ changes < MaxChanges
    /\ up' = IF t \in up THEN up \ {t} ELSE up \cup {t}
    /\ changes' = changes + 1
    /\ upSince' = [c \in Calls |-> IF pc[c] \in {"probing", "selected"} THEN upSince[c] \cup up' ELSE upSince[c]]
    /\ UNCHANGED <<pc, choice, locks, contexts>>

CallStep(c) ==
    \/ \E t \in Ids : Probe(c, t) \/ Select(c, t)
    \/ NoTunnel(c)
    \/ TakeTunnel(c) \/ Prepare(c) \/ Connect(c) \/ LockProfile(c) \/ Launch(c)
    \/ Work(c)
    \/ TakeChat(c) \/ FinalTurn(c) \/ CloseContext(c) \/ UnlockProfile(c) \/ Leave(c)

Next ==
    \/ \E c \in Calls : CallStep(c) \/ \E r \in Requests[c] : Begin(c, r)
    \/ \E t \in Ids : Change(t)

Spec == Init /\ [][Next]_vars

\* Threads run, and turns and connections time out: while a call can step, one
\* does.  No call steps for ever, so nothing need be said of each.
FairSpec == Spec /\ WF_vars(\E c \in Calls : CallStep(c))

-----------------------------------------------------------------------------
(* Properties.                                                             *)

TypeOK ==
    /\ up \subseteq Ids /\ changes \in 0 .. MaxChanges
    /\ pc \in [Calls -> Labels]
    /\ ask \in [Calls -> Asked \cup {None}]
    /\ todo \in [Calls -> SUBSET Ids] /\ upSince \in [Calls -> SUBSET Ids]
    /\ seen \in [Calls -> [Ids -> Healths]]
    /\ cache \in [Calls -> [Endpoints -> (SUBSET Ids) \cup {None}]]
    /\ tunnel \in [Calls -> Ids \cup {None}]
    /\ tunnelLock \in [Processes -> [Ids -> Calls \cup {None}]]
    /\ profileLock \in [Profiles -> Calls \cup {None}]
    /\ chatLock \in [Chats -> Calls \cup {None}]
    /\ contexts \subseteq Calls

\* A call goes to a browser that could be reached at some time since the call
\* began, never to one known only from before (manager.py:101-119).
FreshChoice ==
    \A c \in Calls : pc[c] = "selected" /\ Mine(c).runtime \in {"extension", "cdp"} => tunnel[c] \in upSince[c]

\* Without a tunnel of its own a request never gets one whose session is yet to
\* be verified while an automatic one was seen healthy, whatever its policy
\* says; with the priorities of catalog/tunnels.yaml (resolver.py:61-77).
HealthFirst ==
    \A c \in Calls : pc[c] = "selected" /\ ask[c].tunnel = None /\ seen[c][tunnel[c]] # "healthy" =>
        \A t \in Ids : seen[c][t] # "healthy"

\* A policy is honoured whenever a tunnel it prefers was seen healthy, again
\* with those priorities (docs/TUNNEL_ARCHITECTURE.md:69-73).
PolicyHonoured ==
    \A c \in Calls : pc[c] = "selected" /\ ask[c].tunnel = None =>
        \A t \in Ids : Preferred(t, ask[c].policy) /\ seen[c][t] = "healthy" => Preferred(tunnel[c], ask[c].policy)

\* A Playwright profile is open in one browser at most, of all processes and
\* tunnels, and only under its lock, through every failure
\* (docs/WEB_AUTOMATION.md:10, SECURITY.md:25).
OneBrowserPerProfile == \A c \in contexts : profileLock[Profile(c)] = c

\* A call that has ended, well or not, has left no lock and no browser behind.
NothingLeft ==
    \A c \in Calls : pc[c] \in {"idle", "ended"} =>
        /\ c \notin contexts
        /\ \A f \in Profiles : profileLock[f] # c
        /\ \A x \in Chats : chatLock[x] # c
        /\ \A t \in Ids : tunnelLock[ProcessOf[c]][t] # c

\* In the end no call is under way: tunnel, profile and chat locks are never
\* waited for in a ring, and none is kept that another call waits for.
CallsEnd == <>[](\A c \in Calls : pc[c] \in {"idle", "ended"})

=============================================================================
