------------------------------- MODULE Bridge -------------------------------
(***************************************************************************)
(* The bridge server (bridge/server.py) between the controllers, drivers   *)
(* of review runs (bridge/client.py), and the browsers.                    *)
(*                                                                         *)
(* Every connection has a thread in the server: that of a controller c is  *)
(* at pc[c], that of a browser connection w at session[w].  A controller   *)
(* thread asks the hub for a worker, waits for the worker's request_lock,  *)
(* sends the job and waits for the browser thread to put the answer into   *)
(* the job's pending queue.  A worker is one connection: a browser that    *)
(* connects again is a new worker, while the old one may still be listed.  *)
(*                                                                         *)
(* The browser side (extension_assets, native_host.py) is modelled as far  *)
(* as the server depends on it: a job runs in a tab of its own whatever    *)
(* else runs, and its answer goes over the browser's current connection.   *)
(* Messages between two open ends are kept in order; those on their way    *)
(* when a connection breaks may be lost.                                   *)
(***************************************************************************)
EXTENDS Naturals, SequencesExt

CONSTANTS
    Controllers,  \* driver connections: each is started and stopped once
    Workers,      \* browser connections, in the order a browser opens them
    Jobs,         \* turn ids: fresh uuids, each used once
    Browsers,
    Home,         \* Home[w]: the browser that opens connection w
    Serves,       \* Serves[w]: the tunnel ids w registers
    Tunnel,       \* Tunnel[c]: the tunnel of controller c
    Native,       \* workers behind native_host.py
    Impatient,    \* jobs with a timeout that is not positive
    Reporting,    \* jobs whose tab reports progress
    ProgressCap,  \* _progress_cap
    Sleepy,       \* bound: workers that may fall silent for stale_after_s
    MaxUp,        \* bound: reports a browser may have on its way
    None

VARIABLES
    client,   \* client[c]: state of the driver (bridge/client.py)
    turn,     \* turn[c]: the turn it waits for
    status,   \* status[j]: what the caller of turn j knows
    asked,    \* asked[c]: message to the server not yet read
    told,     \* told[c]: answer not yet read by the driver
    pc, job, worker, response,  \* the controller's thread in the server
    workers,  \* hub._workers, in order of registration
    alive,    \* worker.alive
    quiet,    \* last_seen is more than stale_after_s ago
    lock,     \* lock[w]: the thread in w's request_lock
    pending,  \* pending[w][j]: Absent, or what is in j's queue
    progress, \* jobs in hub._progress, least recently updated first
    count,    \* count[w]: jobs_started, jobs_succeeded, jobs_failed
    total,    \* the hub's counters
    session,  \* session[w]: the browser connection's thread in the server
    down, up, \* messages to and from the browser on connection w
    link,     \* link[b]: the connection browser b has open
    greeted,  \* native hosts that have read their hello_ack
    run, tab  \* run[j], tab[j]: state of the turn in a browser, and which

clientVars == <<client, turn, status>>
threadVars == <<pc, job, worker, response>>
hubVars == <<workers, alive, progress, total>>
workerVars == <<lock, pending, count>>
browserVars == <<session, up, link, greeted, run, tab, quiet>>
vars == <<client, turn, status, asked, told, pc, job, worker, response,
          workers, alive, quiet, lock, pending, progress, count, total,
          session, down, up, link, greeted, run, tab>>

Answers == {"job_result", "job_error"}
Counters == [started : Nat, succeeded : Nat, failed : Nat]
Totals == [started : Nat, succeeded : Nat, failed : Nat, connections : Nat, probes : Nat]
AnswerMessages == [type : Answers, job : Jobs]
ToldMessages ==
    AnswerMessages \cup [type : {"available", "unavailable"}, job : {None}]
UpMessages == [type : Answers \cup {"job_progress"}, job : Jobs]
DownMessages == {"hello_ack"} \cup Jobs

\* The queue of a pending job holds one message at most.
Absent == [type |-> "absent", job |-> None]
Empty == [type |-> "empty", job |-> None]

ASSUME WiringAssumption ==
    /\ Home \in [Workers -> Browsers]
    /\ DOMAIN Serves = Workers /\ DOMAIN Tunnel = Controllers
    /\ Native \cup Sleepy \subseteq Workers /\ Impatient \cup Reporting \subseteq Jobs
    /\ ProgressCap \in Nat \ {0} /\ MaxUp \in Nat
    /\ {None, "probe", "hello_ack"} \cap (Jobs \cup Workers \cup Controllers) = {}
    /\ None \notin ToldMessages /\ None # "probe"

TypeOK ==
    /\ client \in [Controllers -> {"new", "starting", "ready", "waiting", "stopped"}]
    /\ turn \in [Controllers -> Jobs \cup {None}]
    /\ status \in [Jobs -> {"unused", "submitted", "result", "error"}]
    /\ asked \in [Controllers -> Jobs \cup {"probe", None}]
    /\ told \in [Controllers -> ToldMessages \cup {None}]
    /\ pc \in [Controllers -> {"recv", "lock", "send", "waiting", "reply", "ended"}]
    /\ job \in [Controllers -> Jobs \cup {None}]
    /\ worker \in [Controllers -> Workers \cup {None}]
    /\ response \in [Controllers -> AnswerMessages \cup {None}]
    /\ workers \in Seq(Workers)
    /\ alive \in [Workers -> BOOLEAN] /\ quiet \in [Workers -> BOOLEAN]
    /\ lock \in [Workers -> Controllers \cup {None}]
    /\ pending \in [Workers -> [Jobs -> AnswerMessages \cup {Absent, Empty}]]
    /\ progress \in Seq(Jobs)
    /\ count \in [Workers -> Counters]
    /\ total \in Totals
    /\ session \in [Workers -> {"none", "hello", "registered", "serving", "failed", "ended"}]
    /\ down \in [Workers -> Seq(DownMessages)] /\ up \in [Workers -> Seq(UpMessages)]
    /\ link \in [Browsers -> Workers \cup {None}]
    /\ greeted \subseteq Native
    /\ run \in [Jobs -> {"never", "running", "result", "error", "lost"}]
    /\ tab \in [Jobs -> Browsers \cup {None}]

Init ==
    /\ client = [c \in Controllers |-> "new"] /\ turn = [c \in Controllers |-> None]
    /\ status = [j \in Jobs |-> "unused"]
    /\ asked = [c \in Controllers |-> None] /\ told = [c \in Controllers |-> None]
    /\ pc = [c \in Controllers |-> "recv"] /\ job = [c \in Controllers |-> None]
    /\ worker = [c \in Controllers |-> None] /\ response = [c \in Controllers |-> None]
    /\ workers = <<>> /\ progress = <<>>
    /\ alive = [w \in Workers |-> TRUE] /\ quiet = [w \in Workers |-> FALSE]
    /\ lock = [w \in Workers |-> None]
    /\ pending = [w \in Workers |-> [j \in Jobs |-> Absent]]
    /\ count = [w \in Workers |-> [started |-> 0, succeeded |-> 0, failed |-> 0]]
    /\ total = [started |-> 0, succeeded |-> 0, failed |-> 0, connections |-> 0, probes |-> 0]
    /\ session = [w \in Workers |-> "none"]
    /\ down = [w \in Workers |-> <<>>] /\ up = [w \in Workers |-> <<>>]
    /\ link = [b \in Browsers |-> None] /\ greeted = {}
    /\ run = [j \in Jobs |-> "never"] /\ tab = [j \in Jobs |-> None]

-----------------------------------------------------------------------------
(* The driver (bridge/client.py) as the provider uses it.  A turn that      *)
(* fails raises through provider.execute, and the run stops the provider:   *)
(* the connection is closed.                                                *)

Stopped(c) ==
    /\ client' = [client EXCEPT ![c] = "stopped"]
    /\ turn' = [turn EXCEPT ![c] = None]
    /\ told' = [told EXCEPT ![c] = None]

\* start(): connect, hello; health_check(): send a probe.
Start(c) ==
    /\ client[c] = "new"
    /\ client' = [client EXCEPT ![c] = "starting"]
    /\ asked' = [asked EXCEPT ![c] = "probe"]
    /\ UNCHANGED <<turn, status, told, threadVars, hubVars, workerVars, browserVars, down>>

Probed(c) ==
    /\ client[c] = "starting" /\ told[c] # None
    /\ \/ /\ told[c].type = "available"
          /\ client' = [client EXCEPT ![c] = "ready"]
          /\ told' = [told EXCEPT ![c] = None]
          /\ UNCHANGED turn
       \/ told[c].type # "available" /\ Stopped(c)
    /\ UNCHANGED <<status, asked, threadVars, hubVars, workerVars, browserVars, down>>

\* begin_turn and submit.
Submit(c, j) ==
    /\ client[c] = "ready" /\ status[j] = "unused"
    /\ client' = [client EXCEPT ![c] = "waiting"]
    /\ turn' = [turn EXCEPT ![c] = j]
    /\ status' = [status EXCEPT ![j] = "submitted"]
    /\ asked' = [asked EXCEPT ![c] = j]
    /\ UNCHANGED <<told, threadVars, hubVars, workerVars, browserVars, down>>

\* wait_for_response returns the text of an answer to this turn.
Accept(c) ==
    /\ client[c] = "waiting" /\ told[c] # None
    /\ told[c].job = turn[c] /\ told[c].type = "job_result"
    /\ client' = [client EXCEPT ![c] = "ready"]
    /\ status' = [status EXCEPT ![turn[c]] = "result"]
    /\ turn' = [turn EXCEPT ![c] = None]
    /\ told' = [told EXCEPT ![c] = None]
    /\ UNCHANGED <<asked, threadVars, hubVars, workerVars, browserVars, down>>

\* Mutant: the driver goes on after a turn that timed out.
Mutant_FailTurn(c) ==
    /\ client[c] = "waiting"
    /\ status' = [status EXCEPT ![turn[c]] = "error"]
    /\ client' = [client EXCEPT ![c] = "ready"]
    /\ turn' = [turn EXCEPT ![c] = None]
    /\ UNCHANGED <<told, asked, threadVars, hubVars, workerVars, browserVars, down>>

\* The turn raises: an error was received, a result without text, or an
\* answer to another turn; or recv timed out.
FailTurn(c) ==
    /\ client[c] = "waiting"
    /\ status' = [status EXCEPT ![turn[c]] = "error"]
    /\ Stopped(c)
    /\ UNCHANGED <<asked, threadVars, hubVars, workerVars, browserVars, down>>

\* stop(): the run is over.
Stop(c) ==
    /\ client[c] = "ready"
    /\ Stopped(c)
    /\ UNCHANGED <<status, asked, threadVars, hubVars, workerVars, browserVars, down>>

-----------------------------------------------------------------------------
(* The hub.                                                                 *)

\* Mutant: last_seen is not looked at.
Mutant_Routable(w, tunnel) == alive[w] /\ tunnel \in Serves[w]

Routable(w, tunnel) == alive[w] /\ ~quiet[w] /\ tunnel \in Serves[w]

\* worker_for looks at the list up to the first routable worker.
Scanned(tunnel) ==
    {workers[i] : i \in {k \in DOMAIN workers :
        \A n \in 1..(k - 1) : ~Routable(workers[n], tunnel)}}

WorkerFor(tunnel) == {w \in Scanned(tunnel) : Routable(w, tunnel)}

\* Workers seen to be silent for too long are marked, for good.
MarkStale(seen) == alive' = [w \in Workers |-> alive[w] /\ ~(w \in seen /\ quiet[w])]

Listed == {workers[i] : i \in DOMAIN workers}

Counted(counters, which) == [counters EXCEPT ![which] = @ + 1]

Verdict(answer) == IF answer.type = "job_error" THEN "failed" ELSE "succeeded"

Error(j) == [type |-> "job_error", job |-> j]

\* The list without item, which it holds once at most.
Without(list, item) ==
    LET places == {i \in DOMAIN list : list[i] = item}
    IN IF places = {} THEN list ELSE RemoveAt(list, CHOOSE i \in places : TRUE)

\* Mutant: the cap is checked before the entry is added.
Mutant_RecordProgress(j) ==
    progress' = IF Len(progress) > ProgressCap
                    THEN Tail(progress) ELSE Append(Without(progress, j), j)

\* record_progress: the newest entry last, the oldest evicted.
RecordProgress(j) ==
    LET updated == Append(Without(progress, j), j)
    IN progress' = IF Len(updated) > ProgressCap THEN Tail(updated) ELSE updated

\* snapshot and stats, asked for by any controller (probe.py).
Snapshot ==
    /\ MarkStale(Listed)
    /\ alive' # alive
    /\ UNCHANGED <<clientVars, asked, told, threadVars, workers, progress, total,
                   workerVars, browserVars, down>>

-----------------------------------------------------------------------------
(* A controller's thread: _controller_session and BrowserWorker.request.    *)

\* record_probe, worker_for, snapshot, probe_result.  The driver waits for
\* the answer.
HandleProbe(c) ==
    /\ pc[c] = "recv" /\ asked[c] = "probe"
    /\ asked' = [asked EXCEPT ![c] = None]
    /\ told' = [told EXCEPT ![c] =
                  [type |-> IF WorkerFor(Tunnel[c]) = {} THEN "unavailable" ELSE "available",
                   job |-> None]]
    /\ MarkStale(Listed)
    /\ total' = Counted(total, "probes")
    /\ UNCHANGED <<clientVars, threadVars, workers, progress, workerVars, browserVars, down>>

\* connection.send to the driver; raises when it is gone, which ends the
\* thread.
Tell(c, message) ==
    IF client[c] = "stopped"
        THEN pc' = [pc EXCEPT ![c] = "ended"] /\ UNCHANGED told
        ELSE pc' = [pc EXCEPT ![c] = "recv"] /\ told' = [told EXCEPT ![c] = message]

\* A job arrives, worker_for finds nobody.
RefuseJob(c) ==
    /\ pc[c] = "recv" /\ asked[c] \in Jobs
    /\ WorkerFor(Tunnel[c]) = {}
    /\ MarkStale(Scanned(Tunnel[c]))
    /\ total' = Counted(total, "failed")
    /\ Tell(c, Error(asked[c]))
    /\ asked' = [asked EXCEPT ![c] = None]
    /\ UNCHANGED <<clientVars, job, worker, response, workers, progress,
                   workerVars, browserVars, down>>

\* A job arrives, worker_for finds w; a timeout that is not positive raises.
RouteJob(c) ==
    /\ pc[c] = "recv" /\ asked[c] \in Jobs
    /\ \E w \in WorkerFor(Tunnel[c]) : worker' = [worker EXCEPT ![c] = w]
    /\ MarkStale(Scanned(Tunnel[c]))
    /\ total' = Counted(total, "started")
    /\ job' = [job EXCEPT ![c] = asked[c]]
    /\ asked' = [asked EXCEPT ![c] = None]
    /\ IF asked[c] \in Impatient
          THEN /\ pc' = [pc EXCEPT ![c] = "reply"]
               /\ response' = [response EXCEPT ![c] = Error(asked[c])]
          ELSE pc' = [pc EXCEPT ![c] = "lock"] /\ UNCHANGED response
    /\ UNCHANGED <<clientVars, told, workers, progress, workerVars, browserVars, down>>

\* with self.request_lock: the job becomes pending before it is sent.
AcquireWorker(c) ==
    LET w == worker[c] IN
    /\ pc[c] = "lock" /\ lock[w] = None
    /\ lock' = [lock EXCEPT ![w] = c]
    /\ pending' = [pending EXCEPT ![w][job[c]] = Empty]
    /\ count' = [count EXCEPT ![w] = Counted(@, "started")]
    /\ pc' = [pc EXCEPT ![c] = "send"]
    /\ UNCHANGED <<clientVars, asked, told, job, worker, response, hubVars, browserVars, down>>

\* finally, and the end of the with block.
LeaveWorker(c, answer) ==
    /\ pending' = [pending EXCEPT ![worker[c]][job[c]] = Absent]
    /\ lock' = [lock EXCEPT ![worker[c]] = None]
    /\ response' = [response EXCEPT ![c] = answer]
    /\ pc' = [pc EXCEPT ![c] = "reply"]
    /\ UNCHANGED <<clientVars, asked, told, job, worker, hubVars, browserVars>>

\* A message for the browser; lost when it is no longer on connection w.
Sent(w, message) ==
    down' = IF link[Home[w]] = w
                THEN [down EXCEPT ![w] = Append(@, message)] ELSE down

Closed(w) == session[w] \in {"failed", "ended"}

SendJob(c) ==
    /\ pc[c] = "send" /\ ~Closed(worker[c])
    /\ Sent(worker[c], job[c])
    /\ pc' = [pc EXCEPT ![c] = "waiting"]
    /\ UNCHANGED <<clientVars, asked, told, job, worker, response, hubVars,
                   workerVars, browserVars>>

\* Mutant: the lock is released on the ordinary ways out only.
Mutant_SendFails(c) ==
    /\ pc[c] = "send" /\ Closed(worker[c])
    /\ pending' = [pending EXCEPT ![worker[c]][job[c]] = Absent]
    /\ response' = [response EXCEPT ![c] = Error(job[c])]
    /\ pc' = [pc EXCEPT ![c] = "reply"]
    /\ UNCHANGED <<clientVars, asked, told, job, worker, hubVars, lock, count,
                   browserVars, down>>

\* send raises: the connection closed while c waited for the lock.  Neither
\* jobs_succeeded nor jobs_failed counts it.
SendFails(c) ==
    /\ pc[c] = "send" /\ Closed(worker[c])
    /\ LeaveWorker(c, Error(job[c]))
    /\ UNCHANGED <<count, down>>

\* response_queue.get returns.
TakeAnswer(c) ==
    LET answer == pending[worker[c]][job[c]] IN
    /\ pc[c] = "waiting" /\ answer.type \in Answers
    /\ count' = [count EXCEPT ![worker[c]] = Counted(@, Verdict(answer))]
    /\ LeaveWorker(c, answer)
    /\ UNCHANGED down

\* Mutant: the job stays pending.
Mutant_TimeOut(c) ==
    /\ pc[c] = "waiting" /\ pending[worker[c]][job[c]] = Empty
    /\ lock' = [lock EXCEPT ![worker[c]] = None]
    /\ response' = [response EXCEPT ![c] = Error(job[c])]
    /\ pc' = [pc EXCEPT ![c] = "reply"]
    /\ count' = [count EXCEPT ![worker[c]] = Counted(@, "failed")]
    /\ UNCHANGED <<clientVars, asked, told, job, worker, pending, hubVars, browserVars, down>>

\* Mutant: the job is tried again.
Mutant_TimeOutRetry(c) ==
    /\ pc[c] = "waiting" /\ pending[worker[c]][job[c]] = Empty
    /\ pending' = [pending EXCEPT ![worker[c]][job[c]] = Absent]
    /\ lock' = [lock EXCEPT ![worker[c]] = None]
    /\ pc' = [pc EXCEPT ![c] = "lock"]
    /\ UNCHANGED <<clientVars, asked, told, job, worker, response, count, hubVars,
                   browserVars, down>>

\* response_queue.get times out.
TimeOut(c) ==
    /\ pc[c] = "waiting" /\ pending[worker[c]][job[c]] = Empty
    /\ count' = [count EXCEPT ![worker[c]] = Counted(@, "failed")]
    /\ LeaveWorker(c, Error(job[c]))
    /\ UNCHANGED down

\* record_job_result, clear_progress, connection.send.
Reply(c) ==
    /\ pc[c] = "reply"
    /\ total' = Counted(total, Verdict(response[c]))
    /\ progress' = Without(progress, job[c])
    /\ Tell(c, response[c])
    /\ job' = [job EXCEPT ![c] = None]
    /\ worker' = [worker EXCEPT ![c] = None]
    /\ response' = [response EXCEPT ![c] = None]
    /\ UNCHANGED <<clientVars, asked, workers, alive, workerVars, browserVars, down>>

\* connection.recv raises: the driver has closed the connection, with or
\* without a message still on its way.
ControllerGone(c) ==
    /\ pc[c] = "recv" /\ client[c] = "stopped"
    /\ pc' = [pc EXCEPT ![c] = "ended"]
    /\ asked' = [asked EXCEPT ![c] = None]
    /\ UNCHANGED <<clientVars, told, job, worker, response, hubVars, workerVars, browserVars, down>>

-----------------------------------------------------------------------------
(* A browser connection's thread: _browser_session.                         *)

\* The hello is read and checked; hub.register comes before hello_ack.
Register(w) ==
    /\ session[w] = "hello"
    /\ session' = [session EXCEPT ![w] = "registered"]
    /\ workers' = Append(workers, w)
    /\ total' = Counted(total, "connections")
    /\ UNCHANGED <<clientVars, asked, told, threadVars, alive, progress, workerVars,
                   up, link, greeted, run, tab, quiet, down>>

\* connection.send of hello_ack, outside the try: when it raises, nobody
\* unregisters the worker.
Acknowledge(w) ==
    /\ session[w] = "registered"
    /\ \/ session' = [session EXCEPT ![w] = "serving"] /\ Sent(w, "hello_ack")
       \/ /\ link[Home[w]] # w
          /\ session' = [session EXCEPT ![w] = "failed"]
          /\ UNCHANGED down
    /\ UNCHANGED <<clientVars, asked, told, threadVars, hubVars, workerVars,
                   up, link, greeted, run, tab, quiet>>

\* dispatch: an answer nobody waits for, or a second one, is dropped.
Dispatch(w, m) ==
    pending' = IF pending[w][m.job] = Empty
                   THEN [pending EXCEPT ![w][m.job] = m] ELSE pending

HandleMessage(w) ==
    LET m == Head(up[w]) IN
    /\ session[w] = "serving" /\ up[w] # <<>>
    /\ up' = [up EXCEPT ![w] = Tail(@)]
    /\ quiet' = [quiet EXCEPT ![w] = FALSE]
    /\ \/ m.type \in Answers /\ Dispatch(w, m) /\ UNCHANGED progress
       \/ m.type = "job_progress" /\ RecordProgress(m.job) /\ UNCHANGED pending
    /\ UNCHANGED <<clientVars, asked, told, threadVars, workers, alive, total,
                   lock, count, session, link, greeted, run, tab, down>>

\* A heartbeat refreshes last_seen; alive stays what it is.
Heartbeat(w) ==
    /\ session[w] = "serving" /\ link[Home[w]] = w /\ quiet[w]
    /\ quiet' = [quiet EXCEPT ![w] = FALSE]
    /\ UNCHANGED <<clientVars, asked, told, threadVars, hubVars, workerVars,
                   session, up, link, greeted, run, tab, down>>

\* stale_after_s pass without a message.
FallQuiet(w) ==
    /\ w \in Sleepy \cap Listed /\ ~quiet[w]
    /\ quiet' = [quiet EXCEPT ![w] = TRUE]
    /\ UNCHANGED <<clientVars, asked, told, threadVars, hubVars, workerVars,
                   session, up, link, greeted, run, tab, down>>

\* Mutant: the worker is marked, not removed.
Mutant_Unregister(w) ==
    /\ session[w] = "serving" /\ link[Home[w]] # w
    /\ session' = [session EXCEPT ![w] = "ended"]
    /\ alive' = [alive EXCEPT ![w] = FALSE]
    /\ up' = [up EXCEPT ![w] = <<>>]
    /\ UNCHANGED <<clientVars, asked, told, threadVars, workers, progress, total, workerVars,
                   link, greeted, run, tab, quiet, down>>

\* recv raises, hub.unregister.
Unregister(w) ==
    /\ session[w] = "serving" /\ link[Home[w]] # w
    /\ session' = [session EXCEPT ![w] = "ended"]
    /\ workers' = Without(workers, w)
    /\ alive' = [alive EXCEPT ![w] = FALSE]
    /\ up' = [up EXCEPT ![w] = <<>>]
    /\ UNCHANGED <<clientVars, asked, told, threadVars, progress, total, workerVars,
                   link, greeted, run, tab, quiet, down>>

-----------------------------------------------------------------------------
(* The browsers.                                                            *)

\* A browser opens its next connection and sends hello.
Connect(w) ==
    /\ session[w] = "none" /\ link[Home[w]] = None
    /\ session' = [session EXCEPT ![w] = "hello"]
    /\ link' = [link EXCEPT ![Home[w]] = w]
    /\ UNCHANGED <<clientVars, asked, told, threadVars, hubVars, workerVars,
                   up, greeted, run, tab, quiet, down>>

\* The browser's end of connection w is gone; what it had not read is lost.
Hangs(w) ==
    /\ link' = [link EXCEPT ![Home[w]] = None]
    /\ down' = [down EXCEPT ![w] = <<>>]

\* "Save & reconnect", a broken network, or the end of a service worker or
\* browser, which takes its running turns with it.
Disconnect(b) ==
    /\ link[b] # None
    /\ Hangs(link[b])
    /\ \/ UNCHANGED run
       \/ /\ \E j \in Jobs : tab[j] = b /\ run[j] = "running"
          /\ run' = [j \in Jobs |->
                       IF tab[j] = b /\ run[j] = "running" THEN "lost" ELSE run[j]]
    /\ UNCHANGED <<clientVars, asked, told, threadVars, hubVars, workerVars,
                   session, up, greeted, tab, quiet>>

\* The extension opens a tab for every job it receives; a native host first
\* waits for its hello_ack and gives up when another message comes instead.
Receive(w) ==
    LET m == Head(down[w]) IN
    /\ link[Home[w]] = w /\ down[w] # <<>>
    /\ \/ /\ w \in Native \ greeted /\ m # "hello_ack"
          /\ Hangs(w)
          /\ UNCHANGED <<greeted, run, tab>>
       \/ /\ m = "hello_ack"
          /\ down' = [down EXCEPT ![w] = Tail(@)]
          /\ greeted' = IF w \in Native THEN greeted \cup {w} ELSE greeted
          /\ UNCHANGED <<link, run, tab>>
       \/ /\ w \notin Native \ greeted /\ m \in Jobs
          /\ down' = [down EXCEPT ![w] = Tail(@)]
          /\ run' = [run EXCEPT ![m] = "running"]
          /\ tab' = [tab EXCEPT ![m] = Home[w]]
          /\ UNCHANGED <<link, greeted>>
    /\ UNCHANGED <<clientVars, asked, told, threadVars, hubVars, workerVars,
                   session, up, quiet>>

\* A message over the browser's current connection; send throws when there
\* is none, and the answer of executeJob is lost.
Post(b, message) ==
    up' = IF link[b] = None THEN up ELSE [up EXCEPT ![link[b]] = Append(@, message)]

FinishTurn(j) ==
    /\ run[j] = "running"
    /\ \E answer \in Answers :
        /\ Post(tab[j], [type |-> answer, job |-> j])
        /\ run' = [run EXCEPT ![j] = IF answer = "job_result" THEN "result" ELSE "error"]
    /\ UNCHANGED <<clientVars, asked, told, threadVars, hubVars, workerVars,
                   session, link, greeted, tab, quiet, down>>

ReportProgress(j) ==
    /\ j \in Reporting /\ run[j] = "running" /\ link[tab[j]] # None
    /\ Len(up[link[tab[j]]]) < MaxUp
    /\ Post(tab[j], [type |-> "job_progress", job |-> j])
    /\ UNCHANGED <<clientVars, asked, told, threadVars, hubVars, workerVars,
                   session, link, greeted, run, tab, quiet, down>>

-----------------------------------------------------------------------------

DriverStep(c) ==
    Start(c) \/ Probed(c) \/ (\E j \in Jobs : Submit(c, j)) \/ Accept(c) \/ FailTurn(c) \/ Stop(c)

ThreadStep(c) ==
    \/ HandleProbe(c) \/ RefuseJob(c) \/ RouteJob(c) \/ AcquireWorker(c) \/ SendJob(c)
    \/ SendFails(c) \/ TakeAnswer(c) \/ TimeOut(c) \/ Reply(c) \/ ControllerGone(c)

WorkerStep(w) == Register(w) \/ Acknowledge(w) \/ HandleMessage(w) \/ Unregister(w)

BrowserStep ==
    \/ \E w \in Workers : Connect(w) \/ Receive(w) \/ Heartbeat(w) \/ FallQuiet(w)
    \/ \E b \in Browsers : Disconnect(b)
    \/ \E j \in Jobs : FinishTurn(j) \/ ReportProgress(j)

Next ==
    \/ \E c \in Controllers : DriverStep(c) \/ ThreadStep(c)
    \/ \E w \in Workers : WorkerStep(w)
    \/ BrowserStep \/ Snapshot

Spec == Init /\ [][Next]_vars

\* The server's threads run; timeouts fire.  Weak fairness is enough to get
\* request_lock, as every job takes it once.  Of drivers and browsers nothing
\* is assumed.
FairSpec ==
    /\ Spec
    /\ \A c \in Controllers : WF_vars(ThreadStep(c))
    /\ \A w \in Workers : WF_vars(WorkerStep(w))

-----------------------------------------------------------------------------
(* Properties.                                                              *)

\* However the wait for an answer ends, a worker's request_lock is held by the
\* thread that uses it, and a job is pending at the worker exactly while that
\* thread waits with it; so a worker has one job outstanding, and the answer to a
\* job that is waited for is not dropped.
LockDiscipline ==
    /\ \A w \in Workers : lock[w] # None =>
          worker[lock[w]] = w /\ pc[lock[w]] \in {"send", "waiting"}
    /\ \A w \in Workers, j \in Jobs :
          pending[w][j] # Absent <=> lock[w] # None /\ job[lock[w]] = j

\* What a driver reads while it waits answers its current turn, though
\* earlier turns timed out and their answers are still under way.
AnswerIsForTurn ==
    \A c \in Controllers : client[c] = "waiting" /\ told[c] # None => told[c].job = turn[c]

\* The list of workers is that of the connections a thread serves; the one
\* exception is a worker whose hello_ack could not be sent.
ListedAreServed ==
    /\ \A w \in Workers : w \in Listed <=> session[w] \in {"registered", "serving", "failed"}
    /\ \A m, n \in DOMAIN workers : workers[m] = workers[n] => m = n

\* FUNCTIONAL_REVIEW.md:33, "stale workers are excluded from routing", and jobs
\* are routed only to workers that registered the tunnel: at the time of the
\* choice.  The job may be sent later, to a worker gone stale meanwhile.
RoutedToFitWorker ==
    [][\A c \in Controllers : worker[c] = None /\ worker'[c] # None =>
         worker'[c] \in Listed /\ alive[worker'[c]] /\ ~quiet[worker'[c]]
         /\ Tunnel[c] \in Serves[worker'[c]]]_vars

\* No more progress entries than the cap, and no job twice, whatever the
\* order of late reports.
ProgressBounded ==
    Len(progress) <= ProgressCap
    /\ \A m, n \in DOMAIN progress : progress[m] = progress[n] => m = n

\* The bridge implements the turns a driver promises.
T == INSTANCE TurnService WITH Turns <- Jobs
ImplementsTurns == T!Spec

\* Every job gets its answer, or its driver is gone: waiting for the worker,
\* for a browser that left or for a tab that was closed ends.
JobsEnd ==
    \A c \in Controllers : pc[c] \in {"lock", "send", "waiting", "reply"} ~> pc[c] \in {"recv", "ended"}

=============================================================================
