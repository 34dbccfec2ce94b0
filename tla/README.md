# A TLA+ model of FancyGPT

FancyGPT (`src/fancy_gpt`) turns a coding agent's question into two turns of a
web chat: a *planner* turn that says what the answer will need, and a *final*
turn that gives a report. Around it lies a registry of sessions and chats kept
in plain files, which any number of MCP servers and command-line processes use
at once, and a chain of transports (bridge server, native host, browser
extension, Playwright) that reaches the browser.

These modules model the parts that decide whether work is lost, done twice,
mixed up or rests on less than was asked for: the registry, the two workflows,
the locks between them, the bridge, the choice of a tunnel, the turn on the web
page, and what a request passes from its routing to its report. Paths
below are relative to `src/fancy_gpt` unless they start with `docs/`.

## 1. Inventory

| Component | State | Operations | Talks to |
|---|---|---|---|
| Session registry, `SessionStore` (`store.py`) | `sessions/<id>/session.json`, `sessions/<id>/chats/<id>.json`, one lock file per session, one operation lock per chat | create, ensure, close session; create, select, archive, update chat; main chat; append request | files, `file_lock` |
| Conversation manager (`conversations.py`) | none of its own | resolve a request to a chat, attach a request, bind a provider conversation | session registry, several locked sections per call |
| Request store, `RequestStore` (`store.py`) | `requests/<id>/status.json` and the request's other files, a state lock and an operation lock | create status, compare-and-swap transition, progress, update, fail | files, `file_lock` |
| Review engine (`engine.py`) | none of its own | `run_automatic`; `prepare`, `submit_planner`, `submit_final`; session and chat tools | everything above, a provider |
| File lock and atomic write (`file_lock.py`, `store.py:46`) | `flock` on an open handle, a temporary file per process | lock, read, write, rename, unlock | operating system |
| Automatic provider (`providers/web_automation.py`) | started flag, one daemon poller per turn | start, execute, stop | a browser driver; calls back `update_progress` |
| Bridge (`bridge/`) | workers, pending jobs, progress cache, counters | register, heartbeat, probe, job, progress | WebSockets to controllers and browsers |
| Native host, extension (`bridge/native_host.py`, `extension_assets/`) | sockets, running jobs | relay, reconnect, run a job in a tab | bridge, web page |
| Browser page and response binding (`web/`, `browser/`, `extension_assets/*/site_chatgpt.js`) | page leases or tabs, baseline, bound answer, stability counter | begin, submit, poll, close a turn | web page |
| Tunnels (`tunnels/`, `web/runtime`) | catalog, probe cache of a call, profile lock, browser context | check a composition, probe, select by policy, start, stop | bridge, browsers |
| Context builder (`context_builder.py`, `request_sanitizer.py`) | candidates with their priorities, the pack, its bytes, what was omitted | collect, read under the budget, validate | files, git |
| Routing, planner and report rules (`routing.py`, `capabilities.py`, `planner.py`, `models.py`, `engine.py:109`) | none | pure functions that accept or raise | catalog |
| MCP server, CLI | per-process tunnel lock | one tool per engine operation | engine, tunnels |

How they interact: an MCP tool or a CLI command calls the engine in its own
thread. The engine resolves the request to a chat, creates the request's
status, attaches the request to the chat, runs the planner turn without any
lock, takes the chat's operation lock, reads the chat's conversation again,
runs the final turn, records the conversation, validates and writes the
report, completes. There is no daemon and no shared memory between processes:
they meet only in files and `flock`. Locks nest in one order: operation lock
(request or chat), then session or state lock, which is held for one section
only.

What is hard:

- *Interleaving.* Several operations take more than one locked section
  (`resolve`, `archive_chat`, `bind_conversation`, `ensure_session`); what the
  first read is stale in the second.
- *Crashes.* A process may die between any two file writes. Nothing recovers:
  later calls must live with what is on disk.
- *Failures inside locks.* Providers time out, answers do not parse, reports do
  not validate, all while the chat's operation lock is held.
- *Late callbacks.* The progress poller is not joined, so it writes after its
  turn.
- *Late answers.* A timeout ends the wait at the bridge, not the turn in the
  browser; the browser may connect again meanwhile and answer there.
- *Stale looks.* A tunnel is probed, then used; a file is found, then read; a
  page is polled and every poll is a snapshot.
- *Retries.* A submission that died half way is submitted again, perhaps with
  another manifest, perhaps while another process submits too.

What makes each component correct:

- registry: listed chats have files, one main chat, active chat is listed,
  closed sessions are frozen, whatever crashes (`SessionStore`);
- resolution: what is handed out is usable and was not refused at call time, and a
  conversation is replaced only by a request that did not see it (`Conversations`);
- status: one way through the life cycle, final states are final
  (`RequestStore`, `Lifecycle`);
- automatic runs: one final turn per chat at a time, all in one conversation,
  which is never lost, and every run ends (`AutomaticRun`);
- interactive runs: one plan, one accepted report, the stored one
  (`InteractiveRun`);
- lock and atomic write: a section is one atomic update (`LockedFile`);
- bridge: a turn runs at most once, is answered by its own run, and every job
  ends, through timeouts, late answers and lost connections (`Bridge`,
  `TurnService`);
- page turn: the answer is that of the prompt, whole, and the page is given
  back (`PageTurn`);
- tunnels: the choice rests on what was there, health before policy before
  priority, one browser per profile, nothing left behind (`Tunnels`);
- context and rules: what is mandatory or owed is so from the request to the
  report, within the budget, and what is hidden is so under its name
  (`ContextBuilder`, `RequestRules`, `RequestPipeline`).

## 2. Modules

```
 AtomicFile <--refines-- LockedFile --- LockedFileProofs
                             :
                 (justifies one step per section)
                             :
 SessionStore <--extends-- Conversations <--extends-- AutomaticRun --- AutomaticRunProofs
                   |                                      | instance
             RegistryProofs                               |
                                     InteractiveRun --> RequestStore
                                           |
                                 InteractiveRunProofs

 TurnService <--refines-- Bridge --- BridgeProofs

 ContextBuilder, RequestRules <--extends-- RequestPipeline --- PipelineProofs
 Tunnels --- TunnelsProofs            PageTurn --- PageTurnProofs
```

**SessionStore** is the registry. A variable per kind of file: `session[s]` and
`chat[c]` hold the records, `None` a file that is not there. One action per
locked section. `WriteChatFile` is the section of `create_chat` or
`get_or_create_main_chat` whose process dies after the first of its two writes.
`StoreSpec` lets any section run at any time; it is the abstract specification
the callers are held against.

**Conversations** adds clients. `pc[p]` is the next section of client `p`,
`input`, `target`, `bound` its local variables. `resolve` is
`CallResolve`, `EnsureExists` (an unlocked look), `EnsureCreate`, `EnsureGet`,
one of `PickNamed`, `PickNew`, `PickMain`, `PickClosed`, then perhaps
`BindExplicit`; `archive_chat` is `ArchiveReadSession`, `ArchiveReadChat`,
`ArchiveWrite`. Operations of one section are `ManageStep`. `stale` is a history
variable: the call named a session already closed or a chat already archived.

**RequestStore** is `status.json` with the operations on it. The two workflows
instantiate it. `Lifecycle` is its abstract specification: what a reader of the
status may rely on.

**AutomaticRun** continues a resolved client through `run_automatic`. Its label
names the step; the labels in `LockedLabels` are those under the chat's
operation lock. `FinalFails`, the second disjuncts of `Plan`, `StartProvider`,
`PlannerTurn`, `Report`, and a conflict in `BindRead` are the exceptions; they
leave the `with` block through `Unlock` and end in `RecordFailure`. `PollText`
and `StoreText` are the poller thread, `Crash` the death of the process.
`Answers` is the provider, which is external: it answers in the conversation
it was told, in a new one, or in none it can name.

**InteractiveRun** is `prepare`, `submit_planner`, `submit_final`: callers bring
a manifest or a report of their own, take the operation lock, and write the
request's files one by one.

**LockedFile** is one section instruction by instruction: `flock` on a handle of
the thread's own, read, open, write, rename, unlock, and `Die`, which kills all
threads of a process. **AtomicFile** is what it implements.

**Bridge** is `bridge/server.py` between drivers (`bridge/client.py`) and
browsers. A controller's thread is at `pc[c]`: `RouteJob` is the part of
`_controller_session` up to `worker.request`, `AcquireWorker` to `LeaveWorker`
are `request`, `Reply` the rest. A browser connection's thread is at
`session[w]`: `Register`, `Acknowledge`, then `HandleMessage`, `Heartbeat`,
`Unregister`. The hub's state is `workers` (a list, as `worker_for` takes the
first), `alive`, `quiet` (what the clock says of `last_seen`), `pending`, `lock`,
`progress`, counters. Messages on their way are `asked` and `told` (one at a time,
the driver waits) and the queues `down` and `up`. The browser is external
as far as the page goes; that it runs every job in a tab of its own and answers
over whatever connection it has then is `background.js` and
`bridge_transport.js`. A driver whose turn fails is stopped in the same step
(`FailTurn`): `engine.py:317` stops the provider and nothing else uses it.
**TurnService** is the abstract specification, what `browser/base.py` asks of a
driver: submit once, no silent retry, the answer is that of the turn.

**ContextBuilder** is `build`, one action per step: `CollectIncluded`,
`CollectRequirement`, `TakeArtifact` and `LoopEnds` are its loops, `TakeDiff` adds
the diff and puts the candidates in order, `ReadFile` is one turn of the reading
loop, `Validate` the last check. `Edit` is another program, at any moment
between them. A pattern is given by the names it globs and by the files its
fnmatch reading matches, which the code computes in two places. A file may have
other names than its own: `Links` are symbolic links, `Aliases` pass through a
linked directory. The code tests a name as it was given or globbed (`Hidden`,
`excluded`, and for patterns `is_symlink` of the last component) and resolves it
afterwards (`Leads`), so `ExactFiles` and `GlobFiles` do too: a pattern through a
linked directory takes in a file that is excluded or hidden under its own name,
and refuses the build (`Unsafe`) when it leads outside.

**RequestRules** states the pure rules: `Classifiable` and `Route` are
`classify`, `ValidManifest` is the planner's check, `WellFormed` and
`ModeContract` the validators of the models, `Accounts` is `_validate_report`.
**RequestPipeline** puts them and the builder in the order of `run_automatic`:
what is routed bounds the manifest, the manifest bounds the context and the
report. An answer that is not JSON is refused like one that breaks a rule.

**Tunnels** is `run_request_automatic`. `Compatible` and `Loads` are the catalog's
check, `Begin` and `Probe` the probing with a manager (and snapshot cache) per
call, `Score` and `Select` the resolver. Then come the locks, outermost first:
`TakeTunnel` (of the process), `LockProfile` (a file, Playwright only),
`TakeChat` (a file), and their way back: `FinalTurn`, `CloseContext`,
`UnlockProfile`, `Leave`. Every step between may fail. `Change` is a browser
that comes or goes. Prompts and answers are left to the other modules.

**PageTurn** is one turn on the page, with either driver. `ReadTexts` and
`Observe` are a poll of `wait_for_response`: texts first, then the stop button
and the tracker, with the page moving between. `Poll` is a round of
`executeTurn`, which JavaScript runs in one piece. A text is its length. The
actions under "The page" are the external site; `Load` also takes the content
script with it, and `Retry` is what `sendToContent` then does.

The `MC...` modules give the constants their values; the `*Proofs` modules hold
the theorems.

## 3. Runs

| Run | Question | Bounds |
|---|---|---|
| `conv` | Is the registry consistent, every resolution usable, was it not refused at the call, is a conversation replaced only by a request that did not see it, and is the registry used only through its sections (`StoreSpec`), when two repositories race for sessions that are closed and managed meanwhile? | 2 clients, 2 repositories, all four policies, named chats, 2 explicit conversations, so requests of one chat agree or not, 2 sessions, 2 chats |
| `run_policies` | Are final turns serialized per chat, in the chat's one conversation, which is kept whatever fails? Is a request whose turns began listed, with its report when complete? | 2 runs, all policies, 2 chats, 2 conversations, failures and crashes anywhere |
| `run_ends` | Does every run end? Do late progress texts leave finished requests alone? | 2 runs of one chat, fair threads, a poller with texts of both turns pending |
| `interactive` | One plan, one accepted report, in order, with racing callers and retries after a crash? | 3 callers, 2 requests, 2 manifests |
| `locked_file` | Is a locked section atomic? Does it end? | 2 threads of one process, 2 more processes |
| `bridge` | Does the bridge implement `TurnService`, is its lock discipline kept, are the listed and the chosen workers right, with timeouts, late answers, silence and reconnects? | 2 drivers of 2 tunnels, 2 turns, 1 browser with 2 connections: the first serves both tunnels and may fall silent, the second one |
| `bridge_fair` | Does every job end? Is the progress cache bounded, reports after the answer included? | 2 drivers, 3 turns, one with an unusable timeout, a native host, a cache of 1, 1 report under way |
| `pipeline` | Are budget, mandatory files, priorities and isolation by name kept while files change? Does the report account for everything, and is there always one that would be accepted? | 3 files of 5 kinds, one with a link and a name through a linked directory, another such pair that leads outside, 2 edits, 13 requests of 4 modes, 9 manifests, 13 variants of a report per mode; a budget of 4 or 6 with files of 2, 4 and 9 bytes, so files just fit, just do not, and are too long |
| `tunnels` | Is the choice fresh, healthy and as preferred, is a profile open once, is all given back, does every call end? | 3 calls in 2 processes that share a profile and a chat, one tunnel of each runtime with the catalog's priorities, a browser that comes or goes once, failures anywhere |
| `turn` | Is the answer ours and whole, is the page closed? | 2 drivers, 2 other turns, answers of 3 chunks with balanced brackets after 2, one reload, an end that shows 1 poll late |
| `conv_archive_race`, `turn_resubmit` | Violations, section 5 | |

The bounds are enough for the interesting cases because those need at most two
actors that meet (three where one waits behind two locks), and because data is only compared for equality. Model values that only get copied
are interchangeable, so the safety runs use symmetry; runs with liveness
properties do not.

Deadlock is checked wherever something can always happen. In the `run_*` runs
all runs may be done or dead, and the system then really stops, so
`CHECK_DEADLOCK FALSE` is set; so do the `bridge*` runs when all drivers
and connections are used up, `pipeline` and `turn` when their one request or
turn is over, `tunnels` when all calls are. Every property of a passing run has a mutant: an
operator `Mutant_...` next to the definition it changes, with the bug it stands
for in its comment. They are not part of the specification.

**Fairness.** `FairRunSpec` assumes weak fairness of each run's own steps: a
thread that can go on does, and a provider turn ends because the driver has a
timeout (`providers/web_automation.py:75`). Waiting for the lock is enough with
weak fairness because a run is bounded: each run takes each lock once.
Nothing is assumed of users, pollers and crashes. `LockedFile!FairSpec` assumes
the same of threads between `flock` and unlock. `Bridge!FairSpec` assumes it of
the server's threads, including that `queue.get` times out; of drivers and
browsers nothing. `Tunnels!FairSpec` assumes only that some call steps while one
can, since turns, connections and launches have timeouts; of browsers nothing.

The other properties of `PageTurn` and `RequestPipeline` need no fairness.
`PatienceAssumption` is an assumption about the site: once the stop button has
gone, the whole answer shows within `StablePolls - 2` polls. With a longer delay
both drivers may return a prefix.

## 4. What is proved

For any values of the constants that satisfy the named assumptions of the
modules (`None` is none of the values, inputs have the fields of a request, and
the like):

- `RegistryProofs`, of the store: `StoreTypeCorrect`, `RegistryAlwaysConsistent`,
  `ClosedStaysFrozen`. The inductive invariant is `StoreInv`. That there is one
  main chat is not inductive: `CreateMainChat` only knows that no chat
  is active, so the proof needs `MainImpliesActive` (a session without an active
  chat lists no main chat), which in turn needs that no section takes the active
  chat away. Of the manager: `ClientsUseStore` (`ConvSpec` implements `StoreSpec`,
  so the three hold of all clients), `ResolutionsUsable`, `OnlyUnseenReplaced`,
  `LateRequestsRefused`.
  `ConvInv` says per client what it has learnt in the sections it has left
  (`ClientOK`): the session it looked up exists and is of its repository, the
  chat it picked is stored and listed there. What the others do meanwhile keeps
  that, because no section removes a record, a listed chat or a closing
  (`RegistryGrows`); these lemmas do not say who the others are.
- `LockedFileProofs`: `TypeCorrect`, `SectionsExclude`, and `SectionsAreAtomic`,
  the refinement of `AtomicFile`. The invariant says that whoever is in the
  section has the lock, has read the current record, and that the temporary file
  it will rename is its own, though threads of a process share the name.
- `AutomaticRunProofs`: `RunsUseStore` (every step of a run is a section of the
  registry or leaves it alone, so the registry's theorems hold in all runs),
  `RunTypeCorrect`, `FinalTurnHoldsLock` and `FinalTurnsSerialized`. The
  inductive invariant `RunInv` adds to the registry's what the local variables
  are where they are used (`Located`), that a resolved chat stays readable
  (`TargetsStored`, because no section removes a chat file), and that a run in
  its locked steps has the lock (`LockHeld`). `RunsGetUsable` repeats the
  manager's promises for runs. `RequestsStayAccounted` and `RunsFollowLifecycle`
  need `StageInv`: at each step the status has the state that step implies, a
  request that got past "new" is listed by its chat, and a run about to complete
  has stored its result. `ChatsOwnConversations` and `BindingsAreStable` need
  `BindInv`, which follows a conversation from the answer to the record: it was
  opened, whoever has it works for the same chat, and between the comparison and
  the write of `bind_conversation` the record still has what was compared, because
  of the operation lock. These two are for conversations that come from the
  provider (`ProviderConversations`: no request brings its own `conversation_id`,
  as in `run_policies`). With explicit ones they are false, see section 5.
- `InteractiveRunProofs`: `InteractiveTypeCorrect`, `PlansAreOne`,
  `ReportsAreKept`, `SubmissionsFollowLifecycle`. A caller past its check works
  under the request's lock, so the files it has written so far are its own
  (`PlannerInv`, `FinalInv`), and nothing is stored ahead of the state (`StageInv`).
- `TunnelsProofs`: `TunnelTypeCorrect`, `BrowsersAreAlone`, `CallsLeaveNothing`
  from `LockInv` (each lock is held exactly by the call whose step returns it);
  `ChoicesAreFresh`, `HealthComesFirst`, `PoliciesAreHonoured` from `ChoiceInv`
  (what a call has seen healthy was up since it began). The last two are for
  catalogs whose automatic tunnels have priorities less than 100 apart
  (`CloseTogether`); those of `catalog/tunnels.yaml` lie between 10 and 65. The
  score adds up, so without that they are false.
- `PageTurnProofs`: `PageTypeCorrect`, `AnswersAreOurs`, `PagesAreClosed` from an
  invariant that follows every other turn from the page into the texts that were
  read; `AnswersAreWhole` from `WholeInv`, which counts: a text that was the same
  for `count` polls without a stop button, and is not whole, means a page at
  least that late.
- `PipelineProofs`: `ContextTypeCorrect`, `MandatoryIsKept`, `PriorityIsRespected`,
  `DesignsAreIsolated`, `ReportsAccount`, from `ReadInv` (each candidate is still to
  be read, in the pack, or left out for a reason), `OrderInv` (files are read in
  their order), `IsolationInv` (each file collected for a design was asked for under
  a name that is not a candidate's) and `StageInv` (the stages hand on what they
  checked). `DesignsAreIsolated` is about names, not contents, see section 5. `BudgetIsKept` from `BudgetInv`
  (what is added to the pack was not in it) and `BytesAdd`: the fold `Bytes` grows
  by the size of an element that is added. The fold takes the elements in an order
  of its own choice, so this is an induction on their number; it is done with the
  least number that would refute it (`WFMin`), as the induction theorems take an
  operator. `AnswersExist` says that the rules can be met together
  (`SoberIsValid`): a report that claims nothing is accepted after every accepted
  manifest. Its hypothesis is that the final model is free to answer that one.
- `BridgeProofs`: `BridgeTypeCorrect`, `LocksAreDisciplined`, `AnswersAreForTurns`,
  `ListIsServed`, `ProgressIsBounded`, `RoutesAreFit` and `BridgeImplementsTurns`,
  the refinement of `TurnService`. The invariant has layers. `LockInv`: a thread
  that has sent a job holds its worker's lock, and a queue only gets answers to
  its job. `Dialogue`: a driver and its thread take turns. `OneCopy`: until a job
  runs there is one copy of it, with one thread or at one place of one
  connection, so it runs once. `ResultsAreGenuine`: every result on its way
  comes from a run that ended with it.

Only model-checked: that runs, sections, jobs and calls end (`RunsEnd`,
`SectionsEnd`, `JobsEnd`, `CallsEnd`), as fairness and `ENABLED` are beyond the
prover. Every invariant and every action property of a passing run is stated by a
theorem, those about conversations, scores and possible answers under the
hypotheses named above.

## 5. Where code and documentation disagree

- **`archive_chat` against `select_chat`** (run `conv_archive_race`).
  `docs/SESSION_ARCHITECTURE.md:74` promises that the active chat must be changed
  before it can be archived. `store.py:383` checks in one section and writes in
  another; a `select_chat` between them leaves an archived chat active, and
  `get_or_create_main_chat` then returns it.
- **A turn submitted twice** (run `turn_resubmit`). `SECURITY.md:26` promises that
  every automatic turn submits once, and `browser/base.py:70` forbids silent
  retries. `background.js:22` sends its message to the tab again when
  `tabs.sendMessage` rejects, which it also does when the page is loaded again
  after the prompt was sent; the new content script types it a second time. The
  Python page driver keeps the promise (`submit` is called once).

Five more were met in the code and are not run:

- **One conversation, two chats.** `docs/SESSION_ARCHITECTURE.md:64` says turns
  are not interleaved in one provider conversation. The lock is per chat
  (`engine.py:272`): two chats that were given the same `conversation_id` by their
  requests run in it at once. With conversations that come from the provider
  only, the promise follows from `ChatSerialized` and `ChatOwnsConversation`.
- **A stale worker that talks again.** `alive` goes from true to false when a
  worker is silent for `stale_after_s` and never back; a heartbeat only refreshes
  `last_seen` (`server.py:232`). `TUNNEL_REVIEW.md:23` describes the life cycle by
  heartbeats. The tunnel is unavailable until the browser reconnects.
- **Isolation by name.** `SECURITY.md:13` says candidate designs are removed before
  the `ContextPack` is made, `FUNCTIONAL_REVIEW.md:16` that their isolation is
  enforced by code. The code compares names before it resolves them
  (`context_builder.py:222` and `253`, `_safe_path` after it). The content of a
  candidate is in an independent design's pack when the manifest or another
  artifact asks for it under another name: a link's (`exact_paths`, artifacts), one
  through a linked directory (patterns as well), or the file's own name where the
  request marked a link. The `pipeline` run reaches such states. `Isolated` states what
  is enforced: nothing comes in but by a name that is not a candidate's.
- **Settings that do not stick.** "Save & reconnect" (`popup.html:56`,
  `QUICKSTART.md:155`) stores the settings and should connect with them.
  `disconnect()` only begins to close the old socket. When its `onclose`
  (`bridge_transport.js:54`) comes after the new socket was opened, it sets `socket`,
  by then the new one, to null, clears its heartbeat and sets a timer with the
  old settings. These become the connection in use; the new one stays open
  without heartbeats, and jobs it receives are answered over the other.
- **A native host that does not reconnect.** `popup.html:55` offers "Auto reconnect
  when disconnected". When the bridge is restarted, the host's receiving and
  heartbeat threads set `stopped`, but its main thread stays in `_read_native`
  (`native_host.py:90`) until the extension sends something. An idle extension
  sends nothing: the host stays, `onDisconnect` never comes, the popup says connected.

Not a disagreement, as nothing is promised, but worth knowing: `resolve`
compares an explicit conversation with the chat's in one section and writes it in
another (`conversations.py:57`), so two requests that bring different ones are both
accepted and the second replaces the first. The run of the first then goes on in
the second's conversation, since the engine reads the chat again
(`engine.py:279`). `ReplacedOnlyUnseen` says that this gap is the only way;
bindings by final turns do not have it, the operation lock closes it
(`BindingIsStable` in `run_policies`). A run whose
process dies stays `running-planner` or `running-final` for good, and
`partial_text` of a final turn may show the planner's last words. The bridge
chooses a worker that is not stale (`RoutedToFitWorker`), but the job may then wait
for `request_lock` and be sent to a worker gone stale meanwhile. A worker whose
`hello_ack` could not be sent stays on the hub's list (`server.py:228`); a native
host that is sent a job before its `hello_ack` exits (`native_host.py:58`); a job's
timeout starts when it has the worker's lock, so it may end after its driver gave
up.

About the page: a turn of the conversation's history that is first rendered after
the baseline was taken can be taken for the answer (`AnswerIsOurs` excepts it by
`late`); where the site offers to continue, the page driver returns the prefix,
which then does not parse; when `tabs.sendMessage` neither answers nor rejects,
the tab stays open until someone closes it.

About tunnels: a Playwright tunnel never wins over a healthy one, whatever the
policy, as its health is only degraded (+200 against a bonus of 100); a tunnel
that goes away after the choice fails the call, none is chosen in its place; the
tunnel lock of a process does not keep another process from the same CDP browser;
a `fake` runtime in a catalog can be chosen but has no driver.

About the context: the request's exclude patterns, like the candidates, are held
against the globbed name only, so a pattern through a linked directory takes in an
excluded file; a manifest that requires `<git-diff>` fails when there is no
diff or the request designs; a file taken by the name of a link is in the pack
under its own name, so a required `exact_paths` entry that is a link is not
satisfied; the report's sections are held against the route's, never against
those the manifest's `report_contract` adds; that traced URLs are among the
sources is enforced though no prompt says so.

## 6. Left out

Titles, time stamps, tunnel ids, prompts and reports' text; the order of
`chat_ids` and `request_ids`; the Windows lock (same protocol, `msvcrt`); power
failure (the code does not `fsync`); `resolve` inside `prepare` (it is the one
of `AutomaticRun`). Conversation ids are never reused by the provider. Chat,
session, request and turn ids are drawn fresh (`uuid4`). In `Bridge`: tokens and
malformed messages, `get_progress`, which only reads, a server that shuts down,
and the clock: a timeout may come at any time. In `ContextBuilder`: hashes and
git's revision, how glob and fnmatch read a pattern, encodings other than
"text or not". In `Tunnels`: the bridge's token files and, as in
`PageTurn`, the clock. In `PageTurn`: typing into the composer, `login`, and turns of
several conversations on one driver (a page is leased per turn and they share
nothing; that a driver refuses a turn beyond `max_concurrent_turns` is left out). Skills and domains enter `RequestRules` as constants; the reader of
their YAML, the CLI, installers, statistics and the packaged schemas keep no state
a step depends on.

Partly modelled: the extension's transport (`bridge_transport.js`,
`native_host.py`) as far as `Bridge` sees it. Its reconnect timers, an old socket
whose `onclose` comes after the new one was opened, and the native host's blocking
read are not.

## 7. Plan

Done: all modules and proofs above. What is left, in this order:

1. **ExtensionTransport** (`bridge_transport.js`, `native_host.py`): the sockets of an
   extension with `onopen` and `onclose` as tasks of their own that work on shared
   variables, the reconnect timer with the settings it was set with, the native
   host's process apart from its connection. To ask: is one connection in use,
   announced and kept alive; are there never more forgotten ones than presses of
   the button; is an extension that uses WebSockets connected for good once the
   bridge stays in reach. Then `Bridge` composed with it and with `PageTurn`.
2. Proofs: `ChatOwnsConversation` without `ProviderConversations`, weakened to the
   chats whose requests brought no conversation; that explicit ones do not reach
   those.
