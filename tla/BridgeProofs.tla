----------------------------- MODULE BridgeProofs -----------------------------
(***************************************************************************)
(* For any number of drivers, browsers, connections and turns: the bridge  *)
(* keeps its lock discipline and its list, answers the turn that is waited *)
(* for, and implements the turns a driver promises.                        *)
(***************************************************************************)
EXTENDS Bridge, SequenceTheorems, TLAPS

Busy == {"lock", "send", "waiting", "reply"}

-----------------------------------------------------------------------------
(* The inductive invariant, in layers: each is kept by every step that      *)
(* starts where the ones before it hold.                                    *)

\* A thread has a job and a worker from the choice of the worker to the reply,
\* and the response when it replies.
Locals ==
    \A c \in Controllers :
        /\ pc[c] \in Busy => job[c] \in Jobs /\ worker[c] \in Workers
        /\ pc[c] \notin Busy => job[c] = None /\ worker[c] = None
        /\ pc[c] # "reply" => response[c] = None
        /\ pc[c] = "reply" => response[c] \in AnswerMessages /\ response[c].job = job[c]

\* Whoever has sent a job, or is about to, holds its worker's lock.
HoldsLock == \A c \in Controllers : pc[c] \in {"send", "waiting"} => lock[worker[c]] = c

\* The queue of a job gets answers to that job.
QueuesMatch ==
    \A w \in Workers, j \in Jobs : pending[w][j] \in AnswerMessages => pending[w][j].job = j

LockInv == Locals /\ HoldsLock /\ LockDiscipline /\ QueuesMatch

\* A driver and its thread take turns: what was asked is not read yet, or the
\* thread is at it, or the answer is not read yet.
Dialogue ==
    \A c \in Controllers :
        /\ client[c] # "waiting" => turn[c] = None
        /\ client[c] \in {"new", "starting", "ready"} => pc[c] = "recv"
        /\ client[c] \in {"new", "ready"} => asked[c] = None /\ told[c] = None
        /\ client[c] = "starting" => asked[c] \in {"probe", None}
        /\ client[c] = "waiting" => turn[c] \in Jobs /\ pc[c] # "ended" /\ asked[c] \in {turn[c], None}
        /\ client[c] = "stopped" => told[c] = None /\ asked[c] # "probe"
        /\ asked[c] # None => pc[c] = "recv" /\ told[c] = None
        /\ pc[c] \in Busy => told[c] = None /\ (client[c] = "waiting" => job[c] = turn[c])

DialogueInv == Dialogue /\ AnswerIsForTurn

\* Thread c has job j and has not sent it.
Unsent(c, j) == asked[c] = j \/ (pc[c] \in {"lock", "send"} /\ job[c] = j)

\* Job j is on its way to a browser, at place i of connection w.
UnderWay(w, i, j) == i \in DOMAIN down[w] /\ down[w][i] = j

\* Until a job runs there is one copy of it, with a thread or on its way.
OneCopy ==
    \A j \in Jobs :
        /\ status[j] = "unused" => run[j] = "never"
        /\ \A c \in Controllers : turn[c] = j =>
              status[j] = "submitted" /\ \A d \in Controllers : turn[d] = j => c = d
        /\ \A c \in Controllers : Unsent(c, j) =>
              /\ status[j] # "unused" /\ run[j] = "never"
              /\ \A d \in Controllers : Unsent(d, j) => c = d
              /\ \A w \in Workers, i \in Nat : ~UnderWay(w, i, j)
        /\ \A w \in Workers, i \in Nat : UnderWay(w, i, j) =>
              /\ status[j] # "unused" /\ run[j] = "never"
              /\ \A v \in Workers, k \in Nat : UnderWay(v, k, j) => v = w /\ k = i

\* What claims to be the result of a job came from its run.
Genuine(message) == message.type = "job_result" => run[message.job] = "result"

ResultsAreGenuine ==
    /\ \A w \in Workers : \A i \in DOMAIN up[w] : Genuine(up[w][i])
    /\ \A w \in Workers, j \in Jobs : pending[w][j] \in AnswerMessages => Genuine(pending[w][j])
    /\ \A c \in Controllers : response[c] # None => Genuine(response[c])
    /\ \A c \in Controllers : told[c] # None => Genuine(told[c])

\* A turn that runs has a tab.
RunsHaveTabs == \A j \in Jobs : run[j] = "running" => tab[j] \in Browsers

-----------------------------------------------------------------------------
(* Lists.                                                                   *)

Distinct(list) == \A m, n \in DOMAIN list : list[m] = list[n] => m = n

Members(list) == {list[i] : i \in DOMAIN list}

\* What Without leaves of a list without repetition.
LEMMA WithoutProperties ==
    ASSUME NEW S, NEW list \in Seq(S), NEW item
    PROVE  /\ Without(list, item) \in Seq(S)
           /\ Len(Without(list, item)) <= Len(list)
           /\ Distinct(list) =>
                /\ Distinct(Without(list, item))
                /\ Members(Without(list, item)) = Members(list) \ {item}
  <1> DEFINE places == {i \in DOMAIN list : list[i] = item}
             k == CHOOSE i \in places : TRUE
             left == SubSeq(list, 1, k - 1)
             right == SubSeq(list, k + 1, Len(list))
             new == left \o right
  <1>1. Len(list) \in Nat /\ DOMAIN list = 1 .. Len(list) /\ \A i \in 1 .. Len(list) : list[i] \in S
    BY LenProperties, ElementOfSeq
  <1>2. CASE places = {}
    <2>1. Without(list, item) = list
      BY <1>2 DEF Without
    <2>2. Members(list) = Members(list) \ {item}
      BY <1>2 DEF Members
    <2>3. QED
      BY <1>1, <2>1, <2>2
  <1>3. CASE places # {}
    <2>1. Without(list, item) = new
      BY <1>3 DEF Without, RemoveAt
    <2>2. k \in 1 .. Len(list) /\ list[k] = item
      <3>1. k \in places
        BY <1>3
      <3>2. QED
        BY <3>1, <1>1
    <2> HIDE DEF k
    <2>3. /\ left \in Seq(S) /\ Len(left) = k - 1
          /\ \A i \in 1 .. k - 1 : left[i] = list[i]
      <3>1. \A i \in 1 .. k - 1 : list[i] \in S
        BY <1>1, <2>2
      <3>2. 1 \in Int /\ k - 1 \in Int
        BY <1>1, <2>2
      <3>3. /\ left \in Seq(S)
            /\ Len(left) = IF 1 <= k - 1 THEN k - 1 - 1 + 1 ELSE 0
            /\ \A i \in 1 .. (k - 1) - 1 + 1 : left[i] = list[1 + i - 1]
        BY <3>1, <3>2, SubSeqProperties
      <3>4. QED
        BY <3>3, <1>1, <2>2
    <2>4. /\ right \in Seq(S) /\ Len(right) = Len(list) - k
          /\ \A i \in 1 .. Len(list) - k : right[i] = list[k + i]
      <3>1. \A i \in k + 1 .. Len(list) : list[i] \in S
        BY <1>1, <2>2
      <3>2. k + 1 \in Int /\ Len(list) \in Int
        BY <1>1, <2>2
      <3>3. /\ right \in Seq(S)
            /\ Len(right) = IF k + 1 <= Len(list) THEN Len(list) - (k + 1) + 1 ELSE 0
            /\ \A i \in 1 .. Len(list) - (k + 1) + 1 : right[i] = list[k + 1 + i - 1]
        BY <3>1, <3>2, SubSeqProperties
      <3>4. QED
        BY <3>3, <1>1, <2>2
    <2> HIDE DEF left, right
    <2>5. /\ new \in Seq(S) /\ Len(new) = Len(list) - 1 /\ DOMAIN new = 1 .. Len(list) - 1
          /\ \A i \in 1 .. Len(list) - 1 : new[i] = IF i <= k - 1 THEN list[i] ELSE list[i + 1]
      <3>1. /\ new \in Seq(S) /\ Len(new) = Len(left) + Len(right)
            /\ \A i \in 1 .. Len(left) + Len(right) : new[i] =
                  IF i <= Len(left) THEN left[i] ELSE right[i - Len(left)]
        BY <2>3, <2>4, ConcatProperties
      <3>2. Len(new) = Len(list) - 1 /\ DOMAIN new = 1 .. Len(list) - 1
        <4>1. Len(new) = Len(list) - 1
          BY <3>1, <1>1, <2>2, <2>3, <2>4
        <4> HIDE DEF new
        <4>2. DOMAIN new = 1 .. Len(new)
          BY <3>1, LenProperties
        <4>3. QED
          BY <4>1, <4>2
      <3>3. ASSUME NEW i \in 1 .. Len(list) - 1
            PROVE  new[i] = IF i <= k - 1 THEN list[i] ELSE list[i + 1]
        <4>1. CASE i <= k - 1
          BY <4>1, <3>1, <1>1, <2>2, <2>3, <2>4
        <4>2. CASE ~(i <= k - 1)
          <5>1. i - (k - 1) \in 1 .. Len(list) - k /\ k + (i - (k - 1)) = i + 1
            BY <4>2, <1>1, <2>2
          <5>2. new[i] = right[i - (k - 1)]
            BY <4>2, <3>1, <1>1, <2>2, <2>3, <2>4
          <5>3. right[i - (k - 1)] = list[i + 1]
            BY <5>1, <2>4
          <5>4. QED
            BY <4>2, <5>2, <5>3
        <4>3. QED
          BY <4>1, <4>2
      <3>4. QED
        BY <3>1, <3>2, <3>3
    <2> HIDE DEF new
    <2>6. ASSUME Distinct(list)
          PROVE  /\ Distinct(new)
                 /\ Members(new) = Members(list) \ {item}
      <3> DEFINE source(i) == IF i <= k - 1 THEN i ELSE i + 1
      <3>0. \A i \in DOMAIN new :
               source(i) \in DOMAIN list /\ source(i) # k /\ new[i] = list[source(i)]
        BY <1>1, <2>2, <2>5
      <3>1. Distinct(new)
        <4> SUFFICES ASSUME NEW m \in DOMAIN new, NEW n \in DOMAIN new, new[m] = new[n]
                     PROVE  m = n
          BY DEF Distinct
        <4>1. source(m) = source(n)
          <5> HIDE DEF source
          <5>1. QED
            BY <3>0, <2>6 DEF Distinct
        <4>2. m \in Int /\ n \in Int /\ k \in Int
          BY <1>1, <2>2, <2>5
        <4>3. QED
          BY <4>1, <4>2
      <3>2. ASSUME NEW e, NEW i \in DOMAIN new, new[i] = e
            PROVE  e # item /\ \E n \in DOMAIN list : list[n] = e
        <4> HIDE DEF source
        <4>1. k \in DOMAIN list
          BY <1>1, <2>2
        <4>2. e # list[k]
          BY <3>0, <3>2, <2>6, <4>1 DEF Distinct
        <4>3. QED
          BY <3>0, <3>2, <2>2, <4>2
      <3>3. ASSUME NEW e, e # item, NEW i \in DOMAIN list, list[i] = e
            PROVE  \E n \in DOMAIN new : new[n] = e
        <4>1. CASE i < k
          BY <1>1, <2>2, <2>5, <3>3, <4>1
        <4>2. CASE i > k
          <5>1. i - 1 \in DOMAIN new /\ new[i - 1] = list[i]
            BY <1>1, <2>2, <2>5, <4>2
          <5>2. QED
            BY <5>1, <3>3
        <4>3. i # k
          BY <3>3, <2>2
        <4>4. QED
          BY <4>1, <4>2, <4>3, <1>1, <2>2
      <3>4. QED
        BY <3>1, <3>2, <3>3 DEF Members
    <2>7. Len(new) <= Len(list)
      BY <1>1, <2>5
    <2>8. QED
      BY <2>1, <2>5, <2>6, <2>7
  <1>4. QED
    BY <1>2, <1>3

-----------------------------------------------------------------------------
(* Type correctness.                                                        *)

\* A worker that is found is on the list, and fit.
LEMMA WorkerForIsFit ==
    ASSUME TypeOK, NEW tunnel, NEW w \in WorkerFor(tunnel)
    PROVE  w \in Workers /\ w \in Listed /\ Routable(w, tunnel)
  <1>1. w \in Listed /\ Routable(w, tunnel)
    BY DEF WorkerFor, Scanned, Listed
  <1>2. Listed \subseteq Workers
    BY ElementOfSeq, LenProperties DEF Listed, TypeOK
  <1>3. QED
    BY <1>1, <1>2

LEMMA SentType ==
    ASSUME TypeOK, NEW w \in Workers, NEW m \in DownMessages, Sent(w, m)
    PROVE  down' \in [Workers -> Seq(DownMessages)]
  <1>1. Append(down[w], m) \in Seq(DownMessages)
    BY AppendProperties DEF TypeOK
  <1>2. QED
    BY <1>1 DEF Sent, TypeOK

LEMMA TellType ==
    ASSUME TypeOK, NEW c \in Controllers, NEW m \in ToldMessages, Tell(c, m)
    PROVE  /\ told' \in [Controllers -> ToldMessages \cup {None}]
           /\ pc' = [pc EXCEPT ![c] = IF client[c] = "stopped" THEN "ended" ELSE "recv"]
           /\ told' = IF client[c] = "stopped" THEN told ELSE [told EXCEPT ![c] = m]
  <1>1. CASE client[c] = "stopped"
    BY <1>1 DEF Tell, TypeOK
  <1>2. CASE client[c] # "stopped"
    <2>1. pc' = [pc EXCEPT ![c] = "recv"] /\ told' = [told EXCEPT ![c] = m]
      BY <1>2 DEF Tell
    <2>2. told' \in [Controllers -> ToldMessages \cup {None}]
      BY <2>1 DEF TypeOK
    <2>3. QED
      BY <1>2, <2>1, <2>2
  <1>3. QED
    BY <1>1, <1>2

LEMMA LeaveType ==
    ASSUME TypeOK, NEW c \in Controllers, pc[c] \in Busy, Locals, NEW m \in AnswerMessages,
           LeaveWorker(c, m), count' \in [Workers -> Counters], UNCHANGED down
    PROVE  TypeOK'
  <1>1. job[c] \in Jobs /\ worker[c] \in Workers
    BY DEF Locals
  <1>2. pending' \in [Workers -> [Jobs -> AnswerMessages \cup {Absent, Empty}]]
    BY <1>1 DEF LeaveWorker, TypeOK
  <1>3. QED
    BY <1>1, <1>2 DEF LeaveWorker, TypeOK, clientVars, hubVars, browserVars

\* The counters stay numbers.
LEMMA CountedType ==
    ASSUME TypeOK
    PROVE  /\ \A w \in Workers, which \in {"started", "succeeded", "failed"} :
                [count EXCEPT ![w] = Counted(@, which)] \in [Workers -> Counters]
           /\ \A which \in {"started", "succeeded", "failed", "connections", "probes"} :
                Counted(total, which) \in Totals
  <1>1. ASSUME NEW w \in Workers, NEW which \in {"started", "succeeded", "failed"}
        PROVE  [count EXCEPT ![w] = Counted(@, which)] \in [Workers -> Counters]
    <2>1. count[w] \in Counters
      BY DEF TypeOK
    <2>2. Counted(count[w], which) \in Counters
      <3>1. CASE which = "started"
        BY <2>1, <3>1 DEF Counted, Counters
      <3>2. CASE which = "succeeded"
        BY <2>1, <3>2 DEF Counted, Counters
      <3>3. CASE which = "failed"
        BY <2>1, <3>3 DEF Counted, Counters
      <3>4. QED
        BY <3>1, <3>2, <3>3
    <2>3. QED
      BY <2>2 DEF TypeOK
  <1>2. ASSUME NEW which \in {"started", "succeeded", "failed", "connections", "probes"}
        PROVE  Counted(total, which) \in Totals
    <2>1. total \in Totals
      BY DEF TypeOK, Totals
    <2>2. CASE which = "started"
      BY <2>1, <2>2 DEF Counted, Totals
    <2>3. CASE which = "succeeded"
      BY <2>1, <2>3 DEF Counted, Totals
    <2>4. CASE which = "failed"
      BY <2>1, <2>4 DEF Counted, Totals
    <2>5. CASE which = "connections"
      BY <2>1, <2>5 DEF Counted, Totals
    <2>6. CASE which = "probes"
      BY <2>1, <2>6 DEF Counted, Totals
    <2>7. QED
      BY <2>2, <2>3, <2>4, <2>5, <2>6
  <1>3. QED
    BY <1>1, <1>2

LEMMA MessageTypes ==
    /\ AnswerMessages \subseteq ToldMessages
    /\ \A j \in Jobs : Error(j) \in AnswerMessages /\ Error(j).job = j /\ Error(j).type = "job_error"
    /\ \A m \in AnswerMessages : m.job \in Jobs /\ m.type \in Answers
                                 /\ Verdict(m) \in {"succeeded", "failed"}
    /\ \A m \in AnswerMessages \cup {Absent, Empty} : m.type \in Answers <=> m \in AnswerMessages
    /\ Absent # Empty /\ Absent \notin AnswerMessages /\ Empty \notin AnswerMessages
    /\ \A m \in UpMessages : m.job \in Jobs /\ (m.type \in Answers => m \in AnswerMessages)
    /\ \A m \in ToldMessages : m.type \in Answers => m \in AnswerMessages
  BY DEF AnswerMessages, ToldMessages, UpMessages, Answers, Error, Verdict, Absent, Empty

LEMMA DriverType ==
    ASSUME TypeOK, NEW c \in Controllers, DriverStep(c), Dialogue
    PROVE  TypeOK'
  <1>1. CASE Start(c)
    BY <1>1 DEF Start, TypeOK, threadVars, hubVars, workerVars, browserVars
  <1>2. CASE Probed(c)
    BY <1>2 DEF Probed, Stopped, TypeOK, threadVars, hubVars, workerVars, browserVars
  <1>3. ASSUME NEW j \in Jobs, Submit(c, j) PROVE TypeOK'
    BY <1>3 DEF Submit, TypeOK, threadVars, hubVars, workerVars, browserVars
  <1>4. CASE Accept(c)
    BY <1>4 DEF Accept, TypeOK, threadVars, hubVars, workerVars, browserVars
  <1>5. CASE FailTurn(c)
    BY <1>5 DEF FailTurn, Stopped, TypeOK, threadVars, hubVars, workerVars, browserVars
  <1>6. CASE Stop(c)
    BY <1>6 DEF Stop, Stopped, TypeOK, threadVars, hubVars, workerVars, browserVars
  <1>7. QED
    BY <1>1, <1>2, <1>3, <1>4, <1>5, <1>6 DEF DriverStep

LEMMA ThreadType ==
    ASSUME TypeOK, NEW c \in Controllers, ThreadStep(c), Locals
    PROVE  TypeOK'
  <1> USE DEF threadVars, hubVars, workerVars, browserVars, clientVars
  <1>1. CASE HandleProbe(c)
    <2>1. told' \in [Controllers -> ToldMessages \cup {None}]
      BY <1>1 DEF HandleProbe, TypeOK, ToldMessages
    <2>2. total' \in Totals
      BY <1>1, CountedType DEF HandleProbe
    <2>3. QED
      BY <1>1, <2>1, <2>2 DEF HandleProbe, MarkStale, TypeOK, Totals
  <1>2. CASE RefuseJob(c)
    <2>1. Error(asked[c]) \in ToldMessages
      BY <1>2, MessageTypes DEF RefuseJob
    <2>2. /\ told' \in [Controllers -> ToldMessages \cup {None}]
          /\ pc' = [pc EXCEPT ![c] = IF client[c] = "stopped" THEN "ended" ELSE "recv"]
      BY <1>2, <2>1, TellType DEF RefuseJob
    <2>3. total' \in Totals
      BY <1>2, CountedType DEF RefuseJob
    <2>4. QED
      BY <1>2, <2>2, <2>3 DEF RefuseJob, MarkStale, TypeOK, Totals
  <1>3. CASE RouteJob(c)
    <2>1. worker' \in [Controllers -> Workers \cup {None}]
      BY <1>3, WorkerForIsFit DEF RouteJob, TypeOK
    <2>2. total' \in Totals
      BY <1>3, CountedType DEF RouteJob
    <2>3. pc' \in [Controllers -> {"recv", "lock", "send", "waiting", "reply", "ended"}]
          /\ response' \in [Controllers -> AnswerMessages \cup {None}]
      <3>1. CASE asked[c] \in Impatient
        <4>1. Error(asked[c]) \in AnswerMessages
          BY <1>3, MessageTypes DEF RouteJob
        <4>2. pc' = [pc EXCEPT ![c] = "reply"] /\ response' = [response EXCEPT ![c] = Error(asked[c])]
          BY <1>3, <3>1 DEF RouteJob
        <4>3. QED
          BY <4>1, <4>2 DEF TypeOK
      <3>2. CASE asked[c] \notin Impatient
        BY <1>3, <3>2 DEF RouteJob, TypeOK
      <3>3. QED
        BY <3>1, <3>2
    <2>4. QED
      BY <1>3, <2>1, <2>2, <2>3 DEF RouteJob, MarkStale, TypeOK, Totals
  <1>4. CASE AcquireWorker(c)
    <2>1. job[c] \in Jobs /\ worker[c] \in Workers
      BY <1>4 DEF AcquireWorker, Locals, Busy
    <2>2. count' \in [Workers -> Counters]
      BY <1>4, <2>1, CountedType DEF AcquireWorker
    <2>3. pending' \in [Workers -> [Jobs -> AnswerMessages \cup {Absent, Empty}]]
      BY <1>4, <2>1 DEF AcquireWorker, TypeOK
    <2>4. QED
      BY <1>4, <2>1, <2>2, <2>3 DEF AcquireWorker, TypeOK
  <1>5. CASE SendJob(c)
    <2>1. job[c] \in DownMessages /\ worker[c] \in Workers
      BY <1>5 DEF SendJob, Locals, Busy, DownMessages
    <2>2. down' \in [Workers -> Seq(DownMessages)]
      BY <1>5, <2>1, SentType DEF SendJob
    <2>3. QED
      BY <1>5, <2>2 DEF SendJob, TypeOK
  <1>6. CASE SendFails(c)
    <2>1. job[c] \in Jobs /\ pc[c] \in Busy
      BY <1>6 DEF SendFails, Locals, Busy
    <2>2. QED
      BY <1>6, <2>1, LeaveType, MessageTypes DEF SendFails, TypeOK
  <1>7. CASE TakeAnswer(c)
    <2> DEFINE answer == pending[worker[c]][job[c]]
    <2>1. job[c] \in Jobs /\ worker[c] \in Workers /\ pc[c] \in Busy
      BY <1>7 DEF TakeAnswer, Locals, Busy
    <2>2. answer \in AnswerMessages
      BY <1>7, <2>1, MessageTypes DEF TakeAnswer, TypeOK
    <2>3. count' \in [Workers -> Counters]
      BY <1>7, <2>1, <2>2, CountedType, MessageTypes DEF TakeAnswer
    <2>4. QED
      BY <1>7, <2>1, <2>2, <2>3, LeaveType DEF TakeAnswer
  <1>8. CASE TimeOut(c)
    <2>1. job[c] \in Jobs /\ worker[c] \in Workers /\ pc[c] \in Busy
      BY <1>8 DEF TimeOut, Locals, Busy
    <2>2. count' \in [Workers -> Counters]
      BY <1>8, <2>1, CountedType DEF TimeOut
    <2>3. QED
      BY <1>8, <2>1, <2>2, LeaveType, MessageTypes DEF TimeOut
  <1>9. CASE Reply(c)
    <2>1. response[c] \in AnswerMessages /\ response[c] \in ToldMessages
      BY <1>9, MessageTypes DEF Reply, Locals
    <2>2. /\ told' \in [Controllers -> ToldMessages \cup {None}]
          /\ pc' = [pc EXCEPT ![c] = IF client[c] = "stopped" THEN "ended" ELSE "recv"]
      BY <1>9, <2>1, TellType DEF Reply
    <2>3. total' \in Totals
      BY <1>9, <2>1, MessageTypes, CountedType DEF Reply
    <2>4. progress' \in Seq(Jobs)
      BY <1>9, WithoutProperties DEF Reply, TypeOK
    <2>5. QED
      BY <1>9, <2>2, <2>3, <2>4 DEF Reply, TypeOK, Totals
  <1>10. CASE ControllerGone(c)
    BY <1>10 DEF ControllerGone, TypeOK
  <1>11. QED
    BY <1>1, <1>2, <1>3, <1>4, <1>5, <1>6, <1>7, <1>8, <1>9, <1>10 DEF ThreadStep

LEMMA RecordType ==
    ASSUME progress \in Seq(Jobs), NEW j \in Jobs, RecordProgress(j)
    PROVE  progress' \in Seq(Jobs) /\ (ProgressBounded => ProgressBounded')
  <1> DEFINE old == Without(progress, j)
             updated == Append(old, j)
  <1>1. /\ old \in Seq(Jobs) /\ Len(old) <= Len(progress)
        /\ Distinct(progress) => Distinct(old) /\ Members(old) = Members(progress) \ {j}
    BY WithoutProperties
  <1> HIDE DEF old
  <1>2. /\ updated \in Seq(Jobs) /\ updated # <<>> /\ Len(updated) = Len(old) + 1
        /\ \A i \in 1 .. Len(old) : updated[i] = old[i]
        /\ updated[Len(old) + 1] = j
    BY <1>1, AppendProperties
  <1>3. /\ Len(old) \in Nat /\ DOMAIN old = 1 .. Len(old)
        /\ Len(progress) \in Nat
    BY <1>1, LenProperties
  <1>4. DOMAIN updated = 1 .. Len(old) + 1
    <2> HIDE DEF updated
    <2>1. QED
      BY <1>2, LenProperties
  <1> HIDE DEF updated
  <1>5. Distinct(progress) => Distinct(updated)
    <2>1. Distinct(progress) => \A i \in DOMAIN old : old[i] # j
      BY <1>1 DEF Members
    <2>2. QED
      BY <1>1, <1>2, <1>3, <1>4, <2>1 DEF Distinct
  <1>6. /\ Tail(updated) \in Seq(Jobs) /\ Len(Tail(updated)) = Len(updated) - 1
        /\ \A i \in 1 .. Len(Tail(updated)) : Tail(updated)[i] = updated[i + 1]
    BY <1>2, HeadTailProperties
  <1>7. DOMAIN Tail(updated) = 1 .. Len(old)
    <2>1. DOMAIN Tail(updated) = 1 .. Len(Tail(updated))
      BY <1>6, LenProperties
    <2>2. QED
      BY <2>1, <1>2, <1>3, <1>6
  <1>8. Distinct(updated) => Distinct(Tail(updated))
    <2> SUFFICES ASSUME Distinct(updated),
                        NEW m \in 1 .. Len(old), NEW n \in 1 .. Len(old),
                        Tail(updated)[m] = Tail(updated)[n]
                 PROVE  m = n
      BY <1>7 DEF Distinct
    <2>1. updated[m + 1] = updated[n + 1]
      BY <1>2, <1>3, <1>6
    <2>2. m + 1 \in DOMAIN updated /\ n + 1 \in DOMAIN updated
      BY <1>3, <1>4
    <2>3. m + 1 = n + 1
      BY <2>1, <2>2 DEF Distinct
    <2>4. QED
      BY <2>3, <1>3
  <1>9. progress' = IF Len(updated) > ProgressCap THEN Tail(updated) ELSE updated
    BY DEF RecordProgress, updated, old
  <1>10. progress' \in Seq(Jobs)
    BY <1>2, <1>6, <1>9
  <1>11. ASSUME ProgressBounded PROVE ProgressBounded'
    <2>1. Distinct(progress) /\ Len(progress) <= ProgressCap
      BY <1>11 DEF ProgressBounded, Distinct
    <2>2. Distinct(progress')
      BY <2>1, <1>5, <1>8, <1>9
    <2>3. Len(progress') <= ProgressCap
      BY <2>1, <1>1, <1>2, <1>3, <1>6, <1>9, WiringAssumption
    <2>4. QED
      BY <2>2, <2>3 DEF ProgressBounded, Distinct
  <1>12. QED
    BY <1>10, <1>11

LEMMA HeadOfUp ==
    ASSUME TypeOK, NEW w \in Workers, up[w] # <<>>
    PROVE  Head(up[w]) \in UpMessages /\ Tail(up[w]) \in Seq(UpMessages)
           /\ Head(up[w]) = up[w][1] /\ 1 \in DOMAIN up[w]
  <1>1. up[w] \in Seq(UpMessages)
    BY DEF TypeOK
  <1>2. Len(up[w]) \in Nat /\ DOMAIN up[w] = 1 .. Len(up[w]) /\ Len(up[w]) # 0
    BY <1>1, EmptySeq, LenProperties
  <1>3. QED
    BY <1>1, <1>2, HeadTailProperties

LEMMA HeadOfDown ==
    ASSUME TypeOK, NEW w \in Workers, down[w] # <<>>
    PROVE  /\ Head(down[w]) \in DownMessages /\ Tail(down[w]) \in Seq(DownMessages)
           /\ Head(down[w]) = down[w][1] /\ 1 \in DOMAIN down[w]
           /\ \A i \in DOMAIN Tail(down[w]) :
                 i \in Nat \ {0} /\ i + 1 \in DOMAIN down[w] /\ Tail(down[w])[i] = down[w][i + 1]
  <1>1. down[w] \in Seq(DownMessages)
    BY DEF TypeOK
  <1>2. Len(down[w]) \in Nat /\ DOMAIN down[w] = 1 .. Len(down[w]) /\ Len(down[w]) # 0
    BY <1>1, EmptySeq, LenProperties
  <1>3. /\ Head(down[w]) \in DownMessages /\ Tail(down[w]) \in Seq(DownMessages)
        /\ Len(Tail(down[w])) = Len(down[w]) - 1
        /\ \A i \in 1 .. Len(Tail(down[w])) : Tail(down[w])[i] = down[w][i + 1]
    BY <1>1, HeadTailProperties
  <1>4. DOMAIN Tail(down[w]) = 1 .. Len(Tail(down[w]))
    BY <1>3, LenProperties
  <1>5. QED
    BY <1>1, <1>2, <1>3, <1>4

LEMMA DispatchType ==
    ASSUME TypeOK, NEW w \in Workers, NEW m \in AnswerMessages, Dispatch(w, m)
    PROVE  pending' \in [Workers -> [Jobs -> AnswerMessages \cup {Absent, Empty}]]
  <1>1. m.job \in Jobs
    BY MessageTypes
  <1>2. QED
    BY <1>1 DEF Dispatch, TypeOK

LEMMA WorkerType ==
    ASSUME TypeOK, NEW w \in Workers, WorkerStep(w)
    PROVE  TypeOK'
  <1> USE DEF threadVars, hubVars, workerVars, clientVars
  <1>1. CASE Register(w)
    <2>1. workers' \in Seq(Workers)
      <3>1. workers \in Seq(Workers)
        BY DEF TypeOK
      <3>2. Append(workers, w) \in Seq(Workers)
        BY <3>1, AppendProperties
      <3>3. QED
        BY <1>1, <3>2 DEF Register
    <2>2. total' \in Totals
      BY <1>1, CountedType DEF Register
    <2>3. QED
      BY <1>1, <2>1, <2>2 DEF Register, TypeOK, Totals
  <1>2. CASE Acknowledge(w)
    <2>1. down' \in [Workers -> Seq(DownMessages)]
      <3>1. "hello_ack" \in DownMessages
        BY DEF DownMessages
      <3>2. QED
        BY <1>2, <3>1, SentType DEF Acknowledge, TypeOK
    <2>2. session' \in [Workers -> {"none", "hello", "registered", "serving", "failed", "ended"}]
      <3>1. session' = [session EXCEPT ![w] = "serving"] \/ session' = [session EXCEPT ![w] = "failed"]
        BY <1>2 DEF Acknowledge
      <3>2. QED
        BY <3>1 DEF TypeOK
    <2>3. QED
      BY <1>2, <2>1, <2>2 DEF Acknowledge, TypeOK
  <1>3. CASE HandleMessage(w)
    <2> DEFINE m == Head(up[w])
    <2>1. m \in UpMessages /\ Tail(up[w]) \in Seq(UpMessages)
      BY <1>3, HeadOfUp DEF HandleMessage
    <2>2. up' \in [Workers -> Seq(UpMessages)] /\ quiet' \in [Workers -> BOOLEAN]
      BY <1>3, <2>1 DEF HandleMessage, TypeOK
    <2>3. CASE m.type \in Answers /\ Dispatch(w, m) /\ UNCHANGED progress
      <3>1. pending' \in [Workers -> [Jobs -> AnswerMessages \cup {Absent, Empty}]]
        BY <2>1, <2>3, DispatchType, MessageTypes
      <3>2. QED
        BY <1>3, <2>2, <2>3, <3>1 DEF HandleMessage, TypeOK
    <2>4. CASE RecordProgress(m.job) /\ UNCHANGED pending
      <3>1. progress' \in Seq(Jobs)
        BY <2>1, <2>4, RecordType, MessageTypes DEF TypeOK
      <3>2. QED
        BY <1>3, <2>2, <2>4, <3>1 DEF HandleMessage, TypeOK
    <2>5. QED
      BY <1>3, <2>3, <2>4 DEF HandleMessage
  <1>4. CASE Unregister(w)
    <2>1. workers' \in Seq(Workers)
      BY <1>4, WithoutProperties DEF Unregister, TypeOK
    <2>2. up' \in [Workers -> Seq(UpMessages)]
      BY <1>4, EmptySeq DEF Unregister, TypeOK
    <2>3. QED
      BY <1>4, <2>1, <2>2 DEF Unregister, TypeOK
  <1>5. QED
    BY <1>1, <1>2, <1>3, <1>4 DEF WorkerStep

LEMMA HangsType ==
    ASSUME TypeOK, NEW w \in Workers, Hangs(w)
    PROVE  /\ link' \in [Browsers -> Workers \cup {None}]
           /\ down' \in [Workers -> Seq(DownMessages)]
  BY EmptySeq DEF Hangs, TypeOK

LEMMA PostType ==
    ASSUME TypeOK, NEW b \in Browsers, NEW m \in UpMessages, Post(b, m)
    PROVE  /\ up' \in [Workers -> Seq(UpMessages)]
           /\ link[b] = None => UNCHANGED up
           /\ link[b] # None => link[b] \in Workers
                               /\ up' = [up EXCEPT ![link[b]] = Append(@, m)]
  <1>1. CASE link[b] = None
    BY <1>1 DEF Post, TypeOK
  <1>2. CASE link[b] # None
    <2>1. link[b] \in Workers
      BY <1>2 DEF TypeOK
    <2>2. up[link[b]] \in Seq(UpMessages)
      BY <2>1 DEF TypeOK
    <2>3. Append(up[link[b]], m) \in Seq(UpMessages)
      BY <2>2, AppendProperties
    <2>4. up' = [up EXCEPT ![link[b]] = Append(@, m)]
      BY <1>2 DEF Post
    <2>5. up' \in [Workers -> Seq(UpMessages)]
      BY <2>1, <2>3, <2>4 DEF TypeOK
    <2>6. QED
      BY <1>2, <2>1, <2>4, <2>5
  <1>3. QED
    BY <1>1, <1>2

LEMMA BrowserType ==
    ASSUME TypeOK, BrowserStep \/ Snapshot, RunsHaveTabs
    PROVE  TypeOK' /\ RunsHaveTabs'
  <1> USE DEF threadVars, hubVars, workerVars, clientVars
  <1>1. ASSUME NEW w \in Workers, Connect(w) PROVE TypeOK' /\ RunsHaveTabs'
    <2>1. Home[w] \in Browsers
      BY WiringAssumption
    <2>2. QED
      BY <1>1, <2>1 DEF Connect, TypeOK, RunsHaveTabs
  <1>2. ASSUME NEW w \in Workers, Receive(w) PROVE TypeOK' /\ RunsHaveTabs'
    <2> DEFINE m == Head(down[w])
    <2>1. m \in DownMessages /\ Tail(down[w]) \in Seq(DownMessages) /\ Home[w] \in Browsers
      BY <1>2, HeadOfDown, WiringAssumption DEF Receive
    <2> HIDE DEF m
    <2>2. CASE Hangs(w) /\ UNCHANGED <<greeted, run, tab>>
      BY <1>2, <2>2, HangsType DEF Receive, TypeOK, RunsHaveTabs
    <2>3. CASE /\ down' = [down EXCEPT ![w] = Tail(@)]
               /\ greeted' = IF w \in Native THEN greeted \cup {w} ELSE greeted
               /\ UNCHANGED <<link, run, tab>>
      BY <1>2, <2>1, <2>3 DEF Receive, TypeOK, RunsHaveTabs
    <2>4. CASE /\ m \in Jobs
               /\ down' = [down EXCEPT ![w] = Tail(@)]
               /\ run' = [run EXCEPT ![m] = "running"]
               /\ tab' = [tab EXCEPT ![m] = Home[w]]
               /\ UNCHANGED <<link, greeted>>
      BY <1>2, <2>1, <2>4 DEF Receive, TypeOK, RunsHaveTabs
    <2>5. QED
      BY <1>2, <2>2, <2>3, <2>4 DEF Receive, m
  <1>3. ASSUME NEW w \in Workers, Heartbeat(w) PROVE TypeOK' /\ RunsHaveTabs'
    BY <1>3 DEF Heartbeat, TypeOK, RunsHaveTabs
  <1>4. ASSUME NEW w \in Workers, FallQuiet(w) PROVE TypeOK' /\ RunsHaveTabs'
    BY <1>4 DEF FallQuiet, TypeOK, RunsHaveTabs
  <1>5. ASSUME NEW b \in Browsers, Disconnect(b) PROVE TypeOK' /\ RunsHaveTabs'
    <2>1. link[b] \in Workers /\ Hangs(link[b])
      BY <1>5 DEF Disconnect, TypeOK
    <2>2. run' \in [Jobs -> {"never", "running", "result", "error", "lost"}]
          /\ \A j \in Jobs : run'[j] = "running" => run[j] = "running"
      BY <1>5 DEF Disconnect, TypeOK
    <2>3. QED
      BY <1>5, <2>1, <2>2, HangsType DEF Disconnect, TypeOK, RunsHaveTabs
  <1>6. ASSUME NEW j \in Jobs, FinishTurn(j) PROVE TypeOK' /\ RunsHaveTabs'
    <2>1. PICK answer \in Answers :
            /\ Post(tab[j], [type |-> answer, job |-> j])
            /\ run' = [run EXCEPT ![j] = IF answer = "job_result" THEN "result" ELSE "error"]
      BY <1>6 DEF FinishTurn
    <2>2. [type |-> answer, job |-> j] \in UpMessages /\ tab[j] \in Browsers
      BY <1>6 DEF FinishTurn, RunsHaveTabs, UpMessages
    <2>3. up' \in [Workers -> Seq(UpMessages)]
      BY <2>1, <2>2, PostType
    <2>4. QED
      BY <1>6, <2>1, <2>3 DEF FinishTurn, TypeOK, RunsHaveTabs
  <1>7. ASSUME NEW j \in Jobs, ReportProgress(j) PROVE TypeOK' /\ RunsHaveTabs'
    <2>1. [type |-> "job_progress", job |-> j] \in UpMessages /\ tab[j] \in Browsers
      BY <1>7 DEF ReportProgress, RunsHaveTabs, UpMessages
    <2>2. up' \in [Workers -> Seq(UpMessages)]
      BY <1>7, <2>1, PostType DEF ReportProgress
    <2>3. QED
      BY <1>7, <2>2 DEF ReportProgress, TypeOK, RunsHaveTabs
  <1>8. CASE Snapshot
    BY <1>8 DEF Snapshot, MarkStale, TypeOK, RunsHaveTabs, browserVars
  <1>9. QED
    BY <1>1, <1>2, <1>3, <1>4, <1>5, <1>6, <1>7, <1>8 DEF BrowserStep

-----------------------------------------------------------------------------
(* The worker's lock and its queues.                                        *)

LEMMA LeaveKeepsLocks ==
    ASSUME TypeOK, LockInv, NEW c \in Controllers, pc[c] \in {"send", "waiting"},
           NEW m \in AnswerMessages, m.job = job[c], LeaveWorker(c, m)
    PROVE  LockInv'
  <1> DEFINE w == worker[c]
             j == job[c]
  <1>1. w \in Workers /\ j \in Jobs /\ lock[w] = c
    BY DEF LockInv, Locals, HoldsLock, Busy
  <1>2. /\ lock' = [lock EXCEPT ![w] = None] /\ pending' = [pending EXCEPT ![w][j] = Absent]
        /\ pc' = [pc EXCEPT ![c] = "reply"] /\ response' = [response EXCEPT ![c] = m]
        /\ UNCHANGED <<job, worker>>
    BY DEF LeaveWorker
  <1>3. \A d \in Controllers : d # c /\ pc[d] \in {"send", "waiting"} => worker[d] # w
    BY <1>1 DEF LockInv, HoldsLock
  <1>4. Locals'
    BY <1>1, <1>2 DEF LockInv, Locals, Busy, TypeOK
  <1>5. HoldsLock'
    BY <1>1, <1>2, <1>3 DEF LockInv, Locals, HoldsLock, Busy, TypeOK
  <1>6. pending' \in [Workers -> [Jobs -> AnswerMessages \cup {Absent, Empty}]]
    BY <1>1, <1>2 DEF TypeOK
  <1>7. \A v \in Workers, i \in Jobs :
           pending'[v][i] = IF v = w /\ i = j THEN Absent ELSE pending[v][i]
    BY <1>1, <1>2 DEF TypeOK
  <1>8. LockDiscipline'
    <2>1. \A v \in Workers : lock'[v] = IF v = w THEN None ELSE lock[v]
      BY <1>1, <1>2 DEF TypeOK
    <2>2. \A v \in Workers : lock'[v] # None =>
             worker'[lock'[v]] = v /\ pc'[lock'[v]] \in {"send", "waiting"}
      BY <1>1, <1>2, <2>1 DEF LockInv, LockDiscipline, TypeOK
    <2>3. \A i \in Jobs : i # j => pending[w][i] = Absent
      BY <1>1 DEF LockInv, LockDiscipline
    <2>4. \A v \in Workers, i \in Jobs :
             pending'[v][i] # Absent <=> lock'[v] # None /\ job'[lock'[v]] = i
      BY <1>1, <1>2, <1>7, <2>1, <2>3 DEF LockInv, LockDiscipline
    <2>5. QED
      BY <2>2, <2>4 DEF LockDiscipline
  <1>9. QueuesMatch'
    BY <1>7, MessageTypes DEF LockInv, QueuesMatch
  <1>10. QED
    BY <1>4, <1>5, <1>8, <1>9 DEF LockInv

\* Steps outside the worker's section.
LEMMA FreeThreadKeepsLocks ==
    ASSUME TypeOK, LockInv, NEW c \in Controllers,
           pc[c] \notin {"send", "waiting"}, pc'[c] \notin {"send", "waiting"},
           \A d \in Controllers \ {c} : pc'[d] = pc[d] /\ job'[d] = job[d] /\ worker'[d] = worker[d],
           UNCHANGED <<lock, pending>>, Locals'
    PROVE  LockInv'
  <1>1. \A w \in Workers : lock[w] # None => lock[w] \in Controllers \ {c}
    BY DEF LockInv, LockDiscipline, TypeOK
  <1>2. HoldsLock' /\ QueuesMatch'
    BY DEF LockInv, HoldsLock, QueuesMatch
  <1>3. LockDiscipline'
    BY <1>1 DEF LockInv, LockDiscipline
  <1>4. QED
    BY <1>2, <1>3 DEF LockInv

LEMMA ThreadKeepsLocks ==
    ASSUME TypeOK, LockInv, NEW c \in Controllers, ThreadStep(c)
    PROVE  LockInv'
  <1> USE DEF threadVars, hubVars, workerVars, browserVars, clientVars
  <1>1. CASE HandleProbe(c)
    BY <1>1 DEF HandleProbe, LockInv, Locals, HoldsLock, LockDiscipline, QueuesMatch
  <1>2. CASE RefuseJob(c)
    <2>1. pc' = [pc EXCEPT ![c] = pc'[c]] /\ pc'[c] \in {"recv", "ended"}
          /\ UNCHANGED <<job, worker, response, lock, pending>> /\ pc[c] = "recv"
      BY <1>2 DEF RefuseJob, Tell, TypeOK
    <2>2. \A d \in Controllers : pc'[d] = pc[d] \/ (pc[d] = "recv" /\ pc'[d] \in {"recv", "ended"})
      BY <2>1 DEF TypeOK
    <2>3. Locals'
      BY <2>1, <2>2 DEF LockInv, Locals, Busy
    <2>4. QED
      BY <2>1, <2>3, FreeThreadKeepsLocks DEF TypeOK
  <1>3. CASE RouteJob(c)
    <2>1. PICK w \in WorkerFor(Tunnel[c]) : worker' = [worker EXCEPT ![c] = w]
      BY <1>3 DEF RouteJob
    <2>2. w \in Workers
      BY WorkerForIsFit
    <2>3. /\ job' = [job EXCEPT ![c] = asked[c]] /\ asked[c] \in Jobs /\ pc[c] = "recv"
          /\ \/ pc' = [pc EXCEPT ![c] = "lock"] /\ response' = response
             \/ pc' = [pc EXCEPT ![c] = "reply"] /\ response' = [response EXCEPT ![c] = Error(asked[c])]
          /\ UNCHANGED <<lock, pending>>
      BY <1>3 DEF RouteJob
    <2>4. Error(asked[c]) \in AnswerMessages /\ Error(asked[c]).job = asked[c]
      BY <2>3, MessageTypes
    <2>5. Locals'
      BY <2>1, <2>2, <2>3, <2>4 DEF LockInv, Locals, Busy, TypeOK
    <2>6. QED
      BY <2>1, <2>3, <2>5, FreeThreadKeepsLocks DEF TypeOK
  <1>4. CASE AcquireWorker(c)
    <2> DEFINE w == worker[c]
               j == job[c]
    <2>1. w \in Workers /\ j \in Jobs /\ lock[w] = None /\ pc[c] = "lock"
      BY <1>4 DEF AcquireWorker, LockInv, Locals, Busy
    <2>2. /\ lock' = [lock EXCEPT ![w] = c] /\ pending' = [pending EXCEPT ![w][j] = Empty]
          /\ pc' = [pc EXCEPT ![c] = "send"] /\ UNCHANGED <<job, worker, response>>
      BY <1>4 DEF AcquireWorker
    <2>3. \A v \in Workers, i \in Jobs :
             pending'[v][i] = IF v = w /\ i = j THEN Empty ELSE pending[v][i]
      BY <2>1, <2>2 DEF TypeOK
    <2>4. Locals'
      BY <2>1, <2>2 DEF LockInv, Locals, Busy, TypeOK
    <2>5. c # None
      BY WiringAssumption
    <2>6. \A v \in Workers : lock'[v] = IF v = w THEN c ELSE lock[v]
      BY <2>1, <2>2 DEF TypeOK
    <2>7. \A d \in Controllers : pc'[d] = IF d = c THEN "send" ELSE pc[d]
      BY <2>2 DEF TypeOK
    <2>8. HoldsLock'
      <3>1. \A d \in Controllers : d # c /\ pc[d] \in {"send", "waiting"} =>
               d # None /\ worker[d] \in Workers /\ worker[d] # w
        BY <2>1, WiringAssumption DEF LockInv, HoldsLock, Locals, Busy
      <3>2. QED
        BY <2>1, <2>2, <2>6, <2>7, <3>1 DEF LockInv, HoldsLock
    <2>9. QueuesMatch'
      BY <2>3, MessageTypes DEF LockInv, QueuesMatch
    <2>10. \A i \in Jobs : pending[w][i] = Absent
      BY <2>1 DEF LockInv, LockDiscipline
    <2>11. \A v \in Workers : lock'[v] # None =>
              worker'[lock'[v]] = v /\ pc'[lock'[v]] \in {"send", "waiting"}
      BY <2>1, <2>2, <2>6, <2>7 DEF LockInv, LockDiscipline, TypeOK
    <2>12. \A v \in Workers, i \in Jobs :
              pending'[v][i] # Absent <=> lock'[v] # None /\ job'[lock'[v]] = i
      BY <2>1, <2>2, <2>3, <2>5, <2>6, <2>10, MessageTypes DEF LockInv, LockDiscipline
    <2>13. QED
      BY <2>4, <2>8, <2>9, <2>11, <2>12 DEF LockInv, LockDiscipline
  <1>5. CASE SendJob(c)
    <2>1. pc' = [pc EXCEPT ![c] = "waiting"] /\ pc[c] = "send"
          /\ UNCHANGED <<job, worker, response, lock, pending>>
      BY <1>5 DEF SendJob
    <2>2. \A d \in Controllers : pc'[d] = pc[d] \/ (pc[d] = "send" /\ pc'[d] = "waiting")
      BY <2>1 DEF TypeOK
    <2>3. Locals' /\ HoldsLock'
      BY <2>1, <2>2 DEF LockInv, Locals, HoldsLock, Busy
    <2>4. LockDiscipline' /\ QueuesMatch'
      BY <2>1, <2>2 DEF LockInv, LockDiscipline, QueuesMatch, TypeOK
    <2>5. QED
      BY <2>3, <2>4 DEF LockInv
  <1>6. CASE SendFails(c) \/ TimeOut(c)
    <2>1. job[c] \in Jobs /\ pc[c] \in {"send", "waiting"} /\ LeaveWorker(c, Error(job[c]))
      BY <1>6 DEF SendFails, TimeOut, LockInv, Locals, Busy
    <2>2. QED
      BY <2>1, LeaveKeepsLocks, MessageTypes
  <1>7. CASE TakeAnswer(c)
    <2> DEFINE answer == pending[worker[c]][job[c]]
    <2>1. job[c] \in Jobs /\ worker[c] \in Workers /\ pc[c] = "waiting"
          /\ answer.type \in Answers /\ LeaveWorker(c, answer)
      BY <1>7 DEF TakeAnswer, LockInv, Locals, Busy
    <2>2. answer \in AnswerMessages
      BY <2>1, MessageTypes DEF TypeOK
    <2>3. answer.job = job[c]
      BY <2>1, <2>2 DEF LockInv, QueuesMatch
    <2>4. QED
      BY <2>1, <2>2, <2>3, LeaveKeepsLocks
  <1>8. CASE Reply(c)
    <2>1. /\ pc[c] = "reply" /\ pc' = [pc EXCEPT ![c] = pc'[c]] /\ pc'[c] \in {"recv", "ended"}
          /\ job' = [job EXCEPT ![c] = None] /\ worker' = [worker EXCEPT ![c] = None]
          /\ response' = [response EXCEPT ![c] = None] /\ UNCHANGED <<lock, pending>>
      BY <1>8 DEF Reply, Tell, TypeOK
    <2>2. Locals'
      BY <2>1 DEF LockInv, Locals, Busy, TypeOK
    <2>3. QED
      BY <2>1, <2>2, FreeThreadKeepsLocks DEF TypeOK
  <1>9. CASE ControllerGone(c)
    <2>1. pc[c] = "recv" /\ pc' = [pc EXCEPT ![c] = "ended"]
          /\ UNCHANGED <<job, worker, response, lock, pending>>
      BY <1>9 DEF ControllerGone
    <2>2. Locals'
      BY <2>1 DEF LockInv, Locals, Busy, TypeOK
    <2>3. QED
      BY <2>1, <2>2, FreeThreadKeepsLocks DEF TypeOK
  <1>10. QED
    BY <1>1, <1>2, <1>3, <1>4, <1>5, <1>6, <1>7, <1>8, <1>9 DEF ThreadStep

\* An answer is put where one is awaited, and nowhere else.
LEMMA MessageKeepsLocks ==
    ASSUME TypeOK, LockInv, NEW w \in Workers, HandleMessage(w)
    PROVE  LockInv'
  <1> DEFINE m == Head(up[w])
  <1>1. m \in UpMessages
    BY HeadOfUp DEF HandleMessage
  <1>2. UNCHANGED <<pc, job, worker, response, lock>>
    BY DEF HandleMessage, threadVars
  <1>3. CASE UNCHANGED pending
    BY <1>2, <1>3 DEF LockInv, Locals, HoldsLock, LockDiscipline, QueuesMatch
  <1>4. CASE pending' # pending
    <2>1. m.type \in Answers /\ Dispatch(w, m)
      BY <1>4 DEF HandleMessage
    <2>2. m \in AnswerMessages /\ m.job \in Jobs
      BY <1>1, <2>1, MessageTypes
    <2>3. pending[w][m.job] = Empty /\ pending' = [pending EXCEPT ![w][m.job] = m]
      BY <1>4, <2>1 DEF Dispatch
    <2> HIDE DEF m
    <2>4. \A v \in Workers, i \in Jobs :
             pending'[v][i] = IF v = w /\ i = m.job THEN m ELSE pending[v][i]
      BY <2>2, <2>3 DEF TypeOK
    <2>5. \A v \in Workers, i \in Jobs : pending'[v][i] # Absent <=> pending[v][i] # Absent
      BY <2>2, <2>3, <2>4, MessageTypes
    <2>6. LockDiscipline'
      BY <1>2, <2>5 DEF LockInv, LockDiscipline
    <2>7. QueuesMatch'
      BY <2>4 DEF LockInv, QueuesMatch
    <2>8. QED
      BY <1>2, <2>6, <2>7 DEF LockInv, Locals, HoldsLock
  <1>5. QED
    BY <1>3, <1>4

\* The other steps leave locks, queues and threads alone.
LEMMA LocksFrame ==
    ASSUME LockInv, UNCHANGED <<pc, job, worker, response, lock, pending>>
    PROVE  LockInv'
  BY DEF LockInv, Locals, HoldsLock, LockDiscipline, QueuesMatch

-----------------------------------------------------------------------------
(* Drivers and their threads.                                               *)

LEMMA DriverKeepsDialogue ==
    ASSUME TypeOK, LockInv, DialogueInv, NEW c \in Controllers, DriverStep(c)
    PROVE  DialogueInv'
  <1> USE WiringAssumption DEF DialogueInv, Dialogue, AnswerIsForTurn, TypeOK
  <1>1. CASE Start(c)
    BY <1>1 DEF Start, threadVars, Busy
  <1>2. CASE Probed(c)
    <2>1. /\ client[c] = "starting" /\ told[c] # None
          /\ \/ /\ client' = [client EXCEPT ![c] = "ready"]
                /\ told' = [told EXCEPT ![c] = None] /\ UNCHANGED turn
             \/ Stopped(c)
          /\ UNCHANGED <<asked, pc, job>>
      BY <1>2 DEF Probed, threadVars
    <2>2. asked[c] = None /\ pc[c] = "recv" /\ turn[c] = None
      BY <2>1
    <2>3. \E next \in {"ready", "stopped"} :
             /\ client' = [client EXCEPT ![c] = next] /\ told' = [told EXCEPT ![c] = None]
             /\ turn' = [turn EXCEPT ![c] = None]
      BY <2>1, <2>2 DEF Stopped
    <2>4. QED
      BY <2>1, <2>2, <2>3 DEF Busy
  <1>3. ASSUME NEW j \in Jobs, Submit(c, j) PROVE DialogueInv'
    BY <1>3 DEF Submit, threadVars, Busy
  <1>4. CASE Accept(c)
    BY <1>4 DEF Accept, threadVars, Busy
  <1>5. CASE FailTurn(c)
    <2>1. client[c] = "waiting" /\ Stopped(c) /\ UNCHANGED <<asked, pc, job>>
      BY <1>5 DEF FailTurn, threadVars
    <2>2. asked[c] # "probe"
      BY <2>1
    <2>3. QED
      BY <2>1, <2>2 DEF Stopped, Busy
  <1>6. CASE Stop(c)
    BY <1>6 DEF Stop, Stopped, threadVars, Busy
  <1>7. QED
    BY <1>1, <1>2, <1>3, <1>4, <1>5, <1>6 DEF DriverStep

\* The thread answers: when the driver waits, it is the answer to its turn.
LEMMA TellKeepsDialogue ==
    ASSUME TypeOK, DialogueInv, NEW c \in Controllers, NEW m \in AnswerMessages, Tell(c, m),
           client[c] \in {"waiting", "stopped"}, client[c] = "waiting" => m.job = turn[c],
           asked' = [asked EXCEPT ![c] = None],
           \A d \in Controllers \ {c} : job'[d] = job[d],
           UNCHANGED clientVars
    PROVE  DialogueInv'
  <1>1. m \in ToldMessages /\ m # None
    BY MessageTypes, WiringAssumption
  <1>2. /\ pc' = [pc EXCEPT ![c] = IF client[c] = "stopped" THEN "ended" ELSE "recv"]
        /\ told' = IF client[c] = "stopped" THEN told ELSE [told EXCEPT ![c] = m]
    BY <1>1, TellType
  <1>3. \A d \in Controllers : d # c => pc'[d] = pc[d] /\ told'[d] = told[d] /\ asked'[d] = asked[d]
    BY <1>2 DEF TypeOK
  <1>4. asked'[c] = None /\ pc'[c] \notin Busy
    BY <1>2 DEF TypeOK, Busy
  <1>5. CASE client[c] = "stopped"
    <2>1. told'[c] = None /\ client'[c] = "stopped" /\ turn'[c] = None
      BY <1>2, <1>5 DEF DialogueInv, Dialogue, clientVars
    <2>2. QED
      BY <1>3, <1>4, <2>1, WiringAssumption DEF DialogueInv, Dialogue, AnswerIsForTurn, clientVars
  <1>6. CASE client[c] = "waiting"
    <2>1. told'[c] = m /\ client'[c] = "waiting" /\ turn'[c] = turn[c] /\ turn[c] \in Jobs /\ pc'[c] = "recv"
      BY <1>2, <1>6 DEF DialogueInv, Dialogue, clientVars, TypeOK
    <2>2. QED
      BY <1>3, <1>4, <1>6, <2>1 DEF DialogueInv, Dialogue, AnswerIsForTurn, clientVars
  <1>7. QED
    BY <1>5, <1>6

LEMMA ThreadKeepsDialogue ==
    ASSUME TypeOK, LockInv, DialogueInv, NEW c \in Controllers, ThreadStep(c)
    PROVE  DialogueInv'
  <1> USE DEF threadVars, hubVars, workerVars, browserVars, clientVars
  <1>1. CASE HandleProbe(c)
    <2>1. client[c] = "starting" /\ pc[c] = "recv"
      BY <1>1, WiringAssumption DEF HandleProbe, DialogueInv, Dialogue, TypeOK
    <2>2. QED
      BY <1>1, <2>1 DEF HandleProbe, DialogueInv, Dialogue, AnswerIsForTurn, TypeOK, Busy
  <1>2. CASE RefuseJob(c)
    <2>1. asked[c] \in Jobs /\ client[c] \in {"waiting", "stopped"}
          /\ (client[c] = "waiting" => asked[c] = turn[c])
      BY <1>2, WiringAssumption DEF RefuseJob, DialogueInv, Dialogue, TypeOK
    <2>2. Error(asked[c]) \in AnswerMessages /\ Error(asked[c]).job = asked[c]
      BY <2>1, MessageTypes
    <2>3. QED
      BY <1>2, <2>1, <2>2, TellKeepsDialogue DEF RefuseJob
  <1>3. CASE RouteJob(c)
    <2>1. asked[c] \in Jobs /\ client[c] \in {"waiting", "stopped"} /\ told[c] = None
          /\ (client[c] = "waiting" => asked[c] = turn[c])
      BY <1>3, WiringAssumption DEF RouteJob, DialogueInv, Dialogue, TypeOK
    <2>2. job' = [job EXCEPT ![c] = asked[c]] /\ asked' = [asked EXCEPT ![c] = None]
          /\ (pc' = [pc EXCEPT ![c] = "lock"] \/ pc' = [pc EXCEPT ![c] = "reply"])
          /\ UNCHANGED <<client, turn, told>>
      BY <1>3 DEF RouteJob
    <2>3. /\ job'[c] = asked[c] /\ asked'[c] = None /\ pc'[c] \in {"lock", "reply"}
          /\ \A d \in Controllers \ {c} :
                job'[d] = job[d] /\ asked'[d] = asked[d] /\ pc'[d] = pc[d]
      BY <2>2 DEF TypeOK
    <2>4. QED
      BY <2>1, <2>2, <2>3, WiringAssumption DEF DialogueInv, Dialogue, AnswerIsForTurn, Busy
  <1>4. CASE AcquireWorker(c) \/ SendJob(c) \/ SendFails(c) \/ TakeAnswer(c) \/ TimeOut(c)
    <2>1. \E next \in Busy : pc' = [pc EXCEPT ![c] = next]
      BY <1>4 DEF AcquireWorker, SendJob, SendFails, TakeAnswer, TimeOut, LeaveWorker, Busy
    <2>2. pc[c] \in Busy /\ UNCHANGED <<client, turn, asked, told, job>>
      BY <1>4 DEF AcquireWorker, SendJob, SendFails, TakeAnswer, TimeOut, LeaveWorker, Busy
    <2>3. QED
      BY <2>1, <2>2 DEF DialogueInv, Dialogue, AnswerIsForTurn, TypeOK, Busy
  <1>5. CASE Reply(c)
    <2>1. pc[c] = "reply" /\ response[c] \in AnswerMessages /\ response[c].job = job[c]
      BY <1>5 DEF Reply, LockInv, Locals
    <2>2. client[c] \in {"waiting", "stopped"} /\ (client[c] = "waiting" => job[c] = turn[c])
          /\ asked[c] = None
      BY <2>1 DEF DialogueInv, Dialogue, TypeOK, Busy
    <2>3. asked' = [asked EXCEPT ![c] = None]
      BY <1>5, <2>2 DEF Reply, TypeOK
    <2>4. QED
      BY <1>5, <2>1, <2>2, <2>3, TellKeepsDialogue DEF Reply, TypeOK
  <1>6. CASE ControllerGone(c)
    <2>1. /\ client[c] = "stopped" /\ asked'[c] = None /\ pc'[c] = "ended"
          /\ \A d \in Controllers \ {c} : asked'[d] = asked[d] /\ pc'[d] = pc[d]
          /\ UNCHANGED <<client, turn, told, job>>
      BY <1>6 DEF ControllerGone, TypeOK
    <2>2. QED
      BY <2>1, WiringAssumption DEF DialogueInv, Dialogue, AnswerIsForTurn, Busy
  <1>7. QED
    BY <1>1, <1>2, <1>3, <1>4, <1>5, <1>6 DEF ThreadStep

LEMMA DialogueFrame ==
    ASSUME DialogueInv, UNCHANGED <<client, turn, asked, told, pc, job>>
    PROVE  DialogueInv'
  BY DEF DialogueInv, Dialogue, AnswerIsForTurn

-----------------------------------------------------------------------------
(* One copy of a job.                                                       *)

\* What a step leaves of the copies when it adds none.
LEMMA FewerCopies ==
    ASSUME OneCopy,
           \A j \in Jobs : run'[j] = run[j] \/ (run[j] # "never" /\ run'[j] # "never"),
           \A j \in Jobs : status'[j] = status[j] \/ (status[j] = "submitted" /\ status'[j] # "unused"),
           \A j \in Jobs, c \in Controllers : Unsent(c, j)' => Unsent(c, j),
           \A j \in Jobs, w \in Workers, i \in Nat : UnderWay(w, i, j)' => UnderWay(w, i, j),
           \A j \in Jobs, c \in Controllers : turn'[c] = j => turn[c] = j /\ status'[j] = status[j]
    PROVE  OneCopy'
  <1> SUFFICES ASSUME NEW j \in Jobs
               PROVE  /\ status'[j] = "unused" => run'[j] = "never"
                      /\ \A c \in Controllers : turn'[c] = j =>
                            status'[j] = "submitted" /\ \A d \in Controllers : turn'[d] = j => c = d
                      /\ \A c \in Controllers : Unsent(c, j)' =>
                            /\ status'[j] # "unused" /\ run'[j] = "never"
                            /\ \A d \in Controllers : Unsent(d, j)' => c = d
                            /\ \A w \in Workers, i \in Nat : ~UnderWay(w, i, j)'
                      /\ \A w \in Workers, i \in Nat : UnderWay(w, i, j)' =>
                            /\ status'[j] # "unused" /\ run'[j] = "never"
                            /\ \A v \in Workers, k \in Nat : UnderWay(v, k, j)' => v = w /\ k = i
    BY DEF OneCopy
  <1>1. status'[j] = "unused" => run'[j] = "never"
    BY DEF OneCopy
  <1>2. \A c \in Controllers : turn'[c] = j =>
            status'[j] = "submitted" /\ \A d \in Controllers : turn'[d] = j => c = d
    BY DEF OneCopy
  <1>3. ASSUME NEW c \in Controllers, Unsent(c, j)'
        PROVE  /\ status'[j] # "unused" /\ run'[j] = "never"
               /\ \A d \in Controllers : Unsent(d, j)' => c = d
               /\ \A w \in Workers, i \in Nat : ~UnderWay(w, i, j)'
    BY <1>3 DEF OneCopy
  <1>4. ASSUME NEW w \in Workers, NEW i \in Nat, UnderWay(w, i, j)'
        PROVE  /\ status'[j] # "unused" /\ run'[j] = "never"
               /\ \A v \in Workers, k \in Nat : UnderWay(v, k, j)' => v = w /\ k = i
    BY <1>4 DEF OneCopy
  <1>5. QED
    BY <1>1, <1>2, <1>3, <1>4

LEMMA DriverKeepsCopies ==
    ASSUME TypeOK, DialogueInv, OneCopy, NEW c \in Controllers, DriverStep(c)
    PROVE  OneCopy'
  <1>1. UNCHANGED <<pc, job, down, run>>
    BY DEF DriverStep, Start, Probed, Submit, Accept, FailTurn, Stop, threadVars, browserVars
  <1>2. \A j \in Jobs, w \in Workers, i \in Nat : UnderWay(w, i, j)' <=> UnderWay(w, i, j)
    BY <1>1 DEF UnderWay
  <1>3. CASE Start(c) \/ Probed(c) \/ Stop(c)
    <2>1. UNCHANGED status
      BY <1>3 DEF Start, Probed, Stop
    <2>2. \A j \in Jobs, d \in Controllers : Unsent(d, j)' => Unsent(d, j)
      <3>1. \A d \in Controllers : asked'[d] = asked[d] \/ asked'[d] = "probe"
        BY <1>3 DEF Start, Probed, Stop, TypeOK
      <3>2. QED
        BY <1>1, <3>1, WiringAssumption DEF Unsent
    <2>3. \A j \in Jobs, d \in Controllers : turn'[d] = j => turn[d] = j
      BY <1>3, WiringAssumption DEF Start, Probed, Stop, Stopped, TypeOK
    <2>4. QED
      BY <1>1, <1>2, <2>1, <2>2, <2>3, FewerCopies
  <1>4. ASSUME NEW j \in Jobs, Submit(c, j) PROVE OneCopy'
    <2>1. /\ status[j] = "unused" /\ status' = [status EXCEPT ![j] = "submitted"]
          /\ turn' = [turn EXCEPT ![c] = j] /\ asked' = [asked EXCEPT ![c] = j]
          /\ pc[c] = "recv"
      BY <1>4 DEF Submit, DialogueInv, Dialogue
    <2>2. \A d \in Controllers, i \in Jobs :
             /\ turn'[d] = (IF d = c THEN j ELSE turn[d])
             /\ Unsent(d, i)' => Unsent(d, i) \/ (d = c /\ i = j)
             /\ d = c => (Unsent(d, i)' => i = j)
      BY <1>1, <2>1 DEF Unsent, TypeOK
    <2>3. \A d \in Controllers : ~Unsent(d, j) /\ turn[d] # j
      BY <2>1 DEF OneCopy
    <2>4. \A w \in Workers, i \in Nat : ~UnderWay(w, i, j)
      BY <2>1 DEF OneCopy
    <2>5. \A i \in Jobs : status'[i] = IF i = j THEN "submitted" ELSE status[i]
      BY <2>1 DEF TypeOK
    <2>6. \A i \in Jobs : run'[i] = run[i]
      BY <1>1
    <2>7. run[j] = "never"
      BY <2>1 DEF OneCopy
    <2> HIDE DEF Unsent, UnderWay
    <2>8. SUFFICES ASSUME NEW i \in Jobs
                 PROVE  /\ status'[i] = "unused" => run'[i] = "never"
                        /\ \A d \in Controllers : turn'[d] = i =>
                              status'[i] = "submitted" /\ \A e \in Controllers : turn'[e] = i => d = e
                        /\ \A d \in Controllers : Unsent(d, i)' =>
                              /\ status'[i] # "unused" /\ run'[i] = "never"
                              /\ \A e \in Controllers : Unsent(e, i)' => d = e
                              /\ \A w \in Workers, k \in Nat : ~UnderWay(w, k, i)'
                        /\ \A w \in Workers, k \in Nat : UnderWay(w, k, i)' =>
                              /\ status'[i] # "unused" /\ run'[i] = "never"
                              /\ \A v \in Workers, n \in Nat : UnderWay(v, n, i)' => v = w /\ n = k
      BY DEF OneCopy
    <2>9. CASE i = j
      BY <2>9, <1>2, <2>2, <2>3, <2>4, <2>5, <2>6, <2>7
    <2>10. CASE i # j
      <3>1. status'[i] = status[i] /\ run'[i] = run[i]
            /\ \A d \in Controllers : (turn'[d] = i => turn[d] = i) /\ (Unsent(d, i)' => Unsent(d, i))
        BY <2>10, <2>2, <2>5, <2>6
      <3>2. QED
        BY <1>2, <3>1 DEF OneCopy
    <2>11. QED
      BY <2>9, <2>10
  <1>5. CASE Accept(c) \/ FailTurn(c)
    <2>1. /\ client[c] = "waiting" /\ turn' = [turn EXCEPT ![c] = None] /\ UNCHANGED asked
          /\ \E end \in {"result", "error"} : status' = [status EXCEPT ![turn[c]] = end]
      BY <1>5 DEF Accept, FailTurn, Stopped
    <2>2. turn[c] \in Jobs /\ status[turn[c]] = "submitted"
      BY <2>1 DEF DialogueInv, Dialogue, OneCopy
    <2>3. \A j \in Jobs : status'[j] = status[j] \/ (status[j] = "submitted" /\ status'[j] # "unused")
      BY <2>1, <2>2 DEF TypeOK
    <2>4. \A j \in Jobs, d \in Controllers : turn'[d] = j => turn[d] = j /\ d # c
      BY <2>1, WiringAssumption DEF TypeOK
    <2>5. \A j \in Jobs, d \in Controllers : turn'[d] = j => j # turn[c]
      BY <2>2, <2>4 DEF OneCopy
    <2>6. \A j \in Jobs, d \in Controllers : turn'[d] = j => status'[j] = status[j]
      BY <2>1, <2>5 DEF TypeOK
    <2>7. \A j \in Jobs, d \in Controllers : Unsent(d, j)' => Unsent(d, j)
      BY <1>1, <2>1 DEF Unsent
    <2>8. QED
      BY <1>1, <1>2, <2>3, <2>4, <2>6, <2>7, FewerCopies
  <1>6. QED
    BY <1>3, <1>4, <1>5 DEF DriverStep

\* Sending adds the message at the end.
LEMMA SentUnderWay ==
    ASSUME TypeOK, NEW w \in Workers, NEW m \in DownMessages, Sent(w, m)
    PROVE  \A v \in Workers, i \in Nat, j \in Jobs : UnderWay(v, i, j)' =>
              UnderWay(v, i, j) \/ (v = w /\ i = Len(down[w]) + 1 /\ j = m)
  <1>1. CASE UNCHANGED down
    BY <1>1 DEF UnderWay
  <1>2. CASE down' = [down EXCEPT ![w] = Append(@, m)]
    <2>1. down[w] \in Seq(DownMessages)
      BY DEF TypeOK
    <2>2. /\ Append(down[w], m) \in Seq(DownMessages)
          /\ Len(Append(down[w], m)) = Len(down[w]) + 1
          /\ \A i \in 1 .. Len(down[w]) : Append(down[w], m)[i] = down[w][i]
          /\ Append(down[w], m)[Len(down[w]) + 1] = m
      BY <2>1, AppendProperties
    <2>3. Len(down[w]) \in Nat /\ DOMAIN down[w] = 1 .. Len(down[w])
          /\ DOMAIN Append(down[w], m) = 1 .. Len(down[w]) + 1
      BY <2>1, <2>2, LenProperties
    <2>4. \A v \in Workers : down'[v] = IF v = w THEN Append(down[w], m) ELSE down[v]
      BY <1>2 DEF TypeOK
    <2>5. ASSUME NEW v \in Workers, NEW i \in Nat, NEW j \in Jobs, UnderWay(v, i, j)'
          PROVE  UnderWay(v, i, j) \/ (v = w /\ i = Len(down[w]) + 1 /\ j = m)
      <3>1. CASE v # w
        BY <2>4, <2>5, <3>1 DEF UnderWay
      <3>2. CASE v = w
        <4>1. i \in 1 .. Len(down[w]) + 1 /\ Append(down[w], m)[i] = j
          BY <2>3, <2>4, <2>5, <3>2 DEF UnderWay
        <4>2. CASE i = Len(down[w]) + 1
          BY <2>2, <3>2, <4>1, <4>2
        <4>3. CASE i # Len(down[w]) + 1
          BY <2>2, <2>3, <3>2, <4>1, <4>3 DEF UnderWay
        <4>4. QED
          BY <4>2, <4>3
      <3>3. QED
        BY <3>1, <3>2
    <2>6. QED
      BY <2>5
  <1>3. QED
    BY <1>1, <1>2 DEF Sent

LEMMA ThreadKeepsCopies ==
    ASSUME TypeOK, LockInv, DialogueInv, OneCopy, NEW c \in Controllers, ThreadStep(c)
    PROVE  OneCopy'
  <1>1. UNCHANGED <<turn, status, run>>
    BY DEF ThreadStep, HandleProbe, RefuseJob, RouteJob, AcquireWorker, SendJob, SendFails,
           TakeAnswer, TimeOut, LeaveWorker, Reply, ControllerGone, clientVars, browserVars
  <1>2. CASE SendJob(c)
    <2> DEFINE w == worker[c]
               j == job[c]
    <2>1. /\ pc[c] = "send" /\ pc' = [pc EXCEPT ![c] = "waiting"] /\ UNCHANGED <<asked, job>>
          /\ Sent(w, j) /\ w \in Workers /\ j \in Jobs /\ asked[c] = None
      BY <1>2 DEF SendJob, threadVars, LockInv, Locals, Busy, DialogueInv, Dialogue
    <2>2. j \in DownMessages /\ Unsent(c, j)
      BY <2>1 DEF DownMessages, Unsent
    <2>3. \A v \in Workers, i \in Nat, k \in Jobs : UnderWay(v, i, k)' =>
             UnderWay(v, i, k) \/ (v = w /\ i = Len(down[w]) + 1 /\ k = j)
      BY <2>1, <2>2, SentUnderWay
    <2>4. \A d \in Controllers, k \in Jobs : Unsent(d, k)' => Unsent(d, k) /\ d # c
      BY <2>1, WiringAssumption DEF Unsent, TypeOK
    <2>5. /\ status[j] # "unused" /\ run[j] = "never"
          /\ \A d \in Controllers : d # c => ~Unsent(d, j)
          /\ \A v \in Workers, i \in Nat : ~UnderWay(v, i, j)
      BY <2>1, <2>2 DEF OneCopy
    <2> HIDE DEF w, j, Unsent, UnderWay
    <2>6. ASSUME NEW k \in Jobs
          PROVE  /\ \A d \in Controllers : Unsent(d, k)' =>
                       /\ status'[k] # "unused" /\ run'[k] = "never"
                       /\ \A e \in Controllers : Unsent(e, k)' => d = e
                       /\ \A v \in Workers, i \in Nat : ~UnderWay(v, i, k)'
                 /\ \A v \in Workers, i \in Nat : UnderWay(v, i, k)' =>
                       /\ status'[k] # "unused" /\ run'[k] = "never"
                       /\ \A u \in Workers, n \in Nat : UnderWay(u, n, k)' => u = v /\ n = i
      <3>1. CASE k = j
        BY <1>1, <2>3, <2>4, <2>5, <3>1
      <3>2. CASE k # j
        BY <1>1, <2>3, <2>4, <3>2 DEF OneCopy
      <3>3. QED
        BY <3>1, <3>2
    <2>7. QED
      BY <1>1, <2>6 DEF OneCopy
  <1>3. CASE ~SendJob(c)
    <2>1. UNCHANGED down
      BY <1>3 DEF ThreadStep, HandleProbe, RefuseJob, RouteJob, AcquireWorker, SendFails,
                  TakeAnswer, TimeOut, Reply, ControllerGone
    <2>2. \A d \in Controllers, k \in Jobs : Unsent(d, k)' => Unsent(d, k)
      <3> USE DEF threadVars, Unsent, TypeOK
      <3>1. CASE HandleProbe(c)
        BY <3>1, WiringAssumption DEF HandleProbe
      <3>2. CASE RefuseJob(c)
        <4>1. /\ pc[c] = "recv" /\ asked' = [asked EXCEPT ![c] = None] /\ UNCHANGED job
              /\ pc' = [pc EXCEPT ![c] = pc'[c]] /\ pc'[c] \in {"recv", "ended"}
          BY <3>2 DEF RefuseJob, Tell
        <4>2. QED
          BY <4>1, WiringAssumption
      <3>3. CASE RouteJob(c)
        <4>1. /\ asked' = [asked EXCEPT ![c] = None] /\ job' = [job EXCEPT ![c] = asked[c]]
              /\ pc' = [pc EXCEPT ![c] = "lock"] \/ pc' = [pc EXCEPT ![c] = "reply"]
          BY <3>3 DEF RouteJob
        <4>2. QED
          BY <4>1, WiringAssumption
      <3>4. CASE AcquireWorker(c)
        <4>1. pc[c] = "lock" /\ pc' = [pc EXCEPT ![c] = "send"] /\ UNCHANGED <<asked, job>>
          BY <3>4 DEF AcquireWorker
        <4>2. QED
          BY <4>1
      <3>5. CASE SendFails(c) \/ TakeAnswer(c) \/ TimeOut(c)
        <4>1. pc' = [pc EXCEPT ![c] = "reply"] /\ UNCHANGED <<asked, job>>
          BY <3>5 DEF SendFails, TakeAnswer, TimeOut, LeaveWorker
        <4>2. QED
          BY <4>1
      <3>6. CASE Reply(c)
        <4>1. /\ pc' = [pc EXCEPT ![c] = pc'[c]] /\ pc'[c] \in {"recv", "ended"} /\ UNCHANGED asked
              /\ job' = [job EXCEPT ![c] = None]
          BY <3>6 DEF Reply, Tell
        <4>2. QED
          BY <4>1
      <3>7. CASE ControllerGone(c)
        <4>1. /\ pc' = [pc EXCEPT ![c] = "ended"] /\ asked' = [asked EXCEPT ![c] = None] /\ UNCHANGED job
          BY <3>7 DEF ControllerGone
        <4>2. QED
          BY <4>1, WiringAssumption
      <3>8. QED
        BY <1>3, <3>1, <3>2, <3>3, <3>4, <3>5, <3>6, <3>7 DEF ThreadStep
    <2>3. \A v \in Workers, i \in Nat, k \in Jobs : UnderWay(v, i, k)' => UnderWay(v, i, k)
      BY <2>1 DEF UnderWay
    <2>4. QED
      BY <1>1, <2>2, <2>3, FewerCopies
  <1>4. QED
    BY <1>2, <1>3

LEMMA WorkerKeepsCopies ==
    ASSUME TypeOK, OneCopy, NEW w \in Workers, WorkerStep(w)
    PROVE  OneCopy'
  <1>1. UNCHANGED <<turn, status, run, asked, pc, job>>
    BY DEF WorkerStep, Register, Acknowledge, HandleMessage, Unregister, clientVars, threadVars
  <1>2. UNCHANGED down \/ Sent(w, "hello_ack")
    BY DEF WorkerStep, Register, Acknowledge, HandleMessage, Unregister
  <1>3. "hello_ack" \in DownMessages /\ "hello_ack" \notin Jobs
    BY WiringAssumption DEF DownMessages
  <1>4. \A v \in Workers, i \in Nat, k \in Jobs : UnderWay(v, i, k)' => UnderWay(v, i, k)
    <2>1. CASE UNCHANGED down
      BY <2>1 DEF UnderWay
    <2>2. CASE Sent(w, "hello_ack")
      BY <1>3, <2>2, SentUnderWay
    <2>3. QED
      BY <1>2, <2>1, <2>2
  <1>5. \A d \in Controllers, k \in Jobs : Unsent(d, k)' => Unsent(d, k)
    BY <1>1 DEF Unsent
  <1>6. QED
    BY <1>1, <1>4, <1>5, FewerCopies

LEMMA BrowserKeepsCopies ==
    ASSUME TypeOK, OneCopy, BrowserStep \/ Snapshot
    PROVE  OneCopy'
  <1>1. UNCHANGED <<turn, status, asked, pc, job>>
    BY DEF BrowserStep, Snapshot, Connect, Receive, Heartbeat, FallQuiet, Disconnect,
           FinishTurn, ReportProgress, clientVars, threadVars
  <1>2. \A d \in Controllers, k \in Jobs : Unsent(d, k)' <=> Unsent(d, k)
    BY <1>1 DEF Unsent
  <1>3. ASSUME NEW w \in Workers, Receive(w) PROVE OneCopy'
    <2>0. PICK m \in DownMessages : m = Head(down[w])
      BY <1>3, HeadOfDown DEF Receive
    <2>1. /\ Tail(down[w]) \in Seq(DownMessages) /\ UnderWay(w, 1, m)
          /\ \A i \in DOMAIN Tail(down[w]) :
                i \in Nat \ {0} /\ i + 1 \in DOMAIN down[w] /\ Tail(down[w])[i] = down[w][i + 1]
      BY <1>3, <2>0, HeadOfDown DEF Receive, UnderWay
    <2>2. ASSUME Hangs(w), UNCHANGED run PROVE OneCopy'
      <3>1. \A v \in Workers, i \in Nat, k \in Jobs : UnderWay(v, i, k)' => UnderWay(v, i, k)
        BY <2>2 DEF Hangs, UnderWay, TypeOK
      <3>2. QED
        BY <1>1, <1>2, <2>2, <3>1, FewerCopies
    <2>3. ASSUME down' = [down EXCEPT ![w] = Tail(@)]
          PROVE  \A v \in Workers, i \in Nat, k \in Jobs : UnderWay(v, i, k)' =>
                    IF v = w THEN i # 0 /\ UnderWay(w, i + 1, k) ELSE UnderWay(v, i, k)
      BY <2>1, <2>3 DEF UnderWay, TypeOK
    <2>4. ASSUME down' = [down EXCEPT ![w] = Tail(@)],
                 NEW k \in Jobs, run'[k] = run[k]
          PROVE  /\ \A d \in Controllers : Unsent(d, k)' =>
                       /\ status'[k] # "unused" /\ run'[k] = "never"
                       /\ \A e \in Controllers : Unsent(e, k)' => d = e
                       /\ \A v \in Workers, i \in Nat : ~UnderWay(v, i, k)'
                 /\ \A v \in Workers, i \in Nat : UnderWay(v, i, k)' =>
                       /\ status'[k] # "unused" /\ run'[k] = "never"
                       /\ \A u \in Workers, n \in Nat : UnderWay(u, n, k)' => u = v /\ n = i
      <3> HIDE DEF Unsent, UnderWay
      <3>1. \A v \in Workers, i \in Nat : UnderWay(v, i, k)' =>
               IF v = w THEN UnderWay(w, i + 1, k) ELSE UnderWay(v, i, k)
        BY <2>3, <2>4
      <3>2. ASSUME NEW d \in Controllers, Unsent(d, k)'
            PROVE  /\ status'[k] # "unused" /\ run'[k] = "never"
                   /\ \A e \in Controllers : Unsent(e, k)' => d = e
                   /\ \A v \in Workers, i \in Nat : ~UnderWay(v, i, k)'
        <4>1. /\ status[k] # "unused" /\ run[k] = "never"
              /\ \A e \in Controllers : Unsent(e, k) => d = e
              /\ \A v \in Workers, i \in Nat : ~UnderWay(v, i, k)
          BY <1>2, <3>2 DEF OneCopy
        <4>2. \A i \in Nat : i + 1 \in Nat
          OBVIOUS
        <4>3. QED
          BY <1>1, <1>2, <2>4, <3>1, <4>1, <4>2
      <3>3. ASSUME NEW v \in Workers, NEW i \in Nat, UnderWay(v, i, k)'
            PROVE  /\ status'[k] # "unused" /\ run'[k] = "never"
                   /\ \A u \in Workers, n \in Nat : UnderWay(u, n, k)' => u = v /\ n = i
        <4>1. PICK p \in Nat : UnderWay(v, p, k) /\ p = IF v = w THEN i + 1 ELSE i
          BY <3>1, <3>3
        <4>2. /\ status[k] # "unused" /\ run[k] = "never"
              /\ \A u \in Workers, n \in Nat : UnderWay(u, n, k) => u = v /\ n = p
          BY <4>1 DEF OneCopy
        <4>3. ASSUME NEW u \in Workers, NEW n \in Nat, UnderWay(u, n, k)'
              PROVE  u = v /\ n = i
          <5>1. PICK q \in Nat : UnderWay(u, q, k) /\ q = IF u = w THEN n + 1 ELSE n
            BY <3>1, <4>3
          <5>2. u = v /\ q = p
            BY <4>2, <5>1
          <5>3. QED
            BY <4>1, <5>1, <5>2
        <4>4. QED
          BY <1>1, <2>4, <4>2, <4>3
      <3>4. QED
        BY <3>2, <3>3
    <2>5. ASSUME down' = [down EXCEPT ![w] = Tail(@)], UNCHANGED run PROVE OneCopy'
      BY <1>1, <2>4, <2>5 DEF OneCopy
    <2>6. ASSUME down' = [down EXCEPT ![w] = Tail(@)], m \in Jobs,
                 run' = [run EXCEPT ![m] = "running"]
          PROVE  OneCopy'
      <3>1. /\ status[m] # "unused"
            /\ \A v \in Workers, i \in Nat : UnderWay(v, i, m) => v = w /\ i = 1
            /\ \A d \in Controllers : ~Unsent(d, m)
        <4>1. 1 \in Nat
          OBVIOUS
        <4>2. QED
          BY <2>1, <2>6, <4>1 DEF OneCopy
      <3>2. \A v \in Workers, i \in Nat : ~UnderWay(v, i, m)'
        <4> SUFFICES ASSUME NEW v \in Workers, NEW i \in Nat, UnderWay(v, i, m)' PROVE FALSE
          OBVIOUS
        <4>1. IF v = w THEN i # 0 /\ UnderWay(w, i + 1, m) ELSE UnderWay(v, i, m)
          BY <2>3, <2>6
        <4>2. v = w /\ i # 0 /\ i + 1 = 1
          <5> HIDE DEF UnderWay
          <5>1. i + 1 \in Nat
            OBVIOUS
          <5>2. QED
            BY <3>1, <4>1, <5>1
        <4>3. QED
          BY <4>2
      <3>3. \A k \in Jobs \ {m} : run'[k] = run[k]
        BY <2>6 DEF TypeOK
      <3> HIDE DEF Unsent, UnderWay
      <3>4. ASSUME NEW k \in Jobs
            PROVE  /\ status'[k] = "unused" => run'[k] = "never"
                   /\ \A d \in Controllers : Unsent(d, k)' =>
                        /\ status'[k] # "unused" /\ run'[k] = "never"
                        /\ \A e \in Controllers : Unsent(e, k)' => d = e
                        /\ \A v \in Workers, i \in Nat : ~UnderWay(v, i, k)'
                   /\ \A v \in Workers, i \in Nat : UnderWay(v, i, k)' =>
                        /\ status'[k] # "unused" /\ run'[k] = "never"
                        /\ \A u \in Workers, n \in Nat : UnderWay(u, n, k)' => u = v /\ n = i
        <4>1. CASE k = m
          BY <1>1, <1>2, <3>1, <3>2, <4>1
        <4>2. CASE k # m
          <5>1. status'[k] = "unused" => run'[k] = "never"
            BY <1>1, <3>3, <4>2 DEF OneCopy
          <5>2. QED
            BY <2>4, <2>6, <3>3, <4>2, <5>1
        <4>3. QED
          BY <4>1, <4>2
      <3>5. \A k \in Jobs, d \in Controllers : turn'[d] = k =>
               status'[k] = "submitted" /\ \A e \in Controllers : turn'[e] = k => d = e
        BY <1>1 DEF OneCopy
      <3>6. QED
        BY <3>4, <3>5 DEF OneCopy
    <2>7. QED
      BY <1>3, <2>0, <2>2, <2>5, <2>6 DEF Receive
  <1>4. CASE \A w \in Workers : ~Receive(w)
    <2>1. \A v \in Workers, i \in Nat, k \in Jobs : UnderWay(v, i, k)' => UnderWay(v, i, k)
      <3>1. UNCHANGED down \/ \E w \in Workers : Hangs(w)
        <4>1. ASSUME NEW b \in Browsers, Disconnect(b) PROVE \E w \in Workers : Hangs(w)
          <5>1. link[b] \in Workers /\ Hangs(link[b])
            BY <4>1 DEF Disconnect, TypeOK
          <5>2. QED
            BY <5>1
        <4>2. QED
          BY <1>4, <4>1 DEF BrowserStep, Snapshot, Connect, Heartbeat, FallQuiet,
                            FinishTurn, ReportProgress
      <3>2. CASE UNCHANGED down
        BY <3>2 DEF UnderWay
      <3>3. ASSUME NEW w \in Workers, Hangs(w)
            PROVE  \A v \in Workers, i \in Nat, k \in Jobs : UnderWay(v, i, k)' => UnderWay(v, i, k)
        BY <3>3 DEF Hangs, UnderWay, TypeOK
      <3>4. QED
        BY <3>1, <3>2, <3>3
    <2>2. \A k \in Jobs : run'[k] = run[k] \/ (run[k] # "never" /\ run'[k] # "never")
      <3>1. CASE UNCHANGED run
        BY <3>1
      <3>2. ASSUME NEW b \in Browsers, Disconnect(b)
            PROVE  \A k \in Jobs : run'[k] = run[k] \/ (run[k] # "never" /\ run'[k] # "never")
        BY <3>2 DEF Disconnect
      <3>3. ASSUME NEW j \in Jobs, FinishTurn(j)
            PROVE  \A k \in Jobs : run'[k] = run[k] \/ (run[k] # "never" /\ run'[k] # "never")
        <4>1. run[j] = "running" /\ \E end \in {"result", "error"} : run' = [run EXCEPT ![j] = end]
          BY <3>3 DEF FinishTurn
        <4>2. QED
          BY <4>1 DEF TypeOK
      <3>4. QED
        BY <1>4, <3>1, <3>2, <3>3
        DEF BrowserStep, Snapshot, Connect, Heartbeat, FallQuiet, ReportProgress, browserVars
    <2>3. QED
      BY <1>1, <1>2, <2>1, <2>2, FewerCopies
  <1>5. QED
    BY <1>3, <1>4

-----------------------------------------------------------------------------
(* Results are genuine.                                                     *)

\* A run that has its result keeps it.
LEMMA ResultsStay ==
    ASSUME TypeOK, OneCopy, Next
    PROVE  \A j \in Jobs : run[j] = "result" => run'[j] = "result"
  <1>1. ASSUME NEW w \in Workers, Receive(w)
        PROVE  \A j \in Jobs : run[j] = "result" => run'[j] = "result"
    <2>0. PICK m \in DownMessages : m = Head(down[w])
      BY <1>1, HeadOfDown DEF Receive
    <2>1. UNCHANGED run \/ (m \in Jobs /\ run' = [run EXCEPT ![m] = "running"])
      BY <1>1, <2>0 DEF Receive
    <2>2. UnderWay(w, 1, m) /\ 1 \in Nat
      BY <1>1, <2>0, HeadOfDown DEF Receive, UnderWay
    <2>3. m \in Jobs => run[m] = "never"
      BY <2>2 DEF OneCopy
    <2>4. QED
      BY <2>1, <2>3 DEF TypeOK
  <1>2. ASSUME NEW b \in Browsers, Disconnect(b)
        PROVE  \A j \in Jobs : run[j] = "result" => run'[j] = "result"
    BY <1>2 DEF Disconnect
  <1>3. ASSUME NEW j \in Jobs, FinishTurn(j)
        PROVE  \A k \in Jobs : run[k] = "result" => run'[k] = "result"
    BY <1>3 DEF FinishTurn, TypeOK
  <1>4. ASSUME NEW c \in Controllers, DriverStep(c) \/ ThreadStep(c) PROVE UNCHANGED run
    BY <1>4 DEF DriverStep, Start, Probed, Submit, Accept, FailTurn, Stop, ThreadStep, HandleProbe,
                RefuseJob, RouteJob, AcquireWorker, SendJob, SendFails, TakeAnswer, TimeOut,
                LeaveWorker, Reply, ControllerGone, browserVars
  <1>5. ASSUME NEW w \in Workers, WorkerStep(w) PROVE UNCHANGED run
    BY <1>5 DEF WorkerStep, Register, Acknowledge, HandleMessage, Unregister
  <1>6. QED
    BY <1>1, <1>2, <1>3, <1>4, <1>5
    DEF Next, BrowserStep, Snapshot, Connect, Heartbeat, FallQuiet, ReportProgress, browserVars

\* A message that was there before the step.
Known(m) ==
    \/ \E w \in Workers : \E i \in DOMAIN up[w] : m = up[w][i]
    \/ \E w \in Workers, j \in Jobs : m = pending[w][j] /\ m \in AnswerMessages
    \/ \E c \in Controllers : m # None /\ (m = response[c] \/ m = told[c])

LEMMA KnownStaysGenuine ==
    ASSUME TypeOK, OneCopy, ResultsAreGenuine, Next, NEW m, Known(m), m.type = "job_result"
    PROVE  run'[m.job] = "result"
  <1>1. Genuine(m)
    BY DEF Known, ResultsAreGenuine
  <1>2. m \in UpMessages \cup ToldMessages
    <2>1. CASE \E w \in Workers : \E i \in DOMAIN up[w] : m = up[w][i]
      BY <2>1, LenProperties, ElementOfSeq DEF TypeOK
    <2>2. CASE m \in AnswerMessages
      BY <2>2, MessageTypes
    <2>3. ASSUME NEW c \in Controllers, m # None, m = response[c] \/ m = told[c]
          PROVE  m \in ToldMessages
      BY <2>3, MessageTypes DEF TypeOK
    <2>4. QED
      BY <2>1, <2>2, <2>3 DEF Known
  <1>3. m.job \in Jobs
    BY <1>2, MessageTypes DEF Answers
  <1>4. QED
    BY <1>1, <1>3, ResultsStay DEF Genuine

\* What a message of the next state may be.
Arrives(m) == Known(m) \/ m.type # "job_result" \/ run'[m.job] = "result"

LEMMA NewUp ==
    ASSUME TypeOK, RunsHaveTabs, Next, NEW w \in Workers, NEW i \in DOMAIN up'[w]
    PROVE  Arrives(up'[w][i])
  <1>1. CASE UNCHANGED up
    BY <1>1 DEF Arrives, Known
  <1>2. ASSUME NEW v \in Workers, HandleMessage(v) PROVE Arrives(up'[w][i])
    <2>1. /\ up[v] \in Seq(UpMessages) /\ up[v] # <<>>
          /\ up' = [up EXCEPT ![v] = Tail(@)]
      BY <1>2 DEF HandleMessage, TypeOK
    <2>2. CASE w = v
      <3>1. up'[w] = Tail(up[v])
        BY <2>1, <2>2 DEF TypeOK
      <3>2. /\ Tail(up[v]) \in Seq(UpMessages) /\ Len(Tail(up[v])) = Len(up[v]) - 1
            /\ \A k \in 1 .. Len(Tail(up[v])) : Tail(up[v])[k] = up[v][k + 1]
        BY <2>1, HeadTailProperties
      <3>3. DOMAIN Tail(up[v]) = 1 .. Len(Tail(up[v])) /\ DOMAIN up[v] = 1 .. Len(up[v])
            /\ Len(up[v]) \in Nat
        BY <2>1, <3>2, LenProperties
      <3>4. i + 1 \in DOMAIN up[v] /\ up'[w][i] = up[v][i + 1]
        BY <3>1, <3>2, <3>3
      <3>5. QED
        BY <3>4 DEF Arrives, Known
    <2>3. CASE w # v
      BY <2>1, <2>3 DEF Arrives, Known, TypeOK
    <2>4. QED
      BY <2>2, <2>3
  <1>3. ASSUME NEW v \in Workers, Unregister(v) PROVE Arrives(up'[w][i])
    <2>1. up' = [up EXCEPT ![v] = <<>>]
      BY <1>3 DEF Unregister
    <2>2. DOMAIN <<>> = {}
      OBVIOUS
    <2>3. w # v
      <3> SUFFICES ASSUME w = v PROVE FALSE
        OBVIOUS
      <3>1. up'[w] = <<>>
        BY <2>1 DEF TypeOK
      <3>2. DOMAIN up'[w] = {}
        BY <2>2, <3>1
      <3>3. QED
        BY <3>2
    <2>4. up'[w] = up[w]
      BY <2>1, <2>3 DEF TypeOK
    <2>5. QED
      BY <2>4 DEF Arrives, Known
  <1>4. ASSUME NEW b \in Browsers, NEW m \in UpMessages, Post(b, m), Arrives(m)
        PROVE  Arrives(up'[w][i])
    <2>1. CASE link[b] # None /\ w = link[b]
      <3>1. up'[w] = Append(up[w], m) /\ up[w] \in Seq(UpMessages)
        <4>1. link[b] \in Workers /\ up' = [up EXCEPT ![link[b]] = Append(@, m)]
          BY <1>4, <2>1, PostType
        <4>2. QED
          BY <2>1, <4>1 DEF TypeOK
      <3>2. /\ Append(up[w], m) \in Seq(UpMessages) /\ Len(Append(up[w], m)) = Len(up[w]) + 1
            /\ \A k \in 1 .. Len(up[w]) : Append(up[w], m)[k] = up[w][k]
            /\ Append(up[w], m)[Len(up[w]) + 1] = m
        BY <3>1, AppendProperties
      <3>3. DOMAIN Append(up[w], m) = 1 .. Len(up[w]) + 1 /\ DOMAIN up[w] = 1 .. Len(up[w])
            /\ Len(up[w]) \in Nat
        BY <3>1, <3>2, LenProperties
      <3>4. CASE i = Len(up[w]) + 1
        BY <1>4, <3>1, <3>2, <3>4
      <3>5. CASE i # Len(up[w]) + 1
        <4>1. i \in DOMAIN up[w] /\ up'[w][i] = up[w][i]
          BY <3>1, <3>2, <3>3, <3>5
        <4>2. QED
          BY <4>1 DEF Arrives, Known
      <3>6. QED
        BY <3>4, <3>5
    <2>2. CASE ~(link[b] # None /\ w = link[b])
      <3>1. up'[w] = up[w]
        BY <1>4, <2>2, PostType DEF TypeOK
      <3>2. QED
        BY <3>1 DEF Arrives, Known
    <2>3. QED
      BY <2>1, <2>2
  <1>5. ASSUME NEW j \in Jobs, FinishTurn(j) PROVE Arrives(up'[w][i])
    <2>1. PICK answer \in Answers :
            /\ Post(tab[j], [type |-> answer, job |-> j])
            /\ run' = [run EXCEPT ![j] = IF answer = "job_result" THEN "result" ELSE "error"]
      BY <1>5 DEF FinishTurn
    <2>2. [type |-> answer, job |-> j] \in UpMessages /\ tab[j] \in Browsers
      BY <1>5 DEF FinishTurn, RunsHaveTabs, UpMessages
    <2>3. Arrives([type |-> answer, job |-> j])
      BY <2>1 DEF Arrives, TypeOK
    <2>4. QED
      BY <1>4, <2>1, <2>2, <2>3
  <1>6. ASSUME NEW j \in Jobs, ReportProgress(j) PROVE Arrives(up'[w][i])
    <2>1. /\ [type |-> "job_progress", job |-> j] \in UpMessages /\ tab[j] \in Browsers
          /\ Post(tab[j], [type |-> "job_progress", job |-> j])
      BY <1>6 DEF ReportProgress, RunsHaveTabs, UpMessages
    <2>2. QED
      BY <1>4, <2>1 DEF Arrives
  <1>7. ASSUME NEW c \in Controllers, DriverStep(c) \/ ThreadStep(c) PROVE UNCHANGED up
    BY <1>7 DEF DriverStep, Start, Probed, Submit, Accept, FailTurn, Stop, ThreadStep, HandleProbe,
                RefuseJob, RouteJob, AcquireWorker, SendJob, SendFails, TakeAnswer, TimeOut,
                LeaveWorker, Reply, ControllerGone, browserVars
  <1>8. QED
    BY <1>1, <1>2, <1>3, <1>5, <1>6, <1>7
    DEF Next, WorkerStep, Register, Acknowledge, BrowserStep, Snapshot, Connect, Receive, Heartbeat,
        FallQuiet, Disconnect, browserVars

LEMMA NewPending ==
    ASSUME TypeOK, LockInv, Next, NEW w \in Workers, NEW j \in Jobs, pending'[w][j] \in AnswerMessages
    PROVE  Arrives(pending'[w][j])
  <1>1. CASE pending'[w][j] = pending[w][j]
    BY <1>1 DEF Arrives, Known
  <1>2. ASSUME NEW v \in Workers, HandleMessage(v), pending'[w][j] # pending[w][j]
        PROVE  Arrives(pending'[w][j])
    <2>1. pending' = [pending EXCEPT ![v][Head(up[v]).job] = Head(up[v])] /\ up[v] # <<>>
      BY <1>2 DEF HandleMessage, Dispatch
    <2>2. pending'[w][j] = Head(up[v])
      BY <1>2, <2>1 DEF TypeOK
    <2>3. Head(up[v]) = up[v][1] /\ 1 \in DOMAIN up[v]
      BY <2>1, HeadOfUp
    <2>4. QED
      BY <2>2, <2>3 DEF Arrives, Known
  <1>3. ASSUME NEW c \in Controllers, ThreadStep(c), pending'[w][j] # pending[w][j]
        PROVE  FALSE
    <2>1. \E v \in Workers, i \in Jobs, m \in {Absent, Empty} :
             pending' = [pending EXCEPT ![v][i] = m]
      <3>1. /\ pc[c] \in {"lock", "send", "waiting"}
            /\ \E m \in {Absent, Empty} : pending' = [pending EXCEPT ![worker[c]][job[c]] = m]
        BY <1>3 DEF ThreadStep, HandleProbe, RefuseJob, RouteJob, AcquireWorker, SendJob, SendFails,
                    TakeAnswer, TimeOut, LeaveWorker, Reply, ControllerGone, workerVars
      <3>2. worker[c] \in Workers /\ job[c] \in Jobs
        BY <3>1 DEF LockInv, Locals, Busy
      <3>3. QED
        BY <3>1, <3>2
    <2>2. PICK v \in Workers, i \in Jobs, m \in {Absent, Empty} :
             pending' = [pending EXCEPT ![v][i] = m]
      BY <2>1
    <2>3. pending'[w][j] = m
      BY <1>3, <2>2 DEF TypeOK
    <2>4. QED
      BY <2>3, MessageTypes
  <1>4. ASSUME NEW c \in Controllers, DriverStep(c) PROVE UNCHANGED pending
    BY <1>4 DEF DriverStep, Start, Probed, Submit, Accept, FailTurn, Stop, workerVars
  <1>5. QED
    BY <1>1, <1>2, <1>3, <1>4
    DEF Next, WorkerStep, Register, Acknowledge, Unregister, BrowserStep, Snapshot, Connect, Receive,
        Heartbeat, FallQuiet, Disconnect, FinishTurn, ReportProgress, workerVars

LEMMA NewResponse ==
    ASSUME TypeOK, LockInv, Next, NEW d \in Controllers, response'[d] # None
    PROVE  Arrives(response'[d])
  <1>1. CASE response'[d] = response[d]
    BY <1>1 DEF Arrives, Known
  <1>2. ASSUME NEW c \in Controllers, ThreadStep(c), response'[d] # response[d]
        PROVE  Arrives(response'[d])
    <2>1. CASE TakeAnswer(c)
      <3>1. /\ worker[c] \in Workers /\ job[c] \in Jobs /\ pending[worker[c]][job[c]] \in AnswerMessages
            /\ response' = [response EXCEPT ![c] = pending[worker[c]][job[c]]]
        BY <2>1, MessageTypes DEF TakeAnswer, LeaveWorker, LockInv, Locals, Busy, TypeOK
      <3>2. response'[d] = pending[worker[c]][job[c]]
        BY <1>2, <3>1 DEF TypeOK
      <3>3. QED
        BY <3>1, <3>2 DEF Arrives, Known
    <2>2. CASE ~TakeAnswer(c)
      <3>1. \/ response' = [response EXCEPT ![c] = None]
            \/ response' = [response EXCEPT ![c] = Error(asked[c])]
            \/ response' = [response EXCEPT ![c] = Error(job[c])]
        BY <1>2, <2>2 DEF ThreadStep, HandleProbe, RefuseJob, RouteJob, AcquireWorker, SendJob, SendFails,
                    TimeOut, LeaveWorker, Reply, ControllerGone, threadVars
      <3>2. response'[d] = Error(asked[c]) \/ response'[d] = Error(job[c])
        BY <1>2, <3>1 DEF TypeOK
      <3>3. QED
        BY <3>2 DEF Arrives, Error
    <2>3. QED
      BY <2>1, <2>2
  <1>3. QED
    BY <1>1, <1>2
    DEF Next, DriverStep, Start, Probed, Submit, Accept, FailTurn, Stop, WorkerStep, Register,
        Acknowledge, HandleMessage, Unregister, BrowserStep, Snapshot, Connect, Receive,
        Heartbeat, FallQuiet, Disconnect, FinishTurn, ReportProgress, threadVars

LEMMA NewTold ==
    ASSUME TypeOK, LockInv, Next, NEW d \in Controllers, told'[d] # None
    PROVE  Arrives(told'[d])
  <1>1. CASE told'[d] = told[d]
    BY <1>1 DEF Arrives, Known
  <1>2. ASSUME NEW c \in Controllers, ThreadStep(c), told'[d] # told[d]
        PROVE  Arrives(told'[d])
    <2>1. CASE Reply(c)
      <3>1. response[c] # None /\ told' = [told EXCEPT ![c] = response[c]]
        BY <1>2, <2>1, WiringAssumption, MessageTypes DEF Reply, Tell, LockInv, Locals
      <3>2. told'[d] = response[c]
        BY <1>2, <3>1 DEF TypeOK
      <3>3. QED
        BY <3>1, <3>2 DEF Arrives, Known
    <2>2. CASE HandleProbe(c)
      <3>1. \E verdict \in {"available", "unavailable"} :
               told' = [told EXCEPT ![c] = [type |-> verdict, job |-> None]]
        BY <2>2 DEF HandleProbe
      <3>2. PICK verdict \in {"available", "unavailable"} :
               told' = [told EXCEPT ![c] = [type |-> verdict, job |-> None]]
        BY <3>1
      <3>3. told'[d] = [type |-> verdict, job |-> None]
        BY <1>2, <3>2 DEF TypeOK
      <3>4. QED
        BY <3>3 DEF Arrives
    <2>3. CASE RefuseJob(c)
      <3>1. told' = [told EXCEPT ![c] = Error(asked[c])]
        BY <1>2, <2>3 DEF RefuseJob, Tell
      <3>2. told'[d] = Error(asked[c])
        BY <1>2, <3>1 DEF TypeOK
      <3>3. QED
        BY <3>2 DEF Arrives, Error
    <2>4. QED
      BY <1>2, <2>1, <2>2, <2>3
      DEF ThreadStep, RouteJob, AcquireWorker, SendJob, SendFails, TakeAnswer, TimeOut, LeaveWorker,
          ControllerGone
  <1>3. ASSUME NEW c \in Controllers, DriverStep(c), told'[d] # told[d]
        PROVE  FALSE
    <2>1. told' = [told EXCEPT ![c] = None]
      BY <1>3 DEF DriverStep, Start, Probed, Submit, Accept, FailTurn, Stop, Stopped
    <2>2. QED
      BY <1>3, <2>1 DEF TypeOK
  <1>4. QED
    BY <1>1, <1>2, <1>3
    DEF Next, WorkerStep, Register, Acknowledge, HandleMessage, Unregister, BrowserStep, Snapshot,
        Connect, Receive, Heartbeat, FallQuiet, Disconnect, FinishTurn, ReportProgress

LEMMA ResultsStayGenuine ==
    ASSUME TypeOK, LockInv, OneCopy, RunsHaveTabs, ResultsAreGenuine, Next
    PROVE  ResultsAreGenuine'
  <1>1. \A m : Arrives(m) => (m.type = "job_result" => run'[m.job] = "result")
    BY KnownStaysGenuine DEF Arrives
  <1>2. \A w \in Workers : \A i \in DOMAIN up'[w] : Arrives(up'[w][i])
    BY NewUp
  <1>3. \A w \in Workers, j \in Jobs :
           pending'[w][j] \in AnswerMessages => Arrives(pending'[w][j])
    BY NewPending
  <1>4. \A c \in Controllers : response'[c] # None => Arrives(response'[c])
    BY NewResponse
  <1>5. \A c \in Controllers : told'[c] # None => Arrives(told'[c])
    BY NewTold
  <1>6. QED
    BY <1>1, <1>2, <1>3, <1>4, <1>5 DEF ResultsAreGenuine, Genuine

-----------------------------------------------------------------------------
(* The lists.                                                               *)

LEMMA ListStaysServed ==
    ASSUME TypeOK, ListedAreServed, Next
    PROVE  ListedAreServed'
  <1> DEFINE On(s) == s \in {"registered", "serving", "failed"}
  <1>1. Distinct(workers) /\ \A w \in Workers : w \in Listed <=> On(session[w])
    BY DEF ListedAreServed, Distinct
  <1>2. SUFFICES Distinct(workers') /\ \A w \in Workers : w \in Listed' <=> On(session'[w])
    BY DEF ListedAreServed, Distinct
  <1>3. workers \in Seq(Workers) /\ DOMAIN workers = 1 .. Len(workers) /\ Len(workers) \in Nat
    BY LenProperties DEF TypeOK
  <1>4. ASSUME UNCHANGED workers, \A w \in Workers : On(session'[w]) <=> On(session[w])
        PROVE  Distinct(workers') /\ \A w \in Workers : w \in Listed' <=> On(session'[w])
    BY <1>1, <1>4 DEF Listed
  <1>5. ASSUME NEW v \in Workers, Register(v)
        PROVE  Distinct(workers') /\ \A w \in Workers : w \in Listed' <=> On(session'[w])
    <2>1. /\ session[v] = "hello" /\ session' = [session EXCEPT ![v] = "registered"]
          /\ workers' = Append(workers, v)
      BY <1>5 DEF Register
    <2>2. /\ Append(workers, v) \in Seq(Workers) /\ Len(Append(workers, v)) = Len(workers) + 1
          /\ \A i \in 1 .. Len(workers) : Append(workers, v)[i] = workers[i]
          /\ Append(workers, v)[Len(workers) + 1] = v
      BY <1>3, AppendProperties
    <2>3. DOMAIN Append(workers, v) = 1 .. Len(workers) + 1
      BY <2>2, LenProperties
    <2>4. \A i \in DOMAIN workers : workers[i] # v
      BY <1>1, <2>1 DEF Listed
    <2>5. Distinct(workers')
      BY <1>1, <1>3, <2>1, <2>2, <2>3, <2>4 DEF Distinct
    <2>6. \A w \in Workers : w \in Listed' <=> (w = v \/ w \in Listed)
      <3>1. \A w : (\E i \in DOMAIN workers' : workers'[i] = w)
                   <=> (w = v \/ \E i \in DOMAIN workers : workers[i] = w)
        <4>1. ASSUME NEW i \in DOMAIN workers'
              PROVE  workers'[i] = v \/ \E n \in DOMAIN workers : workers[n] = workers'[i]
          BY <1>3, <2>1, <2>2, <2>3
        <4>2. ASSUME NEW i \in DOMAIN workers
              PROVE  i \in DOMAIN workers' /\ workers'[i] = workers[i]
          BY <1>3, <2>1, <2>2, <2>3
        <4>3. Len(workers) + 1 \in DOMAIN workers' /\ workers'[Len(workers) + 1] = v
          BY <1>3, <2>1, <2>2, <2>3
        <4>4. QED
          BY <4>1, <4>2, <4>3
      <3>2. QED
        BY <3>1 DEF Listed
    <2>7. \A w \in Workers : On(session'[w]) <=> (w = v \/ On(session[w]))
      BY <2>1 DEF TypeOK
    <2>8. QED
      BY <1>1, <2>5, <2>6, <2>7
  <1>6. ASSUME NEW v \in Workers, Unregister(v)
        PROVE  Distinct(workers') /\ \A w \in Workers : w \in Listed' <=> On(session'[w])
    <2>1. /\ session[v] = "serving" /\ session' = [session EXCEPT ![v] = "ended"]
          /\ workers' = Without(workers, v)
      BY <1>6 DEF Unregister
    <2>2. Distinct(Without(workers, v)) /\ Members(Without(workers, v)) = Members(workers) \ {v}
      BY <1>1, <1>3, WithoutProperties
    <2>3. Distinct(workers') /\ \A w \in Workers : w \in Listed' <=> (w # v /\ w \in Listed)
      BY <2>1, <2>2 DEF Listed, Members
    <2>4. \A w \in Workers : On(session'[w]) <=> (w # v /\ On(session[w]))
      BY <2>1 DEF TypeOK
    <2>5. QED
      BY <1>1, <2>3, <2>4
  <1>7. ASSUME NEW v \in Workers, Acknowledge(v)
        PROVE  UNCHANGED workers /\ \A w \in Workers : On(session'[w]) <=> On(session[w])
    <2>1. /\ session[v] = "registered" /\ UNCHANGED workers
          /\ \E next \in {"serving", "failed"} : session' = [session EXCEPT ![v] = next]
      BY <1>7 DEF Acknowledge, hubVars
    <2>2. QED
      BY <2>1 DEF TypeOK
  <1>8. ASSUME NEW v \in Workers, Connect(v)
        PROVE  UNCHANGED workers /\ \A w \in Workers : On(session'[w]) <=> On(session[w])
    BY <1>8 DEF Connect, hubVars, TypeOK
  <1>9. ASSUME NEW c \in Controllers, DriverStep(c) \/ ThreadStep(c) PROVE UNCHANGED <<workers, session>>
    BY <1>9 DEF DriverStep, Start, Probed, Submit, Accept, FailTurn, Stop, ThreadStep, HandleProbe,
                RefuseJob, RouteJob, AcquireWorker, SendJob, SendFails, TakeAnswer, TimeOut,
                LeaveWorker, Reply, ControllerGone, browserVars, hubVars
  <1>10. CASE UNCHANGED <<workers, session>>
    BY <1>4, <1>10
  <1>11. ASSUME NEW v \in Workers, HandleMessage(v) \/ Receive(v) \/ Heartbeat(v) \/ FallQuiet(v)
         PROVE  UNCHANGED <<workers, session>>
    BY <1>11 DEF HandleMessage, Receive, Heartbeat, FallQuiet, hubVars
  <1>12. QED
    BY <1>4, <1>5, <1>6, <1>7, <1>8, <1>9, <1>10, <1>11
    DEF Next, WorkerStep, BrowserStep, Snapshot, Disconnect, FinishTurn, ReportProgress, hubVars, browserVars

LEMMA ProgressStaysBounded ==
    ASSUME TypeOK, ProgressBounded, Next
    PROVE  ProgressBounded'
  <1>1. progress \in Seq(Jobs)
    BY DEF TypeOK
  <1>2. CASE UNCHANGED progress
    BY <1>2 DEF ProgressBounded
  <1>3. ASSUME NEW c \in Controllers, Reply(c) PROVE ProgressBounded'
    <2>1. progress' = Without(progress, job[c])
      BY <1>3 DEF Reply
    <2>2. Distinct(progress) /\ Len(progress) <= ProgressCap
      BY DEF ProgressBounded, Distinct
    <2>3. Distinct(progress') /\ Len(progress') <= Len(progress) /\ progress' \in Seq(Jobs)
      BY <1>1, <2>1, <2>2, WithoutProperties
    <2>4. Len(progress) \in Nat /\ Len(progress') \in Nat
      BY <1>1, <2>3, LenProperties
    <2>5. QED
      BY <2>2, <2>3, <2>4, WiringAssumption DEF ProgressBounded, Distinct
  <1>4. ASSUME NEW w \in Workers, HandleMessage(w), progress' # progress PROVE ProgressBounded'
    <2>1. RecordProgress(Head(up[w]).job) /\ up[w] # <<>>
      BY <1>4 DEF HandleMessage
    <2>2. Head(up[w]).job \in Jobs
      BY <2>1, HeadOfUp, MessageTypes
    <2>3. QED
      BY <1>1, <2>1, <2>2, RecordType
  <1>5. ASSUME NEW c \in Controllers, ThreadStep(c), ~Reply(c) PROVE UNCHANGED progress
    BY <1>5 DEF ThreadStep, HandleProbe, RefuseJob, RouteJob, AcquireWorker, SendJob, SendFails,
                TakeAnswer, TimeOut, LeaveWorker, ControllerGone, hubVars
  <1>6. QED
    BY <1>2, <1>3, <1>4, <1>5
    DEF Next, DriverStep, Start, Probed, Submit, Accept, FailTurn, Stop, WorkerStep, Register,
        Acknowledge, Unregister, BrowserStep, Snapshot, Connect, Receive, Heartbeat, FallQuiet,
        Disconnect, FinishTurn, ReportProgress, hubVars

-----------------------------------------------------------------------------
(* The invariant and the theorems.                                          *)

Inv ==
    /\ TypeOK /\ LockInv /\ DialogueInv /\ OneCopy /\ RunsHaveTabs /\ ResultsAreGenuine
    /\ ListedAreServed /\ ProgressBounded

LEMMA InvInitial == Init => Inv
  <1> SUFFICES ASSUME Init PROVE Inv
    OBVIOUS
  <1>1. TypeOK
    BY EmptySeq DEF Init, TypeOK, Counters, Totals
  <1>2. LockInv
    BY MessageTypes DEF Init, LockInv, Locals, HoldsLock, LockDiscipline, QueuesMatch, Busy
  <1>3. DialogueInv
    BY WiringAssumption DEF Init, DialogueInv, Dialogue, AnswerIsForTurn, Busy
  <1>4. OneCopy
    <2>1. \A w \in Workers : DOMAIN down[w] = {}
      BY DEF Init
    <2>2. QED
      BY <2>1, WiringAssumption DEF Init, OneCopy, Unsent, UnderWay
  <1>5. RunsHaveTabs
    BY DEF Init, RunsHaveTabs
  <1>6. ResultsAreGenuine
    BY MessageTypes DEF Init, ResultsAreGenuine
  <1>7. ListedAreServed
    BY DEF Init, ListedAreServed, Listed
  <1>8. ProgressBounded
    BY WiringAssumption, EmptySeq DEF Init, ProgressBounded
  <1>9. QED
    BY <1>1, <1>2, <1>3, <1>4, <1>5, <1>6, <1>7, <1>8 DEF Inv

LEMMA InvKept ==
    ASSUME Inv, Next
    PROVE  Inv'
  <1> USE DEF Inv
  <1>1. ResultsAreGenuine' /\ ListedAreServed' /\ ProgressBounded'
    BY ResultsStayGenuine, ListStaysServed, ProgressStaysBounded
  <1>2. ASSUME NEW c \in Controllers, DriverStep(c) PROVE Inv'
    <2>1. UNCHANGED <<pc, job, worker, response, lock, pending, run, tab>>
      BY <1>2 DEF DriverStep, Start, Probed, Submit, Accept, FailTurn, Stop, threadVars, workerVars, browserVars
    <2>2. TypeOK'
      BY <1>2, DriverType DEF DialogueInv
    <2>3. LockInv' /\ RunsHaveTabs'
      BY <2>1, LocksFrame DEF RunsHaveTabs
    <2>4. DialogueInv' /\ OneCopy'
      BY <1>2, DriverKeepsDialogue, DriverKeepsCopies
    <2>5. QED
      BY <1>1, <2>2, <2>3, <2>4
  <1>3. ASSUME NEW c \in Controllers, ThreadStep(c) PROVE Inv'
    <2>1. UNCHANGED <<run, tab>>
      BY <1>3 DEF ThreadStep, HandleProbe, RefuseJob, RouteJob, AcquireWorker, SendJob, SendFails,
                  TakeAnswer, TimeOut, LeaveWorker, Reply, ControllerGone, browserVars
    <2>2. TypeOK'
      BY <1>3, ThreadType DEF LockInv
    <2>3. LockInv' /\ DialogueInv' /\ OneCopy'
      BY <1>3, ThreadKeepsLocks, ThreadKeepsDialogue, ThreadKeepsCopies
    <2>4. RunsHaveTabs'
      BY <2>1 DEF RunsHaveTabs
    <2>5. QED
      BY <1>1, <2>2, <2>3, <2>4
  <1>4. ASSUME NEW w \in Workers, WorkerStep(w) PROVE Inv'
    <2>1. UNCHANGED <<client, turn, asked, told, pc, job, worker, response, lock, run, tab>>
          /\ (UNCHANGED pending \/ HandleMessage(w))
      BY <1>4 DEF WorkerStep, Register, Acknowledge, HandleMessage, Unregister, clientVars, threadVars, workerVars
    <2>2. TypeOK' /\ OneCopy'
      BY <1>4, WorkerType, WorkerKeepsCopies
    <2>3. LockInv'
      BY <2>1, LocksFrame, MessageKeepsLocks
    <2>4. DialogueInv' /\ RunsHaveTabs'
      BY <2>1, DialogueFrame DEF RunsHaveTabs
    <2>5. QED
      BY <1>1, <2>2, <2>3, <2>4
  <1>5. ASSUME BrowserStep \/ Snapshot PROVE Inv'
    <2>1. UNCHANGED <<client, turn, asked, told, pc, job, worker, response, lock, pending>>
      BY <1>5 DEF BrowserStep, Snapshot, Connect, Receive, Heartbeat, FallQuiet, Disconnect,
                  FinishTurn, ReportProgress, clientVars, threadVars, workerVars
    <2>2. TypeOK' /\ RunsHaveTabs' /\ OneCopy'
      BY <1>5, BrowserType, BrowserKeepsCopies
    <2>3. LockInv' /\ DialogueInv'
      BY <2>1, LocksFrame, DialogueFrame
    <2>4. QED
      BY <1>1, <2>2, <2>3
  <1>6. QED
    BY <1>2, <1>3, <1>4, <1>5 DEF Next

LEMMA InvStutters ==
    ASSUME Inv, UNCHANGED vars
    PROVE  Inv'
  BY DEF vars, Inv, TypeOK, LockInv, Locals, HoldsLock, LockDiscipline, QueuesMatch, DialogueInv,
         Dialogue, AnswerIsForTurn, OneCopy, Unsent, UnderWay, RunsHaveTabs, ResultsAreGenuine,
         Genuine, ListedAreServed, Listed, ProgressBounded

THEOREM BridgeInvariant == Spec => []Inv
  <1>1. Inv /\ [Next]_vars => Inv'
    BY InvKept, InvStutters
  <1>2. QED
    BY <1>1, InvInitial, PTL DEF Spec

\* Type correctness.
THEOREM BridgeTypeCorrect == Spec => []TypeOK
  <1>1. Inv => TypeOK
    BY DEF Inv
  <1>2. QED
    BY <1>1, BridgeInvariant, PTL

\* request_lock and pending (BrowserWorker.request): a worker has one job at a
\* time, pending exactly while its thread waits, however waits end.
THEOREM LocksAreDisciplined == Spec => []LockDiscipline
  <1>1. Inv => LockDiscipline
    BY DEF Inv, LockInv
  <1>2. QED
    BY <1>1, BridgeInvariant, PTL

\* What a driver reads answers the turn it waits for, late answers or not.
THEOREM AnswersAreForTurns == Spec => []AnswerIsForTurn
  <1>1. Inv => AnswerIsForTurn
    BY DEF Inv, DialogueInv
  <1>2. QED
    BY <1>1, BridgeInvariant, PTL

\* The hub's list is that of the registered connections, each once.
THEOREM ListIsServed == Spec => []ListedAreServed
  <1>1. Inv => ListedAreServed
    BY DEF Inv
  <1>2. QED
    BY <1>1, BridgeInvariant, PTL

\* record_progress keeps to its cap, whatever comes late.
THEOREM ProgressIsBounded == Spec => []ProgressBounded
  <1>1. Inv => ProgressBounded
    BY DEF Inv
  <1>2. QED
    BY <1>1, BridgeInvariant, PTL

\* worker_for chooses a worker that is registered, fresh and serves the tunnel.
THEOREM RoutesAreFit == Spec => RoutedToFitWorker
  <1> DEFINE Fit == \A c \in Controllers : worker[c] = None /\ worker'[c] # None =>
                       worker'[c] \in Listed /\ alive[worker'[c]] /\ ~quiet[worker'[c]]
                       /\ Tunnel[c] \in Serves[worker'[c]]
  <1>1. TypeOK /\ [Next]_vars => [Fit]_vars
    <2> SUFFICES ASSUME TypeOK, Next,
                        NEW c \in Controllers, worker[c] = None, worker'[c] # None
                 PROVE  worker'[c] \in Listed /\ alive[worker'[c]] /\ ~quiet[worker'[c]]
                        /\ Tunnel[c] \in Serves[worker'[c]]
      OBVIOUS
    <2>1. PICK d \in Controllers : RouteJob(d) \/ Reply(d)
      BY DEF Next, DriverStep, Start, Probed, Submit, Accept, FailTurn, Stop, ThreadStep, HandleProbe,
             RefuseJob, AcquireWorker, SendJob, SendFails, TakeAnswer, TimeOut, LeaveWorker,
             ControllerGone, WorkerStep, Register, Acknowledge, HandleMessage, Unregister, BrowserStep,
             Snapshot, Connect, Receive, Heartbeat, FallQuiet, Disconnect, FinishTurn, ReportProgress,
             threadVars
    <2>2. PICK w \in WorkerFor(Tunnel[d]) : worker' = [worker EXCEPT ![d] = w]
      BY <2>1 DEF RouteJob, Reply, TypeOK
    <2>3. c = d /\ worker'[c] = w
      BY <2>2 DEF TypeOK
    <2>4. QED
      BY <2>2, <2>3, WorkerForIsFit DEF Routable
  <1>2. QED
    BY <1>1, BridgeTypeCorrect, PTL DEF Spec, RoutedToFitWorker

\* The bridge implements the turns a driver promises (browser/base.py): what is
\* hidden in the server, in messages on their way, in late answers and lost
\* connections never makes a turn run twice or answers it with another's text.
THEOREM BridgeImplementsTurns == Spec => ImplementsTurns
  <1>1. Init => T!Init
    BY DEF Init, T!Init
  <1>2. Inv /\ [Next]_vars => [T!Next]_<<run, status>>
    <2> SUFFICES ASSUME Inv, Next, ~UNCHANGED <<run, status>>
                 PROVE  T!Next
      BY DEF vars
    <2> USE DEF Inv
    <2>1. ASSUME NEW c \in Controllers, NEW j \in Jobs, Submit(c, j) PROVE T!Next
      <3>1. T!Submit(j)
        BY <2>1 DEF Submit, T!Submit, browserVars
      <3>2. QED
        BY <3>1 DEF T!Next
    <2>2. ASSUME NEW c \in Controllers, Accept(c) PROVE T!Next
      <3>1. /\ turn[c] \in Jobs /\ status[turn[c]] = "submitted"
        BY <2>2 DEF Accept, DialogueInv, Dialogue, OneCopy
      <3>2. run[turn[c]] = "result"
        BY <2>2 DEF Accept, ResultsAreGenuine, Genuine
      <3>3. T!Answer(turn[c])
        BY <2>2, <3>1, <3>2 DEF Accept, T!Answer, browserVars
      <3>4. QED
        BY <3>1, <3>3 DEF T!Next
    <2>3. ASSUME NEW c \in Controllers, FailTurn(c) PROVE T!Next
      <3>1. /\ turn[c] \in Jobs /\ status[turn[c]] = "submitted"
        BY <2>3 DEF FailTurn, DialogueInv, Dialogue, OneCopy
      <3>2. T!Answer(turn[c])
        BY <2>3, <3>1 DEF FailTurn, T!Answer, browserVars
      <3>3. QED
        BY <3>1, <3>2 DEF T!Next
    <2>4. ASSUME NEW w \in Workers, Receive(w) PROVE T!Next
      <3>1. PICK m \in DownMessages : m = Head(down[w])
        BY <2>4, HeadOfDown DEF Receive
      <3>2. m \in Jobs /\ run' = [run EXCEPT ![m] = "running"] /\ UNCHANGED status
        BY <2>4, <3>1 DEF Receive, clientVars
      <3>3. UnderWay(w, 1, m) /\ 1 \in Nat
        BY <2>4, <3>1, HeadOfDown DEF Receive, UnderWay
      <3>4. status[m] # "unused" /\ run[m] = "never"
        BY <3>2, <3>3 DEF OneCopy
      <3>5. T!Run(m)
        BY <3>2, <3>4 DEF T!Run
      <3>6. QED
        BY <3>2, <3>5 DEF T!Next
    <2>5. ASSUME NEW b \in Browsers, Disconnect(b) PROVE T!Next
      <3> DEFINE ending == {j \in Jobs : tab[j] = b /\ run[j] = "running"}
                 end == [j \in ending |-> "lost"]
      <3>1. /\ run' = [j \in Jobs |-> IF tab[j] = b /\ run[j] = "running" THEN "lost" ELSE run[j]]
            /\ UNCHANGED status
        BY <2>5 DEF Disconnect, clientVars
      <3>2. /\ ending \in SUBSET {j \in Jobs : run[j] = "running"}
            /\ end \in [ending -> {"result", "error", "lost"}]
            /\ run' = [j \in Jobs |-> IF j \in ending THEN end[j] ELSE run[j]]
        BY <3>1
      <3>3. T!EndRuns
        <4> HIDE DEF ending, end
        <4>1. QED
          BY <3>1, <3>2 DEF T!EndRuns
      <3>4. QED
        BY <3>3 DEF T!Next
    <2>6. ASSUME NEW j \in Jobs, FinishTurn(j) PROVE T!Next
      <3>1. PICK last \in {"result", "error"} : run' = [run EXCEPT ![j] = last]
        BY <2>6 DEF FinishTurn
      <3> DEFINE ending == {j}
                 end == [i \in ending |-> last]
      <3>2. run[j] = "running" /\ UNCHANGED status
        BY <2>6 DEF FinishTurn, clientVars
      <3>3. /\ ending \in SUBSET {i \in Jobs : run[i] = "running"}
            /\ end \in [ending -> {"result", "error", "lost"}]
            /\ run' = [i \in Jobs |-> IF i \in ending THEN end[i] ELSE run[i]]
        BY <3>1, <3>2 DEF TypeOK
      <3>4. T!EndRuns
        <4> HIDE DEF ending, end
        <4>1. QED
          BY <3>2, <3>3 DEF T!EndRuns
      <3>5. QED
        BY <3>4 DEF T!Next
    <2>7. ASSUME NEW c \in Controllers, Start(c) \/ Probed(c) \/ Stop(c) PROVE FALSE
      BY <2>7 DEF Start, Probed, Stop, browserVars
    <2>8. ASSUME NEW c \in Controllers, ThreadStep(c) PROVE FALSE
      BY <2>8 DEF ThreadStep, HandleProbe, RefuseJob, RouteJob, AcquireWorker, SendJob, SendFails,
                  TakeAnswer, TimeOut, LeaveWorker, Reply, ControllerGone, clientVars, browserVars
    <2>9. ASSUME NEW w \in Workers, WorkerStep(w) PROVE FALSE
      BY <2>9 DEF WorkerStep, Register, Acknowledge, HandleMessage, Unregister, clientVars
    <2>10. ASSUME NEW w \in Workers, Connect(w) \/ Heartbeat(w) \/ FallQuiet(w) PROVE FALSE
      BY <2>10 DEF Connect, Heartbeat, FallQuiet, clientVars
    <2>11. CASE Snapshot \/ \E j \in Jobs : ReportProgress(j)
      BY <2>11 DEF Snapshot, ReportProgress, clientVars, browserVars
    <2>12. QED
      BY <2>1, <2>2, <2>3, <2>4, <2>5, <2>6, <2>7, <2>8, <2>9, <2>10, <2>11
      DEF Next, DriverStep, BrowserStep
  <1>3. QED
    BY <1>1, <1>2, BridgeInvariant, PTL DEF Spec, ImplementsTurns, T!Spec

=============================================================================
