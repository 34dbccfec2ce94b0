---------------------------- MODULE PageTurnProofs ----------------------------
(***************************************************************************)
(* For any conversation, any number of other turns and of loads: the       *)
(* answer of a turn is one to its prompt (AnswersAreOurs), and a turn that *)
(* has ended has closed its page (PagesAreClosed).  If the page is not too *)
(* late with the end of an answer, the answer is whole (AnswersAreWhole).  *)
(***************************************************************************)
EXTENDS PageTurn, FiniteSetTheorems, TLAPS

Attempt == {"send", "texts", "stop"}

\* Only what was asked for is ever begun.
Begun ==
    /\ \A t \in Turns \ Others : t \in shown \/ text[t] > 0 => t \in Asked
    /\ writing # None => writing \in Asked

\* Unless a turn is late, what is not in the baseline is an answer of ours.
OthersAreOld == pc \in Attempt /\ late = {} => Others \cap shown \subseteq baseline

\* The same holds of the texts read before the page went on ...
ReadsAreOurs ==
    pc = "stop" => \A t \in Turns : texts[t] > 0 =>
        /\ t \notin Others => t \in Asked
        /\ late = {} /\ t \in Others => t \in baseline

\* ... and so of the turn that was taken for the answer.
BoundIsOurs == pc \in Attempt /\ late = {} /\ bound # None => bound \in Asked

ResultIsLast == result # None => pc \in {"closing", "ended"}

\* The inductive invariant.
Inv ==
    /\ TypeOK /\ Begun /\ OthersAreOld /\ ReadsAreOurs /\ BoundIsOurs /\ ResultIsLast
    /\ AnswerIsOurs /\ PageClosed

\* A turn found new by a driver that reads the page now is an answer of ours.
LEMMA NewIsOurs ==
    ASSUME TypeOK, Begun, OthersAreOld, pc \in Attempt, late = {},
           NEW t \in New([u \in Turns |-> Found(u)])
    PROVE  t \in Turns /\ t \in Asked
  <1>1. t \in Turns \ baseline /\ Found(t) > 0
    BY DEF New
  <1>2. t \in shown
    BY <1>1 DEF Found
  <1>3. t \notin Others
    BY <1>1, <1>2 DEF OthersAreOld
  <1>4. QED
    BY <1>1, <1>2, <1>3 DEF Begun

\* What Bound gives is a turn or nothing.
LEMMA BoundType ==
    ASSUME TypeOK
    PROVE  /\ Bound \in Turns \cup {None}
           /\ Bound = bound \/ Bound \in New([u \in Turns |-> Found(u)])
  <1> DEFINE new == New([u \in Turns |-> Found(u)])
  <1>1. CASE bound = None /\ Cardinality(new) = 1 /\ new # {}
    <2>1. Bound = CHOOSE t \in new : TRUE
      BY <1>1 DEF Bound
    <2>2. Bound \in new
      BY <1>1, <2>1
    <2>3. QED
      BY <2>2 DEF New
  <1>2. CASE ~(bound = None /\ Cardinality(new) = 1)
    BY <1>2 DEF Bound, TypeOK
  <1>3. CASE new = {} /\ Cardinality(new) = 1
    <2>1. Cardinality({}) = 0
      BY FS_EmptySet
    <2>2. QED
      BY <1>3, <2>1
  <1>4. QED
    BY <1>1, <1>2, <1>3

LEMMA InvInitial == Init => Inv
  <1> SUFFICES ASSUME Init PROVE Inv
    OBVIOUS
  <1>1. TypeOK
    <2>1. text \in [Turns -> 0 .. Full] /\ texts \in [Turns -> 0 .. Full]
      BY PageAssumption DEF Init
    <2>2. /\ driver \in Drivers /\ pc = "idle" /\ baseline = {} /\ bound = None
          /\ last = 0 /\ count = 0 /\ result = None /\ open = FALSE
          /\ shown = {} /\ doubled = {} /\ writing = None /\ stop = FALSE /\ paused = FALSE
          /\ lag = 0 /\ sent = 0 /\ loads = 0 /\ late = {} /\ cut = 0
      BY DEF Init
    <2>3. 0 \in 0 .. Full
      BY PageAssumption
    <2>4. QED
      BY <2>1, <2>2, <2>3 DEF TypeOK
  <1>2. Begun
    BY PageAssumption DEF Init, Begun
  <1>3. QED
    BY <1>1, <1>2
    DEF Init, Inv, OthersAreOld, ReadsAreOurs, BoundIsOurs, ResultIsLast, AnswerIsOurs, PageClosed, Attempt

\* Sending.
LEMMA SendingKeeps ==
    ASSUME Inv, Open \/ TakeBaseline \/ Send
    PROVE  Inv'
  <1> USE PageAssumption
      DEF Inv, Goto, local, TypeOK, Begun, OthersAreOld, ReadsAreOurs, BoundIsOurs, ResultIsLast,
          AnswerIsOurs, PageClosed, Turns, Asked, Attempt
  <1>1. CASE Open
    BY <1>1 DEF Open
  <1>2. CASE TakeBaseline
    BY <1>2 DEF TakeBaseline, Baseline
  <1>3. CASE Send
    <2> HIDE DEF TypeOK, Asked, Turns
    <2>1. Asked \subseteq Asked' /\ sent' \in Nat
      BY <1>3 DEF Send, TypeOK, Asked
    <2>2. TypeOK'
      BY <1>3, <2>1 DEF Send, TypeOK
    <2>3. QED
      BY <1>3, <2>1, <2>2 DEF Send
  <1>4. QED
    BY <1>1, <1>2, <1>3

\* Polling, ending.
LEMMA ReadTextsKeeps ==
    ASSUME Inv, ReadTexts
    PROVE  Inv'
  <1> USE DEF Inv
  <1>1. \A t \in Turns : texts'[t] = Found(t)
    BY DEF ReadTexts
  <1>2. \A t \in Turns : Found(t) \in 0 .. Full /\ (Found(t) > 0 => t \in shown /\ text[t] > 0)
    BY PageAssumption DEF Found, TypeOK
  <1>3. TypeOK'
    <2>1. texts' \in [Turns -> 0 .. Full]
      BY <1>2 DEF ReadTexts
    <2>2. lag' \in Nat
      BY DEF ReadTexts, Patience, TypeOK
    <2>3. QED
      BY <2>1, <2>2 DEF ReadTexts, Goto, TypeOK, Turns
  <1>4. ReadsAreOurs'
    BY <1>1, <1>2 DEF ReadTexts, Goto, ReadsAreOurs, Begun, OthersAreOld, Turns, Asked, Attempt
  <1>5. QED
    BY <1>3, <1>4
    DEF ReadTexts, Goto, Begun, OthersAreOld, BoundIsOurs, ResultIsLast, AnswerIsOurs, PageClosed,
        Turns, Asked, Attempt

LEMMA ObserveKeeps ==
    ASSUME Inv, Observe
    PROVE  Inv'
  <1> DEFINE new == New(texts)
  <1> USE DEF Inv
  <1>1. pc = "stop" /\ pc' \in {"closing", "texts"} /\ result = None
        /\ UNCHANGED <<driver, baseline, texts, page>>
    BY DEF Observe, ResultIsLast
  <1>2. \A t \in new : t \in Turns /\ texts[t] \in 1 .. Full /\ (late = {} => t \in Asked)
    <2> TAKE t \in new
    <2>1. t \in Turns \ baseline /\ texts[t] > 0
      BY DEF New
    <2>2. texts[t] \in 0 .. Full
      BY <2>1 DEF TypeOK
    <2>3. late = {} => t \in Asked
      BY <1>1, <2>1 DEF ReadsAreOurs
    <2>4. QED
      BY <2>1, <2>2, <2>3, PageAssumption
  <1>3. CASE UNCHANGED <<bound, last, count, result>>
    BY <1>1, <1>3
    DEF TypeOK, Begun, OthersAreOld, ReadsAreOurs, BoundIsOurs, ResultIsLast, AnswerIsOurs,
        PageClosed, page, Turns, Asked, Attempt
  <1>4. CASE \E t \in new :
               /\ bound' = t /\ last' = texts[t] /\ count' = Stable(texts[t])
               /\ IF Stable(texts[t]) >= StablePolls
                  THEN pc' = "closing" /\ Return(t, texts[t])
                  ELSE pc' = "texts" /\ UNCHANGED result
    <2>1. PICK t \in new :
            /\ bound' = t /\ last' = texts[t] /\ count' = Stable(texts[t])
            /\ \/ pc' = "closing" /\ result' = [turn |-> t, text |-> texts[t]]
               \/ pc' = "texts" /\ UNCHANGED result
      BY <1>4 DEF Return
    <2>2. TypeOK'
      <3>1. count' \in Nat
        BY <2>1 DEF Stable, TypeOK
      <3>2. last' \in 0 .. Full /\ bound' \in Turns
        BY <2>1, <1>2
      <3>3. result' \in [turn : Turns, text : 1 .. Full] \cup {None}
        BY <2>1, <1>1, <1>2
      <3>4. QED
        BY <1>1, <3>1, <3>2, <3>3 DEF TypeOK, page, Turns
    <2>3. Begun' /\ OthersAreOld' /\ ReadsAreOurs' /\ BoundIsOurs' /\ ResultIsLast' /\ PageClosed'
      BY <1>1, <1>2, <2>1
      DEF Begun, OthersAreOld, ReadsAreOurs, BoundIsOurs, ResultIsLast, PageClosed,
          page, Turns, Asked, Attempt
    <2>4. AnswerIsOurs'
      BY <1>1, <1>2, <2>1 DEF AnswerIsOurs, page, Asked
    <2>5. QED
      BY <2>2, <2>3, <2>4
  <1>5. QED
    BY <1>3, <1>4 DEF Observe

LEMMA PollKeeps ==
    ASSUME Inv, Poll
    PROVE  Inv'
  <1> DEFINE t == Bound
             steady == IF Found(t) > 0 /\ Found(t) \in Balanced THEN Stable(Found(t)) ELSE 0
  <1> USE DEF Inv
  <1>1. pc = "texts" /\ pc' \in {"closing", "texts"} /\ result = None /\ bound' = t
        /\ UNCHANGED <<driver, baseline, texts, open, shown, doubled, text, writing, sent, loads, late, cut>>
    BY DEF Poll, ResultIsLast
  <1>2. t \in Turns \cup {None} /\ (late = {} /\ t # None => t \in Asked)
    <2>1. t \in Turns \cup {None} /\ (t = bound \/ t \in New([u \in Turns |-> Found(u)]))
      BY BoundType
    <2>2. ASSUME late = {}, t \in New([u \in Turns |-> Found(u)]) PROVE t \in Asked
      BY <1>1, <2>2, NewIsOurs DEF Attempt
    <2>3. ASSUME late = {}, t = bound, t # None PROVE t \in Asked
      BY <1>1, <2>3 DEF BoundIsOurs, Attempt
    <2>4. QED
      BY <2>1, <2>2, <2>3
  <1>3. t # None => Found(t) \in 0 .. Full
    BY <1>2, PageAssumption DEF Found, TypeOK
  <1>4. /\ lag' \in Nat /\ stop' \in BOOLEAN /\ paused' \in BOOLEAN
    <2>1. lag' \in Nat
      BY DEF Poll, Patience, TypeOK
    <2>2. stop' \in {stop, TRUE} /\ paused' \in {paused, FALSE}
      BY DEF Poll
    <2>3. QED
      BY <2>1, <2>2 DEF TypeOK
  <1>5. /\ last' \in 0 .. Full /\ count' \in Nat
        /\ \/ UNCHANGED result
           \/ /\ pc' = "closing" /\ t # None /\ Found(t) \in 1 .. Full
              /\ result' = [turn |-> t, text |-> Found(t)]
    <2>1. CASE UNCHANGED <<last, count, result>>
      BY <2>1 DEF TypeOK
    <2>2. CASE count' = 0 /\ UNCHANGED <<last, result>>
      BY <2>2 DEF TypeOK
    <2>3. CASE /\ t # None /\ last' = Found(t) /\ count' = steady
               /\ \/ Found(t) > 0 /\ Return(t, Found(t)) /\ pc' = "closing"
                  \/ UNCHANGED result
      <3>1. steady \in Nat
        BY DEF Stable, TypeOK
      <3>2. QED
        BY <2>3, <3>1, <1>3, PageAssumption DEF Return
    <2>4. QED
      BY <2>1, <2>2, <2>3 DEF Poll
  <1>6. TypeOK'
    <2>1. result' \in [turn : Turns, text : 1 .. Full] \cup {None}
      BY <1>1, <1>2, <1>5
    <2>2. QED
      BY <1>1, <1>2, <1>4, <1>5, <2>1 DEF TypeOK, Turns
  <1>7. Begun' /\ OthersAreOld' /\ ReadsAreOurs' /\ BoundIsOurs' /\ ResultIsLast' /\ PageClosed'
    BY <1>1, <1>2, <1>5
    DEF Begun, OthersAreOld, ReadsAreOurs, BoundIsOurs, ResultIsLast, PageClosed,
        Turns, Asked, Attempt
  <1>8. AnswerIsOurs'
    BY <1>1, <1>2, <1>5 DEF AnswerIsOurs, Asked
  <1>9. QED
    BY <1>6, <1>7, <1>8

LEMMA EndingKeeps ==
    ASSUME Inv, Fail \/ Close
    PROVE  Inv'
  <1> USE DEF Inv, TypeOK, Begun, OthersAreOld, ReadsAreOurs, BoundIsOurs, ResultIsLast,
          AnswerIsOurs, PageClosed, local, page, Turns, Asked, Attempt
  <1>1. CASE Fail
    BY <1>1 DEF Fail
  <1>2. CASE Close
    BY <1>2 DEF Close, Goto
  <1>3. QED
    BY <1>1, <1>2

\* The page's own moves.
LEMMA RenderKeeps ==
    ASSUME Inv, NEW t \in Turns, Render(t)
    PROVE  Inv'
  <1> USE PageAssumption DEF Inv, Render, PageMoves, local
  <1>1. TypeOK'
    BY DEF TypeOK, Turns
  <1>2. Begun'
    BY DEF TypeOK, Begun, Turns, Asked
  <1>3. OthersAreOld' /\ ReadsAreOurs' /\ BoundIsOurs'
    BY DEF OthersAreOld, ReadsAreOurs, BoundIsOurs, Turns, Asked, Attempt
  <1>4. ResultIsLast' /\ AnswerIsOurs' /\ PageClosed'
    BY DEF ResultIsLast, AnswerIsOurs, PageClosed, Asked
  <1>5. QED
    BY <1>1, <1>2, <1>3, <1>4

LEMMA PageKeeps ==
    ASSUME Inv, NEW t \in Turns, Double(t) \/ Begin(t) \/ CatchUp(t) \/ Write \/ Pause \/ Finish
    PROVE  Inv'
  <1> USE PageAssumption
      DEF Inv, PageMoves, local, TypeOK, Begun, OthersAreOld, ReadsAreOurs, BoundIsOurs, ResultIsLast,
          AnswerIsOurs, PageClosed, Turns, Asked, Attempt
  <1>1. CASE Double(t)
    BY <1>1 DEF Double
  <1>2. CASE Begin(t)
    BY <1>2 DEF Begin
  <1>3. CASE CatchUp(t)
    BY <1>3 DEF CatchUp
  <1>4. CASE Write
    BY <1>4 DEF Write
  <1>5. CASE Pause
    BY <1>5 DEF Pause
  <1>6. CASE Finish
    BY <1>6 DEF Finish
  <1>7. QED
    BY <1>1, <1>2, <1>3, <1>4, <1>5, <1>6

LEMMA LoadKeeps ==
    ASSUME Inv, Load
    PROVE  Inv'
  <1> USE DEF Inv
  <1>1. /\ UNCHANGED <<driver, baseline, bound, last, count, texts, result, open, lag, sent, late, cut>>
        /\ loads' = loads + 1 /\ shown' = {} /\ doubled' = {}
        /\ writing' = None /\ stop' = FALSE /\ paused' = FALSE
    BY DEF Load, PageMoves, local
  <1>2. pc \in {"composer"} \cup Attempt /\ (pc' = pc \/ pc' \in {"hung", "composer"})
    BY DEF Load, Retry, Attempt
  <1>3. /\ text' \in [Turns -> 0 .. Full]
        /\ \A t \in Turns : text'[t] > 0 => text[t] > 0 \/ t = writing
    BY PageAssumption DEF Load, TypeOK
  <1>4. TypeOK'
    <2>1. pc' \in {"composer", "send", "texts", "stop", "hung"}
      BY <1>2 DEF Attempt
    <2>2. loads' \in Nat
      BY <1>1 DEF TypeOK
    <2>3. result' \in [turn : Turns, text : 1 .. Full] \cup {None}
      BY <1>1 DEF TypeOK
    <2>4. QED
      BY <1>1, <1>3, <2>1, <2>2, <2>3 DEF TypeOK
  <1>5. Begun'
    BY <1>1, <1>3, PageAssumption DEF Begun, Turns, Asked
  <1>6. OthersAreOld' /\ ReadsAreOurs' /\ BoundIsOurs'
    BY <1>1, <1>2 DEF OthersAreOld, ReadsAreOurs, BoundIsOurs, Turns, Asked, Attempt
  <1>7. ResultIsLast' /\ AnswerIsOurs' /\ PageClosed'
    BY <1>1, <1>2 DEF ResultIsLast, AnswerIsOurs, PageClosed, Asked, Attempt
  <1>8. QED
    BY <1>4, <1>5, <1>6, <1>7

LEMMA InvInductive == Inv /\ [Next]_vars => Inv'
  <1> SUFFICES ASSUME Inv, [Next]_vars PROVE Inv'
    OBVIOUS
  <1>1. CASE Open \/ TakeBaseline \/ Send
    BY <1>1, SendingKeeps
  <1>2. CASE ReadTexts \/ Observe \/ Poll
    BY <1>2, ReadTextsKeeps, ObserveKeeps, PollKeeps
  <1>3. CASE Fail \/ Close
    BY <1>3, EndingKeeps
  <1>4. CASE \E t \in Turns : Render(t)
    BY <1>4, RenderKeeps
  <1>5. CASE \E t \in Turns : Double(t) \/ Begin(t) \/ CatchUp(t)
    BY <1>5, PageKeeps
  <1>6. CASE Write \/ Pause \/ Finish
    <2>1. PICK t \in Turns : TRUE
      BY <1>6 DEF Inv, TypeOK, Write, Pause, Finish
    <2>2. QED
      BY <1>6, <2>1, PageKeeps
  <1>7. CASE Load
    BY <1>7, LoadKeeps
  <1>8. CASE UNCHANGED vars
    BY <1>8
    DEF vars, local, page, Inv, TypeOK, Begun, OthersAreOld, ReadsAreOurs, BoundIsOurs, ResultIsLast,
        AnswerIsOurs, PageClosed, Turns, Asked, Attempt
  <1>9. QED
    BY <1>1, <1>2, <1>3, <1>4, <1>5, <1>6, <1>7, <1>8 DEF Next

\* The types of the turn's and the page's state.
THEOREM PageTypeCorrect == Spec => []TypeOK
  <1>1. Inv => TypeOK
    BY DEF Inv
  <1>2. QED
    BY <1>1, InvInitial, InvInductive, PTL DEF Spec

\* Whatever the page renders, doubles, drops and loads again, the answer is
\* one to the prompt, unless another turn came after the baseline.
THEOREM AnswersAreOurs == Spec => []AnswerIsOurs
  <1>1. Inv => AnswerIsOurs
    BY DEF Inv
  <1>2. QED
    BY <1>1, InvInitial, InvInductive, PTL DEF Spec

\* No way a turn ends leaves its page open.
THEOREM PagesAreClosed == Spec => []PageClosed
  <1>1. Inv => PageClosed
    BY DEF Inv
  <1>2. QED
    BY <1>1, InvInitial, InvInductive, PTL DEF Spec

-------------------------------------------------------------------------------
(* Whole answers.  Polls that find the same part of an answer are counted  *)
(* by the page's lag, but for one between whose two looks at the page the  *)
(* stop button went.                                                       *)

\* What is written, and by which signs a driver can tell.
SiteInv ==
    /\ \A t \in Others : text[t] = Full
    /\ writing = None => ~stop /\ ~paused
    /\ writing # None => (stop \/ paused) /\ \A t \in shown \ {writing} : text[t] = Full
    /\ paused => cut = text[writing]
    /\ lag <= MaxLag

\* The page driver sends once, so that the site stops once.
OnePrompt ==
    driver = "page" =>
        /\ sent <= 1 /\ (pc \in {"idle", "composer", "send"} => sent = 0)
        /\ sent = 0 => cut = 0
        /\ cut > 0 => (writing = None \/ paused) /\ \A t \in Asked : text[t] > 0

\* The turn that was bound, and what was read of it.
BoundInv ==
    pc \in Attempt =>
        /\ bound = None => last = 0
        /\ bound # None =>
            /\ 0 < text[bound] /\ last <= text[bound] /\ bound \in Asked \cup Others
            /\ IF driver = "page" THEN last > 0 ELSE bound \in shown
            /\ text[bound] < Full /\ writing # None => writing = bound
        /\ pc = "stop" => driver = "page" /\ \A t \in Turns : texts[t] <= text[t]

\* A part of the answer as the last poll found it, and not where the site stopped.
Part == pc \in Attempt /\ bound # None /\ last < Full /\ ~(driver = "page" /\ last = cut)

Slack == IF driver = "page" THEN 1 ELSE 0

CountInv ==
    Part =>
        /\ last = text[bound] /\ writing = bound => count = 0
        /\ last = text[bound] => count <= lag + Slack
        /\ pc = "stop" /\ texts[bound] = last =>
            /\ count <= MaxLag
            /\ last = text[bound] => count <= lag

WholeInv == Inv /\ SiteInv /\ OnePrompt /\ BoundInv /\ CountInv /\ AnswerWhole

LEMMA AskedOnce ==
    ASSUME TypeOK, OnePrompt, driver = "page", NEW t \in Asked, NEW u \in Asked
    PROVE  t = u
  <1>1. PICK i \in 1 .. sent : t = Replies[i]
    BY DEF Asked
  <1>2. PICK j \in 1 .. sent : u = Replies[j]
    BY DEF Asked
  <1>3. i = 1 /\ j = 1
    BY DEF OnePrompt, TypeOK
  <1>4. QED
    BY <1>1, <1>2, <1>3

LEMMA WholeInitial == Init => WholeInv
  <1> SUFFICES ASSUME Init PROVE WholeInv
    OBVIOUS
  <1>1. SiteInv
    BY PageAssumption DEF Init, SiteInv, Turns
  <1>2. OnePrompt /\ BoundInv /\ CountInv /\ AnswerWhole
    BY DEF Init, OnePrompt, BoundInv, CountInv, Part, AnswerWhole, Attempt
  <1>3. QED
    BY <1>1, <1>2, InvInitial DEF WholeInv

\* Steps that neither poll nor change what is written.
LEMMA StillKeeps ==
    ASSUME WholeInv, Open \/ TakeBaseline \/ Send \/ Fail \/ Close
    PROVE  SiteInv' /\ OnePrompt' /\ BoundInv' /\ CountInv' /\ AnswerWhole'
  <1> USE PageAssumption
      DEF WholeInv, Inv, Goto, local, page, TypeOK, ResultIsLast, SiteInv, OnePrompt, BoundInv,
          CountInv, Part, Slack, AnswerWhole, Attempt
  <1>1. CASE Open
    BY <1>1 DEF Open, Asked
  <1>2. CASE TakeBaseline
    BY <1>2 DEF TakeBaseline, Asked
  <1>3. CASE Send
    <2>1. SiteInv' /\ CountInv' /\ AnswerWhole'
      BY <1>3 DEF Send
    <2>2. BoundInv'
      <3>1. bound' = bound /\ last' = last /\ pc = "send" /\ pc' = "texts" /\ text' = text /\ writing' = writing
            /\ driver' = driver /\ shown' = shown
        BY <1>3 DEF Send
      <3>2. Asked \subseteq Asked'
        BY <1>3 DEF Send, Asked
      <3>3. QED
        BY <3>1, <3>2
    <2>3. OnePrompt'
      <3>1. ASSUME driver = "page" PROVE cut = 0
        BY <1>3, <3>1 DEF Send
      <3>2. driver' = driver /\ pc' = "texts" /\ sent' = sent + 1 /\ cut' = cut /\ pc = "send"
        BY <1>3 DEF Send
      <3>3. QED
        BY <3>1, <3>2
    <2>4. QED
      BY <2>1, <2>2, <2>3
  <1>4. CASE Fail
    BY <1>4 DEF Fail, Asked
  <1>5. CASE Close
    BY <1>5 DEF Close, Asked
  <1>6. QED
    BY <1>1, <1>2, <1>3, <1>4, <1>5

LEMMA PatienceKeeps ==
    ASSUME TypeOK, lag <= MaxLag, Patience
    PROVE  /\ lag' \in Nat /\ lag <= lag' /\ lag' <= MaxLag
           /\ Behind => lag' = lag + 1
  BY PageAssumption DEF Patience, TypeOK

LEMMA ReadTextsWhole ==
    ASSUME WholeInv, ReadTexts
    PROVE  SiteInv' /\ OnePrompt' /\ BoundInv' /\ CountInv' /\ AnswerWhole'
  <1> USE DEF WholeInv, Inv
  <1>1. /\ driver = "page" /\ pc = "texts" /\ pc' = "stop"
        /\ UNCHANGED <<driver, baseline, bound, last, count, result,
                       open, shown, doubled, text, writing, stop, paused, sent, loads, late, cut>>
        /\ \A t \in Turns : texts'[t] = Found(t)
    BY DEF ReadTexts, Goto
  <1>2. /\ lag' \in Nat /\ lag <= lag' /\ lag' <= MaxLag
        /\ Behind => lag' = lag + 1
    BY PatienceKeeps DEF ReadTexts, SiteInv
  <1>3. SiteInv' /\ OnePrompt' /\ AnswerWhole'
    BY <1>1, <1>2 DEF SiteInv, OnePrompt, AnswerWhole, Asked
  <1>4. BoundInv'
    <2>1. \A t \in Turns : texts'[t] <= text'[t]
      BY <1>1, PageAssumption DEF Found, TypeOK
    <2>2. QED
      BY <1>1, <2>1 DEF BoundInv, Asked, Attempt
  <1>5. CountInv'
    <2> SUFFICES ASSUME Part' PROVE /\ last = text[bound] /\ writing = bound => count = 0
                                    /\ last = text[bound] => count <= lag' + 1
                                    /\ texts'[bound] = last => count <= MaxLag /\ count <= lag'
      BY <1>1 DEF CountInv, Slack
    <2>1. Part /\ bound \in Turns /\ count \in Nat /\ last \in Nat /\ lag \in Nat /\ MaxLag \in Nat
      BY <1>1, PageAssumption DEF Part, Attempt, TypeOK
    <2>2. /\ last = text[bound] /\ writing = bound => count = 0
          /\ last = text[bound] => count <= lag + 1
      BY <1>1, <2>1 DEF CountInv, Slack
    <2>3. ASSUME texts'[bound] = last PROVE count <= MaxLag /\ count <= lag'
      <3>1. last > 0
        BY <1>1, <2>1 DEF Part, BoundInv, Attempt
      <3>2. Found(bound) = last
        BY <1>1, <2>1, <2>3
      <3>3. bound \in shown /\ text[bound] = last /\ last < Full
        BY <2>1, <3>1, <3>2 DEF Found, Part
      <3>4. CASE writing = bound
        BY <1>2, <2>1, <2>2, <3>3, <3>4
      <3>5. CASE writing = None
        <4>1. lag' = lag + 1
          BY <1>2, <3>3, <3>5 DEF Behind
        <4>2. QED
          BY <1>2, <2>1, <2>2, <3>3, <4>1
      <3>6. writing = None \/ writing = bound
        BY <1>1, <2>1, <3>3 DEF BoundInv, Part, Attempt
      <3>7. QED
        BY <3>4, <3>5, <3>6
    <2>4. QED
      BY <1>2, <2>1, <2>2, <2>3
  <1>6. QED
    BY <1>3, <1>4, <1>5

LEMMA ObserveWhole ==
    ASSUME WholeInv, Observe
    PROVE  SiteInv' /\ OnePrompt' /\ BoundInv' /\ CountInv' /\ AnswerWhole'
  <1> DEFINE new == New(texts)
  <1> USE DEF WholeInv, Inv
  <1>1. pc = "stop" /\ pc' \in {"closing", "texts"} /\ result = None /\ driver = "page"
        /\ UNCHANGED <<driver, baseline, texts, page>>
    BY DEF Observe, ResultIsLast, BoundInv, Attempt
  <1>2. SiteInv' /\ OnePrompt'
    BY <1>1 DEF SiteInv, OnePrompt, page, Asked
  <1>3. CASE UNCHANGED <<bound, last, count, result>>
    BY <1>1, <1>2, <1>3
    DEF BoundInv, CountInv, Part, Slack, AnswerWhole, page, Asked, Attempt
  <1>4. CASE \E t \in new :
               /\ bound \in {None, t}
               /\ bound' = t /\ last' = texts[t] /\ count' = Stable(texts[t])
               /\ IF Stable(texts[t]) >= StablePolls
                  THEN pc' = "closing" /\ Return(t, texts[t])
                  ELSE pc' = "texts" /\ UNCHANGED result
    <2>1. PICK t \in new :
            /\ bound \in {None, t}
            /\ bound' = t /\ last' = texts[t] /\ count' = Stable(texts[t])
            /\ \/ /\ Stable(texts[t]) >= StablePolls
                  /\ pc' = "closing" /\ result' = [turn |-> t, text |-> texts[t]]
               \/ pc' = "texts" /\ UNCHANGED result
      BY <1>4 DEF Return
    <2>2. /\ t \in Turns /\ texts[t] \in 1 .. Full /\ text[t] \in 1 .. Full /\ texts[t] <= text[t]
          /\ t \in Asked \cup Others
      <3>1. t \in Turns /\ texts[t] > 0 /\ texts[t] \in 0 .. Full /\ text[t] \in 0 .. Full
        BY <2>1 DEF New, TypeOK
      <3>2. texts[t] <= text[t]
        BY <1>1, <3>1 DEF BoundInv, Attempt
      <3>3. t \in Asked \cup Others
        BY <1>1, <3>1 DEF ReadsAreOurs
      <3>4. QED
        BY <3>1, <3>2, <3>3, PageAssumption
    <2>3. text[t] < Full /\ writing # None => writing = t
      <3> SUFFICES ASSUME text[t] < Full, writing # None PROVE writing = t
        OBVIOUS
      <3>1. t \in Asked
        BY <2>2, PageAssumption DEF SiteInv
      <3>2. writing \in Asked
        BY DEF Begun
      <3>3. QED
        BY <1>1, <3>1, <3>2, AskedOnce
    <2>4. BoundInv'
      <3>1. UNCHANGED <<driver, text, writing, texts, sent>> /\ bound' = t /\ last' = texts[t]
        BY <1>1, <2>1 DEF page
      <3>2. t # None
        BY <2>2, PageAssumption
      <3>3. Asked' = Asked
        BY <3>1 DEF Asked
      <3>4. QED
        BY <1>1, <2>2, <2>3, <3>1, <3>2, <3>3 DEF BoundInv, Attempt
    <2>5. ASSUME texts[t] < Full, texts[t] # cut
          PROVE  /\ text[t] = texts[t] /\ writing = t => Stable(texts[t]) = 0
                 /\ text[t] = texts[t] => Stable(texts[t]) <= lag + 1
                 /\ Stable(texts[t]) <= MaxLag + 1
      <3> USE PageAssumption
      <3>0. count \in Nat /\ lag \in Nat
        BY DEF TypeOK
      <3>1. CASE texts[t] # last \/ stop
        BY <3>0, <3>1 DEF Stable
      <3>2. CASE texts[t] = last /\ ~stop
        <4>1. bound = t
          BY <1>1, <2>1, <2>2, <3>2 DEF BoundInv, Attempt
        <4>2. Part
          BY <1>1, <2>1, <2>2, <2>5, <3>2, <4>1, PageAssumption DEF Part, Attempt
        <4>3. count <= MaxLag /\ (last = text[t] => count <= lag)
          BY <1>1, <3>2, <4>1, <4>2 DEF CountInv
        <4>4. Stable(texts[t]) = count + 1
          BY <3>2 DEF Stable
        <4>5. text[t] = texts[t] => writing # t
          <5> SUFFICES ASSUME text[t] = texts[t], writing = t PROVE FALSE
            OBVIOUS
          <5>1. paused
            BY <3>2, <2>2, PageAssumption DEF SiteInv
          <5>2. QED
            BY <2>5, <5>1 DEF SiteInv
        <4>6. QED
          BY <3>0, <3>2, <4>3, <4>4, <4>5
      <3>3. QED
        BY <3>1, <3>2
    <2>6. CountInv'
      <3>1. Part' => pc' = "texts" /\ texts[t] < Full /\ texts[t] # cut
        BY <1>1, <2>1 DEF Part, page, Attempt
      <3>2. UNCHANGED <<driver, text, writing, lag>> /\ bound' = t /\ last' = texts[t]
            /\ count' = Stable(texts[t])
        BY <1>1, <2>1 DEF page
      <3>3. QED
        BY <1>1, <2>5, <3>1, <3>2 DEF CountInv, Slack
    <2>7. AnswerWhole'
      <3>1. CASE pc' = "texts" /\ UNCHANGED result
        BY <1>1, <3>1 DEF AnswerWhole, page
      <3>2. CASE Stable(texts[t]) >= StablePolls /\ result' = [turn |-> t, text |-> texts[t]]
        <4>1. Stable(texts[t]) \in Nat
          BY DEF Stable, TypeOK
        <4>2. texts[t] = Full \/ texts[t] = cut
          BY <2>2, <2>5, <3>2, <4>1, PageAssumption, PatienceAssumption
        <4>3. QED
          BY <1>1, <3>2, <4>2 DEF AnswerWhole, page
      <3>3. QED
        BY <2>1, <3>1, <3>2
    <2>8. QED
      BY <1>2, <2>4, <2>6, <2>7
  <1>5. QED
    BY <1>3, <1>4 DEF Observe

LEMMA PollWhole ==
    ASSUME WholeInv, Poll
    PROVE  SiteInv' /\ OnePrompt' /\ BoundInv' /\ CountInv' /\ AnswerWhole'
  <1> DEFINE t == Bound
             length == Found(t)
             continue == paused /\ t = writing /\ t \in shown \ doubled
             steady == IF length > 0 /\ length \in Balanced THEN Stable(length) ELSE 0
  <1> USE DEF WholeInv, Inv
  <1>1. /\ driver = "extension" /\ pc = "texts" /\ pc' \in {"closing", "texts"} /\ result = None
        /\ bound' = t
        /\ UNCHANGED <<driver, baseline, texts, open, shown, doubled, text, writing, sent, loads, late, cut>>
    <2>1. driver = "extension"
      BY DEF Poll
    <2>2. QED
      BY <2>1 DEF Poll, ResultIsLast
  <1>2. /\ lag' \in Nat /\ lag <= lag' /\ lag' <= MaxLag
        /\ Behind => lag' = lag + 1
    BY PatienceKeeps DEF Poll, SiteInv
  <1>3. \/ stop' = stop /\ paused' = paused
        \/ writing # None /\ paused' = FALSE /\ stop' = TRUE
    <2>1. CASE continue
      <3>1. t # None
        BY <2>1, PageAssumption DEF TypeOK
      <3>2. QED
        BY <2>1, <3>1 DEF Poll
    <2>2. CASE ~continue
      BY <2>2 DEF Poll
    <2>3. QED
      BY <2>1, <2>2
  <1>4. SiteInv'
    BY <1>1, <1>2, <1>3 DEF SiteInv
  <1>5. OnePrompt'
    BY <1>1 DEF OnePrompt
  <1>6. /\ t # None =>
            /\ t \in shown /\ text[t] \in 1 .. Full /\ t \in Asked \cup Others
            /\ text[t] < Full /\ writing # None => writing = t
        /\ t # bound => bound = None
    <2>1. t \in Turns \cup {None} /\ (t = bound \/ t \in New([u \in Turns |-> Found(u)]))
      BY BoundType
    <2>2. t # bound => bound = None
      BY DEF Bound
    <2>3. ASSUME t # None, t = bound
          PROVE  t \in shown /\ text[t] > 0 /\ t \in Asked \cup Others
      BY <1>1, <2>3 DEF BoundInv, Attempt
    <2>4. ASSUME t # None, t # bound
          PROVE  t \in shown /\ text[t] > 0 /\ t \in Asked \cup Others
      <3>1. t \in Turns /\ Found(t) > 0
        BY <2>1, <2>4 DEF New
      <3>2. t \in shown /\ text[t] > 0
        BY <3>1 DEF Found
      <3>3. QED
        BY <3>1, <3>2 DEF Begun
    <2>5. t # None => text[t] \in 0 .. Full
      BY <2>1 DEF TypeOK
    <2>6. t \in shown /\ text[t] < Full /\ writing # None => writing = t
      BY <2>5, PageAssumption DEF SiteInv
    <2>7. QED
      BY <2>2, <2>3, <2>4, <2>5, <2>6, PageAssumption
  <1>7. \/ length <= text[t] /\ length \in Nat /\ (length > 0 => length = text[t] /\ t \in shown \ doubled)
        \/ t = None
    BY <1>6, PageAssumption DEF Found
  <1>8. CASE UNCHANGED <<last, count, result>>
    <2>1. BoundInv'
      <3>1. bound = None => last = 0
        BY <1>1 DEF BoundInv, Attempt
      <3>2. last \in Nat /\ (t # None => last <= text[t])
        BY <1>1, <1>6, <3>1, PageAssumption DEF BoundInv, Attempt, TypeOK
      <3>3. t = None => last = 0
        BY <1>6, <3>1
      <3>4. Asked' = Asked
        BY <1>1 DEF Asked
      <3>5. QED
        BY <1>1, <1>6, <1>8, <3>2, <3>3, <3>4 DEF BoundInv, Attempt
    <2>2. CountInv'
      <3> SUFFICES ASSUME Part' PROVE /\ last = text[t] /\ writing = t => count = 0
                                      /\ last = text[t] => count <= lag'
        BY <1>1, <1>2, <1>8 DEF CountInv, Slack, Part, TypeOK
      <3>1. ASSUME t # bound PROVE last # text[t]
        BY <1>1, <1>6, <3>1 DEF BoundInv, Part, Attempt
      <3>2. ASSUME t = bound PROVE Part
        BY <1>1, <1>8, <3>2 DEF Part, Attempt
      <3>3. QED
        BY <1>1, <1>2, <3>1, <3>2 DEF CountInv, Slack, TypeOK
    <2>3. AnswerWhole'
      BY <1>1, <1>8 DEF AnswerWhole
    <2>4. QED
      BY <1>4, <1>5, <2>1, <2>2, <2>3
  <1>9. CASE t # None /\ continue /\ count' = 0 /\ UNCHANGED <<last, result>>
    <2>1. BoundInv'
      <3>1. bound = None => last = 0
        BY <1>1 DEF BoundInv, Attempt
      <3>2. last \in Nat /\ last <= text[t]
        BY <1>1, <1>6, <1>9, <3>1 DEF BoundInv, Attempt, TypeOK
      <3>3. Asked' = Asked
        BY <1>1 DEF Asked
      <3>4. QED
        BY <1>1, <1>6, <1>9, <3>2, <3>3 DEF BoundInv, Attempt
    <2>2. CountInv' /\ AnswerWhole'
      BY <1>1, <1>2, <1>9, PageAssumption DEF CountInv, Slack, AnswerWhole
    <2>3. QED
      BY <1>4, <1>5, <2>1, <2>2
  <1>10. CASE /\ t # None /\ ~continue /\ last' = length /\ count' = steady
              /\ IF length > 0 /\ steady >= StablePolls
                 THEN pc' = "closing" /\ Return(t, length)
                 ELSE UNCHANGED <<pc, result>>
    <2>1. BoundInv'
      <3>1. Asked' = Asked
        BY <1>1 DEF Asked
      <3>2. QED
        BY <1>1, <1>6, <1>7, <1>10, <3>1 DEF BoundInv, Attempt
    <2>2. ASSUME length = text[t], length < Full
          PROVE  steady <= lag' /\ (writing = t => steady = 0)
      <3>0. count \in Nat /\ lag \in Nat
        BY DEF TypeOK
      <3>1. CASE steady = 0
        BY <1>2, <3>1
      <3>2. CASE steady # 0
        <4>1. length > 0 /\ length = last /\ ~stop /\ steady = count + 1
          BY <3>2 DEF Stable
        <4>2. t = bound
          BY <1>1, <1>6, <1>10, <4>1 DEF BoundInv, Attempt
        <4>3. t \in shown \ doubled
          BY <1>7, <1>10, <4>1
        <4>4. writing = None
          <5>1. writing # None => writing = t
            BY <1>6, <1>10, <2>2
          <5>2. writing # None => paused
            BY <4>1 DEF SiteInv
          <5>3. QED
            BY <1>10, <4>3, <5>1, <5>2
        <4>5. lag' = lag + 1
          BY <1>2, <2>2, <4>3, <4>4 DEF Behind
        <4>6. Part
          <5>1. bound # None /\ last < Full
            BY <1>10, <2>2, <4>1, <4>2
          <5>2. QED
            BY <1>1, <5>1 DEF Part, Attempt
        <4>7. count <= lag
          <5>1. last = text[bound]
            BY <2>2, <4>1, <4>2
          <5>2. Slack = 0
            BY <1>1 DEF Slack
          <5> HIDE DEF t, length, steady, continue
          <5>3. count <= lag + Slack
            BY <4>6, <5>1 DEF CountInv
          <5>4. QED
            BY <3>0, <5>2, <5>3
        <4>8. QED
          BY <1>10, <3>0, <4>1, <4>4, <4>5, <4>7
      <3>3. QED
        BY <3>1, <3>2
    <2>3. CountInv'
      BY <1>1, <1>2, <1>10, <2>2 DEF CountInv, Part, Slack
    <2>4. AnswerWhole'
      <3>1. CASE UNCHANGED result
        BY <1>1, <3>1 DEF AnswerWhole
      <3>2. CASE length > 0 /\ steady >= StablePolls /\ result' = [turn |-> t, text |-> length]
        <4>1. steady \in Nat
          BY DEF Stable, TypeOK
        <4>2. length = text[t] /\ length \in 1 .. Full
          BY <1>6, <1>7, <1>10, <3>2
        <4>3. length = Full
          BY <1>2, <2>2, <3>2, <4>1, <4>2, PageAssumption, PatienceAssumption
        <4>4. QED
          BY <3>2, <4>3 DEF AnswerWhole
      <3>3. QED
        BY <1>10, <3>1, <3>2 DEF Return
    <2>5. QED
      BY <1>4, <1>5, <2>1, <2>3, <2>4
  <1>11. QED
    BY <1>8, <1>9, <1>10 DEF Poll

\* The page's own moves.
LEMMA RenderWhole ==
    ASSUME WholeInv, NEW t \in Turns, Render(t) \/ Double(t)
    PROVE  SiteInv' /\ OnePrompt' /\ BoundInv' /\ CountInv' /\ AnswerWhole'
  <1> USE DEF WholeInv, Inv
  <1>1. /\ UNCHANGED <<driver, pc, local, result, open, text, writing, stop, paused, lag, sent, loads, cut>>
        /\ shown \subseteq shown' /\ \A u \in shown' \ shown : text[u] = Full
    BY DEF Render, Double, PageMoves
  <1>2. Asked' = Asked
    BY <1>1 DEF Asked
  <1>3. SiteInv' /\ OnePrompt' /\ BoundInv'
    BY <1>1, <1>2 DEF SiteInv, OnePrompt, BoundInv, local, Attempt
  <1>4. CountInv' /\ AnswerWhole'
    BY <1>1 DEF CountInv, Part, Slack, AnswerWhole, local, Attempt
  <1>5. QED
    BY <1>3, <1>4

LEMMA BeginWhole ==
    ASSUME WholeInv, NEW t \in Turns, Begin(t)
    PROVE  SiteInv' /\ OnePrompt' /\ BoundInv' /\ CountInv' /\ AnswerWhole'
  <1> USE DEF WholeInv, Inv
  <1>1. /\ UNCHANGED <<driver, pc, local, result, open, text, paused, lag, sent, loads, late, cut>>
        /\ t \in Asked \ shown /\ text[t] = 0 /\ writing = None /\ ~Behind
        /\ shown' = shown \cup {t} /\ writing' = t /\ stop' = TRUE
    BY DEF Begin, PageMoves
  <1>2. Asked' = Asked
    BY <1>1 DEF Asked
  <1>3. \A u \in shown : text[u] = Full
    BY <1>1, PageAssumption DEF Behind, TypeOK
  <1>4. SiteInv'
    BY <1>1, <1>3, PageAssumption DEF SiteInv
  <1>5. OnePrompt'
    BY <1>1, <1>2, PageAssumption DEF OnePrompt, TypeOK
  <1>6. ASSUME pc \in Attempt, bound # None PROVE text[bound] = Full
    <2>1. bound \in Asked \cup Others /\ text[bound] > 0
      BY <1>6 DEF BoundInv
    <2>2. CASE driver = "page"
      <3>1. bound # t
        BY <1>1, <2>1
      <3>2. bound \in Others
        BY <1>1, <2>1, <2>2, <3>1, AskedOnce
      <3>3. QED
        BY <3>2 DEF SiteInv
    <2>3. CASE driver # "page"
      BY <1>3, <1>6, <2>3 DEF BoundInv
    <2>4. QED
      BY <2>2, <2>3
  <1>7. BoundInv' /\ CountInv' /\ AnswerWhole'
    <2>1. BoundInv'
      BY <1>1, <1>2, <1>6, PageAssumption DEF BoundInv, local, Attempt
    <2>2. CountInv'
      BY <1>1, <1>6, PageAssumption DEF CountInv, Part, Slack, local, Attempt
    <2>3. AnswerWhole'
      BY <1>1 DEF AnswerWhole
    <2>4. QED
      BY <2>1, <2>2, <2>3
  <1>8. QED
    BY <1>4, <1>5, <1>7

\* More of the answer is there than the last poll found.
LEMMA GrowWhole ==
    ASSUME WholeInv, Write \/ \E t \in Turns : CatchUp(t)
    PROVE  SiteInv' /\ OnePrompt' /\ BoundInv' /\ CountInv' /\ AnswerWhole'
  <1> USE DEF WholeInv, Inv
  <1>1. \A u \in Turns :
          /\ text[u] \in 0 .. Full /\ text'[u] \in 0 .. Full /\ text[u] <= text'[u]
          /\ text'[u] # text[u] =>
                \/ u = writing /\ ~paused
                \/ writing = None /\ text'[u] = Full
    <2>1. CASE Write
      <3>1. writing \in Turns /\ text' = [text EXCEPT ![writing] = @ + 1] /\ text[writing] < Full /\ ~paused
        BY <2>1 DEF Write, TypeOK
      <3>2. QED
        BY <3>1, PageAssumption DEF TypeOK
    <2>2. CASE \E t \in Turns : CatchUp(t)
      <3>1. PICK t \in Turns : text' = [text EXCEPT ![t] = Full] /\ writing = None
        BY <2>2 DEF CatchUp, Behind
      <3>2. QED
        BY <3>1, PageAssumption DEF TypeOK
    <2>3. QED
      BY <2>1, <2>2
  <1>2. UNCHANGED <<driver, pc, local, result, open, shown, writing, stop, paused, lag, sent, loads, cut>>
    BY DEF Write, CatchUp, PageMoves
  <1>3. Asked' = Asked
    BY <1>2 DEF Asked
  <1>4. shown \subseteq Turns /\ Others \subseteq Turns /\ writing \in Turns \cup {None} /\ bound \in Turns \cup {None}
        /\ last \in 0 .. Full /\ Asked \subseteq Turns /\ texts \in [Turns -> 0 .. Full] /\ Full \in Nat
    BY PageAssumption DEF TypeOK, Turns, Asked
  <1>5. SiteInv'
    <2>1. paused => text'[writing] = text[writing]
      BY <1>1, <1>4 DEF SiteInv
    <2>2. \A u \in Turns : text[u] = Full => text'[u] = Full
      BY <1>1, <1>4
    <2>3. QED
      BY <1>2, <1>4, <2>1, <2>2 DEF SiteInv
  <1>6. OnePrompt'
    <2>1. \A u \in Asked : text[u] > 0 => text'[u] > 0
      BY <1>1, <1>4
    <2>2. QED
      BY <1>2, <1>3, <2>1 DEF OnePrompt
  <1>7. BoundInv'
    <2>1. bound # None =>
             text[bound] <= text'[bound] /\ text[bound] \in Nat /\ text'[bound] \in Nat
      BY <1>1, <1>4
    <2>2. \A u \in Turns : texts[u] <= text[u] => texts[u] <= text'[u]
      BY <1>1, <1>4
    <2>3. QED
      BY <1>2, <1>3, <1>4, <2>1, <2>2 DEF BoundInv, local, Attempt
  <1>8. CountInv'
    <2> SUFFICES ASSUME Part' PROVE CountInv'
      BY DEF CountInv
    <2>1. Part /\ bound \in Turns /\ last <= text[bound] /\ last < Full
      BY <1>2, <1>4 DEF Part, BoundInv, local, Attempt
    <2>2. last = text'[bound] => text'[bound] = text[bound]
      BY <1>1, <1>4, <2>1
    <2>3. QED
      BY <1>2, <2>1, <2>2 DEF CountInv, Slack, local
  <1>9. AnswerWhole'
    BY <1>2 DEF AnswerWhole
  <1>10. QED
    BY <1>5, <1>6, <1>7, <1>8, <1>9

LEMMA StopWhole ==
    ASSUME WholeInv, Pause \/ Finish
    PROVE  SiteInv' /\ OnePrompt' /\ BoundInv' /\ CountInv' /\ AnswerWhole'
  <1> USE DEF WholeInv, Inv
  <1>1. /\ UNCHANGED <<driver, pc, local, result, open, shown, text, sent, loads, late>>
        /\ writing # None /\ writing \in Turns /\ ~paused /\ stop' = FALSE
    BY DEF Pause, Finish, PageMoves, TypeOK
  <1>2. Asked' = Asked
    BY <1>1 DEF Asked
  <1>3. Part => (last = text[bound] /\ text[bound] < Full => writing = bound /\ count = 0)
    BY <1>1 DEF Part, BoundInv, CountInv
  <1>4. CASE Pause
    <2>1. /\ 0 < text[writing] /\ text[writing] < Full /\ paused' = TRUE /\ cut' = text[writing]
          /\ UNCHANGED <<writing, lag>>
      BY <1>4 DEF Pause
    <2>2. driver = "page" => ~(cut > 0) /\ cut = 0
      BY <1>1, PageAssumption DEF OnePrompt, TypeOK
    <2>3. SiteInv'
      BY <1>1, <2>1 DEF SiteInv
    <2>4. OnePrompt'
      <3>1. ASSUME driver = "page" PROVE sent # 0 /\ \A u \in Asked : text[u] > 0
        <4>1. writing \in Asked
          BY <1>1 DEF Begun
        <4>2. QED
          BY <2>1, <3>1, <4>1, AskedOnce DEF Asked, TypeOK
      <3>2. QED
        BY <1>1, <1>2, <2>1, <3>1 DEF OnePrompt
    <2>5. BoundInv'
      BY <1>1, <1>2, <2>1 DEF BoundInv, local, Attempt
    <2>6. CountInv'
      <3> SUFFICES ASSUME Part' PROVE CountInv'
        BY DEF CountInv
      <3>1. bound \in Turns /\ pc \in Attempt /\ last < Full
        BY <1>1 DEF Part, local, TypeOK
      <3>2. CASE Part
        BY <1>1, <2>1, <3>2 DEF CountInv, Slack, local
      <3>3. CASE driver = "page" /\ last = cut
        <4>1. last > 0
          BY <3>1, <3>3, <1>1 DEF Part, BoundInv, local
        <4>2. QED
          BY <2>2, <3>3, <4>1
      <3>4. QED
        BY <1>1, <3>1, <3>2, <3>3 DEF Part, local
    <2>7. AnswerWhole'
      BY <1>1, <2>2, PageAssumption DEF AnswerWhole, TypeOK
    <2>8. QED
      BY <2>3, <2>4, <2>5, <2>6, <2>7
  <1>5. CASE Finish
    <2>1. writing' = None /\ lag' = 0 /\ UNCHANGED <<paused, cut>>
      BY <1>5 DEF Finish
    <2>2. SiteInv'
      BY <1>1, <2>1, PageAssumption DEF SiteInv
    <2>3. OnePrompt' /\ BoundInv' /\ AnswerWhole'
      BY <1>1, <1>2, <2>1 DEF OnePrompt, BoundInv, AnswerWhole, local, Attempt
    <2>4. CountInv'
      <3> SUFFICES ASSUME Part' PROVE CountInv'
        BY DEF CountInv
      <3>1. Part /\ bound \in Turns /\ last < Full
        BY <1>1, <2>1 DEF Part, local, TypeOK
      <3>2. last = text[bound] => count = 0
        BY <1>3, <3>1
      <3>3. bound # None /\ lag' = 0 /\ writing' = None
        BY <2>1, <3>1, PageAssumption
      <3>4. QED
        BY <1>1, <3>1, <3>2, <3>3 DEF CountInv, Slack, local
    <2>5. QED
      BY <2>2, <2>3, <2>4
  <1>6. QED
    BY <1>4, <1>5

LEMMA LoadWhole ==
    ASSUME WholeInv, Load
    PROVE  SiteInv' /\ OnePrompt' /\ BoundInv' /\ CountInv' /\ AnswerWhole'
  <1> USE DEF WholeInv, Inv
  <1>1. /\ UNCHANGED <<driver, baseline, bound, last, count, texts, result, open, lag, sent, late, cut>>
        /\ shown' = {} /\ writing' = None /\ stop' = FALSE /\ paused' = FALSE
        /\ pc \in {"composer"} \cup Attempt
        /\ IF driver = "extension" THEN pc' \in {"hung", "composer"} ELSE pc' = pc
    BY DEF Load, PageMoves, Retry, local, Attempt
  <1>2. \A u \in Turns : /\ text[u] \in 0 .. Full /\ text'[u] \in {text[u], Full}
                         /\ text'[u] # text[u] => u = writing
    BY DEF Load, TypeOK
  <1>3. Asked' = Asked /\ Asked \subseteq Turns /\ Others \subseteq Turns /\ Full \in Nat \ {0}
    BY <1>1, PageAssumption DEF Asked, Turns
  <1>4. SiteInv'
    BY <1>1, <1>2, <1>3 DEF SiteInv
  <1>5. OnePrompt'
    <2>1. \A u \in Asked : text[u] > 0 => text'[u] > 0
      BY <1>2, <1>3
    <2>2. driver = "page" => pc' = pc
      BY <1>1 DEF TypeOK
    <2>3. QED
      BY <1>1, <1>3, <2>1, <2>2 DEF OnePrompt
  <1>6. CASE driver = "extension"
    <2>1. pc' \notin Attempt
      BY <1>1, <1>6 DEF Attempt
    <2>2. QED
      BY <1>1, <1>4, <1>5, <2>1 DEF BoundInv, CountInv, Part, AnswerWhole
  <1>7. CASE driver = "page"
    <2>1. pc' = pc
      BY <1>1, <1>7
    <2>2. bound # None /\ pc \in Attempt =>
            bound \in Turns /\ last \in Nat /\ last <= text[bound] /\ 0 < text[bound]
      BY <1>3 DEF BoundInv, TypeOK
    <2>3. bound # None /\ pc \in Attempt =>
            /\ last <= text'[bound] /\ 0 < text'[bound]
            /\ last = text'[bound] /\ last < Full => last = text[bound]
      BY <1>2, <1>3, <2>2
    <2>4. BoundInv'
      <3>1. pc = "stop" => \A u \in Turns : texts[u] <= text'[u]
        <4> SUFFICES ASSUME pc = "stop", NEW u \in Turns PROVE texts[u] <= text'[u]
          OBVIOUS
        <4>1. texts[u] \in 0 .. Full /\ texts[u] <= text[u]
          BY DEF BoundInv, TypeOK, Attempt
        <4>2. QED
          BY <1>2, <1>3, <4>1
      <3>2. QED
        BY <1>1, <1>3, <1>7, <2>1, <2>3, <3>1 DEF BoundInv
    <2>5. CountInv'
      <3> SUFFICES ASSUME Part' PROVE CountInv'
        BY DEF CountInv
      <3>1. Part /\ bound # None /\ pc \in Attempt /\ last < Full
        BY <1>1, <2>1 DEF Part
      <3>2. bound \in Turns
        BY <3>1 DEF TypeOK
      <3>3. QED
        BY <1>1, <2>1, <2>3, <3>1, <3>2 DEF CountInv, Slack
    <2>6. AnswerWhole'
      BY <1>1 DEF AnswerWhole
    <2>7. QED
      BY <1>4, <1>5, <2>4, <2>5, <2>6
  <1>8. QED
    BY <1>6, <1>7, PageAssumption DEF TypeOK

LEMMA WholeInductive == WholeInv /\ [Next]_vars => WholeInv'
  <1> SUFFICES ASSUME WholeInv, [Next]_vars
               PROVE  SiteInv' /\ OnePrompt' /\ BoundInv' /\ CountInv' /\ AnswerWhole'
    BY InvInductive DEF WholeInv
  <1>1. CASE Open \/ TakeBaseline \/ Send \/ Fail \/ Close
    BY <1>1, StillKeeps
  <1>2. CASE ReadTexts \/ Observe \/ Poll
    BY <1>2, ReadTextsWhole, ObserveWhole, PollWhole
  <1>3. CASE \E t \in Turns : Render(t) \/ Double(t)
    BY <1>3, RenderWhole
  <1>4. CASE \E t \in Turns : Begin(t)
    BY <1>4, BeginWhole
  <1>5. CASE Write \/ \E t \in Turns : CatchUp(t)
    BY <1>5, GrowWhole
  <1>6. CASE Pause \/ Finish
    BY <1>6, StopWhole
  <1>7. CASE Load
    BY <1>7, LoadWhole
  <1>8. CASE UNCHANGED vars
    BY <1>8
    DEF vars, local, page, WholeInv, SiteInv, OnePrompt, BoundInv, CountInv, Part, Slack,
        AnswerWhole, Asked, Behind
  <1>9. QED
    BY <1>1, <1>2, <1>3, <1>4, <1>5, <1>6, <1>7, <1>8 DEF Next

\* A page that shows the end of an answer within MaxLag polls has its answers
\* read to the end: stable_polls is long enough if it is more than MaxLag + 1.
THEOREM AnswersAreWhole == Spec => []AnswerWhole
  <1>1. WholeInv => AnswerWhole
    BY DEF WholeInv
  <1>2. QED
    BY <1>1, WholeInitial, WholeInductive, PTL DEF Spec

===============================================================================
