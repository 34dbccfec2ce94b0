------------------------------ MODULE PageTurn ------------------------------
(***************************************************************************)
(* One turn on a page of chatgpt.com: the prompt is typed and sent, then   *)
(* the page is polled for the answer.  Two drivers do it: ChatGPTSiteDriver *)
(* with ResponseBindingTracker (web/sites/chatgpt_browser.py,              *)
(* browser/binding.py), from a Playwright or CDP page; and executeTurn     *)
(* (extension_assets/*/site_chatgpt.js), called in a tab by executeJob     *)
(* (background.js).  The page goes its own way: it renders, repeats and    *)
(* rewrites turns, stops and starts writing, and may be loaded again.      *)
(*                                                                         *)
(* A turn's text is how much of it is shown, 0 for none and Full for all.  *)
(***************************************************************************)
EXTENDS Naturals, Sequences, FiniteSets

CONSTANTS
    Drivers,      \* "page", "extension", or both
    Replies,      \* <<first, second, ...>>: the page's answers to what is sent
    Others,       \* turns of the conversation that answer something else
    Full,         \* length of an answer
    Balanced,     \* lengths at which an answer's brackets are balanced
    StablePolls,  \* stable_polls; 3 in site_chatgpt.js
    MaxLag,       \* bound: polls the page takes to show the end of an answer
                  \* once its stop button has gone
    MaxLoads,     \* bound: times the page is loaded again
    None

Turns == Others \cup {Replies[i] : i \in DOMAIN Replies}

ASSUME PageAssumption ==
    /\ Drivers \subseteq {"page", "extension"} /\ Others \cap {Replies[i] : i \in DOMAIN Replies} = {}
    /\ None \notin Turns
    /\ Full \in Nat \ {0} /\ Full \in Balanced /\ StablePolls \in Nat /\ MaxLag \in Nat /\ MaxLoads \in Nat

\* The page is no later with the end of an answer than the drivers wait.
ASSUME PatienceAssumption == MaxLag + 1 < StablePolls

VARIABLES
    \* the driver
    driver,
    pc,        \* "idle", "composer", "send", "texts", "stop", "hung", "closing", "ended"
    baseline,  \* turns there were before the prompt
    bound,     \* the turn taken for the answer, or None
    last,      \* its text at the last poll, 0 at first
    count,     \* polls it has been the same
    texts,     \* texts[t]: read in this poll, 0 for none ("page" only)
    result,    \* [turn, text] that is returned, or None
    \* the page
    open,
    shown,     \* turns rendered
    doubled,   \* of these, those in the page twice
    text,
    writing,   \* the turn that is being written, or None
    stop,      \* the stop button is visible
    paused,    \* "Continue generating" is, instead
    lag,       \* polls since the stop button went
    sent,      \* prompts the page has got
    loads,     \* times it was loaded again
    late,      \* history: other turns first rendered after the baseline was taken
    cut        \* history: where the site last stopped to offer it

local == <<baseline, bound, last, count, texts>>
page == <<open, shown, doubled, text, writing, stop, paused, lag, sent, loads, late, cut>>

\* The page's answers to what it was sent.
Asked == {Replies[i] : i \in DOMAIN Replies \cap 1 .. sent}

vars == <<driver, pc, local, result, page>>

Init ==
    /\ driver \in Drivers
    /\ pc = "idle"
    /\ baseline = {} /\ bound = None /\ last = 0 /\ count = 0
    /\ texts = [t \in Turns |-> 0]
    /\ result = None
    /\ open = FALSE
    /\ shown = {} /\ doubled = {}
    /\ text = [t \in Turns |-> IF t \in Others THEN Full ELSE 0]
    /\ writing = None /\ stop = FALSE /\ paused = FALSE /\ lag = 0
    /\ sent = 0 /\ loads = 0 /\ late = {} /\ cut = 0

Goto(from, to) == pc = from /\ pc' = to

-----------------------------------------------------------------------------
(* Sending                                                                 *)

\* new_page and goto, or tabs.create.
Open ==
    /\ Goto("idle", "composer")
    /\ open' = TRUE
    /\ UNCHANGED <<driver, local, result, shown, doubled, text, writing, stop, paused, lag, sent, loads, late, cut>>

\* Mutant: nothing is taken for old.
Mutant_Baseline == {}

Baseline == shown

\* The composer is there: what is on the page is older than the prompt.
TakeBaseline ==
    /\ Goto("composer", "send")
    /\ baseline' = Baseline
    /\ bound' = None /\ last' = 0 /\ count' = 0 /\ late' = {}
    /\ UNCHANGED <<driver, texts, result, open, shown, doubled, text, writing, stop, paused, lag, sent, loads, cut>>

Send ==
    /\ Goto("send", "texts")
    /\ sent' = sent + 1
    /\ UNCHANGED <<driver, local, result, open, shown, doubled, text, writing, stop, paused, lag, loads, late, cut>>

-----------------------------------------------------------------------------
(* Polling                                                                 *)

\* The text a driver finds of turn t: none if t is in the page twice.
Found(t) == IF t \in shown \ doubled THEN text[t] ELSE 0

\* Turns with a text that were not there before.
New(found) == {t \in Turns \ baseline : found[t] > 0}

\* The page is behind with the end of an answer, for a few polls at most.
Behind == writing = None /\ \E t \in shown : text[t] < Full
Patience == IF Behind THEN lag < MaxLag /\ lag' = lag + 1 ELSE UNCHANGED lag

Return(turn, length) == result' = [turn |-> turn, text |-> length]

\* wait_for_response reads the turns and their texts ...
ReadTexts ==
    /\ driver = "page" /\ Goto("texts", "stop")
    /\ Patience
    /\ texts' = [t \in Turns |-> Found(t)]
    /\ UNCHANGED <<driver, baseline, bound, last, count, result,
                   open, shown, doubled, text, writing, stop, paused, sent, loads, late, cut>>

\* Mutant: the stop button is not looked at.
Mutant_Stable(length) == IF length = last THEN count + 1 ELSE 0

Stable(length) == IF length = last /\ ~stop THEN count + 1 ELSE 0

\* ... then looks for the stop button and lets the tracker observe.
Observe ==
    LET new == New(texts) IN
    /\ pc = "stop"
    /\ \/ \* multiple new turns, or the identity changed
          /\ IF bound = None THEN Cardinality(new) > 1 ELSE new \ {bound} # {}
          /\ pc' = "closing"
          /\ UNCHANGED <<bound, last, count, result>>
       \/ /\ new = {}
          /\ pc' = "texts"
          /\ UNCHANGED <<bound, last, count, result>>
       \/ \E t \in new :
          /\ new = {t} /\ bound \in {None, t}
          /\ bound' = t /\ last' = texts[t] /\ count' = Stable(texts[t])
          /\ IF Stable(texts[t]) >= StablePolls
             THEN pc' = "closing" /\ Return(t, texts[t])
             ELSE pc' = "texts" /\ UNCHANGED result
    /\ UNCHANGED <<driver, baseline, texts, page>>

\* executeTurn's loop, in one piece: it binds ...
Bound ==
    LET new == New([t \in Turns |-> Found(t)]) IN
    IF bound = None /\ Cardinality(new) = 1 THEN CHOOSE t \in new : TRUE ELSE bound

Ambiguous == bound = None /\ Cardinality(New([t \in Turns |-> Found(t)])) > 1

\* ... and goes on generating, or compares.
Poll ==
    LET t == Bound
        length == Found(t)
        continue == paused /\ t = writing /\ t \in shown \ doubled
        steady == IF length > 0 /\ length \in Balanced THEN Stable(length) ELSE 0 IN
    /\ driver = "extension" /\ pc = "texts"
    /\ Patience
    /\ bound' = t
    /\ \/ /\ Ambiguous
          /\ pc' = "closing"
          /\ UNCHANGED <<last, count, result, paused, stop>>
       \/ /\ ~Ambiguous /\ t = None
          /\ UNCHANGED <<pc, last, count, result, paused, stop>>
       \/ /\ ~Ambiguous /\ t # None /\ continue
          /\ paused' = FALSE /\ stop' = TRUE
          /\ count' = 0
          /\ UNCHANGED <<pc, last, result>>
       \/ /\ ~Ambiguous /\ t # None /\ ~continue
          /\ last' = length /\ count' = steady
          /\ IF length > 0 /\ steady >= StablePolls
             THEN pc' = "closing" /\ Return(t, length)
             ELSE UNCHANGED <<pc, result>>
          /\ UNCHANGED <<paused, stop>>
    /\ UNCHANGED <<driver, baseline, texts, open, shown, doubled, text, writing, sent, loads, late, cut>>

\* Mutant: a page whose composer never appears is left open.
Mutant_Fail ==
    /\ pc \in {"composer", "send", "texts", "stop"}
    /\ pc' = IF pc = "composer" THEN "ended" ELSE "closing"
    /\ UNCHANGED <<driver, local, result, page>>

\* An exception: no composer, no send button, the page has drifted or gone, or
\* it took too long; a hung job only learns of its tab's end.
Fail ==
    /\ pc \in {"composer", "send", "texts", "stop", "hung"}
    /\ pc' = "closing"
    /\ UNCHANGED <<driver, local, result, page>>

\* begin_turn's handler, close_turn in execute's finally, or tabs.remove.
Close ==
    /\ Goto("closing", "ended")
    /\ open' = FALSE
    /\ UNCHANGED <<driver, local, result, shown, doubled, text, writing, stop, paused, lag, sent, loads, late, cut>>

-----------------------------------------------------------------------------
(* The page, external.                                                     *)

PageMoves == open /\ UNCHANGED <<driver, local, result, open>>

\* A turn is rendered that answers something else, or, after the page was
\* loaded again, an earlier answer.
Render(t) ==
    /\ PageMoves /\ t \notin shown /\ text[t] = Full
    /\ shown' = shown \cup {t}
    /\ late' = IF t \in Others \ baseline /\ pc \in {"send", "texts", "stop"} THEN late \cup {t} ELSE late
    /\ UNCHANGED <<pc, doubled, text, writing, stop, paused, lag, sent, loads, cut>>

\* A turn is rendered twice for a while.
Double(t) ==
    /\ PageMoves /\ t \in shown
    /\ doubled' = IF t \in doubled THEN doubled \ {t} ELSE {t}
    /\ UNCHANGED <<pc, shown, text, writing, stop, paused, lag, sent, loads, late, cut>>

Begin(t) ==
    /\ PageMoves /\ t \in Asked \ shown /\ text[t] = 0 /\ writing = None /\ ~Behind
    /\ shown' = shown \cup {t} /\ writing' = t /\ stop' = TRUE
    /\ UNCHANGED <<pc, doubled, text, paused, lag, sent, loads, late, cut>>

Write ==
    /\ PageMoves /\ writing # None /\ ~paused /\ text[writing] < Full
    /\ text' = [text EXCEPT ![writing] = @ + 1]
    /\ UNCHANGED <<pc, shown, doubled, writing, stop, paused, lag, sent, loads, late, cut>>

\* The site stops before the end and offers to continue.
Pause ==
    /\ PageMoves /\ writing # None /\ ~paused /\ 0 < text[writing] /\ text[writing] < Full
    /\ paused' = TRUE /\ stop' = FALSE /\ cut' = text[writing]
    /\ UNCHANGED <<pc, shown, doubled, text, writing, lag, sent, loads, late>>

\* The answer is written; the page may show its end a little later.
Finish ==
    /\ PageMoves /\ writing # None /\ ~paused /\ text[writing] > 0
    /\ writing' = None /\ stop' = FALSE /\ lag' = 0
    /\ UNCHANGED <<pc, shown, doubled, text, paused, sent, loads, late, cut>>

CatchUp(t) ==
    /\ PageMoves /\ Behind /\ t \in shown
    /\ text' = [text EXCEPT ![t] = Full]
    /\ UNCHANGED <<pc, shown, doubled, writing, stop, paused, lag, sent, loads, late, cut>>

\* sendToContent: the message has failed and is sent again, or goes unanswered.
Retry == pc' \in {"hung", "composer"}

\* The page is loaded again: what was being written is written, and the
\* content script of the extension has gone with its turn.
Load ==
    /\ PageMoves /\ loads < MaxLoads /\ pc \in {"composer", "send", "texts", "stop"}
    /\ loads' = loads + 1
    /\ shown' = {} /\ doubled' = {}
    /\ writing' = None /\ stop' = FALSE /\ paused' = FALSE
    /\ text' = IF writing = None THEN text ELSE [text EXCEPT ![writing] = Full]
    /\ IF driver = "extension" THEN Retry ELSE UNCHANGED pc
    /\ UNCHANGED <<lag, sent, late, cut>>

Next ==
    \/ Open \/ TakeBaseline \/ Send \/ ReadTexts \/ Observe \/ Poll \/ Fail \/ Close
    \/ \E t \in Turns : Render(t) \/ Double(t) \/ Begin(t) \/ CatchUp(t)
    \/ Write \/ Pause \/ Finish \/ Load

Spec == Init /\ [][Next]_vars

-----------------------------------------------------------------------------
(* Properties.                                                             *)

TypeOK ==
    /\ driver \in Drivers
    /\ pc \in {"idle", "composer", "send", "texts", "stop", "hung", "closing", "ended"}
    /\ baseline \subseteq Turns /\ bound \in Turns \cup {None}
    /\ last \in 0 .. Full /\ count \in Nat /\ texts \in [Turns -> 0 .. Full]
    /\ result \in [turn : Turns, text : 1 .. Full] \cup {None}
    /\ open \in BOOLEAN /\ shown \subseteq Turns /\ doubled \subseteq Turns
    /\ text \in [Turns -> 0 .. Full] /\ writing \in Turns \cup {None}
    /\ stop \in BOOLEAN /\ paused \in BOOLEAN
    /\ lag \in Nat /\ sent \in Nat /\ loads \in Nat /\ late \subseteq Others /\ cut \in 0 .. Full

\* The answer is one to the prompt of this turn, never an earlier turn of the
\* conversation, though turns vanish, double and come back; a turn that is
\* first rendered after the baseline was taken may be mistaken for it
\* (SECURITY.md:26; chatgpt_browser.py:129, site_chatgpt.js:100).
AnswerIsOurs == result # None /\ late = {} => result.turn \in Asked

\* The answer is whole: a pause between two chunks, the page's delay at the end
\* or brackets that happen to balance are not taken for the end.  The page
\* driver takes what there is when the site offers to continue; such a prefix
\* does not parse (binding.py:46-54, site_chatgpt.js:124-147).
AnswerWhole == result # None => result.text = Full \/ (driver = "page" /\ result.text = cut)

\* A turn that has ended, well or not, has closed its page (chatgpt_browser.py
\* :115-117 and 204-207, web_automation.py:86-89, background.js:90-92).
PageClosed == pc = "ended" => ~open

\* "Every automatic turn submits once" (SECURITY.md:26).
SubmittedOnce == sent <= 1

=============================================================================
