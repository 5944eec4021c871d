------------------------------- MODULE ChatBot -------------------------------
(***************************************************************************)
(* The chat of the view page.  A question is taken from the text area;     *)
(* with a chart as its context it first waits for the picture of the       *)
(* chart (svgToBase64), and only then becomes a message and empties the    *)
(* text area; the answer is a message in any case.  Nothing keeps the user *)
(* from sending again meanwhile, and nothing ends the wait for a picture   *)
(* that is never made.                                                     *)
(***************************************************************************)
EXTENDS Integers, Sequences, FiniteSets

CONSTANTS
    MaxTexts,     \* bound: the texts the user writes
    MaxQuestions  \* bound: the questions sent

ASSUME ChatAssumption == MaxTexts \in Nat /\ MaxQuestions \in Nat

Texts == 1..MaxTexts

VARIABLES
    log,         \* this.messages: roles, a question with its text
    textarea,    \* the text in the text area, 0 if there is none
    written,     \* texts written so far, each a new one
    sendable,    \* the button is not disabled
    spinner,     \* the button shows that an answer is awaited
    models,      \* the models, and the charts to choose from, are there
    context,     \* a chart is chosen
    flights,     \* the completeMessages() under way
    questions,   \* how many there were
    deleted,     \* texts the user deleted
    raced,       \* text was sent or changed while a picture was made
    parallel     \* a question was sent before the answer to another

chatVars == <<log, textarea, written, sendable, spinner, models, context, flights,
              questions, deleted, raced, parallel>>

Message(role, text) == [role |-> role, text |-> text]

ChatTypeOK ==
    /\ log \in Seq([role : {"system", "assistant", "user"}, text : {0} \cup Texts])
    /\ textarea \in 0..written /\ written \in 0..MaxTexts
    /\ {sendable, spinner, models, context, raced, parallel} \subseteq BOOLEAN
    /\ flights \subseteq [id : 1..questions, text : {0} \cup Texts, step : {"picture", "hung", "answer"}]
    /\ deleted \subseteq Texts

\* The constructor and init() up to its await.
ChatInit ==
    /\ log = <<Message("system", 0), Message("assistant", 0)>>
    /\ textarea = 0 /\ written = 0 /\ sendable = FALSE /\ spinner = FALSE
    /\ models = FALSE /\ context = FALSE
    /\ flights = {} /\ questions = 0
    /\ deleted = {} /\ raced = FALSE /\ parallel = FALSE

-----------------------------------------------------------------------------

Picturing == \E f \in flights : f.step = "picture"
\* The questions that something will still be heard of.
Awaited   == {f \in flights : f.step # "hung"}

ModelsLoad ==
    /\ ~models /\ models' = TRUE
    /\ UNCHANGED <<log, textarea, written, sendable, spinner, context, flights, questions,
                   deleted, raced, parallel>>

ChooseContext ==
    /\ models /\ context' = ~context
    /\ UNCHANGED <<log, textarea, written, sendable, spinner, models, flights, questions,
                   deleted, raced, parallel>>

\* The user writes a text, or deletes the one there is.
WriteText ==
    /\ written < MaxTexts /\ textarea = 0
    /\ written' = written + 1 /\ textarea' = written + 1
    /\ sendable' = TRUE
    /\ raced' = (raced \/ Picturing)
    /\ UNCHANGED <<log, spinner, models, context, flights, questions, deleted, parallel>>

DeleteText ==
    /\ textarea # 0
    /\ textarea' = 0 /\ deleted' = deleted \cup {textarea}
    /\ sendable' = FALSE
    /\ raced' = (raced \/ Picturing)
    /\ UNCHANGED <<log, written, spinner, models, context, flights, questions, parallel>>

\* Fault: the text area is emptied when the answer comes.
AskKeepsText(f) ==
    /\ log' = Append(log, Message("user", f.text))
    /\ flights' = (flights \ {f}) \cup {[f EXCEPT !.step = "answer"]}
    /\ textarea' = textarea

\* The question becomes a message, the text area is emptied, the answer asked for.
Ask(f) ==
    /\ log' = Append(log, Message("user", f.text))
    /\ flights' = (flights \ {f}) \cup {[f EXCEPT !.step = "answer"]}
    /\ textarea' = 0

\* completeMessages up to its first await: by Enter if there is a text, by the
\* button if it is not disabled.
Send ==
    /\ questions < MaxQuestions
    /\ textarea # 0 \/ sendable
    /\ questions' = questions + 1
    /\ spinner' = TRUE /\ sendable' = FALSE
    /\ raced' = (raced \/ Picturing)
    /\ parallel' = (parallel \/ Awaited # {})
    /\ LET f == [id |-> questions + 1, text |-> textarea, step |-> "picture"]
       IN  IF context THEN flights' = flights \cup {f} /\ UNCHANGED <<log, textarea>>
           ELSE Ask(f)
    /\ UNCHANGED <<written, models, context, deleted>>

PictureMade ==
    \E f \in flights :
        /\ f.step = "picture"
        /\ Ask(f)
        /\ UNCHANGED <<written, sendable, spinner, models, context, questions, deleted, raced,
                       parallel>>

\* svgToBase64 has no onerror: where the picture does not load, or is not drawn, or
\* the chart cannot be written as text, completeMessages goes no further.
PictureFails ==
    \E f \in flights :
        /\ f.step = "picture"
        /\ flights' = (flights \ {f}) \cup {[f EXCEPT !.step = "hung"]}
        /\ UNCHANGED <<log, textarea, written, sendable, spinner, models, context, questions,
                       deleted, raced, parallel>>

\* The answer, or "Error: no completion message" if there is none.
Reply == log' = Append(log, Message("assistant", 0))

Completed ==
    \E f \in flights :
        /\ f.step = "answer"
        /\ flights' = flights \ {f}
        /\ Reply
        /\ spinner' = FALSE
        /\ UNCHANGED <<textarea, written, sendable, models, context, questions, deleted, raced,
                       parallel>>

ChatNext ==
    \/ ModelsLoad \/ ChooseContext \/ WriteText \/ DeleteText
    \/ Send \/ PictureMade \/ PictureFails \/ Completed

\* A picture is made or never will be; the server answers or the request fails.
ChatFairness == WF_chatVars(PictureMade \/ PictureFails) /\ WF_chatVars(Completed)

ChatSpec == ChatInit /\ [][ChatNext]_chatVars /\ ChatFairness

-----------------------------------------------------------------------------
(* Correctness.                                                            *)

Asked(t)  == {i \in DOMAIN log : log[i] = Message("user", t)}
With(role) == {i \in DOMAIN log : log[i].role = role}

\* What the user writes is in the text area, deleted by the user, or a question,
\* and that once, and no question is empty; unless the user writes or sends while the picture
\* of a chart is made, since the text is read before that wait and emptied after.
NothingUnsaid ==
    ~raced =>
        /\ \A t \in 1..written :
               /\ Cardinality(Asked(t)) <= 1
               /\ textarea = t \/ t \in deleted \/ Asked(t) # {}
        /\ Asked(0) = {}

\* The model is sent a conversation in which questions and answers take turns,
\* whatever fails, as long as the user waits for the answers.
TurnsAlternate ==
    ~parallel => \A i \in 2..Len(log) :
        log[i].role = IF i % 2 = 0 THEN "assistant" ELSE "user"

\* The button shows that an answer is awaited while one is, and not when no question is
\* under way; of one whose picture is not made ("hung") it may show that for ever.
SpinnerTells ==
    /\ flights = {} => ~spinner
    /\ ~parallel => (Awaited # {} => spinner)

\* The conversation is whole: nothing lost, nothing doubled, nothing out of turn.
ChatIsWhole == NothingUnsaid /\ TurnsAlternate /\ SpinnerTells

\* Every question that becomes a message gets one, and none is awaited for ever, with
\* one exception: whose picture is not made ("hung").
QuestionsAreAnswered ==
    (Awaited # {}) ~>
        (Awaited = {} /\ Cardinality(With("assistant")) = Cardinality(With("user")) + 1)
=============================================================================
