------------------------------- MODULE ExportRun -------------------------------
(***************************************************************************)
(* One export in a page: the driver ExportScripts injects into the view,   *)
(* the ExportHandler of the widgets, and the file sink and collect of      *)
(* BrowserExportService.                                                   *)
(*                                                                         *)
(* The page runs on one thread: what happens between two awaits is one     *)
(* step, and the continuations of promises that are settled (microtasks)   *)
(* run before any timer, response or reply from outside is looked at.      *)
(***************************************************************************)
EXTENDS Integers, Sequences, FiniteSets

CONSTANTS
    Null,            \* an attribute that is not there
    Configs,         \* the charts of the view, in order: records with the id,
                     \*   generator and type of the widget, whether it renders
                     \*   an svg, and how many files an export of it has
    Selectors,       \* what is to be exported: records with id, generator, type
    NeedsSvg,        \* BOOLEAN: the format is svg or png
    Concurrency,     \* app.export.concurrency
    MayTimeOut,      \* BOOLEAN: an export may be slower than its timeout
    MayFail          \* BOOLEAN: an export or the delivery of a file may fail

Charts  == 1..Len(Configs)
Indexes == 1..Len(Selectors)

ASSUME SequencesAssumption == Len(Configs) \in Nat /\ Len(Selectors) \in Nat
ASSUME ConcurrencyAssumption == Concurrency \in Int
ASSUME SwitchesAssumption == {NeedsSvg, MayTimeOut, MayFail} \subseteq BOOLEAN
ASSUME FilesAssumption == \A c \in Charts : Configs[c].files \in Nat \ {0}

Least(S) == CHOOSE x \in S : \A y \in S : x <= y

\* At least one worker, at most one per selector.
Workers == 1..(IF Concurrency < 1 \/ Selectors = <<>> THEN 1
               ELSE Least({Concurrency, Len(Selectors)}))

VARIABLES
    cursor,      \* the next selector nobody took
    at,          \* the selector each worker waits for; 0 if it looks for one
    sink,        \* whose download functions the handler of a chart has;
                 \*   0 for its own
    original,    \* the download functions an export found and will restore
    stage,       \* where the startExport of each selector is
    via,         \* the selector whose functions it got its files delivered by
    sent,        \* how many of its files it has delivered
    verdict,     \* what exportChart resolved to
    late,        \* the timer came first
    received,    \* the files in the FileSink
    response     \* what collect made of it: <<>> before

pageVars == <<cursor, at, sink, original, stage, via, sent, verdict, late>>
vars     == <<pageVars, received, response>>

\* A file in the sink: the entry it was sent for, its number (0: a zip of all),
\* and the export it comes from.
Files == [entry : Indexes, number : Nat, of : Indexes]

Stages == {"none", "queued", "preparing", "zipping", "sending", "sendingZip", "over"}

TypeOK ==
    /\ cursor \in 1..Len(Selectors) + 1
    /\ at \in [Workers -> {0} \cup Indexes]
    /\ sink \in [Charts -> {0} \cup Indexes]
    /\ original \in [Indexes -> {0} \cup Indexes]
    /\ stage \in [Indexes -> Stages]
    /\ via \in [Indexes -> {0} \cup Indexes]
    /\ sent \in [Indexes -> Nat]
    /\ verdict \in [Indexes -> {"open", "ok", "failed"}]
    /\ late \in [Indexes -> BOOLEAN]
    /\ received \in SUBSET Files
    /\ response = <<>> \/ DOMAIN response = Indexes

Init ==
    /\ cursor = 1
    /\ at = [w \in Workers |-> 0]
    /\ sink = [c \in Charts |-> 0]
    /\ original = [i \in Indexes |-> 0]
    /\ stage = [i \in Indexes |-> "none"]
    /\ via = [i \in Indexes |-> 0]
    /\ sent = [i \in Indexes |-> 0]
    /\ verdict = [i \in Indexes |-> "open"]
    /\ late = [i \in Indexes |-> FALSE]
    /\ received = {}
    /\ response = <<>>

-----------------------------------------------------------------------------
(* selectTarget: the first chart with the id of the selector, or else with *)
(* its generator and type, or else with its generator.                     *)

WithId(s)        == {c \in Charts : s.id # Null /\ Configs[c].id = s.id}
WithGenerator(s) == {c \in Charts : s.generator # Null /\ Configs[c].generator = s.generator}
WithBoth(s)      == {c \in WithGenerator(s) : s.type # Null /\ Configs[c].type = s.type}

Candidates(s) ==
    CASE WithId(s) # {}                      -> WithId(s)
      [] WithId(s) = {} /\ WithBoth(s) # {}  -> WithBoth(s)
      [] OTHER                               -> WithGenerator(s)

\* The chart of a selector; 0 if there is none.
Target == [i \in Indexes |->
    IF Candidates(Selectors[i]) = {} THEN 0 ELSE Least(Candidates(Selectors[i]))]

Exportable(i) == Target[i] # 0 /\ (NeedsSvg => Configs[Target[i]].svg)

FilesOf(i) == Configs[Target[i]].files

-----------------------------------------------------------------------------
(* Settling and delivering.                                                *)

\* finish, and the timer: the first to come decides and restores the handler.
Finish(i, v) ==
    IF verdict[i] = "open"
      THEN /\ verdict' = [verdict EXCEPT ![i] = v]
           /\ sink' = [sink EXCEPT ![Target[i]] = original[i]]
      ELSE UNCHANGED <<verdict, sink>>

Move(i, s) == stage' = [stage EXCEPT ![i] = s]

\* Fault: an export does not wait for the one before it on the same chart.
MayBeginAtOnce(i) == stage[i] = "queued"

\* exclusive: the exports of one chart form a chain, in the order in which
\* the workers took them; the next link begins when the previous is settled.
MayBegin(i) ==
    /\ stage[i] = "queued"
    /\ \A j \in 1..i-1 : Target[j] = Target[i] => verdict[j] # "open"

\* No continuation is waiting for its turn.
TurnOver ==
    /\ response = <<>>
    /\ \A i \in Indexes : ~MayBegin(i)
    /\ \A w \in Workers : IF at[w] = 0 THEN cursor > Len(Selectors)
                                       ELSE verdict[at[w]] = "open"

-----------------------------------------------------------------------------
(* The workers of runAll.                                                  *)

\* A worker takes the next selector.  Without a chart, or with one that
\* renders no svg, the entry is a failure at once.
Take(w) ==
    /\ at[w] = 0 /\ cursor <= Len(Selectors)
    /\ cursor' = cursor + 1
    /\ IF Exportable(cursor)
         THEN /\ at' = [at EXCEPT ![w] = cursor]
              /\ Move(cursor, "queued")
              /\ UNCHANGED verdict
         ELSE /\ verdict' = [verdict EXCEPT ![cursor] = "failed"]
              /\ UNCHANGED <<at, stage>>
    /\ UNCHANGED <<sink, original, via, sent, late, received, response>>

\* exportChart: patch the handler, start the timer, call startExport.
Begin(i) ==
    /\ MayBegin(i)
    /\ original' = [original EXCEPT ![i] = sink[Target[i]]]
    /\ sink' = [sink EXCEPT ![Target[i]] = i]
    /\ Move(i, "preparing")
    /\ UNCHANGED <<cursor, at, via, sent, verdict, late, received, response>>

\* The worker writes the entry and looks for the next selector.
Resume(w) ==
    /\ at[w] # 0
    /\ verdict[at[w]] # "open"
    /\ at' = [at EXCEPT ![w] = 0]
    /\ UNCHANGED <<cursor, sink, original, stage, via, sent, verdict, late, received, response>>

-----------------------------------------------------------------------------
(* startExport of a widget: render or convert, then downloadBlobs.         *)

\* The blobs are ready: they go to whatever functions the handler has now.
\* Its own function zips more than one file first, and saves in the browser.
Prepared(i) ==
    /\ TurnOver
    /\ stage[i] = "preparing"
    /\ LET j == sink[Target[i]] IN
          /\ via' = [via EXCEPT ![i] = j]
          /\ Move(i, CASE j # 0 -> "sending"
                       [] j = 0 /\ FilesOf(i) > 1 -> "zipping"
                       [] OTHER -> "over")
    /\ UNCHANGED <<cursor, at, sink, original, sent, verdict, late, received, response>>

\* The zip is ready: downloadSingleBlob is looked up only now.
Zipped(i) ==
    /\ TurnOver
    /\ stage[i] = "zipping"
    /\ LET j == sink[Target[i]] IN
          /\ via' = [via EXCEPT ![i] = j]
          /\ Move(i, IF j # 0 THEN "sendingZip" ELSE "over")
    /\ UNCHANGED <<cursor, at, sink, original, sent, verdict, late, received, response>>

\* The promise of startExport rejects: the catch of its own exportChart.
Rejected(i) ==
    /\ TurnOver /\ MayFail
    /\ stage[i] \in {"preparing", "zipping"}
    /\ Finish(i, "failed")
    /\ Move(i, "over")
    /\ UNCHANGED <<cursor, at, original, via, sent, late, received, response>>

Deliver(i, entry, number) ==
    received' = received \cup {[entry |-> entry, number |-> number, of |-> i]}

\* Fault: the entry is the selector that was taken last.
SendForLatest(i) ==
    /\ TurnOver
    /\ \/ stage[i] = "sending" /\ sent[i] < FilesOf(i) /\ Deliver(i, cursor - 1, sent[i] + 1)
       \/ stage[i] = "sendingZip" /\ sent[i] = 0 /\ Deliver(i, cursor - 1, 0)
    /\ sent' = [sent EXCEPT ![i] = @ + 1]
    /\ UNCHANGED <<cursor, at, sink, original, stage, via, verdict, late, response>>

\* One file crosses into the application (FileSink.accept).
Send(i) ==
    /\ TurnOver
    /\ \/ stage[i] = "sending" /\ sent[i] < FilesOf(i) /\ Deliver(i, via[i], sent[i] + 1)
       \/ stage[i] = "sendingZip" /\ sent[i] = 0 /\ Deliver(i, via[i], 0)
    /\ sent' = [sent EXCEPT ![i] = @ + 1]
    /\ UNCHANGED <<cursor, at, sink, original, stage, via, verdict, late, response>>

\* Fault: the entry is settled when the first file is through.
SendsEndEarly(i) ==
    /\ TurnOver
    /\ stage[i] \in {"sending", "sendingZip"} /\ sent[i] > 0
    /\ Finish(via[i], "ok")
    /\ Move(i, "over")
    /\ UNCHANGED <<cursor, at, original, via, sent, late, received, response>>

\* The reply to the last file arrives.
SendsEnd(i) ==
    /\ TurnOver
    /\ \/ stage[i] = "sending" /\ sent[i] = FilesOf(i)
       \/ stage[i] = "sendingZip" /\ sent[i] = 1
    /\ Finish(via[i], "ok")
    /\ Move(i, "over")
    /\ UNCHANGED <<cursor, at, original, via, sent, late, received, response>>

\* A file cannot be read or delivered.
SendFails(i) ==
    /\ TurnOver /\ MayFail
    /\ stage[i] \in {"sending", "sendingZip"}
    /\ Finish(via[i], "failed")
    /\ Move(i, "over")
    /\ UNCHANGED <<cursor, at, original, via, sent, late, received, response>>

\* Fault: a timer that fires while files are delivered is ignored.
TimeoutWhilePreparing(i) ==
    /\ TurnOver /\ MayTimeOut
    /\ stage[i] = "preparing" /\ verdict[i] = "open"
    /\ Finish(i, "failed")
    /\ late' = [late EXCEPT ![i] = TRUE]
    /\ UNCHANGED <<cursor, at, original, stage, via, sent, received, response>>

\* The timer of exportChart.  It settles the entry and stops nothing.
Timeout(i) ==
    /\ TurnOver /\ MayTimeOut
    /\ stage[i] \notin {"none", "queued"} /\ verdict[i] = "open"
    /\ Finish(i, "failed")
    /\ late' = [late EXCEPT ![i] = TRUE]
    /\ UNCHANGED <<cursor, at, original, stage, via, sent, received, response>>

-----------------------------------------------------------------------------
\* runAll returns when all workers have ended; collect sorts the files by
\* entry and drops those of a failed one; the page is closed.
Collect ==
    /\ response = <<>>
    /\ cursor > Len(Selectors) /\ \A w \in Workers : at[w] = 0
    /\ response' = [i \in Indexes |->
           [ok    |-> verdict[i] = "ok",
            files |-> IF verdict[i] = "ok" THEN {f \in received : f.entry = i} ELSE {}]]
    /\ UNCHANGED <<pageVars, received>>

Done == response # <<>> /\ UNCHANGED vars

WorkerStep == \E w \in Workers : Take(w) \/ Resume(w)

ExportStep(i) ==
    \/ Prepared(i) \/ Zipped(i) \/ Rejected(i)
    \/ Send(i) \/ SendsEnd(i) \/ SendFails(i)

Next ==
    \/ WorkerStep
    \/ \E i \in Indexes : Begin(i) \/ ExportStep(i) \/ Timeout(i)
    \/ Collect
    \/ Done

Spec == Init /\ [][Next]_vars

(***************************************************************************)
(* Fairness.  The page runs its continuations and the timers fire; a       *)
(* response, a conversion or an image need never come.                     *)
(***************************************************************************)
Fairness ==
    /\ WF_vars(WorkerStep)
    /\ WF_vars(Collect)
    /\ \A i \in Indexes : WF_vars(Begin(i)) /\ WF_vars(Timeout(i))

FairSpec == Spec /\ Fairness

-----------------------------------------------------------------------------
(* Correctness.                                                            *)

\* The handler of a chart has the functions of the one export that is not
\* settled, and its own ones when there is none: exports of one chart neither
\* nest their functions nor put back those of another.
HandlerRestored ==
    \A c \in Charts, i \in Indexes :
        sink[c] = i <=> /\ Target[i] = c
                        /\ stage[i] \notin {"none", "queued"}
                        /\ verdict[i] = "open"

\* What an export of selector i alone delivers: all files of its widget.
OwnFiles(i) == {[entry |-> i, number |-> n, of |-> i] : n \in 1..FilesOf(i)}

\* A selector that is answered with files is answered with all the files of
\* its widget, each once, made by its own export; the exports that overlap with
\* it, those that fail and those of other charts that are late change nothing.
\* Only a late export of the same chart may: it must have been cut off.
ExactFiles ==
    response # <<>> => \A i \in Indexes :
        response[i].ok /\ (\A j \in Indexes : Target[j] = Target[i] => ~late[j])
            => response[i].files = OwnFiles(i)

\* Whatever is late: no file of one widget is handed out for another, and an
\* entry that is ok is never empty.  Every variable keeps its type.
OwnWidgetOnly ==
    /\ TypeOK
    /\ response # <<>> => \A i \in Indexes :
           /\ \A f \in response[i].files : Target[f.of] = Target[i]
           /\ response[i].ok => response[i].files # {}

\* A run ends, with an entry for every selector, even if no widget ever
\* comes to an end: the timers see to it.
RunEnds == <>(response # <<>> /\ \A i \in Indexes : verdict[i] # "open")
===============================================================================
