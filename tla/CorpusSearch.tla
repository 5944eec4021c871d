---------------------------- MODULE CorpusSearch ----------------------------
(***************************************************************************)
(* The corpus filter of the view: CheckboxSearch, a field that suggests    *)
(* files (or tags) as the user types and turns the chosen ones into        *)
(* checkboxes, and CorpusFilter, which takes the checked ones when the     *)
(* user applies it.                                                        *)
(***************************************************************************)
EXTENDS Integers, Sequences, FiniteSets, Picking

CONSTANTS
    Matches,      \* Matches[q]: the items the server finds for a text, in order
    Initial,      \* how many items are added when the page opens (10)
    Suggested,    \* how many are suggested at most (5)
    MaxInputs     \* bound: what the user does

Queries == DOMAIN Matches

ASSUME SearchAssumption ==
    /\ "" \in Queries
    /\ \A q \in Queries : Matches[q] \in Seq(Elems(Matches[q]))
    /\ {Initial, Suggested, MaxInputs} \subseteq Nat
\* The list of all: doc_id is the key of documents, and the tags are selected distinct.
ASSUME ListAssumption ==
    \A i, j \in DOMAIN Matches[""] : Matches[""][i] = Matches[""][j] => i = j

Items   == UNION {Elems(Matches[q]) : q \in Queries}
First(s, n) == SubSeq(s, 1, IF n < Len(s) THEN n ELSE Len(s))

VARIABLES
    loaded,       \* the initial list has come
    added,        \* addedCheckboxes
    boxes,        \* the checkboxes: records of item and checked
    text,         \* input.value
    focused,      \* the field has the focus, and the list of results is shown
    timer,        \* an input waits for its 300 ms
    searches,     \* requests under way
    searched,     \* requests sent
    answered,     \* the request whose answer came last; 0 if it failed
    results,      \* the items in the list of results
    corpusFilter, \* CorpusFilter.filter
    inputs,       \* what the user did so far
    early         \* the field was used before the initial list had come

boxVars    == <<added, boxes>>
fieldVars  == <<text, focused, timer, results>>
searchVars == <<loaded, boxVars, fieldVars, searches, searched, answered, corpusFilter,
                inputs, early>>

SearchTypeOK ==
    /\ {loaded, focused, timer, early} \subseteq BOOLEAN
    /\ added \in Seq(Items) /\ Elems(boxes) \subseteq [item : Items, checked : BOOLEAN]
    /\ text \in Queries
    /\ \A s \in searches : s.query \in Queries /\ s.id \in 1..searched
    /\ answered \in 0..searched
    /\ results \in Seq(Items) /\ Len(results) <= Suggested
    /\ corpusFilter \subseteq Items

\* The page opens: the list is asked for, and the filter applied without boxes.
SearchInit ==
    /\ loaded = FALSE /\ added = <<>> /\ boxes = <<>>
    /\ text = "" /\ focused = FALSE /\ timer = FALSE /\ results = <<>>
    /\ searches = {} /\ searched = 0 /\ answered = 0
    /\ corpusFilter = {} /\ inputs = 0 /\ early = FALSE

-----------------------------------------------------------------------------

Input == inputs < MaxInputs /\ inputs' = inputs + 1 /\ early' = (early \/ ~loaded)

\* The blur event, if there is one: the list is hidden and emptied.
Blur == focused' = FALSE /\ results' = IF focused THEN <<>> ELSE results

\* addCheckbox, for each of the items.
AddCheckboxes(items) ==
    /\ boxes' = boxes \o [i \in DOMAIN items |-> [item |-> items[i], checked |-> FALSE]]
    /\ added' = added \o items

Search == /\ searches' = searches \cup {[id |-> searched + 1, query |-> text]}
          /\ searched' = searched + 1

InitialCome ==
    /\ ~loaded /\ loaded' = TRUE
    /\ AddCheckboxes(First(Matches[""], Initial))
    /\ Blur
    /\ UNCHANGED <<text, timer, searches, searched, answered, corpusFilter, inputs, early>>

Focus ==
    /\ Input /\ ~focused
    /\ focused' = TRUE
    /\ Search
    /\ UNCHANGED <<loaded, boxVars, text, timer, results, answered, corpusFilter>>

LeaveField ==
    /\ Input /\ focused
    /\ Blur
    /\ UNCHANGED <<loaded, boxVars, text, timer, searches, searched, answered, corpusFilter>>

Type(q) ==
    /\ Input /\ focused /\ q # text
    /\ text' = q
    /\ timer' = TRUE
    /\ UNCHANGED <<loaded, boxVars, focused, results, searches, searched, answered, corpusFilter>>

\* The timer searches for what the field holds by then.
TimerFires ==
    /\ timer /\ timer' = FALSE
    /\ Search
    /\ UNCHANGED <<loaded, boxVars, text, focused, results, answered, corpusFilter, inputs, early>>

\* What is not added yet, at the time of the answer.
Filtered(q) == Picked(Matches[q], Items \ Elems(added))

Answered ==
    \E s \in searches :
        /\ searches' = searches \ {s}
        /\ answered' = s.id
        /\ results' = First(Filtered(s.query), Suggested)
        /\ UNCHANGED <<loaded, boxVars, text, focused, timer, searched, corpusFilter, inputs,
                       early>>

\* "No results found"
SearchFails ==
    \E s \in searches :
        /\ searches' = searches \ {s}
        /\ results' = <<>>
        /\ answered' = 0
        /\ UNCHANGED <<loaded, boxVars, text, focused, timer, searched, corpusFilter, inputs,
                       early>>

\* A click on a result; the mousedown does not take the focus from the field.
Choose(item) ==
    /\ Input /\ focused /\ item \in Elems(results)
    /\ AddCheckboxes(<<item>>)
    /\ Blur
    /\ UNCHANGED <<loaded, text, timer, searches, searched, answered, corpusFilter>>

Without(s, i) == SubSeq(s, 1, i - 1) \o SubSeq(s, i + 1, Len(s))

\* Fault: only the box goes.
RemoveBoxOnly(i) ==
    /\ Input
    /\ boxes' = Without(boxes, i)
    /\ Blur
    /\ UNCHANGED <<loaded, added, text, timer, searches, searched, answered, corpusFilter>>

\* The button of a checkbox; the click takes the focus from the field.
Remove(i) ==
    /\ Input
    /\ boxes' = Without(boxes, i)
    /\ added' = Picked(added, Items \ {boxes[i].item})
    /\ Blur
    /\ UNCHANGED <<loaded, text, timer, searches, searched, answered, corpusFilter>>

Check(i) ==
    /\ Input
    /\ boxes' = [boxes EXCEPT ![i].checked = ~@]
    /\ Blur
    /\ UNCHANGED <<loaded, added, text, timer, searches, searched, answered, corpusFilter>>

Values == {b.item : b \in {c \in Elems(boxes) : c.checked}}

\* apply() and reset(); the boxes stay as they are.
Apply(values) ==
    /\ Input
    /\ corpusFilter' = values
    /\ Blur
    /\ UNCHANGED <<loaded, boxVars, text, timer, searches, searched, answered>>

SearchNext ==
    \/ InitialCome \/ Focus \/ LeaveField \/ TimerFires \/ Answered \/ SearchFails
    \/ \E q \in Queries : Type(q)
    \/ \E item \in Items : Choose(item)
    \/ \E i \in DOMAIN boxes : Remove(i) \/ Check(i)
    \/ Apply(Values) \/ Apply({})

SearchSpec == SearchInit /\ [][SearchNext]_searchVars

-----------------------------------------------------------------------------
(* Correctness.                                                            *)

\* However late answers are, an item has one checkbox, and addedCheckboxes, which
\* keeps it out of the suggestions, knows of it; provided the field is not used
\* before the initial list, which is added without a look at what is there.
NoItemTwice ==
    ~early =>
        /\ \A i, j \in DOMAIN boxes : boxes[i].item = boxes[j].item => i = j
        /\ [i \in DOMAIN boxes |-> boxes[i].item] = added

\* With nothing under way, and if answers came in order, the list under the field
\* is that of the text in it, without what is added.
ResultsMatchText ==
    (focused /\ ~timer /\ searches = {} /\ answered = searched) =>
        results = First(Picked(Matches[text], Items \ Elems(added)), Suggested)

\* The list of checkboxes and the list of suggestions are exact.
SearchIsExact == NoItemTwice /\ ResultsMatchText
=============================================================================
