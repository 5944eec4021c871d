----------------------------- MODULE PipelineBuild -----------------------------
(***************************************************************************)
(* Storing a pipeline and building its data (PipelineService,              *)
(* SourceBuildService).                                                    *)
(*                                                                         *)
(* The definition of a pipeline is a row of the pipeline table; its data   *)
(* is a database schema named after the pipeline.  A build fills a         *)
(* transient schema <id>__tmp and swaps it in, over <id>__old.  Every      *)
(* statement runs on a connection of its own in autocommit mode, so each   *)
(* is one atomic step that is visible at once and that the Spring          *)
(* transaction around the method never takes back.                         *)
(***************************************************************************)
EXTENDS Naturals, FiniteSets

CONSTANTS
    Ids,             \* pipeline ids, none of them the transient name of another
    Workers,         \* threads that serve a request
    Free,            \* the build lock of a pipeline is not held
    Missing,         \* there is no schema of this name
    Partial,         \* the schema is there, its data is not complete
    Operations,      \* the requests that occur
    MaxVersions,     \* bound: definitions stored per pipeline
    MaxFailures,     \* bound: statements that fail
    MaxCrashes       \* bound: crashes of the application

ASSUME BoundsAssumption ==
    MaxVersions \in Nat /\ MaxFailures \in Nat /\ MaxCrashes \in Nat
ASSUME OperationsAssumption ==
    Operations \subseteq {"create", "update", "rebuild", "delete"}
ASSUME WorkersAssumption == IsFiniteSet(Workers)
ASSUME MarkersAssumption ==
    /\ Free \notin Workers
    /\ Missing # Partial /\ Missing \notin Nat /\ Partial \notin Nat

VARIABLES
    row,         \* the definition in the table, by number; 0 if there is none
    last,        \* the number of the latest definition ever stored
    target,      \* the schema <id>, from which the data API answers
    tmp,         \* the schema <id>__tmp
    old,         \* the schema <id>__old
    lock,        \* the worker that holds the build lock of a pipeline
    pc,          \* where each worker is
    job,         \* the pipeline it works on
    read,        \* the definition its build read; 0 before
    renamed,     \* targetRenamed of its swap
    failures,    \* statements that failed so far
    crashes      \* crashes so far

tableVars  == <<row, last>>
schemaVars == <<target, tmp, old>>
workVars   == <<pc, job, read, renamed>>
vars       == <<tableVars, schemaVars, lock, workVars, failures, crashes>>

Versions == 1..MaxVersions
Content  == Versions \cup {Missing, Partial}

BuildPoints == {"cleanTmp", "cleanOld", "makeTmp", "readRow", "fill"}
SwapPoints  == {"dropOld", "look", "aside", "install", "dropAside",
                "restore", "sweepTmp", "sweepOld"}
LockedPoints == BuildPoints \cup SwapPoints \cup {"unlock"}
Points == LockedPoints \cup {"idle", "insert", "await", "dropSchema"}

TypeOK ==
    /\ row \in [Ids -> 0..MaxVersions]
    /\ last \in [Ids -> 0..MaxVersions]
    /\ target \in [Ids -> Content]
    /\ tmp \in [Ids -> Content]
    /\ old \in [Ids -> Content]
    /\ lock \in [Ids -> Workers \cup {Free}]
    /\ pc \in [Workers -> Points]
    /\ job \in [Workers -> Ids]
    /\ read \in [Workers -> 0..MaxVersions]
    /\ renamed \in [Workers -> BOOLEAN]
    /\ failures \in 0..MaxFailures
    /\ crashes \in 0..MaxCrashes

Init ==
    /\ row = [i \in Ids |-> 0]
    /\ last = [i \in Ids |-> 0]
    /\ target = [i \in Ids |-> Missing]
    /\ tmp = [i \in Ids |-> Missing]
    /\ old = [i \in Ids |-> Missing]
    /\ lock = [i \in Ids |-> Free]
    /\ pc = [w \in Workers |-> "idle"]
    /\ job \in [Workers -> Ids]
    /\ read = [w \in Workers |-> 0]
    /\ renamed = [w \in Workers |-> FALSE]
    /\ failures = 0
    /\ crashes = 0

Goto(w, point) == pc' = [pc EXCEPT ![w] = point]

Set(f, w, x) == [f EXCEPT ![job[w]] = x]

\* A statement fails, or a build does because its annotations are missing.
Fails ==
    /\ failures < MaxFailures
    /\ failures' = failures + 1

-----------------------------------------------------------------------------
(* The requests.                                                           *)

\* Definitions of i that were stored or are on their way (for the bound).
Stored(i) == last[i] + Cardinality({w \in Workers : pc[w] = "insert" /\ job[w] = i})

Accept(w, i, operation, point) ==
    /\ pc[w] = "idle"
    /\ operation \in Operations
    /\ job' = [job EXCEPT ![w] = i]
    /\ Goto(w, point)

Store(i) ==
    /\ last' = [last EXCEPT ![i] = @ + 1]
    /\ row' = [row EXCEPT ![i] = last[i] + 1]

\* create: an id that exists is refused (409) ...
Create(w, i) ==
    /\ row[i] = 0
    /\ Stored(i) < MaxVersions
    /\ Accept(w, i, "create", "insert")
    /\ UNCHANGED <<tableVars, schemaVars, lock, read, renamed, failures, crashes>>

\* ... and by the primary key when it was stored since.
Insert(w) ==
    /\ pc[w] = "insert"
    /\ IF row[job[w]] = 0
         THEN Store(job[w]) /\ Goto(w, "await")
         ELSE UNCHANGED tableVars /\ Goto(w, "idle")
    /\ UNCHANGED <<schemaVars, lock, job, read, renamed, failures, crashes>>

\* update: one statement stores the new definition (404 if there is no row).
Update(w, i) ==
    /\ row[i] # 0
    /\ Stored(i) < MaxVersions
    /\ Accept(w, i, "update", "await")
    /\ Store(i)
    /\ UNCHANGED <<schemaVars, lock, read, renamed, failures, crashes>>

\* trigger of SourceBuildController: a build and nothing else.
Rebuild(w, i) ==
    /\ Accept(w, i, "rebuild", "await")
    /\ UNCHANGED <<tableVars, schemaVars, lock, read, renamed, failures, crashes>>

\* delete takes no build lock: the row goes ...
Delete(w, i) ==
    /\ row[i] # 0
    /\ Accept(w, i, "delete", "dropSchema")
    /\ row' = [row EXCEPT ![i] = 0]
    /\ UNCHANGED <<last, schemaVars, lock, read, renamed, failures, crashes>>

\* ... and then the schema; a schema that is not there is an error (500).
DropSchema(w) ==
    /\ pc[w] = "dropSchema"
    /\ Goto(w, "idle")
    /\ \/ target' = Set(target, w, Missing) /\ UNCHANGED failures
       \/ Fails /\ UNCHANGED target
    /\ UNCHANGED <<tableVars, tmp, old, lock, job, read, renamed, crashes>>

-----------------------------------------------------------------------------
(* startBuild: builds of one pipeline take turns.                          *)

\* Fault (for a mutant of a run): every build has a lock of its own.
LockNobody(w) ==
    /\ pc[w] = "await"
    /\ Goto(w, "cleanTmp")
    /\ UNCHANGED <<tableVars, schemaVars, lock, job, read, renamed, failures, crashes>>

\* Fault: a build that finds the lock taken is left to the one under way.
LockOrSkip(w) ==
    /\ pc[w] = "await"
    /\ IF lock[job[w]] = Free
         THEN lock' = Set(lock, w, w) /\ Goto(w, "cleanTmp")
         ELSE Goto(w, "idle") /\ UNCHANGED lock
    /\ UNCHANGED <<tableVars, schemaVars, job, read, renamed, failures, crashes>>

Lock(w) ==
    /\ pc[w] = "await"
    /\ lock[job[w]] = Free
    /\ lock' = Set(lock, w, w)
    /\ Goto(w, "cleanTmp")
    /\ UNCHANGED <<tableVars, schemaVars, job, read, renamed, failures, crashes>>

\* cleanupTransientSchemas: what a build that failed or died left behind.
CleanTmp(w) ==
    /\ pc[w] = "cleanTmp"
    /\ \/ tmp' = Set(tmp, w, Missing) /\ Goto(w, "cleanOld") /\ UNCHANGED failures
       \/ Fails /\ Goto(w, "unlock") /\ UNCHANGED tmp
    /\ UNCHANGED <<tableVars, target, old, lock, job, read, renamed, crashes>>

CleanOld(w) ==
    /\ pc[w] = "cleanOld"
    /\ \/ old' = Set(old, w, Missing) /\ Goto(w, "makeTmp") /\ UNCHANGED failures
       \/ Fails /\ Goto(w, "unlock") /\ UNCHANGED old
    /\ UNCHANGED <<tableVars, target, tmp, lock, job, read, renamed, crashes>>

\* The DBAccess for the build creates its schema when it is constructed.
MakeTmp(w) ==
    /\ pc[w] = "makeTmp"
    /\ \/ tmp' = Set(tmp, w, Partial) /\ Goto(w, "readRow") /\ UNCHANGED failures
       \/ Fails /\ Goto(w, "unlock") /\ UNCHANGED tmp
    /\ UNCHANGED <<tableVars, target, old, lock, job, read, renamed, crashes>>

\* Fault: a build without a row starts over until there is one.
ReadRowUntilStored(w) ==
    /\ pc[w] = "readRow"
    /\ read' = [read EXCEPT ![w] = row[job[w]]]
    /\ Goto(w, IF row[job[w]] = 0 THEN "cleanTmp" ELSE "fill")
    /\ UNCHANGED <<tableVars, schemaVars, lock, job, renamed, failures, crashes>>

\* Pipeline.fromDB: a build without a row ends here.
ReadRow(w) ==
    /\ pc[w] = "readRow"
    /\ read' = [read EXCEPT ![w] = row[job[w]]]
    /\ Goto(w, IF row[job[w]] = 0 THEN "unlock" ELSE "fill")
    /\ UNCHANGED <<tableVars, schemaVars, lock, job, renamed, failures, crashes>>

\* The visualizations and the data of every generator, table by table.
Fill(w) ==
    /\ pc[w] = "fill"
    /\ \/ tmp' = Set(tmp, w, read[w]) /\ Goto(w, "dropOld") /\ UNCHANGED failures
       \/ Fails /\ Goto(w, "unlock") /\ UNCHANGED tmp
    /\ UNCHANGED <<tableVars, target, old, lock, job, read, renamed, crashes>>

-----------------------------------------------------------------------------
(* swapSchemas.                                                            *)

\* Without a connection the swap ends at once; a statement that fails goes
\* to the catch block.
DropOld(w) ==
    /\ pc[w] = "dropOld"
    /\ \/ old' = Set(old, w, Missing) /\ Goto(w, "look") /\ UNCHANGED failures
       \/ Fails /\ \E p \in {"unlock", "restore"} : Goto(w, p) /\ UNCHANGED old
    /\ UNCHANGED <<tableVars, target, tmp, lock, job, read, renamed, crashes>>

Look(w) ==
    /\ pc[w] = "look"
    /\ \/ /\ Goto(w, IF target[job[w]] # Missing THEN "aside" ELSE "install")
          /\ UNCHANGED failures
       \/ Fails /\ Goto(w, "restore")
    /\ UNCHANGED <<tableVars, schemaVars, lock, job, read, renamed, crashes>>

\* The schema that was there a statement ago may have been deleted.
Aside(w) ==
    /\ pc[w] = "aside"
    /\ \/ /\ target[job[w]] # Missing
          /\ old' = Set(old, w, target[job[w]])
          /\ target' = Set(target, w, Missing)
          /\ renamed' = [renamed EXCEPT ![w] = TRUE]
          /\ Goto(w, "install")
          /\ UNCHANGED failures
       \/ /\ target[job[w]] = Missing
          /\ Goto(w, "restore")
          /\ UNCHANGED <<old, target, renamed, failures>>
       \/ Fails /\ Goto(w, "restore") /\ UNCHANGED <<old, target, renamed>>
    /\ UNCHANGED <<tableVars, tmp, lock, job, read, crashes>>

Install(w) ==
    /\ pc[w] = "install"
    /\ \/ /\ target' = Set(target, w, tmp[job[w]])
          /\ tmp' = Set(tmp, w, Missing)
          /\ Goto(w, IF renamed[w] THEN "dropAside" ELSE "sweepTmp")
          /\ UNCHANGED failures
       \/ Fails /\ Goto(w, "restore") /\ UNCHANGED <<target, tmp>>
    /\ UNCHANGED <<tableVars, old, lock, job, read, renamed, crashes>>

DropAside(w) ==
    /\ pc[w] = "dropAside"
    /\ \/ old' = Set(old, w, Missing) /\ Goto(w, "sweepTmp") /\ UNCHANGED failures
       \/ Fails /\ Goto(w, "restore") /\ UNCHANGED old
    /\ UNCHANGED <<tableVars, target, tmp, lock, job, read, renamed, crashes>>

\* Fault: the catch block forgets the schema it renamed.
RestoreNothing(w) ==
    /\ pc[w] = "restore"
    /\ Goto(w, "sweepTmp")
    /\ UNCHANGED <<tableVars, schemaVars, lock, job, read, renamed, failures, crashes>>

\* The catch block: the previous data gets its name back, if it lost it.
Restore(w) ==
    /\ pc[w] = "restore"
    /\ Goto(w, "sweepTmp")
    /\ IF renamed[w] /\ target[job[w]] = Missing /\ old[job[w]] # Missing
         THEN \/ /\ target' = Set(target, w, old[job[w]])
                 /\ old' = Set(old, w, Missing)
                 /\ UNCHANGED failures
              \/ Fails /\ UNCHANGED <<target, old>>
         ELSE UNCHANGED <<target, old, failures>>
    /\ UNCHANGED <<tableVars, tmp, lock, job, read, renamed, crashes>>

\* The finally block drops both transient schemas.
SweepTmp(w) ==
    /\ pc[w] = "sweepTmp"
    /\ \/ tmp' = Set(tmp, w, Missing) /\ Goto(w, "sweepOld") /\ UNCHANGED failures
       \/ Fails /\ Goto(w, "unlock") /\ UNCHANGED tmp
    /\ UNCHANGED <<tableVars, target, old, lock, job, read, renamed, crashes>>

SweepOld(w) ==
    /\ pc[w] = "sweepOld"
    /\ Goto(w, "unlock")
    /\ \/ old' = Set(old, w, Missing) /\ UNCHANGED failures
       \/ Fails /\ UNCHANGED old
    /\ UNCHANGED <<tableVars, target, tmp, lock, job, read, renamed, crashes>>

\* startBuild returns, or throws: the lock is released either way.
Unlock(w) ==
    /\ pc[w] = "unlock"
    /\ lock' = Set(lock, w, Free)
    /\ Goto(w, "idle")
    /\ read' = [read EXCEPT ![w] = 0]
    /\ renamed' = [renamed EXCEPT ![w] = FALSE]
    /\ UNCHANGED <<tableVars, schemaVars, job, failures, crashes>>

-----------------------------------------------------------------------------
\* The application dies and starts again: the threads and the locks are gone,
\* the database is what the last statement left.
Crash ==
    /\ crashes < MaxCrashes
    /\ crashes' = crashes + 1
    /\ \E w \in Workers : pc[w] # "idle"
    /\ pc' = [w \in Workers |-> "idle"]
    /\ lock' = [i \in Ids |-> Free]
    /\ read' = [w \in Workers |-> 0]
    /\ renamed' = [w \in Workers |-> FALSE]
    /\ UNCHANGED <<tableVars, schemaVars, job, failures>>

Arrive(w) == \E i \in Ids : Create(w, i) \/ Update(w, i) \/ Rebuild(w, i) \/ Delete(w, i)

BuildStep(w) ==
    \/ CleanTmp(w) \/ CleanOld(w) \/ MakeTmp(w) \/ ReadRow(w) \/ Fill(w)
    \/ DropOld(w) \/ Look(w) \/ Aside(w) \/ Install(w) \/ DropAside(w)
    \/ Restore(w) \/ SweepTmp(w) \/ SweepOld(w) \/ Unlock(w)

WorkStep(w) == Insert(w) \/ DropSchema(w) \/ BuildStep(w)

Next ==
    \/ \E w \in Workers : Arrive(w) \/ Lock(w) \/ WorkStep(w)
    \/ Crash

Spec == Init /\ [][Next]_vars

(***************************************************************************)
(* Fairness.  A request that was accepted goes on: statements end, with a  *)
(* result or an error.  The lock of a build is a ReentrantLock: its queue  *)
(* lets every waiting thread in some time (strong fairness).  No request   *)
(* has to arrive.                                                          *)
(***************************************************************************)
Fairness == \A w \in Workers : WF_vars(WorkStep(w)) /\ SF_vars(Lock(w))

FairSpec == Spec /\ Fairness

-----------------------------------------------------------------------------
(* Correctness.                                                            *)

Quiet == \A w \in Workers : pc[w] = "idle"

\* The data API answers from the schema of the pipeline: what is there under
\* that name is the complete data of one definition, whatever builds, deletes,
\* failures and crashes overlap.  Two builds of one pipeline at a time would
\* swap in each other's half-filled schema ("One lock per pipeline schema").
\* Every variable keeps its type.
TargetComplete == TypeOK /\ \A i \in Ids : target[i] # Partial

\* A swap goes forward: what it installs is complete and was made from a
\* definition at least as recent as the one whose data it set aside.
SwapForward ==
    \A w \in Workers : pc[w] = "install" =>
        /\ target[job[w]] = Missing
        /\ tmp[job[w]] \in Versions
        /\ renamed[w] => old[job[w]] \in Versions /\ old[job[w]] <= tmp[job[w]]

\* When nothing failed and all requests are through, the data is that of the
\* stored definition, in whatever order updates and builds overlapped: each
\* build reads the definition under the lock.
SettledDataIsCurrent ==
    Quiet /\ failures = 0 /\ crashes = 0
        => \A i \in Ids : row[i] # 0 => target[i] = row[i]

\* Rebuilding never destroys the only copy of a pipeline's data: as long as
\* one statement fails at most and nobody deletes, the swap leaves the new data
\* or the previous data ("Restore original schema name if swap did not finish").
\* A second failure, of the statement that restores, or a crash between the
\* renames does lose it.
Copies(i) == {target[i], old[i]} \cap Versions

NeverLastCopy ==
    [][failures <= 1 /\ crashes = 0 =>
          \A i \in Ids : Copies(i) # {} => Copies(i)' # {}]_vars

\* Every request ends: a build that fails does not keep the others out.
EveryRequestEnds == \A w \in Workers : pc[w] # "idle" ~> pc[w] = "idle"
===============================================================================
