---------------------------- MODULE ConnectionBudget ----------------------------
(***************************************************************************)
(* The connections that the requests of PipelineService need at a time.    *)
(*                                                                         *)
(* The Spring transaction around a method takes a connection and keeps it  *)
(* to the end; the method takes one of its own.  create and update keep    *)
(* both while they wait for the build lock of the pipeline and while they  *)
(* build.  A build takes a third, piece by piece, and the segments of a    *)
(* TextFormatting read the text on a fourth (dbGetSofa).  All come from    *)
(* one pool; who finds it empty waits, until the connection timeout ends   *)
(* the request with an exception.                                          *)
(*                                                                         *)
(* What the statements do is in PipelineBuild and PipelineCache; any of    *)
(* them may fail.                                                          *)
(***************************************************************************)
EXTENDS Naturals, FiniteSets

CONSTANTS
    Requests,      \* requests under way at a time
    Pipelines,     \* the pipelines they are about
    PoolSize,      \* maximumPoolSize of HikariCP, ten by default
    Unlocked,      \* nobody has the build lock of a pipeline
    NoCall,        \* a request that is in none of the methods
    MaxPieces      \* bound: pieces of a build

ASSUME RequestsAssumption == IsFiniteSet(Requests) /\ Unlocked \notin Requests
ASSUME PoolAssumption == PoolSize \in Nat /\ MaxPieces \in Nat \ {0}

VARIABLES
    free,          \* connections in the pool
    holds,         \* what each request has connections for
    at, call,      \* where it is, in which method for which pipeline
    pieces,        \* pieces of its build that are left
    buildLock      \* buildLocks

budgetVars == <<free, holds, at, call, pieces, buildLock>>

Uses    == {"transaction", "method", "piece", "sofa"}
\* To the pool, list and delete are a get that is not cached, create and update one.
Methods == {"get", "store", "rebuild"}
Calls   == Methods \X Pipelines

\* Where a request waits for a connection, and what for.
Asks == [begin |-> "transaction", own |-> "method", open |-> "piece", nest |-> "sofa"]
Waiting == DOMAIN Asks
\* Where it is when it has got it.
Then == [begin |-> "own", own |-> "work", open |-> "build", nest |-> "read"]
\* Where it has the lock of its pipeline.
Locked == {"open", "build", "nest", "read", "rest"}
Places == Locked \cup {"idle", "begin", "own", "work", "await", "leave"}

BudgetInit ==
    /\ free = PoolSize
    /\ holds = [r \in Requests |-> {}]
    /\ at = [r \in Requests |-> "idle"]
    /\ call = [r \in Requests |-> NoCall]
    /\ pieces = [r \in Requests |-> 0]
    /\ buildLock = [p \in Pipelines |-> Unlocked]

Method(r) == call[r][1]
Job(r)    == call[r][2]

Moves(r, place) == at' = [at EXCEPT ![r] = place]

\* r gives back the connections it has for uses.
Returns(r, uses) ==
    /\ free' = free + Cardinality(holds[r] \cap uses)
    /\ holds' = [holds EXCEPT ![r] = @ \ uses]

\* trigger of SourceBuildController has no transaction and no connection of its own.
Call(r, method, p) ==
    /\ at[r] = "idle"
    /\ call' = [call EXCEPT ![r] = <<method, p>>]
    /\ Moves(r, IF method = "rebuild" THEN "await" ELSE "begin")
    /\ UNCHANGED <<free, holds, pieces, buildLock>>

\* getConnection
Connect(r) ==
    /\ at[r] \in Waiting /\ free > 0
    /\ free' = free - 1
    /\ holds' = [holds EXCEPT ![r] = @ \cup {Asks[at[r]]}]
    /\ Moves(r, Then[at[r]])
    /\ UNCHANGED <<call, pieces, buildLock>>

\* A get whose definition is cached needs no connection of its own.
CacheHit(r) ==
    /\ at[r] = "own" /\ Method(r) = "get"
    /\ Moves(r, "leave")
    /\ UNCHANGED <<free, holds, call, pieces, buildLock>>

\* The statements of the method; what is stored is built then.
Work(r) ==
    /\ at[r] = "work"
    /\ Moves(r, IF Method(r) = "store" THEN "await" ELSE "leave")
    /\ UNCHANGED <<free, holds, call, pieces, buildLock>>

-----------------------------------------------------------------------------
(* startBuild.                                                             *)

TakeLock(r) ==
    /\ at[r] = "await" /\ buildLock[Job(r)] = Unlocked
    /\ buildLock' = [buildLock EXCEPT ![Job(r)] = r]
    /\ \E n \in 1..MaxPieces : pieces' = [pieces EXCEPT ![r] = n]
    /\ Moves(r, "open")
    /\ UNCHANGED <<free, holds, call>>

\* dbCreateTextFormattingSegments calls dbGetSofa before its own connection is closed.
NeedSofa(r) ==
    /\ at[r] = "build"
    /\ Moves(r, "nest")
    /\ UNCHANGED <<free, holds, call, pieces, buildLock>>

ReadSofa(r) ==
    /\ at[r] = "read"
    /\ Returns(r, {"sofa"})
    /\ Moves(r, "rest")
    /\ UNCHANGED <<call, pieces, buildLock>>

\* Fault: the connection of a piece stays open.
ClosePieceLate(r) ==
    /\ at[r] \in {"build", "rest"}
    /\ pieces' = [pieces EXCEPT ![r] = @ - 1]
    /\ IF pieces[r] = 1
         THEN Moves(r, "leave") /\ buildLock' = [buildLock EXCEPT ![Job(r)] = Unlocked]
         ELSE Moves(r, "open") /\ UNCHANGED buildLock
    /\ holds' = [holds EXCEPT ![r] = @ \ {"piece"}]
    /\ UNCHANGED <<free, call>>

\* A piece closes its connection; after the last one the lock is released.
ClosePiece(r) ==
    /\ at[r] \in {"build", "rest"}
    /\ Returns(r, {"piece"})
    /\ pieces' = [pieces EXCEPT ![r] = @ - 1]
    /\ IF pieces[r] = 1
         THEN Moves(r, "leave") /\ buildLock' = [buildLock EXCEPT ![Job(r)] = Unlocked]
         ELSE Moves(r, "open") /\ UNCHANGED buildLock
    /\ UNCHANGED call

\* Fault: an exception in a build leaves its lock locked.
ThrowInLock(r) ==
    /\ \/ at[r] \in Waiting /\ free = 0
       \/ at[r] \in {"own", "work", "open", "build", "read", "rest"}
    /\ Returns(r, {"piece", "sofa"})
    /\ pieces' = [pieces EXCEPT ![r] = 0]
    /\ Moves(r, "leave")
    /\ UNCHANGED <<call, buildLock>>

\* The code throws between two waits, or the connection timeout ends one: startBuild
\* closes what the build has open and releases its lock, the rest is left to the method.
Throw(r) ==
    /\ \/ at[r] \in Waiting /\ free = 0
       \/ at[r] \in {"own", "work", "open", "build", "read", "rest"}
    /\ Returns(r, {"piece", "sofa"})
    /\ pieces' = [pieces EXCEPT ![r] = 0]
    /\ buildLock' = IF at[r] \in Locked THEN [buildLock EXCEPT ![Job(r)] = Unlocked]
                                        ELSE buildLock
    /\ Moves(r, "leave")
    /\ UNCHANGED call

\* The method closes its connection, Spring the one of the transaction.
Leave(r) ==
    /\ at[r] = "leave"
    /\ Returns(r, {"transaction", "method"})
    /\ Moves(r, "idle")
    /\ call' = [call EXCEPT ![r] = NoCall]
    /\ UNCHANGED <<pieces, buildLock>>

GoesOn(r) ==
    \/ CacheHit(r) \/ Work(r) \/ NeedSofa(r) \/ ReadSofa(r) \/ ClosePiece(r) \/ Leave(r)

BudgetNext == \E r \in Requests :
    \/ \E method \in Methods, p \in Pipelines : Call(r, method, p)
    \/ Connect(r) \/ TakeLock(r) \/ GoesOn(r) \/ Throw(r)

(***************************************************************************)
(* Fairness.  Statements end.  HikariCP hands a connection that comes back *)
(* to those who wait, and the build lock has a queue (strong fairness).    *)
(* The timeout is not needed: nothing says that Throw ever happens.        *)
(***************************************************************************)
BudgetFairness ==
    \A r \in Requests : /\ WF_budgetVars(GoesOn(r))
                        /\ SF_budgetVars(Connect(r)) /\ SF_budgetVars(TakeLock(r))

BudgetSpec == BudgetInit /\ [][BudgetNext]_budgetVars /\ BudgetFairness

-----------------------------------------------------------------------------
(* Properties.                                                             *)

\* The requests that have a connection for a use.
Holders(use) == {r \in Requests : use \in holds[r]}

\* What the code has open where r is, in its own method and in a build; on the way
\* out only what is the method's own, as far as it got.
HasOpen(r) ==
    /\ "piece" \in holds[r] <=> at[r] \in {"build", "nest", "read", "rest"}
    /\ "sofa" \in holds[r] <=> at[r] = "read"
    /\ at[r] # "leave" =>
          /\ "transaction" \in holds[r] <=> at[r] \notin {"idle", "begin"} /\ Method(r) # "rebuild"
          /\ "method" \in holds[r] <=>
                at[r] \notin {"idle", "begin", "own"} /\ Method(r) # "rebuild"

InCall(r) == IF at[r] = "idle" THEN call[r] = NoCall ELSE call[r] \in Calls

\* The connections in use.
InUse == Cardinality(Holders("transaction")) + Cardinality(Holders("method"))
       + Cardinality(Holders("piece")) + Cardinality(Holders("sofa"))

\* No connection is lost or handed out twice, whichever statement of whichever piece
\* fails or times out: those in the pool and those in use are all there are, and a
\* request has those that its place in the code has open, and after its end none.
\* Every variable keeps its type.
ConnectionsComeBack ==
    /\ free \in 0..PoolSize /\ holds \in [Requests -> SUBSET Uses]
    /\ at \in [Requests -> Places] /\ pieces \in [Requests -> 0..MaxPieces]
    /\ buildLock \in [Pipelines -> Requests \cup {Unlocked}]
    /\ DOMAIN call = Requests
    /\ \A r \in Requests : InCall(r) /\ HasOpen(r)
    /\ free + InUse = PoolSize

\* Requests that hold connections and wait for each other, at the pool or at the
\* lock of a build that itself waits at the pool, never come to a stop: with more
\* than three connections to a request, one of them can go on without a timeout.
\* (A request that waits has three at most.  The pool of ten is enough for three
\* requests; of four that build texts all may wait for the timeout.)
Blocked(r) ==
    \/ at[r] \in Waiting /\ free = 0
    \/ at[r] = "await" /\ buildLock[Job(r)] # Unlocked

SomebodyGoesOn ==
    3 * Cardinality(Requests) < PoolSize =>
        \/ \A r \in Requests : at[r] = "idle"
        \/ \E r \in Requests : at[r] # "idle" /\ ~Blocked(r)

\* Both: what requests wait for comes back, and somebody is there to bring it.
ConnectionsSuffice == ConnectionsComeBack /\ SomebodyGoesOn

\* Within that budget every request ends, though no timeout helps it.
CallsEnd == \A r \in Requests : at[r] # "idle" ~> at[r] = "idle"
=================================================================================
