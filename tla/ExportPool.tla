------------------------------ MODULE ExportPool ------------------------------
(***************************************************************************)
(* The pool of headless browser sessions behind /api/batch                 *)
(* (BrowserSessionPool and BrowserSession).                                *)
(*                                                                         *)
(* A request thread passes admission, borrows a session, works with it and *)
(* gives it back; a scheduled thread evicts sessions nobody used for a     *)
(* while; the shutdown thread closes everything.  The Java monitor of the  *)
(* pool is the variable monitor.  A task a session runs on its own thread  *)
(* (launch, health check, teardown) is one step: the thread runs one task  *)
(* at a time and nothing else reads what the task writes.                  *)
(***************************************************************************)
EXTENDS Naturals, Sequences, FiniteSets

CONSTANTS
    Requests,        \* Tomcat workers that call withSession
    Evictor,         \* the daemon thread udav-export-pool-evictor
    Closer,          \* the thread that runs the @PreDestroy method
    Nobody,          \* the monitor is free
    Sessions,        \* BrowserSession objects (an identity is used again
                     \*   once its object is closed and dropped)
    NoSession,       \* the null reference
    MaxSessions,     \* app.export.pool.max-sessions
    MaxWaiters,      \* app.export.pool.max-waiters
    MaxCrashes,      \* bound: browser crashes in one behaviour
    StartErrors,     \* BOOLEAN: a launch may end in a java.lang.Error
    MayClose         \* BOOLEAN: the application may shut down

ASSUME MaxSessionsAssumption == MaxSessions \in Nat \ {0}
ASSUME MaxWaitersAssumption  == MaxWaiters \in Nat
ASSUME MaxCrashesAssumption  == MaxCrashes \in Nat
ASSUME RequestsAssumption    == IsFiniteSet(Requests)
ASSUME NoSessionAssumption   == NoSession \notin Sessions
ASSUME ActorsAssumption      ==
    /\ {Evictor, Closer, Nobody} \cap Requests = {}
    /\ Evictor # Closer /\ Evictor # Nobody /\ Closer # Nobody
ASSUME SwitchesAssumption    == StartErrors \in BOOLEAN /\ MayClose \in BOOLEAN

VARIABLES
    idle,        \* the queue of sessions free to borrow
    all,         \* allSessions: the sessions that occupy a slot
    permits,     \* free permits of the admission semaphore
    phase,       \* the pool is open, its close() is draining, or it is closed
    monitor,     \* the thread inside a synchronized method of the pool
    pc,          \* where each thread is in its code
    held,        \* the session a thread has taken and not given back
    then,        \* where a thread goes on after the discard it is in
    late,        \* requests whose borrow deadline has passed
    keep,        \* sessions the evictor took out and will put back
    stale,       \* sessions unused for longer than the idle timeout
    life,        \* no object, its executor accepts tasks, or it was shut down
    chromium,    \* the browser process of a session
    tearing,     \* the session close() tears down: closed, not yet shut down
    crashes      \* browser crashes so far

poolVars    == <<idle, all, permits, phase, monitor>>
threadVars  == <<pc, held, then, late, keep>>
sessionVars == <<stale, life, chromium, tearing, crashes>>
vars        == <<poolVars, threadVars, sessionVars>>

Threads == Requests \cup {Evictor}

\* The slots of the admission semaphore: running plus queued exports.
Capacity == MaxSessions + MaxWaiters

closed == phase # "open"

InQueue(q) == {q[i] : i \in 1..Len(q)}

AcquirePoints == {"poll", "create", "start", "deadline", "wait", "check"}
LentPoints    == {"restart", "work", "return", "probe", "offer"}
Points == {"out", "admit", "release", "retire", "closing"}
          \cup AcquirePoints \cup LentPoints
          \cup {"asleep", "scan", "putback"}

TypeOK ==
    /\ idle \in Seq(Sessions)
    /\ all \in SUBSET Sessions
    /\ permits \in 0..Capacity
    /\ phase \in {"open", "draining", "closed"}
    /\ monitor \in Threads \cup {Closer, Nobody}
    /\ pc \in [Threads -> Points]
    /\ held \in [Threads -> Sessions \cup {NoSession}]
    /\ then \in [Threads -> {"poll", "release", "scan", "putback"}]
    /\ late \in SUBSET Requests
    /\ keep \in Seq(Sessions)
    /\ stale \in SUBSET Sessions
    /\ life \in [Sessions -> {"absent", "open", "shut"}]
    /\ chromium \in [Sessions -> {"none", "up", "crashed"}]
    /\ tearing \in Sessions \cup {NoSession}
    /\ crashes \in 0..MaxCrashes

Init ==
    /\ idle = <<>>
    /\ all = {}
    /\ permits = Capacity
    /\ phase = "open"
    /\ monitor = Nobody
    /\ pc = [t \in Threads |-> IF t = Evictor THEN "asleep" ELSE "out"]
    /\ held = [t \in Threads |-> NoSession]
    /\ then = [t \in Threads |-> IF t = Evictor THEN "scan" ELSE "release"]
    /\ late = {}
    /\ keep = <<>>
    /\ stale = {}
    /\ life = [s \in Sessions |-> "absent"]
    /\ chromium = [s \in Sessions |-> "none"]
    /\ tearing = NoSession
    /\ crashes = 0

-----------------------------------------------------------------------------
(* Steps every thread is built from.                                       *)

Goto(t, point) == pc' = [pc EXCEPT ![t] = point]

\* t holds s from now on and goes on at point.
Take(t, s, point) ==
    /\ held' = [held EXCEPT ![t] = s]
    /\ Goto(t, point)

\* t no longer has a session and goes on at point.
LetGo(t, point) == Take(t, NoSession, point)

\* t will discard the session it has (or s) and then go on at next.
RetireThen(t, s, next) ==
    /\ Take(t, s, "retire")
    /\ then' = [then EXCEPT ![t] = next]

IsHealthy(s) == life[s] = "open" /\ chromium[s] = "up"

(***************************************************************************)
(* ensureStarted of session s: nothing to do when the browser is           *)
(* connected; otherwise what is left of it is closed and a new one         *)
(* launched.  A launch that fails leaves no browser, and an executor that  *)
(* was shut down rejects the task.                                         *)
(***************************************************************************)
StartSucceeds(s) ==
    /\ life[s] = "open"
    /\ chromium' = [chromium EXCEPT ![s] = "up"]

StartFails(s) ==
    \/ /\ life[s] = "open"
       /\ chromium[s] # "up"
       /\ chromium' = [chromium EXCEPT ![s] = "none"]
    \/ /\ life[s] = "shut"
       /\ UNCHANGED chromium

\* Fault (for a mutant of a run): discard without synchronized.
DiscardEnterUnsynchronized(t) ==
    /\ pc[t] = "retire"
    /\ all' = all \ {held[t]}
    /\ Goto(t, "closing")
    /\ UNCHANGED <<idle, permits, phase, monitor, held, then, late, keep, sessionVars>>

(***************************************************************************)
(* discard, a synchronized method: take the session off the list, then     *)
(* close it on its own thread with the monitor still held.  An object that *)
(* close() had shut down already rejects the teardown task: whatever runs  *)
(* in it stays.                                                            *)
(***************************************************************************)
DiscardEnter(t) ==
    /\ pc[t] = "retire"
    /\ monitor = Nobody
    /\ monitor' = t
    /\ all' = all \ {held[t]}
    /\ Goto(t, "closing")
    /\ UNCHANGED <<idle, permits, phase, held, then, late, keep, sessionVars>>

DiscardLeave(t) ==
    /\ pc[t] = "closing"
    /\ monitor' = Nobody
    /\ IF life[held[t]] = "open"
         THEN /\ chromium' = [chromium EXCEPT ![held[t]] = "none"]
              /\ life' = [life EXCEPT ![held[t]] = "absent"]
              /\ stale' = stale \ {held[t]}
         ELSE UNCHANGED <<chromium, life, stale>>
    /\ LetGo(t, then[t])
    /\ UNCHANGED <<idle, all, permits, phase, then, late, keep, tearing, crashes>>

-----------------------------------------------------------------------------
(* A request: withSession.                                                 *)

\* The shutdown check; a request that fails it is answered 503 at once.
Arrive(r) ==
    /\ pc[r] = "out"
    /\ ~closed
    /\ Goto(r, "admit")
    /\ UNCHANGED <<poolVars, sessionVars, held, then, late, keep>>

\* admission.tryAcquire, which does not wait: without a permit, 503.
Admit(r) ==
    /\ pc[r] = "admit"
    /\ IF permits > 0
         THEN permits' = permits - 1 /\ Goto(r, "poll")
         ELSE UNCHANGED permits /\ Goto(r, "out")
    /\ UNCHANGED <<idle, all, phase, monitor, held, then, late, keep, sessionVars>>

\* Fault: the head is looked at and left in the queue.
PollPeek(r) ==
    /\ pc[r] = "poll"
    /\ IF idle = <<>>
         THEN Goto(r, "create") /\ UNCHANGED held
         ELSE Take(r, Head(idle), "check")
    /\ UNCHANGED <<poolVars, then, late, keep, sessionVars>>

\* idle.poll() at the head of the loop of acquire.
Poll(r) ==
    /\ pc[r] = "poll"
    /\ IF idle = <<>>
         THEN Goto(r, "create") /\ UNCHANGED <<idle, held>>
         ELSE Take(r, Head(idle), "check") /\ idle' = Tail(idle)
    /\ UNCHANGED <<all, permits, phase, monitor, then, late, keep, sessionVars>>

\* Fault: one session too many.
CanCreateOneMore == ~closed /\ Cardinality(all) <= MaxSessions

\* createIfAllowed, a synchronized method: a new session while a slot is
\* free and the pool is open.
CanCreate == ~closed /\ Cardinality(all) < MaxSessions

Create(r) ==
    /\ pc[r] = "create"
    /\ monitor = Nobody
    /\ CanCreate
    /\ \E s \in Sessions :
          /\ life[s] = "absent"
          /\ life' = [life EXCEPT ![s] = "open"]
          /\ all' = all \cup {s}
          /\ Take(r, s, "start")
    /\ UNCHANGED <<idle, permits, phase, monitor, then, late, keep,
                   stale, chromium, tearing, crashes>>

CreateRefused(r) ==
    /\ pc[r] = "create"
    /\ monitor = Nobody
    /\ ~CanCreate
    /\ Goto(r, "deadline")
    /\ UNCHANGED <<poolVars, sessionVars, held, then, late, keep>>

\* Fault: the failed session is not discarded.
StartWithoutDiscard(r) ==
    /\ pc[r] = "start"
    /\ \/ StartSucceeds(held[r]) /\ Goto(r, "restart") /\ UNCHANGED held
       \/ StartFails(held[r]) /\ LetGo(r, "release")
    /\ UNCHANGED <<poolVars, then, late, keep, stale, life, tearing, crashes>>

\* created.ensureStarted() inside acquire: an Exception discards the new
\* session, an Error passes the catch clause and leaves it on the list.
Start(r) ==
    /\ pc[r] = "start"
    /\ \/ /\ StartSucceeds(held[r])
          /\ Goto(r, "restart")
          /\ UNCHANGED <<held, then>>
       \/ /\ StartFails(held[r])
          /\ RetireThen(r, held[r], "release")
       \/ /\ StartErrors
          /\ life[held[r]] = "open"
          /\ StartFails(held[r])
          /\ LetGo(r, "release")
          /\ UNCHANGED then
    /\ UNCHANGED <<poolVars, late, keep, stale, life, tearing, crashes>>

\* The borrow timeout runs out while the request looks for a session.
Expire(r) ==
    /\ pc[r] \in {"deadline", "wait"}
    /\ r \notin late
    /\ late' = late \cup {r}
    /\ UNCHANGED <<poolVars, sessionVars, pc, held, then, keep>>

\* Fault: the 503 is thrown outside the try block, the permit stays taken.
DeadlineWithoutRelease(r) ==
    /\ pc[r] = "deadline"
    /\ Goto(r, IF r \in late THEN "out" ELSE "wait")
    /\ UNCHANGED <<poolVars, sessionVars, held, then, late, keep>>

\* Fault: the deadline is not looked at.
DeadlineIgnored(r) ==
    /\ pc[r] = "deadline"
    /\ Goto(r, "wait")
    /\ UNCHANGED <<poolVars, sessionVars, held, then, late, keep>>

\* Past the deadline acquire gives up (503), before it it waits.
Deadline(r) ==
    /\ pc[r] = "deadline"
    /\ Goto(r, IF r \in late THEN "release" ELSE "wait")
    /\ UNCHANGED <<poolVars, sessionVars, held, then, late, keep>>

\* idle.poll(remaining): a session, or nothing once the deadline has passed.
\* A thread that finds no session tries again from the top of the loop.
Await(r) ==
    /\ pc[r] = "wait"
    /\ \/ /\ idle # <<>>
          /\ Take(r, Head(idle), "check")
          /\ idle' = Tail(idle)
       \/ /\ idle = <<>>
          /\ r \in late
          /\ Goto(r, "poll")
          /\ UNCHANGED <<idle, held>>
    /\ UNCHANGED <<all, permits, phase, monitor, then, late, keep, sessionVars>>

\* pooled.isHealthy(): a dead session is discarded and the loop goes on; a
\* live one is borrowed and marked as used.
Check(r) ==
    /\ pc[r] = "check"
    /\ IF IsHealthy(held[r])
         THEN /\ Goto(r, "restart")
              /\ stale' = stale \ {held[r]}
              /\ UNCHANGED <<held, then>>
         ELSE /\ RetireThen(r, held[r], "poll")
              /\ UNCHANGED stale
    /\ UNCHANGED <<poolVars, late, keep, life, chromium, tearing, crashes>>

\* The work starts with ensureStarted of its own (BrowserExportService):
\* a browser that died since the check is launched again.
Restart(r) ==
    /\ pc[r] = "restart"
    /\ \/ StartSucceeds(held[r]) /\ Goto(r, "work")
       \/ StartFails(held[r]) /\ Goto(r, "return")
    /\ UNCHANGED <<poolVars, held, then, late, keep, stale, life, tearing, crashes>>

\* The export itself ends, with a result or with an exception.
WorkEnds(r) ==
    /\ pc[r] = "work"
    /\ Goto(r, "return")
    /\ UNCHANGED <<poolVars, sessionVars, held, then, late, keep>>

\* The finally block: read closed, ...
Return(r) ==
    /\ pc[r] = "return"
    /\ stale' = stale \ {held[r]}
    /\ IF closed
         THEN RetireThen(r, held[r], "release")
         ELSE Goto(r, "probe") /\ UNCHANGED <<held, then>>
    /\ UNCHANGED <<poolVars, late, keep, life, chromium, tearing, crashes>>

\* ... ask the session for its health, ...
Probe(r) ==
    /\ pc[r] = "probe"
    /\ IF IsHealthy(held[r])
         THEN Goto(r, "offer") /\ UNCHANGED <<held, then>>
         ELSE RetireThen(r, held[r], "release")
    /\ UNCHANGED <<poolVars, sessionVars, late, keep>>

\* ... and offer it to the queue, whose capacity is MaxSessions.
Offer(r) ==
    /\ pc[r] = "offer"
    /\ IF Len(idle) < MaxSessions
         THEN /\ idle' = Append(idle, held[r])
              /\ LetGo(r, "release")
              /\ UNCHANGED then
         ELSE /\ RetireThen(r, held[r], "release")
              /\ UNCHANGED idle
    /\ UNCHANGED <<all, permits, phase, monitor, late, keep, sessionVars>>

\* Fault: released once more than acquired.
ReleaseTwice(r) ==
    /\ pc[r] = "release"
    /\ permits' = permits + 2
    /\ late' = late \ {r}
    /\ Goto(r, "out")
    /\ UNCHANGED <<idle, all, phase, monitor, held, then, keep, sessionVars>>

\* admission.release(): the request leaves the pool.
Release(r) ==
    /\ pc[r] = "release"
    /\ permits' = permits + 1
    /\ late' = late \ {r}
    /\ Goto(r, "out")
    /\ UNCHANGED <<idle, all, phase, monitor, held, then, keep, sessionVars>>

-----------------------------------------------------------------------------
(* The evictor: evictIdle.  shutdownNow cancels the runs to come, never    *)
(* the one that is under way.                                              *)

EvictWake ==
    /\ pc[Evictor] = "asleep"
    /\ ~closed
    /\ Goto(Evictor, "scan")
    /\ UNCHANGED <<poolVars, sessionVars, held, then, late, keep>>

\* Fault: the stale session is closed while it is still in the queue.
EvictScanInPlace ==
    /\ pc[Evictor] = "scan"
    /\ IF idle = <<>>
         THEN Goto(Evictor, "putback") /\ UNCHANGED <<idle, held, then, keep>>
         ELSE IF Head(idle) \in stale
                THEN RetireThen(Evictor, Head(idle), "scan") /\ UNCHANGED <<idle, keep>>
                ELSE /\ idle' = Tail(idle)
                     /\ keep' = Append(keep, Head(idle))
                     /\ UNCHANGED <<pc, held, then>>
    /\ UNCHANGED <<all, permits, phase, monitor, late, sessionVars>>

\* Fault: the comparison with the idle timeout the wrong way round.
EvictScanFresh ==
    /\ pc[Evictor] = "scan"
    /\ IF idle = <<>>
         THEN Goto(Evictor, "putback") /\ UNCHANGED <<idle, held, then, keep>>
         ELSE /\ idle' = Tail(idle)
              /\ IF Head(idle) \notin stale
                   THEN RetireThen(Evictor, Head(idle), "scan") /\ UNCHANGED keep
                   ELSE keep' = Append(keep, Head(idle)) /\ UNCHANGED <<pc, held, then>>
    /\ UNCHANGED <<all, permits, phase, monitor, late, sessionVars>>

\* Every idle session is taken out, the stale ones to be discarded and the
\* others to be put back when the queue is empty.
EvictScan ==
    /\ pc[Evictor] = "scan"
    /\ IF idle = <<>>
         THEN Goto(Evictor, "putback") /\ UNCHANGED <<idle, held, then, keep>>
         ELSE /\ idle' = Tail(idle)
              /\ IF Head(idle) \in stale
                   THEN RetireThen(Evictor, Head(idle), "scan") /\ UNCHANGED keep
                   ELSE keep' = Append(keep, Head(idle)) /\ UNCHANGED <<pc, held, then>>
    /\ UNCHANGED <<all, permits, phase, monitor, late, sessionVars>>

EvictPutBack ==
    /\ pc[Evictor] = "putback"
    /\ IF keep = <<>>
         THEN Goto(Evictor, "asleep") /\ UNCHANGED <<idle, held, then, keep>>
         ELSE /\ keep' = Tail(keep)
              /\ IF Len(idle) < MaxSessions
                   THEN idle' = Append(idle, Head(keep)) /\ UNCHANGED <<pc, held, then>>
                   ELSE RetireThen(Evictor, Head(keep), "putback") /\ UNCHANGED idle
    /\ UNCHANGED <<all, permits, phase, monitor, late, sessionVars>>

-----------------------------------------------------------------------------
(* Shutdown: close, a synchronized method, tears down one listed session   *)
(* after the other.  The teardown task of a session and the shutdown of    *)
(* its executor are two steps: a task submitted between them still runs.   *)

CloseBegin ==
    /\ MayClose
    /\ phase = "open"
    /\ monitor = Nobody
    /\ monitor' = Closer
    /\ phase' = "draining"
    /\ idle' = <<>>
    /\ UNCHANGED <<all, permits, threadVars, sessionVars>>

CloseTask ==
    /\ phase = "draining"
    /\ tearing = NoSession
    /\ \E s \in all :
          /\ life[s] = "open"
          /\ chromium' = [chromium EXCEPT ![s] = "none"]
          /\ tearing' = s
    /\ UNCHANGED <<poolVars, threadVars, stale, life, crashes>>

CloseShutdown ==
    /\ phase = "draining"
    /\ tearing # NoSession
    /\ life' = [life EXCEPT ![tearing] = "shut"]
    /\ tearing' = NoSession
    /\ UNCHANGED <<poolVars, threadVars, stale, chromium, crashes>>

CloseEnd ==
    /\ phase = "draining"
    /\ tearing = NoSession
    /\ \A s \in all : life[s] # "open"
    /\ phase' = "closed"
    /\ all' = {}
    /\ monitor' = Nobody
    /\ UNCHANGED <<idle, permits, threadVars, sessionVars>>

-----------------------------------------------------------------------------
(* The environment: a browser dies, a session nobody borrows gets old.     *)

Crash ==
    /\ crashes < MaxCrashes
    /\ \E s \in Sessions :
          /\ chromium[s] = "up"
          /\ chromium' = [chromium EXCEPT ![s] = "crashed"]
    /\ crashes' = crashes + 1
    /\ UNCHANGED <<poolVars, threadVars, stale, life, tearing>>

\* The use of a lent session is marked when it is given back, so its age does
\* not matter before.
Age ==
    /\ \E s \in (InQueue(idle) \cup InQueue(keep)) \ stale :
          stale' = stale \cup {s}
    /\ UNCHANGED <<poolVars, threadVars, life, chromium, tearing, crashes>>

\* After the shutdown, with every thread through, nothing is left to do.
Terminated ==
    /\ phase = "closed"
    /\ \A r \in Requests : pc[r] = "out"
    /\ pc[Evictor] = "asleep"
    /\ UNCHANGED vars

-----------------------------------------------------------------------------
RequestStep(r) ==
    \/ Arrive(r) \/ Admit(r) \/ Poll(r) \/ Create(r) \/ CreateRefused(r)
    \/ Start(r) \/ Expire(r) \/ Deadline(r) \/ Await(r) \/ Check(r)
    \/ Restart(r) \/ WorkEnds(r) \/ Return(r) \/ Probe(r) \/ Offer(r)
    \/ Release(r)

DiscardStep(t) == DiscardEnter(t) \/ DiscardLeave(t)
EvictStep == EvictWake \/ EvictScan \/ EvictPutBack
CloseStep == CloseBegin \/ CloseTask \/ CloseShutdown \/ CloseEnd

Next ==
    \/ \E r \in Requests : RequestStep(r)
    \/ \E t \in Threads : DiscardStep(t)
    \/ EvictStep
    \/ CloseStep
    \/ Crash
    \/ Age
    \/ Terminated

Spec == Init /\ [][Next]_vars

(***************************************************************************)
(* Fairness.  The threads run; nobody has to send a request or shut the    *)
(* application down; browsers need not crash.  A work ends because every   *)
(* browser call of it has a timeout.  Whether a thread that competes for   *)
(* the monitor gets it is the JVM's choice each time: it is assumed not to *)
(* pass over the same thread for ever (strong fairness).  The deadline     *)
(* passes, an unused session ages, and the evictor runs periodically.      *)
(***************************************************************************)
Progress(r) ==
    \/ Admit(r) \/ Poll(r) \/ Start(r) \/ Deadline(r) \/ Await(r)
    \/ Check(r) \/ Restart(r) \/ WorkEnds(r) \/ Return(r) \/ Probe(r)
    \/ Offer(r) \/ Release(r)

Fairness ==
    /\ \A r \in Requests :
          /\ WF_vars(Progress(r))
          /\ WF_vars(Expire(r))
          /\ SF_vars(Create(r) \/ CreateRefused(r))
    /\ \A t \in Threads : SF_vars(DiscardEnter(t)) /\ WF_vars(DiscardLeave(t))
    /\ WF_vars(EvictStep)
    /\ WF_vars(Age)
    /\ WF_vars(CloseTask \/ CloseShutdown \/ CloseEnd)

FairSpec == Spec /\ Fairness

-----------------------------------------------------------------------------
(* Correctness.                                                            *)

Inside == {r \in Requests : pc[r] \notin {"out", "admit"}}

\* The sessions somebody can still give back.
Held       == {held[t] : t \in Threads} \ {NoSession}
Reachable  == InQueue(idle) \cup InQueue(keep) \cup Held

Distinct(q) == \A i, j \in 1..Len(q) : q[i] = q[j] => i = j

\* A session is in one place only: once in the idle queue, once among those
\* the evictor will put back, or with one thread.  Two threads with the same
\* session would run on one browser and one of them could close it.
SoleOwner ==
    /\ Distinct(idle) /\ Distinct(keep)
    /\ InQueue(idle) \cap InQueue(keep) = {}
    /\ \A t \in Threads : held[t] \notin InQueue(idle) \cup InQueue(keep)
    /\ \A t, u \in Threads : t # u /\ held[t] = held[u] => held[t] = NoSession

\* There are never more browsers than the pool may keep, the one being
\* closed included: this is why discard holds the monitor while it closes.
BrowserBound ==
    Cardinality({s \in Sessions : chromium[s] = "up"}) <= MaxSessions

\* The queue has room for every session that is on its way back, whoever
\* brings it: the discard after a failed offer is never needed.  Every variable
\* keeps its type.
OfferFits ==
    /\ TypeOK
    /\ \A r \in Requests : pc[r] = "offer" => Len(idle) < MaxSessions
    /\ Len(keep) + Len(idle) <= MaxSessions

\* Every way through withSession gives back the permit it took: the free
\* permits and the requests inside always add up.
PermitsConserved ==
    permits + Cardinality(Inside) = Capacity

\* "Otherwise the failed session keeps occupying a pool slot forever"
\* (BrowserSessionPool, acquire): while the pool is open, a session that
\* occupies a slot is idle or in the hands of a thread that gives it back.
NoSlotLeak ==
    ~closed => all \subseteq Reachable

\* A browser that is up is closed under the request that borrowed it only
\* by the shutdown of the application; an eviction or the discard of another
\* request never touches it.
ClosedByOwnerOnly ==
    [][\A r \in Requests :
          /\ pc[r] \in LentPoints
          /\ chromium[held[r]] = "up"
          /\ chromium'[held[r]] = "none"
          => closed]_vars

\* A request that is let in comes out again, with a result, an exception or
\* a 503: nobody waits for a session for ever, not for a crashed one either.
EveryRequestReturns ==
    \A r \in Requests : r \in Inside ~> r \notin Inside

\* "an idle server holds no Chromium" (BrowserSessionPool): when requests
\* stop coming, every browser is eventually gone, the sessions that were on
\* their way back during an eviction included.  Not so after a shutdown: a
\* request may restart the browser of a session close has just torn down.
IdleServerHoldsNoChromium ==
    <>[](\A r \in Requests : pc[r] = "out")
        => <>[](closed \/ \A s \in Sessions : chromium[s] # "up")

\* The promise of the pool to its callers, on the states of this module.
LendingState(r) ==
    CASE pc[r] \in {"out", "admit"} -> "out"
      [] pc[r] \in AcquirePoints -> "queued"
      [] pc[r] \in {"retire", "closing"} /\ then[r] = "poll" -> "queued"
      [] pc[r] \in LentPoints -> "lent"
      [] OTHER -> "served"

Lending == INSTANCE SessionLending
               WITH state <- [r \in Requests |-> LendingState(r)]

\* The pool implements the abstract lending of sessions: bounded admission,
\* at most MaxSessions requests with a session, one session per request.
LendsSessions == Lending!LendSpec
===============================================================================
