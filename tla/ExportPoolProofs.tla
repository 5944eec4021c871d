--------------------------- MODULE ExportPoolProofs ---------------------------
(***************************************************************************)
(* What holds of the session pool for every number of requests, sessions,  *)
(* waiters and crashes; that it implements SessionLending; and that no     *)
(* session occupies a slot of the open pool without being idle or in the   *)
(* hands of a thread.                                                      *)
(*                                                                         *)
(* IInv is the inductive invariant.  The properties alone are not          *)
(* inductive: that a session is in one place only (SoleOwner) needs that a *)
(* new object is nowhere yet (Owned) and that a thread has a session       *)
(* exactly at the points of the code that use one (Roles); the bound on    *)
(* the browsers needs that an object which still runs something is on the  *)
(* list or in the hands of the thread inside the monitor (Slots,           *)
(* MonitorHeld).                                                           *)
(***************************************************************************)
EXTENDS ExportPool, FiniteSetTheorems, TLAPS

\* Taking the head off a queue (poll) leaves the other elements.
LEMMA HeadAndTail ==
    ASSUME NEW S, NEW q \in Seq(S), q # <<>>
    PROVE  /\ Head(q) \in S
           /\ Tail(q) \in Seq(S)
           /\ Len(Tail(q)) = Len(q) - 1
           /\ InQueue(q) = InQueue(Tail(q)) \cup {Head(q)}
           /\ Distinct(q) => Distinct(Tail(q)) /\ Head(q) \notin InQueue(Tail(q))
<1>1. Len(q) \in Nat /\ Len(q) >= 1 /\ Head(q) = q[1]
  OBVIOUS
<1>2. Tail(q) \in Seq(S) /\ Len(Tail(q)) = Len(q) - 1
  OBVIOUS
<1>3. \A i \in 1..Len(Tail(q)) : Tail(q)[i] = q[i+1] /\ i+1 \in 1..Len(q)
  BY <1>1, <1>2
<1>4. \A i \in 1..Len(q) : i = 1 \/ (i - 1 \in 1..Len(Tail(q)) /\ q[i] = Tail(q)[i-1])
  BY <1>1, <1>2, <1>3
<1>5. InQueue(q) = InQueue(Tail(q)) \cup {Head(q)}
  <2>1. ASSUME NEW x \in InQueue(q)
        PROVE  x \in InQueue(Tail(q)) \cup {Head(q)}
    <3>1. PICK i \in 1..Len(q) : x = q[i]
      BY DEF InQueue
    <3>. QED
      BY <1>1, <1>4, <3>1 DEF InQueue
  <2>2. ASSUME NEW x \in InQueue(Tail(q)) \cup {Head(q)}
        PROVE  x \in InQueue(q)
    BY <1>1, <1>3 DEF InQueue
  <2>. QED
    BY <2>1, <2>2
<1>6. Distinct(q) => Distinct(Tail(q)) /\ Head(q) \notin InQueue(Tail(q))
  BY <1>1, <1>2, <1>3 DEF Distinct, InQueue
<1>7. Head(q) \in S
  BY <1>1
<1>. QED
  BY <1>2, <1>5, <1>6, <1>7

\* Offering a session to a queue adds it and nothing else.
LEMMA AppendOne ==
    ASSUME NEW S, NEW q \in Seq(S), NEW s \in S
    PROVE  /\ Append(q, s) \in Seq(S)
           /\ Len(Append(q, s)) = Len(q) + 1
           /\ InQueue(Append(q, s)) = InQueue(q) \cup {s}
           /\ Distinct(q) /\ s \notin InQueue(q) => Distinct(Append(q, s))
<1>1. /\ Append(q, s) \in Seq(S)
      /\ Len(q) \in Nat
      /\ Len(Append(q, s)) = Len(q) + 1
      /\ Append(q, s)[Len(q) + 1] = s
  OBVIOUS
<1>2. \A i \in 1..Len(q) : Append(q, s)[i] = q[i]
  OBVIOUS
<1>3. \A i \in 1..Len(Append(q, s)) : i \in 1..Len(q) \/ i = Len(q) + 1
  BY <1>1
<1>4. InQueue(Append(q, s)) = InQueue(q) \cup {s}
  BY <1>1, <1>2, <1>3 DEF InQueue
<1>5. Distinct(q) /\ s \notin InQueue(q) => Distinct(Append(q, s))
  BY <1>1, <1>2, <1>3 DEF Distinct, InQueue
<1>. QED
  BY <1>1, <1>4, <1>5

\* Nothing is in the empty queue.
LEMMA EmptyQueue == InQueue(<<>>) = {} /\ Distinct(<<>>) /\ Len(<<>>) = 0
  BY DEF InQueue, Distinct

\* A queue without repetitions has as many elements as its length says.
LEMMA DistinctCardinality ==
    ASSUME NEW S, NEW q \in Seq(S), Distinct(q)
    PROVE  IsFiniteSet(InQueue(q)) /\ Cardinality(InQueue(q)) = Len(q)
<1>1. Len(q) \in Nat
  OBVIOUS
<1>2. IsFiniteSet(1..Len(q)) /\ Cardinality(1..Len(q)) = Len(q)
  BY <1>1, FS_Interval
<1>. DEFINE f == [i \in 1..Len(q) |-> q[i]]
<1>3. ExistsBijection(1..Len(q), InQueue(q))
  <2>1. f \in Bijection(1..Len(q), InQueue(q))
    BY DEF Bijection, Injection, Surjection, IsInjective, InQueue, Distinct
  <2>. QED
    BY <2>1 DEF ExistsBijection
<1>. QED
  BY <1>1, <1>2, <1>3, FS_Bijection

-----------------------------------------------------------------------------
(* The inductive invariant.                                                *)

EvictorPoints == {"asleep", "scan", "putback", "retire", "closing"}
RequestPoints == Points \ {"asleep", "scan", "putback"}
HoldingPoints == {"start", "check", "retire", "closing"} \cup LentPoints

\* Each thread is at a point of its own code, and has a session exactly at
\* the points that use one.
Roles ==
    /\ pc[Evictor] \in EvictorPoints
    /\ then[Evictor] \in {"scan", "putback"}
    /\ \A r \in Requests : pc[r] \in RequestPoints /\ then[r] \in {"poll", "release"}
    /\ \A t \in Threads : held[t] # NoSession <=> pc[t] \in HoldingPoints

\* The monitor belongs to the thread that is inside discard or close.
MonitorHeld ==
    /\ \A t \in Threads : pc[t] = "closing" <=> monitor = t
    /\ monitor = Closer <=> phase = "draining"

\* The objects that were created and whose executor still runs something.
Live == {s \in Sessions : life[s] # "absent"}

\* The live objects occupy slots: on the list, or being closed by the thread
\* inside the monitor.  Browsers run in live objects only.
Slots ==
    /\ IsFiniteSet(Live) /\ Cardinality(Live) <= MaxSessions
    /\ all \subseteq Live
    /\ \A s \in Sessions : chromium[s] # "none" => s \in Live
    /\ \A t \in Threads : pc[t] = "closing" => held[t] \notin all
    /\ phase = "open" =>
          \A s \in Live : s \in all \/ \E t \in Threads : pc[t] = "closing" /\ held[t] = s
    /\ phase = "open" => \A s \in Sessions : life[s] # "shut"
    /\ tearing # NoSession => tearing \in Live /\ phase = "draining"

\* Every session is in one place, and a session in a place is live.
Owned == SoleOwner /\ Reachable \subseteq Live

IInv == TypeOK /\ Roles /\ MonitorHeld /\ Slots /\ Owned /\ PermitsConserved

\* Finitely many requests are inside the pool.
LEMMA InsideFinite == IsFiniteSet(Inside)
  BY RequestsAssumption, FS_Subset DEF Inside

\* Every step keeps the permits and the requests inside in balance.
LEMMA PermitsStep ==
    ASSUME IInv, [Next]_vars
    PROVE  PermitsConserved'
<1>. IsFiniteSet(Inside) /\ Cardinality(Inside) \in Nat
  BY InsideFinite, FS_CardinalityType
<1>. Capacity \in Nat /\ permits \in Nat
  BY MaxSessionsAssumption, MaxWaitersAssumption DEF IInv, TypeOK, Capacity
<1>1. ASSUME NEW r \in Requests, Arrive(r)
      PROVE  PermitsConserved'
  <2>1. Inside' = Inside /\ permits' = permits
    BY <1>1, ActorsAssumption
       DEF IInv, TypeOK, Roles, RequestPoints, EvictorPoints, AcquirePoints,
           LentPoints, Threads, Inside, Arrive, Goto, poolVars, sessionVars
  <2>. QED
    BY <2>1 DEF IInv, PermitsConserved
<1>2. ASSUME NEW r \in Requests, Admit(r)
      PROVE  PermitsConserved'
  <2>1. CASE permits > 0
    <3>1. r \notin Inside /\ Inside' = Inside \cup {r} /\ permits' = permits - 1
      BY <1>2, <2>1 DEF IInv, TypeOK, Threads, Inside, Admit, Goto
    <3>2. Cardinality(Inside') = Cardinality(Inside) + 1
      BY <3>1, FS_AddElement
    <3>. QED
      BY <3>1, <3>2 DEF IInv, PermitsConserved
  <2>2. CASE ~(permits > 0)
    <3>1. Inside' = Inside /\ permits' = permits
      BY <1>2, <2>2 DEF IInv, TypeOK, Threads, Inside, Admit, Goto
    <3>. QED
      BY <3>1 DEF IInv, PermitsConserved
  <2>. QED
    BY <2>1, <2>2
<1>3. ASSUME NEW r \in Requests, Poll(r)
      PROVE  PermitsConserved'
  <2>1. Inside' = Inside /\ permits' = permits
    BY <1>3, ActorsAssumption
       DEF IInv, TypeOK, Roles, RequestPoints, EvictorPoints, AcquirePoints,
           LentPoints, Threads, Inside, Poll, Goto, Take, sessionVars
  <2>. QED
    BY <2>1 DEF IInv, PermitsConserved
<1>4. ASSUME NEW r \in Requests, Create(r)
      PROVE  PermitsConserved'
  <2>1. Inside' = Inside /\ permits' = permits
    BY <1>4, ActorsAssumption
       DEF IInv, TypeOK, Roles, RequestPoints, EvictorPoints, AcquirePoints,
           LentPoints, Threads, Inside, Create, CanCreate, Goto, Take
  <2>. QED
    BY <2>1 DEF IInv, PermitsConserved
<1>5. ASSUME NEW r \in Requests, CreateRefused(r)
      PROVE  PermitsConserved'
  <2>1. Inside' = Inside /\ permits' = permits
    BY <1>5, ActorsAssumption
       DEF IInv, TypeOK, Roles, RequestPoints, EvictorPoints, AcquirePoints,
           LentPoints, Threads, Inside, CreateRefused, CanCreate, Goto, poolVars,
           sessionVars
  <2>. QED
    BY <2>1 DEF IInv, PermitsConserved
<1>6. ASSUME NEW r \in Requests, Start(r)
      PROVE  PermitsConserved'
  <2>1. Inside' = Inside /\ permits' = permits
    BY <1>6, ActorsAssumption
       DEF IInv, TypeOK, Roles, RequestPoints, EvictorPoints, AcquirePoints,
           LentPoints, Threads, Inside, Start, StartSucceeds, StartFails, Goto,
           Take, LetGo, RetireThen, poolVars
  <2>. QED
    BY <2>1 DEF IInv, PermitsConserved
<1>7. ASSUME NEW r \in Requests, Expire(r)
      PROVE  PermitsConserved'
  <2>1. Inside' = Inside /\ permits' = permits
    BY <1>7, ActorsAssumption
       DEF IInv, TypeOK, Roles, RequestPoints, EvictorPoints, AcquirePoints,
           LentPoints, Threads, Inside, Expire, poolVars, sessionVars
  <2>. QED
    BY <2>1 DEF IInv, PermitsConserved
<1>8. ASSUME NEW r \in Requests, Deadline(r)
      PROVE  PermitsConserved'
  <2>1. Inside' = Inside /\ permits' = permits
    BY <1>8, ActorsAssumption
       DEF IInv, TypeOK, Roles, RequestPoints, EvictorPoints, AcquirePoints,
           LentPoints, Threads, Inside, Deadline, Goto, poolVars, sessionVars
  <2>. QED
    BY <2>1 DEF IInv, PermitsConserved
<1>9. ASSUME NEW r \in Requests, Await(r)
      PROVE  PermitsConserved'
  <2>1. Inside' = Inside /\ permits' = permits
    BY <1>9, ActorsAssumption
       DEF IInv, TypeOK, Roles, RequestPoints, EvictorPoints, AcquirePoints,
           LentPoints, Threads, Inside, Await, Goto, Take, sessionVars
  <2>. QED
    BY <2>1 DEF IInv, PermitsConserved
<1>10. ASSUME NEW r \in Requests, Check(r)
      PROVE  PermitsConserved'
  <2>1. Inside' = Inside /\ permits' = permits
    BY <1>10, ActorsAssumption
       DEF IInv, TypeOK, Roles, RequestPoints, EvictorPoints, AcquirePoints,
           LentPoints, Threads, Inside, Check, IsHealthy, Goto, Take, RetireThen,
           poolVars
  <2>. QED
    BY <2>1 DEF IInv, PermitsConserved
<1>11. ASSUME NEW r \in Requests, Restart(r)
      PROVE  PermitsConserved'
  <2>1. Inside' = Inside /\ permits' = permits
    BY <1>11, ActorsAssumption
       DEF IInv, TypeOK, Roles, RequestPoints, EvictorPoints, AcquirePoints,
           LentPoints, Threads, Inside, Restart, StartSucceeds, StartFails, Goto,
           poolVars
  <2>. QED
    BY <2>1 DEF IInv, PermitsConserved
<1>12. ASSUME NEW r \in Requests, WorkEnds(r)
      PROVE  PermitsConserved'
  <2>1. Inside' = Inside /\ permits' = permits
    BY <1>12, ActorsAssumption
       DEF IInv, TypeOK, Roles, RequestPoints, EvictorPoints, AcquirePoints,
           LentPoints, Threads, Inside, WorkEnds, Goto, poolVars, sessionVars
  <2>. QED
    BY <2>1 DEF IInv, PermitsConserved
<1>13. ASSUME NEW r \in Requests, Return(r)
      PROVE  PermitsConserved'
  <2>1. Inside' = Inside /\ permits' = permits
    BY <1>13, ActorsAssumption
       DEF IInv, TypeOK, Roles, RequestPoints, EvictorPoints, AcquirePoints,
           LentPoints, Threads, Inside, Return, Goto, Take, RetireThen, poolVars
  <2>. QED
    BY <2>1 DEF IInv, PermitsConserved
<1>14. ASSUME NEW r \in Requests, Probe(r)
      PROVE  PermitsConserved'
  <2>1. Inside' = Inside /\ permits' = permits
    BY <1>14, ActorsAssumption
       DEF IInv, TypeOK, Roles, RequestPoints, EvictorPoints, AcquirePoints,
           LentPoints, Threads, Inside, Probe, IsHealthy, Goto, Take, RetireThen,
           poolVars, sessionVars
  <2>. QED
    BY <2>1 DEF IInv, PermitsConserved
<1>15. ASSUME NEW r \in Requests, Offer(r)
      PROVE  PermitsConserved'
  <2>1. Inside' = Inside /\ permits' = permits
    BY <1>15, ActorsAssumption
       DEF IInv, TypeOK, Roles, RequestPoints, EvictorPoints, AcquirePoints,
           LentPoints, Threads, Inside, Offer, Goto, Take, LetGo, RetireThen,
           sessionVars
  <2>. QED
    BY <2>1 DEF IInv, PermitsConserved
<1>16. ASSUME NEW r \in Requests, Release(r)
      PROVE  PermitsConserved'
  <2>1. r \in Inside /\ Inside' = Inside \ {r} /\ permits' = permits + 1
    BY <1>16 DEF IInv, TypeOK, Threads, Inside, Release, Goto
  <2>2. Cardinality(Inside') = Cardinality(Inside) - 1
    BY <2>1, FS_RemoveElement
  <2>. QED
    BY <2>1, <2>2 DEF IInv, PermitsConserved
<1>17. ASSUME NEW t \in Threads, DiscardEnter(t)
      PROVE  PermitsConserved'
  <2>1. Inside' = Inside /\ permits' = permits
    BY <1>17, ActorsAssumption
       DEF IInv, TypeOK, Roles, RequestPoints, EvictorPoints, AcquirePoints,
           LentPoints, Threads, Inside, DiscardEnter, Goto, sessionVars
  <2>. QED
    BY <2>1 DEF IInv, PermitsConserved
<1>18. ASSUME NEW t \in Threads, DiscardLeave(t)
      PROVE  PermitsConserved'
  <2>1. Inside' = Inside /\ permits' = permits
    BY <1>18, ActorsAssumption
       DEF IInv, TypeOK, Roles, RequestPoints, EvictorPoints, AcquirePoints,
           LentPoints, Threads, Inside, DiscardLeave, Goto, Take, LetGo
  <2>. QED
    BY <2>1 DEF IInv, PermitsConserved
<1>19. ASSUME EvictWake
      PROVE  PermitsConserved'
  <2>1. Inside' = Inside /\ permits' = permits
    BY <1>19, ActorsAssumption
       DEF IInv, TypeOK, Roles, RequestPoints, EvictorPoints, AcquirePoints,
           LentPoints, Threads, Inside, EvictWake, Goto, poolVars, sessionVars
  <2>. QED
    BY <2>1 DEF IInv, PermitsConserved
<1>20. ASSUME EvictScan
      PROVE  PermitsConserved'
  <2>1. Inside' = Inside /\ permits' = permits
    BY <1>20, ActorsAssumption
       DEF IInv, TypeOK, Roles, RequestPoints, EvictorPoints, AcquirePoints,
           LentPoints, Threads, Inside, EvictScan, Goto, Take, RetireThen,
           sessionVars
  <2>. QED
    BY <2>1 DEF IInv, PermitsConserved
<1>21. ASSUME EvictPutBack
      PROVE  PermitsConserved'
  <2>1. Inside' = Inside /\ permits' = permits
    BY <1>21, ActorsAssumption
       DEF IInv, TypeOK, Roles, RequestPoints, EvictorPoints, AcquirePoints,
           LentPoints, Threads, Inside, EvictPutBack, Goto, Take, RetireThen,
           sessionVars
  <2>. QED
    BY <2>1 DEF IInv, PermitsConserved
<1>22. ASSUME CloseBegin
      PROVE  PermitsConserved'
  <2>1. Inside' = Inside /\ permits' = permits
    BY <1>22, ActorsAssumption
       DEF IInv, TypeOK, Roles, RequestPoints, EvictorPoints, AcquirePoints,
           LentPoints, Threads, Inside, CloseBegin, threadVars, sessionVars
  <2>. QED
    BY <2>1 DEF IInv, PermitsConserved
<1>23. ASSUME CloseTask
      PROVE  PermitsConserved'
  <2>1. Inside' = Inside /\ permits' = permits
    BY <1>23, ActorsAssumption
       DEF IInv, TypeOK, Roles, RequestPoints, EvictorPoints, AcquirePoints,
           LentPoints, Threads, Inside, CloseTask, poolVars, threadVars
  <2>. QED
    BY <2>1 DEF IInv, PermitsConserved
<1>24. ASSUME CloseShutdown
      PROVE  PermitsConserved'
  <2>1. Inside' = Inside /\ permits' = permits
    BY <1>24, ActorsAssumption
       DEF IInv, TypeOK, Roles, RequestPoints, EvictorPoints, AcquirePoints,
           LentPoints, Threads, Inside, CloseShutdown, poolVars, threadVars
  <2>. QED
    BY <2>1 DEF IInv, PermitsConserved
<1>25. ASSUME CloseEnd
      PROVE  PermitsConserved'
  <2>1. Inside' = Inside /\ permits' = permits
    BY <1>25, ActorsAssumption
       DEF IInv, TypeOK, Roles, RequestPoints, EvictorPoints, AcquirePoints,
           LentPoints, Threads, Inside, CloseEnd, threadVars, sessionVars
  <2>. QED
    BY <2>1 DEF IInv, PermitsConserved
<1>26. ASSUME Crash
      PROVE  PermitsConserved'
  <2>1. Inside' = Inside /\ permits' = permits
    BY <1>26, ActorsAssumption
       DEF IInv, TypeOK, Roles, RequestPoints, EvictorPoints, AcquirePoints,
           LentPoints, Threads, Inside, Crash, poolVars, threadVars
  <2>. QED
    BY <2>1 DEF IInv, PermitsConserved
<1>27. ASSUME Age
      PROVE  PermitsConserved'
  <2>1. Inside' = Inside /\ permits' = permits
    BY <1>27, ActorsAssumption
       DEF IInv, TypeOK, Roles, RequestPoints, EvictorPoints, AcquirePoints,
           LentPoints, Threads, Inside, Age, poolVars, threadVars
  <2>. QED
    BY <2>1 DEF IInv, PermitsConserved
<1>28. ASSUME Terminated
      PROVE  PermitsConserved'
  <2>1. Inside' = Inside /\ permits' = permits
    BY <1>28, ActorsAssumption
       DEF IInv, TypeOK, Roles, RequestPoints, EvictorPoints, AcquirePoints,
           LentPoints, Threads, Inside, Terminated, poolVars, threadVars,
           sessionVars, vars
  <2>. QED
    BY <2>1 DEF IInv, PermitsConserved
<1>29. CASE UNCHANGED vars
  BY <1>29 DEF IInv, PermitsConserved, Inside, vars, poolVars, threadVars
<1>. QED
  BY <1>1, <1>2, <1>3, <1>4, <1>5, <1>6, <1>7, <1>8, <1>9, <1>10, <1>11, <1>12,
     <1>13, <1>14, <1>15, <1>16, <1>17, <1>18, <1>19, <1>20, <1>21, <1>22, <1>23,
     <1>24, <1>25, <1>26, <1>27, <1>28, <1>29
     DEF Next, RequestStep, DiscardStep, EvictStep, CloseStep

\* A thread that moves to a point of its own code, with a session exactly
\* where that point needs one, keeps Roles.
LEMMA RolesOfStep ==
    ASSUME TypeOK, Roles, NEW t \in Threads, NEW p, NEW h, NEW n,
           pc' = [pc EXCEPT ![t] = p],
           held' = [held EXCEPT ![t] = h],
           then' = [then EXCEPT ![t] = n],
           t = Evictor => p \in EvictorPoints /\ n \in {"scan", "putback"},
           t \in Requests => p \in RequestPoints /\ n \in {"poll", "release"},
           h # NoSession <=> p \in HoldingPoints
    PROVE  Roles'
<1>1. /\ pc'[t] = p /\ held'[t] = h /\ then'[t] = n
      /\ \A u \in Threads \ {t} : pc'[u] = pc[u] /\ held'[u] = held[u] /\ then'[u] = then[u]
  BY DEF TypeOK
<1>2. Evictor \in Threads /\ \A r \in Requests : r \in Threads /\ r # Evictor
  BY ActorsAssumption DEF Threads
<1>3. pc'[Evictor] \in EvictorPoints /\ then'[Evictor] \in {"scan", "putback"}
  BY <1>1, <1>2 DEF Roles
<1>4. ASSUME NEW r \in Requests
      PROVE  pc'[r] \in RequestPoints /\ then'[r] \in {"poll", "release"}
  BY <1>1, <1>2 DEF Roles
<1>5. ASSUME NEW u \in Threads
      PROVE  held'[u] # NoSession <=> pc'[u] \in HoldingPoints
  <2>1. CASE u = t
    BY <1>1, <2>1, Zenon
  <2>2. CASE u # t
    <3>1. held'[u] = held[u] /\ pc'[u] = pc[u]
      BY <1>1, <2>2
    <3>. QED
      BY <3>1, Zenon DEF Roles
  <2>. QED
    BY <2>1, <2>2
<1>. QED
  BY <1>3, <1>4, <1>5, Zenon DEF Roles

\* Every step keeps Roles.
LEMMA RolesStep ==
    ASSUME IInv, [Next]_vars
    PROVE  Roles'
<1>0. \A r \in Requests : r \in Threads /\ r # Evictor /\ then[r] \in {"poll", "release"}
  BY ActorsAssumption DEF IInv, Threads, Roles
<1>1. ASSUME NEW r \in Requests, Arrive(r)
      PROVE  Roles'
  BY <1>1, ActorsAssumption, NoSessionAssumption
     DEF IInv, Arrive, TypeOK, Threads, Points, AcquirePoints, LentPoints, Roles,
         EvictorPoints, RequestPoints, HoldingPoints, Goto, poolVars, sessionVars
<1>2. ASSUME NEW r \in Requests, Admit(r)
      PROVE  Roles'
  <2>1. CASE permits > 0
    <3>1. /\ pc' = [pc EXCEPT ![r] = "poll"]
          /\ held' = [held EXCEPT ![r] = held[r]]
          /\ then' = [then EXCEPT ![r] = then[r]]
      BY <1>0, <1>2, <2>1 DEF IInv, TypeOK, Threads, Admit, Goto, sessionVars
    <3>2. held[r] # NoSession <=> "poll" \in HoldingPoints
      BY <1>0, <1>2, <2>1, NoSessionAssumption
         DEF IInv, TypeOK, Roles, Threads, Admit, RequestPoints, HoldingPoints,
             Points, AcquirePoints, LentPoints
    <3>. QED
      BY <1>0, <3>1, <3>2, RolesOfStep
         DEF IInv, RequestPoints, HoldingPoints, Points, AcquirePoints, LentPoints
  <2>2. CASE ~(permits > 0)
    <3>1. /\ pc' = [pc EXCEPT ![r] = "out"]
          /\ held' = [held EXCEPT ![r] = held[r]]
          /\ then' = [then EXCEPT ![r] = then[r]]
      BY <1>0, <1>2, <2>2 DEF IInv, TypeOK, Threads, Admit, Goto, sessionVars
    <3>2. held[r] # NoSession <=> "out" \in HoldingPoints
      BY <1>0, <1>2, <2>2, NoSessionAssumption
         DEF IInv, TypeOK, Roles, Threads, Admit, RequestPoints, HoldingPoints,
             Points, AcquirePoints, LentPoints
    <3>. QED
      BY <1>0, <3>1, <3>2, RolesOfStep
         DEF IInv, RequestPoints, HoldingPoints, Points, AcquirePoints, LentPoints
  <2>. QED
    BY <2>1, <2>2
<1>3. ASSUME NEW r \in Requests, Poll(r)
      PROVE  Roles'
  <2>1. CASE idle = <<>>
    <3>1. /\ pc' = [pc EXCEPT ![r] = "create"]
          /\ held' = [held EXCEPT ![r] = held[r]]
          /\ then' = [then EXCEPT ![r] = then[r]]
      BY <1>0, <1>3, <2>1 DEF IInv, TypeOK, Threads, Poll, Goto, Take, sessionVars
    <3>2. held[r] # NoSession <=> "create" \in HoldingPoints
      BY <1>0, <1>3, <2>1, NoSessionAssumption, HeadAndTail
         DEF IInv, TypeOK, Roles, Threads, Poll, RequestPoints, HoldingPoints,
             Points, AcquirePoints, LentPoints
    <3>. QED
      BY <1>0, <3>1, <3>2, RolesOfStep
         DEF IInv, RequestPoints, HoldingPoints, Points, AcquirePoints, LentPoints
  <2>2. CASE ~(idle = <<>>)
    <3>1. /\ pc' = [pc EXCEPT ![r] = "check"]
          /\ held' = [held EXCEPT ![r] = Head(idle)]
          /\ then' = [then EXCEPT ![r] = then[r]]
      BY <1>0, <1>3, <2>2 DEF IInv, TypeOK, Threads, Poll, Goto, Take, sessionVars
    <3>2. Head(idle) # NoSession <=> "check" \in HoldingPoints
      BY <1>0, <1>3, <2>2, NoSessionAssumption, HeadAndTail
         DEF IInv, TypeOK, Roles, Threads, Poll, RequestPoints, HoldingPoints,
             Points, AcquirePoints, LentPoints
    <3>. QED
      BY <1>0, <3>1, <3>2, RolesOfStep
         DEF IInv, RequestPoints, HoldingPoints, Points, AcquirePoints, LentPoints
  <2>. QED
    BY <2>1, <2>2
<1>4. ASSUME NEW r \in Requests, Create(r)
      PROVE  Roles'
  BY <1>4, ActorsAssumption, NoSessionAssumption
     DEF IInv, Create, CanCreate, TypeOK, Threads, Points, AcquirePoints,
         LentPoints, Roles, EvictorPoints, RequestPoints, HoldingPoints, Goto, Take
<1>5. ASSUME NEW r \in Requests, CreateRefused(r)
      PROVE  Roles'
  BY <1>5, ActorsAssumption, NoSessionAssumption
     DEF IInv, CreateRefused, CanCreate, TypeOK, Threads, Points, AcquirePoints,
         LentPoints, Roles, EvictorPoints, RequestPoints, HoldingPoints, Goto,
         poolVars, sessionVars
<1>6. ASSUME NEW r \in Requests, Start(r)
      PROVE  Roles'
  BY <1>6, ActorsAssumption, NoSessionAssumption
     DEF IInv, Start, StartSucceeds, StartFails, TypeOK, Threads, Points,
         AcquirePoints, LentPoints, Roles, EvictorPoints, RequestPoints,
         HoldingPoints, Goto, Take, LetGo, RetireThen, poolVars
<1>7. ASSUME NEW r \in Requests, Expire(r)
      PROVE  Roles'
  BY <1>7, ActorsAssumption, NoSessionAssumption
     DEF IInv, Expire, TypeOK, Threads, Points, AcquirePoints, LentPoints, Roles,
         EvictorPoints, RequestPoints, HoldingPoints, poolVars, sessionVars
<1>8. ASSUME NEW r \in Requests, Deadline(r)
      PROVE  Roles'
  BY <1>8, ActorsAssumption, NoSessionAssumption
     DEF IInv, Deadline, TypeOK, Threads, Points, AcquirePoints, LentPoints, Roles,
         EvictorPoints, RequestPoints, HoldingPoints, Goto, poolVars, sessionVars
<1>9. ASSUME NEW r \in Requests, Await(r)
      PROVE  Roles'
  <2>1. CASE idle = <<>>
    <3>1. /\ pc' = [pc EXCEPT ![r] = "poll"]
          /\ held' = [held EXCEPT ![r] = held[r]]
          /\ then' = [then EXCEPT ![r] = then[r]]
      BY <1>0, <1>9, <2>1 DEF IInv, TypeOK, Threads, Await, Goto, Take, sessionVars
    <3>2. held[r] # NoSession <=> "poll" \in HoldingPoints
      BY <1>0, <1>9, <2>1, NoSessionAssumption, HeadAndTail
         DEF IInv, TypeOK, Roles, Threads, Await, RequestPoints, HoldingPoints,
             Points, AcquirePoints, LentPoints
    <3>. QED
      BY <1>0, <3>1, <3>2, RolesOfStep
         DEF IInv, RequestPoints, HoldingPoints, Points, AcquirePoints, LentPoints
  <2>2. CASE ~(idle = <<>>)
    <3>1. /\ pc' = [pc EXCEPT ![r] = "check"]
          /\ held' = [held EXCEPT ![r] = Head(idle)]
          /\ then' = [then EXCEPT ![r] = then[r]]
      BY <1>0, <1>9, <2>2 DEF IInv, TypeOK, Threads, Await, Goto, Take, sessionVars
    <3>2. Head(idle) # NoSession <=> "check" \in HoldingPoints
      BY <1>0, <1>9, <2>2, NoSessionAssumption, HeadAndTail
         DEF IInv, TypeOK, Roles, Threads, Await, RequestPoints, HoldingPoints,
             Points, AcquirePoints, LentPoints
    <3>. QED
      BY <1>0, <3>1, <3>2, RolesOfStep
         DEF IInv, RequestPoints, HoldingPoints, Points, AcquirePoints, LentPoints
  <2>. QED
    BY <2>1, <2>2
<1>10. ASSUME NEW r \in Requests, Check(r)
      PROVE  Roles'
  <2>1. CASE IsHealthy(held[r])
    <3>1. /\ pc' = [pc EXCEPT ![r] = "restart"]
          /\ held' = [held EXCEPT ![r] = held[r]]
          /\ then' = [then EXCEPT ![r] = then[r]]
      BY <1>0, <1>10, <2>1
         DEF IInv, TypeOK, Threads, Check, IsHealthy, Goto, Take, RetireThen,
             poolVars
    <3>2. held[r] # NoSession <=> "restart" \in HoldingPoints
      BY <1>0, <1>10, <2>1, NoSessionAssumption
         DEF IInv, TypeOK, Roles, Threads, Check, IsHealthy, RequestPoints,
             HoldingPoints, Points, AcquirePoints, LentPoints
    <3>. QED
      BY <1>0, <3>1, <3>2, RolesOfStep
         DEF IInv, RequestPoints, HoldingPoints, Points, AcquirePoints, LentPoints
  <2>2. CASE ~(IsHealthy(held[r]))
    <3>1. /\ pc' = [pc EXCEPT ![r] = "retire"]
          /\ held' = [held EXCEPT ![r] = held[r]]
          /\ then' = [then EXCEPT ![r] = "poll"]
      BY <1>0, <1>10, <2>2
         DEF IInv, TypeOK, Threads, Check, IsHealthy, Goto, Take, RetireThen,
             poolVars
    <3>2. held[r] # NoSession <=> "retire" \in HoldingPoints
      BY <1>0, <1>10, <2>2, NoSessionAssumption
         DEF IInv, TypeOK, Roles, Threads, Check, IsHealthy, RequestPoints,
             HoldingPoints, Points, AcquirePoints, LentPoints
    <3>. QED
      BY <1>0, <3>1, <3>2, RolesOfStep
         DEF IInv, RequestPoints, HoldingPoints, Points, AcquirePoints, LentPoints
  <2>. QED
    BY <2>1, <2>2
<1>11. ASSUME NEW r \in Requests, Restart(r)
      PROVE  Roles'
  <2>1. CASE StartSucceeds(held[r]) /\ Goto(r, "work")
    <3>1. /\ pc' = [pc EXCEPT ![r] = "work"]
          /\ held' = [held EXCEPT ![r] = held[r]]
          /\ then' = [then EXCEPT ![r] = then[r]]
      BY <1>0, <1>11, <2>1
         DEF IInv, TypeOK, Threads, Restart, StartSucceeds, StartFails, Goto,
             poolVars
    <3>2. held[r] # NoSession <=> "work" \in HoldingPoints
      BY <1>0, <1>11, <2>1, NoSessionAssumption
         DEF IInv, TypeOK, Roles, Threads, Restart, StartSucceeds, StartFails,
             RequestPoints, HoldingPoints, Points, AcquirePoints, LentPoints
    <3>. QED
      BY <1>0, <3>1, <3>2, RolesOfStep
         DEF IInv, RequestPoints, HoldingPoints, Points, AcquirePoints, LentPoints
  <2>2. CASE ~(StartSucceeds(held[r]) /\ Goto(r, "work"))
    <3>1. /\ pc' = [pc EXCEPT ![r] = "return"]
          /\ held' = [held EXCEPT ![r] = held[r]]
          /\ then' = [then EXCEPT ![r] = then[r]]
      BY <1>0, <1>11, <2>2
         DEF IInv, TypeOK, Threads, Restart, StartSucceeds, StartFails, Goto,
             poolVars
    <3>2. held[r] # NoSession <=> "return" \in HoldingPoints
      BY <1>0, <1>11, <2>2, NoSessionAssumption
         DEF IInv, TypeOK, Roles, Threads, Restart, StartSucceeds, StartFails,
             RequestPoints, HoldingPoints, Points, AcquirePoints, LentPoints
    <3>. QED
      BY <1>0, <3>1, <3>2, RolesOfStep
         DEF IInv, RequestPoints, HoldingPoints, Points, AcquirePoints, LentPoints
  <2>. QED
    BY <2>1, <2>2
<1>12. ASSUME NEW r \in Requests, WorkEnds(r)
      PROVE  Roles'
  BY <1>12, ActorsAssumption, NoSessionAssumption
     DEF IInv, WorkEnds, TypeOK, Threads, Points, AcquirePoints, LentPoints, Roles,
         EvictorPoints, RequestPoints, HoldingPoints, Goto, poolVars, sessionVars
<1>13. ASSUME NEW r \in Requests, Return(r)
      PROVE  Roles'
  BY <1>13, ActorsAssumption, NoSessionAssumption
     DEF IInv, Return, TypeOK, Threads, Points, AcquirePoints, LentPoints, Roles,
         EvictorPoints, RequestPoints, HoldingPoints, Goto, Take, RetireThen,
         poolVars
<1>14. ASSUME NEW r \in Requests, Probe(r)
      PROVE  Roles'
  <2>1. CASE IsHealthy(held[r])
    <3>1. /\ pc' = [pc EXCEPT ![r] = "offer"]
          /\ held' = [held EXCEPT ![r] = held[r]]
          /\ then' = [then EXCEPT ![r] = then[r]]
      BY <1>0, <1>14, <2>1
         DEF IInv, TypeOK, Threads, Probe, IsHealthy, Goto, Take, RetireThen,
             poolVars, sessionVars
    <3>2. held[r] # NoSession <=> "offer" \in HoldingPoints
      BY <1>0, <1>14, <2>1, NoSessionAssumption
         DEF IInv, TypeOK, Roles, Threads, Probe, IsHealthy, RequestPoints,
             HoldingPoints, Points, AcquirePoints, LentPoints
    <3>. QED
      BY <1>0, <3>1, <3>2, RolesOfStep
         DEF IInv, RequestPoints, HoldingPoints, Points, AcquirePoints, LentPoints
  <2>2. CASE ~(IsHealthy(held[r]))
    <3>1. /\ pc' = [pc EXCEPT ![r] = "retire"]
          /\ held' = [held EXCEPT ![r] = held[r]]
          /\ then' = [then EXCEPT ![r] = "release"]
      BY <1>0, <1>14, <2>2
         DEF IInv, TypeOK, Threads, Probe, IsHealthy, Goto, Take, RetireThen,
             poolVars, sessionVars
    <3>2. held[r] # NoSession <=> "retire" \in HoldingPoints
      BY <1>0, <1>14, <2>2, NoSessionAssumption
         DEF IInv, TypeOK, Roles, Threads, Probe, IsHealthy, RequestPoints,
             HoldingPoints, Points, AcquirePoints, LentPoints
    <3>. QED
      BY <1>0, <3>1, <3>2, RolesOfStep
         DEF IInv, RequestPoints, HoldingPoints, Points, AcquirePoints, LentPoints
  <2>. QED
    BY <2>1, <2>2
<1>15. ASSUME NEW r \in Requests, Offer(r)
      PROVE  Roles'
  <2>1. CASE Len(idle) < MaxSessions
    <3>1. /\ pc' = [pc EXCEPT ![r] = "release"]
          /\ held' = [held EXCEPT ![r] = NoSession]
          /\ then' = [then EXCEPT ![r] = then[r]]
      BY <1>0, <1>15, <2>1
         DEF IInv, TypeOK, Threads, Offer, Goto, Take, LetGo, RetireThen,
             sessionVars
    <3>2. NoSession # NoSession <=> "release" \in HoldingPoints
      BY <1>0, <1>15, <2>1, NoSessionAssumption
         DEF IInv, TypeOK, Roles, Threads, Offer, RequestPoints, HoldingPoints,
             Points, AcquirePoints, LentPoints
    <3>. QED
      BY <1>0, <3>1, <3>2, RolesOfStep
         DEF IInv, RequestPoints, HoldingPoints, Points, AcquirePoints, LentPoints
  <2>2. CASE ~(Len(idle) < MaxSessions)
    <3>1. /\ pc' = [pc EXCEPT ![r] = "retire"]
          /\ held' = [held EXCEPT ![r] = held[r]]
          /\ then' = [then EXCEPT ![r] = "release"]
      BY <1>0, <1>15, <2>2
         DEF IInv, TypeOK, Threads, Offer, Goto, Take, LetGo, RetireThen,
             sessionVars
    <3>2. held[r] # NoSession <=> "retire" \in HoldingPoints
      BY <1>0, <1>15, <2>2, NoSessionAssumption
         DEF IInv, TypeOK, Roles, Threads, Offer, RequestPoints, HoldingPoints,
             Points, AcquirePoints, LentPoints
    <3>. QED
      BY <1>0, <3>1, <3>2, RolesOfStep
         DEF IInv, RequestPoints, HoldingPoints, Points, AcquirePoints, LentPoints
  <2>. QED
    BY <2>1, <2>2
<1>16. ASSUME NEW r \in Requests, Release(r)
      PROVE  Roles'
  BY <1>16, ActorsAssumption, NoSessionAssumption
     DEF IInv, Release, TypeOK, Threads, Points, AcquirePoints, LentPoints, Roles,
         EvictorPoints, RequestPoints, HoldingPoints, Goto, sessionVars
<1>17. ASSUME NEW t \in Threads, DiscardEnter(t)
      PROVE  Roles'
  BY <1>17, ActorsAssumption, NoSessionAssumption
     DEF IInv, DiscardEnter, TypeOK, Threads, Points, AcquirePoints, LentPoints,
         Roles, EvictorPoints, RequestPoints, HoldingPoints, Goto, sessionVars
<1>18. ASSUME NEW t \in Threads, DiscardLeave(t)
      PROVE  Roles'
  BY <1>18, ActorsAssumption, NoSessionAssumption
     DEF IInv, DiscardLeave, TypeOK, Threads, Points, AcquirePoints, LentPoints,
         Roles, EvictorPoints, RequestPoints, HoldingPoints, Goto, Take, LetGo
<1>19. ASSUME EvictWake
      PROVE  Roles'
  BY <1>19, ActorsAssumption, NoSessionAssumption
     DEF IInv, EvictWake, TypeOK, Threads, Points, AcquirePoints, LentPoints, Roles,
         EvictorPoints, RequestPoints, HoldingPoints, Goto, poolVars, sessionVars
<1>20. ASSUME EvictScan
      PROVE  Roles'
  BY <1>20, ActorsAssumption, NoSessionAssumption
     DEF IInv, EvictScan, TypeOK, Threads, Points, AcquirePoints, LentPoints, Roles,
         EvictorPoints, RequestPoints, HoldingPoints, Goto, Take, RetireThen,
         sessionVars
<1>21. ASSUME EvictPutBack
      PROVE  Roles'
  BY <1>21, ActorsAssumption, NoSessionAssumption
     DEF IInv, EvictPutBack, TypeOK, Threads, Points, AcquirePoints, LentPoints,
         Roles, EvictorPoints, RequestPoints, HoldingPoints, Goto, Take, RetireThen,
         sessionVars
<1>22. ASSUME CloseBegin
      PROVE  Roles'
  BY <1>22, ActorsAssumption, NoSessionAssumption
     DEF IInv, CloseBegin, TypeOK, Threads, Points, AcquirePoints, LentPoints,
         Roles, EvictorPoints, RequestPoints, HoldingPoints, threadVars, sessionVars
<1>23. ASSUME CloseTask
      PROVE  Roles'
  BY <1>23, ActorsAssumption, NoSessionAssumption
     DEF IInv, CloseTask, TypeOK, Threads, Points, AcquirePoints, LentPoints, Roles,
         EvictorPoints, RequestPoints, HoldingPoints, poolVars, threadVars
<1>24. ASSUME CloseShutdown
      PROVE  Roles'
  BY <1>24, ActorsAssumption, NoSessionAssumption
     DEF IInv, CloseShutdown, TypeOK, Threads, Points, AcquirePoints, LentPoints,
         Roles, EvictorPoints, RequestPoints, HoldingPoints, poolVars, threadVars
<1>25. ASSUME CloseEnd
      PROVE  Roles'
  BY <1>25, ActorsAssumption, NoSessionAssumption
     DEF IInv, CloseEnd, TypeOK, Threads, Points, AcquirePoints, LentPoints, Roles,
         EvictorPoints, RequestPoints, HoldingPoints, threadVars, sessionVars
<1>26. ASSUME Crash
      PROVE  Roles'
  BY <1>26, ActorsAssumption, NoSessionAssumption
     DEF IInv, Crash, TypeOK, Threads, Points, AcquirePoints, LentPoints, Roles,
         EvictorPoints, RequestPoints, HoldingPoints, poolVars, threadVars
<1>27. ASSUME Age
      PROVE  Roles'
  BY <1>27, ActorsAssumption, NoSessionAssumption
     DEF IInv, Age, TypeOK, Threads, Points, AcquirePoints, LentPoints, Roles,
         EvictorPoints, RequestPoints, HoldingPoints, poolVars, threadVars
<1>28. ASSUME Terminated
      PROVE  Roles'
  BY <1>28, ActorsAssumption, NoSessionAssumption
     DEF IInv, Terminated, TypeOK, Threads, Points, AcquirePoints, LentPoints,
         Roles, EvictorPoints, RequestPoints, HoldingPoints, poolVars, threadVars,
         sessionVars, vars
<1>29. CASE UNCHANGED vars
  BY <1>29, ActorsAssumption, NoSessionAssumption
     DEF IInv, vars, TypeOK, Threads, Points, AcquirePoints, LentPoints, Roles,
         EvictorPoints, RequestPoints, HoldingPoints, Goto, Take, LetGo, RetireThen,
         poolVars, threadVars, sessionVars
<1>. QED
  BY <1>1, <1>2, <1>3, <1>4, <1>5, <1>6, <1>7, <1>8, <1>9, <1>10, <1>11, <1>12,
     <1>13, <1>14, <1>15, <1>16, <1>17, <1>18, <1>19, <1>20, <1>21, <1>22, <1>23,
     <1>24, <1>25, <1>26, <1>27, <1>28, <1>29
     DEF Next, RequestStep, DiscardStep, EvictStep, CloseStep

\* Every step keeps MonitorHeld.
LEMMA MonitorStep ==
    ASSUME IInv, [Next]_vars
    PROVE  MonitorHeld'
<1>1. ASSUME NEW r \in Requests, Arrive(r)
      PROVE  MonitorHeld'
  BY ActorsAssumption, <1>1
     DEF IInv, Arrive, TypeOK, Threads, Roles, MonitorHeld, EvictorPoints,
         RequestPoints, Goto, poolVars, sessionVars
<1>2. ASSUME NEW r \in Requests, Admit(r)
      PROVE  MonitorHeld'
  BY ActorsAssumption, <1>2
     DEF IInv, Admit, TypeOK, Threads, Roles, MonitorHeld, EvictorPoints,
         RequestPoints, Goto, sessionVars
<1>3. ASSUME NEW r \in Requests, Poll(r)
      PROVE  MonitorHeld'
  BY ActorsAssumption, <1>3
     DEF IInv, Poll, TypeOK, Threads, Roles, MonitorHeld, EvictorPoints,
         RequestPoints, Goto, Take, sessionVars
<1>4. ASSUME NEW r \in Requests, Create(r)
      PROVE  MonitorHeld'
  BY ActorsAssumption, <1>4
     DEF IInv, Create, CanCreate, TypeOK, Threads, Roles, MonitorHeld,
         EvictorPoints, RequestPoints, Goto, Take
<1>5. ASSUME NEW r \in Requests, CreateRefused(r)
      PROVE  MonitorHeld'
  BY ActorsAssumption, <1>5
     DEF IInv, CreateRefused, CanCreate, TypeOK, Threads, Roles, MonitorHeld,
         EvictorPoints, RequestPoints, Goto, poolVars, sessionVars
<1>6. ASSUME NEW r \in Requests, Start(r)
      PROVE  MonitorHeld'
  BY ActorsAssumption, <1>6
     DEF IInv, Start, StartSucceeds, StartFails, TypeOK, Threads, Roles,
         MonitorHeld, EvictorPoints, RequestPoints, Goto, Take, LetGo, RetireThen,
         poolVars
<1>7. ASSUME NEW r \in Requests, Expire(r)
      PROVE  MonitorHeld'
  BY ActorsAssumption, <1>7
     DEF IInv, Expire, TypeOK, Threads, Roles, MonitorHeld, EvictorPoints,
         RequestPoints, poolVars, sessionVars
<1>8. ASSUME NEW r \in Requests, Deadline(r)
      PROVE  MonitorHeld'
  BY ActorsAssumption, <1>8
     DEF IInv, Deadline, TypeOK, Threads, Roles, MonitorHeld, EvictorPoints,
         RequestPoints, Goto, poolVars, sessionVars
<1>9. ASSUME NEW r \in Requests, Await(r)
      PROVE  MonitorHeld'
  BY ActorsAssumption, <1>9
     DEF IInv, Await, TypeOK, Threads, Roles, MonitorHeld, EvictorPoints,
         RequestPoints, Goto, Take, sessionVars
<1>10. ASSUME NEW r \in Requests, Check(r)
      PROVE  MonitorHeld'
  BY ActorsAssumption, <1>10
     DEF IInv, Check, IsHealthy, TypeOK, Threads, Roles, MonitorHeld, EvictorPoints,
         RequestPoints, Goto, Take, RetireThen, poolVars
<1>11. ASSUME NEW r \in Requests, Restart(r)
      PROVE  MonitorHeld'
  BY ActorsAssumption, <1>11
     DEF IInv, Restart, StartSucceeds, StartFails, TypeOK, Threads, Roles,
         MonitorHeld, EvictorPoints, RequestPoints, Goto, poolVars
<1>12. ASSUME NEW r \in Requests, WorkEnds(r)
      PROVE  MonitorHeld'
  BY ActorsAssumption, <1>12
     DEF IInv, WorkEnds, TypeOK, Threads, Roles, MonitorHeld, EvictorPoints,
         RequestPoints, Goto, poolVars, sessionVars
<1>13. ASSUME NEW r \in Requests, Return(r)
      PROVE  MonitorHeld'
  BY ActorsAssumption, <1>13
     DEF IInv, Return, TypeOK, Threads, Roles, MonitorHeld, EvictorPoints,
         RequestPoints, Goto, Take, RetireThen, poolVars
<1>14. ASSUME NEW r \in Requests, Probe(r)
      PROVE  MonitorHeld'
  BY ActorsAssumption, <1>14
     DEF IInv, Probe, IsHealthy, TypeOK, Threads, Roles, MonitorHeld, EvictorPoints,
         RequestPoints, Goto, Take, RetireThen, poolVars, sessionVars
<1>15. ASSUME NEW r \in Requests, Offer(r)
      PROVE  MonitorHeld'
  BY ActorsAssumption, <1>15
     DEF IInv, Offer, TypeOK, Threads, Roles, MonitorHeld, EvictorPoints,
         RequestPoints, Goto, Take, LetGo, RetireThen, sessionVars
<1>16. ASSUME NEW r \in Requests, Release(r)
      PROVE  MonitorHeld'
  BY ActorsAssumption, <1>16
     DEF IInv, Release, TypeOK, Threads, Roles, MonitorHeld, EvictorPoints,
         RequestPoints, Goto, sessionVars
<1>17. ASSUME NEW t \in Threads, DiscardEnter(t)
      PROVE  MonitorHeld'
  BY ActorsAssumption, <1>17
     DEF IInv, DiscardEnter, TypeOK, Threads, Roles, MonitorHeld, EvictorPoints,
         RequestPoints, Goto, sessionVars
<1>18. ASSUME NEW t \in Threads, DiscardLeave(t)
      PROVE  MonitorHeld'
  BY ActorsAssumption, <1>18
     DEF IInv, DiscardLeave, TypeOK, Threads, Roles, MonitorHeld, EvictorPoints,
         RequestPoints, Goto, Take, LetGo
<1>19. ASSUME EvictWake
      PROVE  MonitorHeld'
  BY ActorsAssumption, <1>19
     DEF IInv, EvictWake, TypeOK, Threads, Roles, MonitorHeld, EvictorPoints,
         RequestPoints, Goto, poolVars, sessionVars
<1>20. ASSUME EvictScan
      PROVE  MonitorHeld'
  BY ActorsAssumption, <1>20
     DEF IInv, EvictScan, TypeOK, Threads, Roles, MonitorHeld, EvictorPoints,
         RequestPoints, Goto, Take, RetireThen, sessionVars
<1>21. ASSUME EvictPutBack
      PROVE  MonitorHeld'
  BY ActorsAssumption, <1>21
     DEF IInv, EvictPutBack, TypeOK, Threads, Roles, MonitorHeld, EvictorPoints,
         RequestPoints, Goto, Take, RetireThen, sessionVars
<1>22. ASSUME CloseBegin
      PROVE  MonitorHeld'
  BY ActorsAssumption, <1>22
     DEF IInv, CloseBegin, TypeOK, Threads, Roles, MonitorHeld, EvictorPoints,
         RequestPoints, threadVars, sessionVars
<1>23. ASSUME CloseTask
      PROVE  MonitorHeld'
  BY ActorsAssumption, <1>23
     DEF IInv, CloseTask, TypeOK, Threads, Roles, MonitorHeld, EvictorPoints,
         RequestPoints, poolVars, threadVars
<1>24. ASSUME CloseShutdown
      PROVE  MonitorHeld'
  BY ActorsAssumption, <1>24
     DEF IInv, CloseShutdown, TypeOK, Threads, Roles, MonitorHeld, EvictorPoints,
         RequestPoints, poolVars, threadVars
<1>25. ASSUME CloseEnd
      PROVE  MonitorHeld'
  BY ActorsAssumption, <1>25
     DEF IInv, CloseEnd, TypeOK, Threads, Roles, MonitorHeld, EvictorPoints,
         RequestPoints, threadVars, sessionVars
<1>26. ASSUME Crash
      PROVE  MonitorHeld'
  BY ActorsAssumption, <1>26
     DEF IInv, Crash, TypeOK, Threads, Roles, MonitorHeld, EvictorPoints,
         RequestPoints, poolVars, threadVars
<1>27. ASSUME Age
      PROVE  MonitorHeld'
  BY ActorsAssumption, <1>27
     DEF IInv, Age, TypeOK, Threads, Roles, MonitorHeld, EvictorPoints,
         RequestPoints, poolVars, threadVars
<1>28. ASSUME Terminated
      PROVE  MonitorHeld'
  BY ActorsAssumption, <1>28
     DEF IInv, Terminated, TypeOK, Threads, Roles, MonitorHeld, EvictorPoints,
         RequestPoints, poolVars, threadVars, sessionVars, vars
<1>29. CASE UNCHANGED vars
  BY <1>29
     DEF IInv, vars, TypeOK, Threads, Roles, MonitorHeld, EvictorPoints,
         RequestPoints, Goto, Take, LetGo, RetireThen, poolVars, threadVars,
         sessionVars
<1>. QED
  BY <1>1, <1>2, <1>3, <1>4, <1>5, <1>6, <1>7, <1>8, <1>9, <1>10, <1>11, <1>12,
     <1>13, <1>14, <1>15, <1>16, <1>17, <1>18, <1>19, <1>20, <1>21, <1>22, <1>23,
     <1>24, <1>25, <1>26, <1>27, <1>28, <1>29
     DEF Next, RequestStep, DiscardStep, EvictStep, CloseStep


\* A step that moves no session keeps every session in its one place.
LEMMA MoveNothing ==
    ASSUME TypeOK, SoleOwner, idle' = idle, keep' = keep, held' = held
    PROVE  SoleOwner' /\ Reachable' = Reachable
  BY DEF SoleOwner, Reachable, Held

\* A thread takes the head of the idle queue.
LEMMA MoveIdleToThread ==
    ASSUME TypeOK, SoleOwner, NEW t \in Threads, held[t] = NoSession, idle # <<>>,
           idle' = Tail(idle), keep' = keep, held' = [held EXCEPT ![t] = Head(idle)]
    PROVE  SoleOwner' /\ Reachable' = Reachable
<1>1. /\ Head(idle) \in Sessions
      /\ InQueue(idle) = InQueue(idle') \cup {Head(idle)}
      /\ Distinct(idle') /\ Head(idle) \notin InQueue(idle')
  BY HeadAndTail DEF TypeOK, SoleOwner
<1>2. held'[t] = Head(idle) /\ \A u \in Threads \ {t} : held'[u] = held[u]
  BY DEF TypeOK
<1>3. Held' = Held \cup {Head(idle)}
  BY <1>1, <1>2, NoSessionAssumption DEF Held
<1>4. SoleOwner'
  BY <1>1, <1>2 DEF SoleOwner
<1>. QED
  BY <1>1, <1>3, <1>4 DEF Reachable

\* A thread takes the head of the sessions to be put back.
LEMMA MoveKeepToThread ==
    ASSUME TypeOK, SoleOwner, NEW t \in Threads, held[t] = NoSession, keep # <<>>,
           keep' = Tail(keep), idle' = idle, held' = [held EXCEPT ![t] = Head(keep)]
    PROVE  SoleOwner' /\ Reachable' = Reachable
<1>1. /\ Head(keep) \in Sessions
      /\ InQueue(keep) = InQueue(keep') \cup {Head(keep)}
      /\ Distinct(keep') /\ Head(keep) \notin InQueue(keep')
  BY HeadAndTail DEF TypeOK, SoleOwner
<1>2. held'[t] = Head(keep) /\ \A u \in Threads \ {t} : held'[u] = held[u]
  BY DEF TypeOK
<1>3. Held' = Held \cup {Head(keep)}
  BY <1>1, <1>2, NoSessionAssumption DEF Held
<1>4. SoleOwner'
  BY <1>1, <1>2 DEF SoleOwner
<1>. QED
  BY <1>1, <1>3, <1>4 DEF Reachable

\* The evictor takes out an idle session to put it back later.
LEMMA MoveIdleToKeep ==
    ASSUME TypeOK, SoleOwner, idle # <<>>,
           idle' = Tail(idle), keep' = Append(keep, Head(idle)), held' = held
    PROVE  SoleOwner' /\ Reachable' = Reachable
<1>1. /\ Head(idle) \in Sessions
      /\ InQueue(idle) = InQueue(idle') \cup {Head(idle)}
      /\ Distinct(idle') /\ Head(idle) \notin InQueue(idle')
  BY HeadAndTail DEF TypeOK, SoleOwner
<1>2. /\ InQueue(keep') = InQueue(keep) \cup {Head(idle)}
      /\ Head(idle) \notin InQueue(keep) => Distinct(keep')
  BY <1>1, AppendOne DEF TypeOK, SoleOwner
<1>3. SoleOwner'
  BY <1>1, <1>2 DEF SoleOwner
<1>. QED
  BY <1>1, <1>2, <1>3 DEF Reachable, Held

\* The evictor puts a session back.
LEMMA MoveKeepToIdle ==
    ASSUME TypeOK, SoleOwner, keep # <<>>,
           keep' = Tail(keep), idle' = Append(idle, Head(keep)), held' = held
    PROVE  SoleOwner' /\ Reachable' = Reachable
<1>1. /\ Head(keep) \in Sessions
      /\ InQueue(keep) = InQueue(keep') \cup {Head(keep)}
      /\ Distinct(keep') /\ Head(keep) \notin InQueue(keep')
  BY HeadAndTail DEF TypeOK, SoleOwner
<1>2. /\ InQueue(idle') = InQueue(idle) \cup {Head(keep)}
      /\ Head(keep) \notin InQueue(idle) => Distinct(idle')
  BY <1>1, AppendOne DEF TypeOK, SoleOwner
<1>3. SoleOwner'
  BY <1>1, <1>2 DEF SoleOwner
<1>. QED
  BY <1>1, <1>2, <1>3 DEF Reachable, Held

\* A thread gives its session back to the idle queue.
LEMMA MoveThreadToIdle ==
    ASSUME TypeOK, SoleOwner, NEW t \in Threads, held[t] # NoSession,
           idle' = Append(idle, held[t]), keep' = keep,
           held' = [held EXCEPT ![t] = NoSession]
    PROVE  SoleOwner' /\ Reachable' = Reachable
<1>0. held[t] \in Sessions
  BY DEF TypeOK
<1>1. /\ InQueue(idle') = InQueue(idle) \cup {held[t]}
      /\ held[t] \notin InQueue(idle) => Distinct(idle')
  BY <1>0, AppendOne DEF TypeOK, SoleOwner
<1>2. held'[t] = NoSession /\ \A u \in Threads \ {t} : held'[u] = held[u]
  BY DEF TypeOK
<1>3. Held' \cup {held[t]} = Held
  BY <1>0, <1>2 DEF Held
<1>4. InQueue(keep) \subseteq Sessions /\ InQueue(idle') \subseteq Sessions
  BY <1>0, <1>1 DEF TypeOK, InQueue
<1>5. SoleOwner'
  BY <1>0, <1>1, <1>2, <1>4, NoSessionAssumption DEF SoleOwner
<1>. QED
  BY <1>1, <1>3, <1>5 DEF Reachable

\* A thread drops its session: it is in no place any more.
LEMMA MoveThreadToNowhere ==
    ASSUME TypeOK, SoleOwner, NEW t \in Threads, idle' = idle, keep' = keep,
           held' = [held EXCEPT ![t] = NoSession]
    PROVE  SoleOwner' /\ Reachable' = Reachable \ {held[t]}
<1>1. held'[t] = NoSession /\ \A u \in Threads \ {t} : held'[u] = held[u]
  BY DEF TypeOK
<1>2. InQueue(keep) \subseteq Sessions /\ InQueue(idle) \subseteq Sessions
  BY DEF TypeOK, InQueue
<1>3. SoleOwner'
  BY <1>1, <1>2, NoSessionAssumption DEF SoleOwner
<1>4. Held' = Held \ {held[t]}
  BY <1>1 DEF Held, SoleOwner
<1>. QED
  BY <1>3, <1>4 DEF Reachable, SoleOwner

\* A thread gets a session that was in no place before.
LEMMA MoveNewToThread ==
    ASSUME TypeOK, SoleOwner, NEW t \in Threads, NEW s \in Sessions \ Reachable,
           idle' = idle, keep' = keep, held' = [held EXCEPT ![t] = s]
    PROVE  SoleOwner' /\ Reachable' \subseteq Reachable \cup {s}
<1>1. held'[t] = s /\ \A u \in Threads \ {t} : held'[u] = held[u]
  BY DEF TypeOK
<1>2. \A u \in Threads : held[u] # s
  BY NoSessionAssumption DEF Reachable, Held
<1>3. SoleOwner'
  BY <1>1, <1>2 DEF SoleOwner, Reachable
<1>. QED
  BY <1>1, <1>3 DEF Reachable, Held

\* close() empties the idle queue.
LEMMA DropIdle ==
    ASSUME TypeOK, SoleOwner, idle' = <<>>, keep' = keep, held' = held
    PROVE  SoleOwner' /\ Reachable' \subseteq Reachable
  BY EmptyQueue DEF SoleOwner, Reachable, Held

\* Every step keeps each session in one place, and what is in a place is
\* an object that exists.
LEMMA OwnedStep ==
    ASSUME IInv, [Next]_vars
    PROVE  Owned'
<1>. TypeOK /\ Roles /\ Slots /\ SoleOwner /\ Reachable \subseteq Live
  BY DEF IInv, Owned
<1>0. Evictor \in Threads /\ Requests \subseteq Threads
  BY DEF Threads
<1>1. ASSUME NEW r \in Requests, Arrive(r)
      PROVE  Owned'
  <2>1. idle' = idle /\ keep' = keep /\ held' = held /\ Live' = Live
    BY <1>1 DEF Arrive, Live, Goto, poolVars, sessionVars
  <2>. QED
    BY <2>1, MoveNothing DEF Owned
<1>2. ASSUME NEW r \in Requests, Admit(r)
      PROVE  Owned'
  <2>1. idle' = idle /\ keep' = keep /\ held' = held /\ Live' = Live
    BY <1>2 DEF Admit, Live, Goto, sessionVars
  <2>. QED
    BY <2>1, MoveNothing DEF Owned
<1>3. ASSUME NEW r \in Requests, Poll(r)
      PROVE  Owned'
  <2>1. CASE idle # <<>>
    <3>1. /\ held[r] = NoSession
          /\ idle' = Tail(idle) /\ keep' = keep
          /\ held' = [held EXCEPT ![r] = Head(idle)]
      BY <1>0, <1>3, <2>1, ActorsAssumption, NoSessionAssumption
         DEF Poll, TypeOK, Roles, HoldingPoints, EvictorPoints, RequestPoints,
             AcquirePoints, LentPoints, Threads, Goto, Take, sessionVars
    <3>2. Live' = Live
      BY <1>3, <2>1 DEF Live, Poll, Goto, Take, sessionVars
    <3>. QED
      BY <1>0, <3>1, <3>2, <2>1, MoveIdleToThread DEF Owned
  <2>2. CASE idle = <<>>
    <3>1. idle' = idle /\ keep' = keep /\ held' = held
      BY <1>0, <1>3, <2>2, ActorsAssumption, NoSessionAssumption
         DEF Poll, TypeOK, Roles, HoldingPoints, EvictorPoints, RequestPoints,
             AcquirePoints, LentPoints, Threads, Goto, Take, sessionVars
    <3>2. Live' = Live
      BY <1>3, <2>2 DEF Live, Poll, Goto, Take, sessionVars
    <3>. QED
      BY <1>0, <3>1, <3>2, MoveNothing DEF Owned
  <2>. QED
    BY <2>1, <2>2
<1>4. ASSUME NEW r \in Requests, Create(r)
      PROVE  Owned'
  <2>1. PICK s \in Sessions :
          /\ life[s] = "absent"
          /\ life' = [life EXCEPT ![s] = "open"]
          /\ held' = [held EXCEPT ![r] = s]
    BY <1>4 DEF Create, Take
  <2>2. idle' = idle /\ keep' = keep
    BY <1>4 DEF Create
  <2>3. s \notin Reachable /\ Live' = Live \cup {s}
    BY <2>1 DEF TypeOK, Live
  <2>. QED
    BY <1>0, <2>1, <2>2, <2>3, MoveNewToThread DEF Owned
<1>5. ASSUME NEW r \in Requests, CreateRefused(r)
      PROVE  Owned'
  <2>1. idle' = idle /\ keep' = keep /\ held' = held /\ Live' = Live
    BY <1>5 DEF CreateRefused, CanCreate, Live, Goto, poolVars, sessionVars
  <2>. QED
    BY <2>1, MoveNothing DEF Owned
<1>6. ASSUME NEW r \in Requests, Start(r)
      PROVE  Owned'
  <2>1. idle' = idle /\ keep' = keep /\ Live' = Live
    BY <1>6 DEF Start, Live, poolVars
  <2>2. held' = held \/ held' = [held EXCEPT ![r] = NoSession]
    BY <1>6, <1>0 DEF Start, Take, LetGo, RetireThen, TypeOK
  <2>. QED
    BY <1>0, <2>1, <2>2, MoveNothing, MoveThreadToNowhere DEF Owned
<1>7. ASSUME NEW r \in Requests, Expire(r)
      PROVE  Owned'
  <2>1. idle' = idle /\ keep' = keep /\ held' = held /\ Live' = Live
    BY <1>7 DEF Expire, Live, poolVars, sessionVars
  <2>. QED
    BY <2>1, MoveNothing DEF Owned
<1>8. ASSUME NEW r \in Requests, Deadline(r)
      PROVE  Owned'
  <2>1. idle' = idle /\ keep' = keep /\ held' = held /\ Live' = Live
    BY <1>8 DEF Deadline, Live, Goto, poolVars, sessionVars
  <2>. QED
    BY <2>1, MoveNothing DEF Owned
<1>9. ASSUME NEW r \in Requests, Await(r)
      PROVE  Owned'
  <2>1. CASE idle # <<>>
    <3>1. /\ held[r] = NoSession
          /\ idle' = Tail(idle) /\ keep' = keep
          /\ held' = [held EXCEPT ![r] = Head(idle)]
      BY <1>0, <1>9, <2>1, ActorsAssumption, NoSessionAssumption
         DEF Await, TypeOK, Roles, HoldingPoints, EvictorPoints, RequestPoints,
             AcquirePoints, LentPoints, Threads, Goto, Take, sessionVars
    <3>2. Live' = Live
      BY <1>9, <2>1 DEF Live, Await, Goto, Take, sessionVars
    <3>. QED
      BY <1>0, <3>1, <3>2, <2>1, MoveIdleToThread DEF Owned
  <2>2. CASE idle = <<>>
    <3>1. idle' = idle /\ keep' = keep /\ held' = held
      BY <1>0, <1>9, <2>2, ActorsAssumption, NoSessionAssumption
         DEF Await, TypeOK, Roles, HoldingPoints, EvictorPoints, RequestPoints,
             AcquirePoints, LentPoints, Threads, Goto, Take, sessionVars
    <3>2. Live' = Live
      BY <1>9, <2>2 DEF Live, Await, Goto, Take, sessionVars
    <3>. QED
      BY <1>0, <3>1, <3>2, MoveNothing DEF Owned
  <2>. QED
    BY <2>1, <2>2
<1>10. ASSUME NEW r \in Requests, Check(r)
      PROVE  Owned'
  <2>1. idle' = idle /\ keep' = keep /\ held' = held /\ Live' = Live
    BY <1>0, <1>10
       DEF Check, IsHealthy, Live, TypeOK, Goto, Take, RetireThen, poolVars
  <2>. QED
    BY <2>1, MoveNothing DEF Owned
<1>11. ASSUME NEW r \in Requests, Restart(r)
      PROVE  Owned'
  <2>1. idle' = idle /\ keep' = keep /\ held' = held /\ Live' = Live
    BY <1>11 DEF Restart, StartSucceeds, StartFails, Live, Goto, poolVars
  <2>. QED
    BY <2>1, MoveNothing DEF Owned
<1>12. ASSUME NEW r \in Requests, WorkEnds(r)
      PROVE  Owned'
  <2>1. idle' = idle /\ keep' = keep /\ held' = held /\ Live' = Live
    BY <1>12 DEF WorkEnds, Live, Goto, poolVars, sessionVars
  <2>. QED
    BY <2>1, MoveNothing DEF Owned
<1>13. ASSUME NEW r \in Requests, Return(r)
      PROVE  Owned'
  <2>1. idle' = idle /\ keep' = keep /\ held' = held /\ Live' = Live
    BY <1>0, <1>13 DEF Return, Live, TypeOK, Goto, Take, RetireThen, poolVars
  <2>. QED
    BY <2>1, MoveNothing DEF Owned
<1>14. ASSUME NEW r \in Requests, Probe(r)
      PROVE  Owned'
  <2>1. idle' = idle /\ keep' = keep /\ held' = held /\ Live' = Live
    BY <1>0, <1>14
       DEF Probe, IsHealthy, Live, TypeOK, Goto, Take, RetireThen, poolVars,
           sessionVars
  <2>. QED
    BY <2>1, MoveNothing DEF Owned
<1>15. ASSUME NEW r \in Requests, Offer(r)
      PROVE  Owned'
  <2>1. CASE Len(idle) < MaxSessions
    <3>1. /\ held[r] # NoSession
          /\ idle' = Append(idle, held[r]) /\ keep' = keep
          /\ held' = [held EXCEPT ![r] = NoSession]
      BY <1>0, <1>15, <2>1, ActorsAssumption, NoSessionAssumption
         DEF Offer, TypeOK, Roles, HoldingPoints, EvictorPoints, RequestPoints,
             AcquirePoints, LentPoints, Threads, Goto, Take, LetGo, RetireThen,
             sessionVars
    <3>2. Live' = Live
      BY <1>15, <2>1 DEF Live, Offer, Goto, Take, LetGo, RetireThen, sessionVars
    <3>. QED
      BY <1>0, <3>1, <3>2, MoveThreadToIdle DEF Owned
  <2>2. CASE ~(Len(idle) < MaxSessions)
    <3>1. idle' = idle /\ keep' = keep /\ held' = held
      BY <1>0, <1>15, <2>2 DEF Offer, RetireThen, Take, TypeOK
    <3>2. Live' = Live
      BY <1>15 DEF Live, Offer, sessionVars
    <3>. QED
      BY <3>1, <3>2, MoveNothing DEF Owned
  <2>. QED
    BY <2>1, <2>2
<1>16. ASSUME NEW r \in Requests, Release(r)
      PROVE  Owned'
  <2>1. idle' = idle /\ keep' = keep /\ held' = held /\ Live' = Live
    BY <1>16 DEF Release, Live, Goto, sessionVars
  <2>. QED
    BY <2>1, MoveNothing DEF Owned
<1>17. ASSUME NEW t \in Threads, DiscardEnter(t)
      PROVE  Owned'
  <2>1. idle' = idle /\ keep' = keep /\ held' = held /\ Live' = Live
    BY <1>17 DEF DiscardEnter, Live, Goto, sessionVars
  <2>. QED
    BY <2>1, MoveNothing DEF Owned
<1>18. ASSUME NEW t \in Threads, DiscardLeave(t)
      PROVE  Owned'
  <2>1. idle' = idle /\ keep' = keep /\ held' = [held EXCEPT ![t] = NoSession]
    BY <1>18 DEF DiscardLeave, LetGo, Take
  <2>2. Live \ {held[t]} \subseteq Live'
    BY <1>18 DEF DiscardLeave, Live, TypeOK
  <2>. QED
    BY <2>1, <2>2, MoveThreadToNowhere DEF Owned
<1>19. ASSUME EvictWake
      PROVE  Owned'
  <2>1. idle' = idle /\ keep' = keep /\ held' = held /\ Live' = Live
    BY <1>19 DEF EvictWake, Live, Goto, poolVars, sessionVars
  <2>. QED
    BY <2>1, MoveNothing DEF Owned
<1>20. ASSUME EvictScan
      PROVE  Owned'
  <2>1. CASE idle # <<>> /\ Head(idle) \in stale
    <3>1. /\ held[Evictor] = NoSession
          /\ idle' = Tail(idle) /\ keep' = keep
          /\ held' = [held EXCEPT ![Evictor] = Head(idle)]
      BY <1>0, <1>20, <2>1, ActorsAssumption, NoSessionAssumption
         DEF EvictScan, TypeOK, Roles, HoldingPoints, EvictorPoints, RequestPoints,
             AcquirePoints, LentPoints, Threads, Goto, Take, RetireThen, sessionVars
    <3>2. Live' = Live
      BY <1>20, <2>1 DEF Live, EvictScan, Goto, Take, RetireThen, sessionVars
    <3>. QED
      BY <1>0, <3>1, <3>2, <2>1, MoveIdleToThread DEF Owned
  <2>2. CASE idle # <<>> /\ Head(idle) \notin stale
    <3>1. /\ idle' = Tail(idle) /\ keep' = Append(keep, Head(idle))
          /\ held' = held
      BY <1>0, <1>20, <2>2, ActorsAssumption, NoSessionAssumption
         DEF EvictScan, TypeOK, Roles, HoldingPoints, EvictorPoints, RequestPoints,
             AcquirePoints, LentPoints, Threads, Goto, Take, RetireThen, sessionVars
    <3>2. Live' = Live
      BY <1>20, <2>2 DEF Live, EvictScan, Goto, Take, RetireThen, sessionVars
    <3>. QED
      BY <1>0, <3>1, <3>2, <2>2, MoveIdleToKeep DEF Owned
  <2>3. CASE idle = <<>>
    <3>1. idle' = idle /\ keep' = keep /\ held' = held
      BY <1>0, <1>20, <2>3, ActorsAssumption, NoSessionAssumption
         DEF EvictScan, TypeOK, Roles, HoldingPoints, EvictorPoints, RequestPoints,
             AcquirePoints, LentPoints, Threads, Goto, Take, RetireThen, sessionVars
    <3>2. Live' = Live
      BY <1>20, <2>3 DEF Live, EvictScan, Goto, Take, RetireThen, sessionVars
    <3>. QED
      BY <1>0, <3>1, <3>2, MoveNothing DEF Owned
  <2>. QED
    BY <2>1, <2>2, <2>3
<1>21. ASSUME EvictPutBack
      PROVE  Owned'
  <2>1. CASE keep # <<>> /\ Len(idle) < MaxSessions
    <3>1. /\ keep' = Tail(keep) /\ idle' = Append(idle, Head(keep))
          /\ held' = held
      BY <1>0, <1>21, <2>1, ActorsAssumption, NoSessionAssumption
         DEF EvictPutBack, TypeOK, Roles, HoldingPoints, EvictorPoints,
             RequestPoints, AcquirePoints, LentPoints, Threads, Goto, Take,
             RetireThen, sessionVars
    <3>2. Live' = Live
      BY <1>21, <2>1 DEF Live, EvictPutBack, Goto, Take, RetireThen, sessionVars
    <3>. QED
      BY <1>0, <3>1, <3>2, <2>1, MoveKeepToIdle DEF Owned
  <2>2. CASE keep # <<>> /\ ~(Len(idle) < MaxSessions)
    <3>1. /\ held[Evictor] = NoSession
          /\ keep' = Tail(keep) /\ idle' = idle
          /\ held' = [held EXCEPT ![Evictor] = Head(keep)]
      BY <1>0, <1>21, <2>2, ActorsAssumption, NoSessionAssumption
         DEF EvictPutBack, TypeOK, Roles, HoldingPoints, EvictorPoints,
             RequestPoints, AcquirePoints, LentPoints, Threads, Goto, Take,
             RetireThen, sessionVars
    <3>2. Live' = Live
      BY <1>21, <2>2 DEF Live, EvictPutBack, Goto, Take, RetireThen, sessionVars
    <3>. QED
      BY <1>0, <3>1, <3>2, <2>2, MoveKeepToThread DEF Owned
  <2>3. CASE keep = <<>>
    <3>1. idle' = idle /\ keep' = keep /\ held' = held
      BY <1>0, <1>21, <2>3, ActorsAssumption, NoSessionAssumption
         DEF EvictPutBack, TypeOK, Roles, HoldingPoints, EvictorPoints,
             RequestPoints, AcquirePoints, LentPoints, Threads, Goto, Take,
             RetireThen, sessionVars
    <3>2. Live' = Live
      BY <1>21, <2>3 DEF Live, EvictPutBack, Goto, Take, RetireThen, sessionVars
    <3>. QED
      BY <1>0, <3>1, <3>2, MoveNothing DEF Owned
  <2>. QED
    BY <2>1, <2>2, <2>3
<1>22. ASSUME CloseBegin
      PROVE  Owned'
  <2>1. idle' = <<>> /\ keep' = keep /\ held' = held /\ Live' = Live
    BY <1>22 DEF CloseBegin, Live, threadVars, sessionVars
  <2>. QED
    BY <2>1, DropIdle DEF Owned
<1>23. ASSUME CloseTask
      PROVE  Owned'
  <2>1. idle' = idle /\ keep' = keep /\ held' = held /\ Live' = Live
    BY <1>23 DEF CloseTask, Live, poolVars, threadVars
  <2>. QED
    BY <2>1, MoveNothing DEF Owned
<1>24. ASSUME CloseShutdown
      PROVE  Owned'
  <2>1. idle' = idle /\ keep' = keep /\ held' = held
    BY <1>24 DEF CloseShutdown, poolVars, threadVars
  <2>2. Live' = Live
    BY <1>24 DEF CloseShutdown, Live, Slots, TypeOK
  <2>. QED
    BY <2>1, <2>2, MoveNothing DEF Owned
<1>25. ASSUME CloseEnd
      PROVE  Owned'
  <2>1. idle' = idle /\ keep' = keep /\ held' = held /\ Live' = Live
    BY <1>25 DEF CloseEnd, Live, threadVars, sessionVars
  <2>. QED
    BY <2>1, MoveNothing DEF Owned
<1>26. ASSUME Crash
      PROVE  Owned'
  <2>1. idle' = idle /\ keep' = keep /\ held' = held /\ Live' = Live
    BY <1>26 DEF Crash, Live, poolVars, threadVars
  <2>. QED
    BY <2>1, MoveNothing DEF Owned
<1>27. ASSUME Age
      PROVE  Owned'
  <2>1. idle' = idle /\ keep' = keep /\ held' = held /\ Live' = Live
    BY <1>27 DEF Age, Live, poolVars, threadVars
  <2>. QED
    BY <2>1, MoveNothing DEF Owned
<1>28. ASSUME Terminated
      PROVE  Owned'
  <2>1. idle' = idle /\ keep' = keep /\ held' = held /\ Live' = Live
    BY <1>28 DEF Terminated, vars, Live, poolVars, threadVars, sessionVars
  <2>. QED
    BY <2>1, MoveNothing DEF Owned
<1>29. CASE UNCHANGED vars
  <2>1. idle' = idle /\ keep' = keep /\ held' = held /\ Live' = Live
    BY <1>29 DEF vars, poolVars, threadVars, sessionVars, Live
  <2>. QED
    BY <2>1, MoveNothing DEF Owned
<1>. QED
  BY <1>1, <1>2, <1>3, <1>4, <1>5, <1>6, <1>7, <1>8, <1>9, <1>10, <1>11, <1>12,
     <1>13, <1>14, <1>15, <1>16, <1>17, <1>18, <1>19, <1>20, <1>21, <1>22, <1>23,
     <1>24, <1>25, <1>26, <1>27, <1>28, <1>29
     DEF Next, RequestStep, DiscardStep, EvictStep, CloseStep

\* A step that changes neither the list nor the objects keeps Slots,
\* whatever browsers it starts in existing objects.
LEMMA SlotsKept ==
    ASSUME TypeOK, Slots, all' = all, life' = life, chromium' = chromium,
           tearing' = tearing, phase' = phase,
           \A t \in Threads :
              /\ pc'[t] = "closing" <=> pc[t] = "closing"
              /\ pc[t] = "closing" => held'[t] = held[t]
    PROVE  Slots'
<1>1. Live' = Live
  BY DEF Live
<1>. QED
  BY <1>1 DEF Slots

\* Every step keeps the objects that exist on the list of the pool, apart
\* from the one being closed, and their number within MaxSessions.
LEMMA SlotsStep ==
    ASSUME IInv, [Next]_vars
    PROVE  Slots'
<1>0. Evictor \in Threads /\ Requests \subseteq Threads
  BY DEF Threads
<1>1. ASSUME NEW r \in Requests, Arrive(r)
      PROVE  Slots'
  BY ActorsAssumption, NoSessionAssumption, MaxSessionsAssumption, <1>1
     DEF IInv, Arrive, TypeOK, Threads, Roles, MonitorHeld, EvictorPoints,
         RequestPoints, HoldingPoints, Slots, Owned, Live, Goto, poolVars,
         sessionVars
<1>2. ASSUME NEW r \in Requests, Admit(r)
      PROVE  Slots'
  BY ActorsAssumption, NoSessionAssumption, MaxSessionsAssumption, <1>2
     DEF IInv, Admit, TypeOK, Threads, Roles, MonitorHeld, EvictorPoints,
         RequestPoints, HoldingPoints, Slots, Owned, Live, Goto, sessionVars
<1>3. ASSUME NEW r \in Requests, Poll(r)
      PROVE  Slots'
  <2>1. \A t \in Threads :
           /\ pc'[t] = "closing" <=> pc[t] = "closing"
           /\ pc[t] = "closing" => held'[t] = held[t]
    <3>1. CASE idle = <<>>
      BY <1>3, <3>1 DEF IInv, TypeOK, Poll, Goto
    <3>2. CASE idle # <<>>
      BY <1>3, <3>2 DEF IInv, TypeOK, Poll, Take, Goto
    <3>. QED
      BY <3>1, <3>2
  <2>. QED
    BY <1>3, <2>1, SlotsKept DEF IInv, Poll, sessionVars
<1>4. ASSUME NEW r \in Requests, Create(r)
      PROVE  Slots'
  <2>1. PICK s \in Sessions :
          /\ life[s] = "absent"
          /\ life' = [life EXCEPT ![s] = "open"]
          /\ all' = all \cup {s}
          /\ pc' = [pc EXCEPT ![r] = "start"]
          /\ held' = [held EXCEPT ![r] = s]
    BY <1>4 DEF Create, Take, Goto
  <2>2. /\ phase = "open" /\ phase' = phase /\ tearing' = tearing
        /\ chromium' = chromium /\ Cardinality(all) < MaxSessions
        /\ \A t \in Threads : pc[t] # "closing"
    BY <1>4, ActorsAssumption
       DEF IInv, MonitorHeld, Create, CanCreate, closed, Threads
  <2>3. Live = all
    BY <2>2 DEF IInv, Slots
  <2>4. s \notin Live /\ Live' = Live \cup {s}
    BY <2>1 DEF IInv, TypeOK, Live
  <2>5. IsFiniteSet(Live') /\ Cardinality(Live') <= MaxSessions
    <3>1. IsFiniteSet(Live) /\ Cardinality(Live) \in Nat
      BY FS_CardinalityType DEF IInv, Slots
    <3>2. IsFiniteSet(Live') /\ Cardinality(Live') = Cardinality(Live) + 1
      BY <2>4, <3>1, FS_AddElement
    <3>. QED
      BY <2>2, <2>3, <3>1, <3>2, MaxSessionsAssumption
  <2>6. \A t \in Threads : pc'[t] # "closing"
    BY <2>1, <2>2 DEF IInv, TypeOK
  <2>. QED
    BY <2>1, <2>2, <2>3, <2>4, <2>5, <2>6 DEF IInv, Slots
<1>5. ASSUME NEW r \in Requests, CreateRefused(r)
      PROVE  Slots'
  BY ActorsAssumption, NoSessionAssumption, MaxSessionsAssumption, <1>5
     DEF IInv, CreateRefused, CanCreate, TypeOK, Threads, Roles, MonitorHeld,
         EvictorPoints, RequestPoints, HoldingPoints, Slots, Owned, Live, Goto,
         poolVars, sessionVars
<1>6. ASSUME NEW r \in Requests, Start(r)
      PROVE  Slots'
  <2>1. /\ all' = all /\ life' = life /\ phase' = phase /\ tearing' = tearing
        /\ Live' = Live
    BY <1>6 DEF Start, Live, poolVars
  <2>2. \A t \in Threads : pc[t] = "closing" => t # r
    BY <1>6 DEF Start
  <2>3. \A t \in Threads :
           /\ pc'[t] = "closing" <=> pc[t] = "closing"
           /\ pc[t] = "closing" => held'[t] = held[t]
    BY <1>0, <1>6, <2>2 DEF Start, RetireThen, LetGo, Take, Goto, IInv, TypeOK
  <2>4. held[r] \in Live
    BY <1>0, <1>6 DEF Start, IInv, Roles, HoldingPoints, Owned, Reachable, Held
  <2>5. \A s \in Sessions : chromium'[s] # "none" => chromium[s] # "none" \/ s = held[r]
    BY <1>6 DEF Start, StartSucceeds, StartFails, IInv, TypeOK
  <2>. QED
    BY <2>1, <2>3, <2>4, <2>5 DEF IInv, Slots
<1>7. ASSUME NEW r \in Requests, Expire(r)
      PROVE  Slots'
  BY ActorsAssumption, NoSessionAssumption, MaxSessionsAssumption, <1>7
     DEF IInv, Expire, TypeOK, Threads, Roles, MonitorHeld, EvictorPoints,
         RequestPoints, HoldingPoints, Slots, Owned, Live, poolVars, sessionVars
<1>8. ASSUME NEW r \in Requests, Deadline(r)
      PROVE  Slots'
  BY ActorsAssumption, NoSessionAssumption, MaxSessionsAssumption, <1>8
     DEF IInv, Deadline, TypeOK, Threads, Roles, MonitorHeld, EvictorPoints,
         RequestPoints, HoldingPoints, Slots, Owned, Live, Goto, poolVars,
         sessionVars
<1>9. ASSUME NEW r \in Requests, Await(r)
      PROVE  Slots'
  BY ActorsAssumption, NoSessionAssumption, MaxSessionsAssumption, <1>9
     DEF IInv, Await, TypeOK, Threads, Roles, MonitorHeld, EvictorPoints,
         RequestPoints, HoldingPoints, Slots, Owned, Live, Goto, Take, sessionVars
<1>10. ASSUME NEW r \in Requests, Check(r)
      PROVE  Slots'
  BY ActorsAssumption, NoSessionAssumption, MaxSessionsAssumption, <1>10
     DEF IInv, Check, IsHealthy, TypeOK, Threads, Roles, MonitorHeld, EvictorPoints,
         RequestPoints, HoldingPoints, Slots, Owned, Live, Goto, Take, RetireThen,
         poolVars
<1>11. ASSUME NEW r \in Requests, Restart(r)
      PROVE  Slots'
  BY ActorsAssumption, NoSessionAssumption, MaxSessionsAssumption, <1>11
     DEF IInv, Restart, StartSucceeds, StartFails, TypeOK, Threads, Roles,
         MonitorHeld, EvictorPoints, RequestPoints, HoldingPoints, Slots, Owned,
         Live, Goto, poolVars
<1>12. ASSUME NEW r \in Requests, WorkEnds(r)
      PROVE  Slots'
  BY ActorsAssumption, NoSessionAssumption, MaxSessionsAssumption, <1>12
     DEF IInv, WorkEnds, TypeOK, Threads, Roles, MonitorHeld, EvictorPoints,
         RequestPoints, HoldingPoints, Slots, Owned, Live, Goto, poolVars,
         sessionVars
<1>13. ASSUME NEW r \in Requests, Return(r)
      PROVE  Slots'
  BY ActorsAssumption, NoSessionAssumption, MaxSessionsAssumption, <1>13
     DEF IInv, Return, TypeOK, Threads, Roles, MonitorHeld, EvictorPoints,
         RequestPoints, HoldingPoints, Slots, Owned, Live, Goto, Take, RetireThen,
         poolVars
<1>14. ASSUME NEW r \in Requests, Probe(r)
      PROVE  Slots'
  BY ActorsAssumption, NoSessionAssumption, MaxSessionsAssumption, <1>14
     DEF IInv, Probe, IsHealthy, TypeOK, Threads, Roles, MonitorHeld, EvictorPoints,
         RequestPoints, HoldingPoints, Slots, Owned, Live, Goto, Take, RetireThen,
         poolVars, sessionVars
<1>15. ASSUME NEW r \in Requests, Offer(r)
      PROVE  Slots'
  BY ActorsAssumption, NoSessionAssumption, MaxSessionsAssumption, <1>15
     DEF IInv, Offer, TypeOK, Threads, Roles, MonitorHeld, EvictorPoints,
         RequestPoints, HoldingPoints, Slots, Owned, Live, Goto, Take, LetGo,
         RetireThen, sessionVars
<1>16. ASSUME NEW r \in Requests, Release(r)
      PROVE  Slots'
  BY ActorsAssumption, NoSessionAssumption, MaxSessionsAssumption, <1>16
     DEF IInv, Release, TypeOK, Threads, Roles, MonitorHeld, EvictorPoints,
         RequestPoints, HoldingPoints, Slots, Owned, Live, Goto, sessionVars
<1>17. ASSUME NEW t \in Threads, DiscardEnter(t)
      PROVE  Slots'
  BY ActorsAssumption, NoSessionAssumption, MaxSessionsAssumption, <1>17
     DEF IInv, DiscardEnter, TypeOK, Threads, Roles, MonitorHeld, EvictorPoints,
         RequestPoints, HoldingPoints, Slots, Owned, Live, Goto, sessionVars
<1>18. ASSUME NEW t \in Threads, DiscardLeave(t)
      PROVE  Slots'
  <2>1. /\ all' = all /\ phase' = phase /\ tearing' = tearing
        /\ held' = [held EXCEPT ![t] = NoSession]
        /\ pc' = [pc EXCEPT ![t] = then[t]]
    BY <1>18 DEF DiscardLeave, LetGo, Take, Goto
  <2>2. /\ monitor = t /\ held[t] \in Sessions /\ held[t] \notin all
        /\ \A u \in Threads : pc[u] = "closing" => u = t
        /\ phase # "draining"
    BY <1>18, ActorsAssumption
       DEF DiscardLeave, IInv, TypeOK, MonitorHeld, Roles, Slots, HoldingPoints, Threads
  <2>3. \/ Live' = Live /\ chromium' = chromium
        \/ Live' = Live \ {held[t]} /\ chromium' = [chromium EXCEPT ![held[t]] = "none"]
    BY <1>18, <2>2 DEF DiscardLeave, Live, IInv, TypeOK
  <2>4. IsFiniteSet(Live') /\ Cardinality(Live') <= MaxSessions
    <3>1. Live' \in SUBSET Live
      BY <2>3
    <3>2. /\ IsFiniteSet(Live') /\ Cardinality(Live') <= Cardinality(Live)
          /\ Cardinality(Live') \in Nat /\ Cardinality(Live) \in Nat
      BY <3>1, FS_Subset, FS_CardinalityType DEF IInv, Slots
    <3>. QED
      BY <3>2, MaxSessionsAssumption DEF IInv, Slots
  <2>5. \A u \in Threads : pc'[u] # "closing"
    BY <2>1, <2>2 DEF IInv, TypeOK
  <2>6. phase = "open" => \A s \in Live' : s \in all
    <3>1. SUFFICES ASSUME phase = "open"
                   PROVE  \A s \in Live' : s \in all
      OBVIOUS
    <3>2. held[t] \in Live
      BY <2>2, NoSessionAssumption DEF IInv, Owned, Reachable, Held
    <3>3. life[held[t]] = "open"
      BY <2>2, <3>1, <3>2 DEF IInv, Slots, Live, TypeOK
    <3>4. Live' = Live \ {held[t]}
      BY <1>18, <2>2, <3>3 DEF DiscardLeave, Live, IInv, TypeOK
    <3>. QED
      BY <2>2, <3>1, <3>4 DEF IInv, Slots
  <2>7. phase = "open" => \A s \in Sessions : life'[s] # "shut"
    BY <1>18, <2>2 DEF DiscardLeave, IInv, Slots, TypeOK
  <2>8. \A s \in Sessions : chromium'[s] # "none" => s \in Live'
    BY <2>2, <2>3 DEF IInv, Slots, TypeOK
  <2>9. all' \subseteq Live'
    BY <2>1, <2>2, <2>3 DEF IInv, Slots
  <2>10. tearing' = NoSession
    BY <2>1, <2>2 DEF IInv, Slots
  <2>. QED
    BY <2>1, <2>4, <2>5, <2>6, <2>7, <2>8, <2>9, <2>10 DEF Slots
<1>19. ASSUME EvictWake
      PROVE  Slots'
  BY ActorsAssumption, NoSessionAssumption, MaxSessionsAssumption, <1>19
     DEF IInv, EvictWake, TypeOK, Threads, Roles, MonitorHeld, EvictorPoints,
         RequestPoints, HoldingPoints, Slots, Owned, Live, Goto, poolVars,
         sessionVars
<1>20. ASSUME EvictScan
      PROVE  Slots'
  BY ActorsAssumption, NoSessionAssumption, MaxSessionsAssumption, <1>20
     DEF IInv, EvictScan, TypeOK, Threads, Roles, MonitorHeld, EvictorPoints,
         RequestPoints, HoldingPoints, Slots, Owned, Live, Goto, Take, RetireThen,
         sessionVars
<1>21. ASSUME EvictPutBack
      PROVE  Slots'
  BY ActorsAssumption, NoSessionAssumption, MaxSessionsAssumption, <1>21
     DEF IInv, EvictPutBack, TypeOK, Threads, Roles, MonitorHeld, EvictorPoints,
         RequestPoints, HoldingPoints, Slots, Owned, Live, Goto, Take, RetireThen,
         sessionVars
<1>22. ASSUME CloseBegin
      PROVE  Slots'
  BY ActorsAssumption, NoSessionAssumption, MaxSessionsAssumption, <1>22
     DEF IInv, CloseBegin, TypeOK, Threads, Roles, MonitorHeld, EvictorPoints,
         RequestPoints, HoldingPoints, Slots, Owned, Live, threadVars, sessionVars
<1>23. ASSUME CloseTask
      PROVE  Slots'
  BY ActorsAssumption, NoSessionAssumption, MaxSessionsAssumption, <1>23
     DEF IInv, CloseTask, TypeOK, Threads, Roles, MonitorHeld, EvictorPoints,
         RequestPoints, HoldingPoints, Slots, Owned, Live, poolVars, threadVars
<1>24. ASSUME CloseShutdown
      PROVE  Slots'
  <2>1. tearing \in Live /\ phase = "draining" /\ tearing \in Sessions
    BY <1>24 DEF CloseShutdown, IInv, Slots, Live
  <2>2. Live' = Live
    BY <1>24, <2>1 DEF CloseShutdown, Live, IInv, TypeOK
  <2>3. /\ all' = all /\ chromium' = chromium /\ phase' = phase
        /\ pc' = pc /\ held' = held /\ tearing' = NoSession
    BY <1>24 DEF CloseShutdown, poolVars, threadVars
  <2>. QED
    BY <2>1, <2>2, <2>3 DEF IInv, Slots
<1>25. ASSUME CloseEnd
      PROVE  Slots'
  BY ActorsAssumption, NoSessionAssumption, MaxSessionsAssumption, <1>25
     DEF IInv, CloseEnd, TypeOK, Threads, Roles, MonitorHeld, EvictorPoints,
         RequestPoints, HoldingPoints, Slots, Owned, Live, threadVars, sessionVars
<1>26. ASSUME Crash
      PROVE  Slots'
  BY ActorsAssumption, NoSessionAssumption, MaxSessionsAssumption, <1>26
     DEF IInv, Crash, TypeOK, Threads, Roles, MonitorHeld, EvictorPoints,
         RequestPoints, HoldingPoints, Slots, Owned, Live, poolVars, threadVars
<1>27. ASSUME Age
      PROVE  Slots'
  BY ActorsAssumption, NoSessionAssumption, MaxSessionsAssumption, <1>27
     DEF IInv, Age, TypeOK, Threads, Roles, MonitorHeld, EvictorPoints,
         RequestPoints, HoldingPoints, Slots, Owned, Live, poolVars, threadVars
<1>28. ASSUME Terminated
      PROVE  Slots'
  BY ActorsAssumption, NoSessionAssumption, MaxSessionsAssumption, <1>28
     DEF IInv, Terminated, TypeOK, Threads, Roles, MonitorHeld, EvictorPoints,
         RequestPoints, HoldingPoints, Slots, Owned, Live, poolVars, threadVars,
         sessionVars, vars
<1>29. CASE UNCHANGED vars
  BY <1>29
     DEF IInv, vars, TypeOK, Threads, Roles, MonitorHeld, EvictorPoints,
         RequestPoints, HoldingPoints, Slots, Owned, Live, Goto, Take, LetGo,
         RetireThen, poolVars, threadVars, sessionVars
<1>. QED
  BY <1>1, <1>2, <1>3, <1>4, <1>5, <1>6, <1>7, <1>8, <1>9, <1>10, <1>11, <1>12,
     <1>13, <1>14, <1>15, <1>16, <1>17, <1>18, <1>19, <1>20, <1>21, <1>22, <1>23,
     <1>24, <1>25, <1>26, <1>27, <1>28, <1>29
     DEF Next, RequestStep, DiscardStep, EvictStep, CloseStep

\* Every step keeps the types.
LEMMA TypeStep ==
    ASSUME IInv, PermitsConserved', [Next]_vars
    PROVE  TypeOK'
<1>0. Evictor \in Threads /\ Requests \subseteq Threads /\ Capacity \in Nat
  BY MaxSessionsAssumption, MaxWaitersAssumption DEF Threads, Capacity
<1>1. ASSUME NEW r \in Requests, Arrive(r)
      PROVE  TypeOK'
  BY ActorsAssumption, NoSessionAssumption, MaxSessionsAssumption,
     MaxWaitersAssumption, MaxCrashesAssumption, <1>1
     DEF IInv, Arrive, TypeOK, Threads, Roles, Points, AcquirePoints, LentPoints,
         Capacity, Goto, poolVars, sessionVars
<1>2. ASSUME NEW r \in Requests, Admit(r)
      PROVE  TypeOK'
  <2>1. permits' \in 0..Capacity
    BY <1>0, <1>2 DEF IInv, TypeOK, Admit
  <2>2. pc' \in [Threads -> Points]
    BY <1>2 DEF IInv, TypeOK, Admit, Goto, Points, AcquirePoints, LentPoints
  <2>. QED
    BY <1>2, <2>1, <2>2 DEF IInv, TypeOK, Admit, sessionVars
<1>3. ASSUME NEW r \in Requests, Poll(r)
      PROVE  TypeOK'
  <2>1. CASE idle = <<>>
    BY <1>3, <2>1
       DEF IInv, TypeOK, Poll, Goto, Points, AcquirePoints, LentPoints, sessionVars
  <2>2. CASE idle # <<>>
    <3>1. Head(idle) \in Sessions /\ Tail(idle) \in Seq(Sessions)
      BY <2>2, HeadAndTail DEF IInv, TypeOK
    <3>. QED
      BY <1>3, <2>2, <3>1
         DEF IInv, TypeOK, Poll, Take, Goto, Points, AcquirePoints, LentPoints,
             sessionVars
  <2>. QED
    BY <2>1, <2>2
<1>4. ASSUME NEW r \in Requests, Create(r)
      PROVE  TypeOK'
  BY ActorsAssumption, NoSessionAssumption, MaxSessionsAssumption,
     MaxWaitersAssumption, MaxCrashesAssumption, <1>4
     DEF IInv, Create, CanCreate, TypeOK, Threads, Roles, Points, AcquirePoints,
         LentPoints, Capacity, Goto, Take
<1>5. ASSUME NEW r \in Requests, CreateRefused(r)
      PROVE  TypeOK'
  BY ActorsAssumption, NoSessionAssumption, MaxSessionsAssumption,
     MaxWaitersAssumption, MaxCrashesAssumption, <1>5
     DEF IInv, CreateRefused, CanCreate, TypeOK, Threads, Roles, Points,
         AcquirePoints, LentPoints, Capacity, Goto, poolVars, sessionVars
<1>6. ASSUME NEW r \in Requests, Start(r)
      PROVE  TypeOK'
  <2>1. chromium' \in [Sessions -> {"none", "up", "crashed"}]
    BY <1>6 DEF IInv, TypeOK, Start, StartSucceeds, StartFails
  <2>2. pc' \in [Threads -> Points]
    <3>1. PICK p \in {"restart", "retire", "release"} : pc' = [pc EXCEPT ![r] = p]
      BY <1>6 DEF Start, RetireThen, LetGo, Take, Goto
    <3>2. p \in Points
      BY DEF Points, AcquirePoints, LentPoints
    <3>. QED
      BY <1>0, <3>1, <3>2 DEF IInv, TypeOK
  <2>3. held' \in [Threads -> Sessions \cup {NoSession}]
    <3>1. held[r] \in Sessions \cup {NoSession}
      BY <1>0 DEF IInv, TypeOK
    <3>. QED
      BY <3>1, <1>6 DEF IInv, TypeOK, Start, RetireThen, LetGo, Take
  <2>4. then' \in [Threads -> {"poll", "release", "scan", "putback"}]
    BY <1>6 DEF IInv, TypeOK, Start, RetireThen
  <2>. QED
    BY <1>6, <2>1, <2>2, <2>3, <2>4 DEF IInv, TypeOK, Start, poolVars
<1>7. ASSUME NEW r \in Requests, Expire(r)
      PROVE  TypeOK'
  BY ActorsAssumption, NoSessionAssumption, MaxSessionsAssumption,
     MaxWaitersAssumption, MaxCrashesAssumption, <1>7
     DEF IInv, Expire, TypeOK, Threads, Roles, Points, AcquirePoints, LentPoints,
         Capacity, poolVars, sessionVars
<1>8. ASSUME NEW r \in Requests, Deadline(r)
      PROVE  TypeOK'
  BY ActorsAssumption, NoSessionAssumption, MaxSessionsAssumption,
     MaxWaitersAssumption, MaxCrashesAssumption, <1>8
     DEF IInv, Deadline, TypeOK, Threads, Roles, Points, AcquirePoints, LentPoints,
         Capacity, Goto, poolVars, sessionVars
<1>9. ASSUME NEW r \in Requests, Await(r)
      PROVE  TypeOK'
  <2>1. CASE idle = <<>>
    BY <1>9, <2>1
       DEF IInv, TypeOK, Await, Goto, Points, AcquirePoints, LentPoints, sessionVars
  <2>2. CASE idle # <<>>
    <3>1. Head(idle) \in Sessions /\ Tail(idle) \in Seq(Sessions)
      BY <2>2, HeadAndTail DEF IInv, TypeOK
    <3>. QED
      BY <1>9, <2>2, <3>1
         DEF IInv, TypeOK, Await, Take, Goto, Points, AcquirePoints, LentPoints,
             sessionVars
  <2>. QED
    BY <2>1, <2>2
<1>10. ASSUME NEW r \in Requests, Check(r)
      PROVE  TypeOK'
  BY ActorsAssumption, NoSessionAssumption, MaxSessionsAssumption,
     MaxWaitersAssumption, MaxCrashesAssumption, <1>10
     DEF IInv, Check, IsHealthy, TypeOK, Threads, Roles, Points, AcquirePoints,
         LentPoints, Capacity, Goto, Take, RetireThen, poolVars
<1>11. ASSUME NEW r \in Requests, Restart(r)
      PROVE  TypeOK'
  <2>1. chromium' \in [Sessions -> {"none", "up", "crashed"}]
    BY <1>11 DEF IInv, TypeOK, Restart, StartSucceeds, StartFails
  <2>2. pc' \in [Threads -> Points]
    BY <1>11 DEF IInv, TypeOK, Restart, Goto, Points, AcquirePoints, LentPoints
  <2>. QED
    BY <1>11, <2>1, <2>2 DEF IInv, TypeOK, Restart, poolVars
<1>12. ASSUME NEW r \in Requests, WorkEnds(r)
      PROVE  TypeOK'
  BY ActorsAssumption, NoSessionAssumption, MaxSessionsAssumption,
     MaxWaitersAssumption, MaxCrashesAssumption, <1>12
     DEF IInv, WorkEnds, TypeOK, Threads, Roles, Points, AcquirePoints, LentPoints,
         Capacity, Goto, poolVars, sessionVars
<1>13. ASSUME NEW r \in Requests, Return(r)
      PROVE  TypeOK'
  BY ActorsAssumption, NoSessionAssumption, MaxSessionsAssumption,
     MaxWaitersAssumption, MaxCrashesAssumption, <1>13
     DEF IInv, Return, TypeOK, Threads, Roles, Points, AcquirePoints, LentPoints,
         Capacity, Goto, Take, RetireThen, poolVars
<1>14. ASSUME NEW r \in Requests, Probe(r)
      PROVE  TypeOK'
  BY ActorsAssumption, NoSessionAssumption, MaxSessionsAssumption,
     MaxWaitersAssumption, MaxCrashesAssumption, <1>14
     DEF IInv, Probe, IsHealthy, TypeOK, Threads, Roles, Points, AcquirePoints,
         LentPoints, Capacity, Goto, Take, RetireThen, poolVars, sessionVars
<1>15. ASSUME NEW r \in Requests, Offer(r)
      PROVE  TypeOK'
  <2>1. CASE Len(idle) < MaxSessions
    <3>1. held[r] \in Sessions
      BY <1>0, <1>15 DEF IInv, TypeOK, Offer, Roles, HoldingPoints, LentPoints
    <3>2. Append(idle, held[r]) \in Seq(Sessions)
      BY <3>1, AppendOne DEF IInv, TypeOK
    <3>. QED
      BY <1>15, <2>1, <3>2
         DEF IInv, TypeOK, Offer, LetGo, Take, Goto, Points, AcquirePoints,
             LentPoints, sessionVars
  <2>2. CASE ~(Len(idle) < MaxSessions)
    <3>1. held' = held
      BY <1>0, <1>15, <2>2 DEF IInv, TypeOK, Offer, RetireThen, Take
    <3>2. /\ pc' \in [Threads -> Points]
          /\ then' \in [Threads -> {"poll", "release", "scan", "putback"}]
      BY <1>15, <2>2
         DEF IInv, TypeOK, Offer, RetireThen, Take, Goto, Points, AcquirePoints,
             LentPoints
    <3>. QED
      BY <1>15, <2>2, <3>1, <3>2 DEF IInv, TypeOK, Offer, RetireThen, sessionVars
  <2>. QED
    BY <2>1, <2>2
<1>16. ASSUME NEW r \in Requests, Release(r)
      PROVE  TypeOK'
  <2>1. permits' \in 0..Capacity
    <3>1. IsFiniteSet(Inside')
      BY RequestsAssumption, FS_Subset DEF Inside
    <3>2. Cardinality(Inside') \in Nat
      BY <3>1, FS_CardinalityType
    <3>3. permits' = permits + 1 /\ permits \in Nat
      BY <1>0, <1>16 DEF IInv, TypeOK, Release
    <3>4. permits' + Cardinality(Inside') = Capacity
      BY DEF PermitsConserved, Capacity
    <3>. QED
      BY <1>0, <3>2, <3>3, <3>4
  <2>2. pc' \in [Threads -> Points]
    BY <1>16 DEF IInv, TypeOK, Release, Goto, Points, AcquirePoints, LentPoints
  <2>. QED
    BY <1>16, <2>1, <2>2 DEF IInv, TypeOK, Release, sessionVars
<1>17. ASSUME NEW t \in Threads, DiscardEnter(t)
      PROVE  TypeOK'
  BY ActorsAssumption, NoSessionAssumption, MaxSessionsAssumption,
     MaxWaitersAssumption, MaxCrashesAssumption, <1>17
     DEF IInv, DiscardEnter, TypeOK, Threads, Roles, Points, AcquirePoints,
         LentPoints, Capacity, Goto, sessionVars
<1>18. ASSUME NEW t \in Threads, DiscardLeave(t)
      PROVE  TypeOK'
  BY ActorsAssumption, NoSessionAssumption, MaxSessionsAssumption,
     MaxWaitersAssumption, MaxCrashesAssumption, <1>18
     DEF IInv, DiscardLeave, TypeOK, Threads, Roles, Points, AcquirePoints,
         LentPoints, Capacity, Goto, Take, LetGo
<1>19. ASSUME EvictWake
      PROVE  TypeOK'
  BY ActorsAssumption, NoSessionAssumption, MaxSessionsAssumption,
     MaxWaitersAssumption, MaxCrashesAssumption, <1>19
     DEF IInv, EvictWake, TypeOK, Threads, Roles, Points, AcquirePoints, LentPoints,
         Capacity, Goto, poolVars, sessionVars
<1>20. ASSUME EvictScan
      PROVE  TypeOK'
  <2>1. CASE idle = <<>>
    BY <1>20, <2>1
       DEF IInv, TypeOK, EvictScan, Goto, Points, AcquirePoints, LentPoints,
           sessionVars
  <2>2. CASE idle # <<>>
    <3>1. /\ Head(idle) \in Sessions /\ Tail(idle) \in Seq(Sessions)
          /\ Append(keep, Head(idle)) \in Seq(Sessions)
      BY <2>2, HeadAndTail, AppendOne DEF IInv, TypeOK
    <3>2. CASE Head(idle) \in stale
      BY <1>20, <2>2, <3>1, <3>2
         DEF IInv, TypeOK, EvictScan, RetireThen, Take, Goto, Points, AcquirePoints,
             LentPoints, sessionVars
    <3>3. CASE Head(idle) \notin stale
      BY <1>20, <2>2, <3>1, <3>3 DEF IInv, TypeOK, EvictScan, sessionVars
    <3>. QED
      BY <3>2, <3>3
  <2>. QED
    BY <2>1, <2>2
<1>21. ASSUME EvictPutBack
      PROVE  TypeOK'
  <2>1. CASE keep = <<>>
    BY <1>21, <2>1
       DEF IInv, TypeOK, EvictPutBack, Goto, Points, AcquirePoints, LentPoints,
           sessionVars
  <2>2. CASE keep # <<>>
    <3>1. /\ Head(keep) \in Sessions /\ Tail(keep) \in Seq(Sessions)
          /\ Append(idle, Head(keep)) \in Seq(Sessions)
      BY <2>2, HeadAndTail, AppendOne DEF IInv, TypeOK
    <3>2. CASE Len(idle) < MaxSessions
      BY <1>21, <2>2, <3>1, <3>2 DEF IInv, TypeOK, EvictPutBack, sessionVars
    <3>3. CASE ~(Len(idle) < MaxSessions)
      BY <1>21, <2>2, <3>1, <3>3
         DEF IInv, TypeOK, EvictPutBack, RetireThen, Take, Goto, Points,
             AcquirePoints, LentPoints, sessionVars
    <3>. QED
      BY <3>2, <3>3
  <2>. QED
    BY <2>1, <2>2
<1>22. ASSUME CloseBegin
      PROVE  TypeOK'
  BY ActorsAssumption, NoSessionAssumption, MaxSessionsAssumption,
     MaxWaitersAssumption, MaxCrashesAssumption, <1>22
     DEF IInv, CloseBegin, TypeOK, Threads, Roles, Points, AcquirePoints,
         LentPoints, Capacity, threadVars, sessionVars
<1>23. ASSUME CloseTask
      PROVE  TypeOK'
  BY ActorsAssumption, NoSessionAssumption, MaxSessionsAssumption,
     MaxWaitersAssumption, MaxCrashesAssumption, <1>23
     DEF IInv, CloseTask, TypeOK, Threads, Roles, Points, AcquirePoints, LentPoints,
         Capacity, poolVars, threadVars
<1>24. ASSUME CloseShutdown
      PROVE  TypeOK'
  BY ActorsAssumption, NoSessionAssumption, MaxSessionsAssumption,
     MaxWaitersAssumption, MaxCrashesAssumption, <1>24
     DEF IInv, CloseShutdown, TypeOK, Threads, Roles, Points, AcquirePoints,
         LentPoints, Capacity, poolVars, threadVars
<1>25. ASSUME CloseEnd
      PROVE  TypeOK'
  BY ActorsAssumption, NoSessionAssumption, MaxSessionsAssumption,
     MaxWaitersAssumption, MaxCrashesAssumption, <1>25
     DEF IInv, CloseEnd, TypeOK, Threads, Roles, Points, AcquirePoints, LentPoints,
         Capacity, threadVars, sessionVars
<1>26. ASSUME Crash
      PROVE  TypeOK'
  BY ActorsAssumption, NoSessionAssumption, MaxSessionsAssumption,
     MaxWaitersAssumption, MaxCrashesAssumption, <1>26
     DEF IInv, Crash, TypeOK, Threads, Roles, Points, AcquirePoints, LentPoints,
         Capacity, poolVars, threadVars
<1>27. ASSUME Age
      PROVE  TypeOK'
  <2>1. InQueue(idle) \cup InQueue(keep) \subseteq Sessions
    BY DEF IInv, TypeOK, InQueue
  <2>. QED
    BY <1>27, <2>1 DEF IInv, TypeOK, Age, poolVars, threadVars
<1>28. ASSUME Terminated
      PROVE  TypeOK'
  BY ActorsAssumption, NoSessionAssumption, MaxSessionsAssumption,
     MaxWaitersAssumption, MaxCrashesAssumption, <1>28
     DEF IInv, Terminated, TypeOK, Threads, Roles, Points, AcquirePoints,
         LentPoints, Capacity, poolVars, threadVars, sessionVars, vars
<1>29. CASE UNCHANGED vars
  BY <1>29
     DEF IInv, vars, TypeOK, Threads, Roles, Points, AcquirePoints, LentPoints,
         Capacity, Goto, Take, LetGo, RetireThen, poolVars, threadVars, sessionVars
<1>. QED
  BY <1>1, <1>2, <1>3, <1>4, <1>5, <1>6, <1>7, <1>8, <1>9, <1>10, <1>11, <1>12,
     <1>13, <1>14, <1>15, <1>16, <1>17, <1>18, <1>19, <1>20, <1>21, <1>22, <1>23,
     <1>24, <1>25, <1>26, <1>27, <1>28, <1>29
     DEF Next, RequestStep, DiscardStep, EvictStep, CloseStep

-----------------------------------------------------------------------------
(* The theorems.                                                           *)

\* The pool starts in a state of the inductive invariant.
LEMMA InitIInv == Init => IInv
<1>. SUFFICES ASSUME Init PROVE IInv
  OBVIOUS
<1>. USE ActorsAssumption, NoSessionAssumption, MaxSessionsAssumption,
         MaxWaitersAssumption, MaxCrashesAssumption
<1>1. TypeOK
  BY DEF Init, TypeOK, Threads, Capacity, Points, AcquirePoints, LentPoints
<1>2. Roles
  BY DEF Init, Roles, Threads, EvictorPoints, RequestPoints, HoldingPoints,
         Points, AcquirePoints, LentPoints
<1>3. MonitorHeld
  BY DEF Init, MonitorHeld, Threads
<1>4. Live = {}
  BY DEF Init, Live
<1>5. Slots
  <2>1. IsFiniteSet(Live) /\ Cardinality(Live) = 0
    BY <1>4, FS_EmptySet
  <2>. QED
    BY <1>4, <2>1 DEF Init, Slots, Threads
<1>6. Owned
  BY EmptyQueue DEF Init, Owned, SoleOwner, Reachable, Held
<1>7. PermitsConserved
  <2>1. Inside = {}
    BY DEF Init, Inside, Threads
  <2>2. Cardinality(Inside) = 0
    BY <2>1, FS_EmptySet
  <2>. QED
    BY <2>2 DEF Init, PermitsConserved, Capacity
<1>. QED
  BY <1>1, <1>2, <1>3, <1>5, <1>6, <1>7 DEF IInv

\* Every step of the pool, of any thread, keeps the inductive invariant.
LEMMA NextIInv == IInv /\ [Next]_vars => IInv'
  BY PermitsStep, RolesStep, MonitorStep, SlotsStep, OwnedStep, TypeStep DEF IInv

\* The inductive invariant holds in every reachable state.
THEOREM Invariance == Spec => []IInv
  BY InitIInv, NextIInv, PTL DEF Spec

\* The variables keep their types; among them, the permits of the semaphore
\* stay between none and all.
THEOREM TypeCorrect == Spec => []TypeOK
<1>1. IInv => TypeOK
  BY DEF IInv
<1>. QED
  BY <1>1, Invariance, PTL

\* A session is never idle and borrowed, borrowed twice or queued twice.
THEOREM OneOwner == Spec => []SoleOwner
<1>1. IInv => SoleOwner
  BY DEF IInv, Owned
<1>. QED
  BY <1>1, Invariance, PTL

\* No way through withSession loses a permit of the admission semaphore or
\* gives one back twice.
THEOREM PermitsAddUp == Spec => []PermitsConserved
<1>1. IInv => PermitsConserved
  BY DEF IInv
<1>. QED
  BY <1>1, Invariance, PTL

\* However requests, evictions, discards and the shutdown interleave, at most
\* MaxSessions browsers run.
THEOREM PoolBounded == Spec => []BrowserBound
<1>1. ASSUME IInv PROVE BrowserBound
  <2>. DEFINE Up == {s \in Sessions : chromium[s] = "up"}
  <2>1. Up \in SUBSET Live
    BY <1>1 DEF IInv, Slots
  <2>2. IsFiniteSet(Live) /\ Cardinality(Live) <= MaxSessions
    BY <1>1 DEF IInv, Slots
  <2>3. /\ Cardinality(Up) <= Cardinality(Live)
        /\ Cardinality(Up) \in Nat /\ Cardinality(Live) \in Nat
    BY <2>1, <2>2, FS_Subset, FS_CardinalityType
  <2>. QED
    BY <2>2, <2>3, MaxSessionsAssumption DEF BrowserBound
<1>. QED
  BY <1>1, Invariance, PTL

\* A session on its way back always finds room in the queue: the sessions in
\* the queue, those the evictor keeps and the one in hand are distinct live
\* objects, and there are at most MaxSessions of those.
THEOREM OfferAlwaysFits == Spec => []OfferFits
<1>1. ASSUME IInv PROVE OfferFits
  <2>. TypeOK /\ Roles /\ Slots /\ SoleOwner /\ Reachable \subseteq Live
    BY <1>1 DEF IInv, Owned
  <2>. DEFINE Queued == InQueue(idle) \cup InQueue(keep)
  <2>1. /\ IsFiniteSet(InQueue(idle)) /\ Cardinality(InQueue(idle)) = Len(idle)
        /\ IsFiniteSet(InQueue(keep)) /\ Cardinality(InQueue(keep)) = Len(keep)
    BY DistinctCardinality DEF SoleOwner, TypeOK
  <2>2. InQueue(idle) \cap InQueue(keep) = {}
    BY DEF SoleOwner
  <2>3. IsFiniteSet(Live) /\ Cardinality(Live) \in Nat /\ Cardinality(Live) <= MaxSessions
    BY FS_CardinalityType DEF Slots
  <2>4. Len(idle) \in Nat /\ Len(keep) \in Nat
    BY DEF TypeOK
  <2>5. IsFiniteSet(Queued) /\ Cardinality(Queued) = Len(idle) + Len(keep)
    <3>1. /\ IsFiniteSet(Queued)
          /\ Cardinality(Queued) = Cardinality(InQueue(idle)) + Cardinality(InQueue(keep))
                                   - Cardinality(InQueue(idle) \cap InQueue(keep))
      BY <2>1, FS_Union
    <3>2. Cardinality(InQueue(idle) \cap InQueue(keep)) = 0
      BY <2>2, FS_EmptySet
    <3>. QED
      BY <2>1, <2>4, <3>1, <3>2
  <2>6. Queued \in SUBSET Live
    BY DEF Reachable
  <2>7. Cardinality(Queued) <= Cardinality(Live)
    BY <2>3, <2>6, FS_Subset
  <2>8. Len(keep) + Len(idle) <= MaxSessions
    BY <2>3, <2>4, <2>5, <2>7, MaxSessionsAssumption
  <2>9. ASSUME NEW r \in Requests, pc[r] = "offer"
        PROVE  Len(idle) < MaxSessions
    <3>1. held[r] \in Live /\ held[r] \notin Queued
      BY <2>9 DEF Roles, Threads, HoldingPoints, LentPoints, Reachable, Held, SoleOwner
    <3>2. IsFiniteSet(Queued \cup {held[r]})
          /\ Cardinality(Queued \cup {held[r]}) = Cardinality(Queued) + 1
      BY <2>5, <3>1, FS_AddElement
    <3>3. Queued \cup {held[r]} \in SUBSET Live
      BY <2>6, <3>1
    <3>4. Cardinality(Queued \cup {held[r]}) <= Cardinality(Live)
      BY <2>3, <3>3, FS_Subset
    <3>. QED
      BY <2>3, <2>4, <2>5, <3>2, <3>4, MaxSessionsAssumption
  <2>. QED
    BY <2>8, <2>9 DEF OfferFits
<1>. QED
  BY <1>1, Invariance, PTL

\* While the pool is open nobody but the request itself closes the browser a
\* request works with: not the evictor, not the discard of another request.
THEOREM OnlyOwnerCloses == Spec => ClosedByOwnerOnly
<1>. DEFINE Untouched ==
       \A r \in Requests :
          /\ pc[r] \in LentPoints
          /\ chromium[held[r]] = "up"
          /\ chromium'[held[r]] = "none"
          => closed
<1>1. ASSUME IInv, [Next]_vars PROVE [Untouched]_vars
  <2>0. SUFFICES ASSUME Next PROVE Untouched
    BY <1>1
  <2>1. SUFFICES ASSUME NEW r \in Requests,
                        pc[r] \in LentPoints,
                        chromium[held[r]] = "up",
                        chromium'[held[r]] = "none"
                 PROVE  closed
    OBVIOUS
  <2>2. /\ r \in Threads /\ held[r] \in Sessions
        /\ chromium \in [Sessions -> {"none", "up", "crashed"}]
    <3>1. r \in Threads
      BY DEF Threads
    <3>2. held[r] # NoSession /\ held[r] \in Sessions \cup {NoSession}
      BY <1>1, <2>1, <3>1 DEF IInv, TypeOK, Roles, HoldingPoints
    <3>. QED
      BY <1>1, <3>1, <3>2 DEF IInv, TypeOK
  <2>3. ASSUME NEW u \in Requests, RequestStep(u) PROVE FALSE
    <3>1. chromium' = chromium \/ Start(u) \/ Restart(u)
      BY <2>3 DEF RequestStep, Arrive, Admit, Poll, Create, CreateRefused, Expire,
                  Deadline, Await, Check, WorkEnds, Return, Probe, Offer, Release,
                  sessionVars
    <3>2. CASE Start(u)
      BY <2>1, <2>2, <3>2 DEF Start, StartSucceeds, StartFails
    <3>3. CASE Restart(u)
      BY <2>1, <2>2, <3>3 DEF Restart, StartSucceeds, StartFails
    <3>. QED
      BY <2>1, <3>1, <3>2, <3>3
  <2>4. ASSUME NEW t \in Threads, DiscardStep(t) PROVE FALSE
    <3>1. CASE DiscardEnter(t)
      BY <2>1, <3>1 DEF DiscardEnter, sessionVars
    <3>2. CASE DiscardLeave(t)
      <4>1. held[t] = held[r]
        BY <2>1, <2>2, <3>2 DEF DiscardLeave
      <4>2. t # r
        BY <2>1, <3>2 DEF DiscardLeave, LentPoints
      <4>3. held[r] = NoSession
        BY <1>1, <2>2, <4>1, <4>2 DEF IInv, Owned, SoleOwner
      <4>. QED
        BY <2>2, <4>3, NoSessionAssumption
    <3>. QED
      BY <2>4, <3>1, <3>2 DEF DiscardStep
  <2>5. CASE EvictStep
    BY <2>1, <2>5 DEF EvictStep, EvictWake, EvictScan, EvictPutBack, sessionVars
  <2>6. CASE CloseStep
    <3>1. CASE CloseTask
      BY <3>1 DEF CloseTask, closed
    <3>2. CASE CloseBegin \/ CloseShutdown \/ CloseEnd
      BY <2>1, <3>2 DEF CloseBegin, CloseShutdown, CloseEnd, sessionVars
    <3>. QED
      BY <2>6, <3>1, <3>2 DEF CloseStep
  <2>7. CASE Crash
    BY <2>1, <2>2, <2>7 DEF Crash
  <2>8. CASE Age
    BY <2>1, <2>8 DEF Age
  <2>9. CASE Terminated
    BY <2>1, <2>9 DEF Terminated, vars, sessionVars
  <2>. QED
    BY <2>0, <2>3, <2>4, <2>5, <2>6, <2>7, <2>8, <2>9 DEF Next
<1>2. Spec => [][Untouched]_vars
  BY <1>1, Invariance, PTL DEF Spec
<1>. QED
  BY <1>2 DEF ClosedByOwnerOnly
-----------------------------------------------------------------------------
(* The pool implements SessionLending, what withSession promises its       *)
(* callers.  A permit is there exactly while the abstract pool may let a   *)
(* request in (PermitsConserved), and a request that is about to be lent a *)
(* session holds a live object that no lent request holds (SoleOwner,      *)
(* Slots), so fewer than MaxSessions are lent.                             *)

\* The state of the abstract pool.
Lent == [r \in Requests |-> LendingState(r)]

\* How a step may change the state of request r.
Stands(r) == LendingState(r)' = LendingState(r)
Changes(r, from, to) == LendingState(r) \in from /\ LendingState(r)' = to

\* The states of a request, by the point of its code.
LEMMA StatesOfPoints ==
    ASSUME NEW r \in Requests
    PROVE  /\ pc[r] \in {"out", "admit"} => LendingState(r) = "out"
           /\ pc[r] \in AcquirePoints => LendingState(r) = "queued"
           /\ pc[r] \in LentPoints => LendingState(r) = "lent"
           /\ pc[r] = "release" => LendingState(r) = "served"
           /\ pc[r] \in {"retire", "closing"} =>
                LendingState(r) = IF then[r] = "poll" THEN "queued" ELSE "served"
           /\ LendingState(r) \in {"out", "queued", "lent", "served"}
           /\ LendingState(r) = "out" => pc[r] \in {"out", "admit"}
           /\ LendingState(r) = "lent" => pc[r] \in LentPoints
  BY DEF LendingState, AcquirePoints, LentPoints

\* The same after a step.
LEMMA StatesOfPointsAfter ==
    ASSUME NEW r \in Requests
    PROVE  /\ pc'[r] \in {"out", "admit"} => LendingState(r)' = "out"
           /\ pc'[r] \in AcquirePoints => LendingState(r)' = "queued"
           /\ pc'[r] \in LentPoints => LendingState(r)' = "lent"
           /\ pc'[r] = "release" => LendingState(r)' = "served"
           /\ pc'[r] \in {"retire", "closing"} =>
                LendingState(r)' = IF then'[r] = "poll" THEN "queued" ELSE "served"
  BY DEF LendingState, AcquirePoints, LentPoints

\* Who stays at a point of its code stays where it is in the abstract pool.
LEMMA Unmoved ==
    ASSUME NEW r \in Requests, pc'[r] = pc[r], then'[r] = then[r]
    PROVE  Stands(r)
  BY DEF Stands, LendingState

\* A request thread moves nobody else.
LEMMA OthersStand ==
    ASSUME IInv, NEW r \in Requests, RequestStep(r), NEW q \in Requests \ {r}
    PROVE  Stands(q)
<1>. pc \in [Threads -> Points] /\ then \in [Threads -> {"poll", "release", "scan", "putback"}]
     /\ r \in Threads /\ q \in Threads /\ q # r
  BY DEF IInv, TypeOK, Threads
<1>1. pc'[q] = pc[q]
  BY DEF RequestStep, Arrive, Admit, Poll, Create, CreateRefused, Start, Expire, Deadline,
         Await, Check, Restart, WorkEnds, Return, Probe, Offer, Release,
         Goto, Take, LetGo, RetireThen
<1>2. then'[q] = then[q]
  BY DEF RequestStep, Arrive, Admit, Poll, Create, CreateRefused, Start, Expire, Deadline,
         Await, Check, Restart, WorkEnds, Return, Probe, Offer, Release,
         Goto, Take, LetGo, RetireThen
<1>. QED
  BY <1>1, <1>2, Unmoved

\* What a step of a request means to the abstract pool.
LEMMA RequestMoves ==
    ASSUME IInv, NEW r \in Requests, RequestStep(r)
    PROVE  \/ Stands(r)
           \/ Changes(r, {"out"}, "queued") /\ permits > 0
           \/ Changes(r, {"queued"}, "lent") /\ held[r] # NoSession
           \/ Changes(r, {"queued", "lent"}, "served")
           \/ Changes(r, {"served"}, "out")
<1>. pc \in [Threads -> Points] /\ then \in [Threads -> {"poll", "release", "scan", "putback"}]
     /\ r \in Threads
  BY DEF IInv, TypeOK, Threads
<1>0. pc[r] \in {"start", "check"} => held[r] # NoSession
  BY DEF IInv, Roles, HoldingPoints
<1>. USE DEF Stands, Changes, AcquirePoints, LentPoints, Goto, Take, LetGo, RetireThen
<1>1. CASE Arrive(r)
  BY <1>1, StatesOfPoints, StatesOfPointsAfter DEF Arrive
<1>2. CASE Admit(r)
  BY <1>2, StatesOfPoints, StatesOfPointsAfter DEF Admit
<1>3. CASE Poll(r)
  BY <1>3, StatesOfPoints, StatesOfPointsAfter DEF Poll
<1>4. CASE Create(r)
  BY <1>4, StatesOfPoints, StatesOfPointsAfter DEF Create
<1>5. CASE CreateRefused(r)
  BY <1>5, StatesOfPoints, StatesOfPointsAfter DEF CreateRefused
<1>6. CASE Start(r)
  <2>1. pc[r] = "start" /\ LendingState(r) = "queued"
    BY <1>6, StatesOfPoints DEF Start
  <2>2. \/ pc'[r] = "restart"
        \/ pc'[r] = "retire" /\ then'[r] = "release"
        \/ pc'[r] = "release"
    BY <1>6 DEF Start
  <2>. QED
    BY <1>0, <2>1, <2>2, StatesOfPointsAfter
<1>7. CASE Expire(r)
  BY <1>7, Unmoved DEF Expire
<1>8. CASE Deadline(r)
  BY <1>8, StatesOfPoints, StatesOfPointsAfter DEF Deadline
<1>9. CASE Await(r)
  BY <1>9, StatesOfPoints, StatesOfPointsAfter DEF Await
<1>10. CASE Check(r)
  <2>1. pc[r] = "check" /\ LendingState(r) = "queued"
    BY <1>10, StatesOfPoints DEF Check
  <2>2. pc'[r] = "restart" \/ (pc'[r] = "retire" /\ then'[r] = "poll")
    BY <1>10 DEF Check
  <2>. QED
    BY <1>0, <2>1, <2>2, StatesOfPointsAfter
<1>11. CASE Restart(r)
  BY <1>11, StatesOfPoints, StatesOfPointsAfter DEF Restart
<1>12. CASE WorkEnds(r)
  BY <1>12, StatesOfPoints, StatesOfPointsAfter DEF WorkEnds
<1>13. CASE Return(r)
  <2>1. LendingState(r) = "lent"
    BY <1>13, StatesOfPoints DEF Return
  <2>2. pc'[r] = "probe" \/ (pc'[r] = "retire" /\ then'[r] = "release")
    BY <1>13 DEF Return
  <2>. QED
    BY <2>1, <2>2, StatesOfPointsAfter
<1>14. CASE Probe(r)
  <2>1. LendingState(r) = "lent"
    BY <1>14, StatesOfPoints DEF Probe
  <2>2. pc'[r] = "offer" \/ (pc'[r] = "retire" /\ then'[r] = "release")
    BY <1>14 DEF Probe
  <2>. QED
    BY <2>1, <2>2, StatesOfPointsAfter
<1>15. CASE Offer(r)
  <2>1. LendingState(r) = "lent"
    BY <1>15, StatesOfPoints DEF Offer
  <2>2. pc'[r] = "release" \/ (pc'[r] = "retire" /\ then'[r] = "release")
    BY <1>15 DEF Offer
  <2>. QED
    BY <2>1, <2>2, StatesOfPointsAfter
<1>16. CASE Release(r)
  BY <1>16, StatesOfPoints, StatesOfPointsAfter DEF Release
<1>. QED
  BY <1>1, <1>2, <1>3, <1>4, <1>5, <1>6, <1>7, <1>8, <1>9, <1>10, <1>11, <1>12,
     <1>13, <1>14, <1>15, <1>16 DEF RequestStep

\* Nobody but a request takes a step of the abstract pool.
LEMMA RestStand ==
    ASSUME IInv, NEW q \in Requests,
           \/ \E t \in Threads : DiscardStep(t)
           \/ EvictStep \/ CloseStep \/ Crash \/ Age \/ Terminated
           \/ UNCHANGED vars
    PROVE  Stands(q)
<1>. pc \in [Threads -> Points] /\ then \in [Threads -> {"poll", "release", "scan", "putback"}]
     /\ q \in Threads /\ Evictor \in Threads /\ q # Evictor /\ then[q] \in {"poll", "release"}
  BY ActorsAssumption DEF IInv, TypeOK, Threads, Roles
<1>1. ASSUME NEW t \in Threads, DiscardEnter(t)
      PROVE  Stands(q)
  <2>1. then' = then /\ (pc'[q] = pc[q] \/ (pc[q] = "retire" /\ pc'[q] = "closing"))
    BY <1>1 DEF DiscardEnter, Goto
  <2>. QED
    BY <2>1, Unmoved, StatesOfPoints, StatesOfPointsAfter DEF Stands
<1>2. ASSUME NEW t \in Threads, DiscardLeave(t)
      PROVE  Stands(q)
  <2>1. then' = then /\ (pc'[q] = pc[q] \/ (pc[q] = "closing" /\ pc'[q] = then[q]))
    BY <1>2 DEF DiscardLeave, LetGo, Take, Goto
  <2>. QED
    BY <2>1, Unmoved, StatesOfPoints, StatesOfPointsAfter DEF Stands, AcquirePoints
<1>3. CASE EvictStep
  <2>1. pc'[q] = pc[q] /\ then'[q] = then[q]
    BY <1>3 DEF EvictStep, EvictWake, EvictScan, EvictPutBack, Goto, Take, RetireThen
  <2>. QED
    BY <2>1, Unmoved
<1>4. CASE CloseStep \/ Crash \/ Age \/ Terminated \/ UNCHANGED vars
  <2>1. UNCHANGED threadVars
    BY <1>4 DEF CloseStep, CloseBegin, CloseTask, CloseShutdown, CloseEnd, Crash, Age,
                Terminated, vars
  <2>. QED
    BY <2>1, Unmoved DEF threadVars
<1>. QED
  BY <1>1, <1>2, <1>3, <1>4 DEF DiscardStep

-----------------------------------------------------------------------------
(* The refinement.                                                         *)

\* The abstract pool counts as this module does.
LEMMA SameCount ==
    ASSUME NEW S
    PROVE  Lending!Cardinality(S) = Cardinality(S)
  BY DEF Lending!Cardinality, Cardinality

\* The requests that are in the abstract pool are inside the pool.
LEMMA SetsOfStates ==
    /\ {r \in Requests : Lent[r] \in {"queued", "lent", "served"}} = Inside
    /\ {r \in Requests : Lent[r] \in {"lent"}} = {r \in Requests : pc[r] \in LentPoints}
<1>1. \A r \in Requests : Lent[r] = LendingState(r)
  BY DEF Lent
<1>2. \A r \in Requests : Lent[r] \in {"queued", "lent", "served"} <=> pc[r] \notin {"out", "admit"}
  BY <1>1, StatesOfPoints
<1>3. \A r \in Requests : Lent[r] = "lent" <=> pc[r] \in LentPoints
  BY <1>1, StatesOfPoints
<1>. QED
  BY <1>2, <1>3 DEF Inside

\* A request that gets a session is one of at most MaxSessions: those that have
\* one hold different live objects, and it holds another.
LEMMA RoomToLend ==
    ASSUME IInv, NEW r \in Requests, held[r] # NoSession, pc[r] \notin LentPoints
    PROVE  Cardinality({q \in Requests : pc[q] \in LentPoints}) < MaxSessions
<1>. DEFINE L == {q \in Requests : pc[q] \in LentPoints}
            M == L \cup {r}
            h == [q \in M |-> held[q]]
<1>1. \A q \in M : q \in Threads /\ held[q] # NoSession /\ held[q] \in Live
  <2>1. \A q \in M : q \in Threads
    BY DEF Threads
  <2>2. \A q \in M : held[q] # NoSession
    BY <2>1 DEF IInv, Roles, HoldingPoints
  <2>. QED
    BY <2>1, <2>2 DEF IInv, Owned, Reachable, Held
<1>2. \A q, p \in M : held[q] = held[p] => q = p
  BY <1>1 DEF IInv, Owned, SoleOwner
<1>3. h \in Injection(M, Live)
  BY <1>1, <1>2 DEF Injection, IsInjective
<1>4. IsFiniteSet(Live) /\ Cardinality(Live) <= MaxSessions /\ Cardinality(Live) \in Nat
  BY FS_CardinalityType DEF IInv, Slots
<1>5. IsFiniteSet(M) /\ Cardinality(M) <= Cardinality(Live)
  BY <1>3, <1>4, FS_Injection DEF ExistsInjection
<1>6. IsFiniteSet(L) /\ r \notin L
  BY RequestsAssumption, FS_Subset
<1>7. Cardinality(M) = Cardinality(L) + 1 /\ Cardinality(L) \in Nat
  BY <1>6, FS_AddElement, FS_CardinalityType
<1>. QED
  BY <1>4, <1>5, <1>7, MaxSessionsAssumption

\* One request changes its state, the others do not.
LEMMA MovesOne ==
    ASSUME NEW r \in Requests, NEW to, LendingState(r)' = to,
           \A q \in Requests \ {r} : Stands(q)
    PROVE  Lent' = [Lent EXCEPT ![r] = to]
  BY DEF Lent, Stands

\* Every step of the pool is one of the abstract pool or none.
LEMMA LendingStep ==
    ASSUME IInv, [Next]_vars
    PROVE  [Lending!LendNext]_Lent
<1>1. CASE \A q \in Requests : Stands(q)
  BY <1>1 DEF Lent, Stands
<1>2. ASSUME NEW r \in Requests, RequestStep(r), ~Stands(r)
      PROVE  Lending!LendNext
  <2>0. Lent[r] = LendingState(r) /\ \A q \in Requests \ {r} : Stands(q)
    BY <1>2, OthersStand DEF Lent
  <2>1. CASE Changes(r, {"out"}, "queued") /\ permits > 0
    <3>1. Cardinality(Inside) < MaxSessions + MaxWaiters
      <4>1. Cardinality(Inside) \in Nat /\ permits \in Nat /\ permits + Cardinality(Inside) = Capacity
        BY InsideFinite, FS_CardinalityType, MaxSessionsAssumption, MaxWaitersAssumption
           DEF IInv, TypeOK, Capacity, PermitsConserved
      <4>. QED
        BY <2>1, <4>1, MaxSessionsAssumption, MaxWaitersAssumption DEF Capacity
    <3>2. Lent[r] = "out" /\ Lent' = [Lent EXCEPT ![r] = "queued"]
      BY <2>0, <2>1, MovesOne DEF Changes
    <3>3. Lending!Enter(r)
      BY <3>1, <3>2, SetsOfStates, SameCount DEF Lending!Enter, Lending!In, Lent
    <3>. QED
      BY <3>3 DEF Lending!LendNext
  <2>2. CASE Changes(r, {"queued"}, "lent") /\ held[r] # NoSession
    <3>1. Lent[r] = "queued" /\ Lent' = [Lent EXCEPT ![r] = "lent"]
      BY <2>0, <2>2, MovesOne DEF Changes
    <3>2. pc[r] \notin LentPoints
      BY <2>0, <3>1, StatesOfPoints
    <3>3. Cardinality({q \in Requests : pc[q] \in LentPoints}) < MaxSessions
      BY <2>2, <3>2, RoomToLend
    <3>4. Lending!Lend(r)
      BY <3>1, <3>3, SetsOfStates, SameCount DEF Lending!Lend, Lending!In, Lent
    <3>. QED
      BY <3>4 DEF Lending!LendNext
  <2>3. CASE Changes(r, {"queued", "lent"}, "served")
    <3>1. Lent[r] \in {"queued", "lent"} /\ Lent' = [Lent EXCEPT ![r] = "served"]
      BY <2>0, <2>3, MovesOne DEF Changes
    <3>2. Lending!Settle(r)
      BY <3>1 DEF Lending!Settle, Lent
    <3>. QED
      BY <3>2 DEF Lending!LendNext
  <2>4. CASE Changes(r, {"served"}, "out")
    <3>1. Lent[r] = "served" /\ Lent' = [Lent EXCEPT ![r] = "out"]
      BY <2>0, <2>4, MovesOne DEF Changes
    <3>2. Lending!Leave(r)
      BY <3>1 DEF Lending!Leave, Lent
    <3>. QED
      BY <3>2 DEF Lending!LendNext
  <2>. QED
    BY <1>2, <2>1, <2>2, <2>3, <2>4, RequestMoves
<1>3. ASSUME NEW r \in Requests, RequestStep(r), Stands(r)
      PROVE  \A q \in Requests : Stands(q)
  BY <1>3, OthersStand
<1>4. CASE ~\E r \in Requests : RequestStep(r)
  BY <1>1, <1>4, RestStand DEF Next
<1>. QED
  BY <1>1, <1>2, <1>3, <1>4

\* The pool implements the lending of sessions: bounded admission, at most
\* MaxSessions requests with a session, each lent one at most once a call.
THEOREM PoolLendsSessions == Spec => LendsSessions
<1>1. Init => Lending!LendInit
  <2>1. ASSUME Init, NEW r \in Requests
        PROVE  LendingState(r) = "out"
    <3>1. pc[r] = "out"
      BY <2>1, ActorsAssumption DEF Init, Threads
    <3>. QED
      BY <3>1, StatesOfPoints
  <2>. QED
    BY <2>1 DEF Lending!LendInit
<1>2. IInv /\ [Next]_vars => [Lending!LendNext]_Lent
  BY LendingStep
<1>. QED
  BY <1>1, <1>2, Invariance, PTL DEF Spec, LendsSessions, Lending!LendSpec, Lent

-----------------------------------------------------------------------------
(* No slot is lost.                                                        *)

\* A step that neither adds a session to the list nor loses sight of one.
Keeps == all' \subseteq all /\ Reachable' = Reachable

\* A request keeps sight of the sessions on the list, and of the one it creates.
LEMMA RequestKeeps ==
    ASSUME IInv, StartErrors = FALSE, NEW r \in Requests, RequestStep(r)
    PROVE  Keeps \/ \E s \in Sessions : all' = all \cup {s} /\ Reachable' = Reachable \cup {s}
<1>. TypeOK /\ SoleOwner /\ Roles /\ held \in [Threads -> Sessions \cup {NoSession}] /\ r \in Threads
  BY DEF IInv, TypeOK, Owned, Threads
<1>1. CASE UNCHANGED <<idle, keep, held, all>>
  BY <1>1, MoveNothing DEF Keeps
<1>2. CASE \/ Arrive(r) \/ Admit(r) \/ CreateRefused(r) \/ Expire(r) \/ Deadline(r)
           \/ Restart(r) \/ WorkEnds(r) \/ Release(r)
  BY <1>1, <1>2 DEF Arrive, Admit, CreateRefused, Expire, Deadline, Restart, WorkEnds,
                    Release, poolVars
<1>3. CASE Start(r) \/ Check(r) \/ Return(r) \/ Probe(r)
  <2>1. held' = held
    BY <1>3 DEF Start, Check, Return, Probe, RetireThen, Take
  <2>. QED
    BY <1>1, <1>3, <2>1 DEF Start, Check, Return, Probe, poolVars
<1>4. CASE Poll(r) \/ Await(r)
  <2>1. CASE UNCHANGED <<idle, held>>
    BY <1>1, <1>4, <2>1 DEF Poll, Await
  <2>2. CASE /\ idle # <<>> /\ idle' = Tail(idle)
             /\ held' = [held EXCEPT ![r] = Head(idle)]
    <3>1. held[r] = NoSession
      BY <1>4 DEF Poll, Await, Roles, HoldingPoints, LentPoints
    <3>. QED
      BY <1>4, <2>2, <3>1, MoveIdleToThread DEF Poll, Await, Keeps
  <2>. QED
    BY <1>4, <2>1, <2>2 DEF Poll, Await, Take
<1>5. CASE Create(r)
  <2>1. PICK s \in Sessions : /\ life[s] = "absent" /\ all' = all \cup {s}
                              /\ held' = [held EXCEPT ![r] = s]
    BY <1>5 DEF Create, Take
  <2>2. held[r] = NoSession
    BY <1>5 DEF Create, Roles, HoldingPoints, LentPoints
  <2>3. idle' = idle /\ keep' = keep
    BY <1>5 DEF Create
  <2>4. Held' = Held \cup {s}
    <3>1. held'[r] = s /\ \A u \in Threads \ {r} : held'[u] = held[u]
      BY <2>1
    <3>. QED
      BY <2>2, <3>1, NoSessionAssumption DEF Held
  <2>. QED
    BY <2>1, <2>3, <2>4 DEF Reachable
<1>6. CASE Offer(r)
  <2>1. held[r] # NoSession
    BY <1>6 DEF Offer, Roles, HoldingPoints, LentPoints
  <2>2. CASE Len(idle) < MaxSessions
    BY <1>6, <2>1, <2>2, MoveThreadToIdle DEF Offer, LetGo, Take, Keeps
  <2>3. CASE ~(Len(idle) < MaxSessions)
    <3>1. held' = held
      BY <1>6, <2>3 DEF Offer, RetireThen, Take
    <3>. QED
      BY <1>1, <1>6, <2>3, <3>1 DEF Offer
  <2>. QED
    BY <2>2, <2>3
<1>. QED
  BY <1>2, <1>3, <1>4, <1>5, <1>6 DEF RequestStep

\* The evictor keeps sight of the sessions it takes out.
LEMMA EvictorKeeps ==
    ASSUME IInv, EvictStep
    PROVE  Keeps
<1>. TypeOK /\ SoleOwner /\ Roles /\ Evictor \in Threads
  BY DEF IInv, Owned, Threads
<1>0. pc[Evictor] \in {"asleep", "scan", "putback"} => held[Evictor] = NoSession
  BY DEF Roles, HoldingPoints, LentPoints
<1>1. CASE UNCHANGED <<idle, keep, held, all>>
  BY <1>1, MoveNothing DEF Keeps
<1>2. CASE EvictWake
  BY <1>1, <1>2 DEF EvictWake, poolVars
<1>3. CASE EvictScan
  <2>1. CASE idle = <<>>
    BY <1>1, <1>3, <2>1 DEF EvictScan
  <2>2. CASE idle # <<>> /\ Head(idle) \in stale
    BY <1>0, <1>3, <2>2, MoveIdleToThread DEF EvictScan, RetireThen, Take, Keeps
  <2>3. CASE idle # <<>> /\ Head(idle) \notin stale
    BY <1>3, <2>3, MoveIdleToKeep DEF EvictScan, Keeps
  <2>. QED
    BY <2>1, <2>2, <2>3
<1>4. CASE EvictPutBack
  <2>1. CASE keep = <<>>
    BY <1>1, <1>4, <2>1 DEF EvictPutBack
  <2>2. CASE keep # <<>> /\ Len(idle) < MaxSessions
    BY <1>4, <2>2, MoveKeepToIdle DEF EvictPutBack, Keeps
  <2>3. CASE keep # <<>> /\ ~(Len(idle) < MaxSessions)
    BY <1>0, <1>4, <2>3, MoveKeepToThread DEF EvictPutBack, RetireThen, Take, Keeps
  <2>. QED
    BY <2>1, <2>2, <2>3
<1>. QED
  BY <1>2, <1>3, <1>4 DEF EvictStep

\* No step of the open pool loses sight of a session on the list.
LEMMA SlotsStayReachable ==
    ASSUME IInv, StartErrors = FALSE, NoSlotLeak, [Next]_vars
    PROVE  NoSlotLeak'
<1>. TypeOK /\ SoleOwner /\ Slots /\ held \in [Threads -> Sessions \cup {NoSession}]
  BY DEF IInv, TypeOK, Owned
<1>1. CASE Keeps /\ phase' = phase
  BY <1>1 DEF Keeps, NoSlotLeak, closed
<1>2. ASSUME NEW r \in Requests, RequestStep(r)
      PROVE  NoSlotLeak'
  <2>1. phase' = phase
    BY <1>2 DEF RequestStep, Arrive, Admit, Poll, Create, CreateRefused, Start, Expire,
                Deadline, Await, Check, Restart, WorkEnds, Return, Probe, Offer, Release,
                poolVars
  <2>. QED
    BY <1>1, <1>2, <2>1, RequestKeeps DEF NoSlotLeak, closed
<1>3. ASSUME NEW t \in Threads, DiscardEnter(t)
      PROVE  NoSlotLeak'
  <2>1. Keeps
    BY <1>3, MoveNothing DEF DiscardEnter, Keeps
  <2>. QED
    BY <1>1, <1>3, <2>1 DEF DiscardEnter
<1>4. ASSUME NEW t \in Threads, DiscardLeave(t)
      PROVE  NoSlotLeak'
  <2>1. held[t] \notin all
    BY <1>4 DEF DiscardLeave, Slots
  <2>2. Reachable' = Reachable \ {held[t]}
    BY <1>4, MoveThreadToNowhere DEF DiscardLeave, LetGo, Take
  <2>. QED
    BY <1>4, <2>1, <2>2 DEF DiscardLeave, NoSlotLeak, closed
<1>5. CASE EvictStep
  <2>1. phase' = phase
    BY <1>5 DEF EvictStep, EvictWake, EvictScan, EvictPutBack, poolVars
  <2>. QED
    BY <1>1, <1>5, <2>1, EvictorKeeps
<1>6. CASE CloseBegin \/ CloseEnd
  BY <1>6 DEF CloseBegin, CloseEnd, NoSlotLeak, closed
<1>7. CASE CloseTask \/ CloseShutdown \/ Crash \/ Age \/ Terminated \/ UNCHANGED vars
  <2>1. UNCHANGED <<idle, keep, held, all, phase>>
    BY <1>7 DEF CloseTask, CloseShutdown, Crash, Age, Terminated, vars, poolVars, threadVars
  <2>. QED
    BY <1>1, <2>1, MoveNothing DEF Keeps
<1>. QED
  BY <1>2, <1>3, <1>4, <1>5, <1>6, <1>7 DEF Next, DiscardStep, CloseStep

\* While launches fail with exceptions only, no session occupies a slot of the
\* open pool that nobody can give back.  (An Error passes the catch clause of
\* acquire and leaves its session on the list.)
THEOREM NoSlotIsLost ==
    ASSUME StartErrors = FALSE
    PROVE  Spec => []NoSlotLeak
<1>1. Init => NoSlotLeak
  BY DEF Init, NoSlotLeak
<1>2. IInv /\ NoSlotLeak /\ [Next]_vars => NoSlotLeak'
  BY SlotsStayReachable
<1>. QED
  BY <1>1, <1>2, Invariance, PTL DEF Spec
===============================================================================
