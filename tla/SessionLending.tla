---------------------------- MODULE SessionLending ----------------------------
(***************************************************************************)
(* What withSession promises its callers, without queues, threads or       *)
(* browsers: a bounded number of requests is inside at a time, at most     *)
(* MaxSessions of them have a session, each is lent a session at most once *)
(* per call, and a request that leaves has given its session back.         *)
(***************************************************************************)
EXTENDS Naturals, FiniteSets

CONSTANTS Requests, MaxSessions, MaxWaiters

VARIABLE state      \* "out", "queued", "lent" or "served", per request

In(S) == {r \in Requests : state[r] \in S}

LendInit == state = [r \in Requests |-> "out"]

\* A request is let in while running and queued ones are below the limit.
Enter(r) ==
    /\ state[r] = "out"
    /\ Cardinality(In({"queued", "lent", "served"})) < MaxSessions + MaxWaiters
    /\ state' = [state EXCEPT ![r] = "queued"]

\* A queued request is lent a session.
Lend(r) ==
    /\ state[r] = "queued"
    /\ Cardinality(In({"lent"})) < MaxSessions
    /\ state' = [state EXCEPT ![r] = "lent"]

\* A queued request fails without a session, or a lent one comes back.
Settle(r) ==
    /\ state[r] \in {"queued", "lent"}
    /\ state' = [state EXCEPT ![r] = "served"]

Leave(r) ==
    /\ state[r] = "served"
    /\ state' = [state EXCEPT ![r] = "out"]

LendNext == \E r \in Requests : Enter(r) \/ Lend(r) \/ Settle(r) \/ Leave(r)

LendSpec == LendInit /\ [][LendNext]_state
===============================================================================
