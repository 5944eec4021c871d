--------------------------- MODULE MCPipelineService ---------------------------
(***************************************************************************)
(* Small instances of what the requests of PipelineService share beside    *)
(* the tables and schemas: the cache of definitions and the pool of        *)
(* connections.  What is cached decides only whether a get takes a         *)
(* connection of its own, and ConnectionBudget has both; so a behaviour is *)
(* one of one of them, and the other rests as at the start.                *)
(***************************************************************************)
EXTENDS PipelineCache, ConnectionBudget

VARIABLE part   \* what the behaviour is about

serviceVars == <<part, vars, budgetVars>>

ServiceInit == part \in {"cache", "connections"} /\ Init /\ BudgetInit

CacheMoves       == part = "cache" /\ Next /\ UNCHANGED <<part, budgetVars>>
ConnectionsMove  == part = "connections" /\ BudgetNext /\ UNCHANGED <<part, vars>>

ServiceNext == CacheMoves \/ ConnectionsMove

\* At rest nothing is in the cache and no request is under way: no fair step is due.
ServiceSpec == /\ ServiceInit /\ [][ServiceNext]_serviceVars
               /\ Fairness /\ BudgetFairness

\* Who waits gets through: a reader to the definition that is stored, a request,
\* without the help of a timeout, to its connections and its lock.
ServiceSettles == ReadersCatchUp /\ CallsEnd
=================================================================================
