----------------------------- MODULE PipelineCache -----------------------------
(***************************************************************************)
(* The cache of pipeline definitions in PipelineService: get fills it,     *)
(* every write evicts from it, an entry lives for app.pipeline-cache.ttl-ms.*)
(*                                                                         *)
(* Entries of different pipelines have nothing to do with each other: one  *)
(* pipeline is modelled.  The statements of a method run on a connection   *)
(* of their own in autocommit mode, so what they write is visible at once; *)
(* the Spring transaction around the method only decides when              *)
(* afterCompletion runs.  What a write does between its two evictions (the *)
(* build, see PipelineBuild, or the drop of the schema) takes long and     *)
(* touches neither the row nor the cache.                                  *)
(***************************************************************************)
EXTENDS Naturals

CONSTANTS
    Readers,            \* threads that call get
    Writers,            \* threads that call create, update or delete
    Empty,              \* no entry, or one that is not fresh any more
    ImporterReplaces,   \* BOOLEAN: the importer replaces a definition at start
    MaxVersions         \* bound: definitions stored

ASSUME MaxVersionsAssumption == MaxVersions \in Nat
ASSUME EmptyAssumption       == Empty \notin Nat
ASSUME ImporterAssumption    == ImporterReplaces \in BOOLEAN

VARIABLES
    row,        \* the definition in the table, by number; 0 if there is none
    last,       \* the number of the latest definition stored
    cache,      \* the definition in the fresh entry, or Empty
    overtaken,  \* the entry was read before the latest write and put after it
    bypassed,   \* the importer wrote since the entry was put
    get,        \* where each reader is in get
    got,        \* the definition a reader read
    write       \* where each writer is in its method

readVars  == <<get, got>>
writeVars == <<row, last, write>>
entryVars == <<cache, overtaken, bypassed>>
vars == <<entryVars, readVars, writeVars>>

Versions == 1..MaxVersions

TypeOK ==
    /\ row \in 0..MaxVersions
    /\ last \in 0..MaxVersions
    /\ cache \in Versions \cup {Empty}
    /\ overtaken \in BOOLEAN
    /\ bypassed \in BOOLEAN
    /\ get \in [Readers -> {"idle", "select", "put"}]
    /\ got \in [Readers -> 0..MaxVersions]
    /\ write \in [Writers -> {"idle", "evict", "remove", "long"}]

Init ==
    /\ row = 0
    /\ last = 0
    /\ cache = Empty
    /\ overtaken = FALSE
    /\ bypassed = FALSE
    /\ get = [r \in Readers |-> "idle"]
    /\ got = [r \in Readers |-> 0]
    /\ write = [w \in Writers |-> "idle"]

Evict == cache' = Empty /\ overtaken' = FALSE /\ bypassed' = FALSE

Store ==
    /\ last < MaxVersions
    /\ last' = last + 1
    /\ row' = last + 1

-----------------------------------------------------------------------------
(* get: a hit answers from the cache and changes nothing.                  *)

Miss(r) ==
    /\ get[r] = "idle"
    /\ cache = Empty
    /\ get' = [get EXCEPT ![r] = "select"]
    /\ UNCHANGED <<entryVars, got, writeVars>>

\* Without a row the answer is 404 and nothing is cached.
Select(r) ==
    /\ get[r] = "select"
    /\ got' = [got EXCEPT ![r] = row]
    /\ get' = [get EXCEPT ![r] = IF row = 0 THEN "idle" ELSE "put"]
    /\ UNCHANGED <<entryVars, writeVars>>

Put(r) ==
    /\ get[r] = "put"
    /\ cache' = got[r]
    /\ overtaken' = (got[r] # row)
    /\ bypassed' = FALSE
    /\ get' = [get EXCEPT ![r] = "idle"]
    /\ got' = [got EXCEPT ![r] = 0]
    /\ UNCHANGED writeVars

\* Fault: isFresh is true of every entry.
ExpireNever ==
    /\ cache = Empty
    /\ UNCHANGED vars

\* The time to live of the entry is over.
Expire ==
    /\ cache # Empty
    /\ Evict
    /\ UNCHANGED <<readVars, writeVars>>

-----------------------------------------------------------------------------
(* The write paths.                                                        *)

\* create (there is no row) and update (there is one) store the definition ...
Save(w) ==
    /\ write[w] = "idle"
    /\ Store
    /\ write' = [write EXCEPT ![w] = "evict"]
    /\ UNCHANGED <<entryVars, readVars>>

\* ... and evict; the build follows.
EvictSaved(w) ==
    /\ write[w] = "evict"
    /\ Evict
    /\ write' = [write EXCEPT ![w] = "long"]
    /\ UNCHANGED <<row, last, readVars>>

\* delete evicts first ...
Delete(w) ==
    /\ write[w] = "idle"
    /\ Evict
    /\ write' = [write EXCEPT ![w] = "remove"]
    /\ UNCHANGED <<row, last, readVars>>

\* ... and then removes the row; the drop of the schema follows.
Remove(w) ==
    /\ write[w] = "remove"
    /\ row' = 0
    /\ write' = [write EXCEPT ![w] = "long"]
    /\ UNCHANGED <<last, entryVars, readVars>>

\* Fault: only the eviction inside the method.
CompleteSilently(w) ==
    /\ write[w] = "long"
    /\ write' = [write EXCEPT ![w] = "idle"]
    /\ UNCHANGED <<entryVars, row, last, readVars>>

\* afterCompletion evicts again, after a commit and after a rollback.
Complete(w) ==
    /\ write[w] = "long"
    /\ Evict
    /\ write' = [write EXCEPT ![w] = "idle"]
    /\ UNCHANGED <<row, last, readVars>>

\* PipelineJsonImporter with replace-if-different, while requests are served.
Import ==
    /\ ImporterReplaces
    /\ row # 0
    /\ Store
    /\ bypassed' = (cache # Empty)
    /\ UNCHANGED <<write, cache, overtaken, readVars>>

-----------------------------------------------------------------------------
ReadStep(r) == Miss(r) \/ Select(r) \/ Put(r)
WriteStep(w) == EvictSaved(w) \/ Remove(w) \/ Complete(w)

Next ==
    \/ \E r \in Readers : ReadStep(r)
    \/ \E w \in Writers : Save(w) \/ Delete(w) \/ WriteStep(w)
    \/ Import
    \/ Expire

Spec == Init /\ [][Next]_vars

\* A get and a write that began go on, and time passes.  Nobody has to begin.
Fairness ==
    /\ \A r \in Readers : WF_vars(Select(r) \/ Put(r))
    /\ \A w \in Writers : WF_vars(WriteStep(w))
    /\ WF_vars(Expire)

FairSpec == Spec /\ Fairness

-----------------------------------------------------------------------------
(* Correctness.                                                            *)

NoWriter == \A w \in Writers : write[w] = "idle"

Outdated == cache \notin {Empty, row}

\* A get that starts and ends beside no write never leaves an outdated entry:
\* the two evictions of a write take every entry that was put before it.  Only
\* a get that read before a write and puts its result after the last eviction
\* of that write can, and the importer, which evicts nothing.  Every variable
\* keeps its type.
OutdatedOnlyIfOvertaken == TypeOK /\ (NoWriter /\ Outdated => overtaken \/ bypassed)

\* The outdated entries do not stay: when writes stop, readers get the stored
\* definition again.
ReadersCatchUp == <>[]NoWriter => <>[]~Outdated
===============================================================================
