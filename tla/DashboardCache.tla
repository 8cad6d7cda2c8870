--------------------------- MODULE DashboardCache ---------------------------
(***************************************************************************)
(* The dashboard summary of one tenant: AnalyticsService computes it with   *)
(* three queries, keeps it in Redis for TTL, and every service that changes *)
(* a counted table deletes the key after its commit.  The keys of different *)
(* tenants are independent.                                                 *)
(*                                                                         *)
(* The database is abstracted to a version per table that the summary      *)
(* counts.  Each query is a statement of its own in a READ COMMITTED        *)
(* transaction, so commits may fall between two of them.  Redis calls never *)
(* raise: an error is logged and treated as a miss or ignored.              *)
(***************************************************************************)
EXTENDS Integers

CONSTANTS
  Readers,   \* clients that ask for the dashboard, again and again
  Writers,   \* requests that change something, each at most once
  Fallible,  \* requests whose Redis call may fail or whose process may die
  TTL,       \* lifetime of a cache entry, in ticks
  Empty      \* no entry under the key

ASSUME TTLAssumption == TTL \in Nat \ {0}
ASSUME ActorAssumption == Readers \cap Writers = {} /\ Fallible \subseteq Readers \cup Writers

\* The tables that the summary counts, one query each.
Parts == {"applications", "companies", "interviews"}

Kpis  == [Parts -> Nat]
Entry == [kpis : Kpis, raced : BOOLEAN]

ASSUME EmptyAssumption == Empty \notin Entry

\* The service methods that commit a change, with the tables whose counts
\* they may change; deletions cascade.
Mutations ==
  [ create_company     |-> {"companies"},
    update_company     |-> {},
    delete_company     |-> {"companies", "applications", "interviews"},
    create_application |-> {"applications"},
    update_application |-> {"applications"},
    transition_stage   |-> {"applications"},
    delete_application |-> {"applications", "interviews"},
    create_interview   |-> {"interviews"},
    update_interview   |-> {"interviews"},
    delete_interview   |-> {"interviews"} ]

\* Mutant: deleting a company does not invalidate.
InvalidatesFewer(m) == m \notin {"update_company", "delete_company"}

\* The methods that call invalidate_dashboard_cache after their commit.
Invalidates(m) == m # "update_company"

VARIABLES
  db,      \* committed version of each table
  cache,   \* the entry under the tenant's key, or Empty
  ttl,     \* ticks that the entry has left
  pc,      \* progress of each request
  kpis,    \* what each reader has gathered
  raced    \* history: readers that were gathering while a writer invalidated

vars == <<db, cache, ttl, pc, kpis, raced>>

Gathering == {"companies", "interviews", "store"}
ReaderPC  == {"idle", "applications"} \cup Gathering
WriterPC  == {"idle", "invalidate", "done"}

TypeOK ==
  /\ db \in Kpis
  /\ cache \in Entry \cup {Empty}
  /\ ttl \in 0 .. TTL
  /\ pc \in [Readers \cup Writers -> ReaderPC \cup WriterPC]
  /\ \A r \in Readers : pc[r] \in ReaderPC
  /\ \A w \in Writers : pc[w] \in WriterPC
  /\ kpis \in [Readers -> Kpis]
  /\ raced \in SUBSET Readers

-----------------------------------------------------------------------------
(* Writers.                                                                 *)

Goto(p, label) == pc' = [pc EXCEPT ![p] = label]

Commit(w, m, changed) ==
  /\ pc[w] = "idle"
  /\ changed \subseteq Mutations[m]
  /\ db' = [p \in Parts |-> IF p \in changed THEN db[p] + 1 ELSE db[p]]
  /\ Goto(w, IF Invalidates(m) THEN "invalidate" ELSE "done")
  /\ UNCHANGED <<cache, ttl, kpis, raced>>

\* The readers that have begun to gather are noted: nothing will tell them.
Overlap == raced' = raced \cup { r \in Readers : pc[r] \in Gathering }

Invalidate(w) ==
  /\ pc[w] = "invalidate"
  /\ cache' = Empty
  /\ ttl' = 0
  /\ Overlap
  /\ Goto(w, "done")
  /\ UNCHANGED <<db, kpis>>

\* DEL raises and is swallowed, or the process dies after its commit.
LoseInvalidation(w) ==
  /\ w \in Fallible
  /\ pc[w] = "invalidate"
  /\ cache' = IF cache = Empty THEN Empty ELSE [cache EXCEPT !.raced = TRUE]
  /\ Overlap
  /\ Goto(w, "done")
  /\ UNCHANGED <<db, ttl, kpis>>

-----------------------------------------------------------------------------
(* Readers.                                                                 *)

\* A hit is answered from the entry and changes nothing; an error counts as a
\* miss.
Lookup(r) ==
  /\ pc[r] = "idle"
  /\ cache = Empty \/ r \in Fallible
  /\ Goto(r, "applications")
  /\ UNCHANGED <<db, cache, ttl, kpis, raced>>

Query(r, part, label) ==
  /\ pc[r] = part
  /\ kpis' = [kpis EXCEPT ![r][part] = db[part]]
  /\ Goto(r, label)
  /\ UNCHANGED <<db, cache, ttl, raced>>

GetDashboardKpis(r) ==
  \/ Query(r, "applications", "companies")
  \/ Query(r, "companies", "interviews")
  \/ Query(r, "interviews", "store")

NoKpis == [p \in Parts |-> 0]

\* The request is answered and its local state is gone.
Answer(r) ==
  /\ Goto(r, "idle")
  /\ kpis' = [kpis EXCEPT ![r] = NoKpis]
  /\ raced' = raced \ {r}

\* Mutant: the entry is stored without an expiry, and Redis keeps it.
StoreForEver(r) ==
  /\ pc[r] = "store"
  /\ cache' = [kpis |-> kpis[r], raced |-> r \in raced]
  /\ ttl' = 0
  /\ Answer(r)
  /\ UNCHANGED db

\* Mutant: the expiry is off by one, an entry outlives the configured lifetime.
StoreLonger(r) ==
  /\ pc[r] = "store"
  /\ cache' = [kpis |-> kpis[r], raced |-> r \in raced]
  /\ ttl' = TTL + 1
  /\ Answer(r)
  /\ UNCHANGED db

\* SET key value EX ttl, whatever has happened to the key in the meantime.
Store(r) ==
  /\ pc[r] = "store"
  /\ cache' = [kpis |-> kpis[r], raced |-> r \in raced]
  /\ ttl' = TTL
  /\ Answer(r)
  /\ UNCHANGED db

\* SET raises and is swallowed, a query raises, or the process dies.
Abandon(r) ==
  /\ r \in Fallible
  /\ pc[r] # "idle"
  /\ Answer(r)
  /\ UNCHANGED <<db, cache, ttl>>

\* Redis counts the lifetime of the entry down and drops it.
Tick ==
  /\ ttl > 0
  /\ ttl' = ttl - 1
  /\ cache' = IF ttl = 1 THEN Empty ELSE cache
  /\ UNCHANGED <<db, pc, kpis, raced>>

-----------------------------------------------------------------------------

Init ==
  /\ db = [p \in Parts |-> 0]
  /\ cache = Empty
  /\ ttl = 0
  /\ pc = [p \in Readers \cup Writers |-> "idle"]
  /\ kpis = [r \in Readers |-> NoKpis]
  /\ raced = {}

Write(w) == \E m \in DOMAIN Mutations, changed \in SUBSET Parts : Commit(w, m, changed)

Gather(r) == GetDashboardKpis(r) \/ Store(r)

Next ==
  \/ \E w \in Writers : Write(w) \/ Invalidate(w) \/ LoseInvalidation(w)
  \/ \E r \in Readers : Lookup(r) \/ Gather(r) \/ Abandon(r)
  \/ Tick

Spec == Init /\ [][Next]_vars

\* Statements that have been sent come back, a writer that has committed goes
\* on to the cache, and time passes in Redis.  Nobody need ask for anything.
FairSpec ==
  /\ Spec
  /\ \A w \in Writers : WF_vars(Invalidate(w))
  /\ \A r \in Readers : WF_vars(Gather(r))
  /\ WF_vars(Tick)

-----------------------------------------------------------------------------
(* Properties.                                                              *)

Invalidating == \E w \in Writers : pc[w] = "invalidate"

\* A cached summary differs from the database only while the writer that
\* changed it has not deleted the key yet, or when the entry was raced: its
\* reader was gathering while a writer invalidated, or a deletion was lost.
StaleOnlyWhenRaced ==
  cache # Empty /\ cache.kpis # db => Invalidating \/ cache.raced

\* The parts that a reader has gathered by the time it reaches a label.
Gathered ==
  [ idle |-> {}, applications |-> {}, companies |-> {"applications"},
    interviews |-> {"applications", "companies"}, store |-> Parts ]

\* The strengthening of StaleOnlyWhenRaced: what an unraced reader has gathered
\* so far differs from the database only while a writer has yet to invalidate.
GatheredIsCurrent ==
  \A r \in Readers \ raced : \A p \in Gathered[pc[r]] :
    kpis[r][p] # db[p] => Invalidating

CacheInv == TypeOK /\ StaleOnlyWhenRaced /\ GatheredIsCurrent

\* Races, lost deletions and dead processes are repaired by the expiry: when
\* nobody writes any more, the cache ends up holding nothing outdated.
EventuallyFresh == <>[](cache = Empty \/ cache.kpis = db)

\* "Automatic cache invalidation upon any application, company, or interview
\* mutation" (README.md): once the key has been deleted, no summary from
\* before the mutation is served.
InvalidationTakesEffect ==
  cache # Empty /\ cache.kpis # db => Invalidating
=============================================================================
