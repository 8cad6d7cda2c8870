------------------------ MODULE DashboardCacheProofs ------------------------
(***************************************************************************)
(* Proofs about DashboardCache for every set of readers and writers, every  *)
(* pattern of failures and every lifetime.                                  *)
(***************************************************************************)
EXTENDS DashboardCache, TLAPS

LEMMA PartsBumped ==
  ASSUME TypeOK, NEW changed,
         db' = [p \in Parts |-> IF p \in changed THEN db[p] + 1 ELSE db[p]]
  PROVE  db' \in Kpis
BY DEF TypeOK, Kpis

\* A method that does not invalidate leaves the counted tables alone.
LEMMA SilentIsHarmless ==
  ASSUME NEW m \in DOMAIN Mutations, ~Invalidates(m)
  PROVE  Mutations[m] = {}
BY DEF Mutations, Invalidates

LEMMA CommitInv ==
  ASSUME CacheInv, NEW w \in Writers, NEW m \in DOMAIN Mutations,
         NEW changed \in SUBSET Parts, Commit(w, m, changed)
  PROVE  CacheInv'
<1>1. /\ pc[w] = "idle" /\ w \notin Readers
      /\ pc'[w] = IF Invalidates(m) THEN "invalidate" ELSE "done"
      /\ \A q \in (Readers \cup Writers) \ {w} : pc'[q] = pc[q]
  BY ActorAssumption DEF Commit, Goto, CacheInv, TypeOK
<1>2. TypeOK'
  BY <1>1, PartsBumped, ActorAssumption DEF Commit, Goto, CacheInv, TypeOK, WriterPC
<1>3. CASE Invalidates(m)
  <2>1. Invalidating'
    BY <1>1, <1>3 DEF Invalidating
  <2> QED
    BY <1>2, <2>1 DEF CacheInv, StaleOnlyWhenRaced, GatheredIsCurrent
<1>4. CASE ~Invalidates(m)
  <2>1. db' = db
    BY <1>4, SilentIsHarmless DEF Commit, CacheInv, TypeOK, Kpis
  <2>2. Invalidating => Invalidating'
    BY <1>1 DEF Invalidating
  <2>3. \A r \in Readers : pc'[r] = pc[r]
    BY <1>1
  <2> QED
    BY <1>2, <2>1, <2>2, <2>3 DEF Commit, CacheInv, StaleOnlyWhenRaced, GatheredIsCurrent
<1> QED
  BY <1>3, <1>4

\* The end of an invalidation, done or lost: every reader that holds anything
\* is raced from then on.
LEMMA OverlapInv ==
  ASSUME CacheInv, NEW w \in Writers, pc[w] = "invalidate", Goto(w, "done"),
         Overlap, UNCHANGED <<db, kpis>>, TypeOK', StaleOnlyWhenRaced'
  PROVE  CacheInv'
<1>1. w \notin Readers /\ \A r \in Readers : pc'[r] = pc[r]
  BY ActorAssumption DEF Goto, CacheInv, TypeOK
<1>2. \A r \in Readers \ raced' : Gathered[pc'[r]] = {}
  BY <1>1 DEF Overlap, Gathering, Gathered, CacheInv, TypeOK, ReaderPC
<1> QED
  BY <1>2 DEF CacheInv, GatheredIsCurrent

LEMMA InvalidateInv ==
  ASSUME CacheInv, NEW w \in Writers, Invalidate(w)
  PROVE  CacheInv'
<1>1. w \notin Readers
  BY ActorAssumption
<1>2. TypeOK'
  BY <1>1, TTLAssumption DEF Invalidate, Overlap, Goto, CacheInv, TypeOK, WriterPC
<1>3. StaleOnlyWhenRaced'
  BY DEF Invalidate, StaleOnlyWhenRaced
<1> QED
  BY <1>2, <1>3, OverlapInv DEF Invalidate

LEMMA LoseInvalidationInv ==
  ASSUME CacheInv, NEW w \in Writers, LoseInvalidation(w)
  PROVE  CacheInv'
<1>1. w \notin Readers
  BY ActorAssumption
<1>2. cache' \in Entry \cup {Empty} /\ (cache' # Empty => cache'.raced)
  BY DEF LoseInvalidation, CacheInv, TypeOK, Entry
<1>3. TypeOK'
  BY <1>1, <1>2 DEF LoseInvalidation, Overlap, Goto, CacheInv, TypeOK, WriterPC
<1>4. StaleOnlyWhenRaced'
  BY <1>2 DEF StaleOnlyWhenRaced
<1> QED
  BY <1>3, <1>4, OverlapInv DEF LoseInvalidation

\* A step of a reader that only moves within its request.
LEMMA ReaderMoves ==
  ASSUME CacheInv, NEW r \in Readers, NEW label \in ReaderPC, Goto(r, label)
  PROVE  /\ pc' \in [Readers \cup Writers -> ReaderPC \cup WriterPC]
         /\ \A q \in Readers : pc'[q] \in ReaderPC
         /\ \A w \in Writers : pc'[w] \in WriterPC
         /\ pc'[r] = label /\ \A q \in Readers \ {r} : pc'[q] = pc[q]
         /\ Invalidating' = Invalidating
<1>1. /\ pc' = [pc EXCEPT ![r] = label] /\ r \notin Writers
      /\ pc \in [Readers \cup Writers -> ReaderPC \cup WriterPC]
  BY ActorAssumption DEF Goto, CacheInv, TypeOK
<1>2. \A w \in Writers : pc'[w] = pc[w]
  BY <1>1
<1> QED
  BY <1>1, <1>2 DEF CacheInv, TypeOK, Invalidating

LEMMA LookupInv ==
  ASSUME CacheInv, NEW r \in Readers, Lookup(r)
  PROVE  CacheInv'
<1>1. "applications" \in ReaderPC /\ Gathered["applications"] = {}
  BY DEF ReaderPC, Gathered
<1> QED
  BY <1>1, ReaderMoves
     DEF Lookup, CacheInv, TypeOK, StaleOnlyWhenRaced, GatheredIsCurrent

LEMMA QueryInv ==
  ASSUME CacheInv, NEW r \in Readers, NEW part \in Parts, NEW label \in ReaderPC,
         Query(r, part, label), Gathered[label] = Gathered[part] \cup {part}
  PROVE  CacheInv'
<1>1. /\ kpis'[r] = [kpis[r] EXCEPT ![part] = db[part]]
      /\ \A q \in Readers \ {r} : kpis'[q] = kpis[q]
      /\ kpis[r] \in Kpis /\ db \in Kpis
  BY DEF Query, CacheInv, TypeOK
<1>2. TypeOK'
  BY <1>1, ReaderMoves DEF Query, CacheInv, TypeOK, Kpis
<1>3. StaleOnlyWhenRaced'
  BY ReaderMoves DEF Query, CacheInv, StaleOnlyWhenRaced
<1>4. GatheredIsCurrent'
  <2> SUFFICES ASSUME NEW q \in Readers \ raced, NEW p \in Gathered[pc'[q]],
                      kpis'[q][p] # db[p]
               PROVE  Invalidating
    BY ReaderMoves DEF Query, GatheredIsCurrent
  <2>1. CASE q # r
    BY <1>1, <2>1, ReaderMoves DEF Query, CacheInv, GatheredIsCurrent
  <2>2. CASE q = r
    <3>1. p # part /\ p \in Gathered[pc[r]]
      BY <1>1, <2>2, ReaderMoves DEF Query, Kpis
    <3>2. kpis'[r][p] = kpis[r][p]
      BY <1>1, <3>1
    <3> QED
      BY <2>2, <3>1, <3>2 DEF CacheInv, GatheredIsCurrent
  <2> QED
    BY <2>1, <2>2
<1> QED
  BY <1>2, <1>3, <1>4 DEF CacheInv

\* The end of a read, whatever it leaves in the cache.
LEMMA AnswerInv ==
  ASSUME CacheInv, NEW r \in Readers, Answer(r), UNCHANGED db,
         cache' \in Entry \cup {Empty}, ttl' \in 0 .. TTL,
         cache' # Empty /\ cache'.kpis # db => Invalidating \/ cache'.raced
  PROVE  CacheInv'
<1>1. "idle" \in ReaderPC /\ Gathered["idle"] = {}
  BY DEF ReaderPC, Gathered
<1>2. /\ pc'[r] = "idle" /\ \A q \in Readers \ {r} : pc'[q] = pc[q]
      /\ Invalidating' = Invalidating
  BY <1>1, ReaderMoves DEF Answer
<1>3. /\ kpis' \in [Readers -> Kpis]
      /\ \A q \in Readers \ {r} : kpis'[q] = kpis[q]
  BY DEF Answer, CacheInv, TypeOK, NoKpis, Kpis
<1>4. TypeOK'
  BY <1>1, <1>3, ReaderMoves DEF Answer, CacheInv, TypeOK
<1>5. StaleOnlyWhenRaced'
  BY <1>2 DEF StaleOnlyWhenRaced
<1>6. GatheredIsCurrent'
  BY <1>1, <1>2, <1>3 DEF Answer, CacheInv, GatheredIsCurrent
<1> QED
  BY <1>4, <1>5, <1>6 DEF CacheInv

LEMMA StoreInv ==
  ASSUME CacheInv, NEW r \in Readers, Store(r)
  PROVE  CacheInv'
<1>1. cache' = [kpis |-> kpis[r], raced |-> r \in raced] /\ ttl' = TTL
  BY DEF Store
<1>2. kpis[r] \in Kpis /\ db \in Kpis
  BY DEF CacheInv, TypeOK
<1>3. cache' \in Entry /\ ttl' \in 0 .. TTL
  BY <1>1, <1>2, TTLAssumption DEF Entry
<1>4. ASSUME r \notin raced, kpis[r] # db PROVE Invalidating
  <2>1. PICK p \in Parts : kpis[r][p] # db[p]
    BY <1>2, <1>4 DEF Kpis
  <2> QED
    BY <1>4, <2>1 DEF Store, CacheInv, GatheredIsCurrent, Gathered
<1>5. cache'.kpis # db => Invalidating \/ cache'.raced
  BY <1>1, <1>4
<1> QED
  BY <1>3, <1>5, AnswerInv DEF Store

LEMMA AbandonInv ==
  ASSUME CacheInv, NEW r \in Readers, Abandon(r)
  PROVE  CacheInv'
BY AnswerInv DEF Abandon, CacheInv, TypeOK, StaleOnlyWhenRaced

LEMMA TickInv ==
  ASSUME CacheInv, Tick
  PROVE  CacheInv'
<1>1. cache' \in {cache, Empty} /\ ttl' \in 0 .. TTL
  BY TTLAssumption DEF Tick, CacheInv, TypeOK
<1> QED
  BY <1>1 DEF Tick, CacheInv, TypeOK, StaleOnlyWhenRaced, GatheredIsCurrent, Invalidating

-----------------------------------------------------------------------------

LEMMA InitInv == Init => CacheInv
BY TTLAssumption, ActorAssumption
   DEF Init, CacheInv, TypeOK, StaleOnlyWhenRaced, GatheredIsCurrent, Gathered,
       Kpis, ReaderPC, WriterPC, NoKpis

\* The inductive invariant, for any number of clients and any failures.
THEOREM CacheInvariant == Spec => []CacheInv
<1>1. CacheInv /\ [Next]_vars => CacheInv'
  <2> SUFFICES ASSUME CacheInv, [Next]_vars PROVE CacheInv'
    OBVIOUS
  <2>1. ASSUME NEW w \in Writers, Write(w) PROVE CacheInv'
    BY <2>1, CommitInv DEF Write
  <2>2. ASSUME NEW w \in Writers, Invalidate(w) \/ LoseInvalidation(w) PROVE CacheInv'
    BY <2>2, InvalidateInv, LoseInvalidationInv
  <2>3. ASSUME NEW r \in Readers, GetDashboardKpis(r) PROVE CacheInv'
    <3>1. {"applications", "companies", "interviews"} \subseteq Parts
      BY DEF Parts
    <3>2. {"companies", "interviews", "store"} \subseteq ReaderPC
      BY DEF ReaderPC, Gathering
    <3>3. /\ Gathered["companies"] = Gathered["applications"] \cup {"applications"}
          /\ Gathered["interviews"] = Gathered["companies"] \cup {"companies"}
          /\ Gathered["store"] = Gathered["interviews"] \cup {"interviews"}
      BY DEF Gathered, Parts
    <3> QED
      BY <2>3, <3>1, <3>2, <3>3, QueryInv DEF GetDashboardKpis
  <2>4. ASSUME NEW r \in Readers, Lookup(r) \/ Store(r) \/ Abandon(r) PROVE CacheInv'
    BY <2>4, LookupInv, StoreInv, AbandonInv
  <2>5. CASE Tick
    BY <2>5, TickInv
  <2>6. CASE UNCHANGED vars
    BY <2>6 DEF vars, CacheInv, TypeOK, StaleOnlyWhenRaced, GatheredIsCurrent, Invalidating
  <2> QED
    BY <2>1, <2>2, <2>3, <2>4, <2>5, <2>6 DEF Next, Gather
<1> QED
  BY <1>1, InitInv, PTL DEF Spec

\* Nothing but a race or a lost deletion leaves an outdated summary behind an
\* answered mutation.
THEOREM CacheCoherent == Spec => []StaleOnlyWhenRaced
<1>1. CacheInv => StaleOnlyWhenRaced
  BY DEF CacheInv
<1> QED
  BY <1>1, CacheInvariant, PTL

\* Every reachable state of the cache is well typed; in particular the key never
\* lives longer than its TTL.
THEOREM TypeCorrect == Spec => []TypeOK
<1>1. CacheInv => TypeOK
  BY DEF CacheInv
<1> QED
  BY <1>1, CacheInvariant, PTL
=============================================================================
