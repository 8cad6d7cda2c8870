------------------------- MODULE RateLimiterProofs -------------------------
(* Theorems about RateLimiter, for any number of requests of a client and all *)
(* maxima, windows and graces.                                                *)
EXTENDS RateLimiter, FiniteSetTheorems, TLAPS

-----------------------------------------------------------------------------
(* The inductive invariant.                                                  *)

\* Those that the bound is about.
Punctual == { r \in Requests : pc[r] = "admitted" /\ r \notin late }

\* Entries and answers come from requests that have read the clock.
Stamped ==
  /\ \A r \in Requests : stamp[r] <= now
  /\ \A r \in log : pc[r] \in Replied

\* The key outlives the window of each of its entries.
KeyLives == \A r \in log : expires >= stamp[r] + Window + Grace

\* An entry is missing only if one with a stamp a window later is there, or if
\* its time is up.
EntriesKept ==
  \A r \in Punctual :
    \/ r \in log
    \/ \E p \in log : stamp[p] >= stamp[r] + Window
    \/ now >= stamp[r] + Window + Grace

Bounded == \A t \in Nat : Cardinality(Punctual \cap Within(t)) <= Max

LimiterInv ==
  TypeOK /\ Stamped /\ KeyLives /\ EntriesKept /\ Bounded /\ RefusalJustified

-----------------------------------------------------------------------------

\* What a punctual request finds: all punctual ones less than a window before it.
LEMMA FindsOthers ==
  ASSUME LimiterConstants, LimiterInv, NEW r \in Requests, ~Overtaken(r)
  PROVE  \A q \in Punctual : stamp[q] > stamp[r] - Window => q \in Kept(r)
<1> SUFFICES ASSUME NEW q \in Punctual, stamp[q] > stamp[r] - Window PROVE q \in Kept(r)
  OBVIOUS
<1>1. /\ now \in Nat /\ expires \in Nat /\ stamp[q] \in Nat /\ stamp[r] \in Nat
      /\ Window \in Nat \ {0} /\ Grace \in Nat \ {0}
      /\ \A p \in log : stamp[p] \in Nat
  BY DEF LimiterConstants, LimiterInv, TypeOK, Punctual
<1>2. now < stamp[r] + Grace /\ \A p \in log : stamp[p] <= stamp[r]
  BY <1>1 DEF Overtaken
<1>3. now < stamp[q] + Window + Grace
  BY <1>1, <1>2
<1>4. q \in log
  BY <1>1, <1>2, <1>3 DEF LimiterInv, EntriesKept
<1>5. expires > now
  BY <1>1, <1>3, <1>4 DEF LimiterInv, KeyLives
<1> QED BY <1>1, <1>4, <1>5 DEF Kept, Entries

\* The log and the key after a pipeline, whatever the request was told.
LEMMA ExecuteKeeps ==
  ASSUME LimiterConstants, LimiterInv, NEW r \in Requests, pc[r] = "timed", Execute(r),
         NEW outcome \in Replied, pc' = [pc EXCEPT ![r] = outcome]
  PROVE  /\ TypeOK' /\ Stamped' /\ KeyLives'
         /\ EntriesKept'
<1>1. /\ now \in Nat /\ expires \in Nat /\ stamp \in [Requests -> Nat] /\ log \subseteq Requests
      /\ Window \in Nat \ {0} /\ Grace \in Nat \ {0}
      /\ now' = now /\ stamp' = stamp /\ expires' = now + Window + Grace
      /\ log' = Kept(r) \cup {r}
  BY DEF LimiterConstants, LimiterInv, TypeOK, Execute
<1>2. Kept(r) \subseteq log
  BY DEF Kept, Entries
<1>3. r \notin log
  BY DEF LimiterInv, Stamped, Replied
<1>4. TypeOK'
  <2>1. pc' \in [Requests -> {"idle", "timed"} \cup Replied]
    BY DEF LimiterInv, TypeOK
  <2>2. late' \subseteq Requests
    BY DEF LimiterInv, TypeOK, Execute
  <2> QED BY <1>1, <1>2, <2>1, <2>2 DEF TypeOK
<1>5. Stamped'
  BY <1>1, <1>2 DEF LimiterInv, TypeOK, Stamped
<1>6. KeyLives'
  BY <1>1, <1>2 DEF LimiterInv, Stamped, KeyLives
<1>7. \A p \in log : \/ p \in log'
                     \/ stamp[r] >= stamp[p] + Window
                     \/ now >= stamp[p] + Window + Grace
  BY <1>1 DEF Kept, Entries, LimiterInv, KeyLives
<1>8. EntriesKept'
  <2> SUFFICES ASSUME NEW q \in Punctual'
               PROVE  \/ q \in log'
                      \/ \E p \in log' : stamp[p] >= stamp[q] + Window
                      \/ now >= stamp[q] + Window + Grace
    BY <1>1 DEF EntriesKept
  <2>1. CASE q = r
    BY <1>1, <2>1
  <2>2. CASE q # r
    <3>1. q \in Punctual
      BY <2>2 DEF Punctual, Execute, LimiterInv, TypeOK
    <3>2. CASE q \in log
      BY <1>1, <1>7, <3>2
    <3>3. CASE \E p \in log : stamp[p] >= stamp[q] + Window
      <4> PICK p \in log : stamp[p] >= stamp[q] + Window
        BY <3>3
      <4>1. stamp[p] \in Nat /\ stamp[q] \in Nat /\ stamp[r] \in Nat
        BY <1>1, <3>1 DEF Punctual
      <4> QED BY <1>1, <1>7, <4>1
    <3>4. CASE now >= stamp[q] + Window + Grace
      BY <3>4
    <3> QED BY <3>1, <3>2, <3>3, <3>4 DEF LimiterInv, EntriesKept
  <2> QED BY <2>1, <2>2
<1> QED BY <1>4, <1>5, <1>6, <1>8

LEMMA EvaluateInv ==
  ASSUME LimiterConstants, LimiterInv, NEW r \in Requests, Evaluate(r)
  PROVE  LimiterInv'
<1>1. /\ pc[r] = "timed" /\ Execute(r) /\ pc' = [pc EXCEPT ![r] = Outcome(r)]
      /\ Outcome(r) \in {"admitted", "refused"}
      /\ stamp' = stamp /\ now' = now
      /\ pc \in [Requests -> {"idle", "timed"} \cup Replied] /\ stamp \in [Requests -> Nat]
  BY DEF Evaluate, Outcome, Execute, LimiterInv, TypeOK
<1>2. TypeOK' /\ Stamped' /\ KeyLives' /\ EntriesKept'
  BY <1>1, ExecuteKeeps DEF Replied
<1>3. IsFiniteSet(Requests) /\ Max \in Nat \ {0} /\ Window \in Nat \ {0} /\ stamp[r] \in Nat
  BY <1>1 DEF LimiterConstants
<1>4. IsFiniteSet(Kept(r)) /\ r \notin Kept(r) /\ Kept(r) \subseteq log
  <2>1. Kept(r) \subseteq Requests /\ Kept(r) \subseteq log
    BY DEF Kept, Entries, LimiterInv, TypeOK
  <2> QED BY <1>1, <1>3, <2>1, FS_Subset DEF LimiterInv, Stamped, Replied
<1>5. Cardinality(Kept(r)) \in Nat /\ Cardinality(Kept(r) \cup {r}) = Cardinality(Kept(r)) + 1
  BY <1>4, FS_AddElement, FS_CardinalityType
<1>6. Bounded'
  <2> SUFFICES ASSUME NEW t \in Nat PROVE Cardinality(Punctual' \cap Within(t)) <= Max
    BY <1>1 DEF Bounded, Within
  <2>1. CASE r \in Punctual' /\ r \in Within(t)
    <3>1. ~Overtaken(r) /\ Outcome(r) = "admitted"
      BY <1>1, <2>1 DEF Punctual, Execute, LimiterInv, TypeOK
    <3>2. Punctual' \cap Within(t) \subseteq Kept(r) \cup {r}
      <4> SUFFICES ASSUME NEW q \in Punctual' \cap Within(t), q # r PROVE q \in Kept(r)
        OBVIOUS
      <4>1. q \in Punctual
        BY <1>1 DEF Punctual, Execute
      <4>2. stamp[q] > stamp[r] - Window
        BY <1>1, <1>3, <2>1 DEF Within
      <4> QED BY <3>1, <4>1, <4>2, FindsOthers
    <3>3. Cardinality(Kept(r) \cup {r}) <= Max
      BY <1>3, <1>5, <3>1 DEF Outcome
    <3>4. IsFiniteSet(Kept(r) \cup {r})
      BY <1>4, FS_AddElement
    <3>5. /\ Cardinality(Punctual' \cap Within(t)) <= Cardinality(Kept(r) \cup {r})
          /\ Cardinality(Punctual' \cap Within(t)) \in Nat
      BY <3>2, <3>4, FS_Subset, FS_CardinalityType
    <3> QED BY <1>3, <1>5, <3>3, <3>5
  <2>2. CASE ~(r \in Punctual' /\ r \in Within(t))
    <3>1. Punctual' \cap Within(t) = Punctual \cap Within(t)
      BY <1>1, <2>2 DEF Punctual, Execute
    <3> QED BY <3>1 DEF LimiterInv, Bounded
  <2> QED BY <2>1, <2>2
<1>7. RefusalJustified'
  <2> DEFINE Before(q) == { p \in Requests \ {q} : pc[p] \in Replied /\ stamp[p] > stamp[q] - Window }
             After(q) == { p \in Requests \ {q} : pc'[p] \in Replied /\ stamp[p] > stamp[q] - Window }
  <2> SUFFICES ASSUME NEW q \in Requests, pc'[q] = "refused" PROVE Cardinality(After(q)) >= Max
    BY <1>1 DEF RefusalJustified
  <2>1. Before(q) \subseteq After(q) /\ IsFiniteSet(After(q))
    <3>1. Before(q) \subseteq After(q)
      BY <1>1 DEF Replied
    <3>2. After(q) \subseteq Requests
      OBVIOUS
    <3> QED BY <1>3, <3>1, <3>2, FS_Subset
  <2>2. Cardinality(After(q)) \in Nat /\ \A S \in SUBSET After(q) : Cardinality(S) <= Cardinality(After(q))
                                                                   /\ Cardinality(S) \in Nat
    BY <2>1, FS_Subset, FS_CardinalityType
  <2>3. CASE q = r
    <3>1. Cardinality(Kept(r)) >= Max
      BY <1>1, <1>3, <1>5, <2>3 DEF Outcome
    <3>2. Kept(r) \subseteq After(r)
      <4> SUFFICES ASSUME NEW p \in Kept(r) PROVE p \in After(r)
        OBVIOUS
      <4>1. p \in log /\ p \in Requests /\ p # r /\ stamp[p] > stamp[r] - Window
        BY <1>4 DEF Kept, LimiterInv, TypeOK
      <4> QED BY <1>1, <4>1 DEF LimiterInv, Stamped
    <3> QED BY <1>3, <1>5, <2>2, <2>3, <3>1, <3>2
  <2>4. CASE q # r
    <3>1. Cardinality(Before(q)) >= Max
      BY <1>1, <2>4 DEF LimiterInv, RefusalJustified
    <3> QED BY <1>3, <2>1, <2>2, <3>1
  <2> QED BY <2>3, <2>4
<1> QED BY <1>2, <1>6, <1>7 DEF LimiterInv

\* Steps that answer nobody, or let a request through without looking: whoever
\* is punctual or was refused remains so, and so do the stamps of the answered.
LEMMA OtherStepsInv ==
  ASSUME LimiterConstants, LimiterInv,
         Tick \/ UNCHANGED vars \/ \E r \in Requests : TakeTime(r) \/ Bypass(r)
  PROVE  LimiterInv'
<1>1. /\ now \in Nat /\ expires \in Nat /\ stamp \in [Requests -> Nat] /\ log \subseteq Requests
      /\ pc \in [Requests -> {"idle", "timed"} \cup Replied] /\ late \subseteq Requests
      /\ Window \in Nat \ {0} /\ Grace \in Nat \ {0} /\ Max \in Nat \ {0} /\ IsFiniteSet(Requests)
  BY DEF LimiterConstants, LimiterInv, TypeOK
<1>2. \A r \in Requests : /\ pc'[r] \in {"admitted", "refused"} <=> pc[r] \in {"admitted", "refused"}
                          /\ pc[r] \in {"admitted", "refused"} => pc'[r] = pc[r]
                          /\ pc[r] \in Replied => pc'[r] \in Replied /\ stamp'[r] = stamp[r]
                          /\ pc[r] \in {"admitted", "refused"} => (r \in late' <=> r \in late)
  BY <1>1 DEF Tick, TakeTime, Bypass, Execute, vars, Replied
<1>3. Punctual' = Punctual /\ \A t \in Nat : Punctual' \cap Within(t)' = Punctual \cap Within(t)
  BY <1>2 DEF Punctual, Within, Replied
<1>4. Bounded'
  BY <1>3 DEF LimiterInv, Bounded
<1>5. RefusalJustified'
  <2> DEFINE Before(q) == { p \in Requests \ {q} : pc[p] \in Replied /\ stamp[p] > stamp[q] - Window }
             After(q) == { p \in Requests \ {q} : pc'[p] \in Replied /\ stamp'[p] > stamp'[q] - Window }
  <2> SUFFICES ASSUME NEW q \in Requests, pc'[q] = "refused" PROVE Cardinality(After(q)) >= Max
    BY DEF RefusalJustified
  <2>1. Before(q) \subseteq After(q) /\ After(q) \subseteq Requests /\ pc[q] = "refused"
    BY <1>2 DEF Replied
  <2>2. Cardinality(Before(q)) >= Max
    BY <2>1 DEF LimiterInv, RefusalJustified
  <2>3. /\ Cardinality(Before(q)) <= Cardinality(After(q))
        /\ Cardinality(Before(q)) \in Nat /\ Cardinality(After(q)) \in Nat
    <3>1. IsFiniteSet(After(q))
      BY <1>1, <2>1, FS_Subset
    <3>2. IsFiniteSet(Before(q)) /\ Cardinality(Before(q)) <= Cardinality(After(q))
      BY <2>1, <3>1, FS_Subset
    <3> QED BY <3>1, <3>2, FS_CardinalityType
  <2> HIDE DEF Before, After
  <2> QED BY <1>1, <2>2, <2>3
<1>6. TypeOK' /\ Stamped' /\ KeyLives' /\ EntriesKept'
  <2>1. CASE UNCHANGED <<log, expires>> /\ now' \in {now, now + 1} /\ late' = late
             /\ stamp' \in [Requests -> Nat] /\ pc' \in [Requests -> {"idle", "timed"} \cup Replied]
             /\ \A r \in Requests : stamp'[r] <= now'
    <3>1. TypeOK'
      BY <1>1, <2>1 DEF TypeOK
    <3>2. \A r \in log : pc'[r] \in Replied /\ stamp'[r] = stamp[r]
      BY <1>1, <1>2 DEF LimiterInv, Stamped
    <3>3. Stamped' /\ KeyLives'
      BY <2>1, <3>2 DEF LimiterInv, Stamped, KeyLives
    <3>4. \A r \in Punctual : stamp'[r] = stamp[r] /\ stamp[r] \in Nat
      BY <1>1, <1>2 DEF Punctual, Replied
    <3>5. EntriesKept'
      BY <1>1, <1>3, <2>1, <3>2, <3>4 DEF LimiterInv, EntriesKept
    <3> QED BY <3>1, <3>3, <3>5
  <2>2. ASSUME NEW r \in Requests, pc[r] = "timed", Execute(r), pc' = [pc EXCEPT ![r] = "bypassed"]
        PROVE  TypeOK' /\ Stamped' /\ KeyLives' /\ EntriesKept'
    BY <2>2, ExecuteKeeps DEF Replied
  <2>3. CASE Tick
    BY <1>1, <2>1, <2>3 DEF Tick, LimiterInv, Stamped
  <2>4. CASE UNCHANGED vars
    BY <1>1, <2>1, <2>4 DEF vars, LimiterInv, Stamped
  <2>5. ASSUME NEW r \in Requests, TakeTime(r) PROVE TypeOK' /\ Stamped' /\ KeyLives' /\ EntriesKept'
    <3>1. /\ stamp' \in [Requests -> Nat] /\ pc' \in [Requests -> {"idle", "timed"} \cup Replied]
          /\ \A q \in Requests : stamp'[q] <= now'
      BY <1>1, <2>5 DEF TakeTime, LimiterInv, Stamped
    <3> QED BY <2>1, <2>5, <3>1 DEF TakeTime
  <2>6. ASSUME NEW r \in Requests, Bypass(r) PROVE TypeOK' /\ Stamped' /\ KeyLives' /\ EntriesKept'
    <3>1. CASE Execute(r)
      BY <2>2, <2>6, <3>1 DEF Bypass
    <3>2. CASE UNCHANGED <<now, log, expires, stamp, late>>
      <4>1. pc' \in [Requests -> {"idle", "timed"} \cup Replied]
        BY <1>1, <2>6 DEF Bypass, Replied
      <4> QED BY <1>1, <2>1, <3>2, <4>1 DEF LimiterInv, Stamped
    <3> QED BY <2>6, <3>1, <3>2 DEF Bypass
  <2> QED BY <2>3, <2>4, <2>5, <2>6
<1> QED BY <1>4, <1>5, <1>6 DEF LimiterInv

LEMMA InitInv == LimiterConstants /\ Init => LimiterInv
<1> SUFFICES ASSUME LimiterConstants, Init PROVE LimiterInv
  OBVIOUS
<1>1. Punctual = {}
  BY DEF Init, Punctual
<1>2. Bounded
  BY <1>1, FS_EmptySet DEF Bounded, LimiterConstants
<1> QED BY <1>1, <1>2 DEF Init, LimiterConstants, LimiterInv, TypeOK, Stamped, KeyLives, EntriesKept,
     RefusalJustified, Replied

\* The inductive invariant: what the log has lost could not count any more.
THEOREM LimiterInvariant ==
  ASSUME LimiterConstants PROVE Spec => []LimiterInv
<1>1. LimiterInv /\ [Next]_vars => LimiterInv'
  <2> SUFFICES ASSUME LimiterInv, [Next]_vars PROVE LimiterInv'
    OBVIOUS
  <2> QED BY EvaluateInv, OtherStepsInv DEF Next, Quiet
<1>2. Init => LimiterInv
  BY InitInv
<1> QED
  BY <1>1, <1>2, PTL DEF Spec

\* Every reachable state of the limiter is well typed.
THEOREM TypeCorrect ==
  ASSUME LimiterConstants PROVE Spec => []TypeOK
<1>1. LimiterInv => TypeOK
  BY DEF LimiterInv
<1> QED
  BY <1>1, LimiterInvariant, PTL

\* However many requests a client sends, and however often Redis fails, no
\* window has more than the maximum of punctual requests let through.
THEOREM AdmissionsBounded ==
  ASSUME LimiterConstants PROVE Spec => []AdmissionBound
<1>1. LimiterInv => AdmissionBound
  <2> SUFFICES ASSUME LimiterInv, NEW t \in 0 .. now
               PROVE  Cardinality({ r \in Within(t) : pc[r] = "admitted" /\ r \notin late }) <= Max
    BY DEF AdmissionBound
  <2>1. { r \in Within(t) : pc[r] = "admitted" /\ r \notin late } = Punctual \cap Within(t)
    BY DEF Punctual, Within
  <2>2. t \in Nat
    BY DEF LimiterInv, TypeOK
  <2> QED BY <2>1, <2>2 DEF LimiterInv, Bounded
<1> QED
  BY <1>1, LimiterInvariant, PTL

\* Nobody is refused who was not preceded by as many requests as are allowed.
THEOREM RefusalsJustified ==
  ASSUME LimiterConstants PROVE Spec => []RefusalJustified
<1>1. LimiterInv => RefusalJustified
  BY DEF LimiterInv
<1> QED
  BY <1>1, LimiterInvariant, PTL
=============================================================================
