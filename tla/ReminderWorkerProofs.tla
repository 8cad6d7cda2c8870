------------------------ MODULE ReminderWorkerProofs ------------------------
(* Theorems about ReminderWorker, for all sets of reminders, titles, workers *)
(* and every relation Like.                                                  *)
EXTENDS ReminderWorker, TLAPS

USE ReminderAssumption, BoundAssumption, InputAssumption, NoneAssumption

LEMMA InitInv == Init => ReminderInv
  BY DEF Init, ReminderInv, TypeOK, DuplicatesOverlap, PendingIsNew, LoadedIsCurrent

\* An edit is noted by every run that holds the reminder.
LEMMA EditInv ==
  ASSUME ReminderInv, NEW i \in Reminders, NEW row \in Inputs \cup {None}, Edit(i, row)
  PROVE  ReminderInv'
<1> USE DEF ReminderInv
<1>1. TypeOK'
  <2>1. run' \in [Workers -> Runs \cup {None}]
    BY DEF TypeOK, Edit, Runs, Holds, Loaded
  <2>2. \A w \in Workers : run'[w] # None => run'[w].seen <= batches'
    BY DEF TypeOK, Edit, Runs
  <2> QED BY <2>1, <2>2 DEF TypeOK, Edit
<1>2. DuplicatesOverlap'
  BY DEF DuplicatesOverlap, Edit, Matches
<1>3. \A w \in Workers : run'[w] # None =>
        /\ run[w] # None
        /\ run'[w].task = run[w].task
        /\ run'[w].day = run[w].day
        /\ run'[w].batch = run[w].batch
        /\ run'[w].pending = run[w].pending
        /\ run'[w].seen = run[w].seen
        /\ run'[w].touched = run[w].touched \cup ({i} \cap Holds(w))
  BY DEF TypeOK, Edit, Runs
<1>4. PendingIsNew'
  BY <1>3 DEF PendingIsNew, Edit, Matches
<1>5. LoadedIsCurrent'
  <2> SUFFICES ASSUME NEW w \in Workers, run'[w] # None,
                      NEW e \in run'[w].batch \cup run'[w].pending,
                      e.reminder \notin run'[w].touched
               PROVE  StillDue(w, e)'
    BY DEF LoadedIsCurrent
  <2>1. e.reminder # i
    BY <1>3 DEF Holds
  <2>2. StillDue(w, e)
    BY <1>3 DEF LoadedIsCurrent
  <2>3. reminders'[e.reminder] = reminders[e.reminder]
    BY <2>1 DEF Edit, TypeOK
  <2> QED BY <1>3, <2>2, <2>3 DEF StillDue, Due
<1> QED BY <1>1, <1>2, <1>4, <1>5

LEMMA ScanInv ==
  ASSUME ReminderInv, NEW w \in Workers, NEW task \in Tasks, Scan(w, task)
  PROVE  ReminderInv'
<1> USE DEF ReminderInv
<1> DEFINE L == { [reminder |-> i, title |-> reminders[i].title] :
                    i \in { j \in Reminders : IsDue(j, task, today) } }
<1>1. run'[w] = [task |-> task, day |-> today, batch |-> L, pending |-> {},
                 seen |-> batches, touched |-> {}]
  BY DEF Scan, TypeOK
<1>2. \A v \in Workers \ {w} : run'[v] = run[v]
  BY DEF Scan, TypeOK
<1>3. L \subseteq Loaded
  BY DEF TypeOK, Loaded, IsDue, Rows
<1>4. TypeOK'
  <2>1. run'[w] \in Runs
    BY <1>1, <1>3 DEF TypeOK, Runs
  <2> QED BY <1>1, <1>2, <2>1 DEF TypeOK, Scan
<1>5. DuplicatesOverlap'
  BY DEF DuplicatesOverlap, Scan, Matches
<1>6. PendingIsNew'
  BY <1>1, <1>2 DEF PendingIsNew, Scan, Matches
<1>7. LoadedIsCurrent'
  <2>1. ASSUME NEW e \in L PROVE StillDue(w, e)'
    BY <1>1 DEF StillDue, IsDue, Scan
  <2>2. ASSUME NEW v \in Workers \ {w}, NEW e, StillDue(v, e) PROVE StillDue(v, e)'
    BY <1>2, <2>2 DEF StillDue, Scan
  <2> QED BY <1>1, <1>2, <2>1, <2>2 DEF LoadedIsCurrent
<1> QED BY <1>4, <1>5, <1>6, <1>7

\* What the check finds nothing for is matched by nothing that was committed
\* before the run began, nor by anything later.
LEMMA CheckInv ==
  ASSUME ReminderInv, NEW w \in Workers, Check(w)
  PROVE  ReminderInv'
<1> USE DEF ReminderInv
<1> PICK e \in run[w].batch :
      run' = [run EXCEPT
        ![w].batch = @ \ {e},
        ![w].pending = IF \E n \in notifications :
                            Matches(n, Owner[e.reminder], run[w].task, e.title)
                       THEN @ ELSE @ \cup {e}]
  BY Zenon DEF Check
<1>0. run[w] \in Runs
  BY DEF Check, TypeOK
<1>1. /\ run'[w] \in Runs
      /\ run'[w].task = run[w].task /\ run'[w].day = run[w].day
      /\ run'[w].seen = run[w].seen /\ run'[w].touched = run[w].touched
      /\ run'[w].batch \subseteq run[w].batch
      /\ run'[w].pending \subseteq run[w].pending \cup {e}
      /\ \/ run'[w].pending = run[w].pending
         \/ \A n \in notifications :
              ~Matches(n, Owner[e.reminder], run[w].task, e.title)
  BY <1>0 DEF TypeOK, Runs
<1>2. \A v \in Workers \ {w} : run'[v] = run[v]
  BY DEF TypeOK
<1>3. TypeOK'
  BY <1>1, <1>2 DEF TypeOK, Check
<1>4. DuplicatesOverlap'
  BY DEF DuplicatesOverlap, Check, Matches
<1>5. PendingIsNew'
  <2> SUFFICES ASSUME NEW v \in Workers, run'[v] # None,
                      NEW f \in run'[v].pending, NEW m \in notifications',
                      Matches(m, Owner[f.reminder], run'[v].task, f.title)
               PROVE  run'[v].seen < m.tx
    BY DEF PendingIsNew, Matches
  <2>1. notifications' = notifications /\ run[w] # None
    BY DEF Check
  <2>2. CASE f \in run[v].pending
    BY <1>1, <1>2, <2>1, <2>2 DEF PendingIsNew
  <2>3. CASE f \notin run[v].pending
    BY <1>1, <1>2, <2>1, <2>3
  <2> QED BY <2>2, <2>3
<1>6. LoadedIsCurrent'
  <2> SUFFICES ASSUME NEW v \in Workers, run'[v] # None,
                      NEW f \in run'[v].batch \cup run'[v].pending,
                      f.reminder \notin run'[v].touched
               PROVE  StillDue(v, f)'
    BY DEF LoadedIsCurrent
  <2>1. /\ run[v] # None
        /\ f \in run[v].batch \cup run[v].pending
        /\ f.reminder \notin run[v].touched
        /\ run'[v].task = run[v].task /\ run'[v].day = run[v].day
    BY <1>1, <1>2 DEF Check
  <2>2. StillDue(v, f)
    BY <2>1 DEF LoadedIsCurrent
  <2> QED BY <2>1, <2>2 DEF StillDue, Check
<1> QED BY <1>3, <1>4, <1>5, <1>6

\* A run that ends leaves the others as they are.
LEMMA FinishRuns ==
  ASSUME TypeOK, NEW w \in Workers, Finish(w)
  PROVE  /\ run' \in [Workers -> Runs \cup {None}]
         /\ run'[w] = None
         /\ \A v \in Workers : v # w => run'[v] = run[v]
  BY DEF TypeOK, Finish

LEMMA CommitInv ==
  ASSUME ReminderInv, NEW w \in Workers, Commit(w)
  PROVE  ReminderInv'
<1> USE DEF ReminderInv
<1>0. /\ run' \in [Workers -> Runs \cup {None}]
      /\ run'[w] = None
      /\ \A v \in Workers : v # w => run'[v] = run[v]
  BY FinishRuns DEF Commit
<1>1. run[w] \in Runs /\ run[w].seen <= batches /\ batches \in Nat /\ batches' = batches + 1
  BY DEF Commit, Checked, TypeOK
<1>2. \A n \in AlertsOf(w) :
        /\ n \in Alerts
        /\ n.title \notin TooLong[n.kind]
        /\ n.tx = batches + 1
        /\ n.seen = run[w].seen
        /\ n.kind = run[w].task
        /\ \E e \in run[w].pending : n.user = Owner[e.reminder] /\ n.title = e.title
  <2> SUFFICES ASSUME NEW e \in run[w].pending
               PROVE  LET n == [ user |-> Owner[e.reminder], kind |-> run[w].task,
                                 title |-> e.title, day |-> today,
                                 reminder |-> e.reminder, tx |-> batches + 1,
                                 seen |-> run[w].seen ]
                      IN n \in Alerts /\ n.title \notin TooLong[n.kind]
    BY DEF AlertsOf
  <2>1. e \in Loaded /\ run[w].task \in Tasks /\ run[w].seen \in Nat
    BY <1>1 DEF Runs
  <2>2. e.title \notin TooLong[run[w].task]
    BY DEF Commit, Fits
  <2> QED BY <1>1, <2>1, <2>2 DEF Alerts, Loaded, TypeOK
<1>3. notifications' = notifications \cup AlertsOf(w)
  BY DEF Commit
<1>4. TypeOK'
  <2>1. \A v \in Workers : run'[v] # None => run'[v].seen <= batches'
    BY <1>0, <1>1 DEF TypeOK, Runs
  <2>2. \A n \in notifications' : n \in Alerts /\ n.title \notin TooLong[n.kind] /\ n.tx <= batches'
    BY <1>1, <1>2, <1>3 DEF TypeOK, Alerts
  <2> QED BY <1>0, <1>1, <2>1, <2>2 DEF TypeOK, Commit
<1>5. DuplicatesOverlap'
  <2> SUFFICES ASSUME NEW m \in notifications', NEW n \in notifications',
                      Matches(m, n.user, n.kind, n.title), m.tx < n.tx
               PROVE  n.seen < m.tx
    BY DEF DuplicatesOverlap, Matches
  <2>1. m.tx \in Nat /\ n.tx \in Nat /\ m.tx <= batches + 1 /\ n.tx <= batches + 1
    BY <1>1, <1>4 DEF TypeOK, Alerts
  <2>2. m \in notifications
    BY <1>1, <1>2, <1>3, <2>1
  <2>3. CASE n \in notifications
    BY <2>2, <2>3 DEF DuplicatesOverlap
  <2>4. CASE n \in AlertsOf(w)
    BY <1>2, <2>2, <2>4 DEF PendingIsNew, Commit, Checked
  <2> QED BY <1>3, <2>3, <2>4
<1>6. PendingIsNew'
  <2> SUFFICES ASSUME NEW v \in Workers, run'[v] # None,
                      NEW e \in run'[v].pending, NEW m \in notifications',
                      Matches(m, Owner[e.reminder], run'[v].task, e.title)
               PROVE  run'[v].seen < m.tx
    BY DEF PendingIsNew, Matches
  <2>1. v # w /\ run'[v] = run[v] /\ run[v] # None
    BY <1>0
  <2>2. CASE m \in notifications
    BY <2>1, <2>2 DEF PendingIsNew
  <2>3. CASE m \in AlertsOf(w)
    <3>1. run[v].seen \in Nat /\ run[v].seen <= batches
      BY <2>1 DEF TypeOK, Runs
    <3> QED BY <1>1, <1>2, <2>1, <2>3, <3>1
  <2> QED BY <1>3, <2>2, <2>3
<1>7. LoadedIsCurrent'
  <2>1. ASSUME NEW v \in Workers, run'[v] = run[v], NEW e, StillDue(v, e) PROVE StillDue(v, e)'
    BY <2>1 DEF StillDue, Commit
  <2> QED BY <1>0, <2>1 DEF LoadedIsCurrent
<1> QED BY <1>4, <1>5, <1>6, <1>7

\* Ends without a commit and deaths, which change no table.
LEMMA EndInv ==
  ASSUME ReminderInv, NEW w \in Workers, EndWithoutCommit(w) \/ Fail(w)
  PROVE  ReminderInv'
<1> USE DEF ReminderInv
<1>0. /\ run' \in [Workers -> Runs \cup {None}]
      /\ run'[w] = None
      /\ \A v \in Workers : v # w => run'[v] = run[v]
      /\ UNCHANGED <<reminders, notifications, today, batches>>
      /\ events' \in 0 .. MaxEvents
  BY FinishRuns DEF EndWithoutCommit, Fail, TypeOK
<1>1. TypeOK'
  BY <1>0 DEF TypeOK
<1>2. DuplicatesOverlap'
  BY <1>0 DEF DuplicatesOverlap, Matches
<1>3. PendingIsNew'
  BY <1>0 DEF PendingIsNew, Matches
<1>4. LoadedIsCurrent'
  <2>1. ASSUME NEW v \in Workers, run'[v] = run[v], NEW e, StillDue(v, e) PROVE StillDue(v, e)'
    BY <1>0, <2>1 DEF StillDue
  <2> QED BY <1>0, <2>1 DEF LoadedIsCurrent
<1> QED BY <1>1, <1>2, <1>3, <1>4

\* The clock and stuttering steps.
LEMMA TickInv ==
  ASSUME ReminderInv, Tick \/ UNCHANGED vars
  PROVE  ReminderInv'
<1>0. /\ UNCHANGED <<reminders, notifications, run, batches, events>>
      /\ today' \in 0 .. MaxDay
  BY DEF Tick, vars, ReminderInv, TypeOK
<1>1. TypeOK'
  BY <1>0 DEF TypeOK, ReminderInv
<1>2. DuplicatesOverlap' /\ PendingIsNew'
  BY <1>0 DEF DuplicatesOverlap, PendingIsNew, Matches, ReminderInv
<1>3. LoadedIsCurrent'
  BY <1>0 DEF LoadedIsCurrent, StillDue, ReminderInv
<1> QED BY <1>1, <1>2, <1>3 DEF ReminderInv

LEMMA NextInv == ReminderInv /\ [Next]_vars => ReminderInv'
<1> SUFFICES ASSUME ReminderInv, [Next]_vars PROVE ReminderInv'
  OBVIOUS
<1>1. CASE \E i \in Reminders, row \in Inputs \cup {None} : Edit(i, row)
  BY <1>1, EditInv
<1>2. CASE \E w \in Workers, task \in Tasks : Scan(w, task)
  BY <1>2, ScanInv
<1>3. CASE \E w \in Workers : Proceed(w)
  BY <1>3, CheckInv, CommitInv, EndInv DEF Proceed
<1>4. CASE \E w \in Workers : Fail(w)
  BY <1>4, EndInv
<1>5. CASE Tick \/ UNCHANGED vars
  BY <1>5, TickInv
<1> QED BY <1>1, <1>2, <1>3, <1>4, <1>5 DEF Next

\* The inductive invariant of the workers: tables and runs have their types, and
\* what a run carries is tied to what is stored.
THEOREM ReminderInvariant == Spec => []ReminderInv
  BY InitInv, NextInv, PTL DEF Spec

\* Whatever LIKE matches, two alerts of which one should have suppressed the other
\* come from runs that overlapped (process_overdue_follow_ups,
\* process_upcoming_interviews).
THEOREM DuplicatesOnlyFromOverlap == Spec => []DuplicatesOverlap
<1>1. ReminderInv => DuplicatesOverlap
  BY DEF ReminderInv
<1> QED BY <1>1, ReminderInvariant, PTL

\* What a worker inserts is an alert about a reminder that is due, except for edits
\* made while it ran.
THEOREM AlertsOnlyWhenDue == Spec => AlertsAreDue
<1>1. ReminderInv => \A w \in Workers : Commit(w) =>
        \A e \in run[w].pending : e.reminder \in run[w].touched \/ StillDue(w, e)
  BY DEF ReminderInv, LoadedIsCurrent, Commit, Checked
<1> QED BY <1>1, ReminderInvariant, PTL DEF AlertsAreDue

\* Every reachable state of the workers is well typed; in particular no inserted
\* alert exceeds its column.
THEOREM TypeCorrect == Spec => []TypeOK
<1>1. ReminderInv => TypeOK
  BY DEF ReminderInv
<1> QED
  BY <1>1, ReminderInvariant, PTL
=============================================================================
