--------------------------- MODULE ReminderWorker ---------------------------
(***************************************************************************)
(* The periodic tasks of the Celery workers.  Each run loads the reminders  *)
(* that are due, asks for each whether a notification of its user already   *)
(* carries the title, and inserts the missing ones in one transaction.      *)
(*                                                                         *)
(* Beat enqueues a run at fixed times; nothing stops two runs of one task   *)
(* from overlapping when several are waiting, and a run may be killed (time *)
(* limit, crash) with its message already acknowledged.  The requests of    *)
(* clients that edit follow-ups and interviews go on meanwhile.             *)
(*                                                                         *)
(* A unit of time is 24 hours.  A request to edit is one step: its reading  *)
(* and its UPDATE touch one row, and nothing here depends on what lies      *)
(* between them.  A reminder deleted makes room for a new one in its place. *)
(***************************************************************************)
EXTENDS Integers, FiniteSets

CONSTANTS
  Reminders,    \* follow-ups and interviews
  Users,
  Owner,        \* the user of each reminder
  Titles,
  Like,         \* <<t, s>>: title s of a notification matches '%t%'
  TooLong,      \* per kind, titles that exceed VARCHAR(100) with the prefix
  Inputs,       \* rows that clients may store
  Tasks,        \* the kinds of reminders that have a schedule
  Workers,
  None,         \* no reminder, no run
  MaxDay,       \* bound of the clock
  MaxEvents     \* bound on the requests of clients and the runs that die

Kinds == {"follow_up", "interview"}

ASSUME ReminderAssumption ==
  /\ Owner \in [Reminders -> Users]
  /\ Tasks \subseteq Kinds
  /\ Like \subseteq Titles \X Titles
  /\ TooLong \in [Kinds -> SUBSET Titles]

ASSUME BoundAssumption == MaxDay \in Nat /\ MaxEvents \in Nat

Days == 0 .. MaxDay

\* open is status PENDING of a follow-up, SCHEDULED of an interview.
Rows == [kind : Kinds, title : Titles, at : Days, open : BOOLEAN]

\* What a run has loaded of a reminder.
Loaded == [reminder : Reminders, title : Titles]

\* A run between its query and its end.  For the properties only: seen is the
\* number of batches committed when it began, touched the reminders that have
\* been edited since, if it has loaded them.
Runs == [task : Tasks, day : Nat, batch : SUBSET Loaded, pending : SUBSET Loaded,
         seen : Nat, touched : SUBSET Reminders]

\* A row that a worker has inserted.  reminder, tx (the number of its batch) and
\* seen (of its run) are for the properties only.
Alerts == [user : Users, kind : Kinds, title : Titles, day : Nat,
           reminder : Reminders, tx : Nat, seen : Nat]

ASSUME InputAssumption == Inputs \subseteq Rows

ASSUME NoneAssumption == None \notin Rows /\ None \notin Runs

VARIABLES
  reminders,      \* tables follow_ups and interviews
  notifications,  \* table notifications
  run,            \* what each worker is doing
  today,          \* the clock
  batches,        \* how many batches have been committed
  events          \* requests of clients and deaths of runs so far

vars == <<reminders, notifications, run, today, batches, events>>

TypeOK ==
  /\ reminders \in [Reminders -> Rows \cup {None}]
  /\ notifications \subseteq Alerts
  /\ \A n \in notifications : n.title \notin TooLong[n.kind] /\ n.tx <= batches
  /\ run \in [Workers -> Runs \cup {None}]
  /\ \A w \in Workers : run[w] # None => run[w].seen <= batches
  /\ today \in 0 .. MaxDay
  /\ batches \in Nat
  /\ events \in 0 .. MaxEvents

-----------------------------------------------------------------------------
(* Clients.                                                                 *)

\* The reminders that a run has loaded and still needs.
Holds(w) == { e.reminder : e \in run[w].batch \cup run[w].pending }

\* create, update (PATCH may change any field) and delete, also by cascade.
Edit(i, row) ==
  /\ events < MaxEvents
  /\ row # reminders[i]
  /\ row # None /\ reminders[i] # None => row.kind = reminders[i].kind
  /\ reminders' = [reminders EXCEPT ![i] = row]
  /\ events' = events + 1
  /\ run' = [w \in Workers |->
       IF run[w] = None THEN None
       ELSE [run[w] EXCEPT !.touched = @ \cup ({i} \cap Holds(w))]]
  /\ UNCHANGED <<notifications, today, batches>>

-----------------------------------------------------------------------------
(* Workers.                                                                 *)

\* Follow-ups stay due, interviews are due in the 24 hours before them.
Due(kind, at, day) ==
  IF kind = "follow_up" THEN at <= day ELSE at \in {day, day + 1}

\* Mutant: the status is not asked for.
IsDueInAnyStatus(i, task, day) ==
  /\ reminders[i] # None
  /\ reminders[i].kind = task
  /\ Due(task, reminders[i].at, day)

IsDue(i, task, day) ==
  /\ reminders[i] # None
  /\ reminders[i].kind = task
  /\ reminders[i].open
  /\ Due(task, reminders[i].at, day)

\* The query of a task, with the rows that it loads.
Scan(w, task) ==
  /\ run[w] = None
  /\ run' = [run EXCEPT ![w] =
       [ task    |-> task,
         day     |-> today,
         batch   |-> { [reminder |-> i, title |-> reminders[i].title] :
                         i \in { j \in Reminders : IsDue(j, task, today) } },
         pending |-> {},
         seen    |-> batches,
         touched |-> {} ]]
  /\ UNCHANGED <<reminders, notifications, today, batches, events>>

\* The notification suppresses an alert of this title.
Matches(n, user, kind, title) ==
  n.user = user /\ n.kind = kind /\ <<title, n.title>> \in Like

\* Mutant: only the notifications of today count.
CheckOfToday(w) ==
  /\ run[w] # None
  /\ \E e \in run[w].batch :
       LET known == \E n \in notifications :
                      /\ Matches(n, Owner[e.reminder], run[w].task, e.title)
                      /\ n.day = run[w].day
       IN run' = [run EXCEPT ![w].batch = @ \ {e},
                             ![w].pending = IF known THEN @ ELSE @ \cup {e}]
  /\ UNCHANGED <<reminders, notifications, today, batches, events>>

\* The check for one loaded reminder.  The alerts that the run has added to its
\* session are not flushed, so that the query does not find them.
Check(w) ==
  /\ run[w] # None
  /\ \E e \in run[w].batch :
       LET known == \E n \in notifications :
                      Matches(n, Owner[e.reminder], run[w].task, e.title)
       IN run' = [run EXCEPT ![w].batch = @ \ {e},
                             ![w].pending = IF known THEN @ ELSE @ \cup {e}]
  /\ UNCHANGED <<reminders, notifications, today, batches, events>>

Checked(w) == run[w] # None /\ run[w].batch = {}

\* Mutant: the column of the title has no width.
FitsAny(w) == TRUE

\* Every row of the batch can be inserted.
Fits(w) == \A e \in run[w].pending : e.title \notin TooLong[run[w].task]

AlertsOf(w) ==
  { [ user |-> Owner[e.reminder], kind |-> run[w].task, title |-> e.title,
      day |-> today, reminder |-> e.reminder, tx |-> batches + 1,
      seen |-> run[w].seen ] : e \in run[w].pending }

Finish(w) == run' = [run EXCEPT ![w] = None]

\* Mutant: a single alert is not worth a commit (created_count > 1).
CommitSeveral(w) ==
  /\ Checked(w)
  /\ Cardinality(run[w].pending) > 1
  /\ Fits(w)
  /\ notifications' = notifications \cup AlertsOf(w)
  /\ batches' = batches + 1
  /\ Finish(w)
  /\ UNCHANGED <<reminders, today, events>>

Commit(w) ==
  /\ Checked(w)
  /\ run[w].pending # {}
  /\ Fits(w)
  /\ notifications' = notifications \cup AlertsOf(w)
  /\ batches' = batches + 1
  /\ Finish(w)
  /\ UNCHANGED <<reminders, today, events>>

\* Nothing to commit, or one INSERT of the flush fails and with it the batch.
EndWithoutCommit(w) ==
  /\ Checked(w)
  /\ run[w].pending = {} \/ ~Fits(w)
  /\ Finish(w)
  /\ UNCHANGED <<reminders, notifications, today, batches, events>>

\* The worker dies or the run exceeds its time limit.
Fail(w) ==
  /\ run[w] # None
  /\ events < MaxEvents
  /\ events' = events + 1
  /\ Finish(w)
  /\ UNCHANGED <<reminders, notifications, today, batches>>

Tick ==
  /\ today < MaxDay
  /\ today' = today + 1
  /\ UNCHANGED <<reminders, notifications, run, batches, events>>

-----------------------------------------------------------------------------

Init ==
  /\ reminders \in [Reminders -> Inputs \cup {None}]
  /\ notifications = {}
  /\ run = [w \in Workers |-> None]
  /\ today = 0
  /\ batches = 0
  /\ events = 0

Proceed(w) == Check(w) \/ Commit(w) \/ EndWithoutCommit(w)

Next ==
  \/ \E i \in Reminders, row \in Inputs \cup {None} : Edit(i, row)
  \/ \E w \in Workers :
       \/ \E task \in Tasks : Scan(w, task)
       \/ Proceed(w)
       \/ Fail(w)
  \/ Tick

Spec == Init /\ [][Next]_vars

\* Beat enqueues each task again and again and some worker takes it; a run goes
\* on unless it dies.
FairSpec ==
  /\ Spec
  /\ \A task \in Tasks : SF_vars(\E w \in Workers : Scan(w, task))
  /\ \A w \in Workers : WF_vars(Proceed(w))

-----------------------------------------------------------------------------
(* Properties.                                                              *)

\* Two alerts of which one should have suppressed the other come from runs that
\* overlapped: the later run began before the first alert was committed.  The
\* check for an existing notification sees everything else.
DuplicatesOverlap ==
  \A m, n \in notifications :
    Matches(m, n.user, n.kind, n.title) /\ m.tx < n.tx => n.seen < m.tx

\* The strengthening of DuplicatesOverlap: what suppresses an alert that a run is
\* about to insert was committed while it ran.
PendingIsNew ==
  \A w \in Workers : run[w] # None =>
    \A e \in run[w].pending, m \in notifications :
      Matches(m, Owner[e.reminder], run[w].task, e.title) => run[w].seen < m.tx

\* What a run has loaded of a reminder is still so.
StillDue(w, e) ==
  /\ reminders[e.reminder] # None
  /\ reminders[e.reminder].kind = run[w].task
  /\ reminders[e.reminder].title = e.title
  /\ reminders[e.reminder].open
  /\ Due(run[w].task, reminders[e.reminder].at, run[w].day)

\* A worker alerts about reminders that are due and open under that title, except
\* those that a client has edited since the run loaded them.
AlertsAreDue ==
  [][\A w \in Workers : Commit(w) =>
       \A e \in run[w].pending : e.reminder \in run[w].touched \/ StillDue(w, e)]_vars

\* The strengthening of AlertsAreDue: the same of everything a run has loaded.
LoadedIsCurrent ==
  \A w \in Workers : run[w] # None =>
    \A e \in run[w].batch \cup run[w].pending :
      e.reminder \in run[w].touched \/ StillDue(w, e)

ReminderInv == TypeOK /\ DuplicatesOverlap /\ PendingIsNew /\ LoadedIsCurrent

Overdue(i) == IsDue(i, "follow_up", today)

Covered(i) ==
  \E n \in notifications : Matches(n, Owner[i], "follow_up", reminders[i].title)

\* A follow-up of any user whose alert cannot be inserted blocks every batch.
Blocked ==
  \E i \in Reminders :
    Overdue(i) /\ ~Covered(i) /\ reminders[i].title \in TooLong["follow_up"]

\* Deaths, overlaps and edits notwithstanding, an overdue follow-up ends up with
\* a notification that matches its title, unless it is completed, moved or deleted
\* or another one blocks the batches.
FollowUpsReminded ==
  \A i \in Reminders : Overdue(i) ~> (~Overdue(i) \/ Covered(i) \/ Blocked)

\* "Check if notification for today already exists to prevent duplicate alerts"
\* (app/workers/tasks.py): a reminder is left out only if its user has been alerted
\* that day under a title that contains its own, or already about itself.
SuppressedByToday ==
  [][\A w \in Workers : Check(w) =>
       \A e \in run[w].batch \ (run'[w].batch \cup run'[w].pending) :
         \E n \in notifications :
           /\ Matches(n, Owner[e.reminder], run[w].task, e.title)
           /\ n.day >= run[w].day \/ n.reminder = e.reminder]_vars
=============================================================================
