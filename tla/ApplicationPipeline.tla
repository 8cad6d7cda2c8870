------------------------ MODULE ApplicationPipeline ------------------------
(***************************************************************************)
(* The HTTP requests that create, move, edit and delete job applications   *)
(* (ApplicationService) and that delete companies (CompanyService), running *)
(* concurrently against one PostgreSQL database.                            *)
(*                                                                         *)
(* Every request runs in one session and one READ COMMITTED transaction    *)
(* (app/db/session.py): it reads committed rows, validates what it read,    *)
(* sends its statements one by one and commits.  A step of the model is    *)
(* one such interaction with the database.  A statement waits for the row   *)
(* locks of other transactions:                                             *)
(*   - INSERT of a row with a foreign key: FOR KEY SHARE on the parent,     *)
(*   - UPDATE of a row: FOR NO KEY UPDATE, compatible with FOR KEY SHARE,   *)
(*   - DELETE of a row: FOR UPDATE, compatible with nothing.                *)
(* Locks are not a variable: they follow from the statements that an open  *)
(* transaction has executed (sent).  Tables hold committed rows only.       *)
(***************************************************************************)
EXTENDS StageMachine, Integers, FiniteSets

CONSTANTS
  Users,         \* tenants
  Companies,     \* ids of companies; all exist when the system starts
  OldApps,       \* ids of applications that may exist when the system starts
  Requests,      \* requests that clients send, each at most once
  Fallible,      \* requests whose process or connection may die midway
  MaxOpen,       \* bound on the requests being processed at one time
  EntryStages,   \* stages that a client names when it creates an application
  AskedStages,   \* stages that a client names when it moves an application
  None           \* SQL null, an absent row, a parameter that is not given

\* The primary key of a new application is a fresh uuid4: one per request.
Apps == OldApps \cup Requests

AppRow == [user : Users, company : Companies, stage : Stages]

LedgerRow == [ app  : Apps,
               from : Stages \cup {None},
               to   : Stages,
               at   : Nat ]

\* What a request knows: its parameters and what it read from the database.
Txn == [ kind    : {"none", "create", "transition", "patch",
                    "delete_app", "delete_company"},
         user    : Users \cup {None},
         app     : Apps \cup {None},
         company : Companies \cup {None},  \* the company it refers to
         target  : Stages \cup {None},     \* the stage asked for
         seen    : Stages \cup {None},     \* the stage that was read
         doomed  : SUBSET Apps ]           \* applications loaded for deletion

NoTxn == [ kind |-> "none", user |-> None, app |-> None, company |-> None,
           target |-> None, seen |-> None, doomed |-> {} ]

Statements == {"insert_app", "insert", "update", "delete", "delete_company"}

\* Progress of a request.  A request in Working has an open transaction;
\* "reread" comes after the commit; Replied are the HTTP outcomes: 2xx, 404
\* or 422 before any write, 404 from the read after the commit, and 500.
Working == {"check", "insert_app", "insert", "update",
            "delete", "delete_company", "commit"}
Replied == {"ok", "refused", "gone", "failed"}
PC      == {"idle", "reread"} \cup Working \cup Replied

ASSUME NoneAssumption ==
  /\ None \notin Stages
  /\ None \notin Users
  /\ None \notin Companies
  /\ None \notin Apps
  /\ None \notin AppRow
ASSUME FreshIdAssumption == OldApps \cap Requests = {}
ASSUME BoundAssumption ==
  /\ MaxOpen \in Nat \ {0}
  /\ EntryStages \subseteq Stages
  /\ AskedStages \subseteq Stages
  /\ Fallible \subseteq Requests

VARIABLES
  company,   \* companies table: the owner of each company, None once deleted
  apps,      \* applications table
  history,   \* application_stage_history table
  clock,     \* the wall clock that utc_now() reads: a fresh value each time
  pc,        \* progress of each request
  txn,       \* parameters and reads of each request
  sent,      \* statements that the open transaction of a request executed
  stamp      \* changed_at of the history row that a request wrote

tables == <<company, apps, history>>
vars   == <<company, apps, history, clock, pc, txn, sent, stamp>>

TypeOK ==
  /\ company \in [Companies -> Users \cup {None}]
  /\ apps \in [Apps -> AppRow \cup {None}]
  /\ history \subseteq LedgerRow
  /\ clock \in Nat
  /\ pc \in [Requests -> PC]
  /\ txn \in [Requests -> Txn]
  /\ sent \in [Requests -> SUBSET Statements]
  /\ stamp \in [Requests -> Nat]

-----------------------------------------------------------------------------
(* Row locks.                                                              *)

AppsOf(c) == { a \in Apps : apps[a] # None /\ apps[a].company = c }

Sent(r, stmt) == stmt \in sent[r]

\* PATCH refers to another company than the one it read.
Moves(r) == txn[r].kind = "patch" /\ txn[r].company # None

\* The unit of work emits an UPDATE of the stage only on a net change.
SetsStage(r) == txn[r].target \notin {None, txn[r].seen}

\* Applications deleted by r: those it loaded, and those that ON DELETE
\* CASCADE reaches from the company.
Doomed(r) ==
  (IF Sent(r, "delete") THEN txn[r].doomed ELSE {})
  \cup (IF Sent(r, "delete_company") THEN AppsOf(txn[r].company) ELSE {})

Refers(r, c) ==
  /\ txn[r].company = c
  /\ Sent(r, "insert_app") \/ (Moves(r) /\ Sent(r, "update"))

Others(r) == Requests \ {r}

\* Whether the locks that the requests Q hold let a statement of another one
\* pass.
CanShareApp(Q, a)  == \A q \in Q : a \notin Doomed(q)

\* Mutants: writers do not wait for each other; an UPDATE takes FOR UPDATE.
CanUpdateAppUnlocked(Q, a) == CanShareApp(Q, a)
CanUpdateAppExclusive(Q, a) ==
  /\ CanShareApp(Q, a)
  /\ \A q \in Q : ~((Sent(q, "update") \/ Sent(q, "insert")) /\ txn[q].app = a)

CanUpdateApp(Q, a) ==
  /\ CanShareApp(Q, a)
  /\ \A q \in Q : ~(Sent(q, "update") /\ txn[q].app = a)

\* Mutant: the foreign key of the ledger takes no lock.
CanDeleteAppIgnoringLedger(Q, a) == CanUpdateApp(Q, a)

CanDeleteApp(Q, a) ==
  /\ CanUpdateApp(Q, a)
  /\ \A q \in Q : ~(Sent(q, "insert") /\ txn[q].app = a)

CanShareCompany(Q, c) ==
  \A q \in Q : ~(Sent(q, "delete_company") /\ txn[q].company = c)

\* Mutant: the foreign key of applications takes no lock.
CanDeleteCompanyIgnoringReferences(Q, c) == CanShareCompany(Q, c)

CanDeleteCompany(Q, c) ==
  /\ CanShareCompany(Q, c)
  /\ \A q \in Q : ~Refers(q, c)

\* The next statement of r needs a lock that q keeps from it.
WaitsFor(r, q) ==
  LET a == txn[r].app
      c == txn[r].company
  IN /\ q # r
     /\ \/ pc[r] = "insert_app" /\ ~CanShareCompany({q}, c)
        \/ pc[r] = "insert" /\ txn[r].kind # "create" /\ ~CanShareApp({q}, a)
        \/ /\ pc[r] = "update"
           /\ ~CanUpdateApp({q}, a) \/ (Moves(r) /\ ~CanShareCompany({q}, c))
        \/ pc[r] = "delete" /\ \E b \in txn[r].doomed : ~CanDeleteApp({q}, b)
        \/ /\ pc[r] = "delete_company"
           /\ ~CanDeleteCompany({q}, c) \/ \E b \in AppsOf(c) : ~CanDeleteApp({q}, b)

\* r waits, by way of others, for itself: it is in every set that contains
\* those it waits for and those that a member waits for.
InCircle(r) ==
  \A S \in SUBSET Requests :
    (\A p \in S \cup {r}, q \in Requests : WaitsFor(p, q) => q \in S) => r \in S

-----------------------------------------------------------------------------
(* Reading: the first step of each handler.                                 *)

MayBegin(r) ==
  /\ pc[r] = "idle"
  /\ Cardinality({ q \in Requests : pc[q] \in Working \cup {"reread"} }) < MaxOpen

\* Row-level tenant scoping: ids of other users are answered like unknown ids.
OwnsApp(u, a)     == apps[a] # None /\ apps[a].user = u
OwnsCompany(u, c) == company[c] = u

Goto(r, label) == pc' = [pc EXCEPT ![r] = label]

Begin(r, t, label) ==
  /\ txn' = [txn EXCEPT ![r] = t]
  /\ Goto(r, label)
  /\ UNCHANGED <<tables, clock, sent, stamp>>

\* The request is answered and its session closed: nothing of it remains.
Close(r, label) ==
  /\ Goto(r, label)
  /\ txn' = [txn EXCEPT ![r] = NoTxn]
  /\ sent' = [sent EXCEPT ![r] = {}]

\* 404 or 422 before anything was written.
Refuse(r) == Close(r, "refused") /\ UNCHANGED <<tables, clock, stamp>>

\* POST /applications: the company must be one of the user's.
CreateBegin(r, u, c, s) ==
  /\ MayBegin(r)
  /\ \/ /\ OwnsCompany(u, c)
        /\ Begin(r, [NoTxn EXCEPT !.kind = "create", !.user = u, !.app = r,
                                  !.company = c, !.target = s], "insert_app")
     \/ ~OwnsCompany(u, c) /\ Refuse(r)

\* Mutant: the transition is not validated.
TransitionBeginUnvalidated(r, u, a, s) ==
  /\ MayBegin(r)
  /\ OwnsApp(u, a)
  /\ Begin(r, [NoTxn EXCEPT !.kind = "transition", !.user = u, !.app = a,
                            !.target = s, !.seen = apps[a].stage], "update")

\* POST /applications/{id}/stage: read the row, validate against what was
\* read, assign the attribute.  A further interview round changes no column.
TransitionBegin(r, u, a, s) ==
  /\ MayBegin(r)
  /\ \/ /\ OwnsApp(u, a)
        /\ ValidTransition(apps[a].stage, s)
        /\ Begin(r, [NoTxn EXCEPT !.kind = "transition", !.user = u, !.app = a,
                                  !.target = s, !.seen = apps[a].stage],
                 IF s = apps[a].stage THEN "insert" ELSE "update")
     \/ /\ ~(OwnsApp(u, a) /\ ValidTransition(apps[a].stage, s))
        /\ Refuse(r)

\* PATCH /applications/{id} naming a company, a stage or both.  Naming the
\* company that was read is no change; another company is looked up first.
PatchBegin(r, u, a, c, s) ==
  /\ MayBegin(r)
  /\ \/ ~OwnsApp(u, a) /\ Refuse(r)
     \/ /\ OwnsApp(u, a)
        /\ LET other == IF c = apps[a].company THEN None ELSE c
               t == [NoTxn EXCEPT !.kind = "patch", !.user = u, !.app = a,
                                  !.company = other, !.target = s,
                                  !.seen = apps[a].stage]
               legal == s # None => ValidTransition(apps[a].stage, s)
           IN \/ other # None /\ Begin(r, t, "check")
              \/ other = None /\ s # None /\ legal /\ Begin(r, t, "insert")
              \/ other = None /\ ~legal /\ Refuse(r)

\* Mutants: PATCH that moves the company skips the validation of the stage, or
\* records a history row although no stage was given.
PatchCheckCompanyUnvalidated(r) ==
  /\ pc[r] = "check"
  /\ OwnsCompany(txn[r].user, txn[r].company)
  /\ Goto(r, IF txn[r].target = None THEN "update" ELSE "insert")
  /\ UNCHANGED <<tables, clock, txn, sent, stamp>>
PatchCheckCompanyAlwaysRecords(r) ==
  /\ pc[r] = "check"
  /\ OwnsCompany(txn[r].user, txn[r].company)
  /\ txn[r].target # None => ValidTransition(txn[r].seen, txn[r].target)
  /\ Goto(r, "insert")
  /\ UNCHANGED <<tables, clock, txn, sent, stamp>>

\* The second read of PATCH, and the validation that follows it.
PatchCheckCompany(r) ==
  LET t == txn[r]
      accepted == /\ OwnsCompany(t.user, t.company)
                  /\ t.target # None => ValidTransition(t.seen, t.target)
  IN /\ pc[r] = "check"
     /\ \/ ~accepted /\ Refuse(r)
        \/ /\ accepted
           /\ Goto(r, IF t.target = None THEN "update" ELSE "insert")
           /\ UNCHANGED <<tables, clock, txn, sent, stamp>>

\* DELETE /applications/{id}.
DeleteAppBegin(r, u, a) ==
  /\ MayBegin(r)
  /\ \/ OwnsApp(u, a) /\ Begin(r, [NoTxn EXCEPT !.kind = "delete_app", !.user = u,
                                               !.doomed = {a}], "delete")
     \/ ~OwnsApp(u, a) /\ Refuse(r)

\* DELETE /companies/{id}: the ORM loads the applications of the company and
\* will delete them one by one before the company.
DeleteCompanyBegin(r, u, c) ==
  /\ MayBegin(r)
  /\ \/ OwnsCompany(u, c) /\ Begin(r, [NoTxn EXCEPT !.kind = "delete_company",
                                                   !.user = u, !.company = c,
                                                   !.doomed = AppsOf(c)], "delete")
     \/ ~OwnsCompany(u, c) /\ Refuse(r)

-----------------------------------------------------------------------------
(* Writing: the statements of a flush, in the order the unit of work emits  *)
(* them.  Each waits for its locks; finding its row or its parent gone, it   *)
(* raises (StaleDataError, IntegrityError) and the session rolls back.       *)

Execute(r, stmt, label) ==
  /\ sent' = [sent EXCEPT ![r] = @ \cup {stmt}]
  /\ Goto(r, label)
  /\ UNCHANGED <<tables, txn>>

Rollback(r) == Close(r, "failed") /\ UNCHANGED <<tables, clock, stamp>>

InsertApp(r) ==
  LET c == txn[r].company
  IN /\ pc[r] = "insert_app"
     /\ CanShareCompany(Others(r), c)
     /\ \/ company[c] = None /\ Rollback(r)
        \/ /\ company[c] # None
           /\ Execute(r, "insert_app", "insert")
           /\ UNCHANGED <<clock, stamp>>

\* record_transition: changed_at is stamped when the INSERT is sent.  PATCH
\* records first and updates the row afterwards; POST .../stage has updated.
InsertHistory(r) ==
  LET own == txn[r].kind = "create"
      a   == txn[r].app
      label == IF txn[r].kind = "patch" /\ (SetsStage(r) \/ Moves(r))
               THEN "update" ELSE "commit"
  IN /\ pc[r] = "insert"
     /\ own \/ CanShareApp(Others(r), a)
     /\ \/ ~own /\ apps[a] = None /\ Rollback(r)
        \/ /\ own \/ apps[a] # None
           /\ Execute(r, "insert", label)
           /\ stamp' = [stamp EXCEPT ![r] = clock]
           /\ clock' = clock + 1

\* UPDATE applications SET current_stage and/or company_id WHERE id: it waits
\* for other writers of the row and then applies to whatever they left.
UpdateApp(r) ==
  LET a == txn[r].app
      c == txn[r].company
      missing == apps[a] = None \/ (Moves(r) /\ company[c] = None)
  IN /\ pc[r] = "update"
     /\ CanUpdateApp(Others(r), a)
     /\ Moves(r) => CanShareCompany(Others(r), c)
     /\ \/ missing /\ Rollback(r)
        \/ /\ ~missing
           /\ Execute(r, "update",
                      IF txn[r].kind = "transition" THEN "insert" ELSE "commit")
           /\ UNCHANGED <<clock, stamp>>

\* DELETE FROM applications WHERE id, for each loaded row, wherever the row
\* belongs by now.  A row that is already gone only logs a warning.
DeleteApps(r) ==
  /\ pc[r] = "delete"
  /\ \A a \in txn[r].doomed : CanDeleteApp(Others(r), a)
  /\ Execute(r, "delete",
             IF txn[r].kind = "delete_app" THEN "commit" ELSE "delete_company")
  /\ UNCHANGED <<clock, stamp>>

\* DELETE FROM companies WHERE id, with the cascade to its applications.
DeleteCompanyRow(r) ==
  LET c == txn[r].company
  IN /\ pc[r] = "delete_company"
     /\ CanDeleteCompany(Others(r), c)
     /\ \A a \in AppsOf(c) : CanDeleteApp(Others(r), a)
     /\ Execute(r, "delete_company", "commit")
     /\ UNCHANGED <<clock, stamp>>

\* PostgreSQL aborts a transaction that waits for itself.
Deadlock(r) == InCircle(r) /\ Rollback(r)

-----------------------------------------------------------------------------
(* Committing, answering, failing.                                          *)

\* Mutant: from_stage is taken from the attribute after it was assigned.
NewLedgerRowAfterAssignment(r) ==
  [app |-> txn[r].app, to |-> txn[r].target, at |-> stamp[r],
   from |-> IF txn[r].seen = None THEN None ELSE txn[r].target]

NewLedgerRow(r) ==
  [app |-> txn[r].app, from |-> txn[r].seen, to |-> txn[r].target, at |-> stamp[r]]

\* Mutant: the transaction stays open after the answer.
EndTransactionKeepingLocks(r) ==
  /\ Goto(r, "reread")
  /\ UNCHANGED <<clock, txn, sent, stamp>>

\* The locks go; the request still has to read back what it wrote.
EndTransaction(r) ==
  /\ sent' = [sent EXCEPT ![r] = {}]
  /\ Goto(r, "reread")
  /\ UNCHANGED <<clock, txn, stamp>>

CommitCreate(r) ==
  /\ pc[r] = "commit"
  /\ txn[r].kind = "create"
  /\ apps' = [apps EXCEPT ![r] = [user    |-> txn[r].user,
                                  company |-> txn[r].company,
                                  stage   |-> txn[r].target]]
  /\ history' = history \cup {NewLedgerRow(r)}
  /\ EndTransaction(r)
  /\ UNCHANGED company

\* The new version of the row: only the columns that the UPDATE names change.
UpdatedRow(r) ==
  LET row == apps[txn[r].app]
  IN [ row EXCEPT !.stage   = IF SetsStage(r) THEN txn[r].target ELSE @,
                  !.company = IF Moves(r) THEN txn[r].company ELSE @ ]

\* Mutants: PATCH forgets the audit entry; a further interview round is not
\* recorded because no column changed; an entry replaces an earlier one.
CommitChangeWithoutAudit(r) ==
  /\ pc[r] = "commit"
  /\ txn[r].kind \in {"transition", "patch"}
  /\ apps' = IF Sent(r, "update")
             THEN [apps EXCEPT ![txn[r].app] = UpdatedRow(r)] ELSE apps
  /\ history' = IF txn[r].kind = "transition" THEN history \cup {NewLedgerRow(r)} ELSE history
  /\ EndTransaction(r)
  /\ UNCHANGED company
CommitChangeWithoutRounds(r) ==
  /\ pc[r] = "commit"
  /\ txn[r].kind \in {"transition", "patch"}
  /\ apps' = IF Sent(r, "update")
             THEN [apps EXCEPT ![txn[r].app] = UpdatedRow(r)] ELSE apps
  /\ history' = IF SetsStage(r) THEN history \cup {NewLedgerRow(r)} ELSE history
  /\ EndTransaction(r)
  /\ UNCHANGED company
CommitChangeReplacing(r) ==
  /\ pc[r] = "commit"
  /\ txn[r].kind \in {"transition", "patch"}
  /\ apps' = IF Sent(r, "update")
             THEN [apps EXCEPT ![txn[r].app] = UpdatedRow(r)] ELSE apps
  /\ history' = { h \in history : h.app # txn[r].app \/ h.to # txn[r].target }
                 \cup IF Sent(r, "insert") THEN {NewLedgerRow(r)} ELSE {}
  /\ EndTransaction(r)
  /\ UNCHANGED company

CommitChange(r) ==
  /\ pc[r] = "commit"
  /\ txn[r].kind \in {"transition", "patch"}
  /\ apps' = IF Sent(r, "update")
             THEN [apps EXCEPT ![txn[r].app] = UpdatedRow(r)]
             ELSE apps
  /\ history' = IF Sent(r, "insert") THEN history \cup {NewLedgerRow(r)} ELSE history
  /\ EndTransaction(r)
  /\ UNCHANGED company

CommitDelete(r) ==
  /\ pc[r] = "commit"
  /\ txn[r].kind \in {"delete_app", "delete_company"}
  /\ apps' = [a \in Apps |-> IF a \in Doomed(r) THEN None ELSE apps[a]]
  /\ history' = { h \in history : h.app \notin Doomed(r) }
  /\ company' = IF Sent(r, "delete_company")
                THEN [company EXCEPT ![txn[r].company] = None]
                ELSE company
  /\ Close(r, "ok")
  /\ UNCHANGED <<clock, stamp>>

\* get_application after the commit: the answer is 404 when somebody has
\* deleted the application in the meantime.
Reread(r) ==
  /\ pc[r] = "reread"
  /\ Goto(r, IF OwnsApp(txn[r].user, txn[r].app) THEN "ok" ELSE "gone")
  /\ UNCHANGED <<tables, clock, txn, sent, stamp>>

\* The process dies or the connection drops: nothing of an open transaction
\* survives, a committed one stays.
Fail(r) ==
  /\ r \in Fallible
  /\ pc[r] \in Working \cup {"reread"}
  /\ Rollback(r)

-----------------------------------------------------------------------------

\* An application that was created before and has not been moved since.
OldRow == [user : Users, company : Companies, stage : EntryStages]

Init ==
  /\ company \in [Companies -> Users]
  /\ \E old \in [OldApps -> OldRow \cup {None}] :
       /\ \A a \in OldApps : old[a] # None => company[old[a].company] = old[a].user
       /\ apps = [a \in Apps |-> IF a \in OldApps THEN old[a] ELSE None]
  /\ history = { [app |-> a, from |-> None, to |-> apps[a].stage, at |-> 0] :
                   a \in { b \in Apps : apps[b] # None } }
  /\ clock = 1
  /\ pc = [r \in Requests |-> "idle"]
  /\ txn = [r \in Requests |-> NoTxn]
  /\ sent = [r \in Requests |-> {}]
  /\ stamp = [r \in Requests |-> 0]

\* What a client may send.
Arrive(r) ==
  \E u \in Users :
    \/ \E c \in Companies, s \in EntryStages : CreateBegin(r, u, c, s)
    \/ \E a \in Apps, s \in AskedStages : TransitionBegin(r, u, a, s)
    \/ \E a \in Apps, c \in Companies \cup {None}, s \in AskedStages \cup {None} :
         PatchBegin(r, u, a, c, s)
    \/ \E a \in Apps : DeleteAppBegin(r, u, a)
    \/ \E c \in Companies : DeleteCompanyBegin(r, u, c)

\* What the server does with a request that it has begun.
Proceed(r) ==
  \/ PatchCheckCompany(r)
  \/ InsertApp(r)
  \/ InsertHistory(r)
  \/ UpdateApp(r)
  \/ DeleteApps(r)
  \/ DeleteCompanyRow(r)
  \/ Deadlock(r)
  \/ CommitCreate(r)
  \/ CommitChange(r)
  \/ CommitDelete(r)
  \/ Reread(r)

\* Every request has been answered and no client sends another one.
Quiet == (\A r \in Requests : pc[r] \in Replied) /\ UNCHANGED vars

Next ==
  \/ \E r \in Requests : Arrive(r) \/ Proceed(r) \/ Fail(r)
  \/ Quiet

Spec == Init /\ [][Next]_vars

\* The event loop resumes every coroutine whose awaited statement has
\* finished, and PostgreSQL grants free locks and ends deadlocks.
\* Clients need not send anything.
FairSpec == Spec /\ \A r \in Requests : WF_vars(Proceed(r))

-----------------------------------------------------------------------------
(* Safety: what holds for every interleaving of requests.                   *)

\* Every row of the ledger is the creation of an application or an edge of
\* the matrix, although requests validate a stage that may be outdated.
EdgesLegal ==
  \A h \in history : h.from # None => ValidTransition(h.from, h.to)

\* The ledger never claims that an application left a stage which no earlier
\* row (in changed_at order) says it had entered.
OriginRecorded ==
  \A h \in history : h.from # None =>
    \E g \in history : g.app = h.app /\ g.to = h.from /\ g.at < h.at

\* The stage shown for an application is one that its ledger accounts for.
CurrentStageRecorded ==
  \A a \in Apps : apps[a] # None =>
    \E h \in history : h.app = a /\ h.to = apps[a].stage

\* Each application has one creation row, the oldest of its ledger, and a
\* deleted application leaves no ledger behind.
LedgerComplete ==
  /\ \A h \in history : apps[h.app] # None
  /\ \A a \in Apps : apps[a] # None =>
       \E h \in history :
         /\ h.app = a /\ h.from = None
         /\ \A g \in history \ {h} : g.app = a => g.from # None /\ h.at < g.at

\* An application always belongs to an existing company of its own tenant,
\* also when companies are deleted while applications are created or moved.
TenantConsistent ==
  \A a \in Apps : apps[a] # None => company[apps[a].company] = apps[a].user

\* A request that was answered 2xx has left its entry in the ledger, unless
\* the application has been deleted since; 404 after a commit means just that.
AnsweredIsRecorded ==
  \A r \in Requests :
    txn[r].kind \in {"create", "transition", "patch"} /\ txn[r].target # None =>
      /\ pc[r] \in {"reread", "ok"} /\ apps[txn[r].app] # None
           => NewLedgerRow(r) \in history
      /\ pc[r] = "gone" => apps[txn[r].app] = None

\* Row locks do their work: nobody deletes an application or a company that
\* another open transaction has written to or refers to.
LocksHeld ==
  \A r \in Requests : \A q \in Others(r) :
    /\ (Sent(q, "update") \/ (Sent(q, "insert") /\ txn[q].kind # "create"))
         => txn[q].app \notin Doomed(r)
    /\ Sent(q, "update") /\ Sent(r, "update") => txn[q].app # txn[r].app
    /\ Sent(r, "delete_company") => ~Refers(q, txn[r].company)

\* Row locks are taken in an order that admits no circle, except that ON DELETE
\* CASCADE reaches applications which moved in since the company was read: no
\* other requests block each other.
DeadlocksNeedCascade ==
  \A r \in Requests : InCircle(r) =>
    \E q \in Requests : InCircle(q) /\ pc[q] = "delete_company"

\* The concurrent pipeline implements the ledger that AuditLedger promises.
StageOf(a) == IF apps[a] = None THEN None ELSE apps[a].stage

TrailOf(a) == { <<h.from, h.to>> : h \in { g \in history : g.app = a } }

Audit == INSTANCE AuditLedger WITH stage <- [a \in Apps |-> StageOf(a)],
                                   trail <- [a \in Apps |-> TrailOf(a)]

\* "Append-only historical audit ledger" (app/models/stage_history.py): no
\* stage changes without an entry, no entry is lost, moves start from stages
\* that were entered.
ImplementsAuditLedger == Audit!Spec

\* The ledger is append-only: a row disappears only with its application.
AppendOnly ==
  [][ \A h \in history : h \notin history' => apps'[h.app] = None ]_vars

-----------------------------------------------------------------------------
(* What the code or its documentation says and concurrent requests break.   *)

\* "Terminal state" (app/core/state_machine.py): a rejected application stays
\* rejected.
RejectedIsTerminal ==
  [][ \A a \in Apps :
        apps[a] # None /\ apps[a].stage = "REJECTED" /\ apps'[a] # None
          => apps'[a].stage = "REJECTED" ]_vars

-----------------------------------------------------------------------------
(* Liveness.                                                                *)

\* Every request that was begun is answered: no cycle of row locks and no
\* statement that waits for ever.
EveryRequestAnswered ==
  \A r \in Requests : pc[r] \in Working \cup {"reread"} ~> pc[r] \in Replied
=============================================================================
