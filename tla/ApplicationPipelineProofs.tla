--------------------- MODULE ApplicationPipelineProofs ---------------------
(***************************************************************************)
(* Proofs about ApplicationPipeline for every set of users, companies,      *)
(* applications and requests, in this order:                                *)
(*   - types, the protocol of a request and the row locks (CoreInv);        *)
(*   - what the tables and the answers say together (LedgerInv);            *)
(*   - the pipeline implements AuditLedger;                                 *)
(*   - requests that do not overlap (SerialInv) implement StageLedger.      *)
(***************************************************************************)
EXTENDS PipelineInvariants, ApplicationTimeline, FiniteSetTheorems, SequenceTheorems,
        WellFoundedInduction, TLAPS

-----------------------------------------------------------------------------
(* Typing.                                                                  *)

\* A target that validate_stage_transition accepts is a stage.
LEMMA ValidTargetIsStage ==
  ASSUME NEW from \in Stages, NEW to, ValidTransition(from, to)
  PROVE  to \in Stages
BY DEF ValidTransition, VALID_STAGE_TRANSITIONS, Stages

LEMMA NoTxnType == NoTxn \in Txn
BY DEF NoTxn, Txn

\* Beginning a request keeps the types when its parameters have theirs.
LEMMA BeginType ==
  ASSUME TypeOK, NEW r \in Requests, NEW t \in Txn, NEW label \in PC,
         Begin(r, t, label)
  PROVE  TypeOK'
BY DEF TypeOK, Begin, Goto, tables

LEMMA CloseType ==
  ASSUME TypeOK, NEW r \in Requests, NEW label \in PC, Close(r, label)
  PROVE  /\ pc' \in [Requests -> PC]
         /\ txn' \in [Requests -> Txn]
         /\ sent' \in [Requests -> SUBSET Statements]
BY NoTxnType DEF TypeOK, Close, Goto

LEMMA RefuseType ==
  ASSUME TypeOK, NEW r \in Requests, Refuse(r)
  PROVE  TypeOK'
<1>1. "refused" \in PC
  BY DEF PC, Replied
<1>2. Close(r, "refused") /\ UNCHANGED <<tables, clock, stamp>>
  BY DEF Refuse
<1> QED
  BY <1>1, <1>2, CloseType DEF TypeOK, tables

LEMMA RollbackType ==
  ASSUME TypeOK, NEW r \in Requests, Rollback(r)
  PROVE  TypeOK'
<1>1. "failed" \in PC
  BY DEF PC, Replied
<1>2. Close(r, "failed") /\ UNCHANGED <<tables, clock, stamp>>
  BY DEF Rollback
<1> QED
  BY <1>1, <1>2, CloseType DEF TypeOK, tables

LEMMA ExecuteType ==
  ASSUME TypeOK, NEW r \in Requests, NEW stmt \in Statements, NEW label \in PC,
         Execute(r, stmt, label)
  PROVE  /\ company' \in [Companies -> Users \cup {None}]
         /\ apps' \in [Apps -> AppRow \cup {None}]
         /\ history' \subseteq LedgerRow
         /\ pc' \in [Requests -> PC]
         /\ txn' \in [Requests -> Txn]
         /\ sent' \in [Requests -> SUBSET Statements]
BY DEF TypeOK, Execute, Goto, tables

LEMMA CreateBeginType ==
  ASSUME TypeOK, NEW r \in Requests, NEW u \in Users, NEW c \in Companies,
         NEW s \in EntryStages, CreateBegin(r, u, c, s)
  PROVE  TypeOK'
<1> DEFINE t == [NoTxn EXCEPT !.kind = "create", !.user = u, !.app = r,
                              !.company = c, !.target = s]
<1>1. t \in Txn
  BY BoundAssumption DEF NoTxn, Txn, Apps
<1>2. "insert_app" \in PC
  BY DEF PC, Working
<1>3. Begin(r, t, "insert_app") \/ Refuse(r)
  BY DEF CreateBegin
<1> HIDE DEF t
<1> QED
  BY <1>1, <1>2, <1>3, BeginType, RefuseType

LEMMA TransitionBeginType ==
  ASSUME TypeOK, NEW r \in Requests, NEW u \in Users, NEW a \in Apps,
         NEW s \in AskedStages, TransitionBegin(r, u, a, s)
  PROVE  TypeOK'
<1> DEFINE t == [NoTxn EXCEPT !.kind = "transition", !.user = u, !.app = a,
                              !.target = s, !.seen = apps[a].stage]
           label == IF s = apps[a].stage THEN "insert" ELSE "update"
<1>1. CASE Refuse(r)
  BY <1>1, RefuseType
<1>2. CASE OwnsApp(u, a) /\ Begin(r, t, label)
  <2>1. apps[a] \in AppRow
    BY <1>2 DEF TypeOK, OwnsApp
  <2>2. t \in Txn
    BY <2>1, BoundAssumption DEF NoTxn, Txn, AppRow
  <2>3. label \in PC
    BY DEF PC, Working
  <2> HIDE DEF t, label
  <2> QED
    BY <1>2, <2>2, <2>3, BeginType
<1> QED
  BY <1>1, <1>2 DEF TransitionBegin

LEMMA PatchBeginType ==
  ASSUME TypeOK, NEW r \in Requests, NEW u \in Users, NEW a \in Apps,
         NEW c \in Companies \cup {None}, NEW s \in AskedStages \cup {None},
         PatchBegin(r, u, a, c, s)
  PROVE  TypeOK'
<1> DEFINE other == IF c = apps[a].company THEN None ELSE c
           t == [NoTxn EXCEPT !.kind = "patch", !.user = u, !.app = a,
                              !.company = other, !.target = s,
                              !.seen = apps[a].stage]
<1>1. CASE Refuse(r)
  BY <1>1, RefuseType
<1>2. CASE OwnsApp(u, a) /\ (Begin(r, t, "check") \/ Begin(r, t, "insert"))
  <2>1. apps[a] \in AppRow
    BY <1>2 DEF TypeOK, OwnsApp
  <2>2. t \in Txn
    BY <2>1, BoundAssumption DEF NoTxn, Txn, AppRow
  <2>3. "check" \in PC /\ "insert" \in PC
    BY DEF PC, Working
  <2> HIDE DEF t
  <2> QED
    BY <1>2, <2>2, <2>3, BeginType
<1> QED
  BY <1>1, <1>2 DEF PatchBegin

LEMMA DeleteBeginType ==
  ASSUME TypeOK, NEW r \in Requests, NEW u \in Users,
         \/ \E a \in Apps : DeleteAppBegin(r, u, a)
         \/ \E c \in Companies : DeleteCompanyBegin(r, u, c)
  PROVE  TypeOK'
<1>1. "delete" \in PC
  BY DEF PC, Working
<1>2. ASSUME NEW a \in Apps, DeleteAppBegin(r, u, a)
      PROVE  TypeOK'
  <2> DEFINE t == [NoTxn EXCEPT !.kind = "delete_app", !.user = u, !.doomed = {a}]
  <2>1. t \in Txn
    BY DEF NoTxn, Txn
  <2>2. Begin(r, t, "delete") \/ Refuse(r)
    BY <1>2 DEF DeleteAppBegin
  <2> HIDE DEF t
  <2> QED
    BY <1>1, <2>1, <2>2, BeginType, RefuseType
<1>3. ASSUME NEW c \in Companies, DeleteCompanyBegin(r, u, c)
      PROVE  TypeOK'
  <2> DEFINE t == [NoTxn EXCEPT !.kind = "delete_company", !.user = u,
                                !.company = c, !.doomed = AppsOf(c)]
  <2>1. t \in Txn
    BY DEF NoTxn, Txn, AppsOf
  <2>2. Begin(r, t, "delete") \/ Refuse(r)
    BY <1>3 DEF DeleteCompanyBegin
  <2> HIDE DEF t
  <2> QED
    BY <1>1, <2>1, <2>2, BeginType, RefuseType
<1> QED
  BY <1>2, <1>3

\* The statements before the commit only advance the request's own record.
LEMMA StatementType ==
  ASSUME TypeOK, NEW r \in Requests,
         \/ PatchCheckCompany(r) \/ InsertApp(r) \/ InsertHistory(r)
         \/ UpdateApp(r) \/ DeleteApps(r) \/ DeleteCompanyRow(r)
  PROVE  TypeOK'
<1>1. \A label \in {"insert", "update", "commit", "delete_company"} : label \in PC
  BY DEF PC, Working
<1>2. \A stmt \in {"insert_app", "insert", "update", "delete", "delete_company"} :
        stmt \in Statements
  BY DEF Statements
<1>3. CASE Rollback(r) \/ Refuse(r)
  BY <1>3, RollbackType, RefuseType
<1>4. CASE \E label \in {"insert", "update"} :
             Goto(r, label) /\ UNCHANGED <<tables, clock, txn, sent, stamp>>
  BY <1>4, <1>1 DEF TypeOK, Goto, tables
<1>5. CASE \E stmt \in Statements, label \in {"insert", "update", "commit", "delete_company"} :
             Execute(r, stmt, label) /\ UNCHANGED <<clock, stamp>>
  BY <1>5, <1>1, ExecuteType DEF TypeOK
<1>6. CASE \E label \in {"update", "commit"} :
             /\ Execute(r, "insert", label)
             /\ stamp' = [stamp EXCEPT ![r] = clock]
             /\ clock' = clock + 1
  <2>1. clock' \in Nat /\ stamp' \in [Requests -> Nat]
    BY <1>6 DEF TypeOK
  <2> QED
    BY <1>6, <1>1, <1>2, <2>1, ExecuteType DEF TypeOK
<1>7. CASE PatchCheckCompany(r)
  BY <1>7, <1>3, <1>4 DEF PatchCheckCompany
<1>8. CASE InsertApp(r)
  BY <1>8, <1>2, <1>3, <1>5 DEF InsertApp
<1>9. CASE InsertHistory(r)
  BY <1>9, <1>3, <1>6 DEF InsertHistory
<1>10. CASE UpdateApp(r)
  BY <1>10, <1>2, <1>3, <1>5 DEF UpdateApp
<1>11. CASE DeleteApps(r)
  BY <1>11, <1>2, <1>5 DEF DeleteApps
<1>12. CASE DeleteCompanyRow(r)
  BY <1>12, <1>2, <1>5 DEF DeleteCompanyRow
<1> QED
  BY <1>7, <1>8, <1>9, <1>10, <1>11, <1>12

-----------------------------------------------------------------------------
(* Protocol: a step of a request changes that request's record only, and    *)
(* leads from one of its shapes to another.                                 *)

AnyShape(r) == \/ ClosedShape(r) \/ CreateShape(r) \/ TransitionShape(r)
               \/ PatchShape(r) \/ DeleteShape(r)

OnlyOf(r) == \A q \in Others(r) : /\ pc'[q] = pc[q]
                                 /\ txn'[q] = txn[q]
                                 /\ sent'[q] = sent[q]
                                 /\ stamp'[q] = stamp[q]

LEMMA ProtocolFrame ==
  ASSUME ProtocolOK, NEW r \in Requests, OnlyOf(r), AnyShape(r)'
  PROVE  ProtocolOK'
<1> SUFFICES ASSUME NEW q \in Requests PROVE AnyShape(q)'
  BY DEF ProtocolOK, AnyShape
<1>1. CASE q = r
  BY <1>1
<1>2. CASE q # r
  <2>1. pc'[q] = pc[q] /\ txn'[q] = txn[q] /\ sent'[q] = sent[q]
    BY <1>2 DEF OnlyOf, Others
  <2>2. AnyShape(q)
    BY DEF ProtocolOK, AnyShape
  <2>3. ClosedShape(q) => ClosedShape(q)'
    BY <2>1 DEF ClosedShape
  <2>4. CreateShape(q) => CreateShape(q)'
    BY <2>1 DEF CreateShape, At, Committed
  <2>5. TransitionShape(q) => TransitionShape(q)'
    BY <2>1 DEF TransitionShape, At, Committed, Changed, SetsStage, Moves
  <2>6. PatchShape(q) => PatchShape(q)'
    BY <2>1 DEF PatchShape, At, Committed, Changed, Recorded, SetsStage, Moves
  <2>7. DeleteShape(q) => DeleteShape(q)'
    BY <2>1 DEF DeleteShape, At
  <2> QED
    BY <2>2, <2>3, <2>4, <2>5, <2>6, <2>7 DEF AnyShape
<1> QED
  BY <1>1, <1>2

\* A request that may begin has not done anything yet.
LEMMA IdleIsClosed ==
  ASSUME ProtocolOK, NEW r \in Requests, pc[r] = "idle"
  PROVE  txn[r] = NoTxn /\ sent[r] = {}
BY DEF ProtocolOK, ClosedShape, CreateShape, TransitionShape, PatchShape,
       DeleteShape, At, Committed

LEMMA BeginEffect ==
  ASSUME TypeOK, ProtocolOK, NEW r \in Requests, pc[r] = "idle", NEW t, NEW label,
         Begin(r, t, label)
  PROVE  /\ OnlyOf(r)
         /\ pc'[r] = label /\ txn'[r] = t /\ sent'[r] = {}
         /\ UNCHANGED tables
BY IdleIsClosed DEF TypeOK, Begin, Goto, OnlyOf, Others

LEMMA CloseEffect ==
  ASSUME TypeOK, NEW r \in Requests, NEW label, Close(r, label), UNCHANGED stamp
  PROVE  /\ OnlyOf(r)
         /\ pc'[r] = label /\ txn'[r] = NoTxn /\ sent'[r] = {}
BY DEF TypeOK, Close, Goto, OnlyOf, Others

LEMMA RefuseEffect ==
  ASSUME TypeOK, NEW r \in Requests, Refuse(r) \/ Rollback(r)
  PROVE  OnlyOf(r) /\ AnyShape(r)' /\ UNCHANGED tables /\ sent'[r] = {}
<1>1. PICK label \in {"refused", "failed"} : Close(r, label) /\ UNCHANGED <<tables, stamp>>
  BY DEF Refuse, Rollback
<1>2. OnlyOf(r) /\ pc'[r] = label /\ txn'[r] = NoTxn /\ sent'[r] = {}
  BY <1>1, CloseEffect
<1>3. ClosedShape(r)'
  BY <1>2 DEF ClosedShape, NoTxn
<1> QED
  BY <1>1, <1>2, <1>3 DEF AnyShape

LEMMA ExecuteEffect ==
  ASSUME TypeOK, NEW r \in Requests, NEW stmt, NEW label, Execute(r, stmt, label),
         stamp' = stamp \/ stamp' = [stamp EXCEPT ![r] = clock]
  PROVE  /\ OnlyOf(r)
         /\ pc'[r] = label /\ txn' = txn /\ sent'[r] = sent[r] \cup {stmt}
         /\ UNCHANGED tables
BY DEF TypeOK, Execute, Goto, OnlyOf, Others

-----------------------------------------------------------------------------
(* The reads: every handler begins with its parameters and no statement.    *)

\* The effect of a read on everything but the types.
ReadEffect(r) == OnlyOf(r) /\ AnyShape(r)' /\ UNCHANGED tables /\ sent'[r] = {}

LEMMA CreateBeginShape ==
  ASSUME TypeOK, ProtocolOK, NEW r \in Requests, NEW u \in Users,
         NEW c \in Companies, NEW s \in EntryStages, CreateBegin(r, u, c, s)
  PROVE  ReadEffect(r)
<1> DEFINE t == [NoTxn EXCEPT !.kind = "create", !.user = u, !.app = r,
                              !.company = c, !.target = s]
<1>1. CASE Refuse(r)
  BY <1>1, RefuseEffect DEF ReadEffect
<1>2. CASE Begin(r, t, "insert_app")
  <2>1. /\ t.kind = "create" /\ t.user = u /\ t.app = r /\ t.company = c
        /\ t.target = s /\ t.seen = None /\ t.doomed = {}
    BY DEF NoTxn
  <2> HIDE DEF t
  <2>2. pc[r] = "idle"
    BY DEF CreateBegin, MayBegin
  <2>3. OnlyOf(r) /\ pc'[r] = "insert_app" /\ txn'[r] = t /\ sent'[r] = {} /\ UNCHANGED tables
    BY <1>2, <2>2, BeginEffect
  <2>4. CreateShape(r)'
    BY <2>1, <2>3, BoundAssumption DEF CreateShape, At
  <2> QED
    BY <2>3, <2>4 DEF ReadEffect, AnyShape
<1> QED
  BY <1>1, <1>2 DEF CreateBegin

LEMMA TransitionBeginShape ==
  ASSUME TypeOK, ProtocolOK, NEW r \in Requests, NEW u \in Users, NEW a \in Apps,
         NEW s \in AskedStages, TransitionBegin(r, u, a, s)
  PROVE  ReadEffect(r)
<1> DEFINE t == [NoTxn EXCEPT !.kind = "transition", !.user = u, !.app = a,
                              !.target = s, !.seen = apps[a].stage]
           label == IF s = apps[a].stage THEN "insert" ELSE "update"
<1>1. CASE Refuse(r)
  BY <1>1, RefuseEffect DEF ReadEffect
<1>2. CASE /\ OwnsApp(u, a)
           /\ ValidTransition(apps[a].stage, s)
           /\ Begin(r, t, label)
  <2>1. apps[a].stage \in Stages
    BY <1>2 DEF TypeOK, OwnsApp, AppRow
  <2>2. /\ t.kind = "transition" /\ t.user = u /\ t.app = a /\ t.company = None
        /\ t.target = s /\ t.seen = apps[a].stage /\ t.doomed = {}
    BY DEF NoTxn
  <2>3. label = (IF s = apps[a].stage THEN "insert" ELSE "update")
    OBVIOUS
  <2> HIDE DEF t, label
  <2>4. pc[r] = "idle"
    BY DEF TransitionBegin, MayBegin
  <2>5. OnlyOf(r) /\ pc'[r] = label /\ txn'[r] = t /\ sent'[r] = {} /\ UNCHANGED tables
    BY <1>2, <2>4, BeginEffect
  <2>6. s \in Stages /\ s # None
    BY BoundAssumption, NoneAssumption
  <2>7. /\ SetsStage(r)' <=> s # apps[a].stage
        /\ ~Moves(r)'
    BY <2>2, <2>5, <2>6 DEF SetsStage, Moves
  <2>8. TransitionShape(r)'
    BY <1>2, <2>1, <2>2, <2>3, <2>5, <2>6, <2>7 DEF TransitionShape, At, Changed
  <2> QED
    BY <2>5, <2>8 DEF ReadEffect, AnyShape
<1> QED
  BY <1>1, <1>2 DEF TransitionBegin

LEMMA PatchBeginShape ==
  ASSUME TypeOK, ProtocolOK, NEW r \in Requests, NEW u \in Users, NEW a \in Apps,
         NEW c \in Companies \cup {None}, NEW s \in AskedStages \cup {None},
         PatchBegin(r, u, a, c, s)
  PROVE  ReadEffect(r)
<1> DEFINE other == IF c = apps[a].company THEN None ELSE c
           t == [NoTxn EXCEPT !.kind = "patch", !.user = u, !.app = a,
                              !.company = other, !.target = s,
                              !.seen = apps[a].stage]
           legal == s # None => ValidTransition(apps[a].stage, s)
<1>1. CASE Refuse(r)
  BY <1>1, RefuseEffect DEF ReadEffect
<1>2. CASE /\ OwnsApp(u, a)
           /\ \/ other # None /\ Begin(r, t, "check")
              \/ other = None /\ s # None /\ legal /\ Begin(r, t, "insert")
  <2>1. apps[a].stage \in Stages
    BY <1>2 DEF TypeOK, OwnsApp, AppRow
  <2>2. /\ t.kind = "patch" /\ t.user = u /\ t.app = a /\ t.company = other
        /\ t.target = s /\ t.seen = apps[a].stage /\ t.doomed = {}
    BY DEF NoTxn
  <2> HIDE DEF t
  <2>3. pc[r] = "idle"
    BY DEF PatchBegin, MayBegin
  <2>4. /\ OnlyOf(r) /\ txn'[r] = t /\ sent'[r] = {} /\ UNCHANGED tables
        /\ \/ other # None /\ pc'[r] = "check"
           \/ other = None /\ s # None /\ legal /\ pc'[r] = "insert"
    BY <1>2, <2>3, BeginEffect
  <2>5. Moves(r)' <=> other # None
    BY <2>2, <2>4 DEF Moves
  <2>6. PatchShape(r)'
    BY <2>1, <2>2, <2>4, <2>5 DEF PatchShape, At
  <2> QED
    BY <2>4, <2>6 DEF ReadEffect, AnyShape
<1> QED
  BY <1>1, <1>2 DEF PatchBegin

LEMMA DeleteBeginShape ==
  ASSUME TypeOK, ProtocolOK, NEW r \in Requests, NEW u \in Users,
         \/ \E a \in Apps : DeleteAppBegin(r, u, a)
         \/ \E c \in Companies : DeleteCompanyBegin(r, u, c)
  PROVE  ReadEffect(r)
<1>1. pc[r] = "idle"
  BY DEF DeleteAppBegin, DeleteCompanyBegin, MayBegin
<1>2. ASSUME NEW t, Begin(r, t, "delete"), t.user \in Users, t.app = None,
             t.kind = "delete_app" \/ (t.kind = "delete_company" /\ t.company \in Companies)
      PROVE  ReadEffect(r)
  <2>1. /\ OnlyOf(r) /\ pc'[r] = "delete" /\ txn'[r] = t /\ sent'[r] = {}
        /\ UNCHANGED tables
    BY <1>1, <1>2, BeginEffect
  <2>2. DeleteShape(r)'
    BY <1>2, <2>1 DEF DeleteShape, At
  <2> QED
    BY <2>1, <2>2 DEF ReadEffect, AnyShape
<1>3. ASSUME NEW a \in Apps, DeleteAppBegin(r, u, a)
      PROVE  ReadEffect(r)
  <2> DEFINE t == [NoTxn EXCEPT !.kind = "delete_app", !.user = u, !.doomed = {a}]
  <2>1. t.user = u /\ t.app = None /\ t.kind = "delete_app"
    BY DEF NoTxn
  <2>2. Begin(r, t, "delete") \/ Refuse(r)
    BY <1>3 DEF DeleteAppBegin
  <2> HIDE DEF t
  <2> QED
    BY <1>2, <2>1, <2>2, RefuseEffect DEF ReadEffect
<1>4. ASSUME NEW c \in Companies, DeleteCompanyBegin(r, u, c)
      PROVE  ReadEffect(r)
  <2> DEFINE t == [NoTxn EXCEPT !.kind = "delete_company", !.user = u,
                                !.company = c, !.doomed = AppsOf(c)]
  <2>1. t.user = u /\ t.app = None /\ t.kind = "delete_company" /\ t.company = c
    BY DEF NoTxn
  <2>2. Begin(r, t, "delete") \/ Refuse(r)
    BY <1>4 DEF DeleteCompanyBegin
  <2> HIDE DEF t
  <2> QED
    BY <1>2, <2>1, <2>2, RefuseEffect DEF ReadEffect
<1> QED
  BY <1>3, <1>4

\* The shape of a request follows from its place in the handler.
LEMMA WorkingShape ==
  ASSUME ProtocolOK, NEW r \in Requests
  PROVE  /\ pc[r] = "check" => PatchShape(r)
         /\ pc[r] = "insert_app" => CreateShape(r)
         /\ pc[r] = "insert" => CreateShape(r) \/ TransitionShape(r) \/ PatchShape(r)
         /\ pc[r] = "update" => TransitionShape(r) \/ PatchShape(r)
         /\ pc[r] \in {"delete", "delete_company"} => DeleteShape(r)
         /\ pc[r] = "commit" /\ txn[r].kind = "create" => CreateShape(r)
         /\ pc[r] = "commit" /\ txn[r].kind = "transition" => TransitionShape(r)
         /\ pc[r] = "commit" /\ txn[r].kind = "patch" => PatchShape(r)
         /\ pc[r] = "commit" /\ txn[r].kind \in {"delete_app", "delete_company"}
              => DeleteShape(r)
         /\ pc[r] = "reread" => /\ CreateShape(r) \/ TransitionShape(r) \/ PatchShape(r)
                                /\ Committed(r)
BY DEF ProtocolOK, ClosedShape, CreateShape, TransitionShape, PatchShape,
       DeleteShape, At, Committed

LEMMA PatchCheckShape ==
  ASSUME TypeOK, ProtocolOK, NEW r \in Requests, PatchCheckCompany(r)
  PROVE  ReadEffect(r)
<1> DEFINE label == IF txn[r].target = None THEN "update" ELSE "insert"
<1>1. CASE Refuse(r)
  BY <1>1, RefuseEffect DEF ReadEffect
<1>2. CASE /\ txn[r].target # None => ValidTransition(txn[r].seen, txn[r].target)
           /\ Goto(r, label)
           /\ UNCHANGED <<tables, clock, txn, sent, stamp>>
  <2>1. PatchShape(r) /\ pc[r] = "check"
    BY WorkingShape DEF PatchCheckCompany
  <2>2. sent[r] = {} /\ Moves(r)
    BY <2>1 DEF PatchShape, At, Committed
  <2>3. /\ OnlyOf(r) /\ pc'[r] = label /\ UNCHANGED <<tables, txn, sent>>
    BY <1>2 DEF TypeOK, Goto, OnlyOf, Others
  <2>4. PatchShape(r)'
    BY <1>2, <2>1, <2>2, <2>3 DEF PatchShape, At, Recorded, SetsStage, Moves
  <2> QED
    BY <2>2, <2>3, <2>4 DEF ReadEffect, AnyShape
<1> QED
  BY <1>1, <1>2 DEF PatchCheckCompany

\* Answering: the row is read back, or the request dies after its commit.
LEMMA RereadShape ==
  ASSUME TypeOK, ProtocolOK, NEW r \in Requests, Reread(r)
  PROVE  ReadEffect(r)
<1>1. PICK label \in {"ok", "gone"} : Goto(r, label)
  BY DEF Reread
<1>2. UNCHANGED <<tables, txn, sent, stamp>>
  BY DEF Reread
<1>3. /\ CreateShape(r) \/ TransitionShape(r) \/ PatchShape(r)
      /\ sent[r] = {}
      /\ pc[r] = "reread"
  BY WorkingShape DEF Reread, Committed
<1>4. OnlyOf(r) /\ pc'[r] = label /\ Committed(r)'
  BY <1>1, <1>2, <1>3 DEF TypeOK, Goto, OnlyOf, Others, Committed
<1>5. AnyShape(r)'
  BY <1>2, <1>3, <1>4, Zenon DEF AnyShape, CreateShape, TransitionShape, PatchShape
<1> QED
  BY <1>2, <1>3, <1>4, <1>5 DEF ReadEffect

-----------------------------------------------------------------------------
(* The statements: one more statement sent, the record otherwise the same.  *)

StatementEffect(r, stmt) ==
  /\ OnlyOf(r) /\ AnyShape(r)' /\ UNCHANGED <<tables, txn>>
  /\ sent'[r] = sent[r] \cup {stmt}

LEMMA InsertAppShape ==
  ASSUME TypeOK, ProtocolOK, NEW r \in Requests, InsertApp(r)
  PROVE  \/ ReadEffect(r)
         \/ /\ StatementEffect(r, "insert_app")
            /\ CreateShape(r)
            /\ company[txn[r].company] # None
            /\ CanShareCompany(Others(r), txn[r].company)
<1>1. CASE Rollback(r)
  BY <1>1, RefuseEffect DEF ReadEffect
<1>2. CASE company[txn[r].company] # None /\ Execute(r, "insert_app", "insert")
  <2>1. CreateShape(r) /\ pc[r] = "insert_app" /\ sent[r] = {}
    BY WorkingShape DEF InsertApp, CreateShape, At, Committed
  <2>2. stamp' = stamp
    BY <1>2 DEF InsertApp, Rollback, Close
  <2>3. /\ OnlyOf(r) /\ pc'[r] = "insert" /\ txn' = txn
        /\ sent'[r] = sent[r] \cup {"insert_app"} /\ UNCHANGED tables
    BY <1>2, <2>2, ExecuteEffect
  <2>4. CreateShape(r)'
    BY <2>1, <2>3 DEF CreateShape, At
  <2> QED
    BY <1>2, <2>1, <2>3, <2>4 DEF StatementEffect, AnyShape, InsertApp
<1> QED
  BY <1>1, <1>2 DEF InsertApp

LEMMA InsertHistoryShape ==
  ASSUME TypeOK, ProtocolOK, NEW r \in Requests, InsertHistory(r)
  PROVE  \/ ReadEffect(r)
         \/ /\ StatementEffect(r, "insert")
            /\ CreateShape(r) \/ TransitionShape(r) \/ PatchShape(r)
            /\ txn[r].kind # "create" =>
                 apps[txn[r].app] # None /\ CanShareApp(Others(r), txn[r].app)
<1> DEFINE label == IF txn[r].kind = "patch" /\ (SetsStage(r) \/ Moves(r))
                    THEN "update" ELSE "commit"
<1>1. CASE Rollback(r)
  BY <1>1, RefuseEffect DEF ReadEffect
<1>2. CASE /\ Execute(r, "insert", label)
           /\ txn[r].kind = "create" \/ apps[txn[r].app] # None
           /\ stamp' = [stamp EXCEPT ![r] = clock]
  <2>1. /\ CreateShape(r) \/ TransitionShape(r) \/ PatchShape(r)
        /\ pc[r] = "insert"
    BY WorkingShape DEF InsertHistory
  <2>2. /\ OnlyOf(r) /\ pc'[r] = label /\ txn' = txn
        /\ sent'[r] = sent[r] \cup {"insert"} /\ UNCHANGED tables
    BY <1>2, ExecuteEffect
  <2>3. CreateShape(r) => CreateShape(r)'
    BY <2>1, <2>2 DEF CreateShape, At, Committed
  <2>4. TransitionShape(r) => TransitionShape(r)'
    BY <2>1, <2>2 DEF TransitionShape, At, Committed, Changed, SetsStage, Moves
  <2>5. PatchShape(r) => PatchShape(r)'
    BY <2>1, <2>2 DEF PatchShape, At, Committed, Changed, Recorded, SetsStage, Moves
  <2> QED
    BY <1>2, <2>1, <2>2, <2>3, <2>4, <2>5 DEF StatementEffect, AnyShape, InsertHistory
<1> QED
  BY <1>1, <1>2 DEF InsertHistory

LEMMA UpdateAppShape ==
  ASSUME TypeOK, ProtocolOK, NEW r \in Requests, UpdateApp(r)
  PROVE  \/ ReadEffect(r)
         \/ /\ StatementEffect(r, "update")
            /\ TransitionShape(r) \/ PatchShape(r)
            /\ apps[txn[r].app] # None
            /\ CanUpdateApp(Others(r), txn[r].app)
            /\ Moves(r) => /\ company[txn[r].company] # None
                           /\ CanShareCompany(Others(r), txn[r].company)
<1> DEFINE label == IF txn[r].kind = "transition" THEN "insert" ELSE "commit"
           present == /\ apps[txn[r].app] # None
                      /\ Moves(r) => company[txn[r].company] # None
<1>1. CASE Rollback(r)
  BY <1>1, RefuseEffect DEF ReadEffect
<1>2. CASE present /\ Execute(r, "update", label) /\ stamp' = stamp
  <2>1. (TransitionShape(r) \/ PatchShape(r)) /\ pc[r] = "update"
    BY WorkingShape DEF UpdateApp
  <2>2. /\ OnlyOf(r) /\ pc'[r] = label /\ txn' = txn
        /\ sent'[r] = sent[r] \cup {"update"} /\ UNCHANGED tables
    BY <1>2, ExecuteEffect
  <2>3. TransitionShape(r) => TransitionShape(r)'
    BY <2>1, <2>2 DEF TransitionShape, At, Committed, Changed, SetsStage, Moves
  <2>4. PatchShape(r) => PatchShape(r)'
    BY <2>1, <2>2 DEF PatchShape, At, Committed, Changed, Recorded, SetsStage, Moves
  <2> QED
    BY <1>2, <2>1, <2>2, <2>3, <2>4 DEF StatementEffect, AnyShape, UpdateApp
<1> QED
  BY <1>1, <1>2 DEF UpdateApp

LEMMA DeleteStatementShape ==
  ASSUME TypeOK, ProtocolOK, NEW r \in Requests, DeleteApps(r) \/ DeleteCompanyRow(r)
  PROVE  \/ /\ StatementEffect(r, "delete")
            /\ DeleteShape(r) /\ sent[r] = {}
            /\ \A a \in txn[r].doomed : CanDeleteApp(Others(r), a)
         \/ /\ StatementEffect(r, "delete_company")
            /\ DeleteShape(r) /\ sent[r] = {"delete"}
            /\ CanDeleteCompany(Others(r), txn[r].company)
            /\ \A a \in AppsOf(txn[r].company) : CanDeleteApp(Others(r), a)
<1> DEFINE label == IF txn[r].kind = "delete_app" THEN "commit" ELSE "delete_company"
<1>1. stamp' = stamp
  BY DEF DeleteApps, DeleteCompanyRow
<1>2. CASE DeleteApps(r)
  <2>1. DeleteShape(r) /\ pc[r] = "delete" /\ sent[r] = {}
    BY <1>2, WorkingShape DEF DeleteApps, DeleteShape, At
  <2>2. /\ OnlyOf(r) /\ pc'[r] = label /\ txn' = txn
        /\ sent'[r] = sent[r] \cup {"delete"} /\ UNCHANGED tables
    BY <1>1, <1>2, ExecuteEffect DEF DeleteApps
  <2>3. DeleteShape(r)'
    BY <2>1, <2>2 DEF DeleteShape, At
  <2> QED
    BY <1>2, <2>1, <2>2, <2>3 DEF StatementEffect, AnyShape, DeleteApps
<1>3. CASE DeleteCompanyRow(r)
  <2>1. DeleteShape(r) /\ pc[r] = "delete_company" /\ sent[r] = {"delete"}
    BY <1>3, WorkingShape DEF DeleteCompanyRow, DeleteShape, At
  <2>2. /\ OnlyOf(r) /\ pc'[r] = "commit" /\ txn' = txn
        /\ sent'[r] = sent[r] \cup {"delete_company"} /\ UNCHANGED tables
    BY <1>1, <1>3, ExecuteEffect DEF DeleteCompanyRow
  <2>3. DeleteShape(r)'
    BY <2>1, <2>2 DEF DeleteShape, At
  <2> QED
    BY <1>3, <2>1, <2>2, <2>3 DEF StatementEffect, AnyShape, DeleteCompanyRow
<1> QED
  BY <1>2, <1>3

-----------------------------------------------------------------------------
(* The commits.                                                             *)

\* A commit releases every lock.
CommitEffect(r) == OnlyOf(r) /\ AnyShape(r)' /\ sent'[r] = {}

LEMMA CommitShape ==
  ASSUME TypeOK, ProtocolOK, NEW r \in Requests,
         CommitCreate(r) \/ CommitChange(r) \/ CommitDelete(r)
  PROVE  CommitEffect(r)
<1>1. CASE CommitDelete(r)
  <2>1. Close(r, "ok") /\ UNCHANGED stamp
    BY <1>1 DEF CommitDelete
  <2>2. OnlyOf(r) /\ pc'[r] = "ok" /\ txn'[r] = NoTxn /\ sent'[r] = {}
    BY <2>1, CloseEffect
  <2>3. ClosedShape(r)'
    BY <2>2 DEF ClosedShape, NoTxn
  <2> QED
    BY <2>2, <2>3 DEF CommitEffect, AnyShape
<1>2. CASE CommitCreate(r) \/ CommitChange(r)
  <2>1. pc[r] = "commit" /\ (CreateShape(r) \/ TransitionShape(r) \/ PatchShape(r))
    BY <1>2, WorkingShape DEF CommitCreate, CommitChange
  <2>2. EndTransaction(r)
    BY <1>2 DEF CommitCreate, CommitChange
  <2>3. /\ OnlyOf(r) /\ txn' = txn /\ sent'[r] = {} /\ pc'[r] = "reread"
        /\ Committed(r)'
    BY <2>2 DEF TypeOK, EndTransaction, Goto, OnlyOf, Others, Committed
  <2>4. CreateShape(r) => CreateShape(r)'
    BY <2>1, <2>3 DEF CreateShape
  <2>5. TransitionShape(r) => TransitionShape(r)'
    BY <2>1, <2>3 DEF TransitionShape
  <2>6. PatchShape(r) => PatchShape(r)'
    BY <2>1, <2>3 DEF PatchShape, At, Committed
  <2> QED
    BY <2>1, <2>3, <2>4, <2>5, <2>6 DEF CommitEffect, AnyShape
<1> QED
  BY <1>1, <1>2

-----------------------------------------------------------------------------
(* Locks.                                                                   *)

\* A statement that holds a lock on an application's row.
Touches(q) == Sent(q, "update") \/ (Sent(q, "insert") /\ txn[q].kind # "create")

LEMMA DoomedStable ==
  ASSUME NEW q, sent'[q] = sent[q], txn'[q] = txn[q], UNCHANGED tables
  PROVE  Doomed(q)' = Doomed(q)
BY DEF Doomed, Sent, AppsOf, tables

\* A request that reads, is refused or rolls back holds no lock afterwards.
LEMMA LocksAfterRead ==
  ASSUME TypeOK, LocksHeld, ParentsPresent, NEW r \in Requests, ReadEffect(r)
  PROVE  LocksHeld' /\ ParentsPresent'
<1>1. \A q \in Others(r) : /\ sent'[q] = sent[q] /\ txn'[q] = txn[q]
                           /\ Doomed(q)' = Doomed(q)
  BY DoomedStable DEF ReadEffect, OnlyOf
<1>2. sent'[r] = {} /\ Doomed(r)' = {}
  BY DEF ReadEffect, Doomed, Sent
<1>3. LocksHeld'
  BY <1>1, <1>2 DEF LocksHeld, Others, Sent, Refers, Moves
<1>4. ParentsPresent'
  BY <1>1, <1>2 DEF ParentsPresent, Others, Sent, Moves, ReadEffect, tables
<1> QED
  BY <1>3, <1>4

LEMMA LocksAfterInsertApp ==
  ASSUME TypeOK, LocksHeld, ParentsPresent, NEW r \in Requests,
         StatementEffect(r, "insert_app"), CreateShape(r),
         company[txn[r].company] # None, CanShareCompany(Others(r), txn[r].company)
  PROVE  LocksHeld' /\ ParentsPresent'
<1>1. /\ txn' = txn /\ UNCHANGED tables
      /\ \A q \in Others(r) : sent'[q] = sent[q]
      /\ sent'[r] = sent[r] \cup {"insert_app"}
  BY DEF StatementEffect, OnlyOf
<1>2. \A q \in Requests : Doomed(q)' = Doomed(q)
  BY <1>1 DEF Doomed, Sent, AppsOf, Others, tables
<1>3. LocksHeld'
  BY <1>1, <1>2 DEF LocksHeld, Others, Sent, Refers, Moves, CanShareCompany, CreateShape
<1>4. ParentsPresent'
  BY <1>1 DEF ParentsPresent, Others, Sent, Moves, tables
<1> QED
  BY <1>3, <1>4

LEMMA LocksAfterInsertHistory ==
  ASSUME TypeOK, LocksHeld, ParentsPresent, NEW r \in Requests,
         StatementEffect(r, "insert"),
         txn[r].kind # "create" =>
           apps[txn[r].app] # None /\ CanShareApp(Others(r), txn[r].app)
  PROVE  LocksHeld' /\ ParentsPresent'
<1>1. /\ txn' = txn /\ UNCHANGED tables
      /\ \A q \in Others(r) : sent'[q] = sent[q]
      /\ sent'[r] = sent[r] \cup {"insert"}
  BY DEF StatementEffect, OnlyOf
<1>2. \A q \in Requests : Doomed(q)' = Doomed(q)
  BY <1>1 DEF Doomed, Sent, AppsOf, Others, tables
<1>3. LocksHeld'
  BY <1>1, <1>2 DEF LocksHeld, Others, Sent, Refers, Moves, CanShareApp
<1>4. ParentsPresent'
  BY <1>1 DEF ParentsPresent, Others, Sent, Moves, tables
<1> QED
  BY <1>3, <1>4

LEMMA LocksAfterUpdateApp ==
  ASSUME TypeOK, LocksHeld, ParentsPresent, NEW r \in Requests,
         StatementEffect(r, "update"), TransitionShape(r) \/ PatchShape(r),
         apps[txn[r].app] # None, CanUpdateApp(Others(r), txn[r].app),
         Moves(r) => /\ company[txn[r].company] # None
                     /\ CanShareCompany(Others(r), txn[r].company)
  PROVE  LocksHeld' /\ ParentsPresent'
<1>1. /\ txn' = txn /\ UNCHANGED tables
      /\ \A q \in Others(r) : sent'[q] = sent[q]
      /\ sent'[r] = sent[r] \cup {"update"}
  BY DEF StatementEffect, OnlyOf
<1>2. \A q \in Requests : Doomed(q)' = Doomed(q)
  BY <1>1 DEF Doomed, Sent, AppsOf, Others, tables
<1>3. LocksHeld'
  BY <1>1, <1>2 DEF LocksHeld, Others, Sent, Refers, Moves, CanUpdateApp,
                    CanShareApp, CanShareCompany
<1>4. ParentsPresent'
  BY <1>1 DEF ParentsPresent, Others, Sent, Moves, tables
<1> QED
  BY <1>3, <1>4

LEMMA LocksAfterDelete ==
  ASSUME TypeOK, LocksHeld, ParentsPresent, NEW r \in Requests,
         StatementEffect(r, "delete"), sent[r] = {},
         \A a \in txn[r].doomed : CanDeleteApp(Others(r), a)
  PROVE  LocksHeld' /\ ParentsPresent'
<1>1. /\ txn' = txn /\ UNCHANGED tables
      /\ \A q \in Others(r) : sent'[q] = sent[q]
      /\ sent'[r] = {"delete"}
  BY DEF StatementEffect, OnlyOf
<1>2. \A q \in Others(r) : Doomed(q)' = Doomed(q)
  BY <1>1 DEF Doomed, Sent, AppsOf, tables
<1>3. Doomed(r)' = txn[r].doomed
  BY <1>1 DEF Doomed, Sent
<1>4. LocksHeld'
  BY <1>1, <1>2, <1>3 DEF LocksHeld, Others, Sent, Refers, Moves, CanDeleteApp,
                          CanUpdateApp
<1>5. ParentsPresent'
  BY <1>1 DEF ParentsPresent, Others, Sent, Moves, tables
<1> QED
  BY <1>4, <1>5

LEMMA LocksAfterDeleteCompany ==
  ASSUME TypeOK, LocksHeld, ParentsPresent, NEW r \in Requests,
         StatementEffect(r, "delete_company"), sent[r] = {"delete"},
         CanDeleteCompany(Others(r), txn[r].company),
         \A a \in AppsOf(txn[r].company) : CanDeleteApp(Others(r), a)
  PROVE  LocksHeld' /\ ParentsPresent'
<1>1. /\ txn' = txn /\ UNCHANGED tables
      /\ \A q \in Others(r) : sent'[q] = sent[q]
      /\ sent'[r] = {"delete", "delete_company"}
  BY DEF StatementEffect, OnlyOf
<1>2. \A q \in Others(r) : Doomed(q)' = Doomed(q)
  BY <1>1 DEF Doomed, Sent, AppsOf, tables
<1>3. Doomed(r) = txn[r].doomed /\ Doomed(r)' = Doomed(r) \cup AppsOf(txn[r].company)
  BY <1>1 DEF Doomed, Sent, AppsOf, tables
<1>4. LocksHeld'
  BY <1>1, <1>2, <1>3 DEF LocksHeld, Others, Sent, Refers, Moves, CanDeleteApp,
                          CanUpdateApp, CanDeleteCompany
<1>5. ParentsPresent'
  BY <1>1 DEF ParentsPresent, Others, Sent, Moves, tables
<1> QED
  BY <1>4, <1>5

-----------------------------------------------------------------------------
(* Commits: the tables keep their types, and what other transactions hold   *)
(* stays where it is.                                                       *)

TablesTyped == /\ company \in [Companies -> Users \cup {None}]
               /\ apps \in [Apps -> AppRow \cup {None}]
               /\ history \subseteq LedgerRow

\* What the locks of the others need from a commit of r.
KeepsLocks(r) ==
  \A q \in Others(r) :
    /\ Doomed(q)' \subseteq Doomed(q)
    /\ Touches(q) => apps'[txn[q].app] # None
    /\ Refers(q, txn[q].company) => company'[txn[q].company] # None

LEMMA LedgerRowType ==
  ASSUME TypeOK, NEW r \in Requests, txn[r].app \in Apps, txn[r].target \in Stages
  PROVE  NewLedgerRow(r) \in LedgerRow
<1>1. txn[r].seen \in Stages \cup {None} /\ stamp[r] \in Nat
  BY DEF TypeOK, Txn
<1> QED
  BY <1>1 DEF NewLedgerRow, LedgerRow

LEMMA CommitCreateTables ==
  ASSUME CoreInv, NEW r \in Requests, CommitCreate(r)
  PROVE  TablesTyped' /\ KeepsLocks(r)
<1> DEFINE row == [user |-> txn[r].user, company |-> txn[r].company, stage |-> txn[r].target]
<1> USE DEF CoreInv
<1>1. CreateShape(r) /\ sent[r] = {"insert_app", "insert"}
  BY WorkingShape DEF CommitCreate, CreateShape, At, Committed
<1>2. row \in AppRow /\ r \in Apps /\ row # None
  BY <1>1, NoneAssumption DEF CreateShape, AppRow, Apps
<1>3. NewLedgerRow(r) \in LedgerRow
  BY <1>1, <1>2, LedgerRowType DEF CreateShape
<1> HIDE DEF row
<1>4. /\ apps' = [apps EXCEPT ![r] = row] /\ UNCHANGED company
      /\ history' = history \cup {NewLedgerRow(r)} /\ txn' = txn
      /\ \A q \in Others(r) : sent'[q] = sent[q]
  BY CommitShape DEF CommitCreate, row, EndTransaction, CommitEffect, OnlyOf
<1>5. TablesTyped'
  BY <1>2, <1>3, <1>4 DEF TypeOK, TablesTyped
<1>6. Refers(r, txn[r].company) /\ row.company = txn[r].company
  BY <1>1 DEF Refers, Sent, row
<1>7. ASSUME NEW q \in Others(r), Sent(q, "delete_company")
      PROVE  AppsOf(txn[q].company)' \subseteq AppsOf(txn[q].company)
  <2>1. txn[q].company # txn[r].company
    BY <1>6, <1>7 DEF LocksHeld, Others
  <2> QED
    BY <1>2, <1>4, <1>6, <2>1 DEF AppsOf, TypeOK
<1>8. \A q \in Others(r) : Doomed(q)' \subseteq Doomed(q)
  BY <1>4, <1>7 DEF Doomed, Sent
<1>9. \A q \in Others(r) : Touches(q) => apps'[txn[q].app] # None
  BY <1>2, <1>4 DEF Touches, ParentsPresent, Others, TypeOK
<1> QED
  BY <1>4, <1>5, <1>8, <1>9 DEF KeepsLocks, ParentsPresent, Refers, Others

LEMMA CommitChangeTables ==
  ASSUME CoreInv, NEW r \in Requests, CommitChange(r)
  PROVE  TablesTyped' /\ KeepsLocks(r)
<1> DEFINE a == txn[r].app
           row == UpdatedRow(r)
<1> USE DEF CoreInv
<1>1. TransitionShape(r) \/ PatchShape(r)
  BY WorkingShape DEF CommitChange
<1>2. a \in Apps
  BY <1>1 DEF TransitionShape, PatchShape
<1>3. /\ UNCHANGED company /\ txn' = txn
      /\ \A q \in Others(r) : sent'[q] = sent[q]
  BY CommitShape DEF CommitChange, EndTransaction, CommitEffect, OnlyOf
<1>4. history' \subseteq LedgerRow
  <2>1. CASE Sent(r, "insert")
    <3>1. txn[r].target # None
      BY <1>1, <2>1, NoneAssumption
         DEF TransitionShape, PatchShape, CommitChange, At, Committed, Recorded, Changed, Sent
    <3>2. txn[r].target \in Stages
      BY <3>1 DEF TypeOK, Txn
    <3> QED
      BY <1>2, <2>1, <3>2, LedgerRowType DEF CommitChange, TypeOK
  <2>2. CASE ~Sent(r, "insert")
    BY <2>2 DEF CommitChange, TypeOK
  <2> QED
    BY <2>1, <2>2
<1>5. CASE ~Sent(r, "update")
  <2>1. UNCHANGED apps
    BY <1>5 DEF CommitChange
  <2>2. \A q \in Others(r) : Doomed(q)' = Doomed(q)
    BY <1>3, <2>1 DEF Doomed, Sent, AppsOf
  <2> QED
    BY <1>3, <1>4, <2>1, <2>2
       DEF TablesTyped, TypeOK, KeepsLocks, ParentsPresent, Touches, Refers, Others
<1>6. CASE Sent(r, "update")
  <2>1. apps[a] \in AppRow
    BY <1>2, <1>6 DEF ParentsPresent, TypeOK
  <2>2. txn[r].target \in Stages \cup {None} /\ txn[r].company \in Companies \cup {None}
    BY DEF TypeOK, Txn
  <2>3. row \in AppRow /\ row # None
    BY <2>1, <2>2, NoneAssumption DEF UpdatedRow, AppRow, SetsStage, Moves
  <2>4. row.company = IF Moves(r) THEN txn[r].company ELSE apps[a].company
    BY <2>1 DEF UpdatedRow, AppRow
  <2> HIDE DEF row
  <2>5. apps' = [apps EXCEPT ![a] = row]
    BY <1>6 DEF CommitChange, row
  <2>6. ASSUME NEW q \in Others(r), Sent(q, "delete_company")
        PROVE  AppsOf(txn[q].company)' \subseteq AppsOf(txn[q].company)
    <3>1. Moves(r) => txn[q].company # txn[r].company
      BY <1>6, <2>6 DEF LocksHeld, Others, Refers
    <3> QED
      BY <1>2, <1>3, <2>1, <2>4, <2>5, <3>1, NoneAssumption DEF AppsOf, TypeOK
  <2>7. \A q \in Others(r) : Doomed(q)' \subseteq Doomed(q)
    BY <1>3, <2>6 DEF Doomed, Sent
  <2>8. \A q \in Others(r) : Touches(q) => apps'[txn[q].app] # None
    BY <1>2, <2>3, <2>5 DEF Touches, ParentsPresent, Others, TypeOK
  <2>9. TablesTyped'
    BY <1>3, <1>4, <2>3, <2>5 DEF TablesTyped, TypeOK
  <2> QED
    BY <1>3, <2>7, <2>8, <2>9 DEF KeepsLocks, ParentsPresent, Refers, Others
<1> QED
  BY <1>5, <1>6

LEMMA CommitDeleteTables ==
  ASSUME CoreInv, NEW r \in Requests, CommitDelete(r)
  PROVE  TablesTyped' /\ KeepsLocks(r)
<1> USE DEF CoreInv
<1>1. DeleteShape(r)
  BY WorkingShape DEF CommitDelete
<1>2. \A q \in Others(r) : sent'[q] = sent[q] /\ txn'[q] = txn[q]
  BY CommitShape DEF CommitEffect, OnlyOf
<1>3. apps' = [a \in Apps |-> IF a \in Doomed(r) THEN None ELSE apps[a]]
  BY DEF CommitDelete
<1>4. TablesTyped'
  BY <1>3 DEF CommitDelete, TablesTyped, TypeOK
<1>5. \A q \in Others(r) : Doomed(q)' \subseteq Doomed(q)
  BY <1>2, <1>3 DEF Doomed, Sent, AppsOf
<1>6. ASSUME NEW q \in Others(r), Touches(q)
      PROVE  apps'[txn[q].app] # None
  <2>1. txn[q].app \notin Doomed(r) /\ apps[txn[q].app] # None
    BY <1>6 DEF Touches, LocksHeld, ParentsPresent, Others
  <2>2. txn[q].app \in Apps
    BY <1>6 DEF ProtocolOK, ClosedShape, CreateShape, TransitionShape, PatchShape,
                DeleteShape, At, Committed, Others, Touches, Sent
  <2> QED
    BY <1>3, <2>1, <2>2
<1>7. ASSUME NEW q \in Others(r), Refers(q, txn[q].company)
      PROVE  company'[txn[q].company] # None
  <2>1. company[txn[q].company] # None
    BY <1>7 DEF Refers, ParentsPresent, Others
  <2>2. Sent(r, "delete_company") => txn[q].company # txn[r].company
    BY <1>7 DEF LocksHeld, Others
  <2> QED
    BY <2>1, <2>2 DEF CommitDelete, TypeOK
<1> QED
  BY <1>4, <1>5, <1>6, <1>7 DEF KeepsLocks

LEMMA LocksAfterCommit ==
  ASSUME CoreInv, NEW r \in Requests, CommitEffect(r), KeepsLocks(r)
  PROVE  LocksHeld' /\ ParentsPresent'
<1> USE DEF CoreInv
<1>1. \A q \in Others(r) : sent'[q] = sent[q] /\ txn'[q] = txn[q]
  BY DEF CommitEffect, OnlyOf
<1>2. sent'[r] = {} /\ Doomed(r)' = {}
  BY DEF CommitEffect, Doomed, Sent
<1>3. \A q \in Others(r) : Doomed(q)' \subseteq Doomed(q)
  BY DEF KeepsLocks
<1>4. LocksHeld'
  BY <1>1, <1>2, <1>3 DEF LocksHeld, Others, Sent, Refers, Moves
<1>5. ASSUME NEW q \in Others(r)
      PROVE  /\ Touches(q)' => apps'[txn[q].app] # None
             /\ Refers(q, txn[q].company)' => company'[txn[q].company] # None
  BY <1>1, <1>5 DEF KeepsLocks, Touches, Refers, Sent, Moves
<1>6. ParentsPresent'
  BY <1>1, <1>2, <1>5 DEF ParentsPresent, Touches, Refers, Others, Sent, Moves
<1> QED
  BY <1>4, <1>6

-----------------------------------------------------------------------------
(* The core invariant.                                                      *)

LEMMA CommitType ==
  ASSUME TypeOK, NEW r \in Requests, TablesTyped',
         CommitCreate(r) \/ CommitChange(r) \/ CommitDelete(r)
  PROVE  TypeOK'
<1>1. "ok" \in PC /\ "reread" \in PC
  BY DEF PC, Replied
<1>2. UNCHANGED <<clock, stamp>>
  BY DEF CommitCreate, CommitChange, CommitDelete, EndTransaction
<1>3. CASE CommitDelete(r)
  BY <1>1, <1>2, <1>3, CloseType DEF CommitDelete, TypeOK, TablesTyped
<1>4. CASE EndTransaction(r)
  BY <1>1, <1>2, <1>4 DEF EndTransaction, Goto, TypeOK, TablesTyped
<1> QED
  BY <1>3, <1>4 DEF CommitCreate, CommitChange

LEMMA RereadType ==
  ASSUME TypeOK, NEW r \in Requests, Reread(r)
  PROVE  TypeOK'
<1>1. "ok" \in PC /\ "gone" \in PC
  BY DEF PC, Replied
<1> QED
  BY <1>1 DEF Reread, Goto, TypeOK, tables

Commits(r) == CommitCreate(r) \/ CommitChange(r) \/ CommitDelete(r)

\* Every step of a request reads, executes one statement or commits.
LEMMA StepCases ==
  ASSUME CoreInv, NEW r \in Requests, Arrive(r) \/ Proceed(r) \/ Fail(r)
  PROVE  \/ TypeOK' /\ ReadEffect(r)
         \/ /\ TypeOK' /\ LocksHeld' /\ ParentsPresent'
            /\ \E stmt \in Statements : StatementEffect(r, stmt)
         \/ Commits(r)
<1> USE DEF CoreInv
<1>1. \A stmt \in {"insert_app", "insert", "update", "delete", "delete_company"} :
        stmt \in Statements
  BY DEF Statements
<1>2. CASE Arrive(r)
  <2>1. PICK u \in Users :
          \/ \E c \in Companies, s \in EntryStages : CreateBegin(r, u, c, s)
          \/ \E a \in Apps, s \in AskedStages : TransitionBegin(r, u, a, s)
          \/ \E a \in Apps, c \in Companies \cup {None}, s \in AskedStages \cup {None} :
               PatchBegin(r, u, a, c, s)
          \/ \E a \in Apps : DeleteAppBegin(r, u, a)
          \/ \E c \in Companies : DeleteCompanyBegin(r, u, c)
    BY <1>2 DEF Arrive
  <2> QED
    BY <2>1, CreateBeginType, TransitionBeginType, PatchBeginType, DeleteBeginType,
       CreateBeginShape, TransitionBeginShape, PatchBeginShape, DeleteBeginShape
<1>3. CASE Deadlock(r) \/ Fail(r)
  BY <1>3, RollbackType, RefuseEffect DEF Deadlock, Fail, ReadEffect
<1>4. CASE PatchCheckCompany(r)
  BY <1>4, StatementType, PatchCheckShape
<1>5. CASE InsertApp(r)
  BY <1>1, <1>5, StatementType, InsertAppShape, LocksAfterInsertApp
<1>6. CASE InsertHistory(r)
  BY <1>1, <1>6, StatementType, InsertHistoryShape, LocksAfterInsertHistory
<1>7. CASE UpdateApp(r)
  BY <1>1, <1>7, StatementType, UpdateAppShape, LocksAfterUpdateApp
<1>8. CASE DeleteApps(r) \/ DeleteCompanyRow(r)
  BY <1>1, <1>8, StatementType, DeleteStatementShape, LocksAfterDelete,
     LocksAfterDeleteCompany
<1>9. CASE Reread(r)
  BY <1>9, RereadType, RereadShape
<1> QED
  BY <1>2, <1>3, <1>4, <1>5, <1>6, <1>7, <1>8, <1>9 DEF Proceed, Commits

LEMMA CoreStep ==
  ASSUME CoreInv, NEW r \in Requests, Arrive(r) \/ Proceed(r) \/ Fail(r)
  PROVE  CoreInv'
<1> USE DEF CoreInv
<1>1. CASE TypeOK' /\ ReadEffect(r)
  BY <1>1, ProtocolFrame, LocksAfterRead DEF ReadEffect
<1>2. CASE /\ TypeOK' /\ LocksHeld' /\ ParentsPresent'
           /\ \E stmt \in Statements : StatementEffect(r, stmt)
  BY <1>2, ProtocolFrame DEF StatementEffect
<1>3. CASE Commits(r)
  <2>1. TablesTyped' /\ KeepsLocks(r)
    BY <1>3, CommitCreateTables, CommitChangeTables, CommitDeleteTables DEF Commits
  <2>2. CommitEffect(r)
    BY <1>3, CommitShape DEF Commits
  <2> QED
    BY <1>3, <2>1, <2>2, CommitType, ProtocolFrame, LocksAfterCommit
       DEF CommitEffect, Commits
<1> QED
  BY <1>1, <1>2, <1>3, StepCases

\* Only a commit changes the tables.
LEMMA TablesStep ==
  ASSUME CoreInv, [Next]_vars
  PROVE  UNCHANGED tables \/ \E r \in Requests : Commits(r)
<1>1. CASE UNCHANGED vars
  BY <1>1 DEF vars, tables
<1>2. ASSUME NEW r \in Requests, Arrive(r) \/ Proceed(r) \/ Fail(r)
      PROVE  UNCHANGED tables \/ Commits(r)
  BY <1>2, StepCases DEF ReadEffect, StatementEffect, tables
<1> QED
  BY <1>1, <1>2 DEF Next, Quiet

LEMMA CoreInit ==
  ASSUME Init
  PROVE  CoreInv
<1>1. PICK old \in [OldApps -> OldRow \cup {None}] :
        apps = [a \in Apps |-> IF a \in OldApps THEN old[a] ELSE None]
  BY DEF Init
<1>2. OldRow \subseteq AppRow
  BY BoundAssumption DEF OldRow, AppRow
<1>3. apps \in [Apps -> AppRow \cup {None}]
  BY <1>1, <1>2 DEF Apps
<1>4. history \subseteq LedgerRow
  BY <1>3, NoneAssumption DEF Init, LedgerRow, AppRow
<1>5. "idle" \in PC
  BY DEF PC
<1>6. TypeOK
  BY <1>3, <1>4, <1>5, NoTxnType DEF Init, TypeOK
<1>7. ProtocolOK
  BY DEF Init, ProtocolOK, ClosedShape
<1>8. LocksHeld /\ ParentsPresent
  BY DEF Init, LocksHeld, ParentsPresent, Sent, Refers, Others
<1> QED
  BY <1>6, <1>7, <1>8 DEF CoreInv

\* The types, the protocol of every request and the row locks hold in every
\* reachable state, whatever the number of users, companies and requests.
THEOREM CoreInvariant == Spec => []CoreInv
<1>1. Init => CoreInv
  BY CoreInit
<1>2. CoreInv /\ [Next]_vars => CoreInv'
  <2> SUFFICES ASSUME CoreInv, [Next]_vars PROVE CoreInv'
    OBVIOUS
  <2>1. CASE UNCHANGED vars
    BY <2>1 DEF vars, CoreInv, TypeOK, ProtocolOK, LocksHeld, ParentsPresent,
                ClosedShape, CreateShape, TransitionShape, PatchShape, DeleteShape,
                At, Committed, Changed, Recorded, SetsStage, Moves, Sent, Refers,
                Others, Doomed, AppsOf
  <2>2. CASE \E r \in Requests : Arrive(r) \/ Proceed(r) \/ Fail(r)
    BY <2>2, CoreStep
  <2> QED
    BY <2>1, <2>2 DEF Next, Quiet
<1> QED
  BY <1>1, <1>2, PTL DEF Spec

\* The typing part of it: no table, no request record ever holds a value of
\* another type, in particular no NULL where a column is NOT NULL.
THEOREM TypeCorrect == Spec => []TypeOK
<1>1. CoreInv => TypeOK
  BY DEF CoreInv
<1> QED
  BY <1>1, CoreInvariant, PTL

\* Row locks protect every open transaction: what it wrote or refers to is not
\* deleted under it, and no two transactions have updated the same row.
THEOREM LocksSound == Spec => []LocksHeld
<1>1. CoreInv => LocksHeld
  BY DEF CoreInv
<1> QED
  BY <1>1, CoreInvariant, PTL

-----------------------------------------------------------------------------
(* Deadlocks.                                                               *)

InProgress == { r \in Requests : pc[r] \in Working \cup {"reread"} }

Blocked(r) == \E q \in Requests : WaitsFor(r, q)

\* The guards of the statements: nobody keeps a lock that the next one needs.
Granted(r) ==
  LET a == txn[r].app
      c == txn[r].company
  IN /\ pc[r] = "insert_app" => CanShareCompany(Others(r), c)
     /\ pc[r] = "insert" => txn[r].kind = "create" \/ CanShareApp(Others(r), a)
     /\ pc[r] = "update" => /\ CanUpdateApp(Others(r), a)
                            /\ Moves(r) => CanShareCompany(Others(r), c)
     /\ pc[r] = "delete" => \A b \in txn[r].doomed : CanDeleteApp(Others(r), b)
     /\ pc[r] = "delete_company" => /\ CanDeleteCompany(Others(r), c)
                                    /\ \A b \in AppsOf(c) : CanDeleteApp(Others(r), b)

SomebodyProceeds ==
  InProgress # {} =>
    \E r \in InProgress : Granted(r) \/ (pc[r] = "delete_company" /\ InCircle(r))

\* Requests in the order in which they take locks: those that hold none, a
\* company that is being deleted, a PATCH between its two statements, and those
\* that need no lock any more.
Level(r) ==
  IF pc[r] = "delete_company" THEN 2
  ELSE IF sent[r] = {} /\ pc[r] \in {"insert_app", "insert", "update", "delete"} THEN 3
  ELSE IF pc[r] = "update" THEN 1 ELSE 0

LEMMA LevelType ==
  ASSUME NEW r
  PROVE  Level(r) \in 0 .. 3 /\ (Level(r) = 2 <=> pc[r] = "delete_company")
BY DEF Level

\* A request that holds a lock is at a level that its last statement fixes.
LEMMA LevelOfHolder ==
  ASSUME ProtocolOK, NEW q \in Requests
  PROVE  /\ Sent(q, "delete_company") => Level(q) = 0
         /\ Sent(q, "delete") => Level(q) \in {0, 2}
         /\ Sent(q, "update") => Level(q) = 0
         /\ Sent(q, "insert") => Level(q) \in {0, 1}
         /\ Sent(q, "insert_app") => Level(q) = 0
<1>1. ClosedShape(q) => sent[q] = {}
  BY DEF ClosedShape
<1>2. CreateShape(q) /\ sent[q] # {} => Level(q) = 0 /\ sent[q] \subseteq {"insert_app", "insert"}
  BY DEF CreateShape, At, Committed, Level
<1>3. TransitionShape(q) /\ sent[q] # {} => Level(q) = 0 /\ sent[q] \subseteq {"update", "insert"}
  BY DEF TransitionShape, At, Committed, Changed, Level
<1>4. PatchShape(q) /\ sent[q] # {} =>
        /\ sent[q] \subseteq {"update", "insert"}
        /\ Level(q) \in {0, 1}
        /\ "update" \in sent[q] => Level(q) = 0
  BY DEF PatchShape, At, Committed, Changed, Recorded, Level
<1>5. DeleteShape(q) /\ sent[q] # {} =>
        /\ sent[q] \subseteq {"delete", "delete_company"}
        /\ Level(q) \in {0, 2}
        /\ "delete_company" \in sent[q] => Level(q) = 0
  BY DEF DeleteShape, At, Level
<1> QED BY <1>1, <1>2, <1>3, <1>4, <1>5 DEF ProtocolOK, Sent

\* A request that has no statement waiting for a lock of another waits at none.
LEMMA WaiterShape ==
  ASSUME ProtocolOK, NEW r \in Requests, NEW q, WaitsFor(r, q)
  PROVE  \/ Level(r) = 3 /\ sent[r] = {}
         \/ Level(r) = 2
         \/ pc[r] = "insert" /\ txn[r].kind # "create" /\ Sent(r, "update")
         \/ Level(r) = 1 /\ pc[r] = "update" /\ Sent(r, "insert") /\ txn[r].kind # "create"
<1>1. pc[r] \in {"insert_app", "insert", "update", "delete", "delete_company"}
      /\ (pc[r] = "insert" => txn[r].kind # "create")
  BY DEF WaitsFor
<1>2. sent[r] = {} => Level(r) \in {2, 3}
  BY <1>1 DEF Level
<1>3. pc[r] = "delete_company" => Level(r) = 2
  BY DEF Level
<1>4. pc[r] \in {"insert_app", "delete"} => sent[r] = {}
  BY WorkingShape DEF CreateShape, DeleteShape, At, Committed
<1>5. pc[r] = "insert" /\ sent[r] # {} => Sent(r, "update")
  BY <1>1, WorkingShape DEF CreateShape, TransitionShape, PatchShape, At, Committed, Changed, Sent
<1>6. pc[r] = "update" /\ sent[r] # {} => Sent(r, "insert") /\ txn[r].kind # "create"
  BY WorkingShape DEF TransitionShape, PatchShape, At, Committed, Recorded, Sent
<1>7. pc[r] = "update" /\ sent[r] # {} => Level(r) = 1
  BY DEF Level
<1> QED BY <1>1, <1>2, <1>3, <1>4, <1>5, <1>6, <1>7

\* Whoever waits waits for requests that are further on, except that a cascade
\* may wait for another one.
LEMMA WaitsForLater ==
  ASSUME CoreInv, NEW r \in Requests, NEW q \in Requests, WaitsFor(r, q)
  PROVE  Level(q) < Level(r) \/ (Level(q) = 2 /\ Level(r) = 2)
<1>1. ProtocolOK /\ LocksHeld
  BY DEF CoreInv
<1>2. q # r /\ q \in Others(r) /\ r \in Others(q)
  BY DEF WaitsFor, Others
<1>3. /\ Sent(q, "delete_company") => Level(q) = 0
      /\ Sent(q, "delete") => Level(q) \in {0, 2}
      /\ Sent(q, "update") => Level(q) = 0
      /\ Sent(q, "insert") => Level(q) \in {0, 1}
      /\ Sent(q, "insert_app") => Level(q) = 0
  BY <1>1, LevelOfHolder
<1>4. ASSUME NEW a, a \in Doomed(q) PROVE Level(q) \in {0, 2}
  BY <1>3, <1>4 DEF Doomed
<1>5. \A a : ~CanDeleteApp({q}, a) => Level(q) \in {0, 1, 2}
  BY <1>3, <1>4 DEF CanDeleteApp, CanUpdateApp, CanShareApp
<1>6. CASE Level(r) = 3
  BY <1>3, <1>4, <1>5, <1>6 DEF WaitsFor, Level, CanShareCompany, CanShareApp, CanUpdateApp
<1>7. CASE Level(r) = 2
  <2>1. pc[r] = "delete_company"
    BY <1>7, LevelType
  <2>2. ~CanDeleteCompany({q}, txn[r].company) => Level(q) = 0
    BY <1>3 DEF CanDeleteCompany, CanShareCompany, Refers
  <2> QED BY <1>5, <1>7, <2>1, <2>2 DEF WaitsFor
<1>8. CASE pc[r] = "insert" /\ txn[r].kind # "create" /\ Sent(r, "update")
  <2>1. txn[r].app \notin Doomed(q)
    BY <1>1, <1>2, <1>8 DEF LocksHeld
  <2> QED BY <1>8, <2>1 DEF WaitsFor, CanShareApp
<1>9. CASE Level(r) = 1 /\ pc[r] = "update" /\ Sent(r, "insert") /\ txn[r].kind # "create"
  <2>1. txn[r].app \notin Doomed(q)
    BY <1>1, <1>2, <1>9 DEF LocksHeld
  <2> QED BY <1>3, <1>9, <2>1 DEF WaitsFor, CanShareApp, CanUpdateApp, CanShareCompany
<1> QED BY <1>1, <1>6, <1>7, <1>8, <1>9, WaiterShape

\* Only cascades wait in a circle: the levels of others fall along it.
LEMMA CirclesOfCascades ==
  ASSUME CoreInv, NEW r \in Requests, InCircle(r)
  PROVE  pc[r] = "delete_company"
<1> SUFFICES ASSUME Level(r) # 2 PROVE FALSE
  BY LevelType
<1> DEFINE S == { q \in Requests : Level(q) < Level(r) }
<1>1. \A q \in Requests : Level(q) \in 0 .. 3
  BY LevelType
<1>2. ASSUME NEW p \in S \cup {r}, NEW q \in Requests, WaitsFor(p, q) PROVE q \in S
  <2>1. p \in Requests /\ (p = r \/ Level(p) < Level(r))
    OBVIOUS
  <2>2. Level(q) < Level(p) \/ (Level(q) = 2 /\ Level(p) = 2)
    BY <1>2, <2>1, WaitsForLater
  <2>3. Level(q) < Level(r)
    BY <1>1, <2>1, <2>2
  <2> QED BY <2>3
<1>3. S \in SUBSET Requests /\ r \notin S
  BY <1>1
<1> QED BY <1>2, <1>3 DEF InCircle

\* A deadlock takes a cascade: without one, the order in which requests take
\* row locks admits no circle, however many of them overlap.
THEOREM DeadlocksTakeCascades == Spec => []DeadlocksNeedCascade
<1>1. CoreInv => DeadlocksNeedCascade
  BY CirclesOfCascades DEF DeadlocksNeedCascade
<1> QED
  BY <1>1, CoreInvariant, PTL

\* A family of subsets of a finite set has a smallest member.
LEMMA SmallestMember ==
  ASSUME NEW D, IsFiniteSet(D), NEW F, F \subseteq SUBSET D, F # {}
  PROVE  \E s \in F : \A t \in F : t \subseteq s => t = s
<1> DEFINE R == StrictSubsetOrdering(D)
           All == SUBSET D
<1>1. IsWellFoundedOn(R, All) /\ F \subseteq All
  BY FS_StrictSubsetOrderingWellFounded, FS_FiniteSubsetsOfFinite
<1>2. \A s, t \in All : t \subseteq s /\ t # s => <<t, s>> \in R
  BY DEF StrictSubsetOrdering
<1> HIDE DEF R, All
<1>3. PICK s \in F : \A t \in F : ~(<<t, s>> \in R)
  BY <1>1, WFMin
<1> QED BY <1>1, <1>2, <1>3

\* Locks are held by open transactions only.
LEMMA HolderInProgress ==
  ASSUME CoreInv, NEW r, NEW q \in Requests, WaitsFor(r, q)
  PROVE  q \in InProgress
<1>1. sent[q] # {}
  <2>1. \A a : ~CanDeleteApp({q}, a) => sent[q] # {}
    BY DEF CanDeleteApp, CanUpdateApp, CanShareApp, Doomed, Sent
  <2>2. \A c : ~CanDeleteCompany({q}, c) => sent[q] # {}
    BY DEF CanDeleteCompany, CanShareCompany, Refers, Sent
  <2>3. \A a, c : ~CanUpdateApp({q}, a) \/ ~CanShareApp({q}, a) \/ ~CanShareCompany({q}, c)
                    => sent[q] # {}
    BY DEF CanUpdateApp, CanShareApp, CanShareCompany, Doomed, Sent
  <2> QED BY <2>1, <2>2, <2>3 DEF WaitsFor
<1> QED BY <1>1 DEF CoreInv, ProtocolOK, ClosedShape, CreateShape, TransitionShape, PatchShape,
                    DeleteShape, At, Committed, InProgress, Working

LEMMA UnblockedIsGranted ==
  ASSUME NEW r \in Requests, ~Blocked(r)
  PROVE  Granted(r)
<1>1. \A q \in Others(r) : ~WaitsFor(r, q) /\ q # r
  BY DEF Blocked, Others
<1>2. \A a : /\ (\A q \in Others(r) : CanShareApp({q}, a)) => CanShareApp(Others(r), a)
             /\ (\A q \in Others(r) : CanUpdateApp({q}, a)) => CanUpdateApp(Others(r), a)
             /\ (\A q \in Others(r) : CanDeleteApp({q}, a)) => CanDeleteApp(Others(r), a)
  BY DEF CanShareApp, CanUpdateApp, CanDeleteApp
<1>3. \A c : /\ (\A q \in Others(r) : CanShareCompany({q}, c)) => CanShareCompany(Others(r), c)
             /\ (\A q \in Others(r) : CanDeleteCompany({q}, c)) => CanDeleteCompany(Others(r), c)
  BY DEF CanShareCompany, CanDeleteCompany
<1> QED BY <1>1, <1>2, <1>3 DEF WaitsFor, Granted

\* The detector finds a circle when everybody is blocked: the smallest set of
\* requests that only wait for each other is one.
LEMMA EverybodyBlocked ==
  ASSUME CoreInv, IsFiniteSet(Requests), InProgress # {}, \A q \in InProgress : Blocked(q)
  PROVE  \E q \in InProgress : InCircle(q)
<1> DEFINE Closed(S) == \A p \in S, q \in Requests : WaitsFor(p, q) => q \in S
           F == { S \in SUBSET InProgress : S # {} /\ Closed(S) }
<1>1. InProgress \in F
  BY HolderInProgress
<1>2. F \subseteq SUBSET Requests
  BY DEF InProgress
<1> HIDE DEF F
<1>3. PICK S \in F : \A T \in F : T \subseteq S => T = S
  BY <1>1, <1>2, SmallestMember
<1>4. S \subseteq InProgress /\ S # {} /\ Closed(S)
  BY <1>3 DEF F
<1>5. PICK r \in S : TRUE
  BY <1>4
<1>6. ASSUME NEW T \in SUBSET Requests,
             \A p \in T \cup {r}, q \in Requests : WaitsFor(p, q) => q \in T
      PROVE  r \in T
  <2>1. PICK q \in Requests : WaitsFor(r, q)
    BY <1>4, <1>5 DEF Blocked
  <2>2. q \in T \cap S
    BY <1>4, <1>5, <1>6, <2>1
  <2>3. T \cap S \in F
    BY <1>4, <1>6, <2>2 DEF F
  <2>4. T \cap S = S
    BY <1>3, <2>3
  <2> QED BY <1>5, <2>4
<1> QED BY <1>4, <1>5, <1>6 DEF InCircle

\* The server never gets stuck: while requests are open the next statement of
\* one of them is not blocked, or it is a cascade that the detector aborts.
THEOREM NeverStuck ==
  ASSUME IsFiniteSet(Requests)
  PROVE  Spec => []SomebodyProceeds
<1>1. CoreInv => SomebodyProceeds
  BY EverybodyBlocked, CirclesOfCascades, UnblockedIsGranted DEF SomebodyProceeds, InProgress
<1> QED
  BY <1>1, CoreInvariant, PTL

-----------------------------------------------------------------------------
(* The ledger.                                                              *)

\* Every row of the ledger is a creation or an edge of the matrix, for any
\* number of concurrent requests: each records only what it validated.
THEOREM LedgerLegal == Spec => []EdgesLegal
<1>1. Init => EdgesLegal
  BY DEF Init, EdgesLegal
<1>2. CoreInv /\ EdgesLegal /\ [Next]_vars => EdgesLegal'
  <2> SUFFICES ASSUME CoreInv, EdgesLegal, [Next]_vars PROVE EdgesLegal'
    OBVIOUS
  <2>1. CASE UNCHANGED tables
    BY <2>1 DEF EdgesLegal, tables
  <2>2. ASSUME NEW r \in Requests, Commits(r) PROVE EdgesLegal'
    <3>1. CASE CommitCreate(r)
      <4>1. txn[r].seen = None
        BY <3>1, WorkingShape DEF CommitCreate, CreateShape, CoreInv
      <4> QED
        BY <3>1, <4>1 DEF CommitCreate, EdgesLegal, NewLedgerRow
    <3>2. CASE CommitChange(r)
      <4>1. Sent(r, "insert") => ValidTransition(txn[r].seen, txn[r].target)
        BY <3>2, WorkingShape, NoneAssumption
           DEF CommitChange, TransitionShape, PatchShape, CoreInv, At, Committed,
               Recorded, Changed, Sent
      <4> QED
        BY <3>2, <4>1 DEF CommitChange, EdgesLegal, NewLedgerRow
    <3>3. CASE CommitDelete(r)
      BY <3>3 DEF CommitDelete, EdgesLegal
    <3> QED
      BY <2>2, <3>1, <3>2, <3>3 DEF Commits
  <2> QED
    BY <2>1, <2>2, TablesStep
<1> QED
  BY <1>1, <1>2, CoreInvariant, PTL DEF Spec

\* No step removes a row of the ledger unless it deletes the application.
THEOREM LedgerAppendOnly == Spec => AppendOnly
<1>1. CoreInv /\ [Next]_vars
        => [\A h \in history : h \notin history' => apps'[h.app] = None]_vars
  <2> SUFFICES ASSUME CoreInv, [Next]_vars, NEW h \in history, h \notin history'
               PROVE  apps'[h.app] = None
    OBVIOUS
  <2>1. PICK r \in Requests : Commits(r)
    BY TablesStep DEF tables
  <2>2. CommitDelete(r) /\ h.app \in Doomed(r)
    BY <2>1 DEF Commits, CommitCreate, CommitChange, CommitDelete
  <2>3. h.app \in Apps
    BY DEF CoreInv, TypeOK, LedgerRow
  <2> QED
    BY <2>2, <2>3 DEF CommitDelete
<1> QED
  BY <1>1, CoreInvariant, PTL DEF Spec, AppendOnly

-----------------------------------------------------------------------------
(* The inductive invariant of the tables.                                    *)

Uncommitted(q) == pc[q] \in {"idle"} \cup Working
Changes(r)     == txn[r].kind \in {"transition", "patch"}

\* The id of an application is that of the request that creates it.
FreshApps == \A q \in Requests : Uncommitted(q) => apps[q] = None

LedgerTimes ==
  /\ \A h \in history : h.at < clock
  /\ \A r \in Requests : stamp[r] < clock

\* The application that a request found, or created, is its user's or is gone;
\* it does not come back.
AppKnown(r) ==
  Changes(r) \/ (txn[r].kind = "create" /\ ~Uncommitted(r)) =>
    /\ txn[r].app \in Apps
    /\ txn[r].app \in Requests => ~Uncommitted(txn[r].app)
    /\ apps[txn[r].app] # None => apps[txn[r].app].user = txn[r].user

\* So is the company that it found.
CompanyKnown(r) ==
  txn[r].kind = "create" \/ (Moves(r) /\ pc[r] # "check") =>
    company[txn[r].company] \in {None, txn[r].user}

\* The stage that a request read has its row, older than the one it is adding,
\* and so is the creation of the application.
SeenKnown(r) ==
  Changes(r) /\ pc[r] \in Working /\ apps[txn[r].app] # None =>
    /\ \E g \in history : /\ g.app = txn[r].app /\ g.to = txn[r].seen
                          /\ Sent(r, "insert") => g.at < stamp[r]
    /\ Sent(r, "insert") =>
         \A g \in history : g.app = txn[r].app /\ g.from = None => g.at < stamp[r]

\* AnsweredIsRecorded for one request.
Answered(r) ==
  txn[r].kind \in {"create", "transition", "patch"} /\ txn[r].target # None =>
    /\ pc[r] \in {"reread", "ok"} /\ apps[txn[r].app] # None => NewLedgerRow(r) \in history
    /\ pc[r] = "gone" => apps[txn[r].app] = None

Known(r) == AppKnown(r) /\ CompanyKnown(r) /\ SeenKnown(r) /\ Answered(r)

TablesAgree == TenantConsistent /\ LedgerComplete /\ OriginRecorded /\ CurrentStageRecorded

LedgerInv ==
  TablesAgree /\ FreshApps /\ LedgerTimes /\ \A r \in Requests : Known(r)

-----------------------------------------------------------------------------
(* Steps that leave the tables alone.                                        *)

\* What others know does not depend on the progress of r.
LEMMA OthersKnow ==
  ASSUME NEW r \in Requests, NEW q \in Others(r), OnlyOf(r), UNCHANGED tables,
         Uncommitted(r)' => Uncommitted(r), Known(q)
  PROVE  Known(q)'
<1>1. /\ q \in Requests /\ pc'[q] = pc[q] /\ txn'[q] = txn[q] /\ sent'[q] = sent[q] /\ stamp'[q] = stamp[q]
      /\ apps' = apps /\ history' = history /\ company' = company
  BY DEF OnlyOf, Others, tables
<1>2. \A p \in Requests : ~Uncommitted(p) => ~Uncommitted(p)'
  BY DEF OnlyOf, Others, Uncommitted
<1>3. Uncommitted(q)' = Uncommitted(q)
  BY <1>1 DEF Uncommitted
<1>4. AppKnown(q)'
  BY <1>1, <1>2, <1>3 DEF Known, AppKnown, Changes, Uncommitted
<1>5. CompanyKnown(q)' /\ SeenKnown(q)' /\ Answered(q)'
  BY <1>1 DEF Known, CompanyKnown, SeenKnown, Answered, Moves, Changes, Sent, NewLedgerRow
<1> QED BY <1>4, <1>5 DEF Known

LEMMA QuietStep ==
  ASSUME CoreInv, LedgerInv, NEW r \in Requests, OnlyOf(r), UNCHANGED tables,
         Uncommitted(r)' => Uncommitted(r),
         clock' \in {clock, clock + 1}, stamp'[r] = stamp[r] \/ (stamp'[r] = clock /\ clock' = clock + 1),
         Known(r)'
  PROVE  LedgerInv'
<1>1. apps' = apps /\ history' = history /\ company' = company
  BY DEF tables
<1>2. TablesAgree'
  BY <1>1 DEF LedgerInv, TablesAgree, TenantConsistent, LedgerComplete, OriginRecorded, CurrentStageRecorded
<1>3. FreshApps'
  BY <1>1 DEF LedgerInv, FreshApps, OnlyOf, Others, Uncommitted
<1>4. clock \in Nat /\ stamp \in [Requests -> Nat] /\ history \subseteq LedgerRow
  BY DEF CoreInv, TypeOK
<1>5. LedgerTimes'
  <2>1. \A h \in history : h.at \in Nat /\ h.at < clock
    BY <1>4 DEF LedgerInv, LedgerTimes, LedgerRow
  <2>2. \A q \in Requests : stamp'[q] < clock'
    BY <1>4 DEF LedgerInv, LedgerTimes, OnlyOf, Others
  <2> QED BY <1>1, <1>4, <2>1, <2>2 DEF LedgerTimes
<1>6. \A q \in Requests : Known(q)'
  BY OthersKnow DEF LedgerInv, Others
<1> QED BY <1>2, <1>3, <1>5, <1>6 DEF LedgerInv

\* A request that is closed knows nothing.
LEMMA ClosedStep ==
  ASSUME CoreInv, LedgerInv, NEW r \in Requests, Refuse(r) \/ Rollback(r)
  PROVE  LedgerInv'
<1>1. PICK label \in {"refused", "failed"} : Close(r, label) /\ UNCHANGED <<tables, clock, stamp>>
  BY DEF Refuse, Rollback
<1>2. OnlyOf(r) /\ pc'[r] = label /\ txn'[r] = NoTxn /\ sent'[r] = {}
  BY <1>1, CloseEffect DEF CoreInv
<1>3. Known(r)'
  BY <1>2 DEF Known, AppKnown, CompanyKnown, SeenKnown, Answered, Changes, Moves, NoTxn
<1>4. ~Uncommitted(r)'
  BY <1>2 DEF Uncommitted, Working
<1> QED BY <1>1, <1>2, <1>3, <1>4, QuietStep

\* A request that begins has read what it knows.
LEMMA BeginStep ==
  ASSUME CoreInv, LedgerInv, NEW r \in Requests, NEW t, NEW label \in Working, MayBegin(r), Begin(r, t, label),
         t.kind = "create" => OwnsCompany(t.user, t.company),
         t.kind \in {"transition", "patch"} =>
           t.app \in Apps /\ OwnsApp(t.user, t.app) /\ t.seen = apps[t.app].stage,
         t.kind = "patch" /\ t.company # None => label = "check"
  PROVE  LedgerInv'
<1>1. /\ OnlyOf(r) /\ pc'[r] = label /\ txn'[r] = t /\ sent'[r] = {} /\ UNCHANGED tables
      /\ pc[r] = "idle" /\ clock' = clock /\ stamp' = stamp
  BY BeginEffect DEF CoreInv, MayBegin, Begin
<1>2. apps' = apps /\ history' = history /\ company' = company
  BY <1>1 DEF tables
<1>3. Uncommitted(r)
  BY <1>1 DEF Uncommitted
<1>4. CompanyKnown(r)' /\ Answered(r)'
  BY <1>1, <1>2 DEF CompanyKnown, Answered, Moves, OwnsCompany, Working
<1>5. CASE t.kind \in {"transition", "patch"}
  <2>1. t.app \in Requests => ~Uncommitted(t.app)
    BY <1>5 DEF LedgerInv, FreshApps, OwnsApp
  <2>2. AppKnown(r)'
    BY <1>1, <1>2, <1>3, <1>5, <2>1 DEF AppKnown, OwnsApp, OnlyOf, Others, Uncommitted
  <2>3. SeenKnown(r)'
    BY <1>1, <1>2, <1>5 DEF SeenKnown, Sent, OwnsApp, LedgerInv, TablesAgree, CurrentStageRecorded
  <2> QED BY <1>1, <1>3, <1>4, <2>2, <2>3, QuietStep DEF Known
<1>6. CASE t.kind \notin {"transition", "patch"}
  <2>1. AppKnown(r)' /\ SeenKnown(r)'
    BY <1>1, <1>6 DEF AppKnown, SeenKnown, Changes, Uncommitted
  <2> QED BY <1>1, <1>3, <1>4, <2>1, QuietStep DEF Known
<1> QED BY <1>5, <1>6

LEMMA ArriveStep ==
  ASSUME CoreInv, LedgerInv, NEW r \in Requests, Arrive(r)
  PROVE  LedgerInv'
<1> PICK u \in Users :
      \/ \E c \in Companies, s \in EntryStages : CreateBegin(r, u, c, s)
      \/ \E a \in Apps, s \in AskedStages : TransitionBegin(r, u, a, s)
      \/ \E a \in Apps, c \in Companies \cup {None}, s \in AskedStages \cup {None} :
           PatchBegin(r, u, a, c, s)
      \/ \E a \in Apps : DeleteAppBegin(r, u, a)
      \/ \E c \in Companies : DeleteCompanyBegin(r, u, c)
  BY DEF Arrive
<1>1. ASSUME NEW c \in Companies, NEW s \in EntryStages, CreateBegin(r, u, c, s) PROVE LedgerInv'
  <2> DEFINE t == [NoTxn EXCEPT !.kind = "create", !.user = u, !.app = r, !.company = c, !.target = s]
  <2>1. t.kind = "create" /\ t.user = u /\ t.company = c
    BY DEF NoTxn
  <2>2. (OwnsCompany(u, c) /\ Begin(r, t, "insert_app")) \/ Refuse(r)
    BY <1>1 DEF CreateBegin
  <2> HIDE DEF t
  <2> QED BY <1>1, <2>1, <2>2, BeginStep, ClosedStep DEF CreateBegin, Working
<1>2. ASSUME NEW a \in Apps, NEW s \in AskedStages, TransitionBegin(r, u, a, s) PROVE LedgerInv'
  <2> DEFINE t == [NoTxn EXCEPT !.kind = "transition", !.user = u, !.app = a,
                                !.target = s, !.seen = apps[a].stage]
  <2>1. t.kind = "transition" /\ t.user = u /\ t.app = a /\ t.seen = apps[a].stage
    BY DEF NoTxn
  <2>2. \/ OwnsApp(u, a) /\ (Begin(r, t, "insert") \/ Begin(r, t, "update"))
        \/ Refuse(r)
    BY <1>2 DEF TransitionBegin
  <2> HIDE DEF t
  <2> QED BY <1>2, <2>1, <2>2, BeginStep, ClosedStep DEF TransitionBegin, Working
<1>3. ASSUME NEW a \in Apps, NEW c \in Companies \cup {None}, NEW s \in AskedStages \cup {None},
             PatchBegin(r, u, a, c, s)
      PROVE  LedgerInv'
  <2> DEFINE other == IF c = apps[a].company THEN None ELSE c
             t == [NoTxn EXCEPT !.kind = "patch", !.user = u, !.app = a, !.company = other,
                                !.target = s, !.seen = apps[a].stage]
  <2>1. t.kind = "patch" /\ t.user = u /\ t.app = a /\ t.seen = apps[a].stage /\ t.company = other
    BY DEF NoTxn
  <2>2. \/ OwnsApp(u, a) /\ Begin(r, t, "check")
        \/ OwnsApp(u, a) /\ Begin(r, t, "insert") /\ other = None
        \/ Refuse(r)
    BY <1>3 DEF PatchBegin
  <2> HIDE DEF t, other
  <2> QED BY <1>3, <2>1, <2>2, BeginStep, ClosedStep DEF PatchBegin, Working
<1>4. ASSUME NEW a \in Apps, DeleteAppBegin(r, u, a) PROVE LedgerInv'
  <2> DEFINE t == [NoTxn EXCEPT !.kind = "delete_app", !.user = u, !.doomed = {a}]
  <2>1. t.kind = "delete_app"
    BY DEF NoTxn
  <2>2. Begin(r, t, "delete") \/ Refuse(r)
    BY <1>4 DEF DeleteAppBegin
  <2> HIDE DEF t
  <2> QED BY <1>4, <2>1, <2>2, BeginStep, ClosedStep DEF DeleteAppBegin, Working
<1>5. ASSUME NEW c \in Companies, DeleteCompanyBegin(r, u, c) PROVE LedgerInv'
  <2> DEFINE t == [NoTxn EXCEPT !.kind = "delete_company", !.user = u, !.company = c, !.doomed = AppsOf(c)]
  <2>1. t.kind = "delete_company"
    BY DEF NoTxn
  <2>2. Begin(r, t, "delete") \/ Refuse(r)
    BY <1>5 DEF DeleteCompanyBegin
  <2> HIDE DEF t
  <2> QED BY <1>5, <2>1, <2>2, BeginStep, ClosedStep DEF DeleteCompanyBegin, Working
<1> QED BY <1>1, <1>2, <1>3, <1>4, <1>5

\* Between the reads and the commit only the company of PATCH and the time of
\* the ledger row are learned.
LEMMA ProgressStep ==
  ASSUME CoreInv, LedgerInv, NEW r \in Requests, NEW label \in Working, pc[r] \in Working,
         OnlyOf(r), UNCHANGED <<tables, txn>>, pc'[r] = label,
         \/ sent'[r] = sent[r] /\ UNCHANGED <<clock, stamp>>
         \/ \E stmt \in Statements \ {"insert"} :
              sent'[r] = sent[r] \cup {stmt} /\ UNCHANGED <<clock, stamp>>
         \/ sent'[r] = sent[r] \cup {"insert"} /\ stamp'[r] = clock /\ clock' = clock + 1
              /\ ~Sent(r, "insert"),
         pc[r] = "check" /\ Moves(r) => OwnsCompany(txn[r].user, txn[r].company)
  PROVE  LedgerInv'
<1>1. apps' = apps /\ history' = history /\ company' = company /\ txn' = txn
  BY DEF tables
<1>2. Uncommitted(r) /\ Uncommitted(r)' /\ pc'[r] \notin {"reread", "ok", "gone"}
  BY DEF Uncommitted, Working
<1>3. AppKnown(r) /\ CompanyKnown(r) /\ SeenKnown(r)
  BY DEF LedgerInv, Known
<1>4. \A q \in Requests : ~Uncommitted(q) => ~Uncommitted(q)'
  BY <1>2 DEF OnlyOf, Others, Uncommitted
<1>5. AppKnown(r)'
  BY <1>1, <1>2, <1>3, <1>4 DEF AppKnown, Changes, Uncommitted
<1>6. CompanyKnown(r)'
  BY <1>1, <1>3 DEF CompanyKnown, Moves, OwnsCompany
<1>7. Answered(r)'
  BY <1>1, <1>2 DEF Answered
<1>8. SeenKnown(r)'
  <2>1. CASE sent'[r] = sent[r] /\ UNCHANGED <<clock, stamp>>
    BY <1>1, <1>3, <2>1 DEF SeenKnown, Changes, Sent
  <2>2. CASE \E stmt \in Statements \ {"insert"} : sent'[r] = sent[r] \cup {stmt} /\ UNCHANGED <<clock, stamp>>
    BY <1>1, <1>3, <2>2 DEF SeenKnown, Changes, Sent
  <2>3. CASE sent'[r] = sent[r] \cup {"insert"} /\ stamp'[r] = clock /\ clock' = clock + 1
    BY <1>1, <1>3, <2>3 DEF SeenKnown, Changes, Sent, LedgerInv, LedgerTimes
  <2> QED BY <2>1, <2>2, <2>3
<1> QED BY <1>2, <1>5, <1>6, <1>7, <1>8, QuietStep DEF Known

LEMMA StatementStep ==
  ASSUME CoreInv, LedgerInv, NEW r \in Requests,
         \/ PatchCheckCompany(r) \/ InsertApp(r) \/ InsertHistory(r) \/ UpdateApp(r)
         \/ DeleteApps(r) \/ DeleteCompanyRow(r)
  PROVE  LedgerInv'
<1>1. TypeOK
  BY DEF CoreInv
<1>2. CASE Refuse(r) \/ Rollback(r)
  BY <1>2, ClosedStep
<1>3. ASSUME PatchCheckCompany(r), ~Refuse(r) PROVE LedgerInv'
  <2>1. /\ pc[r] = "check" /\ OwnsCompany(txn[r].user, txn[r].company)
        /\ Goto(r, "update") \/ Goto(r, "insert")
        /\ UNCHANGED <<tables, clock, txn, sent, stamp>>
    BY <1>3 DEF PatchCheckCompany
  <2>2. OnlyOf(r) /\ pc'[r] \in {"update", "insert"}
    BY <1>1, <2>1 DEF Goto, OnlyOf, Others, TypeOK
  <2> QED BY <2>1, <2>2, ProgressStep DEF Working
<1>4. ASSUME NEW stmt \in Statements \ {"insert"}, NEW label \in Working, pc[r] \in Working \ {"check"},
             Execute(r, stmt, label), UNCHANGED <<clock, stamp>>
      PROVE  LedgerInv'
  <2>1. OnlyOf(r) /\ pc'[r] = label /\ txn' = txn /\ sent'[r] = sent[r] \cup {stmt} /\ UNCHANGED tables
    BY <1>1, <1>4, ExecuteEffect
  <2> QED BY <1>4, <2>1, ProgressStep
<1>5. ASSUME InsertHistory(r), ~Rollback(r) PROVE LedgerInv'
  <2>1. PICK label \in {"update", "commit"} : Execute(r, "insert", label)
    BY <1>5 DEF InsertHistory
  <2>2. pc[r] = "insert" /\ stamp' = [stamp EXCEPT ![r] = clock] /\ clock' = clock + 1
    BY <1>5 DEF InsertHistory
  <2>3. OnlyOf(r) /\ pc'[r] = label /\ txn' = txn /\ sent'[r] = sent[r] \cup {"insert"} /\ UNCHANGED tables
    BY <1>1, <2>1, <2>2, ExecuteEffect
  <2>4. ~Sent(r, "insert")
    BY <2>2, WorkingShape DEF CoreInv, CreateShape, TransitionShape, PatchShape, At, Committed, Changed, Sent
  <2>5. stamp'[r] = clock
    BY <1>1, <2>2 DEF TypeOK
  <2> QED BY <2>2, <2>3, <2>4, <2>5, ProgressStep DEF Working
<1>6. CASE InsertApp(r)
  BY <1>2, <1>4, <1>6 DEF InsertApp, Statements, Working
<1>7. CASE UpdateApp(r)
  BY <1>2, <1>4, <1>7 DEF UpdateApp, Statements, Working
<1>8. CASE DeleteApps(r)
  BY <1>4, <1>8 DEF DeleteApps, Statements, Working
<1>9. CASE DeleteCompanyRow(r)
  BY <1>4, <1>9 DEF DeleteCompanyRow, Statements, Working
<1> QED BY <1>2, <1>3, <1>5, <1>6, <1>7, <1>8, <1>9

\* The answer: 404 after the commit means that the application is gone, as it
\* cannot be somebody else's.
LEMMA RereadStep ==
  ASSUME CoreInv, LedgerInv, NEW r \in Requests, Reread(r)
  PROVE  LedgerInv'
<1>1. /\ pc[r] = "reread" /\ UNCHANGED <<tables, clock, txn, sent, stamp>>
      /\ Goto(r, IF OwnsApp(txn[r].user, txn[r].app) THEN "ok" ELSE "gone")
      /\ TypeOK
  BY DEF Reread, CoreInv
<1>2. /\ OnlyOf(r) /\ pc'[r] \in {"ok", "gone"} /\ (pc'[r] = "gone" => ~OwnsApp(txn[r].user, txn[r].app))
      /\ apps' = apps /\ history' = history /\ company' = company /\ txn' = txn
  BY <1>1 DEF Goto, OnlyOf, Others, TypeOK, tables
<1>3. Known(r) /\ ~Uncommitted(r) /\ ~Uncommitted(r)'
  BY <1>1, <1>2 DEF LedgerInv, Uncommitted, Working
<1>4. AppKnown(r)'
  BY <1>1, <1>2, <1>3 DEF Known, AppKnown, Changes, OnlyOf, Others, Uncommitted
<1>5. CompanyKnown(r)' /\ SeenKnown(r)'
  BY <1>1, <1>2, <1>3 DEF Known, CompanyKnown, SeenKnown, Moves, Working
<1>6. Answered(r)'
  BY <1>1, <1>2, <1>3 DEF Known, Answered, AppKnown, Changes, OwnsApp, NewLedgerRow
<1> QED BY <1>1, <1>2, <1>3, <1>4, <1>5, <1>6, QuietStep DEF Known

-----------------------------------------------------------------------------
(* Commits.                                                                  *)

\* What a commit of a creation or a change leaves of the others' records.
LEMMA CommitRecords ==
  ASSUME CoreInv, NEW r \in Requests, pc[r] = "commit", EndTransaction(r)
  PROVE  /\ OnlyOf(r) /\ pc'[r] = "reread" /\ UNCHANGED <<clock, txn, stamp>> /\ sent'[r] = {}
         /\ \A q \in Requests : Uncommitted(q)' => Uncommitted(q) /\ q # r
         /\ Uncommitted(r)
  BY DEF CoreInv, TypeOK, EndTransaction, Goto, OnlyOf, Others, Uncommitted, Working

LEMMA CommitCreateStep ==
  ASSUME CoreInv, LedgerInv, NEW r \in Requests, CommitCreate(r)
  PROVE  LedgerInv'
<1> DEFINE n == NewLedgerRow(r)
           row == [user |-> txn[r].user, company |-> txn[r].company, stage |-> txn[r].target]
<1>1. /\ CreateShape(r) /\ sent[r] = {"insert_app", "insert"} /\ pc[r] = "commit" /\ TypeOK
      /\ txn[r].kind = "create"
  BY WorkingShape DEF CommitCreate, CreateShape, At, Committed, CoreInv
<1>2. /\ txn[r].app = r /\ txn[r].seen = None /\ r \in Apps /\ row \in AppRow /\ row # None
      /\ row.user = txn[r].user /\ row.company = txn[r].company /\ row.stage = txn[r].target
  BY <1>1, NoneAssumption DEF CreateShape, AppRow, Apps
<1>3. /\ n.app = r /\ n.from = None /\ n.to = txn[r].target /\ n.at = stamp[r]
  BY <1>2 DEF NewLedgerRow
<1>4. /\ OnlyOf(r) /\ pc'[r] = "reread" /\ UNCHANGED <<clock, txn, stamp>>
      /\ \A q \in Requests : Uncommitted(q)' => Uncommitted(q) /\ q # r
      /\ Uncommitted(r)
  BY <1>1, CommitRecords DEF CommitCreate
<1>5. apps' = [apps EXCEPT ![r] = row] /\ history' = history \cup {n} /\ company' = company
  BY DEF CommitCreate
<1> HIDE DEF n, row
<1>6. apps \in [Apps -> AppRow \cup {None}] /\ history \subseteq LedgerRow
  BY <1>1 DEF TypeOK
<1>7. apps'[r] = row /\ \A a \in Apps \ {r} : apps'[a] = apps[a]
  BY <1>2, <1>5, <1>6
<1>8. apps[r] = None /\ \A h \in history : h.app # r /\ h.app \in Apps
  BY <1>4, <1>6 DEF LedgerInv, FreshApps, TablesAgree, LedgerComplete, LedgerRow
<1>9. TenantConsistent'
  <2>1. company[txn[r].company] = txn[r].user
    BY <1>1 DEF CoreInv, ParentsPresent, Sent, LedgerInv, Known, CompanyKnown
  <2> QED BY <1>2, <1>5, <1>7, <2>1 DEF LedgerInv, TablesAgree, TenantConsistent
<1>10. LedgerComplete'
  <2>1. \A h \in history' : apps'[h.app] # None
    BY <1>2, <1>3, <1>5, <1>7, <1>8 DEF LedgerInv, TablesAgree, LedgerComplete
  <2>2. ASSUME NEW a \in Apps, apps'[a] # None
        PROVE  \E h \in history' :
                 /\ h.app = a /\ h.from = None
                 /\ \A g \in history' \ {h} : g.app = a => g.from # None /\ h.at < g.at
    <3>1. CASE a = r
      BY <1>3, <1>5, <1>8, <3>1
    <3>2. CASE a # r
      <4>1. PICK h \in history : /\ h.app = a /\ h.from = None
                                 /\ \A g \in history \ {h} : g.app = a => g.from # None /\ h.at < g.at
        BY <1>7, <2>2, <3>2 DEF LedgerInv, TablesAgree, LedgerComplete
      <4> QED BY <1>3, <1>5, <3>2, <4>1
    <3> QED BY <3>1, <3>2
  <2> QED BY <2>1, <2>2 DEF LedgerComplete
<1>11. OriginRecorded'
  BY <1>3, <1>5 DEF LedgerInv, TablesAgree, OriginRecorded
<1>12. CurrentStageRecorded'
  BY <1>2, <1>3, <1>5, <1>7 DEF LedgerInv, TablesAgree, CurrentStageRecorded
<1>13. FreshApps'
  BY <1>4, <1>7 DEF LedgerInv, FreshApps, Apps
<1>14. LedgerTimes'
  BY <1>3, <1>4, <1>5 DEF LedgerInv, LedgerTimes
<1>15. ASSUME NEW q \in Requests PROVE Known(q)'
  <2>1. Known(q)
    BY DEF LedgerInv
  <2>2. CompanyKnown(q)'
    BY <1>1, <1>4, <1>5, <2>1 DEF Known, CompanyKnown, Moves, OnlyOf, Others
  <2>3. CASE q = r
    <3>1. AppKnown(q)'
      BY <1>2, <1>4, <1>7, <2>3 DEF AppKnown, Changes
    <3>2. Answered(q)'
      BY <1>4, <1>5, <2>3 DEF Answered, NewLedgerRow, n
    <3>3. SeenKnown(q)'
      BY <1>1, <1>4, <2>3 DEF SeenKnown, Changes
    <3> QED BY <2>2, <3>1, <3>2, <3>3 DEF Known
  <2>4. CASE q # r
    <3>1. pc'[q] = pc[q] /\ txn'[q] = txn[q] /\ sent'[q] = sent[q] /\ stamp'[q] = stamp[q]
          /\ Uncommitted(q)' = Uncommitted(q)
      BY <1>4, <2>4 DEF OnlyOf, Others, Uncommitted
    <3>2. Changes(q) \/ (txn[q].kind = "create" /\ ~Uncommitted(q)) =>
            txn[q].app \in Apps \ {r} /\ apps'[txn[q].app] = apps[txn[q].app]
      BY <1>4, <1>7, <2>1 DEF Known, AppKnown
    <3>3. AppKnown(q)'
      BY <1>4, <2>1, <3>1, <3>2 DEF Known, AppKnown, Changes
    <3>4. Answered(q)'
      BY <1>5, <2>1, <3>1, <3>2 DEF Known, Answered, Changes, NewLedgerRow, Uncommitted, Working
    <3>5. SeenKnown(q)'
      BY <1>3, <1>5, <2>1, <3>1, <3>2 DEF Known, SeenKnown, Changes, Sent
    <3> QED BY <2>2, <3>3, <3>4, <3>5 DEF Known
  <2> QED BY <2>3, <2>4
<1> QED BY <1>9, <1>10, <1>11, <1>12, <1>13, <1>14, <1>15 DEF LedgerInv, TablesAgree

\* The row and the ledger row that a change commits.
LEMMA ChangeEffect ==
  ASSUME CoreInv, LedgerInv, NEW r \in Requests, CommitChange(r)
  PROVE  LET a == txn[r].app
         IN /\ a \in Apps /\ Changes(r) /\ pc[r] = "commit" /\ txn[r].seen \in Stages
            /\ txn[r].target # None => Sent(r, "insert")
            /\ Sent(r, "insert") \/ Sent(r, "update") => apps[a] # None
            /\ \A b \in Apps \ {a} : apps'[b] = apps[b]
            /\ apps'[a] = None <=> apps[a] = None
            /\ apps[a] # None =>
                 /\ apps'[a].user = apps[a].user
                 /\ company[apps'[a].company] = apps[a].user
                 /\ apps'[a].stage = apps[a].stage \/ (Sent(r, "insert") /\ apps'[a].stage = txn[r].target)
<1> DEFINE a == txn[r].app
<1>1. pc[r] = "commit" /\ TypeOK /\ (TransitionShape(r) \/ PatchShape(r)) /\ Changes(r)
  BY WorkingShape DEF CommitChange, CoreInv, Changes
<1>2. /\ a \in Apps /\ txn[r].seen \in Stages
      /\ txn[r].target # None => Sent(r, "insert")
  BY <1>1 DEF TransitionShape, PatchShape, At, Committed, Recorded, Sent
<1>3. Sent(r, "insert") \/ Sent(r, "update") => apps[a] # None
  BY <1>1 DEF CoreInv, ParentsPresent, Changes
<1>4. apps \in [Apps -> AppRow \cup {None}]
  BY <1>1 DEF TypeOK
<1>5. CASE ~Sent(r, "update")
  <2>1. apps' = apps
    BY <1>5 DEF CommitChange
  <2> QED BY <1>1, <1>2, <1>3, <2>1 DEF LedgerInv, TablesAgree, TenantConsistent
<1>6. CASE Sent(r, "update")
  <2>1. apps[a] \in AppRow /\ apps[a] # None
    BY <1>2, <1>3, <1>4, <1>6
  <2>2. /\ UpdatedRow(r).user = apps[a].user
        /\ UpdatedRow(r).company = IF Moves(r) THEN txn[r].company ELSE apps[a].company
        /\ UpdatedRow(r).stage = IF SetsStage(r) THEN txn[r].target ELSE apps[a].stage
    BY <2>1 DEF UpdatedRow, AppRow
  <2>3. UpdatedRow(r) # None
    <3>1. txn[r].target \in Stages \cup {None} /\ txn[r].company \in Companies \cup {None}
      BY <1>1 DEF TypeOK, Txn
    <3>2. UpdatedRow(r) \in AppRow
      BY <2>1, <3>1 DEF UpdatedRow, AppRow, SetsStage, Moves
    <3> QED BY <3>2, NoneAssumption
  <2>4. apps' = [apps EXCEPT ![a] = UpdatedRow(r)]
    BY <1>6 DEF CommitChange
  <2>5. apps'[a] = UpdatedRow(r) /\ \A b \in Apps \ {a} : apps'[b] = apps[b]
    BY <1>2, <1>4, <2>4
  <2>6. apps[a].user = txn[r].user
    BY <1>1, <2>1 DEF LedgerInv, Known, AppKnown
  <2>7. Moves(r) => company[txn[r].company] = txn[r].user
    BY <1>1, <1>6 DEF CoreInv, ParentsPresent, LedgerInv, Known, CompanyKnown
  <2>8. company[apps'[a].company] = apps[a].user
    BY <1>2, <2>1, <2>2, <2>5, <2>6, <2>7 DEF LedgerInv, TablesAgree, TenantConsistent
  <2>9. SetsStage(r) => Sent(r, "insert")
    BY <1>2 DEF SetsStage
  <2> QED BY <1>1, <1>2, <2>1, <2>2, <2>3, <2>5, <2>8, <2>9
<1> QED BY <1>5, <1>6

LEMMA CommitChangeStep ==
  ASSUME CoreInv, LedgerInv, NEW r \in Requests, CommitChange(r)
  PROVE  LedgerInv'
<1> DEFINE a == txn[r].app
           n == NewLedgerRow(r)
<1>1. /\ a \in Apps /\ Changes(r) /\ pc[r] = "commit" /\ txn[r].seen \in Stages
      /\ txn[r].target # None => Sent(r, "insert")
      /\ Sent(r, "insert") \/ Sent(r, "update") => apps[a] # None
      /\ \A b \in Apps \ {a} : apps'[b] = apps[b]
      /\ apps'[a] = None <=> apps[a] = None
      /\ apps[a] # None =>
           /\ apps'[a].user = apps[a].user
           /\ company[apps'[a].company] = apps[a].user
           /\ apps'[a].stage = apps[a].stage \/ (Sent(r, "insert") /\ apps'[a].stage = txn[r].target)
  BY ChangeEffect
<1>2. /\ OnlyOf(r) /\ pc'[r] = "reread" /\ UNCHANGED <<clock, txn, stamp>>
      /\ \A q \in Requests : Uncommitted(q)' => Uncommitted(q) /\ q # r
      /\ Uncommitted(r)
  BY <1>1, CommitRecords DEF CommitChange
<1>3. /\ company' = company
      /\ history' = IF Sent(r, "insert") THEN history \cup {n} ELSE history
  BY DEF CommitChange
<1>4. n.app = a /\ n.from = txn[r].seen /\ n.to = txn[r].target /\ n.at = stamp[r] /\ n.from # None
  BY <1>1, NoneAssumption DEF NewLedgerRow
<1>5. \A b \in Apps : /\ apps'[b] = None <=> apps[b] = None
                      /\ apps[b] # None => apps'[b].user = apps[b].user
  BY <1>1
<1>6. history \subseteq LedgerRow
  BY DEF CoreInv, TypeOK
<1>7. Sent(r, "insert") =>
        /\ \E g \in history : g.app = a /\ g.to = txn[r].seen /\ g.at < stamp[r]
        /\ \A g \in history : g.app = a /\ g.from = None => g.at < stamp[r]
  BY <1>1 DEF LedgerInv, Known, SeenKnown, Working
<1> HIDE DEF n, a
<1>8. TenantConsistent'
  BY <1>1, <1>3 DEF LedgerInv, TablesAgree, TenantConsistent
<1>9. LedgerComplete'
  <2>1. \A h \in history' : apps'[h.app] # None
    <3>1. \A h \in history : h.app \in Apps /\ apps[h.app] # None
      BY <1>6 DEF LedgerInv, TablesAgree, LedgerComplete, LedgerRow
    <3> QED BY <1>1, <1>3, <1>4, <1>5, <3>1
  <2>2. ASSUME NEW b \in Apps, apps'[b] # None
        PROVE  \E h \in history' :
                 /\ h.app = b /\ h.from = None
                 /\ \A g \in history' \ {h} : g.app = b => g.from # None /\ h.at < g.at
    <3>1. PICK h \in history : /\ h.app = b /\ h.from = None
                               /\ \A g \in history \ {h} : g.app = b => g.from # None /\ h.at < g.at
      BY <1>5, <2>2 DEF LedgerInv, TablesAgree, LedgerComplete
    <3> QED BY <1>3, <1>4, <1>7, <3>1
  <2> QED BY <2>1, <2>2 DEF LedgerComplete
<1>10. OriginRecorded'
  BY <1>3, <1>4, <1>7 DEF LedgerInv, TablesAgree, OriginRecorded
<1>11. CurrentStageRecorded'
  BY <1>1, <1>3, <1>4 DEF LedgerInv, TablesAgree, CurrentStageRecorded
<1>12. FreshApps'
  BY <1>2, <1>5 DEF LedgerInv, FreshApps, Apps
<1>13. LedgerTimes'
  BY <1>2, <1>3, <1>4 DEF LedgerInv, LedgerTimes
<1>14. ASSUME NEW q \in Requests PROVE Known(q)'
  <2>1. Known(q) /\ txn'[q] = txn[q] /\ stamp'[q] = stamp[q]
    BY <1>2 DEF LedgerInv
  <2>2. Changes(q) \/ (txn[q].kind = "create" /\ ~Uncommitted(q)) =>
          /\ txn[q].app \in Apps
          /\ txn[q].app \in Requests => ~Uncommitted(txn[q].app)
          /\ apps[txn[q].app] # None => apps[txn[q].app].user = txn[q].user
    BY <2>1 DEF Known, AppKnown
  <2>3. CompanyKnown(q)'
    BY <1>1, <1>2, <1>3, <2>1 DEF Known, CompanyKnown, Moves, OnlyOf, Others
  <2>4. CASE q = r
    <3>1. AppKnown(q)'
      BY <1>1, <1>2, <1>5, <2>1, <2>2, <2>4 DEF AppKnown, Changes
    <3>2. SeenKnown(q)'
      BY <1>2, <2>4 DEF SeenKnown, Working
    <3>3. Answered(q)'
      BY <1>1, <1>2, <1>3, <2>1, <2>4 DEF Answered, NewLedgerRow, n
    <3> QED BY <2>3, <3>1, <3>2, <3>3 DEF Known
  <2>5. CASE q # r
    <3>1. pc'[q] = pc[q] /\ sent'[q] = sent[q] /\ Uncommitted(q)' = Uncommitted(q)
      BY <1>2, <2>5 DEF OnlyOf, Others, Uncommitted
    <3>2. AppKnown(q)'
      BY <1>2, <1>5, <2>1, <2>2, <3>1 DEF AppKnown, Changes
    <3>3. SeenKnown(q)'
      BY <1>3, <1>4, <1>5, <2>1, <2>2, <3>1 DEF Known, SeenKnown, Changes, Sent
    <3>4. Answered(q)'
      BY <1>3, <1>5, <2>1, <2>2, <3>1 DEF Known, Answered, Changes, NewLedgerRow, Uncommitted, Working
    <3> QED BY <2>3, <3>2, <3>3, <3>4 DEF Known
  <2> QED BY <2>4, <2>5
<1> QED BY <1>8, <1>9, <1>10, <1>11, <1>12, <1>13, <1>14 DEF LedgerInv, TablesAgree

\* What a deletion leaves: the other applications, with their ledger, and every
\* company but the one it deletes.
LEMMA DeleteEffect ==
  ASSUME CoreInv, NEW r \in Requests, CommitDelete(r)
  PROVE  /\ OnlyOf(r) /\ pc'[r] = "ok" /\ txn'[r] = NoTxn /\ UNCHANGED <<clock, stamp>>
         /\ \A q \in Requests : Uncommitted(q)' => Uncommitted(q)
         /\ \A a \in Apps : IF a \in Doomed(r) THEN apps'[a] = None ELSE apps'[a] = apps[a]
         /\ \A h \in history : h.app \notin Doomed(r) => h \in history'
         /\ \A h \in history' : h \in history /\ h.app \notin Doomed(r)
         /\ \A c \in Companies : company'[c] = company[c] \/ (company'[c] = None /\ AppsOf(c) \subseteq Doomed(r))
<1>1. TypeOK /\ DeleteShape(r) /\ Close(r, "ok") /\ UNCHANGED <<clock, stamp>>
  BY WorkingShape DEF CommitDelete, CoreInv
<1>2. OnlyOf(r) /\ pc'[r] = "ok" /\ txn'[r] = NoTxn
  BY <1>1, CloseEffect
<1>3. \A q \in Requests : Uncommitted(q)' => Uncommitted(q)
  BY <1>2 DEF OnlyOf, Others, Uncommitted, Working
<1>4. \A a \in Apps : IF a \in Doomed(r) THEN apps'[a] = None ELSE apps'[a] = apps[a]
  BY DEF CommitDelete
<1>5. /\ \A h \in history : h.app \notin Doomed(r) => h \in history'
      /\ \A h \in history' : h \in history /\ h.app \notin Doomed(r)
  BY DEF CommitDelete
<1>6. \A c \in Companies : company'[c] = company[c] \/ (company'[c] = None /\ AppsOf(c) \subseteq Doomed(r))
  BY <1>1 DEF CommitDelete, TypeOK, Doomed
<1> QED BY <1>1, <1>2, <1>3, <1>4, <1>5, <1>6

LEMMA CommitDeleteStep ==
  ASSUME CoreInv, LedgerInv, NEW r \in Requests, CommitDelete(r)
  PROVE  LedgerInv'
<1> DEFINE D == Doomed(r)
<1>1. /\ OnlyOf(r) /\ pc'[r] = "ok" /\ txn'[r] = NoTxn /\ UNCHANGED <<clock, stamp>>
      /\ \A q \in Requests : Uncommitted(q)' => Uncommitted(q)
      /\ \A a \in Apps : IF a \in D THEN apps'[a] = None ELSE apps'[a] = apps[a]
      /\ \A h \in history : h.app \notin D => h \in history'
      /\ \A h \in history' : h \in history /\ h.app \notin D
      /\ \A c \in Companies : company'[c] = company[c] \/ (company'[c] = None /\ AppsOf(c) \subseteq D)
  BY DeleteEffect
<1> HIDE DEF D
<1>2. /\ apps \in [Apps -> AppRow \cup {None}] /\ history \subseteq LedgerRow
      /\ \A q \in Requests : txn[q] \in Txn
  BY DEF CoreInv, TypeOK
<1>3. \A a \in Apps : apps'[a] # None => a \notin D /\ apps'[a] = apps[a]
  BY <1>1
<1>4. TenantConsistent'
  <2> SUFFICES ASSUME NEW a \in Apps, apps'[a] # None PROVE company'[apps'[a].company] = apps'[a].user
    BY DEF TenantConsistent
  <2>1. a \notin D /\ apps'[a] = apps[a] /\ apps[a] # None /\ apps[a].company \in Companies
    BY <1>2, <1>3 DEF AppRow
  <2>2. a \in AppsOf(apps[a].company)
    BY <2>1 DEF AppsOf
  <2>3. company'[apps[a].company] = company[apps[a].company]
    BY <1>1, <2>1, <2>2
  <2> QED BY <2>1, <2>3 DEF LedgerInv, TablesAgree, TenantConsistent
<1>5. LedgerComplete'
  <2>1. \A h \in history' : apps'[h.app] # None
    BY <1>1, <1>2 DEF LedgerInv, TablesAgree, LedgerComplete, LedgerRow
  <2>2. ASSUME NEW a \in Apps, apps'[a] # None
        PROVE  \E h \in history' :
                 /\ h.app = a /\ h.from = None
                 /\ \A g \in history' \ {h} : g.app = a => g.from # None /\ h.at < g.at
    <3>1. PICK h \in history : /\ h.app = a /\ h.from = None
                               /\ \A g \in history \ {h} : g.app = a => g.from # None /\ h.at < g.at
      BY <1>3, <2>2 DEF LedgerInv, TablesAgree, LedgerComplete
    <3> QED BY <1>1, <1>3, <2>2, <3>1
  <2> QED BY <2>1, <2>2 DEF LedgerComplete
<1>6. OriginRecorded'
  <2> SUFFICES ASSUME NEW h \in history', h.from # None
               PROVE  \E g \in history' : g.app = h.app /\ g.to = h.from /\ g.at < h.at
    BY DEF OriginRecorded
  <2>1. PICK g \in history : g.app = h.app /\ g.to = h.from /\ g.at < h.at
    BY <1>1 DEF LedgerInv, TablesAgree, OriginRecorded
  <2> QED BY <1>1, <2>1
<1>7. CurrentStageRecorded'
  <2> SUFFICES ASSUME NEW a \in Apps, apps'[a] # None
               PROVE  \E h \in history' : h.app = a /\ h.to = apps'[a].stage
    BY DEF CurrentStageRecorded
  <2>1. PICK h \in history : h.app = a /\ h.to = apps[a].stage
    BY <1>3 DEF LedgerInv, TablesAgree, CurrentStageRecorded
  <2> QED BY <1>1, <1>3, <2>1
<1>8. FreshApps'
  BY <1>1, <1>3 DEF LedgerInv, FreshApps, Apps
<1>9. LedgerTimes'
  BY <1>1 DEF LedgerInv, LedgerTimes
<1>10. ASSUME NEW q \in Requests PROVE Known(q)'
  <2>1. CASE q = r
    BY <1>1, <2>1 DEF Known, AppKnown, CompanyKnown, SeenKnown, Answered, Changes, Moves, NoTxn
  <2>2. CASE q # r
    <3>1. /\ pc'[q] = pc[q] /\ txn'[q] = txn[q] /\ sent'[q] = sent[q] /\ stamp'[q] = stamp[q]
          /\ Uncommitted(q)' = Uncommitted(q) /\ Known(q)
      BY <1>1, <2>2 DEF OnlyOf, Others, Uncommitted, LedgerInv
    <3>2. Changes(q) \/ (txn[q].kind = "create" /\ ~Uncommitted(q)) =>
            /\ txn[q].app \in Apps
            /\ txn[q].app \in Requests => ~Uncommitted(txn[q].app)
            /\ apps[txn[q].app] # None => apps[txn[q].app].user = txn[q].user
      BY <3>1 DEF Known, AppKnown
    <3>3. AppKnown(q)'
      BY <1>1, <1>3, <3>1, <3>2 DEF AppKnown, Changes
    <3>4. CompanyKnown(q)'
      <4>1. txn[q].kind = "create" \/ Moves(q) => txn[q].company \in Companies
        <5>1. txn[q].company \in Companies \cup {None}
          BY <1>2 DEF Txn
        <5>2. txn[q].kind = "create" => CreateShape(q)
          <6>1. NoTxn.kind = "none"
            BY DEF NoTxn
          <6>2. ClosedShape(q) \/ CreateShape(q) \/ TransitionShape(q) \/ PatchShape(q) \/ DeleteShape(q)
            BY DEF CoreInv, ProtocolOK
          <6> QED BY <6>1, <6>2 DEF ClosedShape, TransitionShape, PatchShape, DeleteShape
        <5> QED BY <5>1, <5>2 DEF CreateShape, Moves
      <4> QED BY <1>1, <3>1, <4>1 DEF Known, CompanyKnown, Moves
    <3>5. SeenKnown(q)'
      <4> SUFFICES ASSUME Changes(q), pc[q] \in Working, apps'[txn[q].app] # None
                   PROVE  /\ \E g \in history' : /\ g.app = txn[q].app /\ g.to = txn[q].seen
                                                 /\ Sent(q, "insert") => g.at < stamp[q]
                          /\ Sent(q, "insert") =>
                               \A g \in history' : g.app = txn[q].app /\ g.from = None => g.at < stamp[q]
        BY <3>1 DEF SeenKnown, Changes, Sent
      <4>1. txn[q].app \notin D /\ apps[txn[q].app] # None
        BY <1>3, <3>2
      <4> QED BY <1>1, <3>1, <4>1 DEF Known, SeenKnown
    <3>6. Answered(q)'
      <4> SUFFICES ASSUME txn[q].kind \in {"create", "transition", "patch"}, txn[q].target # None,
                          pc[q] \in {"reread", "ok", "gone"}
                   PROVE  /\ pc[q] \in {"reread", "ok"} /\ apps'[txn[q].app] # None
                               => NewLedgerRow(q) \in history'
                          /\ pc[q] = "gone" => apps'[txn[q].app] = None
        BY <3>1 DEF Answered, NewLedgerRow
      <4>1. txn[q].app \in Apps
        BY <3>2 DEF Changes, Uncommitted, Working
      <4>2. NewLedgerRow(q).app = txn[q].app
        BY DEF NewLedgerRow
      <4>3. CASE pc[q] = "gone"
        BY <1>1, <3>1, <4>1, <4>3 DEF Known, Answered
      <4>4. ASSUME pc[q] \in {"reread", "ok"}, apps'[txn[q].app] # None PROVE NewLedgerRow(q) \in history'
        <5>1. txn[q].app \notin D /\ NewLedgerRow(q) \in history
          BY <1>3, <3>1, <4>1, <4>4 DEF Known, Answered
        <5> QED BY <1>1, <4>2, <5>1
      <4> QED BY <4>3, <4>4
    <3> QED BY <3>3, <3>4, <3>5, <3>6 DEF Known
  <2> QED BY <2>1, <2>2
<1> QED BY <1>4, <1>5, <1>6, <1>7, <1>8, <1>9, <1>10 DEF LedgerInv, TablesAgree

-----------------------------------------------------------------------------
(* The theorems.                                                             *)

LEMMA LedgerInit ==
  ASSUME Init
  PROVE  LedgerInv
<1>1. PICK old \in [OldApps -> OldRow \cup {None}] :
        /\ \A a \in OldApps : old[a] # None => company[old[a].company] = old[a].user
        /\ apps = [a \in Apps |-> IF a \in OldApps THEN old[a] ELSE None]
  BY DEF Init
<1>2. TenantConsistent
  BY <1>1 DEF TenantConsistent
<1>3. /\ \A h \in history : h.app \in Apps /\ apps[h.app] # None /\ h.from = None /\ h.at = 0
                            /\ h.to = apps[h.app].stage
      /\ \A a \in Apps : apps[a] # None =>
           [app |-> a, from |-> None, to |-> apps[a].stage, at |-> 0] \in history
      /\ \A h \in history : h = [app |-> h.app, from |-> None, to |-> apps[h.app].stage, at |-> 0]
  BY DEF Init
<1>4. LedgerComplete /\ CurrentStageRecorded
  <2>1. ASSUME NEW a \in Apps, apps[a] # None
        PROVE  \E h \in history : /\ h.app = a /\ h.from = None /\ h.to = apps[a].stage
                                  /\ \A g \in history \ {h} : g.app = a => g.from # None /\ h.at < g.at
    <3> DEFINE n == [app |-> a, from |-> None, to |-> apps[a].stage, at |-> 0]
    <3>1. n \in history /\ n.app = a /\ n.from = None /\ n.to = apps[a].stage
      BY <1>3, <2>1
    <3>2. \A g \in history : g.app = a => g = n
      BY <1>3
    <3> HIDE DEF n
    <3> QED BY <3>1, <3>2
  <2> QED BY <1>3, <2>1 DEF LedgerComplete, CurrentStageRecorded
<1>5. OriginRecorded
  BY <1>3 DEF OriginRecorded
<1>6. FreshApps
  BY <1>1, FreshIdAssumption DEF FreshApps, Apps
<1>7. LedgerTimes
  BY <1>3 DEF LedgerTimes, Init
<1>8. \A r \in Requests : Known(r)
  BY DEF Init, NoTxn, Known, AppKnown, CompanyKnown, SeenKnown, Answered, Changes, Moves
<1> QED BY <1>2, <1>4, <1>5, <1>6, <1>7, <1>8 DEF LedgerInv, TablesAgree

LEMMA LedgerStep ==
  ASSUME CoreInv, LedgerInv, [Next]_vars
  PROVE  LedgerInv'
<1>1. CASE UNCHANGED vars
  <2>1. /\ company' = company /\ apps' = apps /\ history' = history /\ clock' = clock
        /\ pc' = pc /\ txn' = txn /\ sent' = sent /\ stamp' = stamp
    BY <1>1 DEF vars
  <2>2. TablesAgree' /\ FreshApps' /\ LedgerTimes'
    BY <2>1 DEF LedgerInv, TablesAgree, TenantConsistent, LedgerComplete, OriginRecorded,
                CurrentStageRecorded, FreshApps, LedgerTimes, Uncommitted
  <2>3. ASSUME NEW r \in Requests PROVE Known(r)'
    <3>1. Known(r)
      BY DEF LedgerInv
    <3>2. AppKnown(r)' /\ CompanyKnown(r)'
      BY <2>1, <3>1 DEF Known, AppKnown, CompanyKnown, Changes, Uncommitted, Moves
    <3>3. SeenKnown(r)' /\ Answered(r)'
      BY <2>1, <3>1 DEF Known, SeenKnown, Answered, Changes, Sent, NewLedgerRow
    <3> QED BY <3>2, <3>3 DEF Known
  <2> QED BY <2>2, <2>3 DEF LedgerInv
<1>2. ASSUME NEW r \in Requests, Arrive(r) PROVE LedgerInv'
  BY <1>2, ArriveStep
<1>3. ASSUME NEW r \in Requests, Deadlock(r) \/ Fail(r) PROVE LedgerInv'
  BY <1>3, ClosedStep DEF Deadlock, Fail
<1>4. ASSUME NEW r \in Requests, Proceed(r) PROVE LedgerInv'
  BY <1>4, <1>3, StatementStep, CommitCreateStep, CommitChangeStep, CommitDeleteStep, RereadStep DEF Proceed
<1> QED BY <1>1, <1>2, <1>3, <1>4 DEF Next, Quiet

\* The tables agree with each other, and every request with them, for any
\* number of users, companies, applications and concurrent requests.
THEOREM LedgerInvariant == Spec => []LedgerInv
<1>1. Init => LedgerInv
  BY LedgerInit
<1>2. CoreInv /\ LedgerInv /\ [Next]_vars => LedgerInv'
  BY LedgerStep
<1> QED BY <1>1, <1>2, CoreInvariant, PTL DEF Spec

\* An application belongs to an existing company of its own tenant, also when
\* companies are deleted while applications are created in them or moved to them.
THEOREM TenantsApart == Spec => []TenantConsistent
<1>1. LedgerInv => TenantConsistent
  BY DEF LedgerInv, TablesAgree
<1> QED BY <1>1, LedgerInvariant, PTL

\* Each application has one creation row, the oldest of its ledger, and no
\* ledger outlives its application.
THEOREM LedgerIsComplete == Spec => []LedgerComplete
<1>1. LedgerInv => LedgerComplete
  BY DEF LedgerInv, TablesAgree
<1> QED BY <1>1, LedgerInvariant, PTL

\* A move in the ledger starts from a stage that an older row says was entered.
THEOREM OriginsRecorded == Spec => []OriginRecorded
<1>1. LedgerInv => OriginRecorded
  BY DEF LedgerInv, TablesAgree
<1> QED BY <1>1, LedgerInvariant, PTL

\* The stage of an application is one that its ledger accounts for.
THEOREM StagesRecorded == Spec => []CurrentStageRecorded
<1>1. LedgerInv => CurrentStageRecorded
  BY DEF LedgerInv, TablesAgree
<1> QED BY <1>1, LedgerInvariant, PTL

\* Whoever was answered 2xx finds the entry in the ledger as long as the
\* application exists; 404 after the commit means that it does not.
THEOREM AnswersRecorded == Spec => []AnsweredIsRecorded
<1>1. LedgerInv => AnsweredIsRecorded
  BY DEF LedgerInv, Known, Answered, AnsweredIsRecorded
<1> QED BY <1>1, LedgerInvariant, PTL

-----------------------------------------------------------------------------
(* The pipeline implements AuditLedger. *)

\* The rows that a step adds to the trails.
LEMMA TrailGrows ==
  ASSUME NEW n, NEW a \in Apps, n.app = a, history' = history \cup {n}
  PROVE  /\ TrailOf(a)' = TrailOf(a) \cup {<<n.from, n.to>>}
         /\ \A b \in Apps \ {a} : TrailOf(b)' = TrailOf(b)
BY DEF TrailOf

\* The commit of a creation opens a trail with the stage that the client gave.
LEMMA MapsToOpen ==
  ASSUME CoreInv, LedgerInv, NEW r \in Requests, CommitCreate(r)
  PROVE  Audit!Next
<1> DEFINE n == NewLedgerRow(r)
           row == [user |-> txn[r].user, company |-> txn[r].company, stage |-> txn[r].target]
<1>1. /\ CreateShape(r) /\ pc[r] = "commit" /\ TypeOK
  BY WorkingShape DEF CommitCreate, CoreInv
<1>2. /\ txn[r].app = r /\ txn[r].seen = None /\ r \in Apps /\ row \in AppRow /\ row # None
      /\ row.stage = txn[r].target /\ txn[r].target \in Stages
  BY <1>1, NoneAssumption DEF CreateShape, AppRow, Apps
<1>3. n.app = r /\ n.from = None /\ n.to = txn[r].target
  BY <1>2 DEF NewLedgerRow
<1>4. apps' = [apps EXCEPT ![r] = row] /\ history' = history \cup {n}
  BY DEF CommitCreate
<1> HIDE DEF n, row
<1>5. apps[r] = None /\ apps'[r] = row /\ \A a \in Apps \ {r} : apps'[a] = apps[a]
  BY <1>1, <1>2, <1>4 DEF LedgerInv, FreshApps, Uncommitted, Working, TypeOK
<1>6. TrailOf(r) = {} /\ TrailOf(r)' = {<<None, txn[r].target>>}
      /\ \A a \in Apps \ {r} : TrailOf(a)' = TrailOf(a)
  <2>1. \A h \in history : h.app # r
    BY <1>5 DEF LedgerInv, TablesAgree, LedgerComplete
  <2>2. TrailOf(r) = {}
    BY <2>1 DEF TrailOf
  <2> QED BY <1>2, <1>3, <1>4, <2>2, TrailGrows
<1>7. StageOf(r) = None /\ StageOf(r)' = txn[r].target /\ \A a \in Apps \ {r} : StageOf(a)' = StageOf(a)
  BY <1>2, <1>5 DEF StageOf
<1>8. Audit!Open(r, txn[r].target)
  BY <1>2, <1>6, <1>7 DEF Audit!Open
<1> QED BY <1>2, <1>8 DEF Audit!Next, Audit!Stages, Stages

\* What a commit of a change leaves in the tables, in the terms of the ledgers.
LEMMA ChangeRecords ==
  ASSUME CoreInv, LedgerInv, NEW r \in Requests, CommitChange(r),
         NEW a, a = txn[r].app, NEW n, n = NewLedgerRow(r)
  PROVE  /\ a \in Apps /\ txn[r].seen \in Stages /\ Changes(r) /\ pc[r] = "commit"
         /\ n.app = a /\ n.from = txn[r].seen /\ n.to = txn[r].target
         /\ history' = IF Sent(r, "insert") THEN history \cup {n} ELSE history
         /\ Sent(r, "insert") => /\ apps[a] # None /\ StageOf(a) # None
                                 /\ ValidTransition(txn[r].seen, txn[r].target)
                                 /\ txn[r].target \in Stages
         /\ ~Sent(r, "insert") => ~SetsStage(r)
         /\ \A b \in Apps \ {a} : StageOf(b)' = StageOf(b)
         /\ StageOf(a)' = IF SetsStage(r) THEN txn[r].target ELSE StageOf(a)
<1>1. pc[r] = "commit" /\ TypeOK /\ (TransitionShape(r) \/ PatchShape(r)) /\ Changes(r)
  BY WorkingShape DEF CommitChange, CoreInv, Changes
<1>2. /\ a \in Apps /\ txn[r].seen \in Stages
      /\ Sent(r, "insert") <=> txn[r].target # None
      /\ Sent(r, "update") <=> SetsStage(r) \/ Moves(r)
      /\ Sent(r, "insert") => ValidTransition(txn[r].seen, txn[r].target) /\ txn[r].target \in Stages
  BY <1>1, NoneAssumption, ValidTargetIsStage
     DEF TransitionShape, PatchShape, At, Committed, Recorded, Changed, Sent, Moves
<1>3. (Sent(r, "insert") \/ Sent(r, "update")) => apps[a] # None
  BY <1>1 DEF CoreInv, ParentsPresent, Changes
<1>4. /\ apps' = IF Sent(r, "update") THEN [apps EXCEPT ![a] = UpdatedRow(r)] ELSE apps
      /\ history' = IF Sent(r, "insert") THEN history \cup {n} ELSE history
      /\ n.app = a /\ n.from = txn[r].seen /\ n.to = txn[r].target
  BY DEF CommitChange, NewLedgerRow
<1>5. /\ apps \in [Apps -> AppRow \cup {None}] /\ (txn[r].target \in Stages \cup {None})
      /\ txn[r].company \in Companies \cup {None}
  BY <1>1 DEF TypeOK, Txn
<1>6. ASSUME Sent(r, "update")
      PROVE  /\ UpdatedRow(r).stage = IF SetsStage(r) THEN txn[r].target ELSE apps[a].stage
             /\ UpdatedRow(r) # None
  <2>1. apps[a] \in AppRow
    BY <1>2, <1>3, <1>5, <1>6
  <2>2. UpdatedRow(r).stage = IF SetsStage(r) THEN txn[r].target ELSE apps[a].stage
    BY <2>1 DEF UpdatedRow, AppRow
  <2>3. UpdatedRow(r) \in AppRow
    BY <1>5, <2>1 DEF UpdatedRow, AppRow, SetsStage, Moves
  <2> QED BY <2>2, <2>3, NoneAssumption
<1>7. \A b \in Apps \ {a} : StageOf(b)' = StageOf(b)
  BY <1>2, <1>4, <1>5 DEF StageOf
<1>8. StageOf(a)' = IF SetsStage(r) THEN txn[r].target ELSE StageOf(a)
  <2>1. CASE Sent(r, "update")
    BY <1>2, <1>3, <1>4, <1>5, <1>6, <2>1 DEF StageOf
  <2>2. CASE ~Sent(r, "update")
    BY <1>2, <1>4, <2>2 DEF StageOf
  <2> QED BY <2>1, <2>2
<1>9. Sent(r, "insert") => StageOf(a) # None
  BY <1>2, <1>3, <1>5, NoneAssumption DEF StageOf, AppRow
<1>10. ~Sent(r, "insert") => ~SetsStage(r)
  BY <1>2 DEF SetsStage
<1> QED BY <1>1, <1>2, <1>3, <1>4, <1>7, <1>8, <1>9, <1>10

\* The commit of a change writes a legal move from a stage entered earlier, or
\* leaves stage and trail as they are.
LEMMA MapsToMove ==
  ASSUME CoreInv, LedgerInv, NEW r \in Requests, CommitChange(r)
  PROVE  Audit!Next \/ UNCHANGED <<[a \in Apps |-> StageOf(a)], [a \in Apps |-> TrailOf(a)]>>
<1> PICK a : a = txn[r].app
  OBVIOUS
<1> PICK n : n = NewLedgerRow(r)
  OBVIOUS
<1>1. /\ a \in Apps /\ txn[r].seen \in Stages /\ Changes(r) /\ pc[r] = "commit"
      /\ n.app = a /\ n.from = txn[r].seen /\ n.to = txn[r].target
      /\ history' = IF Sent(r, "insert") THEN history \cup {n} ELSE history
      /\ Sent(r, "insert") => /\ apps[a] # None /\ StageOf(a) # None
                              /\ ValidTransition(txn[r].seen, txn[r].target)
                              /\ txn[r].target \in Stages
      /\ ~Sent(r, "insert") => ~SetsStage(r)
      /\ \A b \in Apps \ {a} : StageOf(b)' = StageOf(b)
      /\ StageOf(a)' = IF SetsStage(r) THEN txn[r].target ELSE StageOf(a)
  BY ChangeRecords
<1>2. CASE Sent(r, "insert")
  <2>1. PICK g \in history : g.app = a /\ g.to = txn[r].seen
    BY <1>1, <1>2 DEF LedgerInv, Known, SeenKnown, Working
  <2>2. <<g.from, g.to>> \in TrailOf(a)
    BY <2>1 DEF TrailOf
  <2>3. txn[r].seen \in { move[2] : move \in TrailOf(a) }
    BY <2>1, <2>2
  <2>4. /\ TrailOf(a)' = TrailOf(a) \cup {<<txn[r].seen, txn[r].target>>}
        /\ \A b \in Apps \ {a} : TrailOf(b)' = TrailOf(b)
    BY <1>1, <1>2, TrailGrows
  <2>5. StageOf(a)' = IF txn[r].seen = txn[r].target THEN StageOf(a) ELSE txn[r].target
    BY <1>1, <1>2, NoneAssumption DEF SetsStage
  <2>6. Audit!ValidTransition(txn[r].seen, txn[r].target)
    BY <1>1, <1>2 DEF ValidTransition, VALID_STAGE_TRANSITIONS, Audit!ValidTransition, Audit!VALID_STAGE_TRANSITIONS, Stages, Audit!Stages
  <2>7. Audit!Move(a, txn[r].seen, txn[r].target)
    BY <1>1, <1>2, <2>3, <2>4, <2>5, <2>6 DEF Audit!Move, Audit!Entered
  <2> QED BY <1>1, <1>2, <2>7 DEF Audit!Next, Audit!Stages, Stages
<1>3. CASE ~Sent(r, "insert")
  <2>1. \A b \in Apps : StageOf(b)' = StageOf(b) /\ TrailOf(b)' = TrailOf(b)
    BY <1>1, <1>3 DEF TrailOf
  <2> QED BY <2>1
<1> QED BY <1>2, <1>3

\* The commit of a deletion drops the applications of the cascade, trails included.
LEMMA MapsToDrop ==
  ASSUME CoreInv, LedgerInv, NEW r \in Requests, CommitDelete(r)
  PROVE  Audit!Next
<1> DEFINE D == Doomed(r)
<1>1. DeleteShape(r) /\ TypeOK
  BY WorkingShape DEF CommitDelete, CoreInv
<1>2. D \in SUBSET Apps
  BY <1>1 DEF Doomed, AppsOf, TypeOK, Txn
<1>3. /\ \A a \in Apps : apps'[a] = IF a \in D THEN None ELSE apps[a]
      /\ history' = { h \in history : h.app \notin D }
  BY DEF CommitDelete
<1> HIDE DEF D
<1>4. \A a \in Apps : StageOf(a)' = IF a \in D THEN None ELSE StageOf(a)
  BY <1>3 DEF StageOf
<1>5. \A a \in Apps : TrailOf(a)' = IF a \in D THEN {} ELSE TrailOf(a)
  BY <1>3 DEF TrailOf
<1>6. Audit!Drop(D)
  BY <1>4, <1>5 DEF Audit!Drop
<1> QED BY <1>2, <1>6 DEF Audit!Next

\* An application of the initial database has one row, its opening.
LEMMA MapsInit ==
  ASSUME Init
  PROVE  Audit!Init
<1>1. CoreInv
  BY CoreInit
<1>2. \A a \in Apps : StageOf(a) \in Stages \cup {None} /\ (StageOf(a) = None <=> apps[a] = None)
  BY <1>1, NoneAssumption DEF CoreInv, TypeOK, AppRow, StageOf
<1>3. history = { [app |-> a, from |-> None, to |-> apps[a].stage, at |-> 0] :
                   a \in { b \in Apps : apps[b] # None } }
  BY DEF Init
<1>4. ASSUME NEW a \in Apps
      PROVE  TrailOf(a) = IF StageOf(a) = None THEN {} ELSE {<<None, StageOf(a)>>}
  <2>1. CASE apps[a] = None
    BY <1>2, <1>3, <2>1 DEF TrailOf
  <2>2. CASE apps[a] # None
    <3> PICK n : n = [app |-> a, from |-> None, to |-> apps[a].stage, at |-> 0]
      OBVIOUS
    <3>1. { g \in history : g.app = a } = {n} /\ n.from = None /\ n.to = apps[a].stage
      BY <1>3, <2>2
    <3>2. TrailOf(a) = {<<None, apps[a].stage>>}
      BY <3>1 DEF TrailOf
    <3>3. StageOf(a) = apps[a].stage
      BY <2>2 DEF StageOf
    <3> QED BY <1>2, <2>2, <3>2, <3>3
  <2> QED BY <2>1, <2>2
<1> QED BY <1>2, <1>4 DEF Audit!Init, Audit!Stages, Stages

\* The pipeline implements the audit ledger, for any number of users, companies,
\* applications and concurrent requests.
THEOREM PipelineImplementsAuditLedger == Spec => ImplementsAuditLedger
<1>1. Init => Audit!Init
  BY MapsInit
<1>2. CoreInv /\ LedgerInv /\ [Next]_vars
        => [Audit!Next]_<<[a \in Apps |-> StageOf(a)], [a \in Apps |-> TrailOf(a)]>>
  <2> SUFFICES ASSUME CoreInv, LedgerInv, [Next]_vars
               PROVE  \/ Audit!Next
                      \/ UNCHANGED <<[a \in Apps |-> StageOf(a)], [a \in Apps |-> TrailOf(a)]>>
    OBVIOUS
  <2>1. CASE UNCHANGED tables
    <3>1. \A a \in Apps : StageOf(a)' = StageOf(a) /\ TrailOf(a)' = TrailOf(a)
      BY <2>1 DEF tables, StageOf, TrailOf
    <3> QED BY <3>1
  <2>2. ASSUME NEW r \in Requests, Commits(r)
        PROVE  \/ Audit!Next
               \/ UNCHANGED <<[a \in Apps |-> StageOf(a)], [a \in Apps |-> TrailOf(a)]>>
    BY <2>2, MapsToOpen, MapsToMove, MapsToDrop DEF Commits
  <2> QED BY <2>1, <2>2, TablesStep
<1> QED
  BY <1>1, <1>2, CoreInvariant, LedgerInvariant, PTL DEF Spec, ImplementsAuditLedger, Audit!Spec

-----------------------------------------------------------------------------
(* Requests that do not overlap.                                             *)

Active(r) == pc[r] \in Working \cup {"reread"}

OneOpen == \A q, r \in Requests : Active(q) /\ Active(r) => q = r

\* What a request relies on when nobody interferes: the stage it read is the
\* current one, and its ledger row is the youngest.
Undisturbed(r) ==
  pc[r] \in Working =>
    /\ Changes(r) /\ apps[txn[r].app] # None => apps[txn[r].app].stage = txn[r].seen
    /\ Sent(r, "insert") => \A h \in history : h.at < stamp[r]

\* changed_at orders the rows of an application.
RowsOrdered ==
  /\ \A a \in Apps : IsFiniteSet(RowsOf(a))
  /\ \A g, h \in history : g.app = h.app /\ g.at = h.at => g = h

SerialInv == OneOpen /\ RowsOrdered /\ \A r \in Requests : Undisturbed(r)

-----------------------------------------------------------------------------
(* SerialInv is inductive.                                                   *)

\* Who is in a circle waits for somebody.
LEMMA CircleWaits ==
  ASSUME NEW r, InCircle(r)
  PROVE  \E q \in Requests : WaitsFor(r, q)
<1>1. {} \in SUBSET Requests
  OBVIOUS
<1> QED BY <1>1 DEF InCircle

\* While a request is open no other takes a step.
LEMMA NobodyElse ==
  ASSUME MaxOpen = 1, OneOpen, NEW r \in Requests, Arrive(r) \/ Proceed(r) \/ Fail(r)
  PROVE  \A q \in Others(r) : ~Active(q)
<1> SUFFICES ASSUME NEW q \in Requests, q # r, Active(q) PROVE FALSE
  BY DEF Others
<1>1. { p \in Requests : pc[p] \in Working \cup {"reread"} } = {q}
  BY DEF OneOpen, Active
<1>2. Cardinality({ p \in Requests : pc[p] \in Working \cup {"reread"} }) = 1
  BY <1>1, FS_Singleton
<1>3. ~MayBegin(r)
  BY <1>2 DEF MayBegin
<1>4. ~Arrive(r)
  BY <1>3 DEF Arrive, CreateBegin, TransitionBegin, PatchBegin, DeleteAppBegin, DeleteCompanyBegin
<1>5. Active(r)
  BY <1>4, CircleWaits DEF Proceed, Deadlock, WaitsFor, Fail, Active, Working, PatchCheckCompany, InsertApp,
     InsertHistory, UpdateApp, DeleteApps, DeleteCompanyRow, CommitCreate, CommitChange, CommitDelete, Reread
<1> QED BY <1>5 DEF OneOpen

\* A step of a request changes the record of no other.
LEMMA OnlyOfStep ==
  ASSUME CoreInv, NEW r \in Requests, Arrive(r) \/ Proceed(r) \/ Fail(r)
  PROVE  OnlyOf(r)
BY StepCases, CommitShape DEF ReadEffect, StatementEffect, CommitEffect, Commits, CoreInv

\* A request that begins reads the current stage; one that is refused, rolled
\* back or answered has nothing to rely on.
LEMMA UndisturbedBegin ==
  ASSUME CoreInv, NEW r \in Requests, Arrive(r)
  PROVE  Undisturbed(r)'
<1>1. ASSUME NEW t, NEW label, MayBegin(r), Begin(r, t, label),
             t.kind \in {"transition", "patch"} => t.seen = apps[t.app].stage
      PROVE  Undisturbed(r)'
  <2>1. pc'[r] = label /\ txn'[r] = t /\ sent'[r] = {} /\ apps' = apps
    BY <1>1, BeginEffect DEF CoreInv, MayBegin, tables
  <2> QED BY <1>1, <2>1 DEF Undisturbed, Changes, Sent
<1>2. CASE Refuse(r)
  BY <1>2 DEF Refuse, Close, Goto, Undisturbed, Working, CoreInv, TypeOK
<1> PICK u \in Users :
      \/ \E c \in Companies, s \in EntryStages : CreateBegin(r, u, c, s)
      \/ \E a \in Apps, s \in AskedStages : TransitionBegin(r, u, a, s)
      \/ \E a \in Apps, c \in Companies \cup {None}, s \in AskedStages \cup {None} :
           PatchBegin(r, u, a, c, s)
      \/ \E a \in Apps : DeleteAppBegin(r, u, a)
      \/ \E c \in Companies : DeleteCompanyBegin(r, u, c)
  BY DEF Arrive
<1>3. ASSUME NEW c \in Companies, NEW s \in EntryStages, CreateBegin(r, u, c, s) PROVE Undisturbed(r)'
  <2> DEFINE t == [NoTxn EXCEPT !.kind = "create", !.user = u, !.app = r, !.company = c, !.target = s]
  <2>1. t.kind = "create"
    BY DEF NoTxn
  <2>2. MayBegin(r) /\ (Begin(r, t, "insert_app") \/ Refuse(r))
    BY <1>3 DEF CreateBegin
  <2> HIDE DEF t
  <2> QED BY <1>1, <1>2, <2>1, <2>2
<1>4. ASSUME NEW a \in Apps, NEW s \in AskedStages, TransitionBegin(r, u, a, s) PROVE Undisturbed(r)'
  <2> DEFINE t == [NoTxn EXCEPT !.kind = "transition", !.user = u, !.app = a,
                                !.target = s, !.seen = apps[a].stage]
  <2>1. t.app = a /\ t.seen = apps[a].stage
    BY DEF NoTxn
  <2>2. MayBegin(r) /\ (Begin(r, t, "insert") \/ Begin(r, t, "update") \/ Refuse(r))
    BY <1>4 DEF TransitionBegin
  <2> HIDE DEF t
  <2> QED BY <1>1, <1>2, <2>1, <2>2
<1>5. ASSUME NEW a \in Apps, NEW c \in Companies \cup {None}, NEW s \in AskedStages \cup {None},
             PatchBegin(r, u, a, c, s)
      PROVE  Undisturbed(r)'
  <2> DEFINE other == IF c = apps[a].company THEN None ELSE c
             t == [NoTxn EXCEPT !.kind = "patch", !.user = u, !.app = a, !.company = other,
                                !.target = s, !.seen = apps[a].stage]
  <2>1. t.app = a /\ t.seen = apps[a].stage
    BY DEF NoTxn
  <2>2. MayBegin(r) /\ (Begin(r, t, "check") \/ Begin(r, t, "insert") \/ Refuse(r))
    BY <1>5 DEF PatchBegin
  <2> HIDE DEF t, other
  <2> QED BY <1>1, <1>2, <2>1, <2>2
<1>6. ASSUME NEW a \in Apps, DeleteAppBegin(r, u, a) PROVE Undisturbed(r)'
  <2> DEFINE t == [NoTxn EXCEPT !.kind = "delete_app", !.user = u, !.doomed = {a}]
  <2>1. t.kind = "delete_app"
    BY DEF NoTxn
  <2>2. MayBegin(r) /\ (Begin(r, t, "delete") \/ Refuse(r))
    BY <1>6 DEF DeleteAppBegin
  <2> HIDE DEF t
  <2> QED BY <1>1, <1>2, <2>1, <2>2
<1>7. ASSUME NEW c \in Companies, DeleteCompanyBegin(r, u, c) PROVE Undisturbed(r)'
  <2> DEFINE t == [NoTxn EXCEPT !.kind = "delete_company", !.user = u, !.company = c, !.doomed = AppsOf(c)]
  <2>1. t.kind = "delete_company"
    BY DEF NoTxn
  <2>2. MayBegin(r) /\ (Begin(r, t, "delete") \/ Refuse(r))
    BY <1>7 DEF DeleteCompanyBegin
  <2> HIDE DEF t
  <2> QED BY <1>1, <1>2, <2>1, <2>2
<1> QED BY <1>3, <1>4, <1>5, <1>6, <1>7

\* The time of a ledger row is taken when it is sent, after all rows so far.
LEMMA UndisturbedStatement ==
  ASSUME CoreInv, LedgerInv, NEW r \in Requests, Undisturbed(r), Proceed(r) \/ Fail(r)
  PROVE  Undisturbed(r)'
<1> USE DEF CoreInv
<1>1. ASSUME NEW label \in Replied \cup {"reread"}, Goto(r, label) PROVE Undisturbed(r)'
  BY <1>1 DEF Goto, TypeOK, Undisturbed, Working, Replied
<1>2. CASE Refuse(r) \/ Rollback(r) \/ Deadlock(r) \/ Fail(r) \/ Reread(r) \/ Commits(r)
  BY <1>1, <1>2 DEF Refuse, Rollback, Deadlock, Fail, Close, Reread, Commits, CommitCreate, CommitChange, CommitDelete,
                    EndTransaction, Replied
<1>3. ASSUME PatchCheckCompany(r), ~Refuse(r) PROVE Undisturbed(r)'
  BY <1>3 DEF PatchCheckCompany, Undisturbed, Changes, Sent, Working, tables
<1>4. ASSUME NEW stmt \in Statements \ {"insert"}, NEW label, pc[r] \in Working, Execute(r, stmt, label), UNCHANGED stamp
      PROVE  Undisturbed(r)'
  <2>1. txn' = txn /\ sent'[r] = sent[r] \cup {stmt} /\ apps' = apps /\ history' = history
    BY <1>4, ExecuteEffect DEF tables
  <2> QED BY <1>4, <2>1 DEF Undisturbed, Changes, Sent
<1>5. ASSUME InsertHistory(r), ~Rollback(r) PROVE Undisturbed(r)'
  <2>1. PICK label : Execute(r, "insert", label)
    BY <1>5 DEF InsertHistory
  <2>2. pc[r] = "insert" /\ stamp' = [stamp EXCEPT ![r] = clock]
    BY <1>5 DEF InsertHistory
  <2>3. txn' = txn /\ apps' = apps /\ history' = history
    BY <2>1, <2>2, ExecuteEffect DEF tables
  <2>4. stamp'[r] = clock /\ \A h \in history : h.at < clock
    BY <2>2 DEF TypeOK, LedgerInv, LedgerTimes
  <2> QED BY <2>2, <2>3, <2>4 DEF Undisturbed, Changes, Working
<1>6. CASE InsertApp(r)
  BY <1>2, <1>4, <1>6 DEF InsertApp, Statements, Working
<1>7. CASE UpdateApp(r)
  BY <1>2, <1>4, <1>7 DEF UpdateApp, Statements, Working
<1>8. CASE DeleteApps(r) \/ DeleteCompanyRow(r)
  BY <1>4, <1>8 DEF DeleteApps, DeleteCompanyRow, Statements, Working
<1> QED BY <1>2, <1>3, <1>5, <1>6, <1>7, <1>8 DEF Proceed, Commits

\* The row that a commit adds is younger than all others.
LEMMA CommitAddsYoungest ==
  ASSUME CoreInv, NEW r \in Requests, Undisturbed(r), CommitCreate(r) \/ CommitChange(r)
  PROVE  \/ history' = history
         \/ /\ history' = history \cup {NewLedgerRow(r)}
            /\ NewLedgerRow(r).app = txn[r].app /\ txn[r].app \in Apps
            /\ NewLedgerRow(r).at \in Nat
            /\ \A h \in history : h.at \in Nat /\ h.at < NewLedgerRow(r).at
<1>1. /\ pc[r] = "commit" /\ TypeOK
      /\ CreateShape(r) \/ TransitionShape(r) \/ PatchShape(r)
  BY WorkingShape DEF CommitCreate, CommitChange, CoreInv
<1>2. /\ NewLedgerRow(r).app = txn[r].app /\ txn[r].app \in Apps
      /\ NewLedgerRow(r).at = stamp[r] /\ stamp[r] \in Nat
      /\ \A h \in history : h.at \in Nat
  BY <1>1 DEF NewLedgerRow, CreateShape, TransitionShape, PatchShape, Apps, TypeOK, LedgerRow
<1>3. Sent(r, "insert") => \A h \in history : h.at < stamp[r]
  BY <1>1 DEF Undisturbed, Working
<1>4. CommitCreate(r) => Sent(r, "insert")
  BY <1>1 DEF CommitCreate, CreateShape, TransitionShape, PatchShape, At, Committed, Sent
<1> QED BY <1>2, <1>3, <1>4 DEF CommitCreate, CommitChange

\* A commit keeps the order of the rows.
LEMMA RowsAfterCommit ==
  ASSUME CoreInv, RowsOrdered, NEW r \in Requests, Undisturbed(r), Commits(r)
  PROVE  RowsOrdered'
<1>1. CASE CommitDelete(r)
  <2>1. history' \subseteq history
    BY <1>1 DEF CommitDelete
  <2>2. \A a \in Apps : RowsOf(a)' \subseteq RowsOf(a)
    BY <2>1 DEF RowsOf
  <2>3. \A a \in Apps : IsFiniteSet(RowsOf(a)')
    BY <2>2, FS_Subset DEF RowsOrdered
  <2> QED BY <2>1, <2>3 DEF RowsOrdered
<1>2. CASE CommitCreate(r) \/ CommitChange(r)
  <2>1. CASE history' = history
    BY <2>1 DEF RowsOrdered, RowsOf
  <2>2. CASE history' # history
    <3> PICK n : n = NewLedgerRow(r)
      OBVIOUS
    <3>1. /\ history' = history \cup {n} /\ n.at \in Nat
          /\ \A h \in history : h.at \in Nat /\ h.at < n.at
      BY <1>2, <2>2, CommitAddsYoungest
    <3>2. \A a \in Apps : RowsOf(a)' = RowsOf(a) \/ RowsOf(a)' = RowsOf(a) \cup {n}
      BY <3>1 DEF RowsOf
    <3>3. \A a \in Apps : IsFiniteSet(RowsOf(a)')
      BY <3>2, FS_AddElement DEF RowsOrdered
    <3>4. \A g, h \in history' : g.app = h.app /\ g.at = h.at => g = h
      BY <3>1 DEF RowsOrdered
    <3> QED BY <3>3, <3>4 DEF RowsOrdered
  <2> QED BY <2>1, <2>2
<1> QED BY <1>1, <1>2 DEF Commits

\* Only the open request takes a step, and it keeps what it relies on.
LEMMA SerialStep ==
  ASSUME MaxOpen = 1, CoreInv, LedgerInv, SerialInv, [Next]_vars
  PROVE  SerialInv'
<1>1. CASE UNCHANGED vars
  BY <1>1 DEF vars, SerialInv, OneOpen, Active, RowsOrdered, RowsOf, Undisturbed, Changes, Sent
<1>2. ASSUME NEW r \in Requests, Arrive(r) \/ Proceed(r) \/ Fail(r) PROVE SerialInv'
  <2>1. OnlyOf(r) /\ \A q \in Others(r) : ~Active(q)
    BY <1>2, OnlyOfStep, NobodyElse DEF SerialInv
  <2>2. \A q \in Others(r) : ~Active(q)'
    BY <2>1 DEF OnlyOf, Active
  <2>3. OneOpen'
    BY <2>2 DEF OneOpen, Others
  <2>4. Undisturbed(r)'
    BY <1>2, UndisturbedBegin, UndisturbedStatement DEF SerialInv
  <2>5. \A q \in Others(r) : Undisturbed(q)'
    BY <2>2 DEF Active, Undisturbed
  <2>6. RowsOrdered'
    <3>1. CASE UNCHANGED tables
      BY <3>1 DEF tables, SerialInv, RowsOrdered, RowsOf
    <3>2. CASE Commits(r)
      BY <3>2, RowsAfterCommit DEF SerialInv
    <3> QED BY <1>2, <3>1, <3>2, StepCases DEF ReadEffect, StatementEffect
  <2> QED BY <2>3, <2>4, <2>5, <2>6 DEF SerialInv, Others
<1> QED BY <1>1, <1>2 DEF Next, Quiet

\* At first no request is open.
LEMMA SerialInit ==
  ASSUME Init
  PROVE  SerialInv
<1>1. OneOpen /\ \A r \in Requests : Undisturbed(r)
  BY DEF Init, OneOpen, Active, Undisturbed, Working
<1>2. \A h \in history : h = [app |-> h.app, from |-> None, to |-> apps[h.app].stage, at |-> 0]
  BY DEF Init
<1>3. ASSUME NEW a \in Apps PROVE IsFiniteSet(RowsOf(a))
  <2> PICK n : n = [app |-> a, from |-> None, to |-> apps[a].stage, at |-> 0]
    OBVIOUS
  <2>1. RowsOf(a) \subseteq {n}
    BY <1>2 DEF RowsOf
  <2> QED BY <2>1, FS_Singleton, FS_Subset
<1> QED BY <1>1, <1>2, <1>3 DEF SerialInv, RowsOrdered

-----------------------------------------------------------------------------
(* Timelines.                                                                *)

\* A row that is younger than all others is appended to the timeline of its
\* application and leaves the others' alone.
LEMMA TimelineGrows ==
  ASSUME RowsOrdered, NEW n, n.app \in Apps, n.at \in Nat, history' = history \cup {n},
         \A h \in history : h.at \in Nat /\ h.at < n.at
  PROVE  /\ Timeline(n.app)' = Append(Timeline(n.app), n)
         /\ \A b \in Apps \ {n.app} : Timeline(b)' = Timeline(b)
<1> DEFINE a == n.app
<1> PICK c : c = Cardinality(RowsOf(a))
  OBVIOUS
<1>1. /\ n \notin history /\ RowsOf(a)' = RowsOf(a) \cup {n}
      /\ \A b \in Apps \ {a} : RowsOf(b)' = RowsOf(b)
  BY DEF RowsOf
<1>2. IsFiniteSet(RowsOf(a)) /\ c \in Nat /\ n \notin RowsOf(a)
  BY <1>1, FS_CardinalityType DEF RowsOrdered, RowsOf
<1>3. Cardinality(RowsOf(a)') = c + 1
  BY <1>1, <1>2, FS_AddElement
<1>4. ASSUME NEW h \in history PROVE Position(h)' = Position(h)
  <2>1. { g \in RowsOf(h.app)' : g.at <= h.at } = { g \in RowsOf(h.app) : g.at <= h.at }
    BY DEF RowsOf
  <2> QED BY <2>1 DEF Position
<1>5. Position(n)' = c + 1
  <2>1. { g \in RowsOf(a)' : g.at <= n.at } = RowsOf(a)'
    BY <1>1 DEF RowsOf
  <2> QED BY <1>3, <2>1 DEF Position
<1>6. ASSUME NEW h \in RowsOf(a) PROVE h \in history /\ Position(h) \in Nat /\ Position(h) <= c
  <2>1. h \in history /\ h.app = a
    BY DEF RowsOf
  <2>2. { g \in RowsOf(a) : g.at <= h.at } \in SUBSET RowsOf(a)
    OBVIOUS
  <2>3. IsFiniteSet({ g \in RowsOf(a) : g.at <= h.at }) /\ Cardinality({ g \in RowsOf(a) : g.at <= h.at }) <= c
    BY <1>2, <2>2, FS_Subset
  <2> QED BY <2>1, <2>3, FS_CardinalityType DEF Position
<1>7. ASSUME NEW b \in Apps \ {a} PROVE Timeline(b)' = Timeline(b)
  <2>1. RowsOf(b)' = RowsOf(b) /\ \A h \in RowsOf(b) : Position(h)' = Position(h)
    BY <1>1, <1>4, <1>7 DEF RowsOf
  <2>2. ASSUME NEW k PROVE RowAt(b, k)' = RowAt(b, k)
    <3>1. \A h : (h \in RowsOf(b)' /\ Position(h)' = k) <=> (h \in RowsOf(b) /\ Position(h) = k)
      BY <2>1
    <3> QED BY <3>1, Zenon DEF RowAt
  <2> QED BY <2>1, <2>2 DEF Timeline
<1>8. ASSUME NEW k \in 1 .. c PROVE RowAt(a, k)' = RowAt(a, k)
  <2>1. \A h : (h \in RowsOf(a)' /\ Position(h)' = k) <=> (h \in RowsOf(a) /\ Position(h) = k)
    BY <1>1, <1>2, <1>4, <1>5, <1>6
  <2> QED BY <2>1, Zenon DEF RowAt
<1>9. RowAt(a, c + 1)' = n
  <2>1. \A h : (h \in RowsOf(a)' /\ Position(h)' = c + 1) <=> h = n
    BY <1>1, <1>2, <1>4, <1>5, <1>6
  <2> QED BY <2>1 DEF RowAt
<1>10. /\ Timeline(a)  = [k \in 1 .. c |-> RowAt(a, k)]
       /\ Timeline(a)' = [k \in 1 .. c + 1 |-> IF k = c + 1 THEN n ELSE Timeline(a)[k]]
  <2>1. Timeline(a) = [k \in 1 .. c |-> RowAt(a, k)]
    BY DEF Timeline
  <2>2. Timeline(a)' = [k \in 1 .. c + 1 |-> RowAt(a, k)']
    BY <1>3 DEF Timeline
  <2>3. ASSUME NEW k \in 1 .. c + 1
        PROVE  RowAt(a, k)' = IF k = c + 1 THEN n ELSE Timeline(a)[k]
    <3>1. k = c + 1 \/ k \in 1 .. c
      BY <1>2
    <3>2. CASE k = c + 1
      BY <1>9, <3>2, Zenon
    <3>3. CASE k \in 1 .. c
      BY <1>2, <1>8, <2>1, <3>3
    <3> QED BY <3>1, <3>2, <3>3
  <2> QED BY <2>1, <2>2, <2>3
<1>11. Timeline(a)' = Append(Timeline(a), n)
  <2> DEFINE S == { Timeline(a)[k] : k \in 1 .. c } \cup {n}
  <2>1. Timeline(a) \in [1 .. c -> S]
    BY <1>10
  <2>2. Timeline(a) \in Seq(S) /\ Len(Timeline(a)) = c
    BY <1>2, <2>1, SeqDef
  <2> QED BY <1>2, <1>10, <2>1, <2>2, n \in S
<1> QED BY <1>7, <1>11

\* So is the move that it records.
LEMMA ProgressionGrows ==
  ASSUME RowsOrdered, NEW n, n.app \in Apps, n.at \in Nat, history' = history \cup {n},
         \A h \in history : h.at \in Nat /\ h.at < n.at
  PROVE  /\ Progression(n.app)' = Append(Progression(n.app), [from |-> n.from, to |-> n.to])
         /\ \A b \in Apps \ {n.app} : Progression(b)' = Progression(b)
<1> DEFINE a == n.app
           c == Cardinality(RowsOf(a))
           T == Timeline(a)
           S == { T[k] : k \in 1 .. c } \cup {n}
           step(h) == [from |-> h.from, to |-> h.to]
           P == { step(h) : h \in S }
<1>1. T' = Append(T, n) /\ \A b \in Apps \ {a} : Timeline(b)' = Timeline(b)
  BY TimelineGrows
<1>2. c \in Nat /\ T \in [1 .. c -> S]
  <2>1. T = [k \in 1 .. c |-> RowAt(a, k)]
    BY DEF Timeline
  <2> QED BY <2>1, FS_CardinalityType DEF RowsOrdered
<1>3. T \in Seq(S) /\ Len(T) = c
  BY <1>2, SeqDef
<1>4. Progression(a) = [k \in 1 .. c |-> step(T[k])]
  BY <1>2 DEF Progression
<1>5. Progression(a)' = [k \in 1 .. c + 1 |-> step(T'[k])]
  <2>1. DOMAIN T' = 1 .. c + 1
    BY <1>1, <1>2, <1>3, n \in S
  <2> QED BY <2>1 DEF Progression
<1>6. Progression(a) \in [1 .. c -> P]
  BY <1>2, <1>4
<1>7. Progression(a) \in Seq(P) /\ Len(Progression(a)) = c
  <2> HIDE DEF P, S, T
  <2> QED BY <1>2, <1>6, SeqDef
<1>8. \A k \in 1 .. c + 1 : T'[k] = IF k = c + 1 THEN n ELSE T[k]
  BY <1>1, <1>2, <1>3, n \in S
<1>9. Progression(a)' = Append(Progression(a), step(n))
  <2>1. Append(Progression(a), step(n)) = [k \in 1 .. c + 1 |-> IF k = c + 1 THEN step(n) ELSE Progression(a)[k]]
    BY <1>2, <1>6, <1>7, step(n) \in P
  <2>2. ASSUME NEW k \in 1 .. c + 1
        PROVE  step(T'[k]) = IF k = c + 1 THEN step(n) ELSE Progression(a)[k]
    BY <1>2, <1>4, <1>8
  <2> QED BY <1>5, <2>1, <2>2
<1>10. \A b \in Apps \ {a} : Progression(b)' = Progression(b)
  BY <1>1 DEF Progression
<1> QED BY <1>9, <1>10

-----------------------------------------------------------------------------
(* One request at a time: the pipeline implements StageLedger.               *)

\* An application that has no row shows no move.
LEMMA NoRowsNoMoves ==
  ASSUME NEW a \in Apps
  PROVE  /\ RowsOf(a) = {} => Progression(a) = << >>
         /\ RowsOf(a)' = {} => Progression(a)' = << >>
<1>1. Cardinality({}) = 0
  BY FS_EmptySet
<1>2. RowsOf(a) = {} => Timeline(a) = << >>
  BY <1>1 DEF Timeline
<1>3. RowsOf(a)' = {} => Timeline(a)' = << >>
  BY <1>1 DEF Timeline
<1> QED BY <1>2, <1>3 DEF Progression

\* Rows that do not change are shown as before.
LEMMA SameRowsSameMoves ==
  ASSUME NEW a \in Apps, RowsOf(a)' = RowsOf(a)
  PROVE  Progression(a)' = Progression(a)
<1>1. ASSUME NEW h \in RowsOf(a) PROVE Position(h)' = Position(h)
  BY DEF Position, RowsOf
<1>2. ASSUME NEW k PROVE RowAt(a, k)' = RowAt(a, k)
  <2>1. \A h : (h \in RowsOf(a)' /\ Position(h)' = k) <=> (h \in RowsOf(a) /\ Position(h) = k)
    BY <1>1
  <2> QED BY <2>1, Zenon DEF RowAt
<1>3. Timeline(a)' = Timeline(a)
  BY <1>2 DEF Timeline
<1> QED BY <1>3 DEF Progression

\* A creation opens the timeline of its application.
LEMMA OpensTimeline ==
  ASSUME CoreInv, LedgerInv, RowsOrdered, NEW r \in Requests, Undisturbed(r), CommitCreate(r)
  PROVE  Ledger!Next
<1> PICK n : n = NewLedgerRow(r)
  OBVIOUS
<1> DEFINE row == [user |-> txn[r].user, company |-> txn[r].company, stage |-> txn[r].target]
<1>1. /\ CreateShape(r) /\ pc[r] = "commit" /\ TypeOK
  BY WorkingShape DEF CommitCreate, CoreInv
<1>2. /\ txn[r].app = r /\ txn[r].seen = None /\ r \in Apps /\ row \in AppRow /\ row # None
      /\ row.stage = txn[r].target /\ txn[r].target \in Stages
  BY <1>1, NoneAssumption DEF CreateShape, AppRow, Apps
<1>3. n.app = r /\ n.from = None /\ n.to = txn[r].target
  BY <1>2 DEF NewLedgerRow
<1>4. apps' = [apps EXCEPT ![r] = row] /\ history' = history \cup {n}
  BY DEF CommitCreate
<1> HIDE DEF row
<1>5. apps[r] = None /\ apps'[r] = row /\ \A a \in Apps \ {r} : apps'[a] = apps[a]
  BY <1>1, <1>2, <1>4 DEF LedgerInv, FreshApps, Uncommitted, Working, TypeOK
<1>6. \A h \in history : h.app # r
  BY <1>5 DEF LedgerInv, TablesAgree, LedgerComplete
<1>7. Progression(r) = << >>
  BY <1>2, <1>6, NoRowsNoMoves DEF RowsOf
<1>8. n.at \in Nat /\ \A h \in history : h.at \in Nat /\ h.at < n.at
  <2>1. n \notin history
    BY <1>3, <1>6
  <2> QED BY <1>4, <2>1, CommitAddsYoungest
<1>9. /\ Progression(r)' = << [from |-> None, to |-> txn[r].target] >>
      /\ \A a \in Apps \ {r} : Progression(a)' = Progression(a)
  <2>1. Append(<< >>, [from |-> None, to |-> txn[r].target]) = << [from |-> None, to |-> txn[r].target] >>
    OBVIOUS
  <2> QED BY <1>2, <1>3, <1>4, <1>7, <1>8, <2>1, ProgressionGrows
<1>10. StageOf(r) = None /\ StageOf(r)' = txn[r].target /\ \A a \in Apps \ {r} : StageOf(a)' = StageOf(a)
  BY <1>2, <1>5 DEF StageOf
<1>11. Ledger!Open(r, txn[r].target)
  BY <1>2, <1>9, <1>10 DEF Ledger!Open
<1> QED BY <1>2, <1>11 DEF Ledger!Next, Ledger!Stages, Stages

\* A change appends a move that starts from the current stage.
LEMMA ExtendsTimeline ==
  ASSUME CoreInv, LedgerInv, RowsOrdered, NEW r \in Requests, Undisturbed(r), CommitChange(r)
  PROVE  Ledger!Next \/ UNCHANGED <<[a \in Apps |-> StageOf(a)], [a \in Apps |-> Progression(a)]>>
<1> PICK a : a = txn[r].app
  OBVIOUS
<1> PICK n : n = NewLedgerRow(r)
  OBVIOUS
<1>1. /\ a \in Apps /\ txn[r].seen \in Stages /\ Changes(r) /\ pc[r] = "commit"
      /\ n.app = a /\ n.from = txn[r].seen /\ n.to = txn[r].target
      /\ history' = IF Sent(r, "insert") THEN history \cup {n} ELSE history
      /\ Sent(r, "insert") => /\ apps[a] # None /\ StageOf(a) # None
                              /\ ValidTransition(txn[r].seen, txn[r].target)
                              /\ txn[r].target \in Stages
      /\ ~Sent(r, "insert") => ~SetsStage(r)
      /\ \A b \in Apps \ {a} : StageOf(b)' = StageOf(b)
      /\ StageOf(a)' = IF SetsStage(r) THEN txn[r].target ELSE StageOf(a)
  BY ChangeRecords
<1>2. CASE Sent(r, "insert")
  <2>1. StageOf(a) = txn[r].seen
    BY <1>1, <1>2 DEF Undisturbed, Working, StageOf
  <2>2. StageOf(a)' = txn[r].target
    BY <1>1, <1>2, <2>1, NoneAssumption DEF SetsStage
  <2>3. n.at \in Nat /\ \A h \in history : h.at \in Nat /\ h.at < n.at
    <3>1. Sent(r, "insert") => \A h \in history : h.at < stamp[r]
      BY <1>1 DEF Undisturbed, Working
    <3>2. n.at = stamp[r] /\ stamp[r] \in Nat /\ \A h \in history : h.at \in Nat
      BY DEF NewLedgerRow, CoreInv, TypeOK, LedgerRow
    <3> QED BY <1>2, <3>1, <3>2
  <2>4. /\ Progression(a)' = Append(Progression(a), [from |-> txn[r].seen, to |-> txn[r].target])
        /\ \A b \in Apps \ {a} : Progression(b)' = Progression(b)
    BY <1>1, <1>2, <2>3, ProgressionGrows
  <2>5. Ledger!ValidTransition(txn[r].seen, txn[r].target)
    BY <1>1, <1>2 DEF ValidTransition, VALID_STAGE_TRANSITIONS, Ledger!ValidTransition, Ledger!VALID_STAGE_TRANSITIONS, Stages, Ledger!Stages
  <2>6. Ledger!Move(a, txn[r].target)
    BY <1>1, <1>2, <2>1, <2>2, <2>4, <2>5 DEF Ledger!Move
  <2> QED BY <1>1, <1>2, <2>6 DEF Ledger!Next, Ledger!Stages, Stages
<1>3. CASE ~Sent(r, "insert")
  <2>1. \A b \in Apps : StageOf(b)' = StageOf(b)
    BY <1>1, <1>3
  <2>2. \A b \in Apps : Progression(b)' = Progression(b)
    BY <1>1, <1>3, SameRowsSameMoves DEF RowsOf
  <2> QED BY <2>1, <2>2
<1> QED BY <1>2, <1>3

\* A deletion drops timelines with their applications.
LEMMA DropsTimelines ==
  ASSUME CoreInv, LedgerInv, NEW r \in Requests, CommitDelete(r)
  PROVE  Ledger!Next
<1> DEFINE D == Doomed(r)
<1>1. DeleteShape(r) /\ TypeOK
  BY WorkingShape DEF CommitDelete, CoreInv
<1>2. D \in SUBSET Apps
  BY <1>1 DEF Doomed, AppsOf, TypeOK, Txn
<1>3. /\ \A a \in Apps : apps'[a] = IF a \in D THEN None ELSE apps[a]
      /\ history' = { h \in history : h.app \notin D }
  BY DEF CommitDelete
<1> HIDE DEF D
<1>4. \A a \in Apps : StageOf(a)' = IF a \in D THEN None ELSE StageOf(a)
  BY <1>3 DEF StageOf
<1>5. ASSUME NEW a \in Apps PROVE Progression(a)' = IF a \in D THEN << >> ELSE Progression(a)
  <2>1. CASE a \in D
    <3>1. RowsOf(a)' = {}
      BY <1>3, <2>1 DEF RowsOf
    <3> QED BY <2>1, <3>1, NoRowsNoMoves
  <2>2. CASE a \notin D
    <3>1. RowsOf(a)' = RowsOf(a)
      BY <1>3, <2>2 DEF RowsOf
    <3> QED BY <2>2, <3>1, SameRowsSameMoves
  <2> QED BY <2>1, <2>2
<1>6. Ledger!Drop(D)
  BY <1>4, <1>5 DEF Ledger!Drop
<1> QED BY <1>2, <1>6 DEF Ledger!Next

\* The timeline of an old application is its opening.
LEMMA MapsInitToLedger ==
  ASSUME Init
  PROVE  Ledger!Init
<1>1. CoreInv
  BY CoreInit
<1>2. \A a \in Apps : StageOf(a) \in Stages \cup {None} /\ (StageOf(a) = None <=> apps[a] = None)
  BY <1>1, NoneAssumption DEF CoreInv, TypeOK, AppRow, StageOf
<1>3. history = { [app |-> a, from |-> None, to |-> apps[a].stage, at |-> 0] :
                   a \in { b \in Apps : apps[b] # None } }
  BY DEF Init
<1>4. ASSUME NEW a \in Apps
      PROVE  Progression(a) = IF StageOf(a) = None THEN << >> ELSE << [from |-> None, to |-> StageOf(a)] >>
  <2>1. CASE apps[a] = None
    <3>1. RowsOf(a) = {}
      BY <1>3, <2>1 DEF RowsOf
    <3> QED BY <1>2, <2>1, <3>1, NoRowsNoMoves
  <2>2. CASE apps[a] # None
    <3> PICK n : n = [app |-> a, from |-> None, to |-> apps[a].stage, at |-> 0]
      OBVIOUS
    <3>1. RowsOf(a) = {n} /\ n.app = a /\ n.from = None /\ n.to = apps[a].stage /\ n.at = 0
      BY <1>3, <2>2 DEF RowsOf
    <3>2. Position(n) = 1 /\ Cardinality(RowsOf(a)) = 1
      <4>1. { g \in RowsOf(a) : g.at <= n.at } = {n}
        BY <3>1
      <4> QED BY <3>1, <4>1, FS_Singleton DEF Position
    <3>3. RowAt(a, 1) = n
      <4>1. \A h : (h \in RowsOf(a) /\ Position(h) = 1) <=> h = n
        BY <3>1, <3>2
      <4> QED BY <4>1 DEF RowAt
    <3>4. Timeline(a) = << n >>
      BY <3>2, <3>3 DEF Timeline
    <3>5. Progression(a) = << [from |-> None, to |-> apps[a].stage] >>
      BY <3>1, <3>4 DEF Progression
    <3>6. StageOf(a) = apps[a].stage
      BY <2>2 DEF StageOf
    <3> QED BY <1>2, <2>2, <3>5, <3>6
  <2> QED BY <2>1, <2>2
<1> QED BY <1>2, <1>4 DEF Ledger!Init, Ledger!Stages, Stages

\* What each request relies on while it is alone.
THEOREM SerialInvariant ==
  ASSUME MaxOpen = 1
  PROVE  Spec => []SerialInv
<1>1. Init => SerialInv
  BY SerialInit
<1>2. CoreInv /\ LedgerInv /\ SerialInv /\ [Next]_vars => SerialInv'
  BY SerialStep
<1> QED BY <1>1, <1>2, CoreInvariant, LedgerInvariant, PTL DEF Spec

\* Only commits show, and they are steps of the ledger.
LEMMA SerialMaps ==
  ASSUME CoreInv, LedgerInv, SerialInv, [Next]_vars
  PROVE  \/ Ledger!Next
         \/ UNCHANGED <<[a \in Apps |-> StageOf(a)], [a \in Apps |-> Progression(a)]>>
<1>1. CASE UNCHANGED tables
  <2>1. \A a \in Apps : StageOf(a)' = StageOf(a) /\ RowsOf(a)' = RowsOf(a)
    BY <1>1 DEF tables, StageOf, RowsOf
  <2>2. \A a \in Apps : Progression(a)' = Progression(a)
    BY <2>1, SameRowsSameMoves
  <2> QED BY <2>1, <2>2
<1>2. ASSUME NEW r \in Requests, Commits(r)
      PROVE  \/ Ledger!Next
             \/ UNCHANGED <<[a \in Apps |-> StageOf(a)], [a \in Apps |-> Progression(a)]>>
  BY <1>2, OpensTimeline, ExtendsTimeline, DropsTimelines DEF Commits, SerialInv
<1> QED BY <1>1, <1>2, TablesStep

\* Requests that do not overlap implement the ledger of the documentation: each
\* timeline is a walk along the matrix that ends at the current stage.
THEOREM SerialPipelineImplementsStageLedger ==
  ASSUME MaxOpen = 1
  PROVE  Spec => ImplementsStageLedger
<1>1. Init => Ledger!Init
  BY MapsInitToLedger
<1>2. CoreInv /\ LedgerInv /\ SerialInv /\ [Next]_vars
        => [Ledger!Next]_<<[a \in Apps |-> StageOf(a)], [a \in Apps |-> Progression(a)]>>
  BY SerialMaps
<1> QED
  BY <1>1, <1>2, CoreInvariant, LedgerInvariant, SerialInvariant, PTL
     DEF Spec, ImplementsStageLedger, Ledger!Spec

\* A timeline ends at the current stage.
Shown == [from : Stages \cup {None}, to : Stages]

EndsAtStage ==
  \A a \in Apps : /\ Progression(a) \in Seq(Shown)
                  /\ StageOf(a) # None => /\ Len(Progression(a)) > 0
                                          /\ Progression(a)[Len(Progression(a))].to = StageOf(a)

\* A timeline of one move ends there.
LEMMA OneMove ==
  ASSUME NEW s \in Stages, NEW walk, walk = << [from |-> None, to |-> s] >>
  PROVE  walk \in Seq(Shown) /\ Len(walk) > 0 /\ walk[Len(walk)].to = s
<1> PICK m \in Shown : m = [from |-> None, to |-> s]
  BY DEF Shown
<1>1. walk = << m >> /\ m.to = s
  OBVIOUS
<1> QED BY <1>1

\* Every step of the ledger keeps it so.
LEMMA LedgerEnds ==
  ASSUME TypeOK, EndsAtStage,
         \/ Ledger!Next
         \/ UNCHANGED <<[a \in Apps |-> StageOf(a)], [a \in Apps |-> Progression(a)]>>
  PROVE  EndsAtStage'
<1> DEFINE S == [a \in Apps |-> StageOf(a)]
           T == [a \in Apps |-> Progression(a)]
<1>1. \A a \in Apps : /\ StageOf(a) = S[a] /\ Progression(a) = T[a]
                      /\ StageOf(a)' = S'[a] /\ Progression(a)' = T'[a]
  OBVIOUS
<1>2. ASSUME NEW a \in Apps, S'[a] = S[a], T'[a] = T[a]
      PROVE  /\ Progression(a)' \in Seq(Shown)
             /\ StageOf(a)' # None => /\ Len(Progression(a)') > 0
                                      /\ Progression(a)'[Len(Progression(a)')].to = StageOf(a)'
  <2>1. Progression(a)' = Progression(a) /\ StageOf(a)' = StageOf(a)
    BY <1>1, <1>2
  <2> QED BY <2>1 DEF EndsAtStage
<1>3. ASSUME NEW a \in Apps, NEW s \in Stages, Ledger!Open(a, s) PROVE EndsAtStage'
  <2>1. /\ \A b \in Apps \ {a} : S'[b] = S[b] /\ T'[b] = T[b]
        /\ S'[a] = s /\ T'[a] = << [from |-> None, to |-> s] >>
    BY <1>3 DEF Ledger!Open
  <2>2. Progression(a)' = << [from |-> None, to |-> s] >> /\ StageOf(a)' = s
    BY <1>1, <2>1
  <2>3. /\ Progression(a)' \in Seq(Shown) /\ Len(Progression(a)') > 0
        /\ Progression(a)'[Len(Progression(a)')].to = s
    BY <2>2, OneMove
  <2> QED BY <1>2, <2>1, <2>2, <2>3 DEF EndsAtStage
<1>4. ASSUME NEW a \in Apps, NEW s \in Stages, Ledger!Move(a, s) PROVE EndsAtStage'
  <2>1. /\ \A b \in Apps \ {a} : S'[b] = S[b] /\ T'[b] = T[b]
        /\ S'[a] = s /\ T'[a] = Append(T[a], [from |-> S[a], to |-> s]) /\ S[a] # None
    BY <1>4 DEF Ledger!Move
  <2>2. StageOf(a) \in Stages
    BY <1>1, <2>1 DEF TypeOK, AppRow, StageOf
  <2>3. Progression(a)' = Append(Progression(a), [from |-> StageOf(a), to |-> s]) /\ StageOf(a)' = s
    BY <1>1, <2>1
  <2>4. [from |-> StageOf(a), to |-> s] \in Shown
    BY <2>2 DEF Shown
  <2>5. /\ Progression(a)' \in Seq(Shown) /\ Len(Progression(a)') > 0
        /\ Progression(a)'[Len(Progression(a)')].to = s
    BY <2>3, <2>4 DEF EndsAtStage
  <2> QED BY <1>2, <2>1, <2>3, <2>5 DEF EndsAtStage
<1>5. ASSUME NEW gone \in SUBSET Apps, Ledger!Drop(gone) PROVE EndsAtStage'
  <2>1. \A b \in Apps : /\ b \in gone => S'[b] = None /\ T'[b] = << >>
                        /\ b \notin gone => S'[b] = S[b] /\ T'[b] = T[b]
    BY <1>5 DEF Ledger!Drop
  <2>2. << >> \in Seq(Shown)
    OBVIOUS
  <2>3. \A b \in Apps : b \in gone => StageOf(b)' = None /\ Progression(b)' = << >>
    BY <1>1, <2>1
  <2> QED BY <1>2, <2>1, <2>2, <2>3 DEF EndsAtStage
<1>6. CASE UNCHANGED <<S, T>>
  BY <1>2, <1>6 DEF EndsAtStage
<1> QED BY <1>3, <1>4, <1>5, <1>6 DEF Ledger!Next, Ledger!Stages, Stages

\* It is so at first.
LEMMA LedgerStarts ==
  ASSUME TypeOK, Ledger!Init
  PROVE  EndsAtStage
<1>1. \A a \in Apps : Progression(a) = IF StageOf(a) = None THEN << >>
                                        ELSE << [from |-> None, to |-> StageOf(a)] >>
  BY DEF Ledger!Init
<1>2. \A a \in Apps : StageOf(a) \in Stages \cup {None}
  BY DEF TypeOK, AppRow, StageOf
<1>3. << >> \in Seq(Shown)
  OBVIOUS
<1> QED BY <1>1, <1>2, <1>3, OneMove DEF EndsAtStage

\* The stage of an application is where its timeline ends, as long as requests
\* do not overlap (the times of overlapping ones are not those of their commits).
THEOREM SerialTimelinesEndAtStage ==
  ASSUME MaxOpen = 1
  PROVE  Spec => []TimelineEndsAtCurrentStage
<1>1. Init => EndsAtStage
  BY CoreInit, MapsInitToLedger, LedgerStarts DEF CoreInv
<1>2. CoreInv /\ LedgerInv /\ SerialInv /\ EndsAtStage /\ [Next]_vars => EndsAtStage'
  BY SerialMaps, LedgerEnds DEF CoreInv
<1>3. CoreInv /\ SerialInv /\ EndsAtStage => TimelineEndsAtCurrentStage
  <2> SUFFICES ASSUME CoreInv, SerialInv, EndsAtStage, NEW a \in Apps, apps[a] # None
               PROVE  Timeline(a)[Len(Timeline(a))].to = apps[a].stage
    BY DEF TimelineEndsAtCurrentStage
  <2> DEFINE c == Cardinality(RowsOf(a))
             S == { RowAt(a, k) : k \in 1 .. c }
  <2>1. c \in Nat
    BY FS_CardinalityType DEF SerialInv, RowsOrdered
  <2>2. Timeline(a) \in [1 .. c -> S]
    BY DEF Timeline
  <2>3. Len(Timeline(a)) = c /\ DOMAIN Timeline(a) = 1 .. c
    <3> HIDE DEF S
    <3> QED BY <2>1, <2>2, SeqDef
  <2>4. StageOf(a) = apps[a].stage /\ StageOf(a) # None
    BY NoneAssumption DEF StageOf, CoreInv, TypeOK, AppRow
  <2>5. Progression(a) \in Seq(Shown) /\ Len(Progression(a)) > 0
        /\ Progression(a)[Len(Progression(a))].to = StageOf(a)
    BY <2>4 DEF EndsAtStage
  <2>6. DOMAIN Progression(a) = 1 .. c
    BY <2>3 DEF Progression
  <2>7. Len(Progression(a)) = c
    BY <2>1, <2>5, <2>6
  <2>8. c \in 1 .. c
    BY <2>1, <2>5, <2>7
  <2>9. Progression(a)[c].to = Timeline(a)[c].to
    BY <2>3, <2>8 DEF Progression
  <2> QED BY <2>3, <2>4, <2>5, <2>7, <2>9
<1> QED BY <1>1, <1>2, <1>3, CoreInvariant, LedgerInvariant, SerialInvariant, PTL DEF Spec
=============================================================================
