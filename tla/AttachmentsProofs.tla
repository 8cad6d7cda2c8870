------------------------- MODULE AttachmentsProofs -------------------------
(* Theorems about Attachments, for any applications, users and requests.      *)
EXTENDS Attachments, TLAPS

-----------------------------------------------------------------------------
(* The inductive invariant.                                                  *)

\* Where a request stands determines what it does.
Shape(r) ==
  LET t == txn[r]
  IN /\ pc[r] = "idle" => t = NoTxn
     /\ pc[r] = "insert" => t.op = "create" /\ t.text \in Texts
     /\ pc[r] = "select" => t.op = "list"
     /\ pc[r] = "write" => t.op \in {"update", "delete"} /\ t.text # "unstorable"
     /\ pc[r] = "refresh" => t.op = "update"
     /\ pc[r] = "commit" => t.op \in {"create", "update", "delete"} /\ t.text # "unstorable"
     /\ pc[r] = "commit" /\ t.op = "create" => t.text \in Texts
     /\ t.op = "create" => t.id = r /\ t.kind \in Kinds /\ t.user \in Users /\ t.parent \in Ids
     /\ t.op \in {"read", "update", "delete"} => t.id \in Ids

\* A commit is the last that a request does, ids are not used again, and those
\* that refer to an application find it.
RowsSound ==
  /\ \A r \in committed : pc[r] \in Replied
  /\ \A i \in Requests : Stored(i) => pc[i] \in Replied /\ txn[i].op = "create"
  /\ \A i \in Ids : Stored(i) /\ rows[i].parent \in Requests => pc[rows[i].parent] \in Replied
  /\ \A i \in Ids : Stored(i) /\ rows[i].kind \in Referring =>
       /\ rows[i].parent \in Ids /\ Stored(rows[i].parent)
       /\ rows[rows[i].parent].kind = "application"

\* Somebody else has deleted something.
Deleted(r) == \E q \in Others(r) : txn[q].op = "delete" /\ q \in committed

\* What a request has verified remains true, or the row is gone.
VerifiedSound(r) ==
  LET t == txn[r]
  IN /\ pc[r] \in Working /\ t.op = "create" =>
          /\ t.parent \in Requests => pc[t.parent] \in Replied
          /\ Stored(t.parent) => /\ rows[t.parent].user = t.user
                                 /\ t.kind \in Referring => rows[t.parent].kind = "application"
          /\ ~Stored(t.parent) => Deleted(r)
     /\ pc[r] \in Working /\ t.op = "update" => Stored(t.id) \/ Deleted(r)

\* What an open transaction has updated, or refers to, is not deleted.
LocksSound(r) ==
  LET t == txn[r]
  IN /\ Pending(r, "create") /\ t.kind \in Referring =>
          Stored(t.parent) /\ \A q \in Others(r) : Pending(q, "delete") => t.parent \notin Cascade(txn[q].id)
     /\ Pending(r, "update") =>
          Stored(t.id) /\ \A q \in Others(r) : Pending(q, "delete") => t.id \notin Cascade(txn[q].id)

AttachedInv ==
  /\ TypeOK /\ RowsSound /\ NoStrayChildren /\ LateRefusalsSpoilt
  /\ \A r \in Requests : Shape(r) /\ VerifiedSound(r) /\ LocksSound(r)

-----------------------------------------------------------------------------

LEMMA InitInv == ASSUME AttachmentsConstants, Init PROVE AttachedInv
<1> PICK owner \in [Applications -> Users] :
      rows = [i \in Ids |->
                IF i \in Applications
                THEN [kind |-> "application", user |-> owner[i], parent |-> None, text |-> "filled"]
                ELSE None]
  BY DEF Init
<1>1. TypeOK
  BY DEF Init, TypeOK, Row, Txn, NoTxn, Ids, Texts, Asked, Kinds, AttachmentsConstants
<1>2. \A i \in Ids : Stored(i) => /\ i \in Applications /\ i \notin Requests
                                  /\ rows[i].kind = "application" /\ rows[i].parent = None /\ rows[i].text = "filled"
  BY DEF Stored, Ids, AttachmentsConstants
<1>3. RowsSound /\ NoStrayChildren
  BY <1>2 DEF Init, RowsSound, NoStrayChildren, AttachmentsConstants, Ids
<1>4. LateRefusalsSpoilt
  BY <1>2 DEF Init, LateRefusalsSpoilt, Ids
<1>5. \A r \in Requests : Shape(r) /\ VerifiedSound(r) /\ LocksSound(r)
  BY DEF Init, Shape, VerifiedSound, LocksSound, Pending, Working, NoTxn
<1> QED BY <1>1, <1>3, <1>4, <1>5 DEF AttachedInv

\* A request that begins changes no row, and nobody else's progress.
LEMMA BeginInv ==
  ASSUME AttachmentsConstants, AttachedInv, NEW r \in Requests, NEW t \in Txn, NEW found, NEW labels,
         Begin(r, t, found, labels),
         found => /\ \A label \in labels :
                       /\ label \in {"insert", "select", "refresh", "write", "ok", "Unhandled"}
                       /\ label = "insert" => t.op = "create" /\ t.text \in Texts
                       /\ label = "select" => t.op = "list"
                       /\ label = "refresh" => t.op = "update"
                       /\ label = "write" => t.op \in {"update", "delete"} /\ t.text # "unstorable"
                  /\ t.op = "create" => /\ t.id = r /\ t.kind \in Kinds /\ t.user \in Users
                                        /\ MayHold(t.kind, t.user, t.parent)
                  /\ t.op \in {"read", "update", "delete"} => t.id \in Ids /\ Stored(t.id)
  PROVE  AttachedInv'
<1>1. /\ pc[r] = "idle" /\ rows' = rows /\ committed' = committed /\ committed \subseteq Requests
      /\ pc \in [Requests -> {"idle"} \cup Working \cup Replied] /\ txn \in [Requests -> Txn]
      /\ txn[r] = NoTxn
  BY DEF Begin, AttachedInv, TypeOK, Shape
<1>2. \A i \in Ids : Stored(i)' = Stored(i)
  BY <1>1 DEF Stored
<1>3. /\ pc'[r] \in {"insert", "select", "refresh", "write", "ok", "Unhandled", "EntityNotFound"}
      /\ pc' \in [Requests -> {"idle"} \cup Working \cup Replied]
      /\ \A q \in Others(r) : pc'[q] = pc[q] /\ txn'[q] = txn[q]
      /\ txn' \in [Requests -> Txn]
      /\ \/ txn'[r] = t /\ found /\ pc'[r] \in labels
         \/ txn'[r] = NoTxn /\ pc'[r] = "EntityNotFound"
  BY <1>1 DEF Begin, Others, Replied, Working
<1>4. TypeOK'
  BY <1>1, <1>3 DEF AttachedInv, TypeOK
<1>5. ~Stored(r) /\ r \notin committed
  BY <1>1 DEF AttachedInv, RowsSound, Replied
<1>6. \A q \in Requests : pc[q] \in Replied => q # r /\ pc'[q] = pc[q] /\ txn'[q] = txn[q]
  BY <1>1, <1>3 DEF Replied, Others
<1>7. RowsSound' /\ NoStrayChildren'
  BY <1>1, <1>2, <1>6 DEF AttachedInv, RowsSound, NoStrayChildren, Stored, Owns
<1>8. LateRefusalsSpoilt'
  <2>1. \A q \in committed : pc'[q] = pc[q] /\ txn'[q] = txn[q]
    BY <1>1, <1>6 DEF AttachedInv, RowsSound
  <2> QED BY <1>1, <1>2, <2>1 DEF AttachedInv, LateRefusalsSpoilt, Spoilt
<1>9. \A q \in Requests : Deleted(q) => Deleted(q)'
  BY <1>1, <1>6 DEF AttachedInv, RowsSound, Deleted, Others
<1>10. \A q \in Requests : \A op \in {"create", "update", "delete"} : Pending(q, op)' => Pending(q, op) /\ q # r
  BY <1>3 DEF Pending, Others, Working
<1>11. ASSUME NEW q \in Others(r) PROVE Shape(q)' /\ VerifiedSound(q)' /\ LocksSound(q)'
  <2>1. Shape(q) /\ VerifiedSound(q) /\ LocksSound(q) /\ q \in Requests
    BY DEF AttachedInv, Others
  <2>2. Shape(q)'
    BY <1>3, <2>1 DEF Shape
  <2>3. VerifiedSound(q)'
    BY <1>1, <1>3, <1>6, <1>9, <2>1 DEF VerifiedSound, Stored
  <2>4. LocksSound(q)'
    <3>1. \A p \in Others(q) : Pending(p, "delete")' => Pending(p, "delete") /\ txn'[p] = txn[p]
      BY <1>3, <1>10 DEF Others
    <3>3. \A i : Cascade(i)' = Cascade(i)
      BY <1>1 DEF Cascade, Stored
    <3>2. \A op \in {"create", "update"} : Pending(q, op)' => Pending(q, op)
      BY <1>10, <2>1
    <3>4. Stored(txn[q].id)' = Stored(txn[q].id) /\ Stored(txn[q].parent)' = Stored(txn[q].parent)
      BY <1>1, <1>3 DEF Stored
    <3> QED BY <1>3, <2>1, <3>1, <3>2, <3>3, <3>4 DEF LocksSound
  <2> QED BY <2>2, <2>3, <2>4
<1>12. Shape(r)' /\ VerifiedSound(r)' /\ LocksSound(r)'
  <2>1. ~Pending(r, "create")' /\ ~Pending(r, "update")'
    BY <1>10
  <2>2. CASE txn'[r] = NoTxn /\ pc'[r] = "EntityNotFound"
    BY <2>1, <2>2 DEF Shape, VerifiedSound, LocksSound, NoTxn, Working
  <2>3. CASE txn'[r] = t /\ found /\ pc'[r] \in labels
    <3>1. Shape(r)'
      BY <2>3 DEF Shape, MayHold, Owns, Working
    <3>2. t.op = "create" => /\ t.parent \in Ids /\ Stored(t.parent) /\ rows[t.parent].user = t.user
                             /\ t.kind \in Referring => rows[t.parent].kind = "application"
                             /\ t.parent \in Requests => pc[t.parent] \in Replied
      BY <2>3 DEF MayHold, Owns, AttachmentsConstants, AttachedInv, RowsSound
    <3>3. VerifiedSound(r)'
      BY <1>1, <1>2, <1>6, <2>3, <3>2 DEF VerifiedSound, Stored
    <3> QED BY <2>1, <3>1, <3>3 DEF LocksSound
  <2> QED BY <1>3, <2>2, <2>3
<1> QED
  <2>1. \A q \in Requests : Shape(q)' /\ VerifiedSound(q)' /\ LocksSound(q)'
    BY <1>11, <1>12 DEF Others
  <2> QED BY <1>4, <1>7, <1>8, <2>1 DEF AttachedInv

\* A statement that leaves its transaction open, or ends it without a commit.
LEMMA StatementInv ==
  ASSUME AttachmentsConstants, AttachedInv, NEW r \in Requests, NEW label \in {"commit", "Unhandled", "ok", "failed"},
         pc[r] \in Working, Goto(r, label),
         label = "commit" => /\ pc[r] \in {"insert", "write"} /\ LocksSound(r)'
                             /\ txn[r].op = "delete" => \A q \in Others(r) : LocksSound(q)'
  PROVE  AttachedInv'
<1>1. /\ pc \in [Requests -> {"idle"} \cup Working \cup Replied]
      /\ pc' = [pc EXCEPT ![r] = label] /\ rows' = rows /\ txn' = txn
      /\ committed' = committed /\ committed \subseteq Requests
  BY DEF Goto, AttachedInv, TypeOK
<1>2. /\ \A q \in Others(r) : pc'[q] = pc[q]
      /\ \A q \in Requests : pc[q] \in Replied => q # r /\ pc'[q] = pc[q]
      /\ pc'[r] = label
  BY <1>1 DEF Others, Replied, Working
<1>3. TypeOK'
  BY <1>1 DEF AttachedInv, TypeOK, Working, Replied
<1>4. \A i : Stored(i)' = Stored(i) /\ Cascade(i)' = Cascade(i)
  BY <1>1 DEF Stored, Cascade
<1>5. ~Stored(r)
  BY DEF AttachedInv, RowsSound, Replied, Working
<1>6. RowsSound' /\ NoStrayChildren'
  BY <1>1, <1>2, <1>4 DEF AttachedInv, RowsSound, NoStrayChildren, Owns, Stored
<1>7. LateRefusalsSpoilt'
  <2>1. \A q \in committed : pc'[q] = pc[q]
    BY <1>1, <1>2 DEF AttachedInv, RowsSound
  <2> QED BY <1>1, <1>4, <2>1 DEF AttachedInv, LateRefusalsSpoilt, Spoilt
<1>8. \A q \in Requests : Deleted(q) => Deleted(q)'
  BY <1>1, <1>2 DEF Deleted, Others
<1>9. ASSUME NEW q \in Requests PROVE Shape(q)' /\ VerifiedSound(q)'
  <2>1. Shape(q) /\ VerifiedSound(q) /\ Shape(r)
    BY DEF AttachedInv
  <2>2. Shape(q)'
    BY <1>1, <1>2, <2>1 DEF Shape, Others, Texts
  <2>3. pc'[q] \in Working => pc[q] \in Working
    BY <1>2 DEF Others
  <2>4. VerifiedSound(q)'
    BY <1>1, <1>2, <1>4, <1>8, <2>1, <2>3 DEF VerifiedSound
  <2> QED BY <2>2, <2>4
<1>10. ASSUME NEW q \in Requests PROVE LocksSound(q)'
  <2>1. LocksSound(q) /\ Shape(r)
    BY DEF AttachedInv
  <2>2. CASE label = "commit" /\ (q = r \/ txn[r].op = "delete")
    BY <2>2 DEF Others
  <2>3. CASE ~(label = "commit" /\ (q = r \/ txn[r].op = "delete"))
    <3>1. \A op \in {"create", "update"} : Pending(q, op)' => Pending(q, op)
      BY <1>1, <1>2, <2>3 DEF Pending, Others
    <3>2. \A p \in Others(q) : Pending(p, "delete")' => Pending(p, "delete")
      BY <1>1, <1>2, <2>3 DEF Pending, Others
    <3> QED BY <1>1, <1>4, <2>1, <3>1, <3>2 DEF LocksSound
  <2> QED BY <2>2, <2>3
<1> QED BY <1>3, <1>6, <1>7, <1>9, <1>10 DEF AttachedInv

LEMMA InsertInv ==
  ASSUME AttachmentsConstants, AttachedInv, NEW r \in Requests, Insert(r)
  PROVE  AttachedInv'
<1>1. /\ pc[r] = "insert" /\ txn[r].op = "create" /\ txn[r].kind \in Kinds
      /\ pc \in [Requests -> {"idle"} \cup Working \cup Replied]
  BY DEF Insert, AttachedInv, Shape, TypeOK
<1>2. PICK label \in {"commit", "Unhandled"} :
        Goto(r, label) /\ (label = "commit" /\ txn[r].kind \in Referring => Stored(txn[r].parent))
  BY DEF Insert
<1>3. ASSUME label = "commit" PROVE LocksSound(r)'
  <2> SUFFICES ASSUME txn[r].kind \in Referring
               PROVE  /\ Stored(txn[r].parent)
                      /\ \A q \in Others(r) : Pending(q, "delete") => txn[r].parent \notin Cascade(txn[q].id)
    BY <1>1, <1>2 DEF LocksSound, Goto, Pending, Stored, Cascade, Others
  <2>1. \A q \in Others(r) : Pending(q, "delete") => txn[r].parent \notin Cascade(txn[q].id)
    BY DEF Insert, Written, Targets, Pending
  <2> QED BY <1>2, <1>3, <2>1
<1> QED BY <1>1, <1>2, <1>3, StatementInv DEF Working

LEMMA WriteInv ==
  ASSUME AttachmentsConstants, AttachedInv, NEW r \in Requests, Write(r)
  PROVE  AttachedInv'
<1>1. /\ pc[r] = "write" /\ txn[r].op \in {"update", "delete"} /\ txn[r].id \in Ids
      /\ pc \in [Requests -> {"idle"} \cup Working \cup Replied]
  BY DEF Write, AttachedInv, Shape, TypeOK
<1>2. PICK label \in {"commit", "Unhandled"} :
        Goto(r, label) /\ (label = "commit" => Stored(txn[r].id) \/ txn[r].op = "delete")
  BY DEF Write
<1>3. /\ txn' = txn /\ rows' = rows /\ pc'[r] = label
      /\ \A q \in Others(r) : pc'[q] = pc[q]
      /\ \A i : Stored(i)' = Stored(i) /\ Cascade(i)' = Cascade(i)
  BY <1>1, <1>2 DEF Goto, Others, Stored, Cascade
<1>4. ASSUME label = "commit" PROVE LocksSound(r)'
  <2> SUFFICES ASSUME txn[r].op = "update"
               PROVE  /\ Stored(txn[r].id)
                      /\ \A q \in Others(r) : Pending(q, "delete") => txn[r].id \notin Cascade(txn[q].id)
    BY <1>1, <1>3 DEF LocksSound, Pending, Others
  <2>1. \A q \in Others(r) : Pending(q, "delete") => txn[r].id \notin Cascade(txn[q].id)
    BY DEF Write, Written, Targets, Pending
  <2> QED BY <1>2, <1>4, <2>1
<1>5. ASSUME label = "commit", txn[r].op = "delete", NEW q \in Others(r) PROVE LocksSound(q)'
  <2>1. LocksSound(q) /\ VerifiedSound(q) /\ q \in Requests
    BY DEF AttachedInv, Others
  <2>2. Pending(q, "update") => txn[q].id \notin Cascade(txn[r].id)
    BY <1>5 DEF Write, Written, Targets, Pending
  <2>3. Pending(q, "create") /\ txn[q].kind \in Referring => txn[q].parent \notin Cascade(txn[r].id)
    <3> SUFFICES ASSUME Pending(q, "create"), txn[q].kind \in Referring
                 PROVE  txn[q].parent \notin Cascade(txn[r].id)
      OBVIOUS
    <3>1. txn[q].parent # txn[r].id
      BY <1>5 DEF Write, Referred
    <3>2. rows[txn[q].parent].kind = "application"
      BY <2>1 DEF LocksSound, VerifiedSound, Pending, Working
    <3> QED BY <3>1, <3>2 DEF Cascade, AttachmentsConstants
  <2> QED BY <1>3, <2>1, <2>2, <2>3 DEF LocksSound, Pending, Others
<1> QED BY <1>1, <1>2, <1>4, <1>5, StatementInv DEF Working

\* A commit: only the row of r can be new, and only a deletion removes rows.
LEMMA CommittedInv ==
  ASSUME AttachmentsConstants, AttachedInv, NEW r \in Requests, NEW outcome \in {"ok", "Unhandled", "failed"},
         pc[r] = "commit", rows' = Committed(r), txn' = txn, pc' = [pc EXCEPT ![r] = outcome],
         committed' = committed \cup {r},
         outcome = "ok" => txn[r].op = "delete" \/ rows'[txn[r].id].text # "blank",
         outcome = "Unhandled" => txn[r].op # "delete" /\ rows'[txn[r].id].text = "blank"
  PROVE  AttachedInv'
<1> DEFINE t == txn[r]
<1>1. /\ rows \in [Ids -> Row \cup {None}] /\ txn \in [Requests -> Txn]
      /\ pc \in [Requests -> {"idle"} \cup Working \cup Replied]
      /\ committed \subseteq Requests
      /\ Shape(r) /\ VerifiedSound(r) /\ LocksSound(r)
  BY DEF AttachedInv, TypeOK
<1>2. /\ \A q \in Others(r) : pc'[q] = pc[q]
      /\ \A q \in Requests : pc[q] \in Replied => q # r /\ pc'[q] = pc[q]
      /\ pc'[r] = outcome
  BY <1>1 DEF Others, Replied
<1>3. r \in Ids /\ ~Stored(r)
  BY DEF AttachedInv, RowsSound, Replied, Ids
<1>4. /\ t.op \in {"create", "update", "delete"} /\ t.text \in Texts \cup {"unset"}
      /\ t.op = "create" => t.text \in Texts /\ t.id = r /\ t.kind \in Kinds /\ t.user \in Users /\ t.parent \in Ids /\ t.parent # r
      /\ t.op = "update" => t.id \in Ids /\ Stored(t.id)
      /\ t.op = "delete" => t.id \in Ids /\ Pending(r, "delete")
  BY <1>1 DEF Shape, VerifiedSound, LocksSound, Pending, Working, Replied, Txn, Asked
<1>5. /\ t.op = "create" => rows'[r] = [kind |-> t.kind, user |-> t.user, parent |-> t.parent, text |-> t.text]
      /\ t.op = "update" /\ t.text # "unset" => rows'[t.id] = [rows[t.id] EXCEPT !.text = t.text]
      /\ \A i \in Ids : \/ t.op = "create" /\ i = r
                        \/ t.op = "update" /\ i = t.id /\ t.text # "unset"
                        \/ t.op = "delete" /\ i \in Cascade(t.id) /\ rows'[i] = None
                        \/ rows'[i] = rows[i] /\ ~(t.op = "delete" /\ i \in Cascade(t.id))
  BY <1>3, <1>4 DEF Committed
<1>6. \A i \in Ids : Stored(i) => rows[i] \in Row
  BY <1>1 DEF Stored
<1>7. rows' \in [Ids -> Row \cup {None}]
  <2>1. rows' = [i \in Ids |-> rows'[i]]
    BY DEF Committed
  <2>2. \A i \in Ids : rows'[i] \in Row \cup {None}
    <3>1. t.op = "create" => rows'[r] \in Row
      BY <1>4, <1>5 DEF Row
    <3>2. t.op = "update" => rows'[t.id] \in Row
      BY <1>4, <1>5, <1>6 DEF Row
    <3> QED BY <1>1, <1>5, <3>1, <3>2
  <2> QED BY <2>1, <2>2
<1>8. TypeOK'
  BY <1>1, <1>7 DEF TypeOK, Replied
<1>9. \A i \in Ids \ {r} : Stored(i)' => /\ Stored(i) /\ rows'[i].kind = rows[i].kind
                                         /\ rows'[i].user = rows[i].user /\ rows'[i].parent = rows[i].parent
  <2>1. t.op = "update" => /\ rows'[t.id].kind = rows[t.id].kind /\ rows'[t.id].user = rows[t.id].user
                           /\ rows'[t.id].parent = rows[t.id].parent
    BY <1>4, <1>5, <1>6 DEF Row
  <2> QED BY <1>4, <1>5, <2>1 DEF Stored
<1>10. \A i \in Ids : Stored(i) /\ ~Stored(i)' => t.op = "delete" /\ i \in Cascade(t.id)
  <2>1. t.op = "update" => rows'[t.id] \in Row
    BY <1>4, <1>5, <1>6 DEF Row
  <2>2. None \notin Row
    BY DEF AttachmentsConstants
  <2> QED BY <1>3, <1>5, <2>1, <2>2 DEF Stored
<1>11. Stored(r)' => /\ t.op = "create" /\ rows'[r].kind = t.kind /\ rows'[r].user = t.user
                     /\ rows'[r].parent = t.parent
  BY <1>3, <1>4, <1>5 DEF Stored
<1>12. None \notin Ids /\ None \notin Requests
  BY DEF AttachmentsConstants, Ids
<1>13. RowsSound'
  <2>1. \A i \in Requests : Stored(i)' => pc'[i] \in Replied /\ txn'[i].op = "create"
    BY <1>2, <1>9, <1>11 DEF AttachedInv, RowsSound, Replied, Ids
  <2>2. \A i \in Ids : Stored(i)' /\ rows'[i].parent \in Requests => pc'[rows'[i].parent] \in Replied
    BY <1>1, <1>2, <1>9, <1>11 DEF AttachedInv, RowsSound, VerifiedSound, Working
  <2>3. ASSUME NEW i \in Ids, Stored(i)', rows'[i].kind \in Referring
        PROVE  /\ rows'[i].parent \in Ids /\ rows'[i].parent # r
               /\ rows'[rows'[i].parent] # None /\ rows'[rows'[i].parent].kind = "application"
    <3> DEFINE p == rows'[i].parent
    <3>1. p \in Ids /\ p # r /\ Stored(p) /\ rows[p].kind = "application"
      <4>1. CASE i = r
        BY <1>1, <1>4, <1>11, <2>3, <4>1 DEF VerifiedSound, LocksSound, Pending, Working
      <4>2. CASE i # r
        BY <1>3, <1>9, <2>3, <4>2 DEF AttachedInv, RowsSound
      <4> QED BY <4>1, <4>2
    <3>2. rows'[p] # None
      <4> SUFFICES ASSUME t.op = "delete", p \in Cascade(t.id) PROVE FALSE
        BY <1>10, <3>1 DEF Stored
      <4>1. p = t.id
        BY <3>1 DEF Cascade, AttachmentsConstants
      <4>2. i # r
        BY <1>11, <2>3
      <4>3. i \in Cascade(t.id)
        BY <1>9, <2>3, <4>1, <4>2 DEF Cascade
      <4> QED BY <1>5, <2>3, <4>3 DEF Stored
    <3> QED BY <1>9, <3>1, <3>2 DEF Stored
  <2>4. \A q \in committed' : pc'[q] \in Replied
    BY <1>1, <1>2 DEF AttachedInv, RowsSound, Replied
  <2> QED BY <2>1, <2>2, <2>3, <2>4 DEF RowsSound, Stored
<1>14. NoStrayChildren'
  <2> SUFFICES ASSUME NEW i \in Ids, Stored(i)', rows'[i].parent # None
               PROVE  /\ rows'[i].kind \in Referring => rows'[rows'[i].parent] # None
                      /\ rows'[rows'[i].parent] # None =>
                           rows'[i].parent \in Ids /\ rows'[rows'[i].parent].user = rows'[i].user
    BY DEF NoStrayChildren, Stored, Owns
  <2>1. rows'[i].kind \in Referring => rows'[rows'[i].parent] # None
    BY <1>13 DEF RowsSound, Stored
  <2>2. CASE i = r
    BY <1>1, <1>4, <1>9, <1>11, <2>1, <2>2 DEF VerifiedSound, Working, Stored
  <2>3. CASE i # r
    <3>1. rows'[i].parent = rows[i].parent /\ rows'[i].user = rows[i].user /\ Stored(i)
      BY <1>9, <2>3
    <3>2. rows[i].parent \in Ids
      BY <1>6, <3>1 DEF Row
    <3>3. rows[i].parent # r
      BY <3>1 DEF AttachedInv, RowsSound, Replied
    <3> QED BY <1>9, <2>1, <3>1, <3>2, <3>3 DEF AttachedInv, NoStrayChildren, Stored, Owns
  <2> QED BY <2>2, <2>3
<1>15. LateRefusalsSpoilt'
  <2>1. r \in committed' /\ \A q \in committed : q \in committed' /\ pc'[q] = pc[q]
    BY <1>1, <1>2 DEF AttachedInv, RowsSound
  <2> DEFINE SpoiltNext(i) ==
        \E q \in committed' : /\ txn[q].op \in {"create", "update"} /\ txn[q].id = i
                              /\ txn[q].text = "blank" /\ pc'[q] \in {"Unhandled", "failed"}
  <2>2. \A i : Spoilt(i) => SpoiltNext(i)
    BY <2>1 DEF Spoilt
  <2>3. ASSUME NEW i \in Ids, Stored(i)', rows'[i].text = "blank" PROVE SpoiltNext(i)
    <3>1. CASE rows'[i] = rows[i]
      BY <2>2, <2>3, <3>1 DEF AttachedInv, LateRefusalsSpoilt, Stored
    <3>2. CASE \/ t.op = "create" /\ i = r
               \/ t.op = "update" /\ i = t.id /\ t.text # "unset"
      <4>1. rows'[i].text = t.text
        BY <1>4, <1>5, <1>6, <3>2 DEF Row
      <4> QED BY <1>2, <1>4, <2>1, <2>3, <3>2, <4>1
    <3> QED BY <1>5, <2>3, <3>1, <3>2 DEF Stored
  <2>4. ASSUME NEW q \in committed', pc'[q] \in Exceptions
        PROVE  txn[q].op \in {"create", "update"} /\ SpoiltNext(txn[q].id)
    <3>1. CASE q = r
      <4>1. "ok" \notin Exceptions /\ "failed" \notin Exceptions
        BY DEF Exceptions, StatusOf
      <4>2. t.op # "delete" /\ rows'[t.id].text = "blank"
        BY <1>2, <2>4, <3>1, <4>1
      <4>3. t.id \in Ids /\ Stored(t.id)'
        <5>1. CASE t.op = "create"
          <6>1. rows'[r] \in Row
            BY <1>4, <1>5, <5>1 DEF Row
          <6> QED BY <1>3, <1>4, <5>1, <6>1 DEF Stored, AttachmentsConstants
        <5>2. CASE t.op = "update"
          BY <1>4, <1>10, <5>2
        <5> QED BY <1>4, <4>2, <5>1, <5>2
      <4> QED BY <1>4, <2>3, <3>1, <4>2, <4>3
    <3>2. CASE q # r
      <4>1. q \in committed /\ pc'[q] = pc[q]
        BY <2>1, <2>4, <3>2
      <4> QED BY <2>2, <2>4, <4>1 DEF AttachedInv, LateRefusalsSpoilt
    <3> QED BY <3>1, <3>2
  <2> QED BY <2>3, <2>4 DEF LateRefusalsSpoilt, Spoilt
<1>16. \A q \in Requests : Deleted(q) => Deleted(q)'
  BY DEF Deleted, Others
<1>17. ASSUME NEW q \in Others(r) PROVE Shape(q)' /\ VerifiedSound(q)' /\ LocksSound(q)'
  <2>1. Shape(q) /\ VerifiedSound(q) /\ LocksSound(q) /\ q \in Requests /\ pc'[q] = pc[q] /\ q # r
    BY <1>2 DEF AttachedInv, Others
  <2>2. Shape(q)'
    BY <2>1 DEF Shape
  <2>3. \A i \in Ids : Stored(i) /\ ~Stored(i)' => Deleted(q)'
    BY <1>2, <1>10, <2>1 DEF Deleted, Others
  <2>4. txn[q].op = "create" /\ pc[q] \in Working => txn[q].parent \in Ids /\ txn[q].parent # r
    BY <1>1, <2>1 DEF Shape, VerifiedSound, Replied
  <2>5. VerifiedSound(q)'
    <3>1. CASE pc[q] \in Working /\ txn[q].op = "create"
      BY <1>2, <1>9, <1>16, <2>1, <2>3, <2>4, <3>1 DEF VerifiedSound, Stored
    <3>2. CASE pc[q] \in Working /\ txn[q].op = "update"
      BY <1>16, <2>1, <2>3, <3>2 DEF VerifiedSound, Shape, Stored
    <3> QED BY <2>1, <3>1, <3>2 DEF VerifiedSound
  <2>6. LocksSound(q)'
    <3>1. \A i \in Ids : \A k : k # r /\ k \in Cascade(i)' => k \in Cascade(i)
      BY <1>9 DEF Cascade
    <3>2. \A p \in Others(q) : Pending(p, "delete")' => Pending(p, "delete") /\ txn[p].id \in Ids
      <4> SUFFICES ASSUME NEW p \in Others(q), Pending(p, "delete")'
                   PROVE  Pending(p, "delete") /\ txn[p].id \in Ids
        OBVIOUS
      <4>1. p \in Requests /\ Shape(p)
        BY DEF Others, AttachedInv
      <4>2. p # r
        BY <1>2 DEF Pending
      <4> QED BY <1>2, <4>1, <4>2 DEF Pending, Shape, Others
    <3>3. r \in Others(q)
      BY <2>1 DEF Others
    <3>4. Pending(q, "create")' /\ txn[q].kind \in Referring =>
            /\ Stored(txn[q].parent)'
            /\ \A p \in Others(q) : Pending(p, "delete")' => txn[q].parent \notin Cascade(txn[p].id)'
      <4> SUFFICES ASSUME Pending(q, "create"), txn[q].kind \in Referring
                   PROVE  /\ Stored(txn[q].parent)'
                          /\ \A p \in Others(q) : Pending(p, "delete")' => txn[q].parent \notin Cascade(txn[p].id)'
        BY <2>1 DEF Pending
      <4>1. txn[q].parent \in Ids /\ txn[q].parent # r
        BY <2>4 DEF Pending, Working
      <4>2. Stored(txn[q].parent)'
        BY <1>4, <1>10, <2>1, <3>3, <4>1 DEF LocksSound, Stored
      <4> QED BY <2>1, <3>1, <3>2, <4>1, <4>2 DEF LocksSound
    <3>5. Pending(q, "update")' =>
            /\ Stored(txn[q].id)'
            /\ \A p \in Others(q) : Pending(p, "delete")' => txn[q].id \notin Cascade(txn[p].id)'
      <4> SUFFICES ASSUME Pending(q, "update")
                   PROVE  /\ Stored(txn[q].id)'
                          /\ \A p \in Others(q) : Pending(p, "delete")' => txn[q].id \notin Cascade(txn[p].id)'
        BY <2>1 DEF Pending
      <4>1. txn[q].id \in Ids /\ txn[q].id # r
        BY <1>3, <2>1 DEF Pending, Shape, LocksSound
      <4>2. Stored(txn[q].id)'
        BY <1>4, <1>10, <2>1, <3>3, <4>1 DEF LocksSound, Stored
      <4> QED BY <2>1, <3>1, <3>2, <4>1, <4>2 DEF LocksSound
    <3> QED BY <2>1, <3>4, <3>5 DEF LocksSound, Stored, Cascade
  <2> QED BY <2>2, <2>5, <2>6
<1>18. Shape(r)' /\ VerifiedSound(r)' /\ LocksSound(r)'
  BY <1>1, <1>2 DEF Shape, VerifiedSound, LocksSound, Pending, Working
<1> QED
  <2>1. \A q \in Requests : Shape(q)' /\ VerifiedSound(q)' /\ LocksSound(q)'
    BY <1>17, <1>18 DEF Others
  <2> QED BY <1>8, <1>13, <1>14, <1>15, <2>1 DEF AttachedInv

-----------------------------------------------------------------------------
(* The specification.                                                        *)

\* How a request begins: one of the four handlers, by BeginInv.
LEMMA ArriveInv ==
  ASSUME AttachmentsConstants, AttachedInv, NEW r \in Requests, Arrive(r)
  PROVE  AttachedInv'
<1> PICK u \in Users :
      \/ \E kind \in Kinds, p \in Ids :
           ListBegin(r, u, kind, p) \/ \E text \in Asked : CreateBegin(r, u, kind, p, text)
      \/ \E kind \in Kinds \cup {"application"}, i \in Ids :
           \/ DeleteBegin(r, u, kind, i)
           \/ ReadBegin(r, u, kind, i)
           \/ \E text \in Asked : UpdateBegin(r, u, kind, i, text)
  BY DEF Arrive
<1>1. r \in Ids
  BY DEF Ids
<1>2. ASSUME NEW kind \in Kinds, NEW p \in Ids, ListBegin(r, u, kind, p) PROVE AttachedInv'
  <2> DEFINE t == [op |-> "list", kind |-> kind, user |-> u, id |-> None, parent |-> p, text |-> "unset"]
  <2>1. t \in Txn /\ t.op = "list"
    BY DEF Txn, Asked
  <2>2. Begin(r, t, MayHold(kind, u, p), {"select"})
    BY <1>2 DEF ListBegin
  <2> HIDE DEF t
  <2> QED BY <2>1, <2>2, BeginInv DEF Asked
<1>3. ASSUME NEW kind \in Kinds, NEW p \in Ids, NEW text \in Asked, CreateBegin(r, u, kind, p, text)
      PROVE  AttachedInv'
  <2> DEFINE t == [op |-> "create", kind |-> kind, user |-> u, id |-> r, parent |-> p, text |-> text]
  <2>1. /\ t \in Txn /\ t.op = "create" /\ t.id = r /\ t.kind = kind /\ t.user = u /\ t.parent = p
         /\ t.text = text
    BY <1>1 DEF Txn
  <2>2. text # "unset" /\ Begin(r, t, MayHold(kind, u, p), {IF text = "unstorable" THEN "Unhandled" ELSE "insert"})
    BY <1>3 DEF CreateBegin
  <2> HIDE DEF t
  <2> QED BY <2>1, <2>2, BeginInv DEF Asked
<1>4. ASSUME NEW kind \in Kinds \cup {"application"}, NEW i \in Ids, DeleteBegin(r, u, kind, i)
      PROVE  AttachedInv'
  <2> DEFINE t == [op |-> "delete", kind |-> kind, user |-> u, id |-> i, parent |-> None, text |-> "unset"]
  <2>1. t \in Txn /\ t.op = "delete" /\ t.id = i /\ t.text = "unset"
    BY DEF Txn, Asked
  <2>2. Begin(r, t, Owns(u, i) /\ rows[i].kind = kind, {"write"})
    BY <1>4 DEF DeleteBegin
  <2> HIDE DEF t
  <2> QED BY <2>1, <2>2, BeginInv DEF Owns
<1>5. ASSUME NEW kind \in Kinds \cup {"application"}, NEW i \in Ids, NEW text \in Asked,
             UpdateBegin(r, u, kind, i, text)
      PROVE  AttachedInv'
  <2> DEFINE t == [op |-> "update", kind |-> kind, user |-> u, id |-> i, parent |-> None, text |-> text]
  <2>1. t \in Txn /\ t.op = "update" /\ t.id = i /\ t.text = text
    BY DEF Txn
  <2>2. Begin(r, t, Owns(u, i) /\ rows[i].kind = kind, Answers(i, text))
    BY <1>5 DEF UpdateBegin
  <2>3. \A label \in Answers(i, text) :
          /\ label \in {"refresh", "write", "ok", "Unhandled"}
          /\ label = "write" => text # "unstorable"
    BY DEF Answers, Response
  <2> HIDE DEF t
  <2> QED BY <2>1, <2>2, <2>3, BeginInv DEF Owns
<1>6. ASSUME NEW kind \in Kinds \cup {"application"}, NEW i \in Ids, ReadBegin(r, u, kind, i)
      PROVE  AttachedInv'
  <2> DEFINE t == [op |-> "read", kind |-> kind, user |-> u, id |-> i, parent |-> None, text |-> "unset"]
  <2>1. t \in Txn /\ t.op = "read" /\ t.id = i
    BY DEF Txn, Asked
  <2>2. Begin(r, t, Owns(u, i) /\ rows[i].kind = kind, {Response(rows[i].text)})
    BY <1>6 DEF ReadBegin
  <2>3. Response(rows[i].text) \in {"ok", "Unhandled"}
    BY DEF Response
  <2> HIDE DEF t
  <2> QED BY <2>1, <2>2, <2>3, BeginInv DEF Owns
<1> QED BY <1>2, <1>3, <1>4, <1>5, <1>6

LEMMA NextInv == ASSUME AttachmentsConstants, AttachedInv, [Next]_vars PROVE AttachedInv'
<1>1. CASE UNCHANGED vars
  BY <1>1 DEF vars, AttachedInv, TypeOK, RowsSound, NoStrayChildren, LateRefusalsSpoilt, Spoilt, Shape,
     VerifiedSound, LocksSound, Deleted, Stored, Owns, Pending, Cascade
<1>2. ASSUME NEW r \in Requests, Commit(r) PROVE AttachedInv'
  <2> DEFINE outcome == IF txn[r].op = "delete" THEN "ok" ELSE Response(rows'[txn[r].id].text)
  <2>1. /\ pc[r] = "commit" /\ rows' = Committed(r) /\ txn' = txn /\ committed' = committed \cup {r}
        /\ pc' = [pc EXCEPT ![r] = outcome]
    BY <1>2 DEF Commit
  <2>2. /\ outcome \in {"ok", "Unhandled"}
        /\ outcome = "ok" => txn[r].op = "delete" \/ rows'[txn[r].id].text # "blank"
        /\ outcome = "Unhandled" => txn[r].op # "delete" /\ rows'[txn[r].id].text = "blank"
    BY DEF Response
  <2> HIDE DEF outcome
  <2> QED BY <2>1, <2>2, CommittedInv
<1>3. ASSUME NEW r \in Requests, Select(r) PROVE AttachedInv'
  BY <1>3, StatementInv DEF Select, Working
<1>4. ASSUME NEW r \in Requests, Refresh(r) PROVE AttachedInv'
  BY <1>4, StatementInv DEF Refresh, Response, Working
<1>5. ASSUME NEW r \in Requests, Fail(r) PROVE AttachedInv'
  <2>1. CASE UNCHANGED <<rows, committed>>
    BY <1>5, <2>1, StatementInv DEF Fail, Goto
  <2>2. CASE pc[r] = "commit" /\ rows' = Committed(r) /\ committed' = committed \cup {r}
    BY <1>5, <2>2, CommittedInv DEF Fail
  <2> QED BY <1>5, <2>1, <2>2 DEF Fail
<1> QED BY <1>1, <1>2, <1>3, <1>4, <1>5, ArriveInv, InsertInv, WriteInv DEF Next, Proceed, Quiet

\* The inductive invariant: what requests have verified and locked is tied to
\* what is stored.
THEOREM AttachedInvariant ==
  ASSUME AttachmentsConstants PROVE Spec => []AttachedInv
<1>1. Init => AttachedInv
  BY InitInv
<1>2. AttachedInv /\ [Next]_vars => AttachedInv'
  BY NextInv
<1> QED
  BY <1>1, <1>2, PTL DEF Spec

\* Every reachable state is well typed.
THEOREM TypeCorrect ==
  ASSUME AttachmentsConstants PROVE Spec => []TypeOK
<1>1. AttachedInv => TypeOK
  BY DEF AttachedInv
<1> QED
  BY <1>1, AttachedInvariant, PTL

\* Interviews and follow-ups die with their application, whatever is created,
\* updated and deleted beside its deletion, and nothing has a foreign parent.
THEOREM ChildrenDieWithParents ==
  ASSUME AttachmentsConstants PROVE Spec => []NoStrayChildren
<1>1. AttachedInv => NoStrayChildren
  BY DEF AttachedInv
<1> QED
  BY <1>1, AttachedInvariant, PTL

\* Whoever is refused after its change was committed has met, or left, an empty
\* text; nobody who was told otherwise has spoilt a row.
THEOREM RefusedLateOnlyWhenSpoilt ==
  ASSUME AttachmentsConstants PROVE Spec => []LateRefusalsSpoilt
<1>1. AttachedInv => LateRefusalsSpoilt
  BY DEF AttachedInv
<1> QED
  BY <1>1, AttachedInvariant, PTL

LEMMA OwnStep ==
  ASSUME AttachedInv, NEW r \in Requests, Next, pc'[r] # pc[r]
  PROVE  Arrive(r) \/ Proceed(r) \/ Fail(r)
<1>1. PICK q \in Requests : Arrive(q) \/ Proceed(q) \/ Fail(q)
  BY DEF Next, Quiet, vars
<1>2. \E label : pc' = [pc EXCEPT ![q] = label]
  <2>1. CASE Arrive(q)
    BY <2>1 DEF Arrive, ListBegin, CreateBegin, UpdateBegin, ReadBegin, DeleteBegin, Begin
  <2>2. CASE Proceed(q) \/ Fail(q)
    BY <2>2 DEF Proceed, Insert, Write, Refresh, Commit, Select, Fail, Goto
  <2> QED BY <1>1, <2>1, <2>2
<1> QED BY <1>1, <1>2 DEF AttachedInv, TypeOK

\* What makes an answer at once undeclared: a value that the table refuses, or an
\* empty text in the row.
ArriveWay(r) ==
  \E t, found, labels :
    /\ Begin(r, t, found, labels)
    /\ \/ t.text = "unstorable"
       \/ labels \subseteq {"insert", "select", "refresh", "write", "ok"}
       \/ found => t.op \in {"read", "update"} /\ Blank(t.id)

LEMMA ArriveWays == ASSUME NEW r \in Requests, Arrive(r) PROVE ArriveWay(r)
<1>1. ASSUME NEW u, NEW kind, NEW p, ListBegin(r, u, kind, p) PROVE ArriveWay(r)
  BY <1>1 DEF ListBegin, ArriveWay
<1>2. ASSUME NEW u, NEW kind, NEW p, NEW text, CreateBegin(r, u, kind, p, text) PROVE ArriveWay(r)
  <2>1. CASE text = "unstorable"
    BY <1>2, <2>1 DEF CreateBegin, ArriveWay
  <2>2. CASE text # "unstorable"
    BY <1>2, <2>2 DEF CreateBegin, ArriveWay
  <2> QED BY <2>1, <2>2
<1>3. ASSUME NEW u, NEW kind, NEW i, DeleteBegin(r, u, kind, i) PROVE ArriveWay(r)
  BY <1>3 DEF DeleteBegin, ArriveWay
<1>4. ASSUME NEW u, NEW kind, NEW i, ReadBegin(r, u, kind, i) PROVE ArriveWay(r)
  <2> DEFINE t == [op |-> "read", kind |-> kind, user |-> u, id |-> i, parent |-> None, text |-> "unset"]
  <2>1. Begin(r, t, Owns(u, i) /\ rows[i].kind = kind, {Response(rows[i].text)})
    BY <1>4 DEF ReadBegin
  <2>2. CASE Response(rows[i].text) = "ok"
    BY <2>1, <2>2 DEF ArriveWay
  <2>3. CASE Response(rows[i].text) # "ok"
    <3>1. Owns(u, i) /\ rows[i].kind = kind => t.op \in {"read", "update"} /\ Blank(t.id)
      BY <2>3 DEF Response, Blank, Owns
    <3> QED BY <2>1, <3>1 DEF ArriveWay
  <2> QED BY <2>2, <2>3
<1>5. ASSUME NEW u, NEW kind, NEW i, NEW text, UpdateBegin(r, u, kind, i, text) PROVE ArriveWay(r)
  <2> DEFINE t == [op |-> "update", kind |-> kind, user |-> u, id |-> i, parent |-> None, text |-> text]
  <2>1. Begin(r, t, Owns(u, i) /\ rows[i].kind = kind, Answers(i, text))
    BY <1>5 DEF UpdateBegin
  <2>2. CASE text = "unstorable"
    BY <2>1, <2>2 DEF ArriveWay
  <2>3. CASE text # "unstorable" /\ rows[i].text = "blank"
    <3>1. Owns(u, i) /\ rows[i].kind = kind => t.op \in {"read", "update"} /\ Blank(t.id)
      BY <2>3 DEF Blank, Owns
    <3> QED BY <2>1, <3>1 DEF ArriveWay
  <2>4. CASE text # "unstorable" /\ rows[i].text # "blank"
    <3>1. Answers(i, text) \subseteq {"insert", "select", "refresh", "write", "ok"}
      BY <2>4 DEF Answers, Response
    <3> QED BY <2>1, <3>1 DEF ArriveWay
  <2> QED BY <2>2, <2>3, <2>4
<1> QED BY <1>1, <1>2, <1>3, <1>4, <1>5 DEF Arrive

\* The endpoints answer what they do not declare for one of the reasons of
\* Explained only.
THEOREM UndeclaredOnlyExplained ==
  ASSUME AttachmentsConstants PROVE Spec => UndeclaredExplained
<1>1. ASSUME AttachedInv, [Next]_vars, NEW r \in Requests,
             pc'[r] \in Exceptions, pc[r] # pc'[r], txn'[r].op # "none"
      PROVE  \/ txn'[r].text \in {"blank", "unstorable"}
             \/ txn'[r].op \in {"read", "update"} /\ Blank(txn'[r].id)
             \/ txn'[r].op = "list" /\ \E i \in Listed(r) : Blank(i)
             \/ txn'[r].op \in {"create", "update"} /\ \E q \in Others(r) \cap committed : txn[q].op = "delete"
  <2>1. /\ Shape(r) /\ VerifiedSound(r) /\ pc \in [Requests -> {"idle"} \cup Working \cup Replied]
        /\ {"insert", "select", "refresh", "write", "commit", "ok", "failed"} \cap Exceptions = {}
    BY <1>1 DEF AttachedInv, TypeOK, Exceptions, StatusOf
  <2>2. Arrive(r) \/ Proceed(r) \/ Fail(r)
    BY <1>1, OwnStep DEF vars
  <2>3. CASE Arrive(r)
    <3>1. PICK t, found, labels :
            /\ Begin(r, t, found, labels)
            /\ \/ t.text = "unstorable"
               \/ labels \subseteq {"insert", "select", "refresh", "write", "ok"}
               \/ found => t.op \in {"read", "update"} /\ Blank(t.id)
      BY <2>3, ArriveWays DEF ArriveWay
    <3>2. PICK label : txn' = [txn EXCEPT ![r] = t] /\ found /\ label \in labels /\ pc'[r] = label
      BY <1>1, <2>1, <3>1 DEF Begin, Shape, NoTxn
    <3>3. txn'[r] = t
      BY <1>1, <3>2 DEF AttachedInv, TypeOK
    <3>4. ~(labels \subseteq {"insert", "select", "refresh", "write", "ok"})
      BY <1>1, <2>1, <3>2
    <3> QED BY <3>1, <3>2, <3>3, <3>4
  <2>4. CASE Insert(r)
    BY <1>1, <2>1, <2>4 DEF Insert, Goto, Shape, VerifiedSound, Deleted, Working
  <2>5. CASE Write(r)
    BY <1>1, <2>1, <2>5 DEF Write, Goto, Shape, VerifiedSound, Deleted, Working
  <2>6. CASE Commit(r)
    <3> DEFINE t == txn[r]
    <3>1. t.op # "delete" /\ Committed(r)[t.id].text = "blank" /\ txn'[r] = t
      BY <1>1, <2>1, <2>6 DEF Commit, Response
    <3>2. t.op \in {"create", "update"} /\ t.id \in Ids /\ (t.op = "create" => t.id = r)
      BY <2>1, <2>6, <3>1 DEF Commit, Shape, Ids
    <3>3. t.op = "update" => Stored(t.id) /\ rows[t.id] \in Row
      BY <1>1, <2>6 DEF Commit, AttachedInv, LocksSound, Pending, TypeOK, Stored, Shape
    <3> QED BY <3>1, <3>2, <3>3 DEF Committed, Blank, Stored, Row
  <2>7. CASE Select(r)
    BY <1>1, <2>1, <2>7 DEF Select, Goto, Shape, Response, Listed, Blank
  <2>8. CASE Refresh(r)
    BY <1>1, <2>1, <2>8 DEF Refresh, Goto, Shape, VerifiedSound, Deleted, Working, Response, Blank
  <2>9. CASE Fail(r)
    BY <1>1, <2>1, <2>9 DEF Fail
  <2> QED BY <2>2, <2>3, <2>4, <2>5, <2>6, <2>7, <2>8, <2>9 DEF Proceed
<1>2. AttachedInv /\ [Next]_vars => [\A r \in Requests : Explained(r)]_vars
  BY <1>1 DEF Explained
<1> QED
  BY <1>2, AttachedInvariant, PTL DEF Spec, UndeclaredExplained
=============================================================================
