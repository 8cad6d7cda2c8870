-------------------------- MODULE UniqueNamesProofs --------------------------
(* Theorems about UniqueNames, for all sets of requests, names, spellings and *)
(* old rows.                                                                  *)
EXTENDS UniqueNames, TLAPS

-----------------------------------------------------------------------------
(* The inductive invariant.                                                  *)

Writes(r) == txn[r].kind \in Updates \cup {"delete_company"}

\* The key that a request wants is one of its scope, normalised where it must be.
KeyFits(r) ==
  LET t == txn[r]
  IN /\ t.key \in Key
     /\ t.key.scope = Accounts => t.key.name # Empty
     /\ t.kind \in Updates => t.key.scope = t.loaded.scope
     /\ t.kind \in {"register", "update_my_profile"} => t.key.scope = Accounts
     /\ t.kind \in {"create_company", "update_company"} => t.key.scope # Accounts
     /\ t.kind = "register" => t.key.spelling = Lower
     /\ t.kind = "update_my_profile" /\ ~Respells(r) => t.key.spelling = Lower

\* Where a request stands determines what it writes, wants and holds.
Shape(r) ==
  LET t == txn[r]
  IN /\ pc[r] \in Working =>
          /\ t.id \in Ids
          /\ t.kind \in Inserts \/ Writes(r)
          /\ t.kind \in Inserts => t.id = r /\ t.loaded = None /\ t.key # None
          /\ t.kind = "delete_company" => t.key = None
          /\ Writes(r) => t.loaded \in Key /\ (t.id \in Requests => pc[t.id] \in Replied)
          /\ t.key # None => KeyFits(r)
          /\ pc[r] \in {"check", "index"} => t.key # None
          /\ pc[r] = "lock" => Writes(r)
          /\ pc[r] = "refresh" => t.kind \in Updates /\ t.key = None
          /\ pc[r] = "check" /\ t.kind = "update_company" => ~Respells(r)
     /\ entry[r] = IF pc[r] = "commit" THEN t.key ELSE None
     /\ locked[r] = IF pc[r] \in {"index", "commit"} /\ Writes(r) THEN t.id ELSE None

\* A row lock belongs to one request, and an updated row does not disappear.
LockSound(r) ==
  locked[r] # None =>
    /\ \A q \in Others(r) : locked[q] # locked[r]
    /\ txn[r].kind \in Updates => Stored(locked[r])

\* Nobody else has, or is about to have, a key that was entered.
EntrySound(r) ==
  entry[r] # None =>
    /\ \A q \in Others(r) : entry[q] # entry[r]
    /\ \A i \in Ids \ {txn[r].id} : Stored(i) => KeyOf(i) # entry[r]

\* Rows stay with their owner.
ScopeKept(r) ==
  pc[r] \in Working /\ Writes(r) /\ Stored(txn[r].id) => KeyOf(txn[r].id).scope = txn[r].loaded.scope

\* The names that a row, or a row that was read, goes back to are answered for.
Answered(B) == \A b \in B \ {None} : pc[b] \in Replied

History ==
  /\ \A r \in Requests : \A q \in txn[r].before : pc[q] \in Replied
  /\ \A r \in Requests : Answered(txn[r].by)
  /\ \A i \in Ids : Stored(i) => Answered(rows[i].by) /\ (i \in Requests => pc[i] \in Replied)

\* A request about to name a company: another company has the name already only
\* if it got it after the request began, or if the name is not new.
NamePending(r) ==
  /\ pc[r] \in {"lock", "index", "commit"}
  /\ txn[r].kind \in {"create_company", "update_company"} /\ txn[r].key # None
  => \A i \in Ids \ {txn[r].id} :
       Stored(i) /\ KeyOf(i).scope = txn[r].key.scope /\ KeyOf(i).name = txn[r].key.name =>
         \/ \E b \in rows[i].by \ {None} : b \notin txn[r].before
         \/ Respells(r) /\ Excused(txn[r].by, rows[i].by)

Alone(r) == \A q \in Others(r) : pc[q] = "idle" \/ q \in txn[r].before

\* What a request has read is current as long as it has been alone.
AloneSound(r) ==
  pc[r] \in Working /\ Alone(r) =>
    /\ Writes(r) => Stored(txn[r].id) /\ KeyOf(txn[r].id) = txn[r].loaded
    /\ pc[r] \in {"lock", "index"} /\ txn[r].key # None => Hits(r) = {} \/ Respells(r)

\* An address is not empty, and it is stored in another spelling than the lower
\* case only as typed.
TypedRows ==
  \A i \in Ids : Stored(i) /\ KeyOf(i).scope = Accounts =>
    (rows[i].typed <=> KeyOf(i).spelling # Lower) /\ KeyOf(i).name # Empty

OwnInv(r) ==
  /\ Shape(r) /\ LockSound(r) /\ EntrySound(r) /\ ScopeKept(r)
  /\ NamePending(r) /\ AloneSound(r)

NamesInv ==
  /\ TypeOK /\ History /\ KeysUnique /\ TypedRows /\ TwinsOverlap
  /\ \A r \in Requests : OwnInv(r)

-----------------------------------------------------------------------------

LEMMA InitInv == Init => NamesInv
<1> SUFFICES ASSUME Init PROVE NamesInv
  OBVIOUS
<1> PICK S \in OldTables : rows = [i \in Ids |-> IF i \in S THEN i ELSE None]
  BY DEF Init
<1>1. \A i \in Ids : Stored(i) => i \in S /\ i \in UNION OldTables /\ rows[i] = i
  BY DEF Stored
<1>2. \A i \in S : /\ i \in Row /\ i.by = {None} /\ i.key.name # Empty
                   /\ i.typed <=> i.key.scope = Accounts /\ i.key.spelling # Lower
  BY NamesAssumption
<1>3. \A r \in Requests : pc[r] = "idle" /\ txn[r] = NoTxn /\ locked[r] = None /\ entry[r] = None
  BY DEF Init
<1>4. TypeOK
  <2>1. rows \in [Ids -> Row \cup {None}]
    BY <1>2
  <2>2. NoTxn \in Txn
    BY DEF NoTxn, Txn, Kinds, Rests
  <2> QED BY <2>1, <2>2 DEF TypeOK, Init
<1>5. History
  BY <1>1, <1>2, <1>3, NamesAssumption DEF History, Answered, NoTxn
<1>6. KeysUnique
  BY <1>1, NamesAssumption DEF KeysUnique, KeyOf
<1>7. TypedRows
  BY <1>1, <1>2 DEF TypedRows, KeyOf
<1>8. TwinsOverlap
  <2> SUFFICES ASSUME NEW i \in Ids, NEW j \in Ids, Stored(i), Stored(j)
               PROVE  None \in rows[i].by \cap rows[j].by
    BY DEF TwinsOverlap, Twins, Excused
  <2> QED BY <1>1, <1>2
<1>9. \A r \in Requests : OwnInv(r)
  BY <1>3 DEF OwnInv, Shape, LockSound, EntrySound, ScopeKept, NamePending, AloneSound, Working
<1> QED BY <1>4, <1>5, <1>6, <1>7, <1>8, <1>9 DEF NamesInv

-----------------------------------------------------------------------------
(* Steps that leave the table alone.                                         *)

\* What such a step of r has to show: its own part.
LEMMA LocalStep ==
  ASSUME NamesInv, NEW r \in Requests, TypeOK', rows' = rows,
         pc[r] \notin Replied, pc'[r] # "idle",
         \A q \in Others(r) : /\ pc'[q] = pc[q] /\ txn'[q] = txn[q]
                              /\ locked'[q] = locked[q] /\ entry'[q] = entry[q],
         \A q \in txn'[r].before : pc[q] \in Replied,
         Answered(txn'[r].by),
         locked'[r] # None => \A q \in Others(r) : locked[q] # locked'[r],
         entry'[r] # None => \A q \in Others(r) : entry[q] # entry'[r],
         OwnInv(r)'
  PROVE  NamesInv'
<1> USE DEF NamesInv
<1>1. \A q \in Requests : pc[q] \in Replied => pc'[q] = pc[q] /\ txn'[q] = txn[q] /\ q # r
  BY DEF Others
<1>2. \A B \in SUBSET (Requests \cup {None}) : Answered(B) => Answered(B)'
  BY <1>1 DEF Answered, Replied
<1>3. \A i \in Ids : /\ Stored(i)' <=> Stored(i)
                     /\ KeyOf(i)' = KeyOf(i)
                     /\ rows'[i] = rows[i]
  BY DEF Stored, KeyOf
<1>4. ASSUME NEW B \in SUBSET (Requests \cup {None}), NEW C \in SUBSET (Requests \cup {None}),
             Answered(B), Answered(C), Excused(B, C)
      PROVE  Excused(B, C)'
  BY <1>1, <1>4 DEF Excused, Overlap, Answered, Replied
<1>5. \A q \in Requests : txn[q].by \in SUBSET (Requests \cup {None}) /\ txn'[q].by \in SUBSET (Requests \cup {None})
  BY DEF TypeOK, Txn
<1>6. \A i \in Ids : Stored(i) => rows[i] \in Row /\ rows[i].by \in SUBSET (Requests \cup {None})
  BY DEF TypeOK, Row, Stored
<1>7. History'
  <2>1. \A q \in Requests : \A p \in txn'[q].before : pc'[p] \in Replied
    BY <1>1 DEF History, Others, TypeOK, Txn
  <2>2. \A q \in Requests : Answered(txn[q].by)
    BY DEF History
  <2>3. \A q \in Requests : Answered(txn'[q].by)
    BY <2>2 DEF Others
  <2>4. \A q \in Requests : Answered(txn[q].by)'
    BY <2>3, <1>1, <1>5 DEF Answered, Replied
  <2>5. \A i \in Ids : Stored(i) => Answered(rows[i].by)' /\ (i \in Requests => pc'[i] \in Replied)
    BY <1>1, <1>2, <1>6 DEF History
  <2> QED BY <2>1, <2>4, <2>5, <1>3 DEF History
<1>8. KeysUnique' /\ TypedRows'
  BY <1>3 DEF KeysUnique, TypedRows
<1>9. TwinsOverlap'
  <2> SUFFICES ASSUME NEW i \in Ids, NEW j \in Ids, Twins(i, j)', (KeyOf(i).scope # Accounts)'
               PROVE  Excused(rows[i].by, rows[j].by)'
    BY DEF TwinsOverlap
  <2>1. Twins(i, j) /\ KeyOf(i).scope # Accounts
    BY <1>3 DEF Twins
  <2>2. Excused(rows[i].by, rows[j].by)
    BY <2>1 DEF TwinsOverlap
  <2>3. Answered(rows[i].by) /\ Answered(rows[j].by)
    BY <2>1 DEF Twins, History
  <2> QED
    BY <2>1, <2>2, <2>3, <1>4, <1>6 DEF Twins
<1>10. ASSUME NEW q \in Others(r) PROVE OwnInv(q)'
  <2> q \in Requests /\ q # r
    BY DEF Others
  <2>1. /\ OwnInv(q)
        /\ pc'[q] = pc[q] /\ txn'[q] = txn[q] /\ locked'[q] = locked[q] /\ entry'[q] = entry[q]
        /\ Respells(q)' <=> Respells(q)
        /\ Writes(q)' <=> Writes(q)
    BY DEF Respells, Writes
  <2>2. Shape(q)'
    <3>1. \A i \in Requests : pc[i] \in Replied => pc'[i] \in Replied
      BY <1>1
    <3> QED BY <2>1, <3>1 DEF OwnInv, Shape, KeyFits
  <2>3. LockSound(q)'
    BY <2>1, <1>3 DEF OwnInv, LockSound, Others, TypeOK, Stored
  <2>4. EntrySound(q)'
    BY <2>1, <1>3 DEF OwnInv, EntrySound, Others
  <2>5. ScopeKept(q)'
    BY <2>1 DEF OwnInv, ScopeKept, Stored, KeyOf
  <2>6. NamePending(q)'
    <3> SUFFICES ASSUME pc[q] \in {"lock", "index", "commit"},
                        txn[q].kind \in {"create_company", "update_company"}, txn[q].key # None,
                        NEW i \in Ids \ {txn[q].id},
                        Stored(i), KeyOf(i).scope = txn[q].key.scope, KeyOf(i).name = txn[q].key.name
                 PROVE  \/ \E b \in rows[i].by \ {None} : b \notin txn[q].before
                        \/ Respells(q) /\ Excused(txn[q].by, rows[i].by)'
      BY <2>1, <1>3 DEF NamePending
    <3>1. \/ \E b \in rows[i].by \ {None} : b \notin txn[q].before
          \/ Respells(q) /\ Excused(txn[q].by, rows[i].by)
      BY <2>1 DEF OwnInv, NamePending
    <3>2. Excused(txn[q].by, rows[i].by) => Excused(txn[q].by, rows[i].by)'
      BY <1>4, <1>5, <1>6 DEF History
    <3> QED BY <3>1, <3>2
  <2>7. ~Alone(q)'
    BY <2>1, r \in Others(q) DEF Alone, History, Others
  <2> QED BY <2>2, <2>3, <2>4, <2>5, <2>6, <2>7 DEF OwnInv, AloneSound
<1> QED
  <2>1. \A q \in Requests : OwnInv(q)'
    BY <1>10 DEF Others
  <2> QED BY <1>7, <1>8, <1>9, <2>1

\* A transaction that ends without writing gives up what it held.
LEMMA RollbackInv ==
  ASSUME NamesInv, NEW r \in Requests, pc[r] \in Working,
         NEW outcome \in Replied, Rollback(r, outcome)
  PROVE  NamesInv'
<1> USE DEF NamesInv
<1>1. /\ rows' = rows /\ txn' = txn
      /\ pc' = [pc EXCEPT ![r] = outcome]
      /\ locked' = [locked EXCEPT ![r] = None]
      /\ entry' = [entry EXCEPT ![r] = None]
  BY DEF Rollback, End, Goto
<1>2. pc'[r] = outcome /\ locked'[r] = None /\ entry'[r] = None
  BY <1>1 DEF TypeOK
<1>3. TypeOK'
  BY <1>1 DEF TypeOK
<1>4. \A q \in Others(r) : /\ pc'[q] = pc[q] /\ txn'[q] = txn[q]
                           /\ locked'[q] = locked[q] /\ entry'[q] = entry[q]
  BY <1>1 DEF Others, TypeOK
<1>5. pc[r] \notin Replied /\ pc'[r] # "idle" /\ pc'[r] \notin Working
  BY <1>2 DEF Working, Replied
<1>6. \A q \in txn'[r].before : pc[q] \in Replied
  BY <1>1 DEF History
<1>7. Answered(txn'[r].by)
  BY <1>1 DEF History
<1>8. OwnInv(r)'
  BY <1>2, <1>5 DEF OwnInv, Shape, LockSound, EntrySound, ScopeKept, NamePending, AloneSound, Working
<1> QED BY <1>1, <1>2, <1>3, <1>4, <1>5, <1>6, <1>7, <1>8, LocalStep

\* The first statement: what a request needs to show of its parameters.
LEMMA BeginInv ==
  ASSUME NamesInv, NEW r \in Requests, NEW t \in Txn,
         NEW label \in Working \cup Replied, Begin(r, t, label),
         Answered(t.by),
         OwnInv(r)'
  PROVE  NamesInv'
<1> USE DEF NamesInv
<1> DEFINE t1 == [t EXCEPT !.before = { q \in Requests : pc[q] \in Replied }]
<1>1. /\ rows' = rows /\ locked' = locked /\ entry' = entry
      /\ pc' = [pc EXCEPT ![r] = label]
      /\ txn' = [txn EXCEPT ![r] = t1]
      /\ pc[r] = "idle"
  BY DEF Begin
<1>2. t1 \in Txn /\ t1.by = t.by /\ t1.before = { q \in Requests : pc[q] \in Replied }
  BY DEF Txn
<1>3. pc'[r] = label /\ txn'[r] = t1
  BY <1>1 DEF TypeOK
<1>4. TypeOK'
  BY <1>1, <1>2 DEF TypeOK
<1>5. \A q \in Others(r) : /\ pc'[q] = pc[q] /\ txn'[q] = txn[q]
                           /\ locked'[q] = locked[q] /\ entry'[q] = entry[q]
  BY <1>1 DEF Others, TypeOK
<1>6. pc[r] \notin Replied /\ pc'[r] # "idle"
  BY <1>1, <1>3 DEF Working, Replied
<1>7. \A q \in txn'[r].before : pc[q] \in Replied
  BY <1>2, <1>3
<1>8. Answered(txn'[r].by)
  BY <1>2, <1>3
<1>9. locked'[r] = None /\ entry'[r] = None
  BY <1>1 DEF OwnInv, Shape
<1> QED BY <1>1, <1>4, <1>5, <1>6, <1>7, <1>8, <1>9, LocalStep

\* A request that is answered by its first statement.
LEMMA BeginRepliedInv ==
  ASSUME NamesInv, NEW r \in Requests, NEW t \in Txn, NEW label \in Replied, Begin(r, t, label),
         Answered(t.by)
  PROVE  NamesInv'
<1>1. pc'[r] = label /\ locked'[r] = None /\ entry'[r] = None
  <2>1. pc[r] = "idle" /\ locked[r] = None /\ entry[r] = None
    BY DEF Begin, NamesInv, OwnInv, Shape
  <2> QED BY <2>1 DEF Begin, NamesInv, TypeOK
<1>2. pc'[r] \notin Working
  BY <1>1 DEF Working, Replied
<1>3. OwnInv(r)'
  BY <1>1, <1>2 DEF OwnInv, Shape, LockSound, EntrySound, ScopeKept, NamePending, AloneSound, Working
<1> QED BY <1>3, BeginInv

\* A request that goes on has parameters that fit the row it has read.
LEMMA BeginWorkingInv ==
  ASSUME NamesInv, NEW r \in Requests, NEW t \in Txn, NEW label \in {"check", "lock", "refresh"},
         Begin(r, t, label), Answered(t.by),
         t.id \in Ids,
         t.kind \in Inserts \cup Updates \cup {"delete_company"},
         t.kind \in Inserts => label = "check" /\ t.id = r /\ t.loaded = None,
         t.kind \notin Inserts => Stored(t.id) /\ t.loaded = KeyOf(t.id),
         t.kind \in Updates => t.by = rows[t.id].by,
         t.kind = "delete_company" => label = "lock" /\ t.key = None,
         label = "check" => t.key # None,
         label = "refresh" => t.kind \in Updates /\ t.key = None,
         t.key # None =>
           /\ t.key \in Key
           /\ t.key.scope = Accounts => t.key.name # Empty
           /\ t.kind \in Updates => t.key.scope = t.loaded.scope
           /\ t.kind \in {"register", "update_my_profile"} => t.key.scope = Accounts
           /\ t.kind \in {"create_company", "update_company"} => t.key.scope # Accounts
           /\ t.kind = "register" => t.key.spelling = Lower
           /\ t.kind = "update_my_profile" /\ t.loaded.name # t.key.name => t.key.spelling = Lower
           /\ t.kind = "update_company" => (label = "check" <=> t.loaded.name # t.key.name)
           /\ t.kind = "update_my_profile" /\ label = "lock" => t.loaded.name = t.key.name
  PROVE  NamesInv'
<1> USE DEF NamesInv
<1>1. pc[r] = "idle" /\ locked[r] = None /\ entry[r] = None
  BY DEF Begin, OwnInv, Shape
<1>2. pc'[r] = label /\ locked'[r] = None /\ entry'[r] = None /\ rows' = rows
  BY <1>1 DEF Begin, TypeOK
<1>3. \A q \in Requests : pc[q] \in Replied => pc'[q] \in Replied
  BY <1>1 DEF Begin, TypeOK, Replied
<1>4. /\ txn'[r].kind = t.kind /\ txn'[r].id = t.id /\ txn'[r].loaded = t.loaded
      /\ txn'[r].key = t.key /\ txn'[r].by = t.by
  BY DEF Begin, TypeOK, Txn
<1>5. t.kind \notin Inserts => t.loaded \in Key /\ (t.id \in Requests => pc[t.id] \in Replied)
  BY DEF TypeOK, Stored, KeyOf, Row, History
<1>6. t.kind \in Updates => (Respells(r)' <=> t.loaded.name = t.key.name)
  <2>1. t.kind \in Updates => t.loaded # None
    BY <1>5, NamesAssumption DEF Updates, Inserts
  <2> QED BY <2>1, <1>4 DEF Respells
<1>7. Writes(r)' <=> t.kind \notin Inserts
  BY <1>4 DEF Writes, Inserts, Updates
<1>8. Shape(r)'
  <2>1. pc'[r] \in {"check", "lock", "refresh"}
    BY <1>2
  <2>2. t.kind \in Inserts \/ Writes(r)'
    BY <1>7
  <2>3. Writes(r)' => txn'[r].loaded \in Key /\ (txn'[r].id \in Requests => pc'[txn'[r].id] \in Replied)
    BY <1>3, <1>4, <1>5, <1>7
  <2>4. t.key # None => KeyFits(r)'
    BY <1>4, <1>6 DEF KeyFits, Updates
  <2> QED BY <1>2, <1>4, <1>6, <2>1, <2>2, <2>3, <2>4 DEF Shape, Updates, Inserts
<1>9. LockSound(r)' /\ EntrySound(r)'
  BY <1>2 DEF LockSound, EntrySound
<1>10. ScopeKept(r)'
  BY <1>2, <1>4, <1>7 DEF ScopeKept, Stored, KeyOf
<1>11. NamePending(r)'
  <2> SUFFICES ASSUME label = "lock", t.kind \in {"create_company", "update_company"}, t.key # None,
                      NEW i \in Ids \ {t.id},
                      Stored(i), KeyOf(i).scope = t.key.scope, KeyOf(i).name = t.key.name
               PROVE  Respells(r)' /\ Excused(txn[r].by, rows[i].by)'
    BY <1>2, <1>4 DEF NamePending, Stored, KeyOf
  <2>1. t.kind = "update_company" /\ t.kind \in Updates /\ t.kind \notin Inserts
    BY DEF Inserts, Updates
  <2>2. Twins(t.id, i) /\ KeyOf(t.id).scope # Accounts
    BY <2>1 DEF Twins
  <2>3. Excused(t.by, rows[i].by)
    BY <2>1, <2>2 DEF TwinsOverlap
  <2>4. Answered(t.by) /\ Answered(rows[i].by)
    BY DEF History
  <2>5. \A b \in Requests : pc[b] \in Replied => txn'[b] = txn[b]
    BY <1>1 DEF Begin, TypeOK, Replied
  <2>6. t.by \subseteq Requests \cup {None} /\ rows[i].by \subseteq Requests \cup {None}
    BY DEF Txn, TypeOK, Stored, Row
  <2>7. Excused(txn[r].by, rows[i].by)'
    BY <2>3, <2>4, <2>5, <2>6, <1>2, <1>4 DEF Excused, Overlap, Answered
  <2> QED BY <2>1, <2>7, <1>6
<1>12. AloneSound(r)'
  <2>1. Writes(r)' => Stored(txn[r].id)' /\ KeyOf(txn[r].id)' = txn'[r].loaded
    BY <1>2, <1>4, <1>7 DEF Stored, KeyOf
  <2>2. label = "lock" /\ t.key # None => Respells(r)'
    BY <1>6 DEF Inserts, Updates
  <2> QED BY <2>1, <2>2, <1>2, <1>4 DEF AloneSound
<1>13. OwnInv(r)'
  BY <1>8, <1>9, <1>10, <1>11, <1>12 DEF OwnInv
<1> QED BY <1>13, BeginInv DEF Working

-----------------------------------------------------------------------------
(* The handlers' first statements.                                           *)

LEMMA CleanKey ==
  ASSUME NEW n \in Names, NEW s \in Spellings
  PROVE  Clean(n, s) \in Key /\ Clean(n, s).scope = Accounts /\ Clean(n, s).name = n
         /\ Clean(n, s).spelling = Lower
  BY NamesAssumption DEF Clean, Key, Scopes

LEMMA StoredRow ==
  ASSUME TypeOK, NEW i \in Ids, Stored(i)
  PROVE  rows[i] \in Row /\ KeyOf(i) \in Key /\ rows[i].by \in SUBSET (Requests \cup {None})
  BY DEF TypeOK, Stored, KeyOf, Row

LEMMA AnsweredNone == Answered({})
  BY DEF Answered

\* A PATCH of the row i that leaves the key as it is.
LEMMA KeepKeyInv ==
  ASSUME NamesInv, NEW r \in Requests, NEW i \in Ids, Stored(i), NEW t \in Txn,
         t.kind \in Updates, t.id = i, t.loaded = KeyOf(i), t.key = None, t.by = rows[i].by,
         KeepKey(r, t, i)
  PROVE  NamesInv'
<1>1. Answered(t.by)
  BY DEF NamesInv, History
<1>2. PICK label \in {"lock", "refresh", "ok", "Unhandled"} : Begin(r, t, label)
  BY DEF KeepKey, Response
<1>3. CASE label \in {"ok", "Unhandled"}
  BY <1>1, <1>2, <1>3, BeginRepliedInv DEF Replied
<1>4. CASE label \in {"lock", "refresh"}
  BY <1>1, <1>2, <1>4, BeginWorkingInv DEF Inserts, Updates
<1> QED BY <1>2, <1>3, <1>4

\* One that changes the key to another of the same scope.
LEMMA ChangeKeyInv ==
  ASSUME NamesInv, NEW r \in Requests, NEW i \in Ids, Stored(i), NEW t \in Txn,
         t.kind \in Updates, t.id = i, t.loaded = KeyOf(i), t.by = rows[i].by,
         NEW key \in Key, NEW checked \in BOOLEAN, ChangeKey(r, t, key, checked),
         key.scope = KeyOf(i).scope,
         key.scope = Accounts => key.name # Empty,
         key.scope = Accounts <=> t.kind = "update_my_profile",
         t.kind = "update_my_profile" /\ checked => key.spelling = Lower,
         t.kind = "update_my_profile" /\ ~checked => key.name = KeyOf(i).name,
         t.kind = "update_company" => (checked <=> key.name # KeyOf(i).name)
  PROVE  NamesInv'
<1> DEFINE t1 == [t EXCEPT !.key = key]
<1>1. /\ t1 \in Txn /\ t1.kind = t.kind /\ t1.id = i /\ t1.loaded = KeyOf(i) /\ t1.by = t.by
      /\ t1.key = key /\ key # None
  BY NamesAssumption DEF Txn
<1>2. Answered(t1.by)
  BY <1>1 DEF NamesInv, History
<1>3. \/ checked /\ Begin(r, t1, "check")
      \/ Begin(r, t1, "Unhandled")
      \/ ~checked /\ Begin(r, t1, "lock")
  BY DEF ChangeKey
<1> HIDE DEF t1
<1>4. t1.kind \in Updates /\ t1.kind \notin Inserts /\ t1.kind # "delete_company" /\ t1.kind # "register"
      /\ t1.kind # "create_company"
  BY <1>1 DEF Updates, Inserts
<1>5. CASE checked /\ Begin(r, t1, "check")
  BY <1>1, <1>2, <1>4, <1>5, BeginWorkingInv DEF Updates
<1>6. CASE Begin(r, t1, "Unhandled")
  BY <1>1, <1>2, <1>6, BeginRepliedInv DEF Replied
<1>7. CASE ~checked /\ Begin(r, t1, "lock")
  BY <1>1, <1>2, <1>4, <1>7, BeginWorkingInv DEF Updates
<1> QED BY <1>3, <1>5, <1>6, <1>7

LEMMA RegisterInv ==
  ASSUME NamesInv, NEW r \in Requests, NEW n \in Names, NEW s \in Spellings, NEW rest \in Rests,
         Register(r, n, s, rest)
  PROVE  NamesInv'
<1> DEFINE t == [NoTxn EXCEPT !.kind = "register", !.rest = rest, !.id = r, !.key = Clean(n, s)]
<1>1. t \in Txn
  BY CleanKey DEF NoTxn, Txn, Kinds, Inserts, Ids
<1>2. /\ t.id = r /\ t.kind = "register" /\ t.loaded = None /\ t.key = Clean(n, s) /\ t.by = {}
      /\ r \in Ids
  BY DEF NoTxn, Ids
<1>3. n # Empty /\ Begin(r, t, "check")
  BY DEF Register
<1> HIDE DEF t
<1>4. /\ t.key \in Key /\ t.key.scope = Accounts /\ t.key.spelling = Lower /\ t.key.name # Empty
      /\ t.key # None
  BY <1>2, <1>3, CleanKey, NamesAssumption
<1>5. t.kind \in Inserts /\ t.kind \notin Updates
  BY <1>2 DEF Inserts, Updates
<1> QED BY <1>1, <1>2, <1>3, <1>4, <1>5, AnsweredNone, BeginWorkingInv

LEMMA LoginInv ==
  ASSUME NamesInv, NEW r \in Requests, NEW n \in Names, NEW s \in Spellings, Login(r, n, s)
  PROVE  NamesInv'
<1> DEFINE t == [NoTxn EXCEPT !.kind = "login", !.key = Clean(n, s)]
<1>1. t \in Txn /\ t.by = {}
  BY CleanKey DEF NoTxn, Txn, Kinds, Rests
<1>2. PICK label \in Replied : Begin(r, t, label)
  BY DEF Login, Replied
<1> QED BY <1>1, <1>2, AnsweredNone, BeginRepliedInv

LEMMA UpdateProfileInv ==
  ASSUME NamesInv, NEW r \in Requests, NEW i \in Ids, NEW rest \in Rests, UpdateProfile(r, i, rest)
  PROVE  NamesInv'
<1> DEFINE t == [NoTxn EXCEPT !.kind = "update_my_profile", !.rest = rest, !.id = i,
                              !.loaded = KeyOf(i), !.by = rows[i].by]
           respelled(n) == Clean(n, Lower) = KeyOf(i)
           key(n, s) == IF respelled(n) THEN [KeyOf(i) EXCEPT !.spelling = s] ELSE Clean(n, s)
<1>1. Stored(i) /\ KeyOf(i).scope = Accounts
  BY DEF UpdateProfile
<1>2. rows[i] \in Row /\ KeyOf(i) \in Key /\ rows[i].by \in SUBSET (Requests \cup {None})
  BY <1>1, StoredRow DEF NamesInv
<1>3. /\ t \in Txn /\ t.kind = "update_my_profile" /\ t.id = i /\ t.loaded = KeyOf(i)
      /\ t.key = None /\ t.by = rows[i].by
  BY <1>2 DEF NoTxn, Txn, Kinds, Updates
<1>4. \/ KeepKey(r, t, i)
      \/ \E n \in Names \ {Empty}, s \in Spellings : ChangeKey(r, t, key(n, s), ~respelled(n))
  BY DEF UpdateProfile
<1> HIDE DEF t
<1>5. CASE KeepKey(r, t, i)
  BY <1>1, <1>3, <1>5, KeepKeyInv DEF Updates
<1>6. ASSUME NEW n \in Names \ {Empty}, NEW s \in Spellings, ChangeKey(r, t, key(n, s), ~respelled(n))
      PROVE  NamesInv'
  <2>1. respelled(n) => KeyOf(i).name = n
    BY CleanKey, NamesAssumption
  <2>2. /\ key(n, s) \in Key /\ key(n, s).scope = Accounts /\ key(n, s).name = n
        /\ ~respelled(n) => key(n, s).spelling = Lower
    BY <1>1, <1>2, <2>1, CleanKey DEF Key
  <2>3. PICK checked \in BOOLEAN : checked = ~respelled(n)
    OBVIOUS
  <2>4. PICK k \in Key : k = key(n, s)
    BY <2>2
  <2>5. ChangeKey(r, t, k, checked)
    BY <1>6, <2>3, <2>4
  <2> HIDE DEF key, respelled
  <2> QED BY <1>1, <1>3, <2>1, <2>2, <2>3, <2>4, <2>5, ChangeKeyInv DEF Updates
<1> QED BY <1>4, <1>5, <1>6

LEMMA CreateCompanyInv ==
  ASSUME NamesInv, NEW r \in Requests, NEW u \in Tenants, NEW n \in Names, NEW s \in Spellings,
         NEW rest \in Rests, CreateCompany(r, u, n, s, rest)
  PROVE  NamesInv'
<1> DEFINE key == [scope |-> u, name |-> n, spelling |-> s]
           t == [NoTxn EXCEPT !.kind = "create_company", !.rest = rest, !.id = r, !.key = key]
<1>1. key \in Key /\ key.scope # Accounts /\ key # None
  BY NamesAssumption DEF Key, Scopes
<1>2. /\ t \in Txn /\ t.id = r /\ t.kind = "create_company" /\ t.loaded = None /\ t.key = key
      /\ t.by = {} /\ r \in Ids
  BY <1>1 DEF NoTxn, Txn, Kinds, Inserts, Ids
<1>3. Begin(r, t, "check")
  BY DEF CreateCompany
<1> HIDE DEF t
<1> QED BY <1>1, <1>2, <1>3, AnsweredNone, BeginWorkingInv DEF Inserts, Updates

LEMMA OwnedCompany ==
  ASSUME NamesInv, NEW u \in Tenants, NEW i \in Ids, OwnsCompany(u, i)
  PROVE  /\ Stored(i) /\ KeyOf(i).scope = u /\ u # Accounts
         /\ rows[i] \in Row /\ KeyOf(i) \in Key /\ rows[i].by \in SUBSET (Requests \cup {None})
<1>1. Stored(i) /\ KeyOf(i).scope = u /\ u # Accounts
  BY NamesAssumption DEF OwnsCompany
<1> QED BY <1>1, StoredRow DEF NamesInv

LEMMA GetCompanyInv ==
  ASSUME NamesInv, NEW r \in Requests, NEW u \in Tenants, NEW i \in Ids, GetCompany(r, u, i)
  PROVE  NamesInv'
<1> DEFINE t0 == [NoTxn EXCEPT !.kind = "get_company", !.id = i]
           t == [t0 EXCEPT !.loaded = KeyOf(i)]
<1>1. t0 \in Txn /\ t0.by = {}
  BY DEF NoTxn, Txn, Kinds, Rests
<1>2. CASE ~OwnsCompany(u, i)
  <2>1. Begin(r, t0, "EntityNotFound")
    BY <1>2 DEF GetCompany
  <2> QED BY <2>1, <1>1, AnsweredNone, BeginRepliedInv DEF Replied
<1>3. CASE OwnsCompany(u, i)
  <2>1. t \in Txn /\ t.by = {}
    BY <1>3, OwnedCompany DEF NoTxn, Txn, Kinds, Rests
  <2>2. PICK label \in {"ok", "Unhandled"} : Begin(r, t, label)
    BY <1>3 DEF GetCompany, Response
  <2> QED BY <2>1, <2>2, AnsweredNone, BeginRepliedInv DEF Replied
<1> QED BY <1>2, <1>3

LEMMA UpdateCompanyInv ==
  ASSUME NamesInv, NEW r \in Requests, NEW u \in Tenants, NEW i \in Ids, NEW rest \in Rests,
         UpdateCompany(r, u, i, rest)
  PROVE  NamesInv'
<1> DEFINE t0 == [NoTxn EXCEPT !.kind = "update_company", !.rest = rest, !.id = i]
           t == [t0 EXCEPT !.loaded = KeyOf(i), !.by = rows[i].by]
           key(n, s) == [scope |-> u, name |-> n, spelling |-> s]
<1>1. t0 \in Txn /\ t0.by = {}
  BY DEF NoTxn, Txn, Kinds, Updates
<1>2. CASE ~OwnsCompany(u, i)
  <2>1. Begin(r, t0, "EntityNotFound")
    BY <1>2 DEF UpdateCompany
  <2> QED BY <2>1, <1>1, AnsweredNone, BeginRepliedInv DEF Replied
<1>3. CASE OwnsCompany(u, i)
  <2>1. /\ Stored(i) /\ KeyOf(i).scope = u /\ u # Accounts
        /\ KeyOf(i) \in Key /\ rows[i].by \in SUBSET (Requests \cup {None})
    BY <1>3, OwnedCompany
  <2>2. /\ t \in Txn /\ t.kind = "update_company" /\ t.id = i /\ t.loaded = KeyOf(i)
        /\ t.key = None /\ t.by = rows[i].by
    BY <2>1 DEF NoTxn, Txn, Kinds, Updates
  <2>3. \/ KeepKey(r, t, i)
        \/ \E n \in Names, s \in Spellings : ChangeKey(r, t, key(n, s), n # KeyOf(i).name)
    BY <1>3 DEF UpdateCompany
  <2> HIDE DEF t
  <2>4. CASE KeepKey(r, t, i)
    BY <2>1, <2>2, <2>4, KeepKeyInv DEF Updates
  <2>5. ASSUME NEW n \in Names, NEW s \in Spellings, ChangeKey(r, t, key(n, s), n # KeyOf(i).name)
        PROVE  NamesInv'
    <3>1. key(n, s) \in Key /\ key(n, s).scope = u /\ key(n, s).name = n
      BY DEF Key, Scopes
    <3>2. (n # KeyOf(i).name) \in BOOLEAN
      OBVIOUS
    <3> HIDE DEF key
    <3> QED BY <2>1, <2>2, <2>5, <3>1, <3>2, ChangeKeyInv DEF Updates
  <2> QED BY <2>3, <2>4, <2>5
<1> QED BY <1>2, <1>3

LEMMA DeleteCompanyInv ==
  ASSUME NamesInv, NEW r \in Requests, NEW u \in Tenants, NEW i \in Ids, DeleteCompany(r, u, i)
  PROVE  NamesInv'
<1> DEFINE t0 == [NoTxn EXCEPT !.kind = "delete_company", !.id = i]
           t == [t0 EXCEPT !.loaded = KeyOf(i)]
<1>1. t0 \in Txn /\ t0.by = {}
  BY DEF NoTxn, Txn, Kinds, Rests
<1>2. CASE ~OwnsCompany(u, i)
  <2>1. Begin(r, t0, "EntityNotFound")
    BY <1>2 DEF DeleteCompany
  <2> QED BY <2>1, <1>1, AnsweredNone, BeginRepliedInv DEF Replied
<1>3. CASE OwnsCompany(u, i)
  <2>1. Stored(i) /\ KeyOf(i) \in Key
    BY <1>3, OwnedCompany
  <2>2. /\ t \in Txn /\ t.kind = "delete_company" /\ t.id = i /\ t.loaded = KeyOf(i) /\ t.by = {}
        /\ t.key = None
    BY <2>1 DEF NoTxn, Txn, Kinds, Rests
  <2>3. Begin(r, t, "lock")
    BY <1>3 DEF DeleteCompany
  <2> QED BY <2>1, <2>2, <2>3, AnsweredNone, BeginWorkingInv DEF Inserts, Updates
<1> QED BY <1>2, <1>3

-----------------------------------------------------------------------------
(* The check and the statements.                                             *)

\* A step of r that changes its place, its lock or its entry only.
LEMMA StatementStep ==
  ASSUME NamesInv, NEW r \in Requests, NEW label \in Working,
         pc[r] \in Working, Goto(r, label), UNCHANGED <<rows, txn>>,
         NEW l \in Ids \cup {None}, locked' = [locked EXCEPT ![r] = l],
         NEW e \in Key \cup {None}, entry' = [entry EXCEPT ![r] = e],
         l # None => \A q \in Others(r) : locked[q] # l,
         e # None => \A q \in Others(r) : entry[q] # e,
         Shape(r)', LockSound(r)', EntrySound(r)', NamePending(r)', AloneSound(r)'
  PROVE  NamesInv'
<1> USE DEF NamesInv
<1>1. pc'[r] = label /\ locked'[r] = l /\ entry'[r] = e
  BY DEF Goto, TypeOK
<1>2. TypeOK'
  BY DEF Goto, TypeOK
<1>3. \A q \in Others(r) : /\ pc'[q] = pc[q] /\ txn'[q] = txn[q]
                           /\ locked'[q] = locked[q] /\ entry'[q] = entry[q]
  BY DEF Goto, Others, TypeOK
<1>4. pc[r] \notin Replied /\ pc'[r] # "idle"
  BY <1>1 DEF Working, Replied
<1>5. (\A q \in txn'[r].before : pc[q] \in Replied) /\ Answered(txn'[r].by)
  BY DEF History
<1>6. ScopeKept(r)'
  BY DEF OwnInv, ScopeKept, Stored, KeyOf, Writes
<1>7. OwnInv(r)'
  BY <1>6 DEF OwnInv
<1> QED BY <1>1, <1>2, <1>3, <1>4, <1>5, <1>7, LocalStep

\* Whoever was alone before such a step is so after it, and conversely.
LEMMA AloneStays ==
  ASSUME TypeOK, NEW r \in Requests, NEW label \in Working, Goto(r, label), txn' = txn
  PROVE  Alone(r)' <=> Alone(r)
  BY DEF Alone, Others, Goto, TypeOK

LEMMA HitsStay ==
  ASSUME NEW r \in Requests, rows' = rows, txn' = txn
  PROVE  /\ Hits(r)' = Hits(r)
         /\ Respells(r)' <=> Respells(r)
         /\ Writes(r)' <=> Writes(r)
         /\ \A i \in Ids : Stored(i)' <=> Stored(i)
         /\ \A i \in Ids : KeyOf(i)' = KeyOf(i)
<1>1. \A i \in Ids : (Stored(i)' <=> Stored(i)) /\ KeyOf(i)' = KeyOf(i)
  BY DEF Stored, KeyOf
<1>2. Hits(r)' = Hits(r)
  BY DEF Hits, Stored, KeyOf
<1> QED BY <1>1, <1>2 DEF Respells, Writes

LEMMA AloneStep ==
  ASSUME NamesInv, NEW r \in Requests, NEW label \in Working, pc[r] \in Working,
         Goto(r, label), rows' = rows, txn' = txn,
         Alone(r) /\ label \in {"lock", "index"} /\ txn[r].key # None
           => Hits(r) = {} \/ Respells(r)
  PROVE  AloneSound(r)'
<1> SUFFICES ASSUME Alone(r)' PROVE /\ Writes(r) => Stored(txn[r].id)' /\ KeyOf(txn[r].id)' = txn[r].loaded
                                    /\ pc'[r] \in {"lock", "index"} /\ txn[r].key # None
                                         => Hits(r) = {} \/ Respells(r)
  BY HitsStay DEF AloneSound
<1>1. Alone(r)
  BY AloneStays DEF NamesInv
<1>2. Writes(r) => Stored(txn[r].id) /\ KeyOf(txn[r].id) = txn[r].loaded
  BY <1>1 DEF NamesInv, OwnInv, AloneSound
<1>3. pc'[r] = label
  BY DEF NamesInv, TypeOK, Goto
<1> QED BY <1>1, <1>2, <1>3 DEF Stored, KeyOf

LEMMA CheckInv ==
  ASSUME NamesInv, NEW r \in Requests, Check(r)
  PROVE  NamesInv'
<1> USE DEF NamesInv
<1>1. pc[r] = "check" /\ pc[r] \in Working
  BY DEF Check, Working
<1>2. CASE Hits(r) = {} /\ Goto(r, Statement(r)) /\ UNCHANGED <<rows, txn, locked, entry>>
  <2> DEFINE label == Statement(r)
  <2>1. label \in Working /\ label \in {"index", "lock"} /\ (label = "index" <=> txn[r].kind \in Inserts)
    BY DEF Statement, Working
  <2>2. pc'[r] = label /\ locked[r] = None /\ entry[r] = None
    BY <1>1, <1>2 DEF Goto, TypeOK, OwnInv, Shape
  <2>3. locked' = [locked EXCEPT ![r] = None] /\ entry' = [entry EXCEPT ![r] = None]
    BY <1>2, <2>2 DEF TypeOK
  <2> HIDE DEF label
  <2>4. Shape(r)'
    <3>1. \A q \in Requests : pc[q] \in Replied => pc'[q] \in Replied
      BY <1>1, <1>2 DEF Goto, TypeOK, Replied
    <3>2. Shape(r) /\ txn' = txn /\ locked' = locked /\ entry' = entry
      BY <1>2 DEF OwnInv
    <3>3. (Respells(r)' <=> Respells(r)) /\ (Writes(r)' <=> Writes(r))
      BY <1>2, HitsStay
    <3>4. txn[r].kind \notin Inserts => Writes(r)
      BY <3>2, <1>1 DEF Shape
    <3>5. txn[r].kind \in Inserts => ~Writes(r)
      BY DEF Inserts, Updates, Writes
    <3> QED BY <1>1, <2>1, <2>2, <3>1, <3>2, <3>3, <3>4, <3>5 DEF Shape, KeyFits
  <2>5. LockSound(r)' /\ EntrySound(r)'
    BY <1>2, <2>2 DEF LockSound, EntrySound
  <2>6. NamePending(r)'
    <3> SUFFICES ASSUME txn[r].kind \in {"create_company", "update_company"}, txn[r].key # None,
                        NEW i \in Ids \ {txn[r].id},
                        Stored(i), KeyOf(i).scope = txn[r].key.scope, KeyOf(i).name = txn[r].key.name
                 PROVE  FALSE
      BY <1>2, HitsStay DEF NamePending
    <3>1. txn[r].key.scope # Accounts
      BY <1>1 DEF OwnInv, Shape, KeyFits
    <3>2. i \in Hits(r)
      BY <3>1 DEF Hits
    <3> QED BY <3>2, <1>2
  <2>7. AloneSound(r)'
    BY <1>1, <1>2, <2>1, AloneStep DEF label
  <2> QED BY <1>1, <1>2, <2>1, <2>3, <2>4, <2>5, <2>6, <2>7, StatementStep DEF label
<1>3. CASE Rollback(r, "EntityAlreadyExists") \/ Rollback(r, "Unhandled")
  BY <1>1, <1>3, RollbackInv DEF Replied
<1> QED BY <1>2, <1>3 DEF Check

LEMMA LockInv ==
  ASSUME NamesInv, NEW r \in Requests, Lock(r)
  PROVE  NamesInv'
<1> USE DEF NamesInv
<1> DEFINE i == txn[r].id
           delete == txn[r].kind = "delete_company"
<1>1. pc[r] = "lock" /\ pc[r] \in Working
  BY DEF Lock, Working
<1>2. CASE Rollback(r, "Unhandled")
  BY <1>1, <1>2, RollbackInv DEF Replied
<1>3. CASE /\ Stored(i) \/ delete
           /\ locked' = [locked EXCEPT ![r] = i]
           /\ Goto(r, IF txn[r].key = None THEN "commit" ELSE "index")
           /\ UNCHANGED <<rows, txn, entry>>
  <2> DEFINE label == IF txn[r].key = None THEN "commit" ELSE "index"
  <2>1. label \in Working /\ (label = "commit" <=> txn[r].key = None) /\ label \in {"index", "commit"}
    BY DEF Working
  <2>2. /\ i \in Ids /\ i # None /\ Writes(r) /\ Shape(r)
        /\ \A q \in Others(r) : locked[q] # i
    BY <1>1, NamesAssumption DEF OwnInv, Shape, Lock
  <2>3. /\ pc'[r] = label /\ locked'[r] = i /\ entry[r] = None /\ entry'[r] = None
        /\ entry' = [entry EXCEPT ![r] = None]
    BY <1>1, <1>3, <2>2 DEF Goto, TypeOK, Shape
  <2> HIDE DEF label
  <2>4. Shape(r)'
    <3>1. \A q \in Requests : pc[q] \in Replied => pc'[q] \in Replied
      BY <1>1, <1>3 DEF Goto, TypeOK, Replied
    <3>2. (Respells(r)' <=> Respells(r)) /\ (Writes(r)' <=> Writes(r)) /\ txn' = txn
      BY <1>3, HitsStay
    <3> QED BY <1>1, <2>1, <2>2, <2>3, <3>1, <3>2 DEF Shape, KeyFits
  <2>5. LockSound(r)'
    <3>1. \A q \in Others(r) : locked'[q] # i
      BY <1>3, <2>2 DEF Others, TypeOK
    <3>2. txn[r].kind \in Updates => Stored(i)
      BY <1>3 DEF Updates
    <3> QED BY <1>3, <2>3, <3>1, <3>2 DEF LockSound, Stored
  <2>6. EntrySound(r)'
    BY <2>3 DEF EntrySound
  <2>7. NamePending(r)'
    <3>1. NamePending(r)
      BY DEF OwnInv
    <3> SUFFICES ASSUME txn[r].kind \in {"create_company", "update_company"}, txn[r].key # None,
                        NEW j \in Ids \ {i},
                        Stored(j), KeyOf(j).scope = txn[r].key.scope, KeyOf(j).name = txn[r].key.name
                 PROVE  \/ \E b \in rows[j].by \ {None} : b \notin txn[r].before
                        \/ Respells(r) /\ Excused(txn[r].by, rows[j].by)
      BY <1>3, HitsStay DEF NamePending, Excused, Overlap
    <3> QED BY <1>1, <3>1 DEF NamePending
  <2>8. AloneSound(r)'
    <3>1. Alone(r) /\ txn[r].key # None => Hits(r) = {} \/ Respells(r)
      BY <1>1 DEF OwnInv, AloneSound
    <3>2. Goto(r, label)
      BY <1>3 DEF label
    <3> QED BY <1>1, <1>3, <2>1, <3>1, <3>2, AloneStep
  <2> QED BY <1>1, <1>3, <2>1, <2>2, <2>3, <2>4, <2>5, <2>6, <2>7, <2>8, StatementStep DEF label
<1> QED BY <1>2, <1>3 DEF Lock

LEMMA RefreshInv ==
  ASSUME NamesInv, NEW r \in Requests, Refresh(r)
  PROVE  NamesInv'
<1>1. pc[r] \in Working
  BY DEF Refresh, Working
<1>2. PICK outcome \in {"ok", "Unhandled"} : Rollback(r, outcome)
  BY DEF Refresh, Response
<1> QED BY <1>1, <1>2, RollbackInv DEF Replied

LEMMA EnterIndexInv ==
  ASSUME NamesInv, NEW r \in Requests, EnterIndex(r)
  PROVE  NamesInv'
<1> USE DEF NamesInv
<1> DEFINE k == txn[r].key
<1>1. pc[r] = "index" /\ pc[r] \in Working
  BY DEF EnterIndex, Working
<1>2. CASE Rollback(r, "Unhandled")
  BY <1>1, <1>2, RollbackInv DEF Replied
<1>3. CASE /\ ~Taken(r)
           /\ entry' = [entry EXCEPT ![r] = k]
           /\ Goto(r, "commit")
           /\ UNCHANGED <<rows, txn, locked>>
  <2>1. /\ txn[r].kind # "delete_company" /\ k \in Key /\ k # None /\ Shape(r)
        /\ locked[r] \in Ids \cup {None} /\ locked' = [locked EXCEPT ![r] = locked[r]]
    BY <1>1, <1>3 DEF OwnInv, Shape, KeyFits, TypeOK
  <2>2. pc'[r] = "commit" /\ locked'[r] = locked[r] /\ entry'[r] = k
    BY <1>3 DEF Goto, TypeOK
  <2>3. \A q \in Others(r) : entry[q] # k /\ entry'[q] = entry[q]
    BY <1>3 DEF EnterIndex, WaitsFor, Others, TypeOK
  <2>4. Shape(r)'
    <3>1. \A q \in Requests : pc[q] \in Replied => pc'[q] \in Replied
      BY <1>1, <1>3 DEF Goto, TypeOK, Replied
    <3>2. (Respells(r)' <=> Respells(r)) /\ (Writes(r)' <=> Writes(r)) /\ txn' = txn
      BY <1>3, HitsStay
    <3> QED BY <1>1, <2>1, <2>2, <3>1, <3>2 DEF Shape, KeyFits
  <2>5. LockSound(r)'
    <3>1. LockSound(r)
      BY DEF OwnInv
    <3> QED BY <1>3, <3>1 DEF LockSound, Stored
  <2>6. EntrySound(r)'
    BY <1>3, <2>2, <2>3 DEF EntrySound, Taken, Stored, KeyOf
  <2>7. NamePending(r)'
    <3>1. NamePending(r)
      BY DEF OwnInv
    <3> SUFFICES ASSUME txn[r].kind \in {"create_company", "update_company"}, txn[r].key # None,
                        NEW j \in Ids \ {txn[r].id},
                        Stored(j), KeyOf(j).scope = k.scope, KeyOf(j).name = k.name
                 PROVE  \/ \E b \in rows[j].by \ {None} : b \notin txn[r].before
                        \/ Respells(r) /\ Excused(txn[r].by, rows[j].by)
      BY <1>3, HitsStay DEF NamePending, Excused, Overlap
    <3> QED BY <1>1, <3>1 DEF NamePending
  <2>8. AloneSound(r)'
    BY <1>1, <1>3, AloneStep DEF Working
  <2>9. \A q \in Others(r) : locked[r] # None => locked[q] # locked[r]
    BY DEF OwnInv, LockSound
  <2> QED BY <1>1, <1>3, <2>1, <2>2, <2>3, <2>4, <2>5, <2>6, <2>7, <2>8, <2>9, StatementStep DEF Working
<1> QED BY <1>2, <1>3 DEF EnterIndex

-----------------------------------------------------------------------------
(* The commit.                                                               *)

LEMMA ExcusedGrows ==
  ASSUME NEW B, NEW C, NEW D, NEW E, Excused(B, C), B \subseteq D, C \subseteq E
  PROVE  Excused(D, E) /\ Excused(E, D)
  BY DEF Excused, Overlap

\* What a commit leaves in the row that it writes.
LEMMA CommittedRow ==
  ASSUME NamesInv, NEW r \in Requests, pc[r] = "commit", txn[r].key # None
  PROVE  /\ NewRow(r) \in Row
         /\ NewRow(r).key = txn[r].key
         /\ NewRow(r).by \subseteq {r} \cup txn[r].by \cup (IF Stored(txn[r].id) THEN rows[txn[r].id].by ELSE {})
         /\ \/ /\ r \in NewRow(r).by
               /\ Respells(r) => txn[r].by \subseteq NewRow(r).by
            \/ /\ Stored(txn[r].id) /\ NewRow(r).by = rows[txn[r].id].by
               /\ KeyOf(txn[r].id).name = txn[r].key.name
               /\ KeyOf(txn[r].id).scope = txn[r].key.scope
<1> USE DEF NamesInv
<1> DEFINE t == txn[r]
<1>1. pc[r] \in Working /\ Shape(r) /\ ScopeKept(r)
  BY DEF Working, OwnInv
<1>2. t.key \in Key /\ t.id \in Ids /\ t.by \in SUBSET (Requests \cup {None})
  BY <1>1 DEF Shape, KeyFits, TypeOK, Txn
<1>3. Stored(t.id) => rows[t.id].by \in SUBSET (Requests \cup {None})
  BY <1>2, StoredRow
<1>4. NewRow(r) \in Row
  BY <1>2, <1>3 DEF NewRow, Row
<1>5. Stored(t.id) => KeyOf(t.id).scope = t.key.scope
  <2>1. Stored(t.id) => Writes(r)
    <3>1. Stored(t.id) /\ t.id \in Requests => pc[t.id] \in Replied
      BY <1>2 DEF History
    <3>2. t.kind \in Inserts => t.id = r /\ pc[r] \notin Replied
      BY <1>1 DEF Shape, Working, Replied
    <3> QED BY <3>1, <3>2, <1>1 DEF Shape
  <2>2. Writes(r) => t.kind \in Updates
    BY <1>1 DEF Writes, Shape
  <2> QED BY <2>1, <2>2, <1>1 DEF ScopeKept, Shape, KeyFits
<1> QED BY <1>4, <1>5 DEF NewRow

\* The commit of a change of the key, or of a deletion.
LEMMA WriteInv ==
  ASSUME NamesInv, NEW r \in Requests, NEW outcome \in Replied, pc[r] = "commit",
         Store(r), End(r, outcome), txn[r].kind = "delete_company" \/ txn[r].key # None
  PROVE  NamesInv'
<1> USE DEF NamesInv
<1> DEFINE t == txn[r]
           delete == t.kind = "delete_company"
<1> PICK j \in Ids : j = t.id
  BY DEF OwnInv, Shape, Working
<1>1. /\ pc[r] = "commit" /\ txn' = txn
      /\ rows' = [rows EXCEPT ![j] = IF delete THEN None ELSE NewRow(r)]
      /\ pc' = [pc EXCEPT ![r] = outcome]
      /\ locked' = [locked EXCEPT ![r] = None]
      /\ entry' = [entry EXCEPT ![r] = None]
      /\ ~delete <=> t.key # None
  BY DEF Store, Written, End, Goto, OwnInv, Shape, Working
<1>2. /\ pc[r] \in Working /\ pc[r] \notin Replied /\ OwnInv(r) /\ Shape(r) /\ j \in Ids
      /\ r # None
  BY <1>1, NamesAssumption DEF Working, Replied, OwnInv, Shape
<1>3. /\ pc'[r] = outcome /\ locked'[r] = None /\ entry'[r] = None
      /\ pc'[r] \in Replied /\ pc'[r] \notin Working /\ pc'[r] # "idle"
  BY <1>1 DEF TypeOK, Working, Replied
<1>4. \A q \in Others(r) : pc'[q] = pc[q] /\ locked'[q] = locked[q] /\ entry'[q] = entry[q]
  BY <1>1 DEF Others, TypeOK
<1>5. /\ rows'[j] = IF delete THEN None ELSE NewRow(r)
      /\ \A i \in Ids \ {j} : /\ rows'[i] = rows[i] /\ (Stored(i)' <=> Stored(i))
                              /\ KeyOf(i)' = KeyOf(i)
  BY <1>1, <1>2 DEF TypeOK, Stored, KeyOf
<1>6. /\ delete => ~Stored(j)'
      /\ ~delete => KeyOf(j)' = t.key /\ entry[r] = t.key /\ KeyFits(r) /\ t.key \in Key
      /\ Writes(r) => locked[r] = j /\ j # None
  <2>1. ~delete => NewRow(r).key = t.key
    BY <1>1, CommittedRow
  <2> QED BY <1>1, <1>2, <1>5, <2>1, NamesAssumption DEF Stored, KeyOf, Shape, KeyFits
<1>7. TypeOK'
  <2>1. ~delete => NewRow(r) \in Row
    BY <1>1, CommittedRow
  <2>2. rows' \in [Ids -> Row \cup {None}]
    BY <1>1, <2>1 DEF TypeOK
  <2> QED BY <1>1, <2>2 DEF TypeOK, Replied
<1>8. /\ \A q \in Requests : pc[q] \in Replied => pc'[q] = pc[q] /\ q # r
      /\ \A B \in SUBSET (Requests \cup {None}) : Answered(B) => Answered(B)'
  BY <1>2, <1>4 DEF Others, Answered, Replied
<1>9. History'
  <2>1. \A q \in Requests : \A p \in txn'[q].before : pc'[p] \in Replied
    BY <1>1, <1>8 DEF History, TypeOK, Txn
  <2>2. \A q \in Requests : txn[q].by \in SUBSET (Requests \cup {None})
    BY DEF TypeOK, Txn
  <2>3. \A q \in Requests : Answered(txn[q].by)'
    BY <1>1, <1>8, <2>2 DEF History, Answered
  <2>4. ASSUME NEW i \in Ids \ {j}, Stored(i)'
        PROVE  Answered(rows[i].by)' /\ (i \in Requests => pc'[i] \in Replied)
    <3>1. Stored(i) /\ rows[i].by \in SUBSET (Requests \cup {None}) /\ Answered(rows[i].by)
      BY <1>5, <2>4, StoredRow DEF History
    <3>2. \A b \in rows[i].by \ {None} : pc'[b] \in Replied
      BY <3>1, <1>8 DEF Answered, Replied
    <3> QED BY <1>5, <1>8, <3>1, <3>2 DEF History, Answered
  <2>5. ASSUME Stored(j)'
        PROVE  Answered(rows[j].by)' /\ (j \in Requests => pc'[j] \in Replied)
    <3>1. ~delete /\ rows'[j] = NewRow(r)
      BY <1>5, <1>6, <2>5
    <3>2. NewRow(r).by \subseteq {r} \cup t.by \cup (IF Stored(j) THEN rows[j].by ELSE {})
      BY <1>1, <3>1, CommittedRow
    <3>3. Answered(t.by) /\ (Stored(j) => Answered(rows[j].by) /\ rows[j].by \in SUBSET (Requests \cup {None}))
      BY <1>2, StoredRow DEF History
    <3>4. \A b \in rows'[j].by \ {None} : b = r \/ (b \in Requests /\ pc[b] \in Replied)
      BY <3>1, <3>2, <3>3, <2>2 DEF Answered
    <3>5. Answered(rows[j].by)'
      BY <3>4, <1>3, <1>8 DEF Answered, Replied
    <3>6. j \in Requests => pc'[j] \in Replied
      BY <1>2, <1>3, <1>8 DEF Shape, Replied
    <3> QED BY <3>5, <3>6
  <2> QED BY <2>1, <2>3, <2>4, <2>5 DEF History
<1>10. KeysUnique'
  <2>1. \A i \in Ids \ {j} : Stored(i)' /\ Stored(j)' => KeyOf(i)' # KeyOf(j)'
    BY <1>2, <1>5, <1>6 DEF OwnInv, EntrySound
  <2> QED BY <1>5, <2>1 DEF KeysUnique
<1>11. TypedRows'
  <2>1. Stored(j)' /\ t.key.scope = Accounts =>
          (NewRow(r).typed <=> t.key.spelling # Lower) /\ t.key.name # Empty
    BY <1>2, <1>6 DEF Shape, KeyFits, NewRow, Writes, Inserts, Updates
  <2>2. Stored(j)' /\ KeyOf(j)'.scope = Accounts =>
          (rows'[j].typed <=> KeyOf(j)'.spelling # Lower) /\ KeyOf(j)'.name # Empty
    BY <1>5, <1>6, <2>1
  <2> QED BY <1>5, <2>2 DEF TypedRows
<1>12. TwinsOverlap'
  <2>1. ASSUME NEW i \in Ids \ {j}, Twins(i, j)', (KeyOf(j).scope # Accounts)'
        PROVE  Excused(rows'[i].by, rows'[j].by) /\ Excused(rows'[j].by, rows'[i].by)
    <3>1. /\ Stored(i) /\ rows'[i] = rows[i] /\ ~delete /\ rows'[j] = NewRow(r)
          /\ KeyOf(i).scope = t.key.scope /\ KeyOf(i).name = t.key.name
          /\ t.key.scope # Accounts /\ t.key # None
      BY <1>1, <1>5, <1>6, <2>1 DEF Twins
    <3>2. t.kind \in {"create_company", "update_company"}
      BY <1>2, <1>6, <3>1 DEF Shape, KeyFits, Writes, Inserts, Updates
    <3>3. \/ \E b \in rows[i].by \ {None} : b \notin t.before
          \/ Respells(r) /\ Excused(t.by, rows[i].by)
      BY <1>1, <1>2, <3>1, <3>2 DEF OwnInv, NamePending
    <3>4. CASE /\ r \in NewRow(r).by
               /\ Respells(r) => t.by \subseteq NewRow(r).by
      <4>1. CASE Respells(r) /\ Excused(t.by, rows[i].by)
        BY <3>1, <3>4, <4>1, ExcusedGrows
      <4>2. CASE \E b \in rows[i].by \ {None} : b \notin t.before
        <5>1. PICK b \in rows[i].by \ {None} : b \notin t.before
          BY <4>2
        <5>2. b \in Requests /\ pc[b] \in Replied
          BY <3>1, <5>1, StoredRow DEF History, Answered
        <5>3. b # r /\ r \notin txn[b].before
          BY <1>2, <5>2 DEF History, Replied
        <5> QED BY <1>2, <3>1, <3>4, <5>1, <5>3 DEF Excused, Overlap
      <4> QED BY <3>3, <4>1, <4>2
    <3>5. CASE /\ Stored(j) /\ NewRow(r).by = rows[j].by
               /\ KeyOf(j).name = t.key.name /\ KeyOf(j).scope = t.key.scope
      <4>1. Twins(i, j) /\ Twins(j, i)
        BY <3>1, <3>5 DEF Twins
      <4> QED BY <1>2, <3>1, <3>5, <4>1 DEF TwinsOverlap
    <3> QED BY <1>1, <3>1, <3>4, <3>5, CommittedRow
  <2>2. ASSUME NEW i \in Ids, NEW k \in Ids, Twins(i, k)', (KeyOf(i).scope # Accounts)'
        PROVE  Excused(rows'[i].by, rows'[k].by)
    <3>1. CASE i # j /\ k # j
      <4>1. Twins(i, k) /\ KeyOf(i).scope # Accounts
        BY <1>5, <2>2, <3>1 DEF Twins
      <4> QED BY <1>5, <3>1, <4>1 DEF TwinsOverlap
    <3>2. CASE i = j
      BY <2>1, <2>2, <3>2 DEF Twins
    <3>3. CASE k = j
      BY <2>1, <2>2, <3>3 DEF Twins
    <3> QED BY <3>1, <3>2, <3>3
  <2> QED BY <2>2, <1>1 DEF TwinsOverlap, Excused, Overlap
<1>13. ASSUME NEW q \in Others(r) PROVE OwnInv(q)'
  <2>1. /\ q \in Requests /\ q # r /\ OwnInv(q)
        /\ pc'[q] = pc[q] /\ txn'[q] = txn[q] /\ locked'[q] = locked[q] /\ entry'[q] = entry[q]
        /\ (Respells(q)' <=> Respells(q)) /\ (Writes(q)' <=> Writes(q))
    BY <1>1, <1>4 DEF Others, Respells, Writes
  <2>2. Shape(q)'
    BY <1>8, <2>1 DEF OwnInv, Shape, KeyFits
  <2>3. pc[q] \in Working /\ Writes(q) /\ txn[q].id = j => Writes(r)
    <3>1. pc[q] \in Working /\ Writes(q) /\ txn[q].id = j => j # r
      BY <1>2, <2>1 DEF OwnInv, Shape
    <3> QED BY <3>1, <1>2 DEF Shape
  <2>4. LockSound(q)'
    <3>1. locked[q] # None => /\ pc[q] \in Working /\ Writes(q) /\ locked[q] = txn[q].id /\ txn[q].id \in Ids
      BY <2>1 DEF OwnInv, Shape, Working
    <3>2. locked[q] # None => locked[q] # j
      BY <1>2, <1>6, <2>1, <2>3, <3>1 DEF OwnInv, LockSound, Others
    <3>3. locked[q] # None => \A p \in Others(q) : locked'[p] # locked[q]
      BY <1>1, <2>1 DEF OwnInv, LockSound, Others, TypeOK
    <3> QED BY <1>5, <2>1, <3>1, <3>2, <3>3 DEF OwnInv, LockSound
  <2>5. EntrySound(q)'
    <3>1. entry[q] # None => \A p \in Others(q) : entry'[p] # entry[q]
      BY <1>1, <2>1 DEF OwnInv, EntrySound, Others, TypeOK
    <3>2. entry[q] # None /\ Stored(j)' => KeyOf(j)' # entry[q]
      BY <1>2, <1>6, <2>1 DEF OwnInv, EntrySound, Others
    <3> QED BY <1>5, <2>1, <3>1, <3>2 DEF OwnInv, EntrySound
  <2>6. ScopeKept(q)'
    <3>1. CASE txn[q].id # j
      BY <1>5, <2>1, <3>1 DEF OwnInv, Shape, ScopeKept
    <3>2. CASE txn[q].id = j
      <4> SUFFICES ASSUME pc[q] \in Working, Writes(q), Stored(j)'
                   PROVE  KeyOf(j)'.scope = txn[q].loaded.scope
        BY <2>1, <3>2 DEF ScopeKept
      <4>1. Writes(r) /\ ~delete
        BY <1>6, <2>3, <3>2
      <4>2. t.kind \in Updates /\ Stored(j)
        BY <1>2, <1>6, <4>1 DEF Writes, OwnInv, LockSound
      <4>3. KeyOf(j).scope = t.loaded.scope /\ KeyOf(j).scope = txn[q].loaded.scope
        BY <1>2, <2>1, <3>2, <4>1, <4>2 DEF OwnInv, ScopeKept
      <4>4. t.key.scope = t.loaded.scope
        BY <1>6, <4>1, <4>2 DEF KeyFits
      <4> QED BY <1>6, <4>1, <4>3, <4>4
    <3> QED BY <3>1, <3>2
  <2>7. r \notin txn[q].before
    BY <1>2, <2>1 DEF History
  <2>8. NamePending(q)'
    <3> SUFFICES ASSUME pc[q] \in {"lock", "index", "commit"},
                        txn[q].kind \in {"create_company", "update_company"}, txn[q].key # None,
                        NEW i \in Ids \ {txn[q].id},
                        Stored(i)', KeyOf(i)'.scope = txn[q].key.scope, KeyOf(i)'.name = txn[q].key.name
                 PROVE  \/ \E b \in rows'[i].by \ {None} : b \notin txn[q].before
                        \/ Respells(q) /\ Excused(txn[q].by, rows'[i].by)
      BY <1>1, <2>1 DEF NamePending, Excused, Overlap
    <3>1. ASSUME NEW k \in Ids \ {txn[q].id}, Stored(k),
                 KeyOf(k).scope = txn[q].key.scope, KeyOf(k).name = txn[q].key.name
          PROVE  \/ \E b \in rows[k].by \ {None} : b \notin txn[q].before
                 \/ Respells(q) /\ Excused(txn[q].by, rows[k].by)
      BY <2>1, <3>1 DEF OwnInv, NamePending
    <3>2. CASE i # j
      BY <1>5, <3>1, <3>2
    <3>3. CASE i = j
      <4>1. ~delete /\ rows'[j] = NewRow(r) /\ KeyOf(j)' = t.key
        BY <1>5, <1>6, <3>3
      <4>2. CASE r \in NewRow(r).by
        BY <1>2, <2>7, <3>3, <4>1, <4>2
      <4>3. CASE /\ Stored(j) /\ NewRow(r).by = rows[j].by
                 /\ KeyOf(j).name = t.key.name /\ KeyOf(j).scope = t.key.scope
        BY <3>1, <3>3, <4>1, <4>3
      <4> QED BY <1>1, <4>1, <4>2, <4>3, CommittedRow
    <3> QED BY <3>2, <3>3
  <2>9. ~Alone(q)'
    BY <1>3, <2>1, <2>7 DEF Alone, Others
  <2> QED BY <2>2, <2>4, <2>5, <2>6, <2>8, <2>9 DEF OwnInv, AloneSound
<1>14. OwnInv(r)'
  BY <1>3 DEF OwnInv, Shape, LockSound, EntrySound, ScopeKept, NamePending, AloneSound, Working
<1> QED
  <2>1. \A q \in Requests : OwnInv(q)'
    BY <1>13, <1>14 DEF Others
  <2> QED BY <1>7, <1>9, <1>10, <1>11, <1>12, <2>1

\* Any commit, however its request is answered.
LEMMA StoreInv ==
  ASSUME NamesInv, NEW r \in Requests, NEW outcome \in Replied, pc[r] = "commit",
         Store(r), End(r, outcome)
  PROVE  NamesInv'
<1>1. CASE txn[r].kind = "delete_company" \/ txn[r].key # None
  BY <1>1, WriteInv
<1>2. CASE txn[r].kind # "delete_company" /\ txn[r].key = None
  <2>1. rows' = rows /\ txn' = txn
    BY <1>2 DEF Store, Written, NamesInv, TypeOK
  <2>2. pc[r] \in Working
    BY DEF Working
  <2> QED BY <2>1, <2>2, RollbackInv DEF Rollback
<1> QED BY <1>1, <1>2

\* The row that a commit leaves behind, if it changes none or writes one.
LEMMA WrittenRow ==
  ASSUME NamesInv, NEW r \in Requests, pc[r] = "commit"
  PROVE  IF txn[r].kind = "delete_company" THEN Written(r) = None
         ELSE /\ txn[r].key # None => KeyFits(r) /\ Written(r).key = txn[r].key
              /\ txn[r].key = None =>
                   Written(r) = rows[txn[r].id] /\ Stored(txn[r].id) /\ txn[r].id \in Ids /\ Writes(r)
<1>1. Shape(r) /\ LockSound(r) /\ pc[r] \in Working
  BY DEF NamesInv, OwnInv, Working
<1>2. CASE txn[r].kind = "delete_company"
  BY <1>2 DEF Written
<1>3. CASE txn[r].kind # "delete_company" /\ txn[r].key # None
  BY <1>1, <1>3 DEF Shape, Written, NewRow
<1>4. CASE txn[r].kind # "delete_company" /\ txn[r].key = None
  <2>1. txn[r].kind \in Updates /\ Writes(r) /\ locked[r] = txn[r].id /\ txn[r].id \in Ids
    BY <1>1, <1>4 DEF Shape, Writes
  <2>2. Stored(txn[r].id)
    BY <1>1, <2>1, NamesAssumption DEF LockSound
  <2> QED BY <1>4, <2>1, <2>2 DEF Written
<1> QED BY <1>2, <1>3, <1>4

LEMMA CommitInv ==
  ASSUME NamesInv, NEW r \in Requests, Commit(r)
  PROVE  NamesInv'
<1>1. PICK outcome \in {"ok", "Unhandled"} : End(r, outcome)
  BY DEF Commit, Response
<1> QED BY <1>1, StoreInv DEF Commit, Replied

LEMMA FailInv ==
  ASSUME NamesInv, NEW r \in Requests, Fail(r)
  PROVE  NamesInv'
<1>1. CASE pc[r] \in Working /\ Rollback(r, "failed")
  BY <1>1, RollbackInv DEF Replied
<1>2. CASE pc[r] = "commit" /\ Store(r) /\ End(r, "failed")
  BY <1>2, StoreInv DEF Replied
<1> QED BY <1>1, <1>2 DEF Fail

-----------------------------------------------------------------------------
(* The specification.                                                        *)

LEMMA NextInv == NamesInv /\ [Next]_vars => NamesInv'
<1> SUFFICES ASSUME NamesInv, [Next]_vars PROVE NamesInv'
  OBVIOUS
<1>1. CASE UNCHANGED vars
  BY <1>1 DEF vars, NamesInv, TypeOK, History, Answered, KeysUnique, TypedRows, TwinsOverlap, Twins,
     Excused, Overlap, OwnInv, Shape, LockSound, EntrySound, ScopeKept, NamePending, AloneSound, Alone,
     Stored, KeyOf, Hits, Writes, Respells, KeyFits
<1>2. ASSUME NEW r \in Requests, Arrive(r) PROVE NamesInv'
  <2>1. CASE \E n \in Names, s \in Spellings :
               \/ Login(r, n, s)
               \/ \E rest \in Rests : Register(r, n, s, rest)
               \/ \E u \in Tenants, rest \in Rests : CreateCompany(r, u, n, s, rest)
    BY <2>1, LoginInv, RegisterInv, CreateCompanyInv
  <2>2. CASE \E i \in Ids, rest \in Rests :
               UpdateProfile(r, i, rest) \/ \E u \in Tenants : UpdateCompany(r, u, i, rest)
    BY <2>2, UpdateProfileInv, UpdateCompanyInv
  <2>3. CASE \E u \in Tenants, i \in Ids : GetCompany(r, u, i) \/ DeleteCompany(r, u, i)
    BY <2>3, GetCompanyInv, DeleteCompanyInv
  <2> QED BY <1>2, <2>1, <2>2, <2>3 DEF Arrive
<1>3. ASSUME NEW r \in Requests, Deadlock(r) PROVE NamesInv'
  BY <1>3, RollbackInv DEF Deadlock, Working, Replied
<1>4. ASSUME NEW r \in Requests, Proceed(r) PROVE NamesInv'
  BY <1>3, <1>4, CheckInv, LockInv, RefreshInv, EnterIndexInv, CommitInv DEF Proceed
<1> QED BY <1>1, <1>2, <1>4, FailInv DEF Next, Quiet

\* The inductive invariant: what requests hold and are about to write is tied
\* to what is stored.
THEOREM NamesInvariant == Spec => []NamesInv
<1> QED
  BY InitInv, NextInv, PTL DEF Spec

\* Every reachable state is well typed; in particular every stored name is one
\* that a request asked for.
THEOREM TypeCorrect == Spec => []TypeOK
<1>1. NamesInv => TypeOK
  BY DEF NamesInv
<1> QED
  BY <1>1, NamesInvariant, PTL

\* No two rows have one key, whatever requests, failures and deadlocks do.
THEOREM IndexesWork == Spec => []KeysUnique
<1>1. NamesInv => KeysUnique
  BY DEF NamesInv
<1> QED
  BY <1>1, NamesInvariant, PTL

\* Two companies of one user have names that differ by case only if requests
\* that named them overlapped, for any number of requests and spellings.
THEOREM TwinsOnlyFromOverlap == Spec => []TwinsOverlap
<1>1. NamesInv => TwinsOverlap
  BY DEF NamesInv
<1> QED
  BY <1>1, NamesInvariant, PTL

\* Registrations never produce two accounts with one address: of two that
\* differ by case, a profile update has stored one as it was typed.
THEOREM AddressTwins == Spec => []AddressTwinsAreTyped
<1>1. NamesInv => AddressTwinsAreTyped
  <2> SUFFICES ASSUME NamesInv, NEW i \in Ids, NEW j \in Ids, Twins(i, j), KeyOf(i).scope = Accounts,
                      ~rows[i].typed, ~rows[j].typed
               PROVE  FALSE
    BY DEF AddressTwinsAreTyped
  <2>1. KeyOf(i).spelling = Lower /\ KeyOf(j).spelling = Lower /\ KeyOf(i) \in Key /\ KeyOf(j) \in Key
    BY StoredRow DEF NamesInv, TypedRows, Twins
  <2>2. \A k, l \in Key : k.scope = l.scope /\ k.name = l.name /\ k.spelling = l.spelling => k = l
    BY DEF Key
  <2>3. KeyOf(i) = KeyOf(j)
    BY <2>1, <2>2 DEF Twins
  <2> QED BY <2>3 DEF NamesInv, KeysUnique, Twins
<1> QED
  BY <1>1, NamesInvariant, PTL

-----------------------------------------------------------------------------
(* What requests are answered.                                               *)

LEMMA Statuses ==
  /\ ({"ok", "failed", "idle"} \cup Working) \cap Exceptions = {}
  /\ StatusOf["EntityAlreadyExists"] = 409
  /\ StatusOf["EntityNotFound"] = 404
  /\ StatusOf["Unauthorized"] = 401
  BY DEF Exceptions, StatusOf, Working

LEMMA DeclaredAnswers ==
  /\ 401 \in Responses("login")
  /\ \A kind \in Inserts \cup Updates : 409 \in Responses(kind)
  /\ \A kind \in {"get_company", "update_company", "delete_company"} : 404 \in Responses(kind)
  BY DEF Responses, AuthResponses, UserResponses, CompanyResponses, Inserts, Updates

LEMMA BeginEffect ==
  ASSUME TypeOK, NEW r \in Requests, NEW t \in Txn, NEW label, Begin(r, t, label)
  PROVE  /\ pc[r] = "idle" /\ pc'[r] = label
         /\ txn'[r].kind = t.kind /\ txn'[r].rest = t.rest
         /\ txn'[r].key = t.key /\ txn'[r].loaded = t.loaded
         /\ \A q \in Others(r) : pc'[q] = pc[q]
  BY DEF Begin, TypeOK, Txn, Others

LEMMA EndEffect ==
  ASSUME TypeOK, NEW r \in Requests, NEW outcome, End(r, outcome)
  PROVE  pc'[r] = outcome /\ \A q \in Others(r) : pc'[q] = pc[q]
  BY DEF End, Goto, TypeOK, Others

\* The reason of a failure that needs no other request.
OwnCause(r) == txn'[r].rest # "plain" \/ \E u \in Tenants : Concerns(r, u, Empty)

\* Whatever a request knows of a company without a name is such a reason.
LEMMA NamelessCause ==
  ASSUME NEW r \in Requests, NEW k \in Key, k \in {txn'[r].key, txn'[r].loaded},
         k.name = Empty, k.scope # Accounts
  PROVE  OwnCause(r)
<1>1. k.scope \in Tenants /\ k # None
  BY NamesAssumption DEF Key, Scopes
<1> QED BY <1>1 DEF OwnCause, Concerns

\* The first statement of a PATCH.
LEMMA KeepKeyEffect ==
  ASSUME NamesInv, NEW r \in Requests, NEW i \in Ids, Stored(i), NEW t \in Txn,
         t.loaded = KeyOf(i), KeepKey(r, t, i)
  PROVE  /\ pc[r] = "idle" /\ \A q \in Others(r) : pc'[q] = pc[q]
         /\ pc'[r] \in {"lock", "refresh", "ok"} \/ (pc'[r] = "Unhandled" /\ OwnCause(r))
<1>1. TypeOK /\ KeyOf(i) \in Key
  BY StoredRow DEF NamesInv
<1>2. CASE t.rest = "unstorable" /\ Begin(r, t, "Unhandled")
  BY <1>1, <1>2, BeginEffect DEF OwnCause
<1>3. CASE \E label \in {"lock", "refresh", Response(KeyOf(i).name)} : Begin(r, t, label)
  <2>1. PICK label \in {"lock", "refresh", Response(KeyOf(i).name)} : Begin(r, t, label)
    BY <1>3
  <2>2. CASE label = Response(KeyOf(i).name) /\ KeyOf(i).name = Empty
    <3>1. KeyOf(i).scope # Accounts
      BY <2>2 DEF NamesInv, TypedRows
    <3>2. pc'[r] = "Unhandled" /\ txn'[r].loaded = KeyOf(i)
      BY <1>1, <2>1, <2>2, BeginEffect DEF Response
    <3>3. OwnCause(r)
      BY <1>1, <2>2, <3>1, <3>2, NamelessCause
    <3> QED BY <1>1, <2>1, <3>2, <3>3, BeginEffect
  <2>3. CASE label \in {"lock", "refresh", "ok"}
    BY <1>1, <2>1, <2>3, BeginEffect
  <2> QED BY <2>1, <2>2, <2>3 DEF Response
<1> QED BY <1>2, <1>3 DEF KeepKey

LEMMA ChangeKeyEffect ==
  ASSUME NamesInv, NEW r \in Requests, NEW t \in Txn, NEW key \in Key, NEW checked \in BOOLEAN,
         ChangeKey(r, t, key, checked)
  PROVE  /\ pc[r] = "idle" /\ \A q \in Others(r) : pc'[q] = pc[q]
         /\ pc'[r] \in {"check", "lock"} \/ (pc'[r] = "Unhandled" /\ OwnCause(r))
<1> DEFINE t1 == [t EXCEPT !.key = key]
<1>1. t1 \in Txn /\ t1.rest = t.rest /\ TypeOK
  BY DEF Txn, NamesInv
<1>2. \/ Begin(r, t1, "check") \/ Begin(r, t1, "lock")
      \/ t1.rest = "unstorable" /\ Begin(r, t1, "Unhandled")
  BY <1>1 DEF ChangeKey
<1> HIDE DEF t1
<1> QED BY <1>1, <1>2, BeginEffect DEF OwnCause

\* A request steps alone, and its first statement answers a login with 401 only
\* if nothing is stored under the address, others with 404 or for a reason of
\* their own.
LEMMA ArriveEffect ==
  ASSUME NamesInv, NEW r \in Requests, Arrive(r)
  PROVE  /\ pc[r] = "idle"
         /\ \A q \in Others(r) : pc'[q] = pc[q]
         /\ \/ pc'[r] \in {"check", "lock", "refresh", "ok"}
            \/ pc'[r] = "Unhandled" /\ OwnCause(r)
            \/ /\ pc'[r] = "EntityNotFound"
               /\ txn'[r].kind \in {"get_company", "update_company", "delete_company"}
            \/ /\ pc'[r] = "Unauthorized" /\ txn'[r].kind = "login"
               /\ \E n \in Names :
                    /\ txn'[r].key.name = n
                    /\ \A i \in Ids : Stored(i) => KeyOf(i) # [scope |-> Accounts, name |-> n, spelling |-> Lower]
<1> DEFINE Idle == pc[r] = "idle" /\ \A q \in Others(r) : pc'[q] = pc[q]
<1>0. TypeOK
  BY DEF NamesInv
<1>1. ASSUME NEW n \in Names, NEW s \in Spellings, Login(r, n, s)
      PROVE  /\ Idle
             /\ txn'[r].kind = "login" /\ txn'[r].key.name = n
             /\ \/ pc'[r] = "ok"
                \/ /\ pc'[r] = "Unauthorized"
                   /\ \A i \in Ids : Stored(i) => KeyOf(i) # Clean(n, s)
  <2> DEFINE t == [NoTxn EXCEPT !.kind = "login", !.key = Clean(n, s)]
  <2>1. t \in Txn /\ t.kind = "login" /\ t.key.name = n
    BY CleanKey DEF NoTxn, Txn, Kinds, Rests
  <2>2. \/ Begin(r, t, "ok")
        \/ Begin(r, t, "Unauthorized") /\ \A i \in Ids : Stored(i) => KeyOf(i) # Clean(n, s)
    BY <1>1 DEF Login
  <2> HIDE DEF t
  <2> QED BY <1>0, <2>1, <2>2, BeginEffect
<1>2. ASSUME NEW n \in Names, NEW s \in Spellings, NEW rest \in Rests, Register(r, n, s, rest)
      PROVE  Idle /\ pc'[r] = "check"
  <2> DEFINE t == [NoTxn EXCEPT !.kind = "register", !.rest = rest, !.id = r, !.key = Clean(n, s)]
  <2>1. t \in Txn
    BY CleanKey DEF NoTxn, Txn, Kinds, Inserts, Ids
  <2>2. Begin(r, t, "check")
    BY <1>2 DEF Register
  <2> HIDE DEF t
  <2> QED BY <1>0, <2>1, <2>2, BeginEffect
<1>3. ASSUME NEW u \in Tenants, NEW n \in Names, NEW s \in Spellings, NEW rest \in Rests,
             CreateCompany(r, u, n, s, rest)
      PROVE  Idle /\ pc'[r] = "check"
  <2> DEFINE t == [NoTxn EXCEPT !.kind = "create_company", !.rest = rest, !.id = r,
                                !.key = [scope |-> u, name |-> n, spelling |-> s]]
  <2>1. t \in Txn
    BY DEF NoTxn, Txn, Kinds, Inserts, Ids, Key, Scopes
  <2>2. Begin(r, t, "check")
    BY <1>3 DEF CreateCompany
  <2> HIDE DEF t
  <2> QED BY <1>0, <2>1, <2>2, BeginEffect
<1>4. ASSUME NEW i \in Ids, NEW rest \in Rests, UpdateProfile(r, i, rest)
      PROVE  Idle /\ (pc'[r] \in {"check", "lock", "refresh", "ok"} \/ (pc'[r] = "Unhandled" /\ OwnCause(r)))
  <2> DEFINE t == [NoTxn EXCEPT !.kind = "update_my_profile", !.rest = rest, !.id = i,
                                !.loaded = KeyOf(i), !.by = rows[i].by]
  <2>1. Stored(i) /\ KeyOf(i) \in Key /\ rows[i].by \in SUBSET (Requests \cup {None})
    BY <1>0, <1>4, StoredRow DEF UpdateProfile
  <2>2. t \in Txn /\ t.loaded = KeyOf(i)
    BY <2>1 DEF NoTxn, Txn, Kinds, Updates
  <2>3. \/ KeepKey(r, t, i)
        \/ \E key \in Key, checked \in BOOLEAN : ChangeKey(r, t, key, checked)
    <3>1. ASSUME NEW n \in Names, NEW s \in Spellings
          PROVE  [KeyOf(i) EXCEPT !.spelling = s] \in Key /\ Clean(n, s) \in Key
      BY <2>1, CleanKey DEF Key
    <3>2. \/ KeepKey(r, t, i)
          \/ \E n \in Names \ {Empty}, s \in Spellings :
               ChangeKey(r, t, IF Clean(n, Lower) = KeyOf(i) THEN [KeyOf(i) EXCEPT !.spelling = s]
                               ELSE Clean(n, s), ~(Clean(n, Lower) = KeyOf(i)))
      BY <1>4 DEF UpdateProfile
    <3> HIDE DEF t
    <3> QED BY <3>1, <3>2
  <2> HIDE DEF t
  <2> QED BY <2>1, <2>2, <2>3, KeepKeyEffect, ChangeKeyEffect
<1>5. ASSUME NEW u \in Tenants, NEW i \in Ids, NEW rest \in Rests, UpdateCompany(r, u, i, rest)
      PROVE  /\ Idle
             /\ \/ pc'[r] \in {"check", "lock", "refresh", "ok"}
                \/ pc'[r] = "Unhandled" /\ OwnCause(r)
                \/ pc'[r] = "EntityNotFound" /\ txn'[r].kind = "update_company"
  <2> DEFINE t0 == [NoTxn EXCEPT !.kind = "update_company", !.rest = rest, !.id = i]
             t == [t0 EXCEPT !.loaded = KeyOf(i), !.by = rows[i].by]
  <2>1. CASE ~OwnsCompany(u, i)
    <3>1. Begin(r, t0, "EntityNotFound")
      BY <1>5, <2>1 DEF UpdateCompany
    <3>2. t0 \in Txn /\ t0.kind = "update_company"
      BY DEF NoTxn, Txn, Kinds, Updates
    <3> HIDE DEF t0
    <3> QED BY <1>0, <3>1, <3>2, BeginEffect
  <2>2. CASE OwnsCompany(u, i)
    <3>1. Stored(i) /\ KeyOf(i) \in Key /\ rows[i].by \in SUBSET (Requests \cup {None})
      BY <2>2, OwnedCompany
    <3>2. t \in Txn /\ t.loaded = KeyOf(i)
      BY <3>1 DEF NoTxn, Txn, Kinds, Updates
    <3>3. \/ KeepKey(r, t, i)
          \/ \E key \in Key, checked \in BOOLEAN : ChangeKey(r, t, key, checked)
      <4>1. \A n \in Names, s \in Spellings : [scope |-> u, name |-> n, spelling |-> s] \in Key
        BY DEF Key, Scopes
      <4>2. \/ KeepKey(r, t, i)
            \/ \E n \in Names, s \in Spellings :
                 ChangeKey(r, t, [scope |-> u, name |-> n, spelling |-> s], n # KeyOf(i).name)
        BY <1>5, <2>2 DEF UpdateCompany
      <4> HIDE DEF t
      <4> QED BY <4>1, <4>2
    <3> HIDE DEF t
    <3> QED BY <3>1, <3>2, <3>3, KeepKeyEffect, ChangeKeyEffect
  <2> QED BY <2>1, <2>2
<1>6. ASSUME NEW u \in Tenants, NEW i \in Ids, GetCompany(r, u, i)
      PROVE  /\ Idle
             /\ \/ pc'[r] = "ok"
                \/ pc'[r] = "Unhandled" /\ OwnCause(r)
                \/ pc'[r] = "EntityNotFound" /\ txn'[r].kind = "get_company"
  <2> DEFINE t0 == [NoTxn EXCEPT !.kind = "get_company", !.id = i]
             t == [t0 EXCEPT !.loaded = KeyOf(i)]
  <2>1. CASE ~OwnsCompany(u, i)
    <3>1. Begin(r, t0, "EntityNotFound")
      BY <1>6, <2>1 DEF GetCompany
    <3>2. t0 \in Txn /\ t0.kind = "get_company"
      BY DEF NoTxn, Txn, Kinds, Rests
    <3> HIDE DEF t0
    <3> QED BY <1>0, <3>1, <3>2, BeginEffect
  <2>2. CASE OwnsCompany(u, i)
    <3>1. KeyOf(i) \in Key /\ KeyOf(i).scope # Accounts
      BY <2>2, OwnedCompany
    <3>2. t \in Txn /\ t.loaded = KeyOf(i)
      BY <3>1 DEF NoTxn, Txn, Kinds, Rests
    <3>3. Begin(r, t, Response(KeyOf(i).name))
      BY <1>6, <2>2 DEF GetCompany
    <3> HIDE DEF t
    <3>4. Idle /\ pc'[r] = Response(KeyOf(i).name) /\ txn'[r].loaded = KeyOf(i)
      BY <1>0, <3>2, <3>3, BeginEffect
    <3>5. KeyOf(i).name = Empty => OwnCause(r)
      BY <3>1, <3>4, NamelessCause
    <3> QED BY <3>4, <3>5 DEF Response
  <2> QED BY <2>1, <2>2
<1>7. ASSUME NEW u \in Tenants, NEW i \in Ids, DeleteCompany(r, u, i)
      PROVE  /\ Idle
             /\ \/ pc'[r] = "lock"
                \/ pc'[r] = "EntityNotFound" /\ txn'[r].kind = "delete_company"
  <2> DEFINE t0 == [NoTxn EXCEPT !.kind = "delete_company", !.id = i]
             t == [t0 EXCEPT !.loaded = KeyOf(i)]
  <2>1. CASE ~OwnsCompany(u, i)
    <3>1. Begin(r, t0, "EntityNotFound")
      BY <1>7, <2>1 DEF DeleteCompany
    <3>2. t0 \in Txn /\ t0.kind = "delete_company"
      BY DEF NoTxn, Txn, Kinds, Rests
    <3> HIDE DEF t0
    <3> QED BY <1>0, <3>1, <3>2, BeginEffect
  <2>2. CASE OwnsCompany(u, i)
    <3>1. t \in Txn
      BY <2>2, OwnedCompany DEF NoTxn, Txn, Kinds, Rests
    <3>2. Begin(r, t, "lock")
      BY <1>7, <2>2 DEF DeleteCompany
    <3> HIDE DEF t
    <3> QED BY <1>0, <3>1, <3>2, BeginEffect
  <2> QED BY <2>1, <2>2
<1> HIDE DEF Idle
<1>8. Idle
  BY <1>1, <1>2, <1>3, <1>4, <1>5, <1>6, <1>7 DEF Arrive
<1>9. \/ pc'[r] \in {"check", "lock", "refresh", "ok"}
      \/ pc'[r] = "Unhandled" /\ OwnCause(r)
      \/ /\ pc'[r] = "EntityNotFound"
         /\ txn'[r].kind \in {"get_company", "update_company", "delete_company"}
      \/ /\ pc'[r] = "Unauthorized" /\ txn'[r].kind = "login"
         /\ \E n \in Names :
              txn'[r].key.name = n /\ \A i \in Ids : Stored(i) => KeyOf(i) # Clean(n, Lower)
  <2>1. CASE \E n \in Names, s \in Spellings : Login(r, n, s)
    BY <1>1, <2>1 DEF Clean
  <2>2. CASE \E n \in Names, s \in Spellings, rest \in Rests :
               Register(r, n, s, rest) \/ \E u \in Tenants : CreateCompany(r, u, n, s, rest)
    BY <1>2, <1>3, <2>2
  <2>3. CASE \E i \in Ids, rest \in Rests :
               UpdateProfile(r, i, rest) \/ \E u \in Tenants : UpdateCompany(r, u, i, rest)
    BY <1>4, <1>5, <2>3
  <2>4. CASE \E u \in Tenants, i \in Ids : GetCompany(r, u, i) \/ DeleteCompany(r, u, i)
    BY <1>6, <1>7, <2>4
  <2> QED BY <2>1, <2>2, <2>3, <2>4 DEF Arrive
<1> QED BY <1>8, <1>9 DEF Clean, Idle

\* Nor does any other step change the progress of two requests, and it answers
\* what the statements raise, or refuses its response.
LEMMA ProceedEffect ==
  ASSUME TypeOK, NEW r \in Requests, Proceed(r) \/ Fail(r)
  PROVE  /\ pc[r] \in Working /\ txn' = txn
         /\ \A q \in Others(r) : pc'[q] = pc[q]
         /\ \/ pc'[r] \in Working \cup {"ok", "failed"}
            \/ /\ pc'[r] \in {"EntityAlreadyExists", "Unhandled"}
               /\ Proceed(r)
<1>1. CASE Check(r)
  <2>1. CASE Goto(r, Statement(r)) /\ txn' = txn
    BY <1>1, <2>1 DEF Check, Goto, Statement, Working, TypeOK, Others
  <2>2. CASE Rollback(r, "EntityAlreadyExists") \/ Rollback(r, "Unhandled")
    BY <1>1, <2>2, EndEffect DEF Check, Rollback, Working, Proceed
  <2> QED BY <1>1, <2>1, <2>2 DEF Check
<1>2. CASE Lock(r)
  <2>1. CASE Goto(r, IF txn[r].key = None THEN "commit" ELSE "index") /\ txn' = txn
    BY <1>2, <2>1 DEF Lock, Goto, Working, TypeOK, Others
  <2>2. CASE Rollback(r, "Unhandled")
    BY <1>2, <2>2, EndEffect DEF Lock, Rollback, Working, Proceed
  <2> QED BY <1>2, <2>1, <2>2 DEF Lock
<1>3. CASE Refresh(r)
  <2>1. PICK outcome \in {"ok", "Unhandled"} : Rollback(r, outcome)
    BY <1>3 DEF Refresh, Response
  <2> QED BY <1>3, <2>1, EndEffect DEF Refresh, Rollback, Working, Proceed
<1>4. CASE EnterIndex(r)
  <2>1. CASE Goto(r, "commit") /\ txn' = txn
    BY <1>4, <2>1 DEF EnterIndex, Goto, Working, TypeOK, Others
  <2>2. CASE Rollback(r, "Unhandled")
    BY <1>4, <2>2, EndEffect DEF EnterIndex, Rollback, Working, Proceed
  <2> QED BY <1>4, <2>1, <2>2 DEF EnterIndex
<1>5. CASE Deadlock(r)
  <2>1. pc[r] = "index"
    BY <1>5 DEF Deadlock
  <2> QED BY <1>5, <2>1, EndEffect DEF Deadlock, Rollback, Working, Proceed
<1>6. CASE Commit(r)
  <2>1. PICK outcome \in {"ok", "Unhandled"} : End(r, outcome)
    BY <1>6 DEF Commit, Response
  <2> QED BY <1>6, <2>1, EndEffect DEF Commit, Store, Working, Proceed
<1>7. CASE Fail(r)
  BY <1>7, EndEffect DEF Fail, Rollback, Store, Working
<1> QED BY <1>1, <1>2, <1>3, <1>4, <1>5, <1>6, <1>7 DEF Proceed

LEMMA OneSteps ==
  ASSUME NamesInv, NEW r \in Requests, Next, pc'[r] # pc[r]
  PROVE  Arrive(r) \/ Proceed(r) \/ Fail(r)
<1>1. PICK q \in Requests : Arrive(q) \/ Proceed(q) \/ Fail(q)
  BY DEF Next, Quiet, vars
<1>2. r \notin Others(q)
  BY <1>1, ArriveEffect, ProceedEffect DEF NamesInv
<1> QED BY <1>1, <1>2 DEF Others

\* A sign-in is refused only if every account of that address was stored as it
\* was typed.
THEOREM SignInWorks == Spec => SignInFindsAccount
<1>1. ASSUME NamesInv, [Next]_vars, NEW r \in Requests, pc[r] = "idle", pc'[r] = "Unauthorized",
             NEW i \in Ids, Stored(i), KeyOf(i).scope = Accounts, KeyOf(i).name = txn'[r].key.name
      PROVE  rows[i].typed
  <2>1. Arrive(r)
    <3>1. Next
      BY <1>1 DEF vars
    <3> QED BY <1>1, <3>1, OneSteps, ProceedEffect DEF NamesInv, Working
  <2>2. KeyOf(i) # [scope |-> Accounts, name |-> KeyOf(i).name, spelling |-> Lower]
    BY <1>1, <2>1, ArriveEffect
  <2>3. KeyOf(i) \in Key
    BY <1>1, StoredRow DEF NamesInv
  <2>4. KeyOf(i).spelling # Lower
    BY <1>1, <2>2, <2>3 DEF Key
  <2> QED BY <1>1, <2>4 DEF NamesInv, TypedRows
<1>2. NamesInv /\ [Next]_vars =>
        [ \A r \in Requests :
            pc[r] = "idle" /\ pc'[r] = "Unauthorized" =>
              \A i \in Ids : Stored(i) /\ KeyOf(i).scope = Accounts
                               /\ KeyOf(i).name = txn'[r].key.name => rows[i].typed ]_vars
  BY <1>1
<1> QED
  BY <1>2, NamesInvariant, PTL DEF Spec, SignInFindsAccount

\* A statement answers 409 to a write that may be answered so; it raises what is
\* not declared only for a reason of the request's own, before twins or beside
\* another request.
LEMMA RefusalEffect ==
  ASSUME NamesInv, NEW r \in Requests, Proceed(r), txn' = txn,
         pc'[r] \in {"EntityAlreadyExists", "Unhandled"}, Alone(r)
  PROVE  \/ pc'[r] = "EntityAlreadyExists" /\ txn'[r].kind \in Inserts \cup Updates
         \/ OwnCause(r)
         \/ \E i, j \in Ids : Twins(i, j) /\ Concerns(r, KeyOf(i).scope, KeyOf(i).name)
<1>1. TypeOK /\ Shape(r) /\ AloneSound(r) /\ History /\ KeysUnique /\ TypedRows
  BY DEF NamesInv, OwnInv
<1>2. CASE Check(r)
  <2>1. txn[r].kind \in Inserts \cup Updates /\ txn[r].key # None
    BY <1>1, <1>2 DEF Check, Shape, Working, Writes
  <2>2. CASE Rollback(r, "EntityAlreadyExists")
    BY <1>1, <2>1, <2>2, EndEffect DEF Rollback
  <2>3. CASE \E i, j \in Hits(r) : i # j
    <3>1. PICK i \in Hits(r), j \in Hits(r) : i # j
      BY <2>3
    <3>2. Twins(i, j) /\ i \in Ids /\ j \in Ids
          /\ KeyOf(i).scope = txn[r].key.scope /\ KeyOf(i).name = txn[r].key.name
      BY <1>1, <3>1 DEF Hits, Twins, KeysUnique
    <3> QED BY <2>1, <3>2 DEF Concerns
  <2>4. CASE txn[r].rest = "unstorable"
    BY <2>4 DEF OwnCause
  <2>5. ~Goto(r, Statement(r))
    BY <1>1 DEF Goto, Statement, TypeOK
  <2> QED BY <1>2, <2>2, <2>3, <2>4, <2>5 DEF Check
<1>3. CASE Lock(r)
  <2>1. Stored(txn[r].id)
    BY <1>1, <1>3 DEF Lock, Shape, AloneSound, Working
  <2>2. ~Goto(r, IF txn[r].key = None THEN "commit" ELSE "index")
    BY <1>1 DEF Goto, TypeOK
  <2> QED BY <1>3, <2>1, <2>2 DEF Lock
<1>4. CASE Refresh(r)
  <2>1. /\ Stored(txn[r].id) /\ txn[r].id \in Ids /\ txn[r].loaded \in Key
        /\ KeyOf(txn[r].id) = txn[r].loaded
    BY <1>1, <1>4 DEF Refresh, Shape, AloneSound, Working, Writes
  <2>2. pc'[r] = Response(txn[r].loaded.name)
    BY <1>1, <1>4, <2>1, EndEffect DEF Refresh, Rollback
  <2>3. txn[r].loaded.name = Empty /\ txn[r].loaded.scope # Accounts
    BY <1>1, <2>1, <2>2 DEF Response, TypedRows
  <2> QED BY <2>1, <2>3, NamelessCause
<1>5. CASE EnterIndex(r)
  <2>1. txn[r].kind # "delete_company" /\ pc[r] = "index" /\ txn[r].key # None
    BY <1>1, <1>5 DEF EnterIndex, Shape, Working
  <2>2. ~Goto(r, "commit")
    BY <1>1 DEF Goto, TypeOK
  <2>3. CASE txn[r].rest = "nameless"
    BY <2>3 DEF OwnCause
  <2>4. CASE Taken(r)
    <3>1. PICK i \in Ids \ {txn[r].id} : Stored(i) /\ KeyOf(i) = txn[r].key
      BY <2>4 DEF Taken
    <3>2. i \in Hits(r)
      BY <3>1 DEF Hits
    <3>3. Respells(r)
      BY <1>1, <2>1, <3>2 DEF AloneSound, Working
    <3>4. txn[r].kind \in Updates
      BY <1>1, <2>1, <3>3 DEF Shape, Working, Writes, Respells
    <3>5. /\ Stored(txn[r].id) /\ txn[r].id \in Ids
          /\ KeyOf(txn[r].id).name = txn[r].key.name /\ KeyOf(txn[r].id).scope = txn[r].key.scope
      BY <1>1, <2>1, <3>3, <3>4 DEF AloneSound, Shape, KeyFits, Working, Writes, Respells
    <3>6. Twins(i, txn[r].id) /\ Concerns(r, KeyOf(i).scope, KeyOf(i).name)
      BY <2>1, <3>1, <3>5 DEF Twins, Concerns
    <3> QED BY <3>5, <3>6
  <2> QED BY <1>5, <2>2, <2>3, <2>4 DEF EnterIndex
<1>6. CASE Deadlock(r)
  <2>1. PICK q \in Others(r) : pc[q] = "index"
    BY <1>6 DEF Deadlock, WaitsFor
  <2> QED BY <1>1, <2>1 DEF Alone, History, Replied, Others
<1>7. CASE Commit(r)
  <2>1. pc[r] = "commit" /\ pc[r] \in Working
    BY <1>7 DEF Commit, Working
  <2>2. Written(r) # None /\ Written(r).key.name = Empty
    BY <1>1, <1>7, EndEffect DEF Commit, Response
  <2>3. txn[r].kind # "delete_company"
    BY <2>1, <2>2, WrittenRow
  <2>4. CASE txn[r].key # None
    <3>1. KeyFits(r) /\ Written(r).key = txn[r].key
      BY <2>1, <2>3, <2>4, WrittenRow
    <3>2. txn[r].key \in Key /\ txn[r].key.name = Empty /\ txn[r].key.scope # Accounts
      BY <2>2, <3>1 DEF KeyFits
    <3> QED BY <3>2, NamelessCause
  <2>5. CASE txn[r].key = None
    <3>1. Written(r) = rows[txn[r].id] /\ Stored(txn[r].id) /\ txn[r].id \in Ids /\ Writes(r)
      BY <2>1, <2>3, <2>5, WrittenRow
    <3>2. KeyOf(txn[r].id) = txn[r].loaded /\ txn[r].loaded \in Key
      BY <1>1, <2>1, <3>1 DEF AloneSound, Shape
    <3>3. txn[r].loaded.name = Empty /\ txn[r].loaded.scope # Accounts
      BY <1>1, <2>2, <3>1, <3>2 DEF KeyOf, TypedRows
    <3> QED BY <3>2, <3>3, NamelessCause
  <2> QED BY <2>4, <2>5
<1> QED BY <1>2, <1>3, <1>4, <1>5, <1>6, <1>7 DEF Proceed

\* Endpoints answer what they do not declare only to a request that cannot be
\* stored or answered itself, that concerns a company without a name, that
\* overlapped with another, or where two rows had the name already.
THEOREM UndeclaredOnlyWithCause == Spec => UndeclaredHasCause
<1>1. ASSUME NamesInv, [Next]_vars, NEW r \in Requests, pc'[r] \in Exceptions, pc[r] \notin Exceptions,
             StatusOf[pc'[r]] \notin Responses(txn'[r].kind)
      PROVE  \/ OwnCause(r)
             \/ \E i, j \in Ids : Twins(i, j) /\ Concerns(r, KeyOf(i).scope, KeyOf(i).name)
             \/ \E q \in Others(r) : pc[q] # "idle" /\ q \notin txn'[r].before
  <2>1. TypeOK /\ Next
    BY <1>1 DEF NamesInv, vars
  <2>2. Arrive(r) \/ Proceed(r) \/ Fail(r)
    BY <1>1, <2>1, OneSteps
  <2>3. CASE Arrive(r)
    BY <1>1, <2>3, ArriveEffect, Statuses, DeclaredAnswers DEF Working
  <2>4. CASE Proceed(r) \/ Fail(r)
    <3>1. pc'[r] \in {"EntityAlreadyExists", "Unhandled"} /\ txn' = txn /\ Proceed(r)
      BY <1>1, <2>1, <2>4, ProceedEffect, Statuses
    <3>2. ~(pc'[r] = "EntityAlreadyExists" /\ txn'[r].kind \in Inserts \cup Updates)
      BY <1>1, Statuses, DeclaredAnswers
    <3>3. Alone(r) \/ \E q \in Others(r) : pc[q] # "idle" /\ q \notin txn'[r].before
      BY <3>1 DEF Alone
    <3> QED BY <1>1, <3>1, <3>2, <3>3, RefusalEffect
  <2> QED BY <2>2, <2>3, <2>4
<1>2. NamesInv /\ [Next]_vars =>
        [ \A r \in Requests :
            pc'[r] \in Exceptions /\ pc[r] \notin Exceptions
              /\ StatusOf[pc'[r]] \notin Responses(txn'[r].kind)
            => \/ txn'[r].rest # "plain"
               \/ \E u \in Tenants : Concerns(r, u, Empty)
               \/ \E i, j \in Ids : Twins(i, j) /\ Concerns(r, KeyOf(i).scope, KeyOf(i).name)
               \/ \E q \in Others(r) : pc[q] # "idle" /\ q \notin txn'[r].before ]_vars
  BY <1>1 DEF OwnCause
<1> QED
  BY <1>2, NamesInvariant, PTL DEF Spec, UndeclaredHasCause
=============================================================================
