---------------------------- MODULE Attachments ----------------------------
(***************************************************************************)
(* What hangs on an application: interviews and follow-ups, which refer to  *)
(* it by a foreign key with ON DELETE CASCADE, and notes, which name their  *)
(* parent (an application or an interview; a company behaves like an        *)
(* application) by type and id, without a foreign key.                      *)
(*                                                                         *)
(* Requests run concurrently, each in one READ COMMITTED transaction: a     *)
(* SELECT for the parent or the row itself, the statement that writes, the  *)
(* commit, and a response that is built from the row and whose schema is     *)
(* stricter than the table: services strip a text that the request schema    *)
(* found long enough, and the response schema refuses the empty text that    *)
(* may be left, also when the row is read or updated later.                  *)
(***************************************************************************)
EXTENDS HttpApi

CONSTANTS
  Users,
  Referring,     \* kinds with a foreign key: interviews, follow-ups
  Applications,  \* applications that are there when the system starts
  Requests,      \* requests that clients send, each at most once
  Fallible,      \* requests whose process or connection may die midway
  None           \* an absent row, no parent

Kinds == Referring \cup {"note"}
Texts == {"filled", "blank"}

\* What a request says of the title or content, stripped; "unset" for a PATCH
\* that leaves it alone, "unstorable" if the table refuses something in the
\* request: an explicit null, a NUL character, a number out of range.
Asked == Texts \cup {"unset", "unstorable"}

\* A row has the id of the request that inserted it.
Ids == Applications \cup Requests

Row == [ kind   : Kinds \cup {"application"},
         user   : Users,
         parent : Ids \cup {None},
         text   : Texts ]

\* What the constants must satisfy.
AttachmentsConstants ==
  /\ Referring \subseteq {"interview", "follow_up"}
  /\ Applications \cap Requests = {}
  /\ None \notin Ids
  /\ None \notin Row
  /\ Fallible \subseteq Requests

\* What a request asks for; id is the row it writes.
Txn == [ op     : {"none", "create", "read", "list", "update", "delete"},
         kind   : Kinds \cup {"application"},
         user   : Users \cup {None},
         id     : Ids \cup {None},
         parent : Ids \cup {None},
         text   : Asked ]

Working == {"insert", "select", "refresh", "write", "commit"}
Replied == {"ok", "failed", "Unhandled", "EntityNotFound"}

VARIABLES
  rows,  \* applications, interviews, follow_ups and notes: committed rows, or None
  pc,    \* progress of each request; in Replied, how it ended
  txn,   \* parameters of each request
  committed  \* for the properties only: requests whose change is committed

vars == <<rows, pc, txn, committed>>

TypeOK ==
  /\ rows \in [Ids -> Row \cup {None}]
  /\ pc \in [Requests -> {"idle"} \cup Working \cup Replied]
  /\ txn \in [Requests -> Txn]
  /\ committed \subseteq Requests

-----------------------------------------------------------------------------
(* The first statement of each handler.                                     *)

Stored(i) == rows[i] # None

\* get_by_id_and_user
Owns(u, i) == i \in Ids /\ Stored(i) /\ rows[i].user = u

\* Mutant: the parent may be anything.
MayHoldUnchecked(kind, u, p) == TRUE

\* _verify_parent_entity_access, or the check of the application.
MayHold(kind, u, p) ==
  /\ Owns(u, p)
  /\ rows[p].kind \in {"application"} \cup IF kind = "note" THEN {"interview"} ELSE {}

\* A request that is refused at once leaves nothing behind.
Begin(r, t, found, labels) ==
  /\ pc[r] = "idle"
  /\ \/ /\ found
        /\ txn' = [txn EXCEPT ![r] = t]
        /\ \E label \in labels : pc' = [pc EXCEPT ![r] = label]
     \/ ~found /\ pc' = [pc EXCEPT ![r] = "EntityNotFound"] /\ UNCHANGED txn
  /\ UNCHANGED <<rows, committed>>

\* create_interview, create_follow_up, create_note.  The INSERT of what the table
\* refuses raises at once.
CreateBegin(r, u, kind, p, text) ==
  /\ text # "unset"
  /\ Begin(r, [op |-> "create", kind |-> kind, user |-> u, id |-> r, parent |-> p, text |-> text],
           MayHold(kind, u, p), {IF text = "unstorable" THEN "Unhandled" ELSE "insert"})

\* list_interviews, list_follow_ups_for_application, list_notes_for_entity
ListBegin(r, u, kind, p) ==
  Begin(r, [op |-> "list", kind |-> kind, user |-> u, id |-> None, parent |-> p, text |-> "unset"],
        MayHold(kind, u, p), {"select"})

\* Mutant: the response is built without its schema.
ResponseUnchecked(text) == "ok"

\* InterviewRead, FollowUpRead and NoteRead demand a title or content.
Response(text) == IF text = "blank" THEN "Unhandled" ELSE "ok"

\* How a PATCH goes on.  Without the title it writes other columns, finds that
\* none changes, or is empty and answered from the row as it was read.  A title
\* stripped to nothing is no change of one that is empty already.
Answers(i, text) ==
  CASE text = "unstorable" -> {"Unhandled"}
    [] text = "unset"      -> {"write", "refresh", Response(rows[i].text)}
    [] OTHER               -> IF text = "blank" /\ rows[i].text = "blank" THEN {} ELSE {"write"}

\* update_interview, update_follow_up; there is no such endpoint for notes.
UpdateBegin(r, u, kind, i, text) ==
  /\ kind \in Referring
  /\ Begin(r, [op |-> "update", kind |-> kind, user |-> u, id |-> i, parent |-> None, text |-> text],
           Owns(u, i) /\ rows[i].kind = kind, Answers(i, text))

\* get_interview, get_follow_up, answered from the row as it is read.
ReadBegin(r, u, kind, i) ==
  /\ kind \in Referring
  /\ Begin(r, [op |-> "read", kind |-> kind, user |-> u, id |-> i, parent |-> None, text |-> "unset"],
           Owns(u, i) /\ rows[i].kind = kind, {Response(rows[i].text)})

\* delete_interview, delete_follow_up, delete_note, and delete_application
\* with regard to what hangs on it.
DeleteBegin(r, u, kind, i) ==
  Begin(r, [op |-> "delete", kind |-> kind, user |-> u, id |-> i, parent |-> None, text |-> "unset"],
        Owns(u, i) /\ rows[i].kind = kind, {"write"})

-----------------------------------------------------------------------------
(* Statements.  A transaction with a pending write waits at "commit"; what   *)
(* it locks follows from what it writes.                                    *)

Goto(r, label) == pc' = [pc EXCEPT ![r] = label] /\ UNCHANGED <<rows, txn, committed>>

Others(r) == Requests \ {r}

Pending(q, op) == pc[q] = "commit" /\ txn[q].op = op

\* The rows that disappear with i: itself and those that refer to it.
Cascade(i) == {i} \cup { j \in Ids : Stored(j) /\ rows[j].kind \in Referring /\ rows[j].parent = i }

\* The rows that r updates or deletes.
Targets(r) == IF txn[r].op = "delete" THEN Cascade(txn[r].id) ELSE {txn[r].id}

Written(q) == IF Pending(q, "update") \/ Pending(q, "delete") THEN Targets(q) ELSE {}

\* Mutant: inserted rows do not lock what they refer to.
ReferredNever(q, i) == FALSE

\* q has inserted a row whose foreign key locks i.
Referred(q, i) == Pending(q, "create") /\ txn[q].kind \in Referring /\ txn[q].parent = i

\* INSERT.  A foreign key waits for a deletion of the parent, and fails if it
\* is gone (IntegrityError); a note does neither.
Insert(r) ==
  LET p == txn[r].parent
      refers == txn[r].kind \in Referring
  IN /\ pc[r] = "insert"
     /\ refers => \A q \in Others(r) : ~(Pending(q, "delete") /\ p \in Written(q))
     /\ Goto(r, IF refers /\ ~Stored(p) THEN "Unhandled" ELSE "commit")

\* UPDATE or DELETE.  If the row is gone the UPDATE raises StaleDataError, and
\* the DELETE only warns.
Write(r) ==
  /\ pc[r] = "write"
  /\ \A q \in Others(r) : Written(q) \cap Targets(r) = {}
  /\ txn[r].op = "delete" => \A q \in Others(r) : ~Referred(q, txn[r].id)
  /\ Goto(r, IF Stored(txn[r].id) \/ txn[r].op = "delete" THEN "commit" ELSE "Unhandled")

Committed(r) ==
  LET t == txn[r]
  IN [i \in Ids |->
        CASE t.op = "create" /\ i = r        -> [kind |-> t.kind, user |-> t.user,
                                                 parent |-> t.parent, text |-> t.text]
          [] t.op = "update" /\ i = t.id /\ t.text # "unset" -> [rows[i] EXCEPT !.text = t.text]
          [] t.op = "delete" /\ i \in Cascade(t.id) -> None
          [] OTHER                           -> rows[i]]

\* The commit, and the response from the row as committed; a deletion has none.
Commit(r) ==
  LET t == txn[r]
  IN /\ pc[r] = "commit"
     /\ rows' = Committed(r)
     /\ committed' = committed \cup {r}
     /\ pc' = [pc EXCEPT ![r] = IF t.op = "delete" THEN "ok" ELSE Response(Committed(r)[t.id].text)]
     /\ UNCHANGED txn

\* session.refresh of a row that was not changed: it raises if the row is gone.
Refresh(r) ==
  LET i == txn[r].id
  IN pc[r] = "refresh" /\ Goto(r, IF Stored(i) THEN Response(rows[i].text) ELSE "Unhandled")

\* list_by_application, list_by_entity
Listed(r) ==
  { i \in Ids : /\ Stored(i)
                /\ rows[i].kind = txn[r].kind
                /\ rows[i].parent = txn[r].parent
                /\ rows[i].user = txn[r].user }

\* The rows, read after the parent was verified; one that the response schema
\* refuses spoils the whole list.
Select(r) ==
  /\ pc[r] = "select"
  /\ Goto(r, IF \E i \in Listed(r) : Response(rows[i].text) # "ok" THEN "Unhandled" ELSE "ok")

\* The process dies or the connection drops, perhaps after the commit.
Fail(r) ==
  /\ r \in Fallible
  /\ pc[r] \in Working
  /\ pc' = [pc EXCEPT ![r] = "failed"]
  /\ \/ UNCHANGED <<rows, committed>>
     \/ pc[r] = "commit" /\ rows' = Committed(r) /\ committed' = committed \cup {r}
  /\ UNCHANGED txn

-----------------------------------------------------------------------------

NoTxn == [op |-> "none", kind |-> "note", user |-> None, id |-> None, parent |-> None, text |-> "unset"]

Init ==
  /\ \E owner \in [Applications -> Users] :
       rows = [i \in Ids |->
                 IF i \in Applications
                 THEN [kind |-> "application", user |-> owner[i], parent |-> None, text |-> "filled"]
                 ELSE None]
  /\ pc = [r \in Requests |-> "idle"]
  /\ txn = [r \in Requests |-> NoTxn]
  /\ committed = {}

Arrive(r) ==
  \E u \in Users :
    \/ \E kind \in Kinds, p \in Ids :
         ListBegin(r, u, kind, p) \/ \E text \in Asked : CreateBegin(r, u, kind, p, text)
    \/ \E kind \in Kinds \cup {"application"}, i \in Ids :
         \/ DeleteBegin(r, u, kind, i)
         \/ ReadBegin(r, u, kind, i)
         \/ \E text \in Asked : UpdateBegin(r, u, kind, i, text)

Proceed(r) == Insert(r) \/ Write(r) \/ Refresh(r) \/ Commit(r) \/ Select(r)

Quiet == (\A r \in Requests : pc[r] \in Replied) /\ UNCHANGED vars

Next ==
  \/ \E r \in Requests : Arrive(r) \/ Proceed(r) \/ Fail(r)
  \/ Quiet

Spec == Init /\ [][Next]_vars

-----------------------------------------------------------------------------
(* Properties.                                                              *)

\* Interviews and follow-ups never outlive their application, and whatever has
\* a parent belongs to the parent's owner, so the lists, which filter by owner,
\* leave nothing out.  (Notes do outlive their parents; nobody finds them then.)
NoStrayChildren ==
  \A i \in Ids : Stored(i) /\ rows[i].parent # None =>
    /\ rows[i].kind \in Referring => Stored(rows[i].parent)
    /\ Stored(rows[i].parent) => Owns(rows[i].user, rows[i].parent)

\* Somebody has committed an empty title or content for the row i, and was not
\* told that all was well.
Spoilt(i) ==
  \E q \in committed : /\ txn[q].op \in {"create", "update"} /\ txn[q].id = i
                       /\ txn[q].text = "blank" /\ pc[q] \in {"Unhandled", "failed"}

\* A request that was refused has changed nothing, unless it wrote to a row whose
\* text, now or before, a service stripped to nothing; and every row that makes
\* responses fail comes from such a request, never from one that was answered 2xx.
LateRefusalsSpoilt ==
  /\ \A r \in committed :
       pc[r] \in Exceptions => txn[r].op \in {"create", "update"} /\ Spoilt(txn[r].id)
  /\ \A i \in Ids : Stored(i) /\ rows[i].text = "blank" => Spoilt(i)

Declared == [ interview   |-> InterviewResponses,
              follow_up   |-> FollowUpResponses,
              note        |-> NoteResponses,
              application |-> ApplicationResponses ]

Blank(i) == Stored(i) /\ rows[i].text = "blank"

\* An answer that the endpoint does not declare has one of these reasons: the
\* request's own text was stripped to nothing, or the table refuses what it
\* asked for; a row that it reads or updates, or that it lists, had its text
\* stripped to nothing before; or what it checked has been deleted since.
Explained(r) ==
  LET t == txn'[r]
  IN pc'[r] \in Exceptions /\ pc[r] # pc'[r] /\ t.op # "none"
       /\ StatusOf[pc'[r]] \notin Declared[t.kind][t.op]
     => \/ t.text \in {"blank", "unstorable"}
        \/ t.op \in {"read", "update"} /\ Blank(t.id)
        \/ t.op = "list" /\ \E i \in Listed(r) : Blank(i)
        \/ t.op \in {"create", "update"} /\ \E q \in Others(r) \cap committed : txn[q].op = "delete"

\* Every answer that the endpoint does not declare is explained so.  A parent
\* or a row that was missing from the beginning is answered 404.
UndeclaredExplained == [][\A r \in Requests : Explained(r)]_vars
=============================================================================
