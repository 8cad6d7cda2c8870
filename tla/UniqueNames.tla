---------------------------- MODULE UniqueNames ----------------------------
(***************************************************************************)
(* Names that must be unique: e-mail addresses of accounts (AuthService,    *)
(* UserService) and names of a user's companies (CompanyService).  Handlers *)
(* look for the name and write later; the unique index of the table, which  *)
(* compares exact spellings, has the last word.                             *)
(*                                                                         *)
(* Requests run concurrently, each in one READ COMMITTED transaction.  An   *)
(* UPDATE or DELETE takes the lock of its row, then its entry in the index; *)
(* an INSERT only the latter.  Both wait for a transaction that holds the   *)
(* row, that has an entry of the same key pending, or that is about to take *)
(* the key away, and the deadlock detector ends circular waits.             *)
(*                                                                         *)
(* Responses are built from the rows, and their schemas are stricter than    *)
(* the tables: a company whose name was stripped to nothing is stored, but   *)
(* every answer about it fails.                                              *)
(*                                                                         *)
(* The table holds committed rows.  The ids of rows that were there before  *)
(* are the rows themselves.                                                 *)
(***************************************************************************)
EXTENDS HttpApi

CONSTANTS
  Tenants,    \* users who own companies
  Names,      \* addresses and company names, up to upper and lower case
  Spellings,  \* ways to write a name
  Lower,      \* the spelling in lower case
  Empty,      \* what is left of a company's name of spaces only
  OldTables,  \* contents that the table may have when the system starts
  Requests,   \* requests that clients send, each at most once
  Fallible,   \* requests whose process or connection may die midway
  Accounts,   \* the scope of e-mail addresses
  None        \* an absent row, no key, no request

Scopes == Tenants \cup {Accounts}

\* A key of the unique indexes users(email) and companies(user_id, name).
Key == [scope : Scopes, name : Names, spelling : Spellings]

\* An address is not empty, and the empty name is written in one way.
Possible(k) == k.name = Empty => k.scope # Accounts /\ k.spelling = Lower

\* For the properties only: typed, a profile update has stored the address as
\* the client typed it; by, the requests that the row has its name from, None
\* for a name from before.
Row == [key : Key, typed : BOOLEAN, by : SUBSET (Requests \cup {None})]

Ids == (UNION OldTables) \cup Requests

Inserts == {"register", "create_company"}
Updates == {"update_my_profile", "update_company"}
Kinds   == {"none", "login", "get_company", "delete_company"} \cup Inserts \cup Updates

\* What else a request brings: values that the table takes, a full name of spaces
\* only, or something that the table refuses (an explicit null, a NUL character).
Rests == {"plain", "nameless", "unstorable"}

ASSUME NamesAssumption ==
  /\ Lower \in Spellings
  /\ Accounts \notin Tenants
  /\ None \notin Requests
  /\ None \notin Key
  /\ None \notin Ids
  /\ \A S \in OldTables : S \subseteq Row
  /\ \A S \in OldTables : \A i, j \in S : i.key = j.key => i = j
  /\ \A S \in OldTables : \A i \in S :
       /\ i.by = {None} /\ i.key.name # Empty
       /\ i.typed <=> i.key.scope = Accounts /\ i.key.spelling # Lower
  /\ (UNION OldTables) \cap Requests = {}
  /\ Fallible \subseteq Requests

\* What a request knows: the row it writes, the key it read there, the key it
\* wants, None if it wants no other.  For the properties only: by, what the row
\* had; before, the requests that had been answered when it began.
Txn == [ kind   : Kinds,
         rest   : Rests,
         id     : Ids \cup {None},
         loaded : Key \cup {None},
         key    : Key \cup {None},
         by     : SUBSET (Requests \cup {None}),
         before : SUBSET Requests ]

NoTxn == [kind |-> "none", rest |-> "plain", id |-> None, loaded |-> None, key |-> None, by |-> {}, before |-> {}]

Working == {"check", "lock", "index", "refresh", "commit"}
Replied == {"ok", "failed", "Unhandled", "EntityNotFound", "EntityAlreadyExists",
            "Unauthorized"}

VARIABLES
  rows,    \* tables users and companies: a committed row per id, or None
  pc,      \* progress of each request; in Replied, how it ended
  txn,     \* parameters and reads of each request
  locked,  \* the row that a request's open transaction has locked
  entry    \* the key that it has entered into the index

vars == <<rows, pc, txn, locked, entry>>

TypeOK ==
  /\ rows \in [Ids -> Row \cup {None}]
  /\ pc \in [Requests -> {"idle"} \cup Working \cup Replied]
  /\ txn \in [Requests -> Txn]
  /\ locked \in [Requests -> Ids \cup {None}]
  /\ entry \in [Requests -> Key \cup {None}]

-----------------------------------------------------------------------------
(* The first statement of each handler.                                     *)

Stored(i) == rows[i] # None
KeyOf(i)  == rows[i].key

Begin(r, t, label) ==
  /\ pc[r] = "idle"
  /\ txn' = [txn EXCEPT ![r] = [t EXCEPT !.before = { q \in Requests : pc[q] \in Replied }]]
  /\ pc' = [pc EXCEPT ![r] = label]
  /\ UNCHANGED <<rows, locked, entry>>

\* Mutant: addresses are looked up and stored as they are typed.
CleanAsTyped(n, s) == [scope |-> Accounts, name |-> n, spelling |-> s]

\* email.lower().strip()
Clean(n, s) == [scope |-> Accounts, name |-> n, spelling |-> Lower]

\* Mutant: registration relies on the unique index alone.
RegisterUnchecked(r, n, s, rest) ==
  Begin(r, [NoTxn EXCEPT !.kind = "register", !.id = r, !.key = Clean(n, s)], "index")

\* POST /auth/register
Register(r, n, s, rest) ==
  /\ n # Empty
  /\ Begin(r, [NoTxn EXCEPT !.kind = "register", !.rest = rest, !.id = r, !.key = Clean(n, s)], "check")

\* POST /auth/login with the right password: the account is found by its
\* address in lower case.
Login(r, n, s) ==
  /\ n # Empty
  /\ Begin(r, [NoTxn EXCEPT !.kind = "login", !.key = Clean(n, s)],
           IF \E i \in Ids : Stored(i) /\ KeyOf(i) = Clean(n, s) THEN "ok" ELSE "Unauthorized")

\* CompanyRead demands a name; no other response depends on what is modelled.
Response(n) == IF n = Empty THEN "Unhandled" ELSE "ok"

\* A PATCH of the row i goes on: it writes other columns, finds that none changes,
\* or is empty and answered from the row as it was read.
KeepKey(r, t, i) ==
  \/ t.rest = "plain" /\ \E label \in {"lock", "refresh", Response(KeyOf(i).name)} : Begin(r, t, label)
  \/ t.rest = "unstorable" /\ Begin(r, t, "Unhandled")

\* It writes the key as well, if the table takes the rest.
ChangeKey(r, t, key, checked) ==
  /\ t.rest # "nameless"
  /\ Begin(r, [t EXCEPT !.key = key],
           IF checked THEN "check" ELSE IF t.rest = "unstorable" THEN "Unhandled" ELSE "lock")

\* PATCH /users/me.  An address that differs from the stored one by case only is
\* neither checked nor normalised.
UpdateProfile(r, i, rest) ==
  LET t            == [NoTxn EXCEPT !.kind = "update_my_profile", !.rest = rest, !.id = i,
                                    !.loaded = KeyOf(i), !.by = rows[i].by]
      respelled(n) == Clean(n, Lower) = KeyOf(i)
  IN /\ Stored(i) /\ KeyOf(i).scope = Accounts
     /\ \/ KeepKey(r, t, i)
        \/ \E n \in Names \ {Empty}, s \in Spellings :
             LET key == IF respelled(n) THEN [KeyOf(i) EXCEPT !.spelling = s] ELSE Clean(n, s)
             IN key # KeyOf(i) /\ ChangeKey(r, t, key, ~respelled(n))

\* POST /companies
CreateCompany(r, u, n, s, rest) ==
  LET key == [scope |-> u, name |-> n, spelling |-> s]
  IN /\ Possible(key) /\ rest # "nameless"
     /\ Begin(r, [NoTxn EXCEPT !.kind = "create_company", !.rest = rest, !.id = r, !.key = key], "check")

\* get_by_id_and_user
OwnsCompany(u, i) == Stored(i) /\ KeyOf(i).scope = u

\* GET /companies/{id}, answered from the row as it is read.
GetCompany(r, u, i) ==
  LET t == [NoTxn EXCEPT !.kind = "get_company", !.id = i]
  IN \/ ~OwnsCompany(u, i) /\ Begin(r, t, "EntityNotFound")
     \/ OwnsCompany(u, i) /\ Begin(r, [t EXCEPT !.loaded = KeyOf(i)], Response(KeyOf(i).name))

\* PATCH /companies/{id}.  A respelling of the own name is not checked; the name
\* that was read is no change.
UpdateCompany(r, u, i, rest) ==
  LET t     == [NoTxn EXCEPT !.kind = "update_company", !.rest = rest, !.id = i]
      found == [t EXCEPT !.loaded = KeyOf(i), !.by = rows[i].by]
  IN \/ ~OwnsCompany(u, i) /\ Begin(r, t, "EntityNotFound")
     \/ OwnsCompany(u, i) /\ KeepKey(r, found, i)
     \/ /\ OwnsCompany(u, i)
        /\ \E n \in Names, s \in Spellings :
             LET key == [scope |-> u, name |-> n, spelling |-> s]
             IN Possible(key) /\ key # KeyOf(i) /\ ChangeKey(r, found, key, n # KeyOf(i).name)

\* DELETE /companies/{id}, a company without applications.
DeleteCompany(r, u, i) ==
  LET t == [NoTxn EXCEPT !.kind = "delete_company", !.id = i]
  IN \/ ~OwnsCompany(u, i) /\ Begin(r, t, "EntityNotFound")
     \/ OwnsCompany(u, i) /\ Begin(r, [t EXCEPT !.loaded = KeyOf(i)], "lock")

-----------------------------------------------------------------------------
(* The check, the statement, the commit.                                    *)

Goto(r, label) == pc' = [pc EXCEPT ![r] = label]

\* Mutant: the session of a request is not closed.
EndOpen(r, outcome) == Goto(r, outcome) /\ UNCHANGED <<locked, entry>>

\* The transaction ends, by a commit or a rollback, and so does the request.
End(r, outcome) ==
  /\ Goto(r, outcome)
  /\ locked' = [locked EXCEPT ![r] = None]
  /\ entry' = [entry EXCEPT ![r] = None]

Rollback(r, outcome) == End(r, outcome) /\ UNCHANGED <<rows, txn>>

\* email_exists compares exact addresses; name_exists_for_user compares names
\* in lower case and leaves out the company that is updated.
Hits(r) ==
  LET k == txn[r].key
  IN { i \in Ids :
         /\ Stored(i)
         /\ IF k.scope = Accounts THEN KeyOf(i) = k
            ELSE KeyOf(i).scope = k.scope /\ KeyOf(i).name = k.name
         /\ txn[r].kind = "update_company" => i # txn[r].id }

Statement(r) == IF txn[r].kind \in Inserts THEN "index" ELSE "lock"

\* Mutant: a new company is compared with the others by exact spelling.
CheckExactly(r) ==
  /\ pc[r] = "check"
  /\ \/ (\A i \in Hits(r) : KeyOf(i) # txn[r].key) /\ Goto(r, Statement(r)) /\ UNCHANGED <<rows, txn, locked, entry>>
     \/ (\E i \in Hits(r) : KeyOf(i) = txn[r].key) /\ Rollback(r, "EntityAlreadyExists")

\* The SELECT for the name, without a lock.  scalar_one_or_none raises when it
\* finds several companies; a statement that the table refuses raises next.
Check(r) ==
  /\ pc[r] = "check"
  /\ \/ /\ Hits(r) = {} /\ txn[r].rest # "unstorable"
        /\ Goto(r, Statement(r)) /\ UNCHANGED <<rows, txn, locked, entry>>
     \/ Hits(r) = {} /\ txn[r].rest = "unstorable" /\ Rollback(r, "Unhandled")
     \/ (\E i \in Hits(r) : Hits(r) = {i}) /\ Rollback(r, "EntityAlreadyExists")
     \/ (\E i, j \in Hits(r) : i # j) /\ Rollback(r, "Unhandled")

Others(r) == Requests \ {r}

\* An UPDATE or DELETE waits for other writers of the row.  If they have
\* deleted it, the UPDATE raises StaleDataError and a DELETE only warns.  Only
\* one that changes the key needs the index.
Lock(r) ==
  LET i      == txn[r].id
      delete == txn[r].kind = "delete_company"
  IN /\ pc[r] = "lock"
     /\ \A q \in Others(r) : locked[q] # i
     /\ \/ ~Stored(i) /\ ~delete /\ Rollback(r, "Unhandled")
        \/ /\ Stored(i) \/ delete
           /\ locked' = [locked EXCEPT ![r] = i]
           /\ Goto(r, IF txn[r].key = None THEN "commit" ELSE "index")
           /\ UNCHANGED <<rows, txn, entry>>

\* session.refresh of a row that was not changed: it raises if the row is gone.
Refresh(r) ==
  LET i == txn[r].id
  IN pc[r] = "refresh" /\ Rollback(r, IF Stored(i) THEN Response(KeyOf(i).name) ELSE "Unhandled")

\* Requests whose transactions decide about the key that r wants.
WaitsFor(r) ==
  { q \in Others(r) :
      \/ entry[q] = txn[r].key
      \/ locked[q] # None /\ Stored(locked[q]) /\ KeyOf(locked[q]) = txn[r].key }

Taken(r) == \E i \in Ids \ {txn[r].id} : Stored(i) /\ KeyOf(i) = txn[r].key

\* The flush: the new entry of the unique index, or IntegrityError.  A nameless
\* account is refused by UserRead, which the tokens come with, before the commit.
EnterIndex(r) ==
  /\ pc[r] = "index"
  /\ WaitsFor(r) = {}
  /\ \/ (Taken(r) \/ txn[r].rest = "nameless") /\ Rollback(r, "Unhandled")
     \/ /\ ~Taken(r) /\ txn[r].rest # "nameless"
        /\ entry' = [entry EXCEPT ![r] = txn[r].key]
        /\ Goto(r, "commit")
        /\ UNCHANGED <<rows, txn, locked>>

\* PostgreSQL aborts a transaction of a cycle in which each waits for another.
Deadlock(r) ==
  /\ \E S \in SUBSET Requests :
       r \in S /\ \A q \in S : pc[q] = "index" /\ WaitsFor(q) \cap S # {}
  /\ Rollback(r, "Unhandled")

\* The name that r read, in another spelling.
Respells(r) == txn[r].loaded # None /\ txn[r].loaded.name = txn[r].key.name

\* The row as the statements leave it.  A respelling may give back a name
\* that another request has changed meanwhile.
NewRow(r) ==
  LET t == txn[r]
      renamed == ~Stored(t.id) \/ KeyOf(t.id).name # t.key.name
  IN [ key   |-> t.key,
       typed |-> t.kind = "update_my_profile" /\ Respells(r) /\ t.key.spelling # Lower,
       by    |-> IF ~renamed THEN rows[t.id].by
                 ELSE {r} \cup IF Respells(r) THEN t.by ELSE {} ]

Written(r) ==
  IF txn[r].kind = "delete_company" THEN None
  ELSE IF txn[r].key = None THEN rows[txn[r].id] ELSE NewRow(r)

Store(r) == rows' = [rows EXCEPT ![txn[r].id] = Written(r)] /\ UNCHANGED txn

\* The commit, and the response from the row; a deletion has none.
Commit(r) ==
  /\ pc[r] = "commit"
  /\ Store(r)
  /\ End(r, IF Written(r) = None THEN "ok" ELSE Response(Written(r).key.name))

\* The process dies or the connection drops, perhaps after the commit.
Fail(r) ==
  /\ r \in Fallible
  /\ \/ pc[r] \in Working /\ Rollback(r, "failed")
     \/ pc[r] = "commit" /\ Store(r) /\ End(r, "failed")

-----------------------------------------------------------------------------

Init ==
  /\ \E S \in OldTables : rows = [i \in Ids |-> IF i \in S THEN i ELSE None]
  /\ pc = [r \in Requests |-> "idle"]
  /\ txn = [r \in Requests |-> NoTxn]
  /\ locked = [r \in Requests |-> None]
  /\ entry = [r \in Requests |-> None]

Arrive(r) ==
  /\ pc[r] = "idle"
  /\ \/ \E n \in Names, s \in Spellings :
          \/ Login(r, n, s)
          \/ \E rest \in Rests : Register(r, n, s, rest)
          \/ \E u \in Tenants, rest \in Rests : CreateCompany(r, u, n, s, rest)
     \/ \E i \in Ids, rest \in Rests :
          \/ UpdateProfile(r, i, rest)
          \/ \E u \in Tenants : UpdateCompany(r, u, i, rest)
     \/ \E u \in Tenants, i \in Ids : GetCompany(r, u, i) \/ DeleteCompany(r, u, i)

Proceed(r) == Check(r) \/ Lock(r) \/ Refresh(r) \/ EnterIndex(r) \/ Deadlock(r) \/ Commit(r)

Quiet == (\A r \in Requests : pc[r] \in Replied) /\ UNCHANGED vars

Next ==
  \/ \E r \in Requests : Arrive(r) \/ Proceed(r) \/ Fail(r)
  \/ Quiet

Spec == Init /\ [][Next]_vars

\* Awaited statements come back; PostgreSQL grants free locks and ends
\* deadlocks.  Clients need not send anything.
FairSpec == Spec /\ \A r \in Requests : WF_vars(Proceed(r))

-----------------------------------------------------------------------------
(* Properties.                                                              *)

Twins(i, j) ==
  /\ i # j /\ Stored(i) /\ Stored(j)
  /\ KeyOf(i).scope = KeyOf(j).scope /\ KeyOf(i).name = KeyOf(j).name

\* Neither had been answered when the other began.
Overlap(q, r) == q \notin txn[r].before /\ r \notin txn[q].before

\* The indexes do their work: no two rows have one key, whatever is pending.
KeysUnique == \A i, j \in Ids : Stored(i) /\ Stored(j) /\ KeyOf(i) = KeyOf(j) => i = j

\* Both names are from before, or two of the requests they come from overlapped.
Excused(B, C) ==
  \/ None \in B \cap C
  \/ \E b \in B \ {None}, c \in C \ {None} : b # c /\ Overlap(b, c)

\* Two companies of a user whose names differ only by case have them from
\* requests that overlapped, if not from before the system started.
TwinsOverlap ==
  \A i, j \in Ids : Twins(i, j) /\ KeyOf(i).scope # Accounts => Excused(rows[i].by, rows[j].by)

Responses(kind) ==
  CASE kind \in {"register", "login"} -> AuthResponses[kind]
    [] kind = "update_my_profile"     -> UserResponses[kind]
    [] OTHER                          -> CompanyResponses[kind]

\* r asks for, or answers about, the name n of the scope u.
Concerns(r, u, n) ==
  \E k \in {txn'[r].key, txn'[r].loaded} \ {None} : k.scope = u /\ k.name = n

\* A request is answered otherwise than its endpoint declares only if it brings
\* what cannot be stored or answered itself, or concerns a company whose name was
\* stripped to nothing, or two rows already had the name that it asks for, or
\* another request overlapped with it: otherwise the checks answer 409 and 404
\* before the index or the unit of work raise.
UndeclaredHasCause ==
  [][ \A r \in Requests :
        pc'[r] \in Exceptions /\ pc[r] \notin Exceptions
          /\ StatusOf[pc'[r]] \notin Responses(txn'[r].kind)
        => \/ txn'[r].rest # "plain"
           \/ \E u \in Tenants : Concerns(r, u, Empty)
           \/ \E i, j \in Ids : Twins(i, j) /\ Concerns(r, KeyOf(i).scope, KeyOf(i).name)
           \/ \E q \in Others(r) : pc[q] # "idle" /\ q \notin txn'[r].before ]_vars

\* A sign-in with the address of an account is refused only if a profile update
\* has stored the address of every such account in another spelling.
SignInFindsAccount ==
  [][ \A r \in Requests :
        pc[r] = "idle" /\ pc'[r] = "Unauthorized" =>
          \A i \in Ids : Stored(i) /\ KeyOf(i).scope = Accounts
                           /\ KeyOf(i).name = txn'[r].key.name => rows[i].typed ]_vars

\* Every request is answered: waits for rows and keys end.
EveryRequestAnswered ==
  \A r \in Requests : pc[r] \in Working ~> pc[r] \in Replied

\* Two accounts whose addresses differ only by case are the work of a profile
\* update that stored one of them as it was typed: registrations, however they
\* overlap, cannot produce them.
AddressTwinsAreTyped ==
  \A i, j \in Ids : Twins(i, j) /\ KeyOf(i).scope = Accounts =>
    rows[i].typed \/ rows[j].typed
=============================================================================
