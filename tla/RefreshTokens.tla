--------------------------- MODULE RefreshTokens ---------------------------
(***************************************************************************)
(* The life of refresh tokens (AuthService, TokenRepository): a login       *)
(* issues one, a refresh rotates it (the old one is revoked, a new one      *)
(* issued), a logout revokes it, time expires it.                           *)
(*                                                                         *)
(* Requests run concurrently, each in one READ COMMITTED transaction.  The   *)
(* UPDATE that revokes a token holds its row lock until the end of the      *)
(* transaction; it names the token only by its hash, whatever is_revoked     *)
(* says by then.  Every refresh token carries a fresh jti, so a new token   *)
(* is identified with the request that issues it.                           *)
(***************************************************************************)
EXTENDS Integers, FiniteSets

CONSTANTS
  Users,      \* accounts; all active, as nothing in the code deactivates one
  OldTokens,  \* tokens issued to clients before the system starts
  Requests,   \* requests that clients send, each at most once
  Fallible,   \* requests whose process or connection may die midway
  Lifetime,   \* REFRESH_TOKEN_EXPIRE_DAYS, in ticks
  MaxNow,     \* bound on the clock
  None        \* SQL null, an absent row, no parameter

ASSUME LifetimeAssumption == Lifetime \in Nat \ {0} /\ MaxNow \in Nat
ASSUME FreshJtiAssumption == OldTokens \cap Requests = {} /\ Fallible \subseteq Requests

\* token_hash is a bijection of the token: rows are indexed by it.
Tokens == OldTokens \cup Requests

TokenRow == [ user    : Users,
              parent  : Tokens \cup {None},  \* history: the token it replaces
              expires : Nat,
              revoked : BOOLEAN ]

ASSUME NoneAssumption ==
  /\ None \notin Users
  /\ None \notin Tokens
  /\ None \notin TokenRow

Txn == [ kind  : {"none", "login", "refresh", "logout"},
         user  : Users \cup {None},
         token : Tokens \cup {None},
         late  : BOOLEAN ]   \* history: an earlier request that retired the
                             \* token had been answered when this one began

NoTxn == [kind |-> "none", user |-> None, token |-> None, late |-> FALSE]

Working == {"revoke", "issue", "commit"}
Replied == {"ok", "refused", "failed"}
PC      == {"idle", "reply"} \cup Working \cup Replied

VARIABLES
  tokens,   \* refresh_tokens table: a committed row per token, or None
  held,     \* tokens that a client has been given
  now,      \* the clock
  pc,       \* progress of each request
  txn,      \* parameters and reads of each request
  locked    \* the token whose row the request's open transaction has revoked

vars == <<tokens, held, now, pc, txn, locked>>

TypeOK ==
  /\ tokens \in [Tokens -> TokenRow \cup {None}]
  /\ held \subseteq Tokens
  /\ now \in Nat
  /\ pc \in [Requests -> PC]
  /\ txn \in [Requests -> Txn]
  /\ locked \in [Requests -> Tokens \cup {None}]

-----------------------------------------------------------------------------

Goto(r, label) == pc' = [pc EXCEPT ![r] = label]

Begin(r, t, label) ==
  /\ pc[r] = "idle"
  /\ txn' = [txn EXCEPT ![r] = t]
  /\ Goto(r, label)
  /\ UNCHANGED <<tokens, held, now, locked>>

\* The end of a transaction gives up its row lock.
Unlock(r) == locked' = [locked EXCEPT ![r] = None]

Expired(t) == tokens[t].expires <= now
Revoked(t) == tokens[t].revoked

\* Mutant: the query does not look at is_revoked.
ActiveIgnoringRevocation(t) == ~Expired(t)

\* decode_token and get_active_by_hash: signed, unexpired, not revoked.
Active(t) == ~Expired(t) /\ ~Revoked(t)

\* POST /auth/login with the right credentials of an account.
LoginBegin(r, u) ==
  Begin(r, [NoTxn EXCEPT !.kind = "login", !.user = u], "issue")

\* A refresh or a logout that was given this token has been answered 2xx.
Retired(t) == \E q \in Requests : txn[q].token = t /\ pc[q] = "ok"

\* POST /auth/refresh: the token is looked up without a lock.
RefreshBegin(r, t) ==
  /\ t \in held
  /\ \/ /\ Active(t)
        /\ Begin(r, [kind |-> "refresh", user |-> tokens[t].user,
                     token |-> t, late |-> Retired(t)], "revoke")
     \/ ~Active(t) /\ Begin(r, NoTxn, "refused")

\* POST /auth/logout: an expired token is silently accepted.
LogoutBegin(r, t) ==
  /\ t \in held
  /\ Begin(r, [NoTxn EXCEPT !.kind = "logout", !.token = t],
           IF Expired(t) THEN "ok" ELSE "revoke")

\* revoke_token: UPDATE ... WHERE token_hash, which waits for another
\* transaction that has updated the row.  Nobody looks at the row count.
RevokeToken(r) ==
  /\ pc[r] = "revoke"
  /\ \A q \in Requests \ {r} : locked[q] # txn[r].token
  /\ locked' = [locked EXCEPT ![r] = txn[r].token]
  /\ Goto(r, IF txn[r].kind = "logout" THEN "commit" ELSE "issue")
  /\ UNCHANGED <<tokens, held, now, txn>>

NewToken(r) ==
  [ user    |-> txn[r].user,
    parent  |-> txn[r].token,
    expires |-> now + Lifetime,
    revoked |-> FALSE ]

\* Mutant: rotation issues a token and leaves the old one alone.
AfterRevocationKept(r) == tokens

\* The table with the row that the transaction has updated.
AfterRevocation(r) ==
  IF locked[r] = None THEN tokens ELSE [tokens EXCEPT ![locked[r]].revoked = TRUE]

\* Mutant: login and refresh answer without a commit.
IssueUncommitted(r) ==
  /\ pc[r] = "issue"
  /\ Unlock(r)
  /\ Goto(r, "reply")
  /\ UNCHANGED <<tokens, held, now, txn>>

\* _generate_session_tokens, whose INSERT never conflicts, and the commit of
\* login and refresh.  Nobody else sees the row in between.
Issue(r) ==
  /\ pc[r] = "issue"
  /\ tokens' = [AfterRevocation(r) EXCEPT ![r] = NewToken(r)]
  /\ Unlock(r)
  /\ Goto(r, "reply")
  /\ UNCHANGED <<held, now, txn>>

\* Mutant: logout does not commit.
LogoutUncommitted(r) ==
  /\ pc[r] = "commit"
  /\ Unlock(r)
  /\ Goto(r, "ok")
  /\ UNCHANGED <<tokens, held, now, txn>>

\* The commit of logout, and its 204.
LogoutCommit(r) ==
  /\ pc[r] = "commit"
  /\ tokens' = AfterRevocation(r)
  /\ Unlock(r)
  /\ Goto(r, "ok")
  /\ UNCHANGED <<held, now, txn>>

\* Mutant: the answer carries the token that was sent.
ReplyOldToken(r) ==
  /\ pc[r] = "reply"
  /\ held' = held \cup {txn[r].token}
  /\ Goto(r, "ok")
  /\ UNCHANGED <<tokens, now, txn, locked>>

\* The answer reaches the client, which keeps the new token.
Reply(r) ==
  /\ pc[r] = "reply"
  /\ held' = held \cup {r}
  /\ Goto(r, "ok")
  /\ UNCHANGED <<tokens, now, txn, locked>>

\* Mutant: the session of a failed request is not closed.
FailOpen(r) ==
  /\ r \in Fallible
  /\ pc[r] \in Working \cup {"reply"}
  /\ Goto(r, "failed")
  /\ UNCHANGED <<tokens, held, now, txn, locked>>

\* The process dies or the connection drops.  An open transaction is rolled
\* back; after the commit only the answer is lost.
Fail(r) ==
  /\ r \in Fallible
  /\ pc[r] \in Working \cup {"reply"}
  /\ Goto(r, "failed")
  /\ Unlock(r)
  /\ UNCHANGED <<tokens, held, now, txn>>

Tick ==
  /\ now < MaxNow
  /\ now' = now + 1
  /\ UNCHANGED <<tokens, held, pc, txn, locked>>

-----------------------------------------------------------------------------

\* Tokens of earlier logins, not all of which have expired or been revoked.
OldRow == [user : Users, parent : {None}, expires : 0 .. Lifetime, revoked : BOOLEAN]

Init ==
  /\ \E old \in [OldTokens -> OldRow] :
       tokens = [t \in Tokens |-> IF t \in OldTokens THEN old[t] ELSE None]
  /\ held = OldTokens
  /\ now = 0
  /\ pc = [r \in Requests |-> "idle"]
  /\ txn = [r \in Requests |-> NoTxn]
  /\ locked = [r \in Requests |-> None]

Arrive(r) ==
  \/ \E u \in Users : LoginBegin(r, u)
  \/ \E t \in Tokens : RefreshBegin(r, t) \/ LogoutBegin(r, t)

Proceed(r) == RevokeToken(r) \/ Issue(r) \/ LogoutCommit(r) \/ Reply(r)

\* Every request has been answered and the clock stands at its bound.
Quiet ==
  /\ now = MaxNow
  /\ \A r \in Requests : pc[r] \in Replied
  /\ UNCHANGED vars

Next ==
  \/ \E r \in Requests : Arrive(r) \/ Proceed(r) \/ Fail(r)
  \/ Tick
  \/ Quiet

Spec == Init /\ [][Next]_vars

\* Awaited statements come back and free row locks are granted.  Clients need
\* not send anything, and the properties do not need the clock to move.
FairSpec == Spec /\ \A r \in Requests : WF_vars(Proceed(r))

-----------------------------------------------------------------------------
(* Properties.                                                              *)

\* Rotation is atomic: a token that has been replaced is revoked, whatever
\* other requests and failures there are.
ReplacedIsRevoked ==
  \A t \in Tokens : tokens[t] # None /\ tokens[t].parent # None
    => Revoked(tokens[t].parent)

\* A token that a client was told is retired, by a rotation or by a logout, is
\* worth nothing to a request that begins afterwards: it issues no token.
NoReplayAfterAnswer ==
  \A r \in Requests : tokens[r] # None => ~txn[r].late

\* An answered logout has ended the token: no later step can revive it, and a
\* token that was left alone had expired.
LogoutIsFinal ==
  \A r \in Requests : txn[r].kind = "logout" /\ pc[r] = "ok"
    => Revoked(txn[r].token) \/ Expired(txn[r].token)

\* A client never holds a token that the server does not know: an answer
\* follows the commit, and no rollback takes back what was answered.
HeldIsStored == \A t \in held : tokens[t] # None

\* Every request is answered: row locks are always given up.
EveryRequestAnswered ==
  \A r \in Requests : pc[r] \in Working \cup {"reply"} ~> pc[r] \in Replied

\* What a request has done follows from where it stands.
Shape(r) ==
  \/ txn[r] = NoTxn /\ pc[r] \in {"idle", "refused"} /\ locked[r] = None
  \/ /\ txn[r].kind = "login" /\ txn[r].user \in Users /\ txn[r].token = None
     /\ pc[r] \in {"issue", "reply", "ok", "failed"} /\ locked[r] = None
  \/ /\ txn[r].kind = "refresh" /\ txn[r].user \in Users /\ txn[r].token \in Tokens
     /\ \/ pc[r] \in {"revoke", "reply", "ok", "failed"} /\ locked[r] = None
        \/ pc[r] = "issue" /\ locked[r] = txn[r].token
  \/ /\ txn[r].kind = "logout" /\ txn[r].token \in Tokens
     /\ \/ pc[r] \in {"revoke", "ok", "failed"} /\ locked[r] = None
        \/ pc[r] = "commit" /\ locked[r] = txn[r].token

\* Rows appear when their request commits, and what a request or a row refers
\* to is there.
Stored ==
  /\ \A r \in Requests : tokens[r] # None => pc[r] \in {"reply", "ok", "failed"}
  /\ \A r \in Requests : pc[r] = "reply" => tokens[r] # None
  /\ \A r \in Requests : txn[r].token # None => tokens[txn[r].token] # None
  /\ \A t \in Tokens : tokens[t] # None /\ tokens[t].parent # None
                         => tokens[tokens[t].parent] # None

\* An answered refresh has retired its token.
RefreshIsFinal ==
  \A r \in Requests : txn[r].kind = "refresh" /\ pc[r] \in {"reply", "ok"}
    => Revoked(txn[r].token)

\* The inductive invariant.
TokenInv ==
  /\ TypeOK
  /\ \A r \in Requests : Shape(r) /\ ~txn[r].late
  /\ Stored /\ HeldIsStored
  /\ ReplacedIsRevoked /\ RefreshIsFinal /\ LogoutIsFinal

\* "single-use refresh token" (README.md): a token is replaced at most once.
SingleUse ==
  \A t, s \in Tokens :
    tokens[t] # None /\ tokens[s] # None /\ tokens[t].parent = tokens[s].parent
      => tokens[t].parent = None \/ t = s
=============================================================================
