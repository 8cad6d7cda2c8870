------------------------ MODULE RefreshTokensProofs ------------------------
(***************************************************************************)
(* Proofs about RefreshTokens for every set of users, tokens and requests,  *)
(* every lifetime and every run of the clock.                               *)
(***************************************************************************)
EXTENDS RefreshTokens, TLAPS

\* The typing facts of a request that the steps below rest on.
LEMMA ShapeFacts ==
  ASSUME TokenInv, NEW r \in Requests
  PROVE  /\ Shape(r) /\ ~txn[r].late
         /\ txn[r] \in Txn /\ pc[r] \in PC /\ r \in Tokens
         /\ tokens \in [Tokens -> TokenRow \cup {None}]
BY DEF TokenInv, TypeOK, Tokens

LEMMA InitInv == Init => TokenInv
<1> SUFFICES ASSUME Init PROVE TokenInv
  OBVIOUS
<1> PICK old \in [OldTokens -> OldRow] :
       tokens = [t \in Tokens |-> IF t \in OldTokens THEN old[t] ELSE None]
  BY DEF Init
<1>1. \A t \in OldTokens : old[t] \in TokenRow /\ old[t].parent = None
  BY LifetimeAssumption DEF OldRow, TokenRow
<1>2. TypeOK
  BY <1>1 DEF Init, TypeOK, Tokens, NoTxn, Txn, PC
<1>3. \A r \in Requests : Shape(r) /\ ~txn[r].late /\ txn[r].kind = "none" /\ txn[r].token = None
  BY DEF Init, Shape, NoTxn
<1>4. \A t \in Tokens : tokens[t] # None => t \in OldTokens /\ tokens[t].parent = None
  BY <1>1
<1>5. Stored /\ ReplacedIsRevoked
  BY <1>3, <1>4, FreshJtiAssumption DEF Stored, ReplacedIsRevoked, Init, Tokens
<1>6. HeldIsStored
  BY <1>1, NoneAssumption DEF HeldIsStored, Init, Tokens
<1> QED
  BY <1>2, <1>3, <1>5, <1>6 DEF TokenInv, RefreshIsFinal, LogoutIsFinal, Init

-----------------------------------------------------------------------------
(* Steps of a request.                                                      *)

\* Beginning a request changes neither the table nor the other requests.
LEMMA BeginInv ==
  ASSUME TokenInv, NEW r \in Requests, NEW t \in Txn, NEW label \in PC,
         Begin(r, t, label),
         ~t.late, t.token # None => tokens[t.token] # None,
         \/ t = NoTxn /\ label = "refused"
         \/ t.kind = "login" /\ t.user \in Users /\ t.token = None /\ label = "issue"
         \/ /\ t.kind = "refresh" /\ t.user \in Users /\ t.token \in Tokens
            /\ label = "revoke"
         \/ /\ t.kind = "logout" /\ t.token \in Tokens
            /\ label = "revoke" \/ (label = "ok" /\ Expired(t.token))
  PROVE  TokenInv'
<1> USE DEF Begin, Goto
<1>1. TypeOK'
  BY DEF TokenInv, TypeOK
<1>2. locked[r] = None /\ tokens[r] = None
  BY ShapeFacts DEF Shape, TokenInv, Stored
<1>3. txn'[r] = t /\ pc'[r] = label
  BY DEF TokenInv, TypeOK
<1>4. \A q \in Requests \ {r} : txn'[q] = txn[q] /\ pc'[q] = pc[q]
  BY DEF TokenInv, TypeOK
<1>5. \A q \in Requests : (Shape(q) /\ ~txn[q].late)'
  <2> SUFFICES ASSUME NEW q \in Requests PROVE Shape(q)' /\ ~txn'[q].late
    OBVIOUS
  <2>1. CASE q = r
    BY <1>2, <1>3, <2>1 DEF Shape
  <2>2. CASE q # r
    BY <1>4, <2>2 DEF Shape, TokenInv
  <2> QED
    BY <2>1, <2>2
<1>6. Stored'
  <2>1. \A q \in Requests : tokens[q] # None => pc'[q] \in {"reply", "ok", "failed"}
    BY <1>2, <1>4 DEF TokenInv, Stored
  <2>2. \A q \in Requests : pc'[q] = "reply" => tokens[q] # None
    BY <1>3, <1>4 DEF TokenInv, Stored
  <2>3. \A q \in Requests : txn'[q].token # None => tokens[txn'[q].token] # None
    BY <1>3, <1>4 DEF TokenInv, Stored
  <2> QED
    BY <2>1, <2>2, <2>3 DEF TokenInv, Stored
<1>7. HeldIsStored' /\ ReplacedIsRevoked'
  BY DEF TokenInv, HeldIsStored, ReplacedIsRevoked, Revoked
<1>8. RefreshIsFinal'
  BY <1>3, <1>4 DEF TokenInv, RefreshIsFinal, Revoked, NoTxn
<1>9. LogoutIsFinal'
  BY <1>3, <1>4 DEF TokenInv, LogoutIsFinal, Revoked, Expired, NoTxn
<1> QED
  BY <1>1, <1>5, <1>6, <1>7, <1>8, <1>9 DEF TokenInv

\* A token that has been retired in the eyes of a client is not active.
LEMMA RetiredIsInactive ==
  ASSUME TokenInv, NEW t \in Tokens, Retired(t)
  PROVE  ~Active(t)
<1> PICK q \in Requests : txn[q].token = t /\ pc[q] = "ok"
  BY DEF Retired
<1>1. txn[q].kind \in {"refresh", "logout"}
  BY ShapeFacts, NoneAssumption DEF Shape
<1> QED
  BY <1>1 DEF TokenInv, RefreshIsFinal, LogoutIsFinal, Active

LEMMA ArriveInv ==
  ASSUME TokenInv, NEW r \in Requests, Arrive(r)
  PROVE  TokenInv'
<1>0. {"issue", "refused", "revoke", "ok"} \subseteq PC
  BY DEF PC, Working, Replied
<1>1. ASSUME NEW u \in Users, LoginBegin(r, u) PROVE TokenInv'
  <2> DEFINE t == [NoTxn EXCEPT !.kind = "login", !.user = u]
  <2>1. t \in Txn /\ ~t.late /\ t.token = None /\ t.kind = "login" /\ t.user \in Users
    BY DEF NoTxn, Txn
  <2>2. Begin(r, t, "issue")
    BY <1>1 DEF LoginBegin
  <2> HIDE DEF t
  <2> QED
    BY <2>1, <2>2, <1>0, BeginInv
<1>2. ASSUME NEW k \in Tokens, RefreshBegin(r, k) PROVE TokenInv'
  <2>1. CASE ~Active(k) /\ Begin(r, NoTxn, "refused")
    <3>1. NoTxn \in Txn /\ ~NoTxn.late /\ NoTxn.token = None
      BY DEF NoTxn, Txn
    <3> QED
      BY <2>1, <3>1, <1>0, BeginInv
  <2>2. CASE Active(k) /\ Begin(r, [kind |-> "refresh", user |-> tokens[k].user,
                                    token |-> k, late |-> Retired(k)], "revoke")
    <3> DEFINE t == [kind |-> "refresh", user |-> tokens[k].user,
                     token |-> k, late |-> FALSE]
    <3>1. Retired(k) = FALSE
      BY <2>2, RetiredIsInactive DEF Retired
    <3>2. tokens[k] # None /\ tokens[k].user \in Users
      BY <1>2, ShapeFacts DEF RefreshBegin, TokenInv, HeldIsStored, TokenRow
    <3>3. Begin(r, t, "revoke")
      BY <2>2, <3>1
    <3>4. t \in Txn /\ ~t.late /\ t.token = k /\ t.kind = "refresh" /\ t.user \in Users
      BY <3>2 DEF Txn
    <3> HIDE DEF t
    <3> QED
      BY <3>2, <3>3, <3>4, <1>0, BeginInv
  <2> QED
    BY <1>2, <2>1, <2>2 DEF RefreshBegin
<1>3. ASSUME NEW k \in Tokens, LogoutBegin(r, k) PROVE TokenInv'
  <2> DEFINE t == [NoTxn EXCEPT !.kind = "logout", !.token = k]
  <2> DEFINE label == IF Expired(k) THEN "ok" ELSE "revoke"
  <2>1. t \in Txn /\ ~t.late /\ t.token = k /\ t.kind = "logout"
    BY DEF NoTxn, Txn
  <2>2. Begin(r, t, label) /\ tokens[k] # None
    BY <1>3 DEF LogoutBegin, TokenInv, HeldIsStored
  <2>3. label \in PC /\ (label = "revoke" \/ (label = "ok" /\ Expired(k)))
    BY <1>0
  <2> HIDE DEF t, label
  <2> QED
    BY <2>1, <2>2, <2>3, BeginInv
<1> QED
  BY <1>1, <1>2, <1>3 DEF Arrive

\* A step that leaves the table, the parameters and what clients hold alone.
LEMMA ProgressInv ==
  ASSUME TokenInv, NEW r \in Requests, NEW label \in PC, NEW lock \in Tokens \cup {None},
         UNCHANGED <<tokens, held, txn>>, now' \in Nat, now' >= now,
         Goto(r, label), locked' = [locked EXCEPT ![r] = lock],
         Shape(r)', label # "reply",
         tokens[r] # None => label \in {"ok", "failed"},
         label = "ok" => txn[r].kind \notin {"refresh", "logout"} \/ pc[r] = "reply"
  PROVE  TokenInv'
<1> USE DEF Goto
<1>1. TypeOK'
  BY DEF TokenInv, TypeOK
<1>2. pc'[r] = label /\ \A q \in Requests \ {r} : pc'[q] = pc[q] /\ locked'[q] = locked[q]
  BY DEF TokenInv, TypeOK
<1>3. \A q \in Requests : (Shape(q) /\ ~txn[q].late)'
  BY <1>2 DEF Shape, TokenInv
<1>4. Stored'
  BY <1>2 DEF TokenInv, Stored
<1>5. HeldIsStored' /\ ReplacedIsRevoked'
  BY DEF TokenInv, HeldIsStored, ReplacedIsRevoked, Revoked
<1>6. RefreshIsFinal'
  BY <1>2 DEF TokenInv, RefreshIsFinal, Revoked
<1>7. LogoutIsFinal'
  <2> SUFFICES ASSUME NEW q \in Requests, txn[q].kind = "logout", pc'[q] = "ok"
               PROVE  Revoked(txn[q].token)' \/ Expired(txn[q].token)'
    BY DEF LogoutIsFinal
  <2>1. pc[q] = "ok"
    BY <1>2, ShapeFacts DEF Shape
  <2>2. txn[q].token \in Tokens /\ tokens[txn[q].token] # None
    BY ShapeFacts, NoneAssumption DEF Shape, TokenInv, Stored, NoTxn
  <2>3. tokens[txn[q].token].expires \in Nat
    BY <2>2, ShapeFacts DEF TokenRow
  <2>4. Revoked(txn[q].token) \/ Expired(txn[q].token)
    BY <2>1 DEF TokenInv, LogoutIsFinal
  <2> QED
    BY <2>3, <2>4 DEF Revoked, Expired, TokenInv, TypeOK
<1> QED
  BY <1>1, <1>3, <1>4, <1>5, <1>6, <1>7 DEF TokenInv

LEMMA RevokeInv ==
  ASSUME TokenInv, NEW r \in Requests, RevokeToken(r)
  PROVE  TokenInv'
<1> DEFINE label == IF txn[r].kind = "logout" THEN "commit" ELSE "issue"
<1>1. label \in PC /\ label \notin {"reply", "ok"}
  BY DEF PC, Working
<1>2. txn[r].kind \in {"refresh", "logout"} /\ txn[r].token \in Tokens /\ tokens[r] = None
  BY ShapeFacts DEF RevokeToken, Shape, NoTxn, TokenInv, Stored
<1>3. pc'[r] = label /\ locked'[r] = txn[r].token
  BY DEF RevokeToken, Goto, TokenInv, TypeOK
<1>4. Shape(r)'
  BY <1>2, <1>3, ShapeFacts DEF RevokeToken, Shape, NoTxn
<1>5. /\ UNCHANGED <<tokens, held, txn>> /\ now' \in Nat /\ now' >= now /\ Goto(r, label)
      /\ locked' = [locked EXCEPT ![r] = txn[r].token]
  BY DEF RevokeToken, TokenInv, TypeOK
<1> HIDE DEF label
<1> QED
  BY <1>1, <1>2, <1>4, <1>5, ProgressInv

LEMMA FailInv ==
  ASSUME TokenInv, NEW r \in Requests, Fail(r)
  PROVE  TokenInv'
<1>1. "failed" \in PC
  BY DEF PC, Replied
<1>2. pc'[r] = "failed" /\ locked'[r] = None
  BY DEF Fail, Goto, Unlock, TokenInv, TypeOK
<1>3. Shape(r)'
  BY <1>2, ShapeFacts DEF Fail, Shape, Working
<1>4. /\ UNCHANGED <<tokens, held, txn>> /\ now' \in Nat /\ now' >= now
      /\ Goto(r, "failed") /\ locked' = [locked EXCEPT ![r] = None]
  BY DEF Fail, Unlock, TokenInv, TypeOK
<1> QED
  BY <1>1, <1>3, <1>4, ProgressInv

LEMMA TickInv ==
  ASSUME TokenInv, Tick
  PROVE  TokenInv'
<1> USE DEF Tick
<1>1. TypeOK' /\ HeldIsStored' /\ ReplacedIsRevoked' /\ Stored' /\ RefreshIsFinal'
  BY DEF TokenInv, TypeOK, HeldIsStored, ReplacedIsRevoked, Stored, RefreshIsFinal, Revoked
<1>2. \A q \in Requests : (Shape(q) /\ ~txn[q].late)'
  BY DEF TokenInv, Shape
<1>3. LogoutIsFinal'
  <2> SUFFICES ASSUME NEW q \in Requests, txn[q].kind = "logout", pc[q] = "ok"
               PROVE  Revoked(txn[q].token)' \/ Expired(txn[q].token)'
    BY DEF LogoutIsFinal
  <2>1. txn[q].token \in Tokens /\ tokens[txn[q].token] # None
    BY ShapeFacts, NoneAssumption DEF Shape, TokenInv, Stored, NoTxn
  <2>2. tokens[txn[q].token].expires \in Nat
    BY <2>1, ShapeFacts DEF TokenRow
  <2> QED
    BY <2>2 DEF TokenInv, LogoutIsFinal, Revoked, Expired, TypeOK
<1> QED
  BY <1>1, <1>2, <1>3 DEF TokenInv

-----------------------------------------------------------------------------
(* Steps that commit or answer.                                             *)

\* The row lock of a request names a row that is there.
LEMMA AfterRevocationFacts ==
  ASSUME TokenInv, NEW r \in Requests
  PROVE  /\ AfterRevocation(r) \in [Tokens -> TokenRow \cup {None}]
         /\ \A t \in Tokens :
              /\ AfterRevocation(r)[t] # None <=> tokens[t] # None
              /\ tokens[t] # None =>
                   /\ AfterRevocation(r)[t].parent = tokens[t].parent
                   /\ AfterRevocation(r)[t].expires = tokens[t].expires
                   /\ AfterRevocation(r)[t].revoked = (tokens[t].revoked \/ t = locked[r])
<1>1. CASE locked[r] = None
  <2>1. \A t \in Tokens : t # locked[r]
    BY <1>1, NoneAssumption
  <2> QED
    BY <1>1, <2>1, ShapeFacts DEF AfterRevocation, TokenRow
<1>2. CASE locked[r] # None
  <2>1. locked[r] \in Tokens /\ tokens[locked[r]] \in TokenRow
    BY <1>2, ShapeFacts, NoneAssumption DEF Shape, TokenInv, Stored
  <2> QED
    BY <1>2, <2>1, ShapeFacts, NoneAssumption DEF AfterRevocation, TokenRow
<1> QED
  BY <1>1, <1>2

LEMMA LogoutCommitInv ==
  ASSUME TokenInv, NEW r \in Requests, LogoutCommit(r)
  PROVE  TokenInv'
<1> USE DEF LogoutCommit, Goto, Unlock
<1>1. TypeOK'
  BY AfterRevocationFacts DEF TokenInv, TypeOK, PC, Replied
<1>2. /\ pc'[r] = "ok" /\ locked'[r] = None
      /\ \A q \in Requests \ {r} : pc'[q] = pc[q] /\ locked'[q] = locked[q]
  BY DEF TokenInv, TypeOK
<1>3. txn[r].kind = "logout" /\ txn[r].token \in Tokens /\ locked[r] = txn[r].token
  BY ShapeFacts DEF Shape
<1>4. \A q \in Requests : (Shape(q) /\ ~txn[q].late)'
  BY <1>2, <1>3 DEF Shape, TokenInv
<1>5. \A t \in Tokens :
        /\ tokens'[t] # None <=> tokens[t] # None
        /\ tokens[t] # None => /\ tokens'[t].parent = tokens[t].parent
                               /\ tokens'[t].expires = tokens[t].expires
                               /\ tokens[t].revoked => tokens'[t].revoked
                               /\ t = locked[r] => tokens'[t].revoked
  BY AfterRevocationFacts
<1>6. \A q \in Requests : txn[q].token # None =>
        txn[q].token \in Tokens /\ tokens[txn[q].token] # None
  BY ShapeFacts DEF TokenInv, Stored, Txn
<1>7. Stored'
  <2>1. \A t \in Tokens : tokens[t] # None => tokens[t].parent \in Tokens \cup {None}
    BY ShapeFacts DEF TokenRow
  <2>2. \A t \in Tokens : tokens'[t] # None /\ tokens'[t].parent # None
                           => tokens'[tokens'[t].parent] # None
    BY <1>5, <2>1 DEF TokenInv, Stored
  <2>3. \A q \in Requests : q \in Tokens
    BY DEF Tokens
  <2> QED
    BY <1>2, <1>5, <1>6, <2>2, <2>3 DEF TokenInv, Stored
<1>8. HeldIsStored'
  BY <1>5 DEF TokenInv, HeldIsStored, TypeOK
<1>9. ReplacedIsRevoked'
  <2>1. \A t \in Tokens : tokens[t] # None /\ tokens[t].parent # None
          => /\ tokens[t].parent \in Tokens /\ tokens[tokens[t].parent] # None
             /\ tokens[tokens[t].parent].revoked
    BY ShapeFacts DEF TokenRow, TokenInv, Stored, ReplacedIsRevoked, Revoked
  <2> QED
    BY <1>5, <2>1 DEF ReplacedIsRevoked, Revoked
<1>10. RefreshIsFinal'
  <2> SUFFICES ASSUME NEW q \in Requests, txn[q].kind = "refresh", pc'[q] \in {"reply", "ok"}
               PROVE  tokens'[txn[q].token].revoked
    BY DEF RefreshIsFinal, Revoked
  <2>1. q # r /\ pc'[q] = pc[q]
    BY <1>2, <1>3
  <2>2. txn[q].token # None
    BY ShapeFacts, NoneAssumption DEF Shape, NoTxn
  <2> QED
    BY <1>5, <1>6, <2>1, <2>2 DEF TokenInv, RefreshIsFinal, Revoked
<1>11. LogoutIsFinal'
  <2> SUFFICES ASSUME NEW q \in Requests, txn[q].kind = "logout", pc'[q] = "ok"
               PROVE  tokens'[txn[q].token].revoked \/ tokens'[txn[q].token].expires <= now
    BY DEF LogoutIsFinal, Revoked, Expired
  <2>1. txn[q].token # None
    BY ShapeFacts, NoneAssumption DEF Shape, NoTxn
  <2>2. CASE q = r
    BY <1>3, <1>5, <1>6, <2>1, <2>2
  <2>3. CASE q # r
    BY <1>2, <1>5, <1>6, <2>1, <2>3 DEF TokenInv, LogoutIsFinal, Revoked, Expired
  <2> QED
    BY <2>2, <2>3
<1> QED
  BY <1>1, <1>4, <1>7, <1>8, <1>9, <1>10, <1>11 DEF TokenInv

LEMMA IssueInv ==
  ASSUME TokenInv, NEW r \in Requests, Issue(r)
  PROVE  TokenInv'
<1> USE DEF Issue, Goto, Unlock
<1>1. /\ txn[r].kind \in {"login", "refresh"} /\ txn[r].user \in Users
      /\ txn[r].token \in Tokens \cup {None} /\ locked[r] = txn[r].token
      /\ txn[r].kind = "refresh" => txn[r].token \in Tokens
  BY ShapeFacts DEF Shape
<1>2. r \in Tokens /\ tokens[r] = None
  BY ShapeFacts DEF TokenInv, Stored
<1>3. NewToken(r) \in TokenRow /\ NewToken(r).parent = txn[r].token /\ NewToken(r) # None
  <2>1. now + Lifetime \in Nat
    BY LifetimeAssumption DEF TokenInv, TypeOK
  <2>2. NewToken(r) \in TokenRow /\ NewToken(r).parent = txn[r].token
    BY <1>1, <2>1 DEF NewToken, TokenRow
  <2> QED
    BY <2>2, NoneAssumption
<1>4. TypeOK'
  BY <1>3, AfterRevocationFacts DEF TokenInv, TypeOK, PC
<1>5. /\ pc'[r] = "reply" /\ locked'[r] = None
      /\ \A q \in Requests \ {r} : pc'[q] = pc[q] /\ locked'[q] = locked[q]
  BY DEF TokenInv, TypeOK
<1>6. \A q \in Requests : (Shape(q) /\ ~txn[q].late)'
  BY <1>1, <1>5, ShapeFacts DEF Shape, TokenInv
<1>7. /\ tokens'[r] = NewToken(r)
      /\ \A t \in Tokens \ {r} : tokens'[t] = AfterRevocation(r)[t]
  BY <1>2, AfterRevocationFacts
<1>8. \A t \in Tokens \ {r} :
        /\ tokens'[t] # None <=> tokens[t] # None
        /\ tokens[t] # None => /\ tokens'[t].parent = tokens[t].parent
                               /\ tokens'[t].expires = tokens[t].expires
                               /\ tokens[t].revoked => tokens'[t].revoked
                               /\ t = locked[r] => tokens'[t].revoked
  <2> SUFFICES ASSUME NEW t \in Tokens \ {r}
               PROVE  /\ tokens'[t] # None <=> tokens[t] # None
                      /\ tokens[t] # None =>
                           /\ tokens'[t].parent = tokens[t].parent
                           /\ tokens'[t].expires = tokens[t].expires
                           /\ tokens[t].revoked => tokens'[t].revoked
                           /\ t = locked[r] => tokens'[t].revoked
    OBVIOUS
  <2>1. tokens'[t] = AfterRevocation(r)[t]
    BY <1>7
  <2> HIDE DEF Issue, Goto, Unlock
  <2> DEFINE row == AfterRevocation(r)[t]
  <2>2. /\ row # None <=> tokens[t] # None
        /\ tokens[t] # None => /\ row.parent = tokens[t].parent
                               /\ row.expires = tokens[t].expires
                               /\ row.revoked = (tokens[t].revoked \/ t = locked[r])
    BY AfterRevocationFacts, Zenon
  <2> HIDE DEF row
  <2>3. tokens'[t] = row
    BY <2>1 DEF row
  <2> QED
    BY <2>2, <2>3, Zenon
<1>9. \A q \in Requests : txn[q].token # None =>
        txn[q].token \in Tokens \ {r} /\ tokens[txn[q].token] # None
  BY <1>2, ShapeFacts DEF TokenInv, Stored, Txn
<1>10. \A t \in Tokens : tokens[t] # None /\ tokens[t].parent # None
        => /\ tokens[t].parent \in Tokens \ {r} /\ tokens[tokens[t].parent] # None
           /\ tokens[tokens[t].parent].revoked
  BY <1>2, ShapeFacts DEF TokenRow, TokenInv, Stored, ReplacedIsRevoked, Revoked
<1>11. \A t \in Tokens : tokens'[t] # None /\ tokens'[t].parent # None
        => tokens'[tokens'[t].parent] # None /\ tokens'[tokens'[t].parent].revoked
  <2> SUFFICES ASSUME NEW t \in Tokens, tokens'[t] # None, tokens'[t].parent # None
               PROVE  tokens'[tokens'[t].parent] # None /\ tokens'[tokens'[t].parent].revoked
    OBVIOUS
  <2>1. CASE t = r
    BY <1>1, <1>3, <1>7, <1>8, <1>9, <2>1
  <2>2. CASE t # r
    BY <1>8, <1>10, <2>2
  <2> QED
    BY <2>1, <2>2
<1>12. Stored'
  <2>1. \A q \in Requests : q \in Tokens
    BY DEF Tokens
  <2>2. \A q \in Requests : tokens'[q] # None => pc'[q] \in {"reply", "ok", "failed"}
    BY <1>5, <1>8, <2>1 DEF TokenInv, Stored
  <2>3. \A q \in Requests : pc'[q] = "reply" => tokens'[q] # None
    BY <1>3, <1>5, <1>7, <1>8, <2>1 DEF TokenInv, Stored
  <2>4. \A q \in Requests : txn[q].token # None => tokens'[txn[q].token] # None
    BY <1>8, <1>9
  <2> QED
    BY <1>11, <2>2, <2>3, <2>4 DEF Stored
<1>13. HeldIsStored' /\ ReplacedIsRevoked'
  BY <1>3, <1>7, <1>8, <1>11 DEF TokenInv, HeldIsStored, ReplacedIsRevoked, Revoked, TypeOK
<1>14. RefreshIsFinal'
  <2> SUFFICES ASSUME NEW q \in Requests, txn[q].kind = "refresh", pc'[q] \in {"reply", "ok"}
               PROVE  tokens'[txn[q].token].revoked
    BY DEF RefreshIsFinal, Revoked
  <2>1. txn[q].token # None
    BY ShapeFacts, NoneAssumption DEF Shape, NoTxn
  <2>2. CASE q = r
    BY <1>1, <1>8, <1>9, <2>1, <2>2
  <2>3. CASE q # r
    BY <1>5, <1>8, <1>9, <2>1, <2>3 DEF TokenInv, RefreshIsFinal, Revoked
  <2> QED
    BY <2>2, <2>3
<1>15. LogoutIsFinal'
  <2> SUFFICES ASSUME NEW q \in Requests, txn[q].kind = "logout", pc'[q] = "ok"
               PROVE  tokens'[txn[q].token].revoked \/ tokens'[txn[q].token].expires <= now
    BY DEF LogoutIsFinal, Revoked, Expired
  <2>1. txn[q].token # None /\ q # r
    BY <1>1, ShapeFacts, NoneAssumption DEF Shape, NoTxn
  <2> QED
    BY <1>5, <1>8, <1>9, <2>1 DEF TokenInv, LogoutIsFinal, Revoked, Expired
<1> QED
  BY <1>4, <1>6, <1>12, <1>13, <1>14, <1>15 DEF TokenInv

LEMMA ReplyInv ==
  ASSUME TokenInv, NEW r \in Requests, Reply(r)
  PROVE  TokenInv'
<1> USE DEF Reply, Goto
<1>1. TypeOK'
  BY DEF TokenInv, TypeOK, Tokens, PC, Replied
<1>2. pc'[r] = "ok" /\ \A q \in Requests \ {r} : pc'[q] = pc[q]
  BY DEF TokenInv, TypeOK
<1>3. txn[r].kind \in {"login", "refresh"}
  BY ShapeFacts DEF Shape
<1>4. \A q \in Requests : (Shape(q) /\ ~txn[q].late)'
  BY <1>2, <1>3 DEF Shape, TokenInv
<1>5. Stored' /\ HeldIsStored' /\ ReplacedIsRevoked'
  BY <1>2 DEF TokenInv, Stored, HeldIsStored, ReplacedIsRevoked, Revoked
<1>6. RefreshIsFinal' /\ LogoutIsFinal'
  BY <1>2, <1>3 DEF TokenInv, RefreshIsFinal, LogoutIsFinal, Revoked, Expired
<1> QED
  BY <1>1, <1>4, <1>5, <1>6 DEF TokenInv

-----------------------------------------------------------------------------
(* Theorems.                                                                *)

\* The inductive invariant: what a request has done follows from where it
\* stands, rows and references are there, and what was answered holds.
THEOREM TokenInvariant == Spec => []TokenInv
<1>1. TokenInv /\ [Next]_vars => TokenInv'
  <2> SUFFICES ASSUME TokenInv, [Next]_vars PROVE TokenInv'
    OBVIOUS
  <2>1. ASSUME NEW r \in Requests, Arrive(r) PROVE TokenInv'
    BY <2>1, ArriveInv
  <2>2. ASSUME NEW r \in Requests, Proceed(r) PROVE TokenInv'
    BY <2>2, RevokeInv, IssueInv, LogoutCommitInv, ReplyInv DEF Proceed
  <2>3. ASSUME NEW r \in Requests, Fail(r) PROVE TokenInv'
    BY <2>3, FailInv
  <2>4. CASE Tick
    BY <2>4, TickInv
  <2>5. CASE UNCHANGED vars
    BY <2>5 DEF vars, TokenInv, TypeOK, Shape, Stored, HeldIsStored,
                ReplacedIsRevoked, RefreshIsFinal, LogoutIsFinal, Revoked, Expired
  <2> QED
    BY <2>1, <2>2, <2>3, <2>4, <2>5 DEF Next, Quiet
<1> QED
  BY <1>1, InitInv, PTL DEF Spec

\* Rotation is atomic: a refresh never leaves the token that it replaced
\* usable, whatever runs beside it and wherever processes die.
THEOREM RotationRevokes == Spec => []ReplacedIsRevoked
<1>1. TokenInv => ReplacedIsRevoked
  BY DEF TokenInv
<1> QED
  BY <1>1, TokenInvariant, PTL

\* A token whose retirement has been answered issues nothing to a request that
\* begins afterwards: the replay window closes with the answer.
THEOREM ReplayWindowCloses == Spec => []NoReplayAfterAnswer
<1>1. TokenInv => NoReplayAfterAnswer
  BY DEF TokenInv, NoReplayAfterAnswer
<1> QED
  BY <1>1, TokenInvariant, PTL

\* After a logout was answered, its token stays revoked or expired for ever.
THEOREM LogoutEndsToken == Spec => []LogoutIsFinal
<1>1. TokenInv => LogoutIsFinal
  BY DEF TokenInv
<1> QED
  BY <1>1, TokenInvariant, PTL

\* Clients hold only tokens that are committed.
THEOREM AnswersAreDurable == Spec => []HeldIsStored
<1>1. TokenInv => HeldIsStored
  BY DEF TokenInv
<1> QED
  BY <1>1, TokenInvariant, PTL

\* Every reachable state of the token store is well typed: whatever interleaves,
\* requests stay within their handlers and tokens within their lifetimes.
THEOREM TypeCorrect == Spec => []TypeOK
<1>1. TokenInv => TypeOK
  BY DEF TokenInv
<1> QED
  BY <1>1, TokenInvariant, PTL
=============================================================================
