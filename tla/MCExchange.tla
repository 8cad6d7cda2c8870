----------------------------- MODULE MCExchange -----------------------------
(***************************************************************************)
(* Instances of ApplicationPipeline in which any two requests overlap, or    *)
(* companies are deleted while requests exchange their applications: what    *)
(* a deadlock takes.  Which of both starts with the applications that exist. *)
(***************************************************************************)
EXTENDS ApplicationPipeline, TLC

CONSTANTS Exchanged,   \* applications that exist only for an exchange
          Movers       \* requests that only move applications

ExchangeInit ==
  /\ Init
  /\ (\E a \in Exchanged : apps[a] # None) => \A c \in Companies : AppsOf(c) # {}

AnyPair ==
  /\ \A a \in Exchanged : apps[a] = None
  /\ \A r \in Movers : pc[r] = "idle"

\* Nobody asks for what another one has asked for.
Exchange ==
  LET patches == { r \in Requests : txn[r].kind = "patch" }
      deletes == { r \in Requests : txn[r].kind = "delete_company" }
  IN /\ \A r \in Movers : txn[r].kind \in {"none", "patch"} /\ txn[r].target = None
     /\ \A r \in Requests \ Movers : txn[r].kind \in {"none", "delete_company"}
     /\ \A r, q \in patches : txn[r].app = txn[q].app => r = q
     /\ \A r, q \in deletes : txn[r].company = txn[q].company => r = q

\* Clients need not send anything.
NothingOpen == \A r \in Requests : pc[r] \in {"idle"} \cup Replied

\* In an exchange nobody is refused what it asks for at once.
ExchangeNext ==
  \/ \E r \in Requests : Arrive(r) /\ (AnyPair' \/ (Exchange' /\ pc'[r] # "refused"))
  \/ \E r \in Requests : Proceed(r) \/ Fail(r)
  \/ NothingOpen /\ UNCHANGED vars

\* The fairness of ApplicationPipeline.
ExchangeSpec ==
  /\ ExchangeInit /\ [][ExchangeNext]_vars
  /\ \A r \in Requests : WF_vars(Proceed(r))
=============================================================================
