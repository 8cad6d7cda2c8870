------------------------ MODULE PipelineInvariants ------------------------
(***************************************************************************)
(* The invariants that make the safety properties of ApplicationPipeline    *)
(* inductive.  TLC checks them on the instances, ApplicationPipelineProofs  *)
(* proves them for all.                                                     *)
(***************************************************************************)
EXTENDS ApplicationPipeline

-----------------------------------------------------------------------------
(* The protocol of a request: where it stands determines what it has sent.  *)

Recorded(r) == IF txn[r].target = None THEN {} ELSE {"insert"}
Changed(r)  == IF SetsStage(r) \/ Moves(r) THEN {"update"} ELSE {}

At(r, label, done) == pc[r] = label /\ sent[r] = done

\* Committed requests keep their parameters until they have read back.
Committed(r) == pc[r] \in {"reread", "ok", "gone"} /\ sent[r] = {}

ClosedShape(r) ==
  /\ txn[r] = NoTxn
  /\ sent[r] = {}
  /\ pc[r] \in {"idle", "refused", "failed", "ok"}

CreateShape(r) ==
  /\ txn[r].kind = "create"
  /\ txn[r].user \in Users /\ txn[r].app = r /\ txn[r].company \in Companies
  /\ txn[r].target \in Stages /\ txn[r].seen = None /\ txn[r].doomed = {}
  /\ \/ At(r, "insert_app", {})
     \/ At(r, "insert", {"insert_app"})
     \/ At(r, "commit", {"insert_app", "insert"})
     \/ Committed(r)

TransitionShape(r) ==
  /\ txn[r].kind = "transition"
  /\ txn[r].user \in Users /\ txn[r].app \in Apps /\ txn[r].company = None
  /\ txn[r].target \in Stages /\ txn[r].seen \in Stages /\ txn[r].doomed = {}
  /\ ValidTransition(txn[r].seen, txn[r].target)
  /\ \/ At(r, "update", {}) /\ SetsStage(r)
     \/ At(r, "insert", Changed(r))
     \/ At(r, "commit", Changed(r) \cup {"insert"})
     \/ Committed(r)

PatchShape(r) ==
  /\ txn[r].kind = "patch"
  /\ txn[r].user \in Users /\ txn[r].app \in Apps
  /\ txn[r].seen \in Stages /\ txn[r].doomed = {}
  /\ pc[r] # "check" /\ txn[r].target # None
       => ValidTransition(txn[r].seen, txn[r].target)
  /\ \/ At(r, "check", {}) /\ Moves(r)
     \/ At(r, "insert", {}) /\ txn[r].target # None
     \/ At(r, "update", Recorded(r)) /\ (SetsStage(r) \/ Moves(r))
     \/ At(r, "commit", Recorded(r) \cup Changed(r))
     \/ Committed(r)

DeleteShape(r) ==
  /\ txn[r].user \in Users /\ txn[r].app = None
  /\ \/ /\ txn[r].kind = "delete_app"
        /\ At(r, "delete", {}) \/ At(r, "commit", {"delete"})
     \/ /\ txn[r].kind = "delete_company"
        /\ txn[r].company \in Companies
        /\ \/ At(r, "delete", {})
           \/ At(r, "delete_company", {"delete"})
           \/ At(r, "commit", {"delete", "delete_company"})

\* A request writes only what its handler validated: by the time it records a
\* move the move is legal from the stage it read, and what it has sent is
\* exactly what its place in the handler says.
ProtocolOK ==
  \A r \in Requests : \/ ClosedShape(r) \/ CreateShape(r) \/ TransitionShape(r)
                       \/ PatchShape(r) \/ DeleteShape(r)

-----------------------------------------------------------------------------
(* What the row locks of an open transaction preserve until it commits.     *)

\* A statement that has succeeded found its row and its parents, and they are
\* still there: nobody can have deleted them since.
ParentsPresent ==
  \A r \in Requests :
    /\ Sent(r, "update") \/ (Sent(r, "insert") /\ txn[r].kind # "create")
         => apps[txn[r].app] # None
    /\ Sent(r, "insert_app") \/ (Moves(r) /\ Sent(r, "update"))
         => company[txn[r].company] # None

\* The inductive core.
CoreInv == TypeOK /\ ProtocolOK /\ LocksHeld /\ ParentsPresent
=============================================================================
