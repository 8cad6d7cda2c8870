---------------------------- MODULE StageMachine ----------------------------
(***************************************************************************)
(* The stages of a job application and the transition matrix that every    *)
(* stage change is validated against (app/core/state_machine.py).  The     *)
(* module holds constant operators only: it is the vocabulary of the       *)
(* modules that model requests, of the abstract ledger and of their proofs. *)
(***************************************************************************)

\* The members of the ApplicationStage enumeration.
Stages == { "SAVED", "APPLIED", "SCREENING", "ONLINE_ASSESSMENT",
            "INTERVIEW", "OFFER", "REJECTED", "WITHDRAWN" }

\* The matrix of permitted targets, one entry per origin.
VALID_STAGE_TRANSITIONS ==
  [ SAVED             |-> { "APPLIED", "WITHDRAWN" },
    APPLIED           |-> { "SCREENING", "ONLINE_ASSESSMENT", "INTERVIEW",
                            "REJECTED", "WITHDRAWN" },
    SCREENING         |-> { "ONLINE_ASSESSMENT", "INTERVIEW",
                            "REJECTED", "WITHDRAWN" },
    ONLINE_ASSESSMENT |-> { "INTERVIEW", "REJECTED", "WITHDRAWN" },
    INTERVIEW         |-> { "INTERVIEW", "OFFER", "REJECTED", "WITHDRAWN" },
    OFFER             |-> { "WITHDRAWN", "REJECTED" },
    REJECTED          |-> {},
    WITHDRAWN         |-> { "APPLIED" } ]

\* validate_stage_transition returns instead of raising: the same stage is
\* accepted only as a further interview round, any other target only when
\* the matrix lists it.
ValidTransition(from, to) ==
  /\ from = to => from = "INTERVIEW"
  /\ to \in VALID_STAGE_TRANSITIONS[from]
=============================================================================
