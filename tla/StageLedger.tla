---------------------------- MODULE StageLedger ----------------------------
(***************************************************************************)
(* The ledger as the documentation describes it ("deterministic stage       *)
(* machine ... backed by an append-only ledger", README.md): every          *)
(* application walks along the transition matrix and its timeline is that   *)
(* walk, each entry starting where the one before it ended.                 *)
(***************************************************************************)
EXTENDS StageMachine, Sequences

CONSTANTS Apps, None

VARIABLES stage,     \* current stage of each application, None if it is absent
          timeline   \* its moves, in chronological order

Open(a, s) ==
  /\ stage[a] = None
  /\ stage' = [stage EXCEPT ![a] = s]
  /\ timeline' = [timeline EXCEPT ![a] = << [from |-> None, to |-> s] >>]

Move(a, s) ==
  /\ stage[a] # None
  /\ ValidTransition(stage[a], s)
  /\ stage' = [stage EXCEPT ![a] = s]
  /\ timeline' = [timeline EXCEPT ![a] = Append(@, [from |-> stage[a], to |-> s])]

Drop(gone) ==
  /\ stage' = [a \in Apps |-> IF a \in gone THEN None ELSE stage[a]]
  /\ timeline' = [a \in Apps |-> IF a \in gone THEN << >> ELSE timeline[a]]

Init ==
  /\ stage \in [Apps -> Stages \cup {None}]
  /\ timeline = [a \in Apps |-> IF stage[a] = None THEN << >>
                                ELSE << [from |-> None, to |-> stage[a]] >>]

Next ==
  \/ \E a \in Apps, s \in Stages : Open(a, s) \/ Move(a, s)
  \/ \E gone \in SUBSET Apps : Drop(gone)

Spec == Init /\ [][Next]_<<stage, timeline>>
=============================================================================
