---------------------------- MODULE AuditLedger ----------------------------
(***************************************************************************)
(* What the stage ledger promises when requests run concurrently.           *)
(*                                                                         *)
(* Every application carries a current stage and a trail, the set of moves  *)
(* recorded for it.  A move is legal from a stage that the application has  *)
(* been in, not necessarily from the one it is in now: a request validates  *)
(* the stage it read, and others may have moved the application since.      *)
(* What is promised nevertheless: a stage never changes without its entry,  *)
(* entries are never removed or rewritten, and only the deletion of an      *)
(* application ends its trail.                                              *)
(***************************************************************************)
EXTENDS StageMachine

CONSTANTS Apps, None

VARIABLES stage,  \* current stage of each application, None if it is absent
          trail   \* moves recorded for each application

Entered(a) == { move[2] : move \in trail[a] }

Open(a, s) ==
  /\ stage[a] = None
  /\ stage' = [stage EXCEPT ![a] = s]
  /\ trail' = [trail EXCEPT ![a] = {<<None, s>>}]

\* A further interview round leaves the current stage alone, whatever it is.
Move(a, from, to) ==
  /\ stage[a] # None
  /\ from \in Entered(a)
  /\ ValidTransition(from, to)
  /\ stage' = [stage EXCEPT ![a] = IF from = to THEN @ ELSE to]
  /\ trail' = [trail EXCEPT ![a] = @ \cup {<<from, to>>}]

\* Deleting a company takes several applications at once.
Drop(gone) ==
  /\ stage' = [a \in Apps |-> IF a \in gone THEN None ELSE stage[a]]
  /\ trail' = [a \in Apps |-> IF a \in gone THEN {} ELSE trail[a]]

Init ==
  /\ stage \in [Apps -> Stages \cup {None}]
  /\ trail = [a \in Apps |-> IF stage[a] = None THEN {} ELSE {<<None, stage[a]>>}]

Next ==
  \/ \E a \in Apps, s \in Stages : Open(a, s)
  \/ \E a \in Apps, from, to \in Stages : Move(a, from, to)
  \/ \E gone \in SUBSET Apps : Drop(gone)

Spec == Init /\ [][Next]_<<stage, trail>>
=============================================================================
