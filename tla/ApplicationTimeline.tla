------------------------ MODULE ApplicationTimeline ------------------------
(***************************************************************************)
(* The timeline that GET /applications/{id}/timeline shows, and the         *)
(* strict ledger it amounts to when requests do not overlap.                *)
(***************************************************************************)
EXTENDS ApplicationPipeline, Sequences

RowsOf(a) == { h \in history : h.app = a }

\* The position of a row in the order of changed_at.
Position(h) == Cardinality({ g \in RowsOf(h.app) : g.at <= h.at })

RowAt(a, k) == CHOOSE h \in RowsOf(a) : Position(h) = k

\* get_timeline: the rows of an application ordered by changed_at.
Timeline(a) == [k \in 1 .. Cardinality(RowsOf(a)) |-> RowAt(a, k)]

\* The moves that it shows.
Progression(a) ==
  [k \in DOMAIN Timeline(a) |-> [from |-> Timeline(a)[k].from, to |-> Timeline(a)[k].to]]

Ledger == INSTANCE StageLedger WITH
  stage    <- [a \in Apps |-> StageOf(a)],
  timeline <- [a \in Apps |-> Progression(a)]

\* "Enforcing finite state machine constraints" (POST .../stage) and "complete
\* chronological stage progression" (GET .../timeline): the pipeline
\* implements the strict ledger.
ImplementsStageLedger == Ledger!Spec

\* "Retrieve the complete chronological progression of an application"
\* (stage_history_repository.py): the last entry of a timeline is the stage
\* that the application is in.
TimelineEndsAtCurrentStage ==
  \A a \in Apps : apps[a] # None => Timeline(a)[Len(Timeline(a))].to = apps[a].stage
=============================================================================
