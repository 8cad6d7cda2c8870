----------------------------- MODULE Analytics -----------------------------
(***************************************************************************)
(* The arithmetic of the analytics endpoints: aggregates over a user's      *)
(* applications and their ledger rows, and the schemas that check them.     *)
(*                                                                         *)
(* Percentages and average days are hundredths, rounded to the nearest (ties *)
(* need totals beyond the bounds).  The input is a table of applications     *)
(* with their ledgers; a request reads it and answers.                       *)
(***************************************************************************)
EXTENDS StageMachine, HttpApi, Sequences, FiniteSets, Functions

CONSTANTS
  Apps,        \* ids of applications
  Portfolios,  \* tables that a user may have
  None         \* an absent application, the origin of a creation, no value

\* A ledger row; at is changed_at in days.
Entry == [from : Stages \cup {None}, to : Stages, at : Nat]

\* source stands for the columns that are broken down like it.
AppRow == [ stage  : Stages,
            status : {"ACTIVE", "ARCHIVED"},
            source : {"LINKEDIN", "OTHER"},
            month  : Nat,
            ledger : Seq(Entry) ]

Endpoints == {"dashboard", "funnel", "breakdown", "velocity", "timeline"}

\* Ledgers begin with the creation and are in the order of changed_at.
AnalyticsConstants ==
  /\ IsFiniteSet(Apps)
  /\ None \notin Endpoints
  /\ Portfolios \subseteq [Apps -> AppRow \cup {None}]
  /\ \A p \in Portfolios, a \in Apps : p[a] # None =>
       LET ledger == p[a].ledger
       IN \A k \in DOMAIN ledger : /\ ledger[k].from = None <=> k = 1
                                   /\ k > 1 => ledger[k - 1].at <= ledger[k].at

VARIABLES
  apps,     \* applications and application_stage_history of the user
  response  \* the endpoint, the status and the data of an answer

vars == <<apps, response>>

TypeOK ==
  /\ apps \in Portfolios
  /\ response.of \in Endpoints \cup {None}
  /\ response.status \in {200, StatusOf.Unhandled}

-----------------------------------------------------------------------------

Present == { a \in Apps : apps[a] # None }

\* round(n / d, 2), in hundredths; 0 if there is nothing to divide by.
Rounded(n, d) == IF d = 0 THEN 0 ELSE (2 * 100 * n + d) \div (2 * d)

Percent(n, d) == Rounded(100 * n, d)

InStages(S) == Cardinality({ a \in Present : apps[a].stage \in S })

\* get_dashboard_kpis, without the counts of companies and interviews.
Dashboard ==
  LET applied   == InStages(Stages \ {"SAVED"})
      responded == InStages(Stages \ {"SAVED", "APPLIED"})
      offers    == InStages({"OFFER"})
  IN [ total_applications  |-> Cardinality(Present),
       active_applications |-> Cardinality({ a \in Present : apps[a].status = "ACTIVE" }),
       offers_received     |-> offers,
       rejections_received |-> InStages({"REJECTED"}),
       response_rate       |-> Percent(responded, applied),
       offer_rate          |-> Percent(offers, applied) ]

\* Mutant: a stage is forgotten.
FunnelOrderShort == <<"SAVED", "APPLIED", "SCREENING", "ONLINE_ASSESSMENT", "INTERVIEW", "OFFER", "REJECTED">>

FunnelOrder ==
  <<"SAVED", "APPLIED", "SCREENING", "ONLINE_ASSESSMENT", "INTERVIEW", "OFFER", "REJECTED", "WITHDRAWN">>

\* get_funnel_analytics: conversion is relative to the count of the stage
\* before in the list.
Funnel ==
  LET count(k) == InStages({FunnelOrder[k]})
      total    == Cardinality(Present)
  IN [k \in DOMAIN FunnelOrder |->
        [ count      |-> count(k),
          percentage |-> Percent(count(k), total),
          conversion |-> IF k = 1 THEN None ELSE Percent(count(k), count(k - 1)) ]]

\* FunnelStageMetric, the schema of an entry: le=100.0.
FunnelValid(funnel) ==
  \A k \in DOMAIN funnel : /\ funnel[k].percentage <= 10000
                           /\ funnel[k].conversion # None => funnel[k].conversion <= 10000

\* _calc_dist: one entry for each value that occurs.
Distribution(value) ==
  { [ name       |-> v,
      count      |-> Cardinality({ a \in Present : value[a] = v }),
      percentage |-> Percent(Cardinality({ a \in Present : value[a] = v }), Cardinality(Present)) ]
    : v \in { value[a] : a \in Present } }

Breakdown == [ by_stage  |-> Distribution([a \in Present |-> apps[a].stage]),
               by_source |-> Distribution([a \in Present |-> apps[a].source]) ]

\* get_stage_transitions: ledger rows but for creations.
Transitions == UNION { {a} \X (2 .. Len(apps[a].ledger)) : a \in Present }

Pair(t) == LET entry == apps[t[1]].ledger[t[2]] IN <<entry.from, entry.to>>

\* Mutant: app_last_change is not updated.
ElapsedSinceFirst(t) ==
  LET ledger == apps[t[1]].ledger IN ledger[t[2]].at - ledger[2].at

\* Days since the previous transition of the application; its first one has
\* none, as its creation is not among the rows.
Elapsed(t) ==
  LET ledger == apps[t[1]].ledger
  IN IF t[2] = 2 THEN 0 ELSE ledger[t[2]].at - ledger[t[2] - 1].at

\* get_stage_velocity
Velocity ==
  LET days == [t \in Transitions |-> Elapsed(t)]
  IN { LET T == { t \in Transitions : Pair(t) = p }
       IN [pair |-> p, count |-> Cardinality(T), avg |-> Rounded(SumFunctionOnSet(days, T), Cardinality(T))]
       : p \in { Pair(t) : t \in Transitions } }

\* get_timeline_series
Timeline ==
  LET months == { apps[a].month : a \in Present }
  IN [m \in months |-> Cardinality({ a \in Present : apps[a].month = m })]

-----------------------------------------------------------------------------

Answer(of, status, body) ==
  /\ response.of = None
  /\ response' = [of |-> of, status |-> status, body |-> body]
  /\ UNCHANGED apps

\* What its schema refuses is an unhandled error.
GetFunnel == Answer("funnel", IF FunnelValid(Funnel) THEN 200 ELSE StatusOf.Unhandled, Funnel)

GetDashboard == Answer("dashboard", 200, Dashboard)
GetBreakdown == Answer("breakdown", 200, Breakdown)
GetVelocity  == Answer("velocity", 200, Velocity)
GetTimeline  == Answer("timeline", 200, Timeline)

Init ==
  /\ apps \in Portfolios
  /\ response = [of |-> None, status |-> 200, body |-> None]

Quiet == response.of # None /\ UNCHANGED vars

Next == GetDashboard \/ GetFunnel \/ GetBreakdown \/ GetVelocity \/ GetTimeline \/ Quiet

Spec == Init /\ [][Next]_vars

-----------------------------------------------------------------------------
(* Properties.                                                              *)

\* Entries that count all applications, with shares that add up to 100 % but
\* for half a hundredth per entry.
Complete(entries) ==
  LET sum   == SumFunction([e \in DOMAIN entries |-> entries[e].percentage])
      slack == Cardinality(DOMAIN entries)
  IN /\ SumFunction([e \in DOMAIN entries |-> entries[e].count]) = Cardinality(Present)
     /\ Present # {} => 2 * sum \in 20000 - slack .. 20000 + slack

\* Each report counts each application exactly once, also those that are
\* withdrawn or archived, and its rates are shares of them.
ReportsAddUp ==
  LET body == response.body
  IN CASE response.of = "funnel"    -> Complete(body)
       [] response.of = "breakdown" -> /\ Complete([e \in body.by_stage |-> e])
                                       /\ Complete([e \in body.by_source |-> e])
       [] response.of = "timeline"  -> SumFunction(body) = Cardinality(Present)
       [] response.of = "dashboard" ->
            /\ body.offer_rate <= body.response_rate /\ body.response_rate <= 10000
            /\ body.offers_received + body.rejections_received <= body.total_applications
       [] OTHER -> TRUE

\* The velocity report attributes the days between the first and the last
\* transition of each application, and no others, to pairs of stages, but for
\* the rounding of the averages.  The days between the creation and the first
\* transition are in none of them.
VelocityTelescopes ==
  LET span(a) == LET ledger == apps[a].ledger
                 IN IF Len(ledger) < 2 THEN 0 ELSE ledger[Len(ledger)].at - ledger[2].at
      days == 100 * SumFunction([a \in Present |-> span(a)])
      sum  == SumFunction([e \in response.body |-> e.count * e.avg])
  IN response.of = "velocity" => 2 * (sum - days) \in -Cardinality(Transitions) .. Cardinality(Transitions)

\* What the schema of the funnel demands of a conversion (le=100.0,
\* schemas/analytics.py), its service delivers.
FunnelServed == response.of = "funnel" => response.status = 200
=============================================================================
