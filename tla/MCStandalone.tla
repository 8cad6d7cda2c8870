---------------------------- MODULE MCStandalone ----------------------------
(***************************************************************************)
(* The components that share no state with others: unique names, the rate   *)
(* limiter, what hangs on an application, pages, and the arithmetic of the   *)
(* analytics endpoints.  None of their steps depends on or changes what       *)
(* another one keeps, so that each is checked by itself: the initial state   *)
(* chooses the one that runs.                                                *)
(***************************************************************************)
EXTENDS UniqueNames

CONSTANTS n1, n2,                             \* names, in
          Mixed,                              \* another spelling,
          t1,                                 \* of a tenant
          LimiterRequests, Max, Window, Grace, MaxNow,
          Users, Referring, Applications, AttachmentRequests, AttachmentFallible,
          RowIds, Filterable, Dates, Size, MaxEdits,
          ReportApps, Portfolios, a1, a2, a3

VARIABLES active,
          now, log, expires, limiterPc, stamp, late,
          attached, attachedPc, attachedTxn, attachedCommitted,
          listed, query, page, pagesPc, read, edits, steady, exposed, pushed,
          apps, response

Limiter == INSTANCE RateLimiter WITH Requests <- LimiterRequests, pc <- limiterPc

Attached == INSTANCE Attachments WITH
  Requests <- AttachmentRequests, Fallible <- AttachmentFallible,
  rows <- attached, pc <- attachedPc, txn <- attachedTxn,
  committed <- attachedCommitted

Pages == INSTANCE Listing WITH
  Ids <- RowIds, Stages <- Filterable, rows <- listed, pc <- pagesPc

Reports == INSTANCE Analytics WITH Apps <- ReportApps

ASSUME StandaloneAssumption ==
  /\ Limiter!LimiterConstants
  /\ Attached!AttachmentsConstants
  /\ Pages!ListingConstants
  /\ Reports!AnalyticsConstants

-----------------------------------------------------------------------------

Old(scope, name, spelling) ==
  [ key   |-> [scope |-> scope, name |-> name, spelling |-> spelling],
    typed |-> scope = Accounts /\ spelling # Lower,
    by    |-> {None} ]

\* Two accounts or two companies, whose names may be twins.
MCOldTables ==
  { {Old(Accounts, n1, Lower), Old(Accounts, n2, Lower)},
    {Old(Accounts, n1, Lower), Old(Accounts, n1, Mixed)},
    {Old(t1, n1, Lower), Old(t1, n2, Lower)},
    {Old(t1, n1, Lower), Old(t1, n1, Mixed)} }

\* The tables of the analytics endpoints.
Tables == INSTANCE MCAnalytics WITH Apps <- ReportApps, Portfolios <- {}
MCPortfolios == Tables!MCPortfolios

-----------------------------------------------------------------------------

limiterVars  == <<now, log, expires, limiterPc, stamp, late>>
attachedVars == <<attached, attachedPc, attachedTxn, attachedCommitted>>
pagesVars    == <<listed, query, page, pagesPc, read, edits, steady, exposed, pushed>>
reportsVars  == <<apps, response>>

allVars == <<vars, active, limiterVars, attachedVars, pagesVars, reportsVars>>

\* A component that does not run starts in one particular state.  Queries
\* in ascending order filter by date, those in descending order by stage.
StandaloneInit ==
  /\ active \in {"names", "limiter", "attached", "pages", "reports"}
  /\ Init
  /\ active # "names" =>
       \A i \in Ids : Stored(i) => KeyOf(i).scope = Accounts /\ KeyOf(i).spelling = Lower
  /\ Limiter!Init
  /\ Attached!Init
  /\ active # "attached" =>
       \A i \in Applications : attached[i].user = CHOOSE u \in Users : TRUE
  /\ Pages!Init
  /\ \/ query.stage = None /\ query.sort = "asc"
     \/ query.from = None /\ query.to = None /\ query.sort = "desc"
  /\ active # "pages" => /\ \A i \in RowIds : listed[i] = None
                        /\ query = CHOOSE q \in Pages!Query : TRUE
  /\ Reports!Init /\ (active # "reports" => \A a \in DOMAIN apps : apps[a] = None)

\* Requests about accounts and requests about companies share neither rows nor
\* keys: a behaviour has those of one sort.
OneScope ==
  LET aboutAccounts == { r \in Requests : txn[r].kind \in {"register", "login", "update_my_profile"} }
      aboutCompanies == { r \in Requests : txn[r].kind \notin {"none", "register", "login", "update_my_profile"} }
  IN aboutAccounts = {} \/ aboutCompanies = {}

StandaloneNext ==
  \/ /\ active = "names" /\ Next /\ OneScope'
     /\ UNCHANGED <<active, limiterVars, attachedVars, pagesVars, reportsVars>>
  \/ /\ active = "limiter" /\ Limiter!Next
     /\ UNCHANGED <<active, vars, attachedVars, pagesVars, reportsVars>>
  \/ /\ active = "attached" /\ Attached!Next
     /\ UNCHANGED <<active, vars, limiterVars, pagesVars, reportsVars>>
  \/ /\ active = "pages" /\ Pages!Next
     /\ UNCHANGED <<active, vars, limiterVars, attachedVars, reportsVars>>
  \/ /\ active = "reports" /\ Reports!Next
     /\ UNCHANGED <<active, vars, limiterVars, attachedVars, pagesVars>>

\* The fairness of UniqueNames.
StandaloneSpec ==
  /\ StandaloneInit /\ [][StandaloneNext]_allVars
  /\ \A r \in Requests : WF_vars(active = "names" /\ Proceed(r))

-----------------------------------------------------------------------------
(* The properties of the instances; those of UniqueNames are extended.      *)

\* Typing of the components.
InstancesTypeOK ==
  TypeOK /\ Limiter!TypeOK /\ Attached!TypeOK /\ Pages!TypeOK /\ Reports!TypeOK

\* In no window more than the maximum is let through (RateLimiter).
AdmissionBound == Limiter!AdmissionBound

\* Who is refused was preceded by as many requests as are allowed (RateLimiter).
RefusalJustified == Limiter!RefusalJustified

\* Children have their parents, and their parents' owners (Attachments).
NoStrayChildren == Attached!NoStrayChildren

\* What was refused has changed nothing, but on rows with blank texts (Attachments).
LateRefusalsSpoilt == Attached!LateRefusalsSpoilt

\* Why an undeclared answer may be given (Attachments).
UndeclaredExplained == Attached!UndeclaredExplained

\* Each steady row is on exactly one page, unless rows moved past (Listing).
PagesPartition == Pages!PagesPartition

\* Reports count every application once (Analytics).
ReportsAddUp == Reports!ReportsAddUp

\* Velocity attributes the days between transitions, once (Analytics).
VelocityTelescopes == Reports!VelocityTelescopes
=============================================================================
