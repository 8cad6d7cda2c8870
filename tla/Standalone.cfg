SPECIFICATION StandaloneSpec
CONSTANTS
  \* Unique names
  n1 = n1
  n2 = n2
  t1 = t1
  Lower = Lower
  Mixed = Mixed
  Tenants = {t1}
  Names = {n1, n2, Empty}
  Empty = Empty
  Spellings = {Lower, Mixed, Upper}
  Accounts = Accounts
  None = None
  OldTables <- MCOldTables
  Requests = {r1, r2}
  Fallible = {r1}
  \* Rate limiter
  LimiterRequests = {q1, q2, q3}
  Max = 1
  Window = 2
  Grace = 1
  MaxNow = 3
  \* Attachments
  Users = {u1, u2}
  Referring = {"interview"}
  Applications = {app1}
  AttachmentRequests = {r1, r2, r3}
  AttachmentFallible = {r2}
  \* Listing
  RowIds = {1, 2, 3}
  Filterable = {"APPLIED"}
  Dates = {1, 2}
  Size = 1
  MaxEdits = 2
  \* Analytics
  ReportApps = {a1, a2, a3}
  Portfolios <- MCPortfolios
  a1 = a1
  a2 = a2
  a3 = a3
INVARIANTS
  InstancesTypeOK
  TwinsOverlap
  AddressTwinsAreTyped
  AdmissionBound
  RefusalJustified
  NoStrayChildren
  LateRefusalsSpoilt
  PagesPartition
  ReportsAddUp
  VelocityTelescopes
PROPERTIES
  UndeclaredHasCause
  SignInFindsAccount
  EveryRequestAnswered
  UndeclaredExplained
