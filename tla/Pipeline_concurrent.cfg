SPECIFICATION Spec
CONSTANTS
  Users = {u1, u2}
  Companies = {c1, c2}
  OldApps = {a1}
  Requests = {r1, r2, r3}
  Fallible = {}
  MaxOpen = 3
  EntryStages = {"INTERVIEW"}
  AskedStages = {"INTERVIEW", "REJECTED"}
  None = None
SYMMETRY RequestSymmetry
INVARIANTS TypeOK EdgesLegal OriginRecorded CurrentStageRecorded LedgerComplete
  TenantConsistent AnsweredIsRecorded LocksHeld
PROPERTIES AppendOnly
