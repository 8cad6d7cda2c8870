SPECIFICATION Spec
CONSTANTS
  Users = {u1}
  Companies = {c1}
  OldApps = {a1}
  Requests = {r1, r2, r3}
  Fallible = {r1, r2, r3}
  MaxOpen = 1
  EntryStages = {"SAVED", "INTERVIEW"}
  AskedStages = {"APPLIED", "SCREENING", "INTERVIEW", "OFFER", "REJECTED", "WITHDRAWN"}
  None = None
SYMMETRY RequestSymmetry
PROPERTY ImplementsStageLedger
