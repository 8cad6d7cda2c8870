SPECIFICATION Spec
CONSTANTS
  Users = {u1, u2}
  Companies = {c1, c2}
  OldApps = {a1}
  Requests = {r1, r2}
  Fallible = {r1, r2}
  MaxOpen = 3
  EntryStages = {"INTERVIEW"}
  AskedStages = {"OFFER", "REJECTED"}
  None = None
PROPERTY RejectedIsTerminal
