SPECIFICATION ExchangeSpec
CONSTANTS
  Users = {u1}
  Companies = {c1, c2}
  OldApps = {a1, a2}
  Exchanged = {a2}
  Requests = {r1, r2, m1, m2}
  Movers = {m1, m2}
  Fallible = {r1}
  MaxOpen = 3
  EntryStages = {"INTERVIEW"}
  AskedStages = {"INTERVIEW", "REJECTED"}
  None = None
INVARIANT DeadlocksNeedCascade
PROPERTIES EveryRequestAnswered ImplementsAuditLedger
