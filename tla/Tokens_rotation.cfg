SPECIFICATION FairSpec
CONSTANTS
  Users = {u1}
  OldTokens = {t1}
  Requests = {r1, r2, r3}
  Fallible = {r1, r2}
  Lifetime = 2
  MaxNow = 2
  None = None
INVARIANTS TypeOK ReplacedIsRevoked NoReplayAfterAnswer LogoutIsFinal HeldIsStored
PROPERTY EveryRequestAnswered
