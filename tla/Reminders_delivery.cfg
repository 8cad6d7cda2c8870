SPECIFICATION FairSpec
CONSTANTS
  alice = alice
  Reminders = {i1, i2}
  Users = {alice}
  Owner <- MCOwner
  Titles <- MCTitles
  Like <- MCLike
  Inputs <- DeliveryInputs
  TooLong <- MCTooLong
  Tasks = {"follow_up", "interview"}
  Workers = {w1, w2}
  None = None
  MaxDay = 1
  MaxEvents = 1
INVARIANTS TypeOK DuplicatesOverlap
PROPERTIES AlertsAreDue FollowUpsReminded
