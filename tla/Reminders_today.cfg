SPECIFICATION Spec
CONSTANTS
  alice = alice
  Reminders = {i1, i2}
  Users = {alice}
  Owner <- MCOwner
  Titles <- MCTitles
  Like <- MCLike
  Inputs <- TodayInputs
  TooLong <- MCTooLong
  Tasks = {"follow_up"}
  Workers = {w1, w2}
  None = None
  MaxDay = 1
  MaxEvents = 0
PROPERTY SuppressedByToday
