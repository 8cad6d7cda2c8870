-------------------------- MODULE MCReminderWorker --------------------------
(* Instances of ReminderWorker for TLC.                                     *)
EXTENDS ReminderWorker, TLC

CONSTANT alice

\* One user, to whom all follow-ups and interviews belong.
MCOwner == [ i \in Reminders |-> alice ]

\* "Call" occurs in "Call Bob" and matches its notifications, not the reverse.
\* Both fit; the third is too long for the prefix of either kind.
MCTitles  == {"Call", "Call Bob", "long"}
MCLike    == { <<t, t>> : t \in MCTitles } \cup { <<"Call", "Call Bob">> }
MCTooLong == [ kind \in Kinds |-> {"long"} ]

Row(kind, title, at, open) == [kind |-> kind, title |-> title, at |-> at, open |-> open]

\* Follow-ups that are due, become due and cannot be inserted, or are closed, and
\* an interview that passes.
DeliveryInputs ==
  { Row("follow_up", "Call", 0, TRUE), Row("follow_up", "long", 1, TRUE),
    Row("follow_up", "Call", 0, FALSE), Row("interview", "Call", 0, TRUE) }

\* Follow-ups on two days, one with a title that occurs in the other's.
TodayInputs ==
  { Row("follow_up", "Call", 0, TRUE), Row("follow_up", "Call", 1, TRUE),
    Row("follow_up", "Call Bob", 0, TRUE) }
=============================================================================
