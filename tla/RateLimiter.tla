---------------------------- MODULE RateLimiter ----------------------------
(***************************************************************************)
(* The sliding-window log in front of login and registration: one sorted    *)
(* set in Redis per endpoint and client, one entry per request.             *)
(*                                                                         *)
(* A request reads the clock and later runs its pipeline, which Redis       *)
(* executes as one transaction; other requests of the client may do either  *)
(* in between, in any number of server processes.  Redis may be missing or  *)
(* fail, in which case the request is let through.  The processes' clocks   *)
(* and that of Redis are taken to agree.                                    *)
(***************************************************************************)
EXTENDS Integers, FiniteSets

CONSTANTS
  Requests,  \* requests of one client to one endpoint
  Max,       \* max_requests
  Window,    \* window_seconds
  Grace,     \* what the key lives beyond the window: 5 seconds
  MaxNow     \* bound on the clock

\* What the constants must satisfy.
LimiterConstants ==
  /\ IsFiniteSet(Requests)
  /\ Max \in Nat \ {0} /\ Window \in Nat \ {0} /\ Grace \in Nat \ {0}
  /\ MaxNow \in Nat

VARIABLES
  now,      \* the clock, in seconds
  log,      \* the requests that have an entry; the score is their stamp
  expires,  \* when the key disappears
  pc,       \* progress of each request; in the end, how it was answered
  stamp,    \* what time.time() gave it
  late      \* for the properties only: requests whose pipeline ran Grace seconds
            \* after their stamp, or found the entry of a later stamp

vars == <<now, log, expires, pc, stamp, late>>

Replied == {"admitted", "refused", "bypassed"}

TypeOK ==
  /\ now \in Nat
  /\ log \subseteq Requests
  /\ expires \in Nat
  /\ pc \in [Requests -> {"idle", "timed"} \cup Replied]
  /\ stamp \in [Requests -> Nat]
  /\ late \subseteq Requests

-----------------------------------------------------------------------------

\* now = time.time()
TakeTime(r) ==
  /\ pc[r] = "idle"
  /\ stamp' = [stamp EXCEPT ![r] = now]
  /\ pc' = [pc EXCEPT ![r] = "timed"]
  /\ UNCHANGED <<now, log, expires, late>>

\* Redis drops a key that has expired.
Entries == IF expires <= now THEN {} ELSE log

\* Mutant: an entry as old as the window is kept.
KeptAtEdge(r) == { q \in Entries : stamp[q] >= stamp[r] - Window }

\* zremrangebyscore(key, 0, window_start): both ends are included.
Kept(r) == { q \in Entries : stamp[q] > stamp[r] - Window }

\* Whether the pipeline came too late for its stamp.
Overtaken(r) ==
  \/ now - stamp[r] >= Grace
  \/ \E q \in log : stamp[q] > stamp[r]

\* Mutant: the key lives from the start of the window.
ExecuteExpiringEarly(r) ==
  /\ log' = Kept(r) \cup {r}
  /\ expires' = stamp[r] - Window + Grace
  /\ late' = IF Overtaken(r) THEN late \cup {r} ELSE late
  /\ UNCHANGED <<now, stamp>>

\* zremrangebyscore, zadd, zcard, expire.
Execute(r) ==
  /\ log' = Kept(r) \cup {r}
  /\ expires' = now + Window + Grace
  /\ late' = IF Overtaken(r) THEN late \cup {r} ELSE late
  /\ UNCHANGED <<now, stamp>>

\* Mutant: the entries are counted before the own one is added.
OutcomeBefore(r) == IF Cardinality(Kept(r)) > Max THEN "refused" ELSE "admitted"

\* The count includes the own entry.
Outcome(r) == IF Cardinality(Kept(r) \cup {r}) > Max THEN "refused" ELSE "admitted"

\* The pipeline, and what its third result says.  A refused request keeps its
\* entry.
Evaluate(r) ==
  /\ pc[r] = "timed"
  /\ Execute(r)
  /\ pc' = [pc EXCEPT ![r] = Outcome(r)]

\* No client, or an error from Redis, before or after it has executed the
\* pipeline: the request is allowed.
Bypass(r) ==
  /\ pc[r] = "timed"
  /\ Execute(r) \/ UNCHANGED <<now, log, expires, stamp, late>>
  /\ pc' = [pc EXCEPT ![r] = "bypassed"]

Tick == now < MaxNow /\ now' = now + 1 /\ UNCHANGED <<log, expires, pc, stamp, late>>

-----------------------------------------------------------------------------

Init ==
  /\ now = 0
  /\ log = {}
  /\ expires = 0
  /\ pc = [r \in Requests |-> "idle"]
  /\ stamp = [r \in Requests |-> 0]
  /\ late = {}

Quiet == now = MaxNow /\ (\A r \in Requests : pc[r] \in Replied) /\ UNCHANGED vars

Next ==
  \/ \E r \in Requests : TakeTime(r) \/ Evaluate(r) \/ Bypass(r)
  \/ Tick
  \/ Quiet

Spec == Init /\ [][Next]_vars

-----------------------------------------------------------------------------
(* Properties.                                                              *)

Within(t) == { r \in Requests : t - Window < stamp[r] /\ stamp[r] <= t }

\* In no window of the given length does the log let more than the maximum
\* through, but for requests whose pipeline came late: those find the entries
\* beside theirs removed, by a request with a later stamp or with the key.
AdmissionBound ==
  \A t \in 0 .. now :
    Cardinality({ r \in Within(t) : pc[r] = "admitted" /\ r \notin late }) <= Max

\* A request is refused only if as many others as are allowed were stamped less
\* than a window before it (or after it, if it was overtaken).  So a client that
\* keeps still for a window, as Retry-After tells it, is let through.
RefusalJustified ==
  \A r \in Requests : pc[r] = "refused" =>
    Cardinality({ q \in Requests \ {r} : pc[q] \in Replied
                                          /\ stamp[q] > stamp[r] - Window }) >= Max
=============================================================================
