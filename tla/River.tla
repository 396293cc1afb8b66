------------------------------- MODULE River -------------------------------
(***************************************************************************)
(* The job queue as the workers of this repository use it (River, an       *)
(* external library): a job is delivered to one worker at a time, at least *)
(* once, and is settled by what Work returns.                              *)
(***************************************************************************)
EXTENDS Integers

JobStates == {"absent", "available", "running", "retryable", "scheduled",
              "completed", "cancelled", "discarded"}
Waiting == {"available", "retryable", "scheduled"}
Active == Waiting \cup {"running"}
Settled == {"completed", "cancelled", "discarded"}

\* What Work can return: nil, JobCancel, JobSnooze or any other error.
Results == {"ok", "cancel", "snooze", "error"}

AbsentJob == [state |-> "absent", attempt |-> 0]
InsertedJob == [state |-> "available", attempt |-> 0]
DeliveredJob(job) == [state |-> "running", attempt |-> job.attempt + 1]

AfterFailureHasty(n, max) == IF n + 1 >= max THEN "discarded" ELSE "retryable"

\* Attempt n failed: retried until the attempts are used up.
AfterFailure(n, max) == IF n >= max THEN "discarded" ELSE "retryable"

OutcomeGenerous(job, r, n, max) ==
    [state |-> [ok |-> "completed", cancel |-> "cancelled",
                snooze |-> "scheduled", error |-> "retryable"][r],
     attempt |-> n - 1]

\* How a running job is settled when attempt n returns r.  A snooze gives the
\* attempt back.
Outcome(job, r, n, max) ==
    [state |-> [ok |-> "completed", cancel |-> "cancelled",
                snooze |-> "scheduled", error |-> AfterFailure(n, max)][r],
     attempt |-> IF r = "snooze" THEN n - 1 ELSE job.attempt]

\* A report counts only while the job is marked as running.
SettledJob(job, r, n, max) ==
    IF job.state = "running" THEN Outcome(job, r, n, max) ELSE job

\* The rescuer takes back a job that has been running for too long.
RescuedJob(job, max) ==
    [state |-> AfterFailure(job.attempt, max), attempt |-> job.attempt]
=============================================================================
