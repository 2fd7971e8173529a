------------------------------- MODULE Queue -------------------------------
(***************************************************************************)
(* The BullMQ queues between the API and the worker, as far as the code    *)
(* relies on them: Queue.add without attempts, and Worker with the default *)
(* options.  A job whose processor throws is failed and not tried again.   *)
(* A job whose worker dies is found stalled and handed out once more, and  *)
(* failed when that worker dies too.                                       *)
(***************************************************************************)
EXTENDS Naturals

CONSTANTS
    Job,        \* the jobs of all queues
    StallLimit  \* times a stalled job is handed out again: maxStalledCount

ASSUME StallAssumption == StallLimit \in Nat

VARIABLES
    job,        \* where each job is
    stalls      \* times the worker of the job died

queueVars == <<job, stalls>>

Ended == {"completed", "failed"}

QueueTypeOK ==
    /\ job \in [Job -> {"none", "waiting", "active"} \cup Ended]
    /\ stalls \in [Job -> 0 .. StallLimit + 1]

QueueInit ==
    /\ job = [j \in Job |-> "none"]
    /\ stalls = [j \in Job |-> 0]

Move(j, from, to) ==
    /\ job[j] = from
    /\ job' = [job EXCEPT ![j] = to]
    /\ UNCHANGED stalls

Add(j)      == Move(j, "none", "waiting")
Take(j)     == Move(j, "waiting", "active")
Complete(j) == Move(j, "active", "completed")
Fail(j)     == Move(j, "active", "failed")

(* A variant with a bug: stalled jobs are not looked for.                  *)
StallUnseen(j) ==
    /\ job[j] = "active"
    /\ stalls' = [stalls EXCEPT ![j] = @ + 1]
    /\ UNCHANGED job

Stall(j) ==
    /\ job[j] = "active"
    /\ stalls' = [stalls EXCEPT ![j] = @ + 1]
    /\ job' = [job EXCEPT ![j] = IF stalls[j] < StallLimit THEN "waiting"
                                                           ELSE "failed"]
=============================================================================
