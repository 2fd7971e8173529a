------------------------------- MODULE Worker -------------------------------
(***************************************************************************)
(* The work the API leaves to the worker process: webhook events, e-mails, *)
(* calls and scheduled messages.  A request stores a record and adds a job *)
(* to a queue; a worker takes the job and runs the processor of its queue. *)
(*                                                                         *)
(* Every action is one database statement or one remote call.  A statement *)
(* may throw, a worker may die anywhere, also between the last statement   *)
(* and the completion of the job, and a remote peer may have acted on what *)
(* it answers with an error.  Only the table of webhooks is shared.        *)
(*                                                                         *)
(* The idempotency key of a delivery hashes a body with a fresh random id, *)
(* so no delivery is ever found by it, and each run of a job inserts rows  *)
(* of its own: the newest row of a hook is the one the run works on.       *)
(***************************************************************************)
EXTENDS Queue, SequencesExt

CONSTANTS
    Hook,       \* webhooks of the project, for the event of every job
    MaxAttempts \* WebhookDelivery.maxAttempts, 8 in the schema

ASSUME MaxAttemptsAssumption == MaxAttempts \in Nat \ {0}

VARIABLES
    kind,       \* the queue of each job
    request,    \* the request that adds it
    record,     \* status of the e-mail, call or message of the job
    hook,       \* Webhook.status
    log,        \* log[j][h]: the WebhookDelivery rows, oldest first
    work,       \* the processor of each job
    found,      \* history: the hooks its last run found
    mails,      \* history: times the mail server took the e-mail
    posts,      \* history: times the hook's receiver took the event
    doubt       \* history: a statement threw, or a peer that had acted
                \* answered with an error

history  == <<found, mails, posts, doubt>>
vars == <<queueVars, kind, request, record, hook, log, work, history>>

Kinds == {"webhook", "email", "voice", "sms"}

Deliveries == [status : {"PENDING", "SUCCESS", "FAILED", "DLQ"}, attempts : Nat]

Works == [at : {"idle", "begin", "next", "remote", "save", "catch", "end"},
          todo : SUBSET Hook, on : SUBSET Hook]

WorkerTypeOK ==
    /\ QueueTypeOK
    /\ kind \in [Job -> Kinds]
    /\ request \in [Job -> {"new", "stored", "done", "dead"}]
    /\ record \in [Job -> {"NONE", "QUEUED", "SENT", "FAILED", "IN_PROGRESS",
                           "COMPLETED", "SCHEDULED"}]
    /\ hook \in [Hook -> {"ABSENT", "ACTIVE", "DISABLED"}]
    /\ log \in [Job -> [Hook -> Seq(Deliveries)]]
    /\ work \in [Job -> Works]
    /\ found \in [Job -> SUBSET Hook]
    /\ mails \in [Job -> Nat]
    /\ posts \in [Job -> [Hook -> Nat]]
    /\ doubt \in [Job -> BOOLEAN]

Idle == [at |-> "idle", todo |-> {}, on |-> {}]

Init ==
    /\ QueueInit
    /\ kind \in [Job -> Kinds]
    /\ request = [j \in Job |-> "new"]
    /\ record = [j \in Job |-> "NONE"]
    /\ hook = [h \in Hook |-> "ABSENT"]
    /\ log = [j \in Job |-> [h \in Hook |-> <<>>]]
    /\ work = [j \in Job |-> Idle]
    /\ found = [j \in Job |-> {}]
    /\ mails = [j \in Job |-> 0]
    /\ posts = [j \in Job |-> [h \in Hook |-> 0]]
    /\ doubt = [j \in Job |-> FALSE]

-----------------------------------------------------------------------------
(* The requests.  An event has no record of its own; the delay of a        *)
(* scheduled message is the time until Take.                               *)
FirstStatus(j) == CASE kind[j] = "webhook" -> "NONE"
                    [] kind[j] \in {"email", "voice"} -> "QUEUED"
                    [] kind[j] = "sms" -> "SCHEDULED"

Store(j) ==
    /\ request[j] = "new"
    /\ request' = [request EXCEPT ![j] = "stored"]
    /\ record' = [record EXCEPT ![j] = FirstStatus(j)]
    /\ UNCHANGED <<queueVars, kind, hook, log, work, history>>

Enqueue(j) ==
    /\ request[j] = "stored"
    /\ request' = [request EXCEPT ![j] = "done"]
    /\ Add(j)
    /\ UNCHANGED <<kind, record, hook, log, work, history>>

RequestDies(j) ==
    /\ request[j] = "stored"
    /\ request' = [request EXCEPT ![j] = "dead"]
    /\ UNCHANGED <<queueVars, kind, record, hook, log, work, history>>

CreateHook(h) ==
    /\ hook[h] = "ABSENT"
    /\ hook' = [hook EXCEPT ![h] = "ACTIVE"]
    /\ UNCHANGED <<queueVars, kind, request, record, log, work, history>>

(* There is no way to enable a webhook again. *)
DisableHook(h) ==
    /\ hook[h] # "ABSENT"
    /\ hook' = [hook EXCEPT ![h] = "DISABLED"]
    /\ UNCHANGED <<queueVars, kind, request, record, log, work, history>>

-----------------------------------------------------------------------------
(* The processors.                                                         *)

Begin(j) ==
    /\ Take(j)
    /\ work' = [work EXCEPT ![j] = [Idle EXCEPT !.at = "begin"]]
    /\ UNCHANGED <<kind, request, record, hook, log, history>>

At(j, k, place) == kind[j] = k /\ work[j].at = place

Goto(j, place) == work' = [work EXCEPT ![j].at = place]

(* The processor returns, and the worker completes the job. *)
End(j) ==
    /\ work[j].at = "end" \/ (work[j].at = "next" /\ work[j].todo = {})
    /\ Complete(j)
    /\ work' = [work EXCEPT ![j] = Idle]
    /\ UNCHANGED <<kind, request, record, hook, log, history>>

ThrowOut(j) == Fail(j) /\ work' = [work EXCEPT ![j] = Idle]

(* A statement outside the try block throws. *)
Throws(j) ==
    /\ \/ work[j].at \in {"begin", "next", "catch"}
       \/ At(j, "voice", "remote")
    /\ ThrowOut(j)
    /\ doubt' = [doubt EXCEPT ![j] = TRUE]
    /\ UNCHANGED <<kind, request, record, hook, log, found, mails, posts>>

(* A variant with a bug: after such an error the remote call is repeated.  *)
SaveThrowsRetry(j) ==
    /\ work[j].at = "save"
    /\ Goto(j, IF kind[j] = "email" THEN "begin" ELSE "remote")
    /\ doubt' = [doubt EXCEPT ![j] = TRUE]
    /\ UNCHANGED <<queueVars, kind, request, record, hook, log, found, mails,
                   posts>>

(* The statement that records the success throws: the catch block takes it *)
(* for a failure of the remote call.                                       *)
SaveThrows(j) ==
    /\ work[j].at = "save"
    /\ Goto(j, "catch")
    /\ doubt' = [doubt EXCEPT ![j] = TRUE]
    /\ UNCHANGED <<queueVars, kind, request, record, hook, log, found, mails,
                   posts>>

WorkerDies(j) ==
    /\ work[j].at # "idle"
    /\ Stall(j)
    /\ work' = [work EXCEPT ![j] = Idle]
    /\ UNCHANGED <<kind, request, record, hook, log, history>>

(* processEmail *)
SendMail(j) ==
    /\ At(j, "email", "begin")
    /\ \E took, answered \in BOOLEAN :
         /\ answered => took
         /\ Goto(j, IF answered THEN "save" ELSE "catch")
         /\ mails' = [mails EXCEPT ![j] = IF took THEN @ + 1 ELSE @]
         /\ doubt' = [doubt EXCEPT ![j] = @ \/ (took /\ ~ answered)]
    /\ UNCHANGED <<queueVars, kind, request, record, hook, log, found, posts>>

SaveSent(j) ==
    /\ At(j, "email", "save")
    /\ record' = [record EXCEPT ![j] = "SENT"]
    /\ Goto(j, "end")
    /\ UNCHANGED <<queueVars, kind, request, hook, log, history>>

(* Variants with a bug: a failure is thrown without being recorded, or is  *)
(* recorded with a status that e-mails do not have.                        *)
SaveFailedNot(j) ==
    /\ At(j, "email", "catch")
    /\ ThrowOut(j)
    /\ UNCHANGED <<kind, request, record, hook, log, history>>

SaveFailedAsError(j) ==
    /\ At(j, "email", "catch")
    /\ record' = [record EXCEPT ![j] = "ERROR"]
    /\ ThrowOut(j)
    /\ UNCHANGED <<kind, request, hook, log, history>>

SaveFailed(j) ==
    /\ At(j, "email", "catch")
    /\ record' = [record EXCEPT ![j] = "FAILED"]
    /\ ThrowOut(j)
    /\ UNCHANGED <<kind, request, hook, log, history>>

(* processVoice: the call itself is a stub. *)
StartCall(j) ==
    /\ At(j, "voice", "begin")
    /\ record' = [record EXCEPT ![j] = "IN_PROGRESS"]
    /\ Goto(j, "remote")
    /\ UNCHANGED <<queueVars, kind, request, hook, log, history>>

EndCall(j) ==
    /\ At(j, "voice", "remote")
    /\ record' = [record EXCEPT ![j] = "COMPLETED"]
    /\ Goto(j, "end")
    /\ UNCHANGED <<queueVars, kind, request, hook, log, history>>

(* processSms *)
Requeue(j) ==
    /\ At(j, "sms", "begin")
    /\ record' = [record EXCEPT ![j] = IF @ \in {"SCHEDULED", "QUEUED"}
                                       THEN "QUEUED" ELSE @]
    /\ Goto(j, "end")
    /\ UNCHANGED <<queueVars, kind, request, hook, log, history>>

(* processWebhook.  The query has no order, so any hook may come next. *)
FindHooks(j) ==
    /\ At(j, "webhook", "begin")
    /\ LET active == {h \in Hook : hook[h] = "ACTIVE"}
       IN  /\ work' = [work EXCEPT ![j] = [at |-> "next", todo |-> active,
                                           on |-> {}]]
           /\ found' = [found EXCEPT ![j] = active]
    /\ UNCHANGED <<queueVars, kind, request, record, hook, log, mails, posts,
                   doubt>>

CreateDelivery(j, h) ==
    /\ At(j, "webhook", "next") /\ h \in work[j].todo
    /\ log' = [log EXCEPT ![j][h] =
                 Append(@, [status |-> "PENDING", attempts |-> 0])]
    /\ work' = [work EXCEPT ![j] = [at |-> "remote", on |-> {h},
                                    todo |-> @.todo \ {h}]]
    /\ UNCHANGED <<queueVars, kind, request, record, hook, history>>

Post(j, h) ==
    /\ At(j, "webhook", "remote") /\ h \in work[j].on
    /\ \E took, answered \in BOOLEAN :
         /\ answered => took
         /\ Goto(j, IF answered THEN "save" ELSE "catch")
         /\ posts' = [posts EXCEPT ![j][h] = IF took THEN @ + 1 ELSE @]
         /\ doubt' = [doubt EXCEPT ![j] = @ \/ (took /\ ~ answered)]
    /\ UNCHANGED <<queueVars, kind, request, record, hook, log, found, mails>>

Newest(j, h) == log[j][h][Len(log[j][h])]

Outcome(j, h) == IF log[j][h] = <<>> THEN "NONE" ELSE Newest(j, h).status

WriteNewest(j, h, status, attempts) ==
    log' = [log EXCEPT ![j][h][Len(log[j][h])] =
                       [status |-> status,
                        attempts |-> attempts]]

(* A variant with a bug: the first success returns.                        *)
SaveSuccessReturns(j, h) ==
    /\ At(j, "webhook", "save") /\ h \in work[j].on
    /\ WriteNewest(j, h, "SUCCESS", Newest(j, h).attempts + 1)
    /\ Goto(j, "end")
    /\ UNCHANGED <<queueVars, kind, request, record, hook, history>>

SaveSuccess(j, h) ==
    /\ At(j, "webhook", "save") /\ h \in work[j].on
    /\ WriteNewest(j, h, "SUCCESS", Newest(j, h).attempts + 1)
    /\ Goto(j, "next")
    /\ UNCHANGED <<queueVars, kind, request, record, hook, history>>

(* A variant with a bug: the failure is swallowed.                         *)
SaveFailureQuietly(j, h) ==
    /\ At(j, "webhook", "catch") /\ h \in work[j].on
    /\ LET attempts == Newest(j, h).attempts + 1
       IN  WriteNewest(j, h, IF attempts < MaxAttempts THEN "FAILED" ELSE "DLQ",
                       attempts)
    /\ Goto(j, "next")
    /\ UNCHANGED <<queueVars, kind, request, record, hook, history>>

(* The failure is thrown again and ends the job, unless it was the last    *)
(* attempt allowed.                                                        *)
SaveFailure(j, h) ==
    /\ At(j, "webhook", "catch") /\ h \in work[j].on
    /\ LET attempts == Newest(j, h).attempts + 1
       IN  IF attempts < MaxAttempts
           THEN WriteNewest(j, h, "FAILED", attempts) /\ ThrowOut(j)
           ELSE /\ WriteNewest(j, h, "DLQ", attempts)
                /\ Goto(j, "next")
                /\ UNCHANGED queueVars
    /\ UNCHANGED <<kind, request, record, hook, history>>

-----------------------------------------------------------------------------
RequestNext(j) == Store(j) \/ Enqueue(j) \/ RequestDies(j)

Processor(j) ==
    \/ Begin(j) \/ End(j)
    \/ SendMail(j) \/ SaveSent(j) \/ SaveFailed(j)
    \/ StartCall(j) \/ EndCall(j) \/ Requeue(j)
    \/ FindHooks(j)
    \/ \E h \in Hook : \/ CreateDelivery(j, h) \/ Post(j, h)
                       \/ SaveSuccess(j, h) \/ SaveFailure(j, h)

Failure(j) == Throws(j) \/ SaveThrows(j) \/ WorkerDies(j)

HookNext(h) == CreateHook(h) \/ DisableHook(h)

Next ==
    \/ \E j \in Job : RequestNext(j) \/ Processor(j) \/ Failure(j)
    \/ \E h \in Hook : HookNext(h)

Spec == Init /\ [][Next]_vars

(* Two replicas of the worker are restarted for ever and take what waits;  *)
(* a remote call ends in an answer or in the timeout of its library.       *)
FairSpec == Spec /\ \A j \in Job : WF_vars(Processor(j))

-----------------------------------------------------------------------------
(* The idempotency key does not keep a repeated job from posting again:    *)
(* each death of a worker may cost one more copy of an e-mail or event,    *)
(* and nothing else does.                                                  *)
CopiesAreStalls ==
    \A j \in Job : /\ mails[j] <= 1 + stalls[j]
                   /\ \A h \in Hook : posts[j][h] <= 1 + stalls[j]

(* A job reported as completed has done its work: the e-mail is SENT, the  *)
(* call COMPLETED, and every hook its last run found has its delivery,     *)
(* or the entry that it was given up.                                      *)
CompletedMeansDone ==
    \A j \in Job : job[j] = "completed" =>
        /\ kind[j] = "email" => record[j] = "SENT"
        /\ kind[j] = "voice" => record[j] = "COMPLETED"
        /\ \A h \in found[j] : Outcome(j, h) \in {"SUCCESS", "DLQ"}

(* A hook that was found and has no delivery although the job has ended    *)
(* was behind one that failed, since the first failure ends the job, or    *)
(* behind a statement that threw, or the workers of the job died too often.*)
MissedHookIsExplained ==
    \A j \in Job : \A h \in found[j] :
        (job[j] \in Ended /\ Outcome(j, h) = "NONE")
            => \/ \E g \in Hook : Outcome(j, g) = "FAILED"
               \/ doubt[j] \/ stalls[j] > StallLimit

(* Without a death of a worker, a throwing statement or an unclear answer, *)
(* the records of an ended job are final, and what is FAILED never arrived.*)
LeftOpen(j) ==
    \/ kind[j] \in {"email", "voice"} /\ record[j] \in {"QUEUED", "IN_PROGRESS"}
    \/ \E h \in Hook : Outcome(j, h) = "PENDING"

FalselyFailed(j) ==
    \/ record[j] = "FAILED" /\ mails[j] > 0
    \/ \E h \in Hook : Outcome(j, h) = "FAILED" /\ posts[j][h] > 0

RecordsAreRight ==
    \A j \in Job :
        (job[j] \in Ended /\ stalls[j] = 0 /\ ~ doubt[j])
            => ~ LeftOpen(j) /\ ~ FalselyFailed(j)

(* No job stays in its queue, whatever dies. *)
EveryJobEnds == \A j \in Job : job[j] = "waiting" ~> job[j] \in Ended
=============================================================================
