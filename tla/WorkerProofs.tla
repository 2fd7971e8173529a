---------------------------- MODULE WorkerProofs ----------------------------
(***************************************************************************)
(* Proofs of the safety properties of Worker, for any number of jobs and   *)
(* webhooks, any stall limit and any number of attempts.                   *)
(***************************************************************************)
EXTENDS Worker, SequenceTheorems, TLAPS

(* Types cannot be proved alone: the newest delivery of a webhook must be  *)
(* there when it is written.  Shape says what a processor holds where.     *)
Shape(j) ==
    /\ request[j] \in {"new", "stored"} => job[j] = "none"
    /\ job[j] # "failed" => stalls[j] <= StallLimit
    /\ work[j].at = "idle" <=> job[j] # "active"
    /\ kind[j] # "webhook" => /\ work[j].todo = {} /\ work[j].on = {}
                              /\ found[j] = {}
                              /\ \A h \in Hook : log[j][h] = <<>>
    /\ work[j].at \in {"idle", "begin"} => work[j].todo = {} /\ work[j].on = {}
    /\ \A h \in work[j].on : log[j][h] # <<>> /\ h \notin work[j].todo
    /\ \A g, h \in work[j].on : g = h
    /\ work[j].at = "next" => kind[j] = "webhook"
    /\ work[j].at = "end" => kind[j] # "webhook"
    /\ work[j].at = "remote" => kind[j] \in {"webhook", "voice"}
    /\ work[j].at \in {"save", "catch"} => kind[j] \in {"webhook", "email"}

Sound == WorkerTypeOK /\ \A j \in Job : Shape(j)

LEMMA SoundInit == Init => Sound
<1> SUFFICES ASSUME Init PROVE Sound
  OBVIOUS
<1>1. <<>> \in Seq(Deliveries)
  OBVIOUS
<1>2. Idle \in Works
  BY DEF Idle, Works
<1>3. stalls = [j \in Job |-> 0]
  BY DEF Init, QueueInit
<1>4. stalls \in [Job -> 0 .. StallLimit + 1] /\ \A j \in Job : stalls[j] <= StallLimit
  BY <1>3, StallAssumption
<1>5. WorkerTypeOK
  BY <1>1, <1>2, <1>4 DEF Init, QueueInit, WorkerTypeOK, QueueTypeOK
<1>6. \A j \in Job : Shape(j)
  BY <1>4 DEF Init, QueueInit, Shape, Idle
<1> QED
  BY <1>5, <1>6 DEF Sound

-----------------------------------------------------------------------------
(* What a new or a rewritten delivery does to the log: it changes the      *)
(* outcome of one webhook.                                                 *)
Logged(j, h, status) ==
    /\ log' \in [Job -> [Hook -> Seq(Deliveries)]]
    /\ log'[j][h] # <<>>
    /\ Outcome(j, h)' = status
    /\ \A g \in Hook : g # h => /\ log'[j][g] = log[j][g]
                               /\ Outcome(j, g)' = Outcome(j, g)
    /\ \A k \in Job : k # j => log'[k] = log[k]

LEMMA LogStep ==
  ASSUME WorkerTypeOK, NEW j \in Job, NEW h \in Hook, NEW s \in Seq(Deliveries),
         s # <<>>, log' = [log EXCEPT ![j][h] = s]
  PROVE  Logged(j, h, s[Len(s)].status)
<1>1. /\ log' \in [Job -> [Hook -> Seq(Deliveries)]]
      /\ log'[j][h] = s
      /\ \A g \in Hook : g # h => log'[j][g] = log[j][g]
      /\ \A k \in Job : k # j => log'[k] = log[k]
  BY DEF WorkerTypeOK
<1> QED
  BY <1>1 DEF Logged, Outcome, Newest

LEMMA Appending ==
  ASSUME WorkerTypeOK, NEW j \in Job, NEW h \in Hook, CreateDelivery(j, h)
  PROVE  Logged(j, h, "PENDING")
<1> DEFINE d == [status |-> "PENDING", attempts |-> 0]
           s == Append(log[j][h], d)
<1>1. d \in Deliveries
  BY DEF Deliveries
<1>2. log[j][h] \in Seq(Deliveries)
  BY DEF WorkerTypeOK
<1>3. s \in Seq(Deliveries) /\ s # <<>> /\ s[Len(s)] = d
  BY <1>1, <1>2
<1>4. log' = [log EXCEPT ![j][h] = s]
  BY DEF CreateDelivery
<1>5. s[Len(s)].status = "PENDING"
  BY <1>3
<1> HIDE DEF s
<1> QED
  BY <1>3, <1>4, <1>5, LogStep

LEMMA Writing ==
  ASSUME WorkerTypeOK, NEW j \in Job, NEW h \in Hook, log[j][h] # <<>>,
         NEW status \in {"SUCCESS", "FAILED", "DLQ"},
         WriteNewest(j, h, status, Newest(j, h).attempts + 1)
  PROVE  Logged(j, h, status)
<1> DEFINE d == [status |-> status, attempts |-> Newest(j, h).attempts + 1]
           s == [log[j][h] EXCEPT ![Len(log[j][h])] = d]
<1>1. log[j][h] \in Seq(Deliveries)
  BY DEF WorkerTypeOK
<1>2. Len(log[j][h]) \in 1 .. Len(log[j][h])
  BY <1>1
<1>3. Newest(j, h) \in Deliveries
  BY <1>1, <1>2 DEF Newest
<1>4. d \in Deliveries
  BY <1>3 DEF Deliveries
<1>5. s \in Seq(Deliveries) /\ Len(s) = Len(log[j][h])
  <2> HIDE DEF d
  <2> QED
    BY <1>1, <1>2, <1>4, ExceptSeq
<1>6. s[Len(s)] = d /\ s # <<>>
  <2> HIDE DEF d
  <2> QED
    BY <1>1, <1>2, <1>4, <1>5, ExceptSeq
<1>7. log' = [log EXCEPT ![j][h] = s]
  <2>1. log \in [Job -> [Hook -> Seq(Deliveries)]]
    BY DEF WorkerTypeOK
  <2> QED
    BY <2>1 DEF WriteNewest
<1>8. s[Len(s)].status = status
  BY <1>6
<1> HIDE DEF s
<1> QED
  BY <1>5, <1>6, <1>7, <1>8, LogStep

(* What an assignment to the place of a processor does.                    *)
Moved(j, place) ==
    /\ work' \in [Job -> Works]
    /\ work'[j].at = place
    /\ work'[j].todo = work[j].todo /\ work'[j].on = work[j].on
    /\ \A k \in Job : k # j => work'[k] = work[k]

LEMMA Moving ==
  ASSUME WorkerTypeOK, NEW j \in Job, NEW place, Goto(j, place),
         place \in {"idle", "begin", "next", "remote", "save", "catch", "end"}
  PROVE  Moved(j, place)
<1>1. work \in [Job -> Works] /\ work[j] \in Works
  BY DEF WorkerTypeOK
<1>2. work' = [work EXCEPT ![j] = [work[j] EXCEPT !.at = place]]
  BY <1>1 DEF Goto
<1>3. [work[j] EXCEPT !.at = place] \in Works
  BY <1>1 DEF Works
<1>4. /\ [work[j] EXCEPT !.at = place].at = place
      /\ [work[j] EXCEPT !.at = place].todo = work[j].todo
      /\ [work[j] EXCEPT !.at = place].on = work[j].on
  BY <1>1 DEF Works
<1> QED
  BY <1>1, <1>2, <1>3, <1>4 DEF Moved

LEMMA SuccessLogged ==
  ASSUME Sound, NEW j \in Job, NEW h \in Hook, SaveSuccess(j, h)
  PROVE  Logged(j, h, "SUCCESS")
BY Writing DEF SaveSuccess, Sound, Shape

LEMMA FailureLogged ==
  ASSUME Sound, NEW j \in Job, NEW h \in Hook, SaveFailure(j, h)
  PROVE  \/ Logged(j, h, "FAILED") /\ ThrowOut(j)
         \/ Logged(j, h, "DLQ") /\ Goto(j, "next") /\ UNCHANGED queueVars
<1>1. WorkerTypeOK /\ log[j][h] # <<>>
  BY DEF SaveFailure, Sound, Shape
<1> QED
  BY <1>1, Writing DEF SaveFailure
-----------------------------------------------------------------------------
(* The types.                                                              *)
LEMMA TypeStep == Sound /\ [Next]_vars => WorkerTypeOK'
<1> SUFFICES ASSUME Sound, [Next]_vars
             PROVE  WorkerTypeOK'
  OBVIOUS
<1> USE StallAssumption
<1>0. WorkerTypeOK
  BY DEF Sound
<1>1. ASSUME NEW j \in Job, Store(j) PROVE WorkerTypeOK'
  BY <1>0, <1>1 DEF Store, FirstStatus, Kinds, Works, WorkerTypeOK,
     QueueTypeOK, queueVars, history, Ended
<1>2. ASSUME NEW j \in Job, Enqueue(j) PROVE WorkerTypeOK'
  BY <1>0, <1>2 DEF Enqueue, Add, Move, Works, WorkerTypeOK, QueueTypeOK,
     queueVars, history, Ended
<1>3. ASSUME NEW j \in Job, RequestDies(j) PROVE WorkerTypeOK'
  BY <1>0, <1>3 DEF RequestDies, Works, WorkerTypeOK, QueueTypeOK, queueVars,
     history, Ended
<1>4. ASSUME NEW j \in Job, Begin(j) PROVE WorkerTypeOK'
  BY <1>0, <1>4 DEF Begin, Take, Move, Idle, Works, WorkerTypeOK, QueueTypeOK,
     queueVars, history, Ended
<1>5. ASSUME NEW j \in Job, End(j) PROVE WorkerTypeOK'
  BY <1>0, <1>5 DEF End, Complete, Move, Idle, Works, WorkerTypeOK,
     QueueTypeOK, queueVars, history, Ended
<1>6. ASSUME NEW j \in Job, Throws(j) PROVE WorkerTypeOK'
  BY <1>0, <1>6 DEF Throws, ThrowOut, Fail, Move, Idle, Works, WorkerTypeOK,
     QueueTypeOK, queueVars, history, Ended
<1>7. ASSUME NEW j \in Job, SaveThrows(j) PROVE WorkerTypeOK'
  BY <1>0, <1>7, Moving DEF SaveThrows, Moved, WorkerTypeOK, QueueTypeOK,
     queueVars, history, Ended
<1>8. ASSUME NEW j \in Job, WorkerDies(j) PROVE WorkerTypeOK'
  <2>1. job[j] = "active" /\ stalls[j] \in 0 .. StallLimit /\ stalls \in [Job -> 0 .. StallLimit + 1]
    BY <1>8 DEF WorkerDies, Stall, Sound, Shape, WorkerTypeOK, QueueTypeOK
  <2>2. stalls' \in [Job -> 0 .. StallLimit + 1]
    BY <1>8, <2>1 DEF WorkerDies, Stall
  <2>3. Idle \in Works
    BY DEF Idle, Works
  <2> QED
    BY <1>0, <1>8, <2>2, <2>3 DEF WorkerDies, Stall, WorkerTypeOK, QueueTypeOK,
       history, Ended
<1>9. ASSUME NEW j \in Job, SendMail(j) PROVE WorkerTypeOK'
  BY <1>0, <1>9, Moving DEF SendMail, Moved, WorkerTypeOK, QueueTypeOK,
     queueVars, history, Ended
<1>10. ASSUME NEW j \in Job, SaveSent(j) PROVE WorkerTypeOK'
  BY <1>0, <1>10, Moving DEF SaveSent, Moved, WorkerTypeOK, QueueTypeOK,
     queueVars, history, Ended
<1>11. ASSUME NEW j \in Job, SaveFailed(j) PROVE WorkerTypeOK'
  BY <1>0, <1>11 DEF SaveFailed, ThrowOut, Fail, Move, Idle, Works,
     WorkerTypeOK, QueueTypeOK, queueVars, history, Ended
<1>12. ASSUME NEW j \in Job, StartCall(j) PROVE WorkerTypeOK'
  BY <1>0, <1>12, Moving DEF StartCall, Moved, WorkerTypeOK, QueueTypeOK,
     queueVars, history, Ended
<1>13. ASSUME NEW j \in Job, EndCall(j) PROVE WorkerTypeOK'
  BY <1>0, <1>13, Moving DEF EndCall, Moved, WorkerTypeOK, QueueTypeOK,
     queueVars, history, Ended
<1>14. ASSUME NEW j \in Job, Requeue(j) PROVE WorkerTypeOK'
  BY <1>0, <1>14, Moving DEF Requeue, Moved, WorkerTypeOK, QueueTypeOK,
     queueVars, history, Ended
<1>15. ASSUME NEW j \in Job, FindHooks(j) PROVE WorkerTypeOK'
  BY <1>0, <1>15 DEF FindHooks, Works, WorkerTypeOK, QueueTypeOK, queueVars,
     history, Ended
<1>16. ASSUME NEW j \in Job, NEW h \in Hook, CreateDelivery(j, h)
       PROVE  WorkerTypeOK'
  <2>1. work' \in [Job -> Works]
    BY <1>0, <1>16 DEF CreateDelivery, WorkerTypeOK, Works
  <2>2. log' \in [Job -> [Hook -> Seq(Deliveries)]]
    BY <1>0, <1>16, Appending DEF Logged
  <2> QED
    BY <1>0, <1>16, <2>1, <2>2 DEF CreateDelivery, WorkerTypeOK, QueueTypeOK,
       queueVars, history
<1>17. ASSUME NEW j \in Job, NEW h \in Hook, Post(j, h) PROVE WorkerTypeOK'
  BY <1>0, <1>17, Moving DEF Post, Moved, WorkerTypeOK, QueueTypeOK, queueVars,
     history, Ended
<1>18. ASSUME NEW j \in Job, NEW h \in Hook, SaveSuccess(j, h)
       PROVE  WorkerTypeOK'
  BY <1>0, <1>18, SuccessLogged, Moving DEF SaveSuccess, Logged, Moved,
     WorkerTypeOK, QueueTypeOK, queueVars, history, Ended
<1>19. ASSUME NEW j \in Job, NEW h \in Hook, SaveFailure(j, h)
       PROVE  WorkerTypeOK'
  <2>1. log' \in [Job -> [Hook -> Seq(Deliveries)]]
    BY <1>19, FailureLogged DEF Logged
  <2>2. CASE ThrowOut(j)
    <3>1. work' \in [Job -> Works]
      BY <1>0, <2>2 DEF ThrowOut, WorkerTypeOK, Works, Idle
    <3> QED
      BY <1>0, <1>19, <2>1, <2>2, <3>1 DEF SaveFailure, ThrowOut, Fail, Move,
         WorkerTypeOK, QueueTypeOK, history, Ended
  <2>3. CASE Goto(j, "next") /\ UNCHANGED queueVars
    <3>1. work' \in [Job -> Works]
      BY <1>0, <2>3, Moving DEF Moved
    <3> QED
      BY <1>0, <1>19, <2>1, <2>3, <3>1 DEF SaveFailure, WorkerTypeOK,
         QueueTypeOK, queueVars, history
  <2> QED
    BY <1>19, <2>2, <2>3, FailureLogged
<1>20. ASSUME NEW h \in Hook, HookNext(h) PROVE WorkerTypeOK'
  BY <1>0, <1>20 DEF HookNext, CreateHook, DisableHook, WorkerTypeOK,
     QueueTypeOK, queueVars, history
<1>21. ASSUME UNCHANGED vars PROVE WorkerTypeOK'
  BY <1>0, <1>21 DEF vars, WorkerTypeOK, QueueTypeOK, queueVars, history
<1> QED
  BY <1>1, <1>2, <1>3, <1>4, <1>5, <1>6, <1>7, <1>8, <1>9, <1>10, <1>11, <1>12,
     <1>13, <1>14, <1>15, <1>16, <1>17, <1>18, <1>19, <1>20, <1>21 DEF Next,
     RequestNext, Processor, Failure
-----------------------------------------------------------------------------
(* A step is one of the job's own, or leaves all there is of the job as it *)
(* was.                                                                    *)
Own(j) == RequestNext(j) \/ Processor(j) \/ Failure(j)

Same(j) ==
    /\ job'[j] = job[j] /\ stalls'[j] = stalls[j] /\ kind'[j] = kind[j]
    /\ request'[j] = request[j] /\ record'[j] = record[j]
    /\ log'[j] = log[j] /\ work'[j] = work[j] /\ found'[j] = found[j]
    /\ mails'[j] = mails[j] /\ posts'[j] = posts[j] /\ doubt'[j] = doubt[j]

LEMMA OthersStep ==
  ASSUME Sound, NEW i \in Job, NEW j \in Job, i # j, Own(i)
  PROVE  Same(j)
<1>0. WorkerTypeOK
  BY DEF Sound
<1>1. CASE Store(i)
  BY <1>0, <1>1 DEF Store, Same, WorkerTypeOK, QueueTypeOK, queueVars, history
<1>2. CASE Enqueue(i)
  BY <1>0, <1>2 DEF Enqueue, Add, Move, Same, WorkerTypeOK, QueueTypeOK,
     queueVars, history
<1>3. CASE RequestDies(i)
  BY <1>0, <1>3 DEF RequestDies, Same, WorkerTypeOK, QueueTypeOK, queueVars,
     history
<1>4. CASE Begin(i)
  BY <1>0, <1>4 DEF Begin, Take, Move, Same, WorkerTypeOK, QueueTypeOK,
     queueVars, history
<1>5. CASE End(i)
  BY <1>0, <1>5 DEF End, Complete, Move, Same, WorkerTypeOK, QueueTypeOK,
     queueVars, history
<1>6. CASE Throws(i)
  BY <1>0, <1>6 DEF Throws, ThrowOut, Fail, Move, Same, WorkerTypeOK,
     QueueTypeOK, queueVars, history
<1>7. CASE SaveThrows(i)
  BY <1>0, <1>7, Moving DEF SaveThrows, Moved, Same, WorkerTypeOK, QueueTypeOK,
     queueVars, history
<1>8. CASE WorkerDies(i)
  BY <1>0, <1>8 DEF WorkerDies, Stall, Same, WorkerTypeOK, QueueTypeOK,
     queueVars, history
<1>9. CASE SendMail(i)
  BY <1>0, <1>9, Moving DEF SendMail, Moved, Same, WorkerTypeOK, QueueTypeOK,
     queueVars, history
<1>10. CASE SaveSent(i)
  BY <1>0, <1>10, Moving DEF SaveSent, Moved, Same, WorkerTypeOK, QueueTypeOK,
     queueVars, history
<1>11. CASE SaveFailed(i)
  BY <1>0, <1>11 DEF SaveFailed, ThrowOut, Fail, Move, Same, WorkerTypeOK,
     QueueTypeOK, queueVars, history
<1>12. CASE StartCall(i)
  BY <1>0, <1>12, Moving DEF StartCall, Moved, Same, WorkerTypeOK, QueueTypeOK,
     queueVars, history
<1>13. CASE EndCall(i)
  BY <1>0, <1>13, Moving DEF EndCall, Moved, Same, WorkerTypeOK, QueueTypeOK,
     queueVars, history
<1>14. CASE Requeue(i)
  BY <1>0, <1>14, Moving DEF Requeue, Moved, Same, WorkerTypeOK, QueueTypeOK,
     queueVars, history
<1>15. CASE FindHooks(i)
  BY <1>0, <1>15 DEF FindHooks, Same, WorkerTypeOK, QueueTypeOK, queueVars,
     history
<1>16. ASSUME NEW h \in Hook, CreateDelivery(i, h) PROVE Same(j)
  BY <1>0, <1>16, Appending DEF CreateDelivery, At, Logged, Same, WorkerTypeOK,
     QueueTypeOK, queueVars, history
<1>17. ASSUME NEW h \in Hook, Post(i, h) PROVE Same(j)
  BY <1>0, <1>17, Moving DEF Post, Moved, Same, WorkerTypeOK, QueueTypeOK,
     queueVars, history
<1>18. ASSUME NEW h \in Hook, SaveSuccess(i, h) PROVE Same(j)
  BY <1>0, <1>18, SuccessLogged, Moving DEF SaveSuccess, Logged, Moved, Same,
     WorkerTypeOK, QueueTypeOK, queueVars, history
<1>19. ASSUME NEW h \in Hook, SaveFailure(i, h) PROVE Same(j)
  <2>1. CASE Logged(i, h, "FAILED") /\ ThrowOut(i)
    BY <1>0, <1>19, <2>1 DEF SaveFailure, ThrowOut, Fail, Move, Logged, Same,
       WorkerTypeOK, QueueTypeOK, history
  <2>2. CASE Logged(i, h, "DLQ") /\ Goto(i, "next") /\ UNCHANGED queueVars
    BY <1>0, <1>19, <2>2, Moving DEF SaveFailure, Logged, Moved, Same,
       queueVars,
       history
  <2> QED
    BY <1>19, <2>1, <2>2, FailureLogged
<1> QED
  BY <1>1, <1>2, <1>3, <1>4, <1>5, <1>6, <1>7, <1>8, <1>9, <1>10, <1>11, <1>12,
     <1>13, <1>14, <1>15, <1>16, <1>17, <1>18, <1>19 DEF Own, RequestNext,
     Processor, Failure

LEMMA Frame ==
  ASSUME Sound, [Next]_vars, NEW j \in Job
  PROVE  Own(j) \/ Same(j)
<1>1. ASSUME NEW i \in Job, Own(i) PROVE Own(j) \/ Same(j)
  BY <1>1, OthersStep
<1>2. CASE \E h \in Hook : HookNext(h)
  BY <1>2 DEF HookNext, CreateHook, DisableHook, Same, queueVars, history
<1>3. CASE UNCHANGED vars
  BY <1>3 DEF vars, Same, queueVars, history
<1> QED
  BY <1>1, <1>2, <1>3 DEF Next, Own

-----------------------------------------------------------------------------
(* What an action of a job makes of what belongs to the job.               *)
Queued(j, where, deaths) ==
    job'[j] = where /\ stalls'[j] = deaths /\ kind'[j] = kind[j]

Recorded(j, req, rec) == request'[j] = req /\ record'[j] = rec

Placed(j, at, todo, on) ==
    work'[j].at = at /\ work'[j].todo = todo /\ work'[j].on = on

SameLog(j) ==
    log'[j] = log[j] /\ \A h \in Hook : Outcome(j, h)' = Outcome(j, h)

SameHistory(j) ==
    /\ found'[j] = found[j] /\ doubt'[j] = doubt[j]
    /\ mails'[j] = mails[j] /\ posts'[j] = posts[j]

LEMMA StoreDoes ==
  ASSUME Sound, NEW j \in Job, Store(j)
  PROVE  /\ request[j] = "new" /\ Recorded(j, "stored", FirstStatus(j))
         /\ Queued(j, job[j], stalls[j]) /\ Placed(j, work[j].at, work[j].todo, work[j].on)
         /\ SameLog(j) /\ SameHistory(j)
<1>0. WorkerTypeOK
  BY DEF Sound
<1> QED
  BY <1>0 DEF Store, Queued, Recorded, Placed, SameLog, Outcome, Newest,
     SameHistory, WorkerTypeOK, QueueTypeOK, queueVars, history

LEMMA EnqueueDoes ==
  ASSUME Sound, NEW j \in Job, Enqueue(j)
  PROVE  /\ request[j] = "stored" /\ job[j] = "none"
         /\ Recorded(j, "done", record[j]) /\ Queued(j, "waiting", stalls[j])
         /\ Placed(j, work[j].at, work[j].todo, work[j].on) /\ SameLog(j) /\ SameHistory(j)
<1>0. WorkerTypeOK
  BY DEF Sound
<1> QED
  BY <1>0 DEF Enqueue, Add, Move, Queued, Recorded, Placed, SameLog, Outcome,
     Newest, SameHistory, WorkerTypeOK, QueueTypeOK, queueVars, history

LEMMA RequestDiesDoes ==
  ASSUME Sound, NEW j \in Job, RequestDies(j)
  PROVE  /\ request[j] = "stored" /\ Recorded(j, "dead", record[j])
         /\ Queued(j, job[j], stalls[j]) /\ Placed(j, work[j].at, work[j].todo, work[j].on)
         /\ SameLog(j) /\ SameHistory(j)
<1>0. WorkerTypeOK
  BY DEF Sound
<1> QED
  BY <1>0 DEF RequestDies, Queued, Recorded, Placed, SameLog, Outcome,
     Newest, SameHistory, WorkerTypeOK, QueueTypeOK, queueVars, history

LEMMA BeginDoes ==
  ASSUME Sound, NEW j \in Job, Begin(j)
  PROVE  /\ job[j] = "waiting" /\ Queued(j, "active", stalls[j])
         /\ Placed(j, "begin", {}, {})
         /\ Recorded(j, request[j], record[j]) /\ SameLog(j) /\ SameHistory(j)
<1>0. WorkerTypeOK
  BY DEF Sound
<1> QED
  BY <1>0 DEF Begin, Take, Move, Idle, Queued, Recorded, Placed, SameLog,
     Outcome, Newest, SameHistory, WorkerTypeOK, QueueTypeOK, queueVars,
     history

LEMMA EndDoes ==
  ASSUME Sound, NEW j \in Job, End(j)
  PROVE  /\ work[j].at = "end" \/ (work[j].at = "next" /\ work[j].todo = {})
         /\ job[j] = "active" /\ Queued(j, "completed", stalls[j])
         /\ Placed(j, "idle", {}, {})
         /\ Recorded(j, request[j], record[j]) /\ SameLog(j) /\ SameHistory(j)
<1>0. WorkerTypeOK
  BY DEF Sound
<1> QED
  BY <1>0 DEF End, Complete, Move, Idle, Queued, Recorded, Placed, SameLog,
     Outcome, Newest, SameHistory, WorkerTypeOK, QueueTypeOK, queueVars,
     history

LEMMA ThrowsDoes ==
  ASSUME Sound, NEW j \in Job, Throws(j)
  PROVE  /\ job[j] = "active" /\ Queued(j, "failed", stalls[j]) /\ doubt'[j]
         /\ Placed(j, "idle", {}, {}) /\ Recorded(j, request[j], record[j]) /\ SameLog(j)
         /\ found'[j] = found[j] /\ mails'[j] = mails[j] /\ posts'[j] = posts[j]
<1>0. WorkerTypeOK
  BY DEF Sound
<1> QED
  BY <1>0 DEF Throws, ThrowOut, Fail, Move, Idle, Queued, Recorded, Placed,
     SameLog, Outcome, Newest, SameHistory, WorkerTypeOK, QueueTypeOK,
     queueVars, history

LEMMA SaveThrowsDoes ==
  ASSUME Sound, NEW j \in Job, SaveThrows(j)
  PROVE  /\ work[j].at = "save" /\ Placed(j, "catch", work[j].todo, work[j].on)
         /\ Queued(j, job[j], stalls[j]) /\ Recorded(j, request[j], record[j]) /\ SameLog(j)
         /\ doubt'[j] /\ found'[j] = found[j]
         /\ mails'[j] = mails[j] /\ posts'[j] = posts[j]
<1>0. WorkerTypeOK
  BY DEF Sound
<1> QED
  BY <1>0, Moving DEF SaveThrows, Moved, Queued, Recorded, Placed, SameLog,
     Outcome, Newest, SameHistory, WorkerTypeOK, QueueTypeOK, queueVars,
     history

LEMMA WorkerDiesDoes ==
  ASSUME Sound, NEW j \in Job, WorkerDies(j)
  PROVE  /\ work[j].at # "idle" /\ job[j] = "active"
         /\ Queued(j, IF stalls[j] < StallLimit THEN "waiting" ELSE "failed",
                   stalls[j] + 1)
         /\ Placed(j, "idle", {}, {}) /\ Recorded(j, request[j], record[j])
         /\ SameLog(j) /\ SameHistory(j)
<1>0. WorkerTypeOK
  BY DEF Sound
<1> QED
  BY <1>0 DEF WorkerDies, Stall, Idle, Queued, Recorded, Placed, SameLog,
     Outcome, Newest, SameHistory, WorkerTypeOK, QueueTypeOK, queueVars,
     history

LEMMA SendMailDoes ==
  ASSUME Sound, NEW j \in Job, SendMail(j)
  PROVE  /\ At(j, "email", "begin")
         /\ Queued(j, job[j], stalls[j]) /\ Recorded(j, request[j], record[j]) /\ SameLog(j)
         /\ found'[j] = found[j] /\ posts'[j] = posts[j]
         /\ \/ /\ Placed(j, "save", work[j].todo, work[j].on)
               /\ mails'[j] = mails[j] + 1 /\ doubt'[j] = doubt[j]
            \/ /\ Placed(j, "catch", work[j].todo, work[j].on)
               /\ mails'[j] = mails[j] /\ doubt'[j] = doubt[j]
            \/ /\ Placed(j, "catch", work[j].todo, work[j].on)
               /\ mails'[j] = mails[j] + 1 /\ doubt'[j]
<1>0. WorkerTypeOK
  BY DEF Sound
<1> QED
  BY <1>0, Moving DEF SendMail, Moved, Queued, Recorded, Placed, SameLog,
     Outcome, Newest, SameHistory, WorkerTypeOK, QueueTypeOK, queueVars,
     history

LEMMA SaveSentDoes ==
  ASSUME Sound, NEW j \in Job, SaveSent(j)
  PROVE  /\ At(j, "email", "save") /\ Recorded(j, request[j], "SENT")
         /\ Placed(j, "end", work[j].todo, work[j].on)
         /\ Queued(j, job[j], stalls[j]) /\ SameLog(j) /\ SameHistory(j)
<1>0. WorkerTypeOK
  BY DEF Sound
<1> QED
  BY <1>0, Moving DEF SaveSent, Moved, Queued, Recorded, Placed, SameLog,
     Outcome, Newest, SameHistory, WorkerTypeOK, QueueTypeOK, queueVars,
     history

LEMMA SaveFailedDoes ==
  ASSUME Sound, NEW j \in Job, SaveFailed(j)
  PROVE  /\ At(j, "email", "catch") /\ Recorded(j, request[j], "FAILED")
         /\ job[j] = "active" /\ Queued(j, "failed", stalls[j])
         /\ Placed(j, "idle", {}, {}) /\ SameLog(j) /\ SameHistory(j)
<1>0. WorkerTypeOK
  BY DEF Sound
<1> QED
  BY <1>0 DEF SaveFailed, ThrowOut, Fail, Move, Idle, Queued, Recorded,
     Placed, SameLog, Outcome, Newest, SameHistory, WorkerTypeOK,
     QueueTypeOK, queueVars, history

LEMMA StartCallDoes ==
  ASSUME Sound, NEW j \in Job, StartCall(j)
  PROVE  /\ At(j, "voice", "begin") /\ Recorded(j, request[j], "IN_PROGRESS")
         /\ Placed(j, "remote", work[j].todo, work[j].on)
         /\ Queued(j, job[j], stalls[j]) /\ SameLog(j) /\ SameHistory(j)
<1>0. WorkerTypeOK
  BY DEF Sound
<1> QED
  BY <1>0, Moving DEF StartCall, Moved, Queued, Recorded, Placed, SameLog,
     Outcome, Newest, SameHistory, WorkerTypeOK, QueueTypeOK, queueVars,
     history

LEMMA EndCallDoes ==
  ASSUME Sound, NEW j \in Job, EndCall(j)
  PROVE  /\ At(j, "voice", "remote") /\ Recorded(j, request[j], "COMPLETED")
         /\ Placed(j, "end", work[j].todo, work[j].on)
         /\ Queued(j, job[j], stalls[j]) /\ SameLog(j) /\ SameHistory(j)
<1>0. WorkerTypeOK
  BY DEF Sound
<1> QED
  BY <1>0, Moving DEF EndCall, Moved, Queued, Recorded, Placed, SameLog,
     Outcome, Newest, SameHistory, WorkerTypeOK, QueueTypeOK, queueVars,
     history

LEMMA RequeueDoes ==
  ASSUME Sound, NEW j \in Job, Requeue(j)
  PROVE  /\ At(j, "sms", "begin") /\ request'[j] = request[j]
         /\ record'[j] \in {record[j], "QUEUED"}
         /\ Placed(j, "end", work[j].todo, work[j].on)
         /\ Queued(j, job[j], stalls[j]) /\ SameLog(j) /\ SameHistory(j)
<1>0. WorkerTypeOK
  BY DEF Sound
<1> QED
  BY <1>0, Moving DEF Requeue, Moved, Queued, Recorded, Placed, SameLog,
     Outcome, Newest, SameHistory, WorkerTypeOK, QueueTypeOK, queueVars,
     history

LEMMA FindHooksDoes ==
  ASSUME Sound, NEW j \in Job, FindHooks(j)
  PROVE  /\ At(j, "webhook", "begin")
         /\ Placed(j, "next", found'[j], {})
         /\ Queued(j, job[j], stalls[j]) /\ Recorded(j, request[j], record[j]) /\ SameLog(j)
         /\ mails'[j] = mails[j] /\ posts'[j] = posts[j] /\ doubt'[j] = doubt[j]
<1>0. WorkerTypeOK
  BY DEF Sound
<1> QED
  BY <1>0 DEF FindHooks, Queued, Recorded, Placed, SameLog, Outcome, Newest,
     SameHistory, WorkerTypeOK, QueueTypeOK, queueVars, history

LEMMA CreateDeliveryDoes ==
  ASSUME Sound, NEW j \in Job, NEW h \in Hook, CreateDelivery(j, h)
  PROVE  /\ At(j, "webhook", "next") /\ h \in work[j].todo /\ Logged(j, h, "PENDING")
         /\ Placed(j, "remote", work[j].todo \ {h}, {h})
         /\ Queued(j, job[j], stalls[j]) /\ Recorded(j, request[j], record[j]) /\ SameHistory(j)
<1>0. WorkerTypeOK
  BY DEF Sound
<1> QED
  BY <1>0, Appending DEF CreateDelivery, Queued, Recorded, Placed, SameLog,
     Outcome, Newest, SameHistory, WorkerTypeOK, QueueTypeOK, queueVars,
     history

LEMMA PostDoes ==
  ASSUME Sound, NEW j \in Job, NEW h \in Hook, Post(j, h)
  PROVE  /\ At(j, "webhook", "remote") /\ h \in work[j].on
         /\ Queued(j, job[j], stalls[j]) /\ Recorded(j, request[j], record[j]) /\ SameLog(j)
         /\ found'[j] = found[j] /\ mails'[j] = mails[j]
         /\ \A g \in Hook : g # h => posts'[j][g] = posts[j][g]
         /\ \/ /\ Placed(j, "save", work[j].todo, work[j].on)
               /\ posts'[j][h] = posts[j][h] + 1 /\ doubt'[j] = doubt[j]
            \/ /\ Placed(j, "catch", work[j].todo, work[j].on)
               /\ posts'[j][h] = posts[j][h] /\ doubt'[j] = doubt[j]
            \/ /\ Placed(j, "catch", work[j].todo, work[j].on)
               /\ posts'[j][h] = posts[j][h] + 1 /\ doubt'[j]
<1>0. WorkerTypeOK
  BY DEF Sound
<1> QED
  BY <1>0, Moving DEF Post, Moved, Queued, Recorded, Placed, SameLog,
     Outcome, Newest, SameHistory, WorkerTypeOK, QueueTypeOK, queueVars,
     history

LEMMA SaveSuccessDoes ==
  ASSUME Sound, NEW j \in Job, NEW h \in Hook, SaveSuccess(j, h)
  PROVE  /\ At(j, "webhook", "save") /\ h \in work[j].on /\ Logged(j, h, "SUCCESS")
         /\ Placed(j, "next", work[j].todo, work[j].on)
         /\ Queued(j, job[j], stalls[j]) /\ Recorded(j, request[j], record[j]) /\ SameHistory(j)
<1>0. WorkerTypeOK
  BY DEF Sound
<1> QED
  BY <1>0, Moving, SuccessLogged DEF SaveSuccess, Moved, Queued, Recorded,
     Placed, SameLog, Outcome, Newest, SameHistory, WorkerTypeOK,
     QueueTypeOK, queueVars, history

LEMMA SaveFailureDoes ==
  ASSUME Sound, NEW j \in Job, NEW h \in Hook, SaveFailure(j, h)
  PROVE  /\ At(j, "webhook", "catch") /\ h \in work[j].on /\ job[j] = "active"
         /\ Recorded(j, request[j], record[j]) /\ SameHistory(j)
         /\ \/ /\ Logged(j, h, "FAILED") /\ Queued(j, "failed", stalls[j])
               /\ Placed(j, "idle", {}, {})
            \/ /\ Logged(j, h, "DLQ") /\ Queued(j, job[j], stalls[j])
               /\ Placed(j, "next", work[j].todo, work[j].on)
<1>0. WorkerTypeOK /\ job[j] = "active"
  BY DEF Sound, Shape, SaveFailure, At
<1>1. CASE Logged(j, h, "FAILED") /\ ThrowOut(j)
  BY <1>0, <1>1 DEF SaveFailure, ThrowOut, Fail, Move, Idle, Queued, Recorded,
     Placed, SameHistory, WorkerTypeOK, QueueTypeOK, history
<1>2. CASE Logged(j, h, "DLQ") /\ Goto(j, "next") /\ UNCHANGED queueVars
  BY <1>0, <1>2, Moving DEF SaveFailure, Moved, Queued, Recorded, Placed,
     SameHistory, queueVars, history
<1> QED
  BY <1>1, <1>2, FailureLogged
-----------------------------------------------------------------------------
(* The shape is kept by every step.                                        *)
LEMMA ShapeStep ==
  ASSUME Sound, [Next]_vars, NEW j \in Job
  PROVE  Shape(j)'
<1>0. Shape(j)
  BY DEF Sound
<1>t. stalls[j] \in Nat /\ StallLimit \in Nat
  BY StallAssumption DEF Sound, WorkerTypeOK, QueueTypeOK, Works
<1>s. CASE Same(j)
  BY <1>0, <1>s, <1>t DEF Same, Outcome, Newest, Shape
<1>1. CASE Store(j)
  BY <1>0, <1>t, <1>1, StoreDoes DEF Queued, Recorded, Placed, SameLog,
     SameHistory, FirstStatus, Kinds, Shape
<1>2. CASE Enqueue(j)
  BY <1>0, <1>t, <1>2, EnqueueDoes DEF Queued, Recorded, Placed, SameLog,
     SameHistory, Shape
<1>3. CASE RequestDies(j)
  BY <1>0, <1>t, <1>3, RequestDiesDoes DEF Queued, Recorded, Placed,
     SameLog, SameHistory, Shape
<1>4. CASE Begin(j)
  BY <1>0, <1>t, <1>4, BeginDoes DEF Queued, Recorded, Placed, SameLog,
     SameHistory, Shape
<1>5. CASE End(j)
  BY <1>0, <1>t, <1>5, EndDoes DEF Queued, Recorded, Placed, SameLog,
     SameHistory, Shape
<1>6. CASE Throws(j)
  BY <1>0, <1>t, <1>6, ThrowsDoes DEF Queued, Recorded, Placed, SameLog,
     Shape
<1>7. CASE SaveThrows(j)
  BY <1>0, <1>t, <1>7, SaveThrowsDoes DEF Queued, Recorded, Placed, SameLog,
     Shape
<1>8. CASE WorkerDies(j)
  BY <1>0, <1>t, <1>8, WorkerDiesDoes DEF Queued, Recorded, Placed, SameLog,
     SameHistory, Shape
<1>9. CASE SendMail(j)
  BY <1>0, <1>t, <1>9, SendMailDoes DEF Queued, Recorded, Placed, SameLog,
     At, Shape
<1>10. CASE SaveSent(j)
  BY <1>0, <1>t, <1>10, SaveSentDoes DEF Queued, Recorded, Placed, SameLog,
     SameHistory, At, Shape
<1>11. CASE SaveFailed(j)
  BY <1>0, <1>t, <1>11, SaveFailedDoes DEF Queued, Recorded, Placed,
     SameLog, SameHistory, At, Shape
<1>12. CASE StartCall(j)
  BY <1>0, <1>t, <1>12, StartCallDoes DEF Queued, Recorded, Placed, SameLog,
     SameHistory, At, Shape
<1>13. CASE EndCall(j)
  BY <1>0, <1>t, <1>13, EndCallDoes DEF Queued, Recorded, Placed, SameLog,
     SameHistory, At, Shape
<1>14. CASE Requeue(j)
  BY <1>0, <1>t, <1>14, RequeueDoes DEF Queued, Recorded, Placed, SameLog,
     SameHistory, At, Shape
<1>15. CASE FindHooks(j)
  BY <1>0, <1>t, <1>15, FindHooksDoes DEF Queued, Recorded, Placed, SameLog,
     At, Shape
<1>16. ASSUME NEW h \in Hook, CreateDelivery(j, h) PROVE Shape(j)'
  BY <1>0, <1>t, <1>16, CreateDeliveryDoes DEF Queued, Recorded, Placed,
     Logged, SameHistory, At, Shape
<1>17. ASSUME NEW h \in Hook, Post(j, h) PROVE Shape(j)'
  BY <1>0, <1>t, <1>17, PostDoes DEF Queued, Recorded, Placed, SameLog, At,
     Shape
<1>18. ASSUME NEW h \in Hook, SaveSuccess(j, h) PROVE Shape(j)'
  BY <1>0, <1>t, <1>18, SaveSuccessDoes DEF Queued, Recorded, Placed,
     Logged, SameHistory, At, Shape
<1>19. ASSUME NEW h \in Hook, SaveFailure(j, h) PROVE Shape(j)'
  <2>1. CASE Logged(j, h, "FAILED") /\ Queued(j, "failed", stalls[j])
            /\ Placed(j, "idle", {}, {})
    BY <1>0, <1>t, <1>19, <2>1, SaveFailureDoes DEF Queued, Recorded, Placed,
       Logged, SameHistory, At, Shape
  <2>2. CASE Logged(j, h, "DLQ") /\ Queued(j, job[j], stalls[j])
            /\ Placed(j, "next", work[j].todo, work[j].on)
    BY <1>0, <1>t, <1>19, <2>2, SaveFailureDoes DEF Queued, Recorded, Placed,
       Logged, SameHistory, At, Shape
  <2> QED
    BY <1>19, <2>1, <2>2, SaveFailureDoes
<1> QED
  BY <1>s, <1>1, <1>2, <1>3, <1>4, <1>5, <1>6, <1>7, <1>8, <1>9, <1>10,
     <1>11, <1>12, <1>13, <1>14, <1>15, <1>16, <1>17, <1>18, <1>19, Frame DEF
     Own, RequestNext, Processor, Failure

LEMMA SoundStep == Sound /\ [Next]_vars => Sound'
BY TypeStep, ShapeStep DEF Sound

(* Records, queues and processors have the states the schema and the code  *)
(* name, and each processor holds what belongs to its place.               *)
THEOREM SoundAlways == Spec => []Sound
<1>1. Init => Sound
  BY SoundInit
<1>2. Sound /\ [Next]_vars => Sound'
  BY SoundStep
<1> QED
  BY <1>1, <1>2, PTL DEF Spec

THEOREM WorkerTypeCorrect == Spec => []WorkerTypeOK
<1>1. Sound => WorkerTypeOK
  BY DEF Sound
<1> QED
  BY <1>1, SoundAlways, PTL

-----------------------------------------------------------------------------
(* Copies.  A run that has not reached the remote call has one copy less   *)
(* to its account.                                                         *)
Fresh(j) == job[j] \in {"none", "waiting"} \/ work[j].at = "begin"

Due(j, h) == h \in work[j].todo \/ (work[j].at = "remote" /\ h \in work[j].on)

Copies(j) ==
    /\ mails[j] <= stalls[j] + 1
    /\ Fresh(j) => mails[j] <= stalls[j]
    /\ \A h \in Hook : /\ posts[j][h] <= stalls[j] + 1
                       /\ Fresh(j) \/ Due(j, h) => posts[j][h] <= stalls[j]

LEMMA CopiesStep ==
  ASSUME Sound, [Next]_vars, NEW j \in Job, Copies(j)
  PROVE  Copies(j)'
<1>0. Shape(j) /\ Copies(j)
  BY DEF Sound
<1>t. stalls[j] \in Nat /\ mails[j] \in Nat /\ posts[j] \in [Hook -> Nat]
  BY DEF Sound, WorkerTypeOK, QueueTypeOK, Works
<1>s. CASE Same(j)
  BY <1>0, <1>s, <1>t DEF Same, Outcome, Newest, Copies, Fresh, Due, Shape
<1>1. CASE Store(j)
  BY <1>0, <1>t, <1>1, StoreDoes DEF Queued, Recorded, Placed, SameLog,
     SameHistory, FirstStatus, Kinds, Copies, Fresh, Due, Shape
<1>2. CASE Enqueue(j)
  BY <1>0, <1>t, <1>2, EnqueueDoes DEF Queued, Recorded, Placed, SameLog,
     SameHistory, Copies, Fresh, Due, Shape
<1>3. CASE RequestDies(j)
  BY <1>0, <1>t, <1>3, RequestDiesDoes DEF Queued, Recorded, Placed,
     SameLog, SameHistory, Copies, Fresh, Due, Shape
<1>4. CASE Begin(j)
  BY <1>0, <1>t, <1>4, BeginDoes DEF Queued, Recorded, Placed, SameLog,
     SameHistory, Copies, Fresh, Due, Shape
<1>5. CASE End(j)
  BY <1>0, <1>t, <1>5, EndDoes DEF Queued, Recorded, Placed, SameLog,
     SameHistory, Copies, Fresh, Due, Shape
<1>6. CASE Throws(j)
  BY <1>0, <1>t, <1>6, ThrowsDoes DEF Queued, Recorded, Placed, SameLog,
     Copies, Fresh, Due, Shape
<1>7. CASE SaveThrows(j)
  BY <1>0, <1>t, <1>7, SaveThrowsDoes DEF Queued, Recorded, Placed, SameLog,
     Copies, Fresh, Due, Shape
<1>8. CASE WorkerDies(j)
  BY <1>0, <1>t, <1>8, WorkerDiesDoes DEF Queued, Recorded, Placed, SameLog,
     SameHistory, Copies, Fresh, Due, Shape
<1>9. CASE SendMail(j)
  BY <1>0, <1>t, <1>9, SendMailDoes DEF Queued, Recorded, Placed, SameLog,
     At, Copies, Fresh, Due, Shape
<1>10. CASE SaveSent(j)
  BY <1>0, <1>t, <1>10, SaveSentDoes DEF Queued, Recorded, Placed, SameLog,
     SameHistory, At, Copies, Fresh, Due, Shape
<1>11. CASE SaveFailed(j)
  BY <1>0, <1>t, <1>11, SaveFailedDoes DEF Queued, Recorded, Placed,
     SameLog, SameHistory, At, Copies, Fresh, Due, Shape
<1>12. CASE StartCall(j)
  BY <1>0, <1>t, <1>12, StartCallDoes DEF Queued, Recorded, Placed, SameLog,
     SameHistory, At, Copies, Fresh, Due, Shape
<1>13. CASE EndCall(j)
  BY <1>0, <1>t, <1>13, EndCallDoes DEF Queued, Recorded, Placed, SameLog,
     SameHistory, At, Copies, Fresh, Due, Shape
<1>14. CASE Requeue(j)
  BY <1>0, <1>t, <1>14, RequeueDoes DEF Queued, Recorded, Placed, SameLog,
     SameHistory, At, Copies, Fresh, Due, Shape
<1>15. CASE FindHooks(j)
  BY <1>0, <1>t, <1>15, FindHooksDoes DEF Queued, Recorded, Placed, SameLog,
     At, Copies, Fresh, Due, Shape
<1>16. ASSUME NEW h \in Hook, CreateDelivery(j, h) PROVE Copies(j)'
  BY <1>0, <1>t, <1>16, CreateDeliveryDoes DEF Queued, Recorded, Placed,
     Logged, SameHistory, At, Copies, Fresh, Due, Shape
<1>17. ASSUME NEW h \in Hook, Post(j, h) PROVE Copies(j)'
  BY <1>0, <1>t, <1>17, PostDoes DEF Queued, Recorded, Placed, SameLog, At,
     Copies, Fresh, Due, Shape
<1>18. ASSUME NEW h \in Hook, SaveSuccess(j, h) PROVE Copies(j)'
  BY <1>0, <1>t, <1>18, SaveSuccessDoes DEF Queued, Recorded, Placed,
     Logged, SameHistory, At, Copies, Fresh, Due, Shape
<1>19. ASSUME NEW h \in Hook, SaveFailure(j, h) PROVE Copies(j)'
  BY <1>0, <1>t, <1>19, SaveFailureDoes DEF Queued, Recorded, Placed,
     Logged, SameHistory, At, Copies, Fresh, Due, Shape
<1> QED
  BY <1>s, <1>1, <1>2, <1>3, <1>4, <1>5, <1>6, <1>7, <1>8, <1>9, <1>10,
     <1>11, <1>12, <1>13, <1>14, <1>15, <1>16, <1>17, <1>18, <1>19, Frame DEF
     Own, RequestNext, Processor, Failure

-----------------------------------------------------------------------------
(* Completion.  Of the hooks it found, a run still holds those that have   *)
(* no final outcome.                                                       *)
Done(j) ==
    /\ work[j].at = "end" => /\ kind[j] = "email" => record[j] = "SENT"
                             /\ kind[j] = "voice" => record[j] = "COMPLETED"
    /\ work[j].at \in {"next", "remote", "save", "catch"} =>
         \A h \in found[j] : \/ h \in work[j].todo
                             \/ work[j].at # "next" /\ h \in work[j].on
                             \/ Outcome(j, h) \in {"SUCCESS", "DLQ"}
    /\ job[j] = "completed" =>
         /\ kind[j] = "email" => record[j] = "SENT"
         /\ kind[j] = "voice" => record[j] = "COMPLETED"
         /\ \A h \in found[j] : Outcome(j, h) \in {"SUCCESS", "DLQ"}

LEMMA DoneStep ==
  ASSUME Sound, [Next]_vars, NEW j \in Job, Done(j)
  PROVE  Done(j)'
<1>0. Shape(j) /\ Done(j)
  BY DEF Sound
<1>t. found[j] \subseteq Hook /\ work[j].on \subseteq Hook
  BY DEF Sound, WorkerTypeOK, QueueTypeOK, Works
<1>s. CASE Same(j)
  BY <1>0, <1>s, <1>t DEF Same, Outcome, Newest, Done, Shape
<1>1. CASE Store(j)
  BY <1>0, <1>t, <1>1, StoreDoes DEF Queued, Recorded, Placed, SameLog,
     SameHistory, FirstStatus, Kinds, Done, Shape
<1>2. CASE Enqueue(j)
  BY <1>0, <1>t, <1>2, EnqueueDoes DEF Queued, Recorded, Placed, SameLog,
     SameHistory, Done, Shape
<1>3. CASE RequestDies(j)
  BY <1>0, <1>t, <1>3, RequestDiesDoes DEF Queued, Recorded, Placed,
     SameLog, SameHistory, Done, Shape
<1>4. CASE Begin(j)
  BY <1>0, <1>t, <1>4, BeginDoes DEF Queued, Recorded, Placed, SameLog,
     SameHistory, Done, Shape
<1>5. CASE End(j)
  BY <1>0, <1>t, <1>5, EndDoes DEF Queued, Recorded, Placed, SameLog,
     SameHistory, Done, Shape
<1>6. CASE Throws(j)
  BY <1>0, <1>t, <1>6, ThrowsDoes DEF Queued, Recorded, Placed, SameLog,
     Done, Shape
<1>7. CASE SaveThrows(j)
  BY <1>0, <1>t, <1>7, SaveThrowsDoes DEF Queued, Recorded, Placed, SameLog,
     Done, Shape
<1>8. CASE WorkerDies(j)
  BY <1>0, <1>t, <1>8, WorkerDiesDoes DEF Queued, Recorded, Placed, SameLog,
     SameHistory, Done, Shape
<1>9. CASE SendMail(j)
  BY <1>0, <1>t, <1>9, SendMailDoes DEF Queued, Recorded, Placed, SameLog,
     At, Done, Shape
<1>10. CASE SaveSent(j)
  BY <1>0, <1>t, <1>10, SaveSentDoes DEF Queued, Recorded, Placed, SameLog,
     SameHistory, At, Done, Shape
<1>11. CASE SaveFailed(j)
  BY <1>0, <1>t, <1>11, SaveFailedDoes DEF Queued, Recorded, Placed,
     SameLog, SameHistory, At, Done, Shape
<1>12. CASE StartCall(j)
  BY <1>0, <1>t, <1>12, StartCallDoes DEF Queued, Recorded, Placed, SameLog,
     SameHistory, At, Done, Shape
<1>13. CASE EndCall(j)
  BY <1>0, <1>t, <1>13, EndCallDoes DEF Queued, Recorded, Placed, SameLog,
     SameHistory, At, Done, Shape
<1>14. CASE Requeue(j)
  BY <1>0, <1>t, <1>14, RequeueDoes DEF Queued, Recorded, Placed, SameLog,
     SameHistory, At, Done, Shape
<1>15. CASE FindHooks(j)
  BY <1>0, <1>t, <1>15, FindHooksDoes DEF Queued, Recorded, Placed, SameLog,
     At, Done, Shape
<1>16. ASSUME NEW h \in Hook, CreateDelivery(j, h) PROVE Done(j)'
  <2>1. \A g \in found[j] : \/ g \in work'[j].todo \/ g \in work'[j].on
                            \/ Outcome(j, g)' \in {"SUCCESS", "DLQ"}
    BY <1>0, <1>t, <1>16, CreateDeliveryDoes DEF Placed, Logged, At, Done, Shape
  <2>2. kind'[j] = "webhook" /\ work'[j].at = "remote" /\ job'[j] # "completed"
    BY <1>0, <1>16, CreateDeliveryDoes DEF Queued, Placed, At, Shape
  <2> QED
    BY <2>1, <2>2, <1>16, CreateDeliveryDoes DEF SameHistory, Done
<1>17. ASSUME NEW h \in Hook, Post(j, h) PROVE Done(j)'
  BY <1>0, <1>t, <1>17, PostDoes DEF Queued, Recorded, Placed, SameLog, At,
     Done, Shape
<1>18. ASSUME NEW h \in Hook, SaveSuccess(j, h) PROVE Done(j)'
  <2>1. \A g \in found[j] : \/ g \in work'[j].todo
                            \/ Outcome(j, g)' \in {"SUCCESS", "DLQ"}
    BY <1>0, <1>t, <1>18, SaveSuccessDoes DEF Placed, Logged, At, Done, Shape
  <2>2. kind'[j] = "webhook" /\ work'[j].at = "next" /\ job'[j] # "completed"
    BY <1>0, <1>18, SaveSuccessDoes DEF Queued, Placed, At, Shape
  <2> QED
    BY <2>1, <2>2, <1>18, SaveSuccessDoes DEF SameHistory, Done
<1>19. ASSUME NEW h \in Hook, SaveFailure(j, h) PROVE Done(j)'
  BY <1>0, <1>t, <1>19, SaveFailureDoes DEF Queued, Recorded, Placed,
     Logged, SameHistory, At, Done, Shape
<1> QED
  BY <1>s, <1>1, <1>2, <1>3, <1>4, <1>5, <1>6, <1>7, <1>8, <1>9, <1>10,
     <1>11, <1>12, <1>13, <1>14, <1>15, <1>16, <1>17, <1>18, <1>19, Frame DEF
     Own, RequestNext, Processor, Failure

-----------------------------------------------------------------------------
(* Failure.  Why a job failed is on record.                                *)
Blamed(j) ==
    job[j] = "failed" => \/ found[j] = {}
                         \/ \E g \in Hook : Outcome(j, g) = "FAILED"
                         \/ doubt[j] \/ stalls[j] > StallLimit

LEMMA BlamedStep ==
  ASSUME Sound, [Next]_vars, NEW j \in Job, Blamed(j)
  PROVE  Blamed(j)'
<1>0. Shape(j) /\ Blamed(j)
  BY DEF Sound
<1>t. stalls[j] \in Nat /\ StallLimit \in Nat
  BY StallAssumption DEF Sound, WorkerTypeOK, QueueTypeOK, Works
<1>s. CASE Same(j)
  BY <1>0, <1>s, <1>t DEF Same, Outcome, Newest, Blamed, Shape
<1>1. CASE Store(j)
  BY <1>0, <1>t, <1>1, StoreDoes DEF Queued, Recorded, Placed, SameLog,
     SameHistory, FirstStatus, Kinds, Blamed, Shape
<1>2. CASE Enqueue(j)
  BY <1>0, <1>t, <1>2, EnqueueDoes DEF Queued, Recorded, Placed, SameLog,
     SameHistory, Blamed, Shape
<1>3. CASE RequestDies(j)
  BY <1>0, <1>t, <1>3, RequestDiesDoes DEF Queued, Recorded, Placed,
     SameLog, SameHistory, Blamed, Shape
<1>4. CASE Begin(j)
  BY <1>0, <1>t, <1>4, BeginDoes DEF Queued, Recorded, Placed, SameLog,
     SameHistory, Blamed, Shape
<1>5. CASE End(j)
  BY <1>0, <1>t, <1>5, EndDoes DEF Queued, Recorded, Placed, SameLog,
     SameHistory, Blamed, Shape
<1>6. CASE Throws(j)
  BY <1>0, <1>t, <1>6, ThrowsDoes DEF Queued, Recorded, Placed, SameLog,
     Blamed, Shape
<1>7. CASE SaveThrows(j)
  BY <1>0, <1>t, <1>7, SaveThrowsDoes DEF Queued, Recorded, Placed, SameLog,
     Blamed, Shape
<1>8. CASE WorkerDies(j)
  BY <1>0, <1>t, <1>8, WorkerDiesDoes DEF Queued, Recorded, Placed, SameLog,
     SameHistory, Blamed, Shape
<1>9. CASE SendMail(j)
  BY <1>0, <1>t, <1>9, SendMailDoes DEF Queued, Recorded, Placed, SameLog,
     At, Blamed, Shape
<1>10. CASE SaveSent(j)
  BY <1>0, <1>t, <1>10, SaveSentDoes DEF Queued, Recorded, Placed, SameLog,
     SameHistory, At, Blamed, Shape
<1>11. CASE SaveFailed(j)
  BY <1>0, <1>t, <1>11, SaveFailedDoes DEF Queued, Recorded, Placed,
     SameLog, SameHistory, At, Blamed, Shape
<1>12. CASE StartCall(j)
  BY <1>0, <1>t, <1>12, StartCallDoes DEF Queued, Recorded, Placed, SameLog,
     SameHistory, At, Blamed, Shape
<1>13. CASE EndCall(j)
  BY <1>0, <1>t, <1>13, EndCallDoes DEF Queued, Recorded, Placed, SameLog,
     SameHistory, At, Blamed, Shape
<1>14. CASE Requeue(j)
  BY <1>0, <1>t, <1>14, RequeueDoes DEF Queued, Recorded, Placed, SameLog,
     SameHistory, At, Blamed, Shape
<1>15. CASE FindHooks(j)
  BY <1>0, <1>t, <1>15, FindHooksDoes DEF Queued, Recorded, Placed, SameLog,
     At, Blamed, Shape
<1>16. ASSUME NEW h \in Hook, CreateDelivery(j, h) PROVE Blamed(j)'
  BY <1>0, <1>t, <1>16, CreateDeliveryDoes DEF Queued, Recorded, Placed,
     Logged, SameHistory, At, Blamed, Shape
<1>17. ASSUME NEW h \in Hook, Post(j, h) PROVE Blamed(j)'
  BY <1>0, <1>t, <1>17, PostDoes DEF Queued, Recorded, Placed, SameLog, At,
     Blamed, Shape
<1>18. ASSUME NEW h \in Hook, SaveSuccess(j, h) PROVE Blamed(j)'
  BY <1>0, <1>t, <1>18, SaveSuccessDoes DEF Queued, Recorded, Placed,
     Logged, SameHistory, At, Blamed, Shape
<1>19. ASSUME NEW h \in Hook, SaveFailure(j, h) PROVE Blamed(j)'
  BY <1>0, <1>t, <1>19, SaveFailureDoes DEF Queued, Recorded, Placed,
     Logged, SameHistory, At, Blamed, Shape
<1> QED
  BY <1>s, <1>1, <1>2, <1>3, <1>4, <1>5, <1>6, <1>7, <1>8, <1>9, <1>10,
     <1>11, <1>12, <1>13, <1>14, <1>15, <1>16, <1>17, <1>18, <1>19, Frame DEF
     Own, RequestNext, Processor, Failure

-----------------------------------------------------------------------------
(* Records.  In the one run of a job without a death, a throw or an unclear*)
(* answer, the records tell what the remote peers got.                     *)
Undisturbed(j) == stalls[j] = 0 /\ ~ doubt[j]

RightRecord(j) ==
    Undisturbed(j) =>
        /\ Fresh(j) => mails[j] = 0
        /\ record[j] = "FAILED" => job[j] = "failed" /\ mails[j] = 0
        /\ At(j, "email", "catch") => mails[j] = 0
        /\ (job[j] = "failed" /\ kind[j] \in {"email", "voice"})
             => record[j] = "FAILED"

RightLog(j) ==
    Undisturbed(j) =>
        /\ Fresh(j) => \A h \in Hook : posts[j][h] = 0 /\ Outcome(j, h) = "NONE"
        /\ \A h \in work[j].todo : posts[j][h] = 0 /\ Outcome(j, h) = "NONE"
        /\ \A h \in work[j].on :
             /\ work[j].at \in {"remote", "catch"} => posts[j][h] = 0
             /\ work[j].at \in {"remote", "save", "catch"}
                  => Outcome(j, h) = "PENDING"
        /\ \A h \in Hook : Outcome(j, h) = "PENDING" =>
             h \in work[j].on /\ work[j].at \in {"remote", "save", "catch"}
        /\ \A h \in Hook : Outcome(j, h) = "FAILED" => posts[j][h] = 0

LEMMA RightRecordStep ==
  ASSUME Sound, [Next]_vars, NEW j \in Job, RightRecord(j)
  PROVE  RightRecord(j)'
<1>0. Shape(j) /\ RightRecord(j)
  BY DEF Sound
<1>t. stalls[j] \in Nat
  BY DEF Sound, WorkerTypeOK, QueueTypeOK, Works
<1>s. CASE Same(j)
  BY <1>0, <1>s, <1>t DEF Same, Outcome, Newest, RightRecord, Undisturbed,
     Fresh, At, Shape
<1>1. CASE Store(j)
  <2>1. FirstStatus(j) # "FAILED"
    BY DEF Sound, WorkerTypeOK, FirstStatus, Kinds
  <2> QED
    BY <1>0, <1>t, <1>1, <2>1, StoreDoes DEF Queued, Recorded, Placed,
       SameHistory, RightRecord, Undisturbed, Fresh, At, Shape
<1>2. CASE Enqueue(j)
  BY <1>0, <1>t, <1>2, EnqueueDoes DEF Queued, Recorded, Placed, SameLog,
     SameHistory, RightRecord, Undisturbed, Fresh, At, Shape
<1>3. CASE RequestDies(j)
  BY <1>0, <1>t, <1>3, RequestDiesDoes DEF Queued, Recorded, Placed,
     SameLog, SameHistory, RightRecord, Undisturbed, Fresh, At, Shape
<1>4. CASE Begin(j)
  BY <1>0, <1>t, <1>4, BeginDoes DEF Queued, Recorded, Placed, SameLog,
     SameHistory, RightRecord, Undisturbed, Fresh, At, Shape
<1>5. CASE End(j)
  BY <1>0, <1>t, <1>5, EndDoes DEF Queued, Recorded, Placed, SameLog,
     SameHistory, RightRecord, Undisturbed, Fresh, At, Shape
<1>6. CASE Throws(j)
  BY <1>0, <1>t, <1>6, ThrowsDoes DEF Queued, Recorded, Placed, SameLog,
     RightRecord, Undisturbed, Fresh, At, Shape
<1>7. CASE SaveThrows(j)
  BY <1>0, <1>t, <1>7, SaveThrowsDoes DEF Queued, Recorded, Placed, SameLog,
     RightRecord, Undisturbed, Fresh, At, Shape
<1>8. CASE WorkerDies(j)
  BY <1>0, <1>t, <1>8, WorkerDiesDoes DEF Queued, Recorded, Placed, SameLog,
     SameHistory, RightRecord, Undisturbed, Fresh, At, Shape
<1>9. CASE SendMail(j)
  BY <1>0, <1>t, <1>9, SendMailDoes DEF Queued, Recorded, Placed, SameLog,
     RightRecord, Undisturbed, Fresh, At, Shape
<1>10. CASE SaveSent(j)
  BY <1>0, <1>t, <1>10, SaveSentDoes DEF Queued, Recorded, Placed, SameLog,
     SameHistory, RightRecord, Undisturbed, Fresh, At, Shape
<1>11. CASE SaveFailed(j)
  BY <1>0, <1>t, <1>11, SaveFailedDoes DEF Queued, Recorded, Placed,
     SameLog, SameHistory, RightRecord, Undisturbed, Fresh, At, Shape
<1>12. CASE StartCall(j)
  BY <1>0, <1>t, <1>12, StartCallDoes DEF Queued, Recorded, Placed, SameLog,
     SameHistory, RightRecord, Undisturbed, Fresh, At, Shape
<1>13. CASE EndCall(j)
  BY <1>0, <1>t, <1>13, EndCallDoes DEF Queued, Recorded, Placed, SameLog,
     SameHistory, RightRecord, Undisturbed, Fresh, At, Shape
<1>14. CASE Requeue(j)
  BY <1>0, <1>t, <1>14, RequeueDoes DEF Queued, Recorded, Placed, SameLog,
     SameHistory, RightRecord, Undisturbed, Fresh, At, Shape
<1>15. CASE FindHooks(j)
  BY <1>0, <1>t, <1>15, FindHooksDoes DEF Queued, Recorded, Placed, SameLog,
     RightRecord, Undisturbed, Fresh, At, Shape
<1>16. ASSUME NEW h \in Hook, CreateDelivery(j, h) PROVE RightRecord(j)'
  BY <1>0, <1>t, <1>16, CreateDeliveryDoes DEF Queued, Recorded, Placed,
     Logged, SameHistory, RightRecord, Undisturbed, Fresh, At, Shape
<1>17. ASSUME NEW h \in Hook, Post(j, h) PROVE RightRecord(j)'
  BY <1>0, <1>t, <1>17, PostDoes DEF Queued, Recorded, Placed, SameLog,
     RightRecord, Undisturbed, Fresh, At, Shape
<1>18. ASSUME NEW h \in Hook, SaveSuccess(j, h) PROVE RightRecord(j)'
  BY <1>0, <1>t, <1>18, SaveSuccessDoes DEF Queued, Recorded, Placed,
     Logged, SameHistory, RightRecord, Undisturbed, Fresh, At, Shape
<1>19. ASSUME NEW h \in Hook, SaveFailure(j, h) PROVE RightRecord(j)'
  BY <1>0, <1>t, <1>19, SaveFailureDoes DEF Queued, Recorded, Placed,
     Logged, SameHistory, RightRecord, Undisturbed, Fresh, At, Shape
<1> QED
  BY <1>s, <1>1, <1>2, <1>3, <1>4, <1>5, <1>6, <1>7, <1>8, <1>9, <1>10,
     <1>11, <1>12, <1>13, <1>14, <1>15, <1>16, <1>17, <1>18, <1>19, Frame DEF
     Own, RequestNext, Processor, Failure

LEMMA RightLogStep ==
  ASSUME Sound, [Next]_vars, NEW j \in Job, RightLog(j)
  PROVE  RightLog(j)'
<1>0. Shape(j) /\ RightLog(j)
  BY DEF Sound
<1>t. stalls[j] \in Nat /\ work[j].todo \subseteq Hook /\ work[j].on \subseteq Hook
  BY DEF Sound, WorkerTypeOK, QueueTypeOK, Works
<1>s. CASE Same(j)
  BY <1>0, <1>s, <1>t DEF Same, Outcome, Newest, RightLog, Undisturbed, Fresh,
     At, Shape
<1>1. CASE Store(j)
  BY <1>0, <1>t, <1>1, StoreDoes DEF Queued, Recorded, Placed, SameLog,
     SameHistory, FirstStatus, Kinds, RightLog, Undisturbed, Fresh, At, Shape
<1>2. CASE Enqueue(j)
  BY <1>0, <1>t, <1>2, EnqueueDoes DEF Queued, Recorded, Placed, SameLog,
     SameHistory, RightLog, Undisturbed, Fresh, At, Shape
<1>3. CASE RequestDies(j)
  BY <1>0, <1>t, <1>3, RequestDiesDoes DEF Queued, Recorded, Placed,
     SameLog, SameHistory, RightLog, Undisturbed, Fresh, At, Shape
<1>4. CASE Begin(j)
  BY <1>0, <1>t, <1>4, BeginDoes DEF Queued, Recorded, Placed, SameLog,
     SameHistory, RightLog, Undisturbed, Fresh, At, Shape
<1>5. CASE End(j)
  BY <1>0, <1>t, <1>5, EndDoes DEF Queued, Recorded, Placed, SameLog,
     SameHistory, RightLog, Undisturbed, Fresh, At, Shape
<1>6. CASE Throws(j)
  BY <1>0, <1>t, <1>6, ThrowsDoes DEF Queued, Recorded, Placed, SameLog,
     RightLog, Undisturbed, Fresh, At, Shape
<1>7. CASE SaveThrows(j)
  BY <1>0, <1>t, <1>7, SaveThrowsDoes DEF Queued, Recorded, Placed, SameLog,
     RightLog, Undisturbed, Fresh, At, Shape
<1>8. CASE WorkerDies(j)
  BY <1>0, <1>t, <1>8, WorkerDiesDoes DEF Queued, Recorded, Placed, SameLog,
     SameHistory, RightLog, Undisturbed, Fresh, At, Shape
<1>9. CASE SendMail(j)
  BY <1>0, <1>t, <1>9, SendMailDoes DEF Queued, Recorded, Placed, SameLog,
     RightLog, Undisturbed, Fresh, At, Shape
<1>10. CASE SaveSent(j)
  BY <1>0, <1>t, <1>10, SaveSentDoes DEF Queued, Recorded, Placed, SameLog,
     SameHistory, RightLog, Undisturbed, Fresh, At, Shape
<1>11. CASE SaveFailed(j)
  BY <1>0, <1>t, <1>11, SaveFailedDoes DEF Queued, Recorded, Placed,
     SameLog, SameHistory, RightLog, Undisturbed, Fresh, At, Shape
<1>12. CASE StartCall(j)
  BY <1>0, <1>t, <1>12, StartCallDoes DEF Queued, Recorded, Placed, SameLog,
     SameHistory, RightLog, Undisturbed, Fresh, At, Shape
<1>13. CASE EndCall(j)
  BY <1>0, <1>t, <1>13, EndCallDoes DEF Queued, Recorded, Placed, SameLog,
     SameHistory, RightLog, Undisturbed, Fresh, At, Shape
<1>14. CASE Requeue(j)
  BY <1>0, <1>t, <1>14, RequeueDoes DEF Queued, Recorded, Placed, SameLog,
     SameHistory, RightLog, Undisturbed, Fresh, At, Shape
<1>15. CASE FindHooks(j)
  <2>1. found'[j] \subseteq Hook
    BY TypeStep DEF WorkerTypeOK
  <2>2. Undisturbed(j)' => \A h \in Hook : /\ posts'[j][h] = 0
                                         /\ Outcome(j, h)' = "NONE"
    BY <1>0, <1>15, FindHooksDoes DEF Queued, SameLog, At, RightLog,
       Undisturbed,
       Fresh
  <2> QED
    BY <2>1, <2>2, <1>15, FindHooksDoes DEF Placed, RightLog
<1>16. ASSUME NEW h \in Hook, CreateDelivery(j, h) PROVE RightLog(j)'
  <2>1. CASE ~ Undisturbed(j)'
    BY <2>1 DEF RightLog
  <2>2. CASE Undisturbed(j)'
    <3>1. Undisturbed(j)
      BY <1>16, <2>2, CreateDeliveryDoes DEF Queued, SameHistory, Undisturbed
    <3>2. ~ Fresh(j)' /\ work[j].at # "idle"
      BY <1>0, <1>16, CreateDeliveryDoes DEF Queued, Placed, At, Fresh, Shape
    <3>3. \A g \in work'[j].todo : posts'[j][g] = 0 /\ Outcome(j, g)' = "NONE"
      BY <1>0, <1>t, <1>16, <3>1, CreateDeliveryDoes DEF Placed, Logged,
         SameHistory, At, RightLog, Shape
    <3>4. \A g \in work'[j].on :
            /\ work'[j].at \in {"remote", "catch"} => posts'[j][g] = 0
            /\ work'[j].at \in {"remote", "save", "catch"}
                 => Outcome(j, g)' = "PENDING"
      <4>1. posts[j][h] = 0
        BY <1>0, <1>16, <3>1, CreateDeliveryDoes DEF RightLog
      <4> QED
        BY <4>1, <1>16, CreateDeliveryDoes DEF Placed, Logged, SameHistory
    <3>5. \A g \in Hook : Outcome(j, g)' = "PENDING" =>
            g \in work'[j].on /\ work'[j].at \in {"remote", "save", "catch"}
      BY <1>0, <1>t, <1>16, <3>1, CreateDeliveryDoes DEF Placed, Logged,
         SameHistory, At, RightLog, Shape
    <3>6. \A g \in Hook : Outcome(j, g)' = "FAILED" => posts'[j][g] = 0
      BY <1>0, <1>t, <1>16, <3>1, CreateDeliveryDoes DEF Placed, Logged,
         SameHistory, At, RightLog, Shape
    <3> QED
      BY <3>2, <3>3, <3>4, <3>5, <3>6 DEF RightLog
  <2> QED
    BY <2>1, <2>2
<1>17. ASSUME NEW h \in Hook, Post(j, h) PROVE RightLog(j)'
  <2>1. CASE ~ Undisturbed(j)'
    BY <2>1 DEF RightLog
  <2>2. CASE Undisturbed(j)'
    <3>1. Undisturbed(j)
      BY <1>17, <2>2, PostDoes DEF Queued,  Undisturbed
    <3>2. ~ Fresh(j)' /\ work[j].at # "idle"
      BY <1>0, <1>17, PostDoes DEF Queued, Placed, At, Fresh, Shape
    <3>3. \A g \in work'[j].todo : posts'[j][g] = 0 /\ Outcome(j, g)' = "NONE"
      BY <1>0, <1>t, <1>17, <3>1, PostDoes DEF Placed, SameLog, At, RightLog,
         Shape
    <3>4. \A g \in work'[j].on :
            /\ work'[j].at \in {"remote", "catch"} => posts'[j][g] = 0
            /\ work'[j].at \in {"remote", "save", "catch"}
                 => Outcome(j, g)' = "PENDING"
      BY <1>0, <1>t, <1>17, <3>1, <2>2, PostDoes DEF Placed, SameLog, At,
         RightLog, Undisturbed, Shape
    <3>5. \A g \in Hook : Outcome(j, g)' = "PENDING" =>
            g \in work'[j].on /\ work'[j].at \in {"remote", "save", "catch"}
      BY <1>0, <1>t, <1>17, <3>1, PostDoes DEF Placed, SameLog, At, RightLog,
         Shape
    <3>6. \A g \in Hook : Outcome(j, g)' = "FAILED" => posts'[j][g] = 0
      BY <1>0, <1>t, <1>17, <3>1, PostDoes DEF Placed, SameLog, At, RightLog,
         Shape
    <3> QED
      BY <3>2, <3>3, <3>4, <3>5, <3>6 DEF RightLog
  <2> QED
    BY <2>1, <2>2
<1>18. ASSUME NEW h \in Hook, SaveSuccess(j, h) PROVE RightLog(j)'
  <2>1. CASE ~ Undisturbed(j)'
    BY <2>1 DEF RightLog
  <2>2. CASE Undisturbed(j)'
    <3>1. Undisturbed(j)
      BY <1>18, <2>2, SaveSuccessDoes DEF Queued, SameHistory, Undisturbed
    <3>2. ~ Fresh(j)' /\ work[j].at # "idle"
      BY <1>0, <1>18, SaveSuccessDoes DEF Queued, Placed, At, Fresh, Shape
    <3>3. \A g \in work'[j].todo : posts'[j][g] = 0 /\ Outcome(j, g)' = "NONE"
      BY <1>0, <1>t, <1>18, <3>1, SaveSuccessDoes DEF Placed, Logged,
         SameHistory, At, RightLog, Shape
    <3>4. \A g \in work'[j].on :
            /\ work'[j].at \in {"remote", "catch"} => posts'[j][g] = 0
            /\ work'[j].at \in {"remote", "save", "catch"}
                 => Outcome(j, g)' = "PENDING"
      BY <1>0, <1>t, <1>18, <3>1, <2>2, SaveSuccessDoes DEF Placed, Logged,
         SameHistory, At, RightLog, Undisturbed, Shape
    <3>5. \A g \in Hook : Outcome(j, g)' = "PENDING" =>
            g \in work'[j].on /\ work'[j].at \in {"remote", "save", "catch"}
      <4>1. \A g \in Hook : g # h => Outcome(j, g) # "PENDING"
        BY <1>0, <1>t, <1>18, <3>1, SaveSuccessDoes DEF At, RightLog, Shape
      <4> QED
        BY <4>1, <1>18, SaveSuccessDoes DEF Logged
    <3>6. \A g \in Hook : Outcome(j, g)' = "FAILED" => posts'[j][g] = 0
      BY <1>0, <1>t, <1>18, <3>1, SaveSuccessDoes DEF Placed, Logged,
         SameHistory, At, RightLog, Shape
    <3> QED
      BY <3>2, <3>3, <3>4, <3>5, <3>6 DEF RightLog
  <2> QED
    BY <2>1, <2>2
<1>19. ASSUME NEW h \in Hook, SaveFailure(j, h) PROVE RightLog(j)'
  BY <1>0, <1>t, <1>19, SaveFailureDoes DEF Queued, Recorded, Placed,
     Logged, SameHistory, RightLog, Undisturbed, Fresh, At, Shape
<1> QED
  BY <1>s, <1>1, <1>2, <1>3, <1>4, <1>5, <1>6, <1>7, <1>8, <1>9, <1>10,
     <1>11, <1>12, <1>13, <1>14, <1>15, <1>16, <1>17, <1>18, <1>19, Frame DEF
     Own, RequestNext, Processor, Failure

-----------------------------------------------------------------------------
(* The inductive invariant, and what follows from it.                      *)
Holds ==
    /\ Sound
    /\ \A j \in Job : /\ Copies(j) /\ Done(j) /\ Blamed(j)
                      /\ RightRecord(j) /\ RightLog(j)

LEMMA HoldsInit == Init => Holds
<1> SUFFICES ASSUME Init PROVE Holds
  OBVIOUS
<1>1. Sound
  BY SoundInit
<1> SUFFICES ASSUME NEW j \in Job
             PROVE  Copies(j) /\ Done(j) /\ Blamed(j) /\ RightRecord(j) /\ RightLog(j)
  BY <1>1 DEF Holds
<1>2. /\ job[j] = "none" /\ stalls[j] = 0 /\ record[j] = "NONE"
      /\ work[j] = Idle /\ found[j] = {} /\ mails[j] = 0
      /\ \A h \in Hook : posts[j][h] = 0 /\ Outcome(j, h) = "NONE"
  BY DEF Init, QueueInit, Outcome
<1>3. Fresh(j) /\ work[j].at = "idle" /\ work[j].todo = {} /\ work[j].on = {}
  BY <1>2 DEF Fresh, Idle
<1>4. Copies(j)
  BY <1>2, <1>3 DEF Copies
<1>5. Done(j) /\ Blamed(j)
  BY <1>2, <1>3 DEF Done, Blamed
<1>6. RightRecord(j) /\ RightLog(j)
  BY <1>2, <1>3 DEF RightRecord, RightLog, At
<1> QED
  BY <1>4, <1>5, <1>6

THEOREM HoldsAlways == Spec => []Holds
<1>1. Init => Holds
  BY HoldsInit
<1>2. Holds /\ [Next]_vars => Holds'
  BY SoundStep, CopiesStep, DoneStep, BlamedStep, RightRecordStep, RightLogStep
     DEF Holds
<1> QED
  BY <1>1, <1>2, PTL DEF Spec

(* A repeated job costs at most one more copy of its e-mail, or of its     *)
(* event for each webhook, for every death of its worker.                  *)
THEOREM CopiesBounded == Spec => []CopiesAreStalls
<1>1. ASSUME Holds, NEW j \in Job
      PROVE  mails[j] <= 1 + stalls[j] /\ \A h \in Hook : posts[j][h] <= 1 + stalls[j]
  <2>1. stalls[j] \in Nat /\ mails[j] \in Nat /\ posts[j] \in [Hook -> Nat]
    BY <1>1, StallAssumption DEF Holds, Sound, WorkerTypeOK, QueueTypeOK
  <2>2. Copies(j)
    BY <1>1 DEF Holds
  <2> QED
    BY <2>1, <2>2 DEF Copies
<1>2. Holds => CopiesAreStalls
  BY <1>1 DEF CopiesAreStalls
<1> QED
  BY <1>2, HoldsAlways, PTL

(* A completed job has done its work for every record and every webhook.   *)
THEOREM CompletedIsDone == Spec => []CompletedMeansDone
<1>1. Holds => CompletedMeansDone
  BY DEF Holds, Done, CompletedMeansDone
<1> QED
  BY <1>1, HoldsAlways, PTL

(* A webhook left without a delivery can be traced to a failed delivery, a *)
(* throwing statement or the deaths of the workers.                        *)
THEOREM MissedIsExplained == Spec => []MissedHookIsExplained
<1>1. ASSUME Holds, NEW j \in Job, NEW h \in found[j],
             job[j] \in Ended, Outcome(j, h) = "NONE"
      PROVE  \/ \E g \in Hook : Outcome(j, g) = "FAILED"
             \/ doubt[j] \/ stalls[j] > StallLimit
  <2>1. Done(j) /\ Blamed(j)
    BY <1>1 DEF Holds
  <2>2. job[j] = "failed"
    BY <1>1, <2>1 DEF Done, Ended
  <2> QED
    BY <1>1, <2>1, <2>2 DEF Blamed
<1>2. Holds => MissedHookIsExplained
  BY <1>1 DEF MissedHookIsExplained
<1> QED
  BY <1>2, HoldsAlways, PTL

(* The records of a job that ran once and without trouble are final, and   *)
(* what they call FAILED never reached the remote peer.                    *)
THEOREM RecordsMatch == Spec => []RecordsAreRight
<1>1. ASSUME Holds, NEW j \in Job, job[j] \in Ended, stalls[j] = 0, ~ doubt[j]
      PROVE  ~ LeftOpen(j) /\ ~ FalselyFailed(j)
  <2>1. /\ Shape(j) /\ Done(j) /\ RightRecord(j) /\ RightLog(j)
        /\ posts[j] \in [Hook -> Nat]
    BY <1>1 DEF Holds, Sound, WorkerTypeOK
  <2>2. Undisturbed(j) /\ work[j].at = "idle"
    BY <1>1, <2>1 DEF Undisturbed, Shape, Ended
  <2>3. kind[j] \in {"email", "voice"} => record[j] \notin {"QUEUED", "IN_PROGRESS"}
    BY <1>1, <2>1, <2>2 DEF Done, RightRecord, Ended
  <2>4. \A h \in Hook : /\ Outcome(j, h) # "PENDING"
                        /\ Outcome(j, h) = "FAILED" => posts[j][h] = 0
    BY <2>1, <2>2 DEF RightLog
  <2>5. record[j] = "FAILED" => mails[j] = 0
    BY <2>1, <2>2 DEF RightRecord
  <2> QED
    BY <2>3, <2>4, <2>5 DEF LeftOpen, FalselyFailed
<1>2. Holds => RecordsAreRight
  BY <1>1 DEF RecordsAreRight
<1> QED
  BY <1>2, HoldsAlways, PTL
=============================================================================
