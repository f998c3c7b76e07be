-------------------------------- MODULE Jobs --------------------------------
(* The two Bull queues, 'email' and 'recommendation-jobs': what the crons   *)
(* and the notifications put on them, what the workers do                   *)
(* (EmailConsumer.processEmailJob, RecommendationJobService.process...),    *)
(* and how Bull hands jobs out, counts attempts and recovers jobs whose     *)
(* worker no longer renews its lock. Composed with Activity, whose history  *)
(* the cleanup job deletes from.                                            *)
EXTENDS Activity

CONSTANTS JobIds,     \* bound: jobs ever queued
          Workers,    \* job slots of all server processes
          MaxFaults   \* bound: crashes, lost locks and lost answers

ASSUME JobsAssumption ==
  /\ IsFiniteSet(Workers) /\ None \notin Workers
  /\ MaxFaults \in Nat

VARIABLES jobs,      \* what Bull knows of each job
          workers,   \* what each worker is doing
          batches,   \* recommendation_batches by job: how many rows RUNNING and COMPLETED
          mails,     \* ghost: mails the mail server accepted, per job
          unheard,   \* ghost: effects of a job whose answer was lost
          faults     \* ghost: faults so far, for the bound

jobVars == <<jobs, workers, batches, mails, unheard, faults>>
vars == <<activityVars, jobVars>>

(* A "bare" mail is one of the five notifications without a template. *)
Kinds == {"email", "bare", "update", "batch", "training", "cleanup"}

(* The attempts option each kind is queued with. *)
Attempts == [email |-> 3, bare |-> 3, update |-> 3, batch |-> 2, training |-> 1, cleanup |-> 1]

Job == [kind : Kinds, state : {"waiting", "active", "completed", "failed"},
        tries : Nat, stalls : 0 .. 2, holder : Workers \cup {None}]

ASSUME RowsAssumption == None \notin Job

Worker == [job : JobIds \cup {None},
           stage : {"idle", "start", "made", "history", "ok", "failed"}]

Free == [job |-> None, stage |-> "idle"]

TypeOK ==
  /\ ActivityTypeOK
  /\ jobs \in [JobIds -> Job \cup {None}]
  /\ workers \in [Workers -> Worker]
  /\ batches \in [JobIds -> [running : Nat, completed : Nat]]
  /\ mails \in [JobIds -> Nat]
  /\ unheard \in [JobIds -> Nat]
  /\ faults \in 0 .. MaxFaults

JobsInit ==
  /\ jobs = [j \in JobIds |-> None]
  /\ workers = [w \in Workers |-> Free]
  /\ batches = [j \in JobIds |-> [running |-> 0, completed |-> 0]]
  /\ mails = [j \in JobIds |-> 0]
  /\ unheard = [j \in JobIds |-> 0]
  /\ faults = 0

-----------------------------------------------------------------------------
(* Producers: each of them adds one job at a time and stops at an error.     *)

Add(j, kind) ==
  /\ jobs[j] = None
  /\ jobs' = [jobs EXCEPT ![j] =
       [kind |-> kind, state |-> "waiting", tries |-> 0, stalls |-> 0, holder |-> None]]
  /\ UNCHANGED <<workers, batches, mails, unheard, faults>>

(* POST /notifications/test by an administrator. *)
SendNotification(j) == Add(j, "email") \/ Add(j, "bare")

(* Every 15 minutes, one job per user active of late. *)
GenerateHotRecommendations(j) ==
  /\ \E u \in Users, p \in Products : tracked[<<u, p>>] > 0
  /\ Add(j, "update")

GenerateDailyRecommendations(j) == Add(j, "batch")
RetrainModels(j) == Add(j, "training")
IntelligentDataCleanup(j) == Add(j, "cleanup")

-----------------------------------------------------------------------------
(* Bull.                                                                      *)

(* Idle workers are alike. *)
Take(w, j) ==
  /\ workers[w] = Free
  /\ w = CHOOSE x \in Workers : workers[x] = Free
  /\ jobs[j] # None /\ jobs[j].state = "waiting"
  /\ workers' = [workers EXCEPT ![w] = [job |-> j, stage |-> "start"]]
  /\ jobs' = [jobs EXCEPT ![j] = [@ EXCEPT !.state = "active", !.holder = w]]
  /\ UNCHANGED <<batches, mails, unheard, faults>>

(* The handler ended: Bull moves the job if this worker still holds it. *)
Moved(j, w) ==
  IF jobs[j].holder # w
  THEN jobs[j]
  ELSE IF workers[w].stage = "ok"
       THEN [jobs[j] EXCEPT !.state = "completed", !.holder = None]
       ELSE [jobs[j] EXCEPT !.tries = jobs[j].tries + 1, !.holder = None,
              !.state = IF jobs[j].tries + 1 < Attempts[jobs[j].kind] THEN "waiting" ELSE "failed"]

Finish(w) ==
  /\ workers[w].stage \in {"ok", "failed"}
  /\ jobs' = [jobs EXCEPT ![workers[w].job] = Moved(workers[w].job, w)]
  /\ workers' = [workers EXCEPT ![w] = Free]
  /\ UNCHANGED <<batches, mails, unheard, faults>>

Fault == faults < MaxFaults /\ faults' = faults + 1

(* The process of a worker stops; the lock of its job runs out. *)
Crash(w) ==
  /\ Fault
  /\ workers[w] # Free
  /\ workers' = [workers EXCEPT ![w] = Free]
  /\ jobs' = [jobs EXCEPT ![workers[w].job].holder = IF @ = w THEN None ELSE @]
  /\ UNCHANGED <<batches, mails, unheard>>

(* A worker that goes on cannot renew its lock in time. *)
LoseLock(j) ==
  /\ Fault
  /\ jobs[j] # None /\ jobs[j].state = "active" /\ jobs[j].holder # None
  /\ jobs' = [jobs EXCEPT ![j].holder = None]
  /\ UNCHANGED <<workers, batches, mails, unheard>>

(* What would happen with stalledInterval set to 0. *)
StallUnseen(j) == FALSE /\ UNCHANGED <<jobs, workers, batches, mails, unheard, faults>>

(* A job nobody holds is put back once; the second time it fails. *)
Stall(j) ==
  /\ jobs[j] # None /\ jobs[j].state = "active" /\ jobs[j].holder = None
  /\ jobs' = [jobs EXCEPT ![j] = [jobs[j] EXCEPT
       !.stalls = jobs[j].stalls + 1,
       !.state = IF jobs[j].stalls = 0 THEN "waiting" ELSE "failed"]]
  /\ UNCHANGED <<workers, batches, mails, unheard, faults>>

-----------------------------------------------------------------------------
(* Handlers. A statement or a call may fail before it had an effect, or its  *)
(* answer may be lost after it.                                               *)

At(w, kinds, stage) == workers[w].stage = stage /\ jobs[workers[w].job].kind \in kinds
Goto(w, stage) == workers' = [workers EXCEPT ![w].stage = stage]
Heard == UNCHANGED <<unheard, faults>>
Unheard(j) == Fault /\ unheard' = [unheard EXCEPT ![j] = @ + 1]

(* What the email consumer would do if it only logged its errors. *)
ProcessEmailJobQuietly(w) ==
  LET j == workers[w].job
  IN /\ At(w, {"email", "bare"}, "start")
     /\ \/ /\ jobs[j].kind = "email"
           /\ mails' = [mails EXCEPT ![j] = @ + 1]
           /\ Goto(w, "ok")
           /\ Heard \/ Unheard(j)
        \/ Goto(w, "ok") /\ Heard /\ UNCHANGED mails
     /\ UNCHANGED <<jobs, batches>>

(* An error of the mail server or of the template is thrown on to Bull. *)
ProcessEmailJob(w) ==
  LET j == workers[w].job
  IN /\ At(w, {"email", "bare"}, "start")
     /\ \/ /\ jobs[j].kind = "email"
           /\ mails' = [mails EXCEPT ![j] = @ + 1]
           /\ \/ Goto(w, "ok") /\ Heard
              \/ Goto(w, "failed") /\ Unheard(j)
        \/ Goto(w, "failed") /\ Heard /\ UNCHANGED mails
     /\ UNCHANGED <<jobs, batches>>

(* A RUNNING row is inserted, and the active users are read. *)
CreateBatch(w) ==
  LET j == workers[w].job
  IN /\ At(w, {"batch"}, "start")
     /\ \/ /\ batches' = [batches EXCEPT ![j].running = @ + 1]
           /\ Goto(w, "made") \/ Goto(w, "failed")
        \/ Goto(w, "failed") /\ UNCHANGED batches
     /\ Heard
     /\ UNCHANGED <<jobs, mails>>

(* What a batch would do if its row were completed before the users were read. *)
CompleteBatchEarly(w) ==
  LET j == workers[w].job
  IN /\ At(w, {"batch"}, "made")
     /\ batches' = [batches EXCEPT ![j] = [running |-> @.running - 1,
                                            completed |-> @.completed + 1]]
     /\ Goto(w, "ok") \/ Goto(w, "failed")
     /\ Heard
     /\ UNCHANGED <<jobs, mails>>

CompleteBatch(w) ==
  LET j == workers[w].job
  IN /\ At(w, {"batch"}, "made")
     /\ \/ /\ batches' = [batches EXCEPT ![j] = [running |-> @.running - 1,
                                                  completed |-> @.completed + 1]]
           /\ \/ Goto(w, "ok") /\ Heard
              \/ Goto(w, "failed") /\ Unheard(j)
        \/ Goto(w, "failed") /\ Heard /\ UNCHANGED batches
     /\ UNCHANGED <<jobs, mails>>

(* processRealTimeUpdate and processModelTraining only report progress. *)
ProcessWithoutEffect(w) ==
  /\ At(w, {"update", "training"}, "start")
  /\ Goto(w, "ok") \/ Goto(w, "failed")
  /\ UNCHANGED <<jobs, batches, mails, unheard, faults>>

(* The tables are cleaned one after the other: activities, of which nothing
   is kept here, then the history, then recommendations, of which there are none. *)
CleanActivities(w) ==
  /\ At(w, {"cleanup"}, "start")
  /\ Goto(w, "history") \/ Goto(w, "failed")
  /\ UNCHANGED <<jobs, batches, mails, unheard, faults>>

CleanHistory(w) ==
  /\ At(w, {"cleanup"}, "history")
  /\ DeleteOldEntries
  /\ Goto(w, "ok") \/ Goto(w, "failed")
  /\ UNCHANGED <<jobs, batches, mails, unheard, faults>>

CleanHistoryFails(w) ==
  /\ At(w, {"cleanup"}, "history")
  /\ Goto(w, "failed")
  /\ UNCHANGED <<jobs, batches, mails, unheard, faults>>

-----------------------------------------------------------------------------

Produce(j) ==
  \/ SendNotification(j)
  \/ GenerateHotRecommendations(j)
  \/ GenerateDailyRecommendations(j)
  \/ RetrainModels(j)
  \/ IntelligentDataCleanup(j)

Handle(w) ==
  \/ ProcessEmailJob(w)
  \/ CreateBatch(w)
  \/ CompleteBatch(w)
  \/ ProcessWithoutEffect(w)
  \/ CleanActivities(w)
  \/ CleanHistoryFails(w)
  \/ Finish(w)

Init == ActivityInit /\ JobsInit

Next ==
  \/ ActivityNext /\ UNCHANGED jobVars
  \/ /\ UNCHANGED activityVars
     /\ \/ \E j \in JobIds : Produce(j) \/ LoseLock(j) \/ Stall(j)
        \/ \E w \in Workers : Handle(w) \/ Crash(w)
        \/ \E w \in Workers, j \in JobIds : Take(w, j)
  \/ \E w \in Workers : CleanHistory(w)

(* Every process polls its queues and looks for stalled jobs, and a handler
   that is not interrupted goes on. *)
Fairness ==
  /\ \A j \in JobIds : WF_vars(Stall(j) /\ UNCHANGED activityVars)
  /\ \A j \in JobIds : WF_vars(\E w \in Workers : Take(w, j) /\ UNCHANGED activityVars)
  /\ \A w \in Workers : WF_vars((Handle(w) /\ UNCHANGED activityVars) \/ CleanHistory(w))

Spec == Init /\ [][Next]_vars /\ Fairness

-----------------------------------------------------------------------------

Is(j, kinds) == jobs[j] # None /\ jobs[j].kind \in kinds

(* At most one run of a job ends with a success that is reported. *)
Reported(j) == IF jobs[j].state \in {"active", "completed"} THEN 1 ELSE 0

(* A mail reported as sent was sent, and one was sent more often than that, or
   without being reported, only if an answer of the mail server was lost or
   a worker lost the job: the retries of queueEmail and the error that
   processEmailJob throws on (email.consumer.ts:36). *)
MailsAsReported ==
  \A j \in JobIds : Is(j, {"email", "bare"}) =>
    /\ jobs[j].state = "completed" => mails[j] >= 1
    /\ mails[j] <= unheard[j] + jobs[j].stalls + Reported(j)

(* The rows of recommendation_batches tell what became of the job that
   wrote them: a completed job completed a row, more rows are completed only by
   lost answers and lost jobs, and each row that stays RUNNING without a worker
   is of an attempt that failed or was cut off. *)
BatchesAsReported ==
  \A j \in JobIds : Is(j, {"batch"}) =>
    LET inHand == Cardinality({w \in Workers : workers[w] = [job |-> j, stage |-> "made"]})
        failing == Cardinality({w \in Workers : workers[w] = [job |-> j, stage |-> "failed"]})
        cutOff == IF jobs[j].state = "active" /\ jobs[j].holder = None THEN 1 ELSE 0
    IN /\ jobs[j].state = "completed" => batches[j].completed >= 1
       /\ batches[j].completed <= unheard[j] + jobs[j].stalls + Reported(j)
       /\ batches[j].running <= inHand + failing + cutOff + jobs[j].tries + jobs[j].stalls

(* Every job that is queued is completed or failed in the end: attempts are
   bounded, and a job whose worker stopped is put back or given up. *)
JobsSettle ==
  \A j \in JobIds : (jobs[j] # None) ~> (jobs[j] # None /\ jobs[j].state \in {"completed", "failed"})
=============================================================================
