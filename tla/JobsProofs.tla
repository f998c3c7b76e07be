----------------------------- MODULE JobsProofs -----------------------------
(***************************************************************************)
(* What a job of the queues says of its mail and of its rows, and what     *)
(* becomes of every view of a product, for any number of jobs, workers,    *)
(* faults, visitors and requests.                                          *)
(*                                                                         *)
(* Mails and rows (IInv, RowsInv): every effect whose answer was heard,    *)
(* and every run that may still hear of one or has failed without being    *)
(* taken off its job, was paid for by the run that Bull counts as active   *)
(* or completed or by a job found stalled.                                 *)
(* Views (ViewsInv): besides the sums, the requests that are bound to miss *)
(* the view they are about to write, and how many there can be.            *)
(***************************************************************************)
EXTENDS Jobs, Sums, FiniteSetTheorems, TLAPS

Reporting == {"email", "bare", "batch"}

(* The effects of a job: mails sent, rows completed.                       *)
done == [j \in JobIds |-> mails[j] + batches[j].completed]

(* A run of j that may still have an effect, or that failed and is not     *)
(* moved.                                                                  *)
Runs(x, j) == x.job = j /\ x.stage \in {"start", "made", "failed"}
Running(j) == {w \in Workers : Runs(workers[w], j)}

Tables ==
  /\ jobs \in [JobIds -> Job \cup {None}]
  /\ workers \in [Workers -> Worker]
  /\ done \in [JobIds -> Nat]
  /\ mails \in [JobIds -> Nat]
  /\ batches \in [JobIds -> [running : Int, completed : Nat]]
  /\ unheard \in [JobIds -> Nat]

Busy == \A w \in Workers : IF workers[w].stage = "idle" THEN workers[w] = Free
                           ELSE workers[w].job \in JobIds /\ jobs[workers[w].job] # None

(* Bull holds a lock only on what it counts as active, and gives a job up  *)
(* when it is found stalled a second time.                                 *)
Sound(row) ==
  /\ row.holder # None => row.state = "active"
  /\ row.stalls = 2 => row.state = "failed"

Held(j) == jobs[j] # None => Sound(jobs[j])

Paid(j) ==
  /\ jobs[j] = None => done[j] = 0
  /\ Is(j, Reporting) =>
       /\ done[j] + Cardinality(Running(j)) <= unheard[j] + jobs[j].stalls + Reported(j)
       /\ jobs[j].state = "completed" => done[j] >= 1
       /\ \A w \in Workers : workers[w].job = j /\ workers[w].stage = "ok" => done[j] >= 1

IInv ==
  /\ Tables /\ Busy
  /\ \A j \in JobIds : Held(j) /\ Paid(j)

-----------------------------------------------------------------------------
LEMMA Constants ==
  /\ IsFiniteSet(Workers) /\ None \notin Workers /\ None \notin Job
  BY JobsAssumption, RowsAssumption DEF JobsAssumption, RowsAssumption

LEMMA RunningFinite ==
  ASSUME NEW j PROVE IsFiniteSet(Running(j)) /\ Cardinality(Running(j)) \in Nat
  <1>1. Running(j) \in SUBSET Workers
    BY DEF Running
  <1>2. QED
    BY <1>1, Constants, FS_Subset, FS_CardinalityType

(* One worker changes: the runs of a job become one more, one less, or     *)
(* stay as many.                                                           *)
LEMMA RunningChanges ==
  ASSUME Tables, NEW w \in Workers, NEW x \in Worker, workers' = [workers EXCEPT ![w] = x], NEW j
  PROVE  /\ Cardinality(Running(j)) \in Nat /\ Cardinality(Running(j))' \in Nat
         /\ Cardinality(Running(j))' = Cardinality(Running(j))
              + (IF Runs(x, j) THEN 1 ELSE 0) - (IF Runs(workers[w], j) THEN 1 ELSE 0)
  <1>1. IsFiniteSet(Running(j)) /\ Cardinality(Running(j)) \in Nat
    BY RunningFinite
  <1>2. w \in Running(j) <=> Runs(workers[w], j)
    BY DEF Running
  <1>3. Running(j)' = IF Runs(x, j) THEN Running(j) \cup {w} ELSE Running(j) \ {w}
    BY DEF Tables, Running, Runs
  <1>4. CASE Runs(x, j)
    <2>1. Running(j)' = Running(j) \cup {w}
      BY <1>3, <1>4
    <2>2. Cardinality(Running(j) \cup {w})
            = IF w \in Running(j) THEN Cardinality(Running(j)) ELSE Cardinality(Running(j)) + 1
      BY <1>1, FS_AddElement
    <2>3. QED
      BY <1>1, <1>2, <1>4, <2>1, <2>2
  <1>5. CASE ~ Runs(x, j)
    <2>1. Running(j)' = Running(j) \ {w}
      BY <1>3, <1>5
    <2>2. /\ IsFiniteSet(Running(j) \ {w})
          /\ Cardinality(Running(j) \ {w})
               = IF w \in Running(j) THEN Cardinality(Running(j)) - 1 ELSE Cardinality(Running(j))
      BY <1>1, FS_RemoveElement
    <2>3. Cardinality(Running(j) \ {w}) \in Nat
      BY <2>2, FS_CardinalityType
    <2>4. QED
      BY <1>1, <1>2, <1>5, <2>1, <2>2, <2>3
  <1>6. QED
    BY <1>4, <1>5

THEOREM Initially == Init => IInv
  <1> SUFFICES ASSUME Init PROVE IInv
    OBVIOUS
  <1>1. Tables /\ Busy
    BY DEF Init, JobsInit, Tables, Busy, Worker, Free, done
  <1>2. \A j \in JobIds : Held(j) /\ Paid(j)
    BY DEF Init, JobsInit, Held, Paid, Is, done
  <1>3. QED
    BY <1>1, <1>2 DEF IInv

-----------------------------------------------------------------------------
(* Most steps change one job, what is known of it, and one worker.         *)

Only(f, g, i) == \A j \in JobIds : j # i => g[j] = f[j]

(* Whatever a step does to job i and to a worker that works, or comes to   *)
(* work, for i alone: the other jobs are paid for as they were.            *)
LEMMA Elsewhere ==
  ASSUME IInv, NEW i \in JobIds, NEW w \in Workers, NEW x \in Worker,
         workers' = [workers EXCEPT ![w] = x],
         x.stage # "idle" => x.job = i, workers[w].stage # "idle" => workers[w].job = i,
         Only(jobs, jobs', i), Only(done, done', i), Only(unheard, unheard', i),
         NEW j \in JobIds, j # i
  PROVE  Held(j)' /\ Paid(j)'
  <1>1. Cardinality(Running(j))' = Cardinality(Running(j))
    <2>1. ~ Runs(x, j) /\ ~ Runs(workers[w], j)
      BY DEF Runs
    <2>2. /\ Cardinality(Running(j)) \in Nat
          /\ Cardinality(Running(j))' = Cardinality(Running(j))
               + (IF Runs(x, j) THEN 1 ELSE 0) - (IF Runs(workers[w], j) THEN 1 ELSE 0)
      BY RunningChanges DEF IInv
    <2>3. QED
      BY <2>1, <2>2
  <1>2. jobs'[j] = jobs[j] /\ done'[j] = done[j] /\ unheard'[j] = unheard[j]
    BY DEF Only
  <1>3. \A v \in Workers : workers'[v].job = j /\ workers'[v].stage = "ok"
                           => workers[v].job = j /\ workers[v].stage = "ok"
    BY DEF IInv, Tables
  <1>4. QED
    BY <1>1, <1>2, <1>3 DEF IInv, Held, Paid, Is, Reported

(* The job itself.                                                         *)
LEMMA Here ==
  ASSUME IInv, NEW i \in JobIds, NEW w \in Workers, NEW x \in Worker,
         workers' = [workers EXCEPT ![w] = x],
         NEW row \in Job, jobs'[i] = row,
         Sound(row),
         row.kind \in Reporting =>
           /\ done'[i] + (IF Runs(x, i) THEN 1 ELSE 0) - (IF Runs(workers[w], i) THEN 1 ELSE 0)
                - unheard'[i] - row.stalls - Reported(i)'
              <= done[i] - unheard[i] - jobs[i].stalls - Reported(i)
           /\ Is(i, Reporting)
           /\ row.state = "completed" => done'[i] >= 1
           /\ x.job = i /\ x.stage = "ok" => done'[i] >= 1
           /\ done[i] <= done'[i],
         done'[i] \in Nat, unheard'[i] \in Nat
  PROVE  Held(i)' /\ Paid(i)'
  <1>1. row # None
    BY Constants
  <1>2. Held(i)'
    BY <1>1 DEF Held
  <1>3. CASE row.kind \notin Reporting
    <2>1. jobs'[i] # None /\ ~ (jobs'[i] # None /\ jobs'[i].kind \in Reporting)
      BY <1>1, <1>3
    <2>2. QED
      BY <1>2, <2>1 DEF Paid, Is, Reporting
  <1>4. CASE row.kind \in Reporting
    <2> DEFINE n == Cardinality(Running(i))
               a == IF Runs(x, i) THEN 1 ELSE 0
               b == IF Runs(workers[w], i) THEN 1 ELSE 0
    <2>1. /\ n \in Nat /\ Cardinality(Running(i))' \in Nat
          /\ Cardinality(Running(i))' = n + a - b
      BY RunningChanges DEF IInv
    <2>2. a \in Int /\ b \in Int
      OBVIOUS
    <2>3. done[i] + n <= unheard[i] + jobs[i].stalls + Reported(i)
      BY <1>4 DEF IInv, Paid
    <2>4. /\ done[i] \in Nat /\ unheard[i] \in Nat /\ jobs[i].stalls \in Int /\ row.stalls \in Int
          /\ Reported(i) \in Int /\ Reported(i)' \in Int
      BY <1>4, Constants DEF IInv, Tables, Job, Is, Reported
    <2>5. done'[i] + a - b - unheard'[i] - row.stalls - Reported(i)'
            <= done[i] - unheard[i] - jobs[i].stalls - Reported(i)
      BY <1>4
    <2>6. \A v \in Workers : workers'[v].job = i /\ workers'[v].stage = "ok" => done'[i] >= 1
      <3>1. \A v \in Workers : workers[v].job = i /\ workers[v].stage = "ok" => done[i] >= 1
        BY <1>4 DEF IInv, Paid
      <3>2. QED
        BY <1>4, <2>4, <3>1 DEF IInv, Tables
    <2> HIDE DEF n, a, b
    <2>7. done'[i] + Cardinality(Running(i))' <= unheard'[i] + row.stalls + Reported(i)'
      BY <2>1, <2>2, <2>3, <2>4, <2>5
    <2>8. QED
      BY <1>1, <1>2, <1>4, <2>6, <2>7 DEF Paid, Is, Reporting
  <1>5. QED
    BY <1>3, <1>4

(* What such a step leaves alone, and what it writes.                      *)
Frame(i, w) ==
  /\ Tables'
  /\ \A v \in Workers : v # w => workers'[v] = workers[v]
  /\ workers[w].stage # "idle" => workers[w].job = i
  /\ IF workers'[w].stage = "idle" THEN workers'[w] = Free ELSE workers'[w].job = i
  /\ Only(jobs, jobs', i) /\ Only(done, done', i) /\ Only(unheard, unheard', i)
  /\ jobs'[i] # None /\ Sound(jobs'[i])

(* How the account of a mail job may move.                                 *)
Law(i, w) ==
  jobs'[i].kind \in Reporting =>
    /\ Is(i, Reporting)
    /\ done'[i] + (IF Runs(workers'[w], i) THEN 1 ELSE 0) - (IF Runs(workers[w], i) THEN 1 ELSE 0)
         - unheard'[i] - jobs'[i].stalls - Reported(i)'
       <= done[i] - unheard[i] - jobs[i].stalls - Reported(i)
    /\ jobs'[i].state = "completed" => done'[i] >= 1
    /\ workers'[w].job = i /\ workers'[w].stage = "ok" => done'[i] >= 1
    /\ done[i] <= done'[i]

LEMMA OneJob ==
  ASSUME IInv, NEW i \in JobIds, NEW w \in Workers, Frame(i, w), Law(i, w)
  PROVE  IInv'
  <1>a. Tables /\ Tables'
    BY DEF IInv, Frame
  <1>b. /\ workers'[w] \in Worker /\ jobs'[i] \in Job
        /\ done'[i] \in Nat /\ unheard'[i] \in Nat
    BY <1>a DEF Tables, Frame
  <1>x. PICK x \in Worker : x = workers'[w]
    BY <1>b
  <1>r. PICK row \in Job : row = jobs'[i]
    BY <1>b
  <1>c. workers' = [workers EXCEPT ![w] = x]
    BY <1>a, <1>x DEF Tables, Frame
  <1>d. /\ IF x.stage = "idle" THEN x = Free ELSE x.job = i
        /\ x.stage # "idle" => x.job = i
        /\ workers[w].stage # "idle" => workers[w].job = i
        /\ Sound(row) /\ jobs'[i] = row
    BY <1>x, <1>r DEF Frame
  <1>e. row.kind \in Reporting =>
          /\ done'[i] + (IF Runs(x, i) THEN 1 ELSE 0) - (IF Runs(workers[w], i) THEN 1 ELSE 0)
               - unheard'[i] - row.stalls - Reported(i)'
             <= done[i] - unheard[i] - jobs[i].stalls - Reported(i)
          /\ Is(i, Reporting)
          /\ row.state = "completed" => done'[i] >= 1
          /\ x.job = i /\ x.stage = "ok" => done'[i] >= 1
          /\ done[i] <= done'[i]
    BY <1>x, <1>r DEF Law
  <1>1. jobs'[i] # None /\ \A j \in JobIds : j # i => jobs'[j] = jobs[j]
    BY DEF Frame, Only
  <1>2. Only(jobs, jobs', i) /\ Only(done, done', i) /\ Only(unheard, unheard', i)
    BY DEF Frame
  <1>3. Tables'
    BY <1>a
  <1>4. Busy'
    <2> SUFFICES ASSUME NEW v \in Workers
                 PROVE  IF workers'[v].stage = "idle" THEN workers'[v] = Free
                        ELSE workers'[v].job \in JobIds /\ jobs'[workers'[v].job] # None
      BY DEF Busy
    <2>1. CASE v = w
      BY <1>1, <1>d, <1>x, <2>1
    <2>2. CASE v # w
      <3>1. workers'[v] = workers[v]
        BY <2>2 DEF Frame
      <3>2. QED
        BY <1>1, <3>1 DEF IInv, Busy
    <2>3. QED
      BY <2>1, <2>2
  <1>5. Held(i)' /\ Paid(i)'
    BY <1>b, <1>c, <1>d, <1>e, Here
  <1>6. \A j \in JobIds : j # i => Held(j)' /\ Paid(j)'
    BY <1>2, <1>c, <1>d, Elsewhere
  <1>7. QED
    BY <1>3, <1>4, <1>5, <1>6 DEF IInv

(* A job that is queued, or that Bull moves while its worker goes on.      *)
LEMMA Still ==
  ASSUME IInv, NEW i \in JobIds, UNCHANGED <<workers, mails, batches, done, unheard>>,
         NEW row \in Job, jobs' = [jobs EXCEPT ![i] = row], Sound(row),
         \/ jobs[i] = None /\ row.state # "completed"
         \/ /\ jobs[i] # None /\ row.kind = jobs[i].kind /\ row.state # "completed"
            /\ jobs[i].stalls + Reported(i) <= row.stalls + Reported(i)'
  PROVE  IInv'
  <1>1. jobs'[i] = row /\ row # None /\ row.stalls \in Nat
    BY Constants DEF IInv, Tables, Job
  <1>2. \A j \in JobIds : j # i => jobs'[j] = jobs[j]
    BY DEF IInv, Tables
  <1>3. Tables'
    BY DEF IInv, Tables
  <1>4. Busy'
    BY <1>1, <1>2 DEF IInv, Busy
  <1>5. \A j : Running(j)' = Running(j)
    BY DEF Running, Runs
  <1>6. Held(i)' /\ Paid(i)'
    <2>1. Reported(i) \in {0, 1} /\ Reported(i)' \in {0, 1}
      BY DEF Reported
    <2>2. Held(i)'
      BY <1>1 DEF Held
    <2>3. done[i] \in Nat /\ unheard[i] \in Nat /\ Cardinality(Running(i)) \in Nat
      BY RunningFinite DEF IInv, Tables
    <2>4. CASE jobs[i] = None
      <3>1. \A w \in Workers : workers[w].stage # "idle" => workers[w].job # i
        BY <2>4 DEF IInv, Busy
      <3>2. Running(i) = {}
        BY <3>1 DEF Running, Runs
      <3>3. Cardinality(Running(i)) = 0
        BY <3>2, FS_EmptySet
      <3>4. done[i] = 0
        BY <2>4 DEF IInv, Paid
      <3>5. done[i] + Cardinality(Running(i))' <= unheard[i] + row.stalls + Reported(i)'
        BY <1>1, <1>5, <2>1, <2>3, <3>3, <3>4
      <3>6. row.state # "completed"
        BY <2>4
      <3>7. QED
        BY <1>1, <2>2, <3>1, <3>5, <3>6 DEF Paid
    <2>5. CASE jobs[i] # None /\ row.kind \in Reporting
      <3>1. /\ row.kind = jobs[i].kind /\ row.state # "completed"
            /\ jobs[i].stalls + Reported(i) <= row.stalls + Reported(i)'
        BY <2>5
      <3>2. Is(i, Reporting)
        BY <2>5, <3>1 DEF Is
      <3>3. /\ done[i] + Cardinality(Running(i)) <= unheard[i] + jobs[i].stalls + Reported(i)
            /\ \A w \in Workers : workers[w].job = i /\ workers[w].stage = "ok" => done[i] >= 1
        BY <3>2 DEF IInv, Paid
      <3>4. jobs[i].stalls \in Nat
        BY <2>5 DEF IInv, Tables, Job
      <3>5. done[i] + Cardinality(Running(i))' <= unheard[i] + row.stalls + Reported(i)'
        BY <1>1, <1>5, <2>1, <2>3, <3>1, <3>3, <3>4
      <3>6. QED
        BY <1>1, <2>2, <3>1, <3>3, <3>5 DEF Paid
    <2>6. CASE jobs[i] # None /\ row.kind \notin Reporting
      BY <1>1, <2>2, <2>6 DEF Paid, Is, Reporting
    <2>7. QED
      BY <2>4, <2>5, <2>6
  <1>7. \A j \in JobIds : j # i => Held(j)' /\ Paid(j)'
    BY <1>2, <1>5 DEF IInv, Held, Paid, Is, Reported
  <1>8. QED
    BY <1>3, <1>4, <1>6, <1>7 DEF IInv

(* A step that touches none of this.                                       *)
LEMMA Aside ==
  ASSUME IInv, UNCHANGED <<jobs, workers, mails, batches, done, unheard>> PROVE IInv'
  BY DEF IInv, Tables, Busy, Held, Paid, Is, Reported, Running

-----------------------------------------------------------------------------
(* The steps of Bull.                                                      *)

LEMMA AddStep ==
  ASSUME IInv, NEW j \in JobIds, NEW kind \in Kinds, Add(j, kind) PROVE IInv'
  <1> DEFINE row == [kind |-> kind, state |-> "waiting", tries |-> 0, stalls |-> 0, holder |-> None]
  <1>1. row \in Job /\ Sound(row) /\ row.state # "completed"
    BY DEF Job, Sound
  <1>2. /\ UNCHANGED <<workers, mails, batches, done, unheard>> /\ jobs[j] = None
        /\ jobs' = [jobs EXCEPT ![j] = row]
    BY DEF Add, done
  <1> HIDE DEF row
  <1>3. QED
    BY <1>1, <1>2, Still

LEMMA ProduceStep ==
  ASSUME IInv, NEW j \in JobIds, Produce(j) PROVE IInv'
  BY AddStep DEF Produce, SendNotification, GenerateHotRecommendations, GenerateDailyRecommendations,
                 RetrainModels, IntelligentDataCleanup, Kinds

LEMMA TakeStep ==
  ASSUME IInv, NEW w \in Workers, NEW j \in JobIds, Take(w, j) PROVE IInv'
  <1> DEFINE row == [jobs[j] EXCEPT !.state = "active", !.holder = w]
             x == [job |-> j, stage |-> "start"]
  <1>1. /\ jobs[j] \in Job /\ jobs[j].state = "waiting" /\ workers[w].stage = "idle"
        /\ Sound(jobs[j])
    BY DEF IInv, Tables, Held, Take, Free
  <1>2. /\ row \in Job /\ row.state = "active" /\ row.holder = w
        /\ row.stalls = jobs[j].stalls /\ row.kind = jobs[j].kind
    BY <1>1 DEF Job
  <1>3. x \in Worker /\ x.job = j /\ x.stage = "start"
    BY DEF Worker
  <1>4. /\ workers' = [workers EXCEPT ![w] = x] /\ jobs' = [jobs EXCEPT ![j] = row]
        /\ UNCHANGED <<mails, batches, done, unheard>> /\ jobs[j] # None
    BY DEF Take, done
  <1> HIDE DEF row, x
  <1>5. jobs'[j] = row /\ workers'[w] = x /\ row # None /\ Sound(row)
    BY <1>1, <1>2, <1>4, Constants DEF IInv, Tables, Sound
  <1>6. Frame(j, w)
    BY <1>1, <1>2, <1>3, <1>4, <1>5 DEF Frame, Only, IInv, Tables
  <1>7. Reported(j) = 0 /\ Reported(j)' = 1 /\ row.stalls \in Nat
    BY <1>1, <1>2, <1>5 DEF Reported, Job
  <1>8. Runs(x, j) /\ ~ Runs(workers[w], j)
    BY <1>1, <1>3 DEF Runs
  <1>9. done'[j] = done[j] /\ unheard'[j] = unheard[j] /\ done[j] \in Nat /\ unheard[j] \in Nat
    BY <1>4 DEF IInv, Tables
  <1>10. Law(j, w)
    BY <1>2, <1>3, <1>4, <1>5, <1>7, <1>8, <1>9 DEF Law, Is
  <1>11. QED
    BY <1>6, <1>10, OneJob

(* The job of a worker that works.                                         *)
LEMMA Works ==
  ASSUME IInv, NEW w \in Workers, workers[w].stage # "idle"
  PROVE  /\ workers[w] \in Worker /\ workers[w].job \in JobIds
         /\ jobs[workers[w].job] \in Job /\ jobs[workers[w].job] # None
         /\ Sound(jobs[workers[w].job])
  BY DEF IInv, Tables, Busy, Held

(* A worker is free again, and its job has become row.                     *)
Freed(j, w, row) ==
  /\ j = workers[w].job
  /\ workers' = [workers EXCEPT ![w] = Free]
  /\ UNCHANGED <<mails, batches, done, unheard>>
  /\ row \in Job /\ jobs' = [jobs EXCEPT ![j] = row] /\ Sound(row)
  /\ row.kind = jobs[j].kind /\ row.stalls = jobs[j].stalls
  /\ Reported(j) = Reported(j)' \/ workers[w].stage = "failed"
  /\ row.state = "completed" => jobs[j].state = "completed" \/ workers[w].stage = "ok"

LEMMA FreeStep ==
  ASSUME IInv, NEW w \in Workers, workers[w].stage # "idle", NEW j \in JobIds, NEW row,
         Freed(j, w, row)
  PROVE  IInv'
  <1>1. /\ jobs[j] \in Job /\ jobs[j] # None /\ row # None /\ jobs[j].stalls \in Nat
        /\ row.stalls = jobs[j].stalls /\ row.kind = jobs[j].kind
    BY Works, Constants DEF Freed, Job
  <1>2. Free \in Worker /\ Free.stage = "idle" /\ ~ Runs(Free, j)
    BY DEF Free, Worker, Runs
  <1>3. jobs'[j] = row /\ workers'[w] = Free
    BY DEF IInv, Tables, Freed
  <1>4. Frame(j, w)
    BY <1>1, <1>2, <1>3 DEF Frame, Only, IInv, Tables, Freed
  <1>5. Reported(j) \in {0, 1} /\ Reported(j)' \in {0, 1}
    BY DEF Reported
  <1>6. Reported(j) = Reported(j)' \/ Runs(workers[w], j)
    BY DEF Freed, Runs
  <1>7. done'[j] = done[j] /\ unheard'[j] = unheard[j] /\ done[j] \in Nat /\ unheard[j] \in Nat
    BY DEF IInv, Tables, Freed
  <1>8. done'[j] + (IF Runs(workers'[w], j) THEN 1 ELSE 0) - (IF Runs(workers[w], j) THEN 1 ELSE 0)
          - unheard'[j] - jobs'[j].stalls - Reported(j)'
          <= done[j] - unheard[j] - jobs[j].stalls - Reported(j)
    BY <1>1, <1>2, <1>3, <1>5, <1>6, <1>7
  <1>9. jobs'[j].kind \in Reporting => Is(j, Reporting)
    BY <1>1, <1>3 DEF Is
  <1>10. row.kind \in Reporting /\ row.state = "completed" => done[j] >= 1
    BY <1>1, <1>3, <1>9 DEF IInv, Paid, Freed
  <1>11. Law(j, w)
    BY <1>2, <1>3, <1>7, <1>8, <1>9, <1>10 DEF Law
  <1>12. QED
    BY <1>4, <1>11, OneJob

LEMMA FinishStep ==
  ASSUME IInv, NEW w \in Workers, Finish(w) PROVE IInv'
  <1>0. workers[w].stage \in {"ok", "failed"} /\ workers[w].job \in JobIds
    BY Works DEF Finish
  <1>1. PICK j \in JobIds : j = workers[w].job
    BY <1>0
  <1> DEFINE row == Moved(j, w)
  <1>2. /\ jobs' = [jobs EXCEPT ![j] = row] /\ workers' = [workers EXCEPT ![w] = Free]
        /\ UNCHANGED <<mails, batches, done, unheard>>
    BY <1>1 DEF Finish, done
  <1>3. jobs[j] \in Job /\ jobs[j] # None /\ Sound(jobs[j])
    BY <1>0, <1>1, Works
  <1>4. CASE jobs[j].holder # w
    <2>1. row = jobs[j]
      BY <1>4 DEF Moved
    <2> HIDE DEF row
    <2>2. Reported(j)' = Reported(j)
      BY <1>2, <2>1 DEF IInv, Tables, Reported
    <2>3. Freed(j, w, row)
      BY <1>1, <1>2, <1>3, <2>1, <2>2 DEF Freed
    <2>4. QED
      BY <1>0, <2>3, FreeStep
  <1>5. CASE jobs[j].holder = w
    <2>1. jobs[j].state = "active" /\ jobs[j].stalls # 2
      BY <1>3, <1>5, Constants DEF Sound
    <2>2. CASE workers[w].stage = "ok"
      <3>1. row = [jobs[j] EXCEPT !.state = "completed", !.holder = None]
        BY <1>1, <1>5, <2>2 DEF Moved
      <3>2. /\ row \in Job /\ row.state = "completed" /\ row.holder = None
            /\ row.kind = jobs[j].kind /\ row.stalls = jobs[j].stalls
        BY <1>3, <3>1 DEF Job
      <3> HIDE DEF row
      <3>3. Sound(row)
        BY <2>1, <3>2 DEF Sound
      <3>4. Reported(j) = 1 /\ Reported(j)' = 1
        BY <1>2, <2>1, <3>2 DEF IInv, Tables, Reported
      <3>5. Freed(j, w, row)
        BY <1>1, <1>2, <2>2, <3>2, <3>3, <3>4 DEF Freed
      <3>6. QED
        BY <1>0, <3>5, FreeStep
    <2>3. CASE workers[w].stage # "ok"
      <3> DEFINE st == IF jobs[j].tries + 1 < Attempts[jobs[j].kind] THEN "waiting" ELSE "failed"
                 n == jobs[j].tries + 1
      <3>1. row = [jobs[j] EXCEPT !.tries = n, !.holder = None, !.state = st]
        BY <1>1, <1>5, <2>3 DEF Moved
      <3>2. st \in {"waiting", "failed"} /\ n \in Nat
        BY <1>3 DEF Job
      <3> HIDE DEF st, n
      <3>3. /\ row \in Job /\ row.state = st /\ row.holder = None
            /\ row.kind = jobs[j].kind /\ row.stalls = jobs[j].stalls
        BY <1>3, <3>1, <3>2 DEF Job
      <3> HIDE DEF row
      <3>4. Sound(row)
        BY <2>1, <3>3 DEF Sound
      <3>5. workers[w].stage = "failed" /\ row.state # "completed"
        BY <1>0, <2>3, <3>2, <3>3
      <3>6. Freed(j, w, row)
        BY <1>1, <1>2, <3>3, <3>4, <3>5 DEF Freed
      <3>7. QED
        BY <1>0, <3>6, FreeStep
    <2>4. QED
      BY <2>2, <2>3
  <1>6. QED
    BY <1>4, <1>5

(* Bull does not take the job off the queue when a process stops.          *)
LEMMA CrashStep ==
  ASSUME IInv, NEW w \in Workers, Crash(w) PROVE IInv'
  <1>0. workers[w].stage # "idle" /\ workers[w].job \in JobIds
    BY Works DEF Crash, IInv, Busy
  <1>1. PICK j \in JobIds : j = workers[w].job
    BY <1>0
  <1> DEFINE h == IF jobs[j].holder = w THEN None ELSE jobs[j].holder
             row == [jobs[j] EXCEPT !.holder = h]
  <1>2. /\ jobs' = [jobs EXCEPT ![j] = row] /\ workers' = [workers EXCEPT ![w] = Free]
        /\ UNCHANGED <<mails, batches, done, unheard>>
    BY <1>1 DEF Crash, done
  <1>3. jobs[j] \in Job /\ jobs[j] # None /\ Sound(jobs[j])
    BY <1>0, <1>1, Works
  <1>4. h \in Workers \cup {None} /\ (h # None => jobs[j].holder # None)
    BY <1>3 DEF Job
  <1> HIDE DEF h
  <1>5. /\ row \in Job /\ row.state = jobs[j].state /\ row.holder = h
        /\ row.kind = jobs[j].kind /\ row.stalls = jobs[j].stalls
    BY <1>3, <1>4 DEF Job
  <1> HIDE DEF row
  <1>6. Sound(row)
    BY <1>3, <1>4, <1>5 DEF Sound
  <1>7. Reported(j)' = Reported(j)
    BY <1>2, <1>5 DEF IInv, Tables, Reported
  <1>8. Freed(j, w, row)
    BY <1>1, <1>2, <1>5, <1>6, <1>7 DEF Freed
  <1>9. QED
    BY <1>0, <1>8, FreeStep

LEMMA LoseLockStep ==
  ASSUME IInv, NEW j \in JobIds, LoseLock(j) PROVE IInv'
  <1> DEFINE row == [jobs[j] EXCEPT !.holder = None]
  <1>1. /\ jobs[j] # None /\ jobs[j].state = "active" /\ UNCHANGED <<workers, mails, batches, done, unheard>>
        /\ jobs' = [jobs EXCEPT ![j] = row]
    BY DEF LoseLock, done
  <1>2. jobs[j] \in Job /\ Sound(jobs[j])
    BY <1>1 DEF IInv, Tables, Held
  <1>3. /\ row \in Job /\ row.state = "active" /\ row.holder = None
        /\ row.kind = jobs[j].kind /\ row.stalls = jobs[j].stalls /\ row.stalls \in Nat
    BY <1>1, <1>2 DEF Job
  <1> HIDE DEF row
  <1>4. Sound(row)
    BY <1>1, <1>2, <1>3 DEF Sound
  <1>5. Reported(j)' = Reported(j) /\ Reported(j) \in {0, 1}
    BY <1>1, <1>3 DEF IInv, Tables, Reported
  <1>6. row.state # "completed" /\ jobs[j].stalls + Reported(j) <= row.stalls + Reported(j)'
    BY <1>3, <1>5
  <1>7. QED
    BY <1>1, <1>3, <1>4, <1>6, Still

LEMMA StallStep ==
  ASSUME IInv, NEW j \in JobIds, Stall(j) PROVE IInv'
  <1> DEFINE st == IF jobs[j].stalls = 0 THEN "waiting" ELSE "failed"
             n == jobs[j].stalls + 1
             row == [jobs[j] EXCEPT !.stalls = n, !.state = st]
  <1>1. /\ jobs[j] # None /\ jobs[j].state = "active" /\ jobs[j].holder = None
        /\ UNCHANGED <<workers, mails, batches, done, unheard>> /\ jobs' = [jobs EXCEPT ![j] = row]
    BY DEF Stall, done
  <1>2. jobs[j] \in Job /\ Sound(jobs[j])
    BY <1>1 DEF IInv, Tables, Held
  <1>3. jobs[j].stalls \in {0, 1}
    BY <1>1, <1>2 DEF Job, Sound
  <1>4. /\ st \in {"waiting", "failed"} /\ (jobs[j].stalls = 1 => st = "failed")
        /\ n \in 0 .. 2 /\ n = jobs[j].stalls + 1
    BY <1>3
  <1> HIDE DEF st, n
  <1>5. /\ row \in Job /\ row.state = st /\ row.holder = None
        /\ row.kind = jobs[j].kind /\ row.stalls = n
    BY <1>1, <1>2, <1>4 DEF Job
  <1> HIDE DEF row
  <1>6. Sound(row)
    BY <1>1, <1>3, <1>4, <1>5, Constants DEF Sound
  <1>7. Reported(j) = 1 /\ Reported(j)' \in {0, 1}
    BY <1>1 DEF Reported
  <1>8. row.state # "completed" /\ jobs[j].stalls + Reported(j) <= row.stalls + Reported(j)'
    BY <1>3, <1>4, <1>5, <1>7
  <1>9. QED
    BY <1>1, <1>5, <1>6, <1>8, Still

-----------------------------------------------------------------------------
(* The handlers.                                                           *)

Counts(m) == m \in [JobIds -> Nat]

(* Worker w goes on to stage st; if its job is a mail or a batch, it had   *)
(* its effect and heard of it, or the run goes on, or it has failed.       *)
Handled(j, w, st) ==
  /\ j = workers[w].job
  /\ st \in {"made", "history", "ok", "failed"}
  /\ Goto(w, st)
  /\ UNCHANGED jobs
  /\ Counts(mails') /\ Counts(done') /\ Counts(unheard')
  /\ batches' \in [JobIds -> [running : Int, completed : Nat]]
  /\ Only(done, done', j) /\ Only(unheard, unheard', j)
  /\ jobs[j].kind \in Reporting =>
       /\ workers[w].stage \in {"start", "made"}
       /\ \/ st = "ok" /\ done'[j] = done[j] + 1 /\ unheard'[j] = unheard[j]
          \/ st = "failed" /\ done'[j] = done[j] + 1 /\ unheard'[j] = unheard[j] + 1
          \/ st \in {"failed", "made"} /\ done'[j] = done[j] /\ unheard'[j] = unheard[j]

LEMMA HandledStep ==
  ASSUME IInv, NEW w \in Workers, workers[w].stage # "idle", NEW j \in JobIds, NEW st,
         Handled(j, w, st)
  PROVE  IInv'
  <1> DEFINE x == [workers[w] EXCEPT !.stage = st]
  <1>1. /\ workers[w] \in Worker /\ jobs[j] \in Job /\ jobs[j] # None /\ Sound(jobs[j])
        /\ workers[w].job = j /\ st \in {"made", "history", "ok", "failed"}
    BY Works DEF Handled
  <1>2. workers' = [workers EXCEPT ![w] = x]
    BY DEF Handled, Goto
  <1>3. x \in Worker /\ x.job = j /\ x.stage = st
    BY <1>1 DEF Worker
  <1> HIDE DEF x
  <1>4. workers'[w] = x
    BY <1>2 DEF IInv, Tables
  <1>5. Frame(j, w)
    BY <1>1, <1>2, <1>3, <1>4 DEF Frame, Only, IInv, Tables, Handled, Counts
  <1>6. Reported(j)' = Reported(j) /\ Reported(j) \in {0, 1} /\ jobs[j].stalls \in Nat
    BY <1>1 DEF Handled, Reported, Job
  <1>7. done[j] \in Nat /\ unheard[j] \in Nat /\ done'[j] \in Nat /\ unheard'[j] \in Nat
    BY DEF IInv, Tables, Handled, Counts
  <1>8. ASSUME jobs[j].kind \in Reporting
        PROVE  /\ done'[j] + (IF Runs(x, j) THEN 1 ELSE 0) - (IF Runs(workers[w], j) THEN 1 ELSE 0)
                    - unheard'[j] - jobs[j].stalls - Reported(j)'
                  <= done[j] - unheard[j] - jobs[j].stalls - Reported(j)
               /\ done[j] <= done'[j]
               /\ st = "ok" => done'[j] >= 1
    <2>1. Runs(workers[w], j) /\ (Runs(x, j) <=> st \in {"failed", "made"})
      BY <1>1, <1>3, <1>8 DEF Runs, Handled
    <2>2. \/ st = "ok" /\ done'[j] = done[j] + 1 /\ unheard'[j] = unheard[j]
          \/ st = "failed" /\ done'[j] = done[j] + 1 /\ unheard'[j] = unheard[j] + 1
          \/ st \in {"failed", "made"} /\ done'[j] = done[j] /\ unheard'[j] = unheard[j]
      BY <1>8 DEF Handled
    <2>3. QED
      BY <1>6, <1>7, <2>1, <2>2
  <1>9. ASSUME jobs[j].kind \in Reporting, jobs[j].state = "completed" PROVE done'[j] >= 1
    <2>1. done[j] >= 1
      BY <1>1, <1>9 DEF IInv, Paid, Is
    <2>2. QED
      BY <1>7, <1>8, <1>9, <2>1
  <1>10. jobs' = jobs
    BY DEF Handled
  <1>11. Law(j, w)
    BY <1>1, <1>3, <1>4, <1>8, <1>9, <1>10 DEF Law, Is
  <1>12. QED
    BY <1>5, <1>11, OneJob

LEMMA CountedOnce ==
  ASSUME NEW f, NEW g, NEW j \in JobIds, Counts(f), g = f \/ g = [f EXCEPT ![j] = f[j] + 1]
  PROVE  Counts(g) /\ Only(f, g, j)
  BY DEF Counts, Only

(* Nothing but the effects of one job is written.                          *)
LEMMA DoneOnce ==
  ASSUME IInv, NEW j \in JobIds,
         \/ mails' = [mails EXCEPT ![j] = mails[j] + 1] /\ UNCHANGED batches
         \/ \E r \in Int, n \in {batches[j].completed, batches[j].completed + 1} :
              batches' = [batches EXCEPT ![j] = [running |-> r, completed |-> n]] /\ UNCHANGED mails
         \/ UNCHANGED <<mails, batches>>
  PROVE  /\ Counts(mails') /\ batches' \in [JobIds -> [running : Int, completed : Nat]]
         /\ Counts(done') /\ Only(done, done', j)
         /\ done[j] = mails[j] + batches[j].completed
         /\ done'[j] = mails'[j] + batches'[j].completed
  <1>1. /\ mails \in [JobIds -> Nat] /\ batches \in [JobIds -> [running : Int, completed : Nat]]
        /\ batches[j] \in [running : Int, completed : Nat]
    BY DEF IInv, Tables
  <1>2. CASE mails' = [mails EXCEPT ![j] = mails[j] + 1] /\ UNCHANGED batches
    BY <1>1, <1>2 DEF Counts, Only, done
  <1>3. ASSUME NEW r \in Int, NEW n \in {batches[j].completed, batches[j].completed + 1},
               batches' = [batches EXCEPT ![j] = [running |-> r, completed |-> n]], UNCHANGED mails
        PROVE  /\ Counts(mails') /\ batches' \in [JobIds -> [running : Int, completed : Nat]]
               /\ \A i \in JobIds : i # j => batches'[i] = batches[i]
    <2>1. n \in Nat
      BY <1>1
    <2>2. QED
      BY <1>1, <1>3, <2>1 DEF Counts
  <1>4. ASSUME mails' \in [JobIds -> Nat], batches' \in [JobIds -> [running : Int, completed : Nat]],
               \A i \in JobIds : i # j => batches'[i] = batches[i], UNCHANGED mails
        PROVE  Counts(done') /\ Only(done, done', j)
    BY <1>1, <1>4 DEF Counts, Only, done
  <1>5. /\ done[j] = mails[j] + batches[j].completed
        /\ done'[j] = mails'[j] + batches'[j].completed
    BY DEF done
  <1>6. QED
    BY <1>1, <1>2, <1>3, <1>4, <1>5 DEF Counts

(* A run goes on: what it did and heard of, by the stage it comes to.      *)
LEMMA GoesOn ==
  ASSUME IInv, NEW w \in Workers, workers[w].stage \in {"start", "made"}, NEW st, Goto(w, st),
         NEW j \in JobIds, j = workers[w].job, UNCHANGED jobs,
         Counts(mails'), batches' \in [JobIds -> [running : Int, completed : Nat]],
         Counts(done'), Only(done, done', j),
         \/ st = "ok" /\ done'[j] = done[j] + 1 /\ UNCHANGED unheard
         \/ st = "failed" /\ done'[j] = done[j] + 1 /\ unheard' = [unheard EXCEPT ![j] = unheard[j] + 1]
         \/ st \in {"failed", "made"} /\ done'[j] = done[j] /\ UNCHANGED unheard
  PROVE  IInv'
  <1>1. Counts(unheard') /\ Only(unheard, unheard', j)
    BY CountedOnce DEF IInv, Tables, Counts
  <1>2. unheard' = [unheard EXCEPT ![j] = unheard[j] + 1] => unheard'[j] = unheard[j] + 1
    BY DEF IInv, Tables
  <1>3. Handled(j, w, st)
    BY <1>1, <1>2 DEF Handled
  <1>4. QED
    BY <1>3, HandledStep

(* A mail is sent, or not.                                                 *)
LEMMA ProcessEmailStep ==
  ASSUME IInv, NEW w \in Workers, ProcessEmailJob(w) PROVE IInv'
  <1>0. workers[w].stage = "start" /\ workers[w].job \in JobIds
    BY Works DEF ProcessEmailJob, At
  <1>1. PICK j \in JobIds : j = workers[w].job
    BY <1>0
  <1>2. UNCHANGED <<jobs, batches>>
    BY DEF ProcessEmailJob
  <1>3. CASE mails' = [mails EXCEPT ![j] = mails[j] + 1]
    <2>1. mails'[j] = mails[j] + 1 /\ batches'[j].completed = batches[j].completed
          /\ mails[j] \in Nat /\ batches[j].completed \in Nat
      BY <1>2, <1>3 DEF IInv, Tables
    <2>2. done'[j] = done[j] + 1
      BY <1>2, <1>3, <2>1 DEF done
    <2>3. \/ Goto(w, "ok") /\ UNCHANGED unheard
          \/ Goto(w, "failed") /\ unheard' = [unheard EXCEPT ![j] = unheard[j] + 1]
          \/ Goto(w, "failed") /\ UNCHANGED mails
      BY <1>1 DEF ProcessEmailJob, Heard, Unheard
    <2>4. ~ UNCHANGED mails
      BY <2>1
    <2>5. QED
      BY <1>0, <1>1, <1>2, <1>3, <2>2, <2>3, <2>4, DoneOnce, GoesOn
  <1>4. CASE UNCHANGED <<mails, unheard>> /\ Goto(w, "failed")
    <2>1. done'[j] = done[j]
      BY <1>2, <1>4 DEF done
    <2>2. QED
      BY <1>0, <1>1, <1>2, <1>4, <2>1, DoneOnce, GoesOn
  <1>5. QED
    BY <1>1, <1>3, <1>4 DEF ProcessEmailJob, Heard, Unheard

(* A batch writes its row.                                                 *)
LEMMA CreateBatchStep ==
  ASSUME IInv, NEW w \in Workers, CreateBatch(w) PROVE IInv'
  <1>0. workers[w].stage = "start" /\ workers[w].job \in JobIds
    BY Works DEF CreateBatch, At
  <1>1. PICK j \in JobIds : j = workers[w].job
    BY <1>0
  <1> DEFINE r == batches[j].running + 1
             n == batches[j].completed
  <1>2. r \in Int /\ n \in Nat
    BY DEF IInv, Tables
  <1>3. /\ UNCHANGED <<jobs, mails, unheard>>
        /\ Goto(w, "made") \/ Goto(w, "failed")
        /\ \/ batches' = [batches EXCEPT ![j] = [running |-> r, completed |-> n]]
           \/ UNCHANGED batches
    BY <1>1 DEF CreateBatch, Heard, IInv, Tables
  <1>4. batches'[j].completed = n
    BY <1>2, <1>3 DEF IInv, Tables
  <1>5. /\ Counts(mails') /\ batches' \in [JobIds -> [running : Int, completed : Nat]]
        /\ Counts(done') /\ Only(done, done', j) /\ done'[j] = done[j]
    BY <1>2, <1>3, <1>4, DoneOnce
  <1>6. QED
    BY <1>0, <1>1, <1>3, <1>5, GoesOn

(* A batch completes its row.                                              *)
LEMMA CompleteBatchStep ==
  ASSUME IInv, NEW w \in Workers, CompleteBatch(w) PROVE IInv'
  <1>0. workers[w].stage = "made" /\ workers[w].job \in JobIds
    BY Works DEF CompleteBatch, At
  <1>1. PICK j \in JobIds : j = workers[w].job
    BY <1>0
  <1> DEFINE r == batches[j].running - 1
             n == batches[j].completed + 1
  <1>2. r \in Int /\ n \in Nat /\ batches[j].completed \in Nat /\ mails[j] \in Nat
    BY DEF IInv, Tables
  <1>3. UNCHANGED <<jobs, mails>>
    BY DEF CompleteBatch
  <1>4. CASE batches' = [batches EXCEPT ![j] = [running |-> r, completed |-> n]]
    <2>1. batches'[j].completed = n
      BY <1>2, <1>4 DEF IInv, Tables
    <2>2. /\ Counts(mails') /\ batches' \in [JobIds -> [running : Int, completed : Nat]]
          /\ Counts(done') /\ Only(done, done', j)
      BY <1>2, <1>3, <1>4, DoneOnce
    <2>a. done'[j] = done[j] + 1
      BY <1>2, <1>3, <2>1 DEF done
    <2>3. \/ Goto(w, "ok") /\ UNCHANGED unheard
          \/ Goto(w, "failed") /\ unheard' = [unheard EXCEPT ![j] = unheard[j] + 1]
          \/ Goto(w, "failed") /\ UNCHANGED batches
      BY <1>1 DEF CompleteBatch, Heard, Unheard
    <2>4. ~ UNCHANGED batches
      BY <1>2, <2>1
    <2>5. QED
      BY <1>0, <1>1, <1>3, <2>2, <2>a, <2>3, <2>4, GoesOn
  <1>5. CASE UNCHANGED <<batches, unheard>> /\ Goto(w, "failed")
    <2>1. done'[j] = done[j]
      BY <1>3, <1>5 DEF done
    <2>2. QED
      BY <1>0, <1>1, <1>3, <1>5, <2>1, DoneOnce, GoesOn
  <1>6. QED
    BY <1>1, <1>4, <1>5 DEF CompleteBatch, Heard, Unheard

(* The other handlers have no effect that is told.                         *)
LEMMA OtherStep ==
  ASSUME IInv, NEW w \in Workers, workers[w].stage # "idle",
         jobs[workers[w].job].kind \notin Reporting,
         UNCHANGED <<jobs, mails, batches, unheard>>,
         NEW st \in {"history", "ok", "failed"}, Goto(w, st)
  PROVE  IInv'
  <1>0. workers[w].job \in JobIds
    BY Works
  <1>1. PICK j \in JobIds : j = workers[w].job
    BY <1>0
  <1>2. done' = done
    BY DEF done
  <1>3. Handled(j, w, st)
    BY <1>1, <1>2 DEF Handled, IInv, Tables, Counts, Only
  <1>4. QED
    BY <1>3, HandledStep

LEMMA HandleStep ==
  ASSUME IInv, NEW w \in Workers, Handle(w) \/ CleanHistory(w) PROVE IInv'
  <1>1. ASSUME NEW kinds, kinds \cap Reporting = {}, NEW stage, stage # "idle", At(w, kinds, stage)
        PROVE  workers[w].stage # "idle" /\ jobs[workers[w].job].kind \notin Reporting
    BY <1>1 DEF At
  <1>2. CASE ProcessWithoutEffect(w)
    BY <1>1, <1>2, OtherStep DEF ProcessWithoutEffect, Reporting
  <1>3. CASE CleanActivities(w)
    BY <1>1, <1>3, OtherStep DEF CleanActivities, Reporting
  <1>4. CASE CleanHistory(w) \/ CleanHistoryFails(w)
    BY <1>1, <1>4, OtherStep DEF CleanHistory, CleanHistoryFails, Reporting
  <1>5. QED
    BY <1>2, <1>3, <1>4, ProcessEmailStep, CreateBatchStep, CompleteBatchStep, FinishStep DEF Handle

(* Every step keeps the invariant.                                         *)
LEMMA InvStep == IInv /\ [Next]_vars => IInv'
  <1> SUFFICES ASSUME IInv, [Next]_vars PROVE IInv'
    OBVIOUS
  <1>1. CASE UNCHANGED jobVars
    BY <1>1, Aside DEF jobVars, done
  <1>2. ASSUME NEW j \in JobIds, Produce(j) \/ LoseLock(j) \/ Stall(j) PROVE IInv'
    BY <1>2, ProduceStep, LoseLockStep, StallStep
  <1>3. ASSUME NEW w \in Workers, Handle(w) \/ Crash(w) \/ CleanHistory(w) PROVE IInv'
    BY <1>3, HandleStep, CrashStep
  <1>4. ASSUME NEW w \in Workers, NEW j \in JobIds, Take(w, j) PROVE IInv'
    BY <1>4, TakeStep
  <1>5. QED
    BY <1>1, <1>2, <1>3, <1>4 DEF Next, vars

(* The invariant: what was done and heard of is paid for.                  *)
THEOREM Invariance == Spec => []IInv
  BY Initially, InvStep, PTL DEF Spec

-----------------------------------------------------------------------------
(* Each kind of job has its own effects only.                              *)
Own(j) ==
  /\ mails[j] # 0 => Is(j, {"email", "bare"})
  /\ batches[j] # [running |-> 0, completed |-> 0] => Is(j, {"batch"})

(* A run that was taken off its job before it wrote a row.                 *)
IsLost(w, j) == workers[w].job = j /\ workers[w].stage = "start" /\ jobs[j].holder # w
Lost(j) == {w \in Workers : IsLost(w, j)}

(* The run Bull counts on has a row, or had its chance to write one.       *)
HolderAt(j) ==
  IF /\ jobs[j].holder # None
     /\ workers[jobs[j].holder].job = j
     /\ workers[jobs[j].holder].stage \in {"made", "failed"}
  THEN 1 ELSE 0

CutOff(j) == IF jobs[j].state = "active" /\ jobs[j].holder = None THEN 1 ELSE 0

(* Rows that stay RUNNING, and those that lost runs will still write, are  *)
(* of the run in hand, of one that failed or of one that was cut off.      *)
Explained(j) ==
  Is(j, {"batch"}) =>
    batches[j].running + Cardinality(Lost(j)) <= HolderAt(j) + CutOff(j) + jobs[j].tries + jobs[j].stalls

RowsInv == \A j \in JobIds : Own(j) /\ Explained(j)

(* What a step does to the jobs: they keep their kinds, and only those of  *)
(* its own kind have an effect.                                            *)
Kept(j) ==
  /\ jobs[j] # None => jobs'[j] # None /\ jobs'[j].kind = jobs[j].kind
  /\ mails'[j] # mails[j] => Is(j, {"email", "bare"})
  /\ batches'[j] # batches[j] => Is(j, {"batch"})

(* The job of a worker is found under its key.                             *)
LEMMA AtJob ==
  ASSUME IInv, NEW w \in Workers, NEW kinds, NEW stage, stage # "idle", At(w, kinds, stage)
  PROVE  /\ workers[w].job \in JobIds /\ workers[w].stage = stage
         /\ Is(workers[w].job, kinds)
  BY Works DEF At, Is

(* One row of jobs is written, for the same kind.                          *)
LEMMA KindKept ==
  ASSUME IInv, NEW i \in JobIds, NEW row, row # None, jobs' = [jobs EXCEPT ![i] = row],
         jobs[i] # None => row.kind = jobs[i].kind, UNCHANGED <<mails, batches>>, NEW j \in JobIds
  PROVE  Kept(j)
  BY DEF Kept, IInv, Tables

LEMMA KeptStep == ASSUME IInv, [Next]_vars, NEW j \in JobIds PROVE Kept(j)
  <1>1. CASE UNCHANGED jobVars
    BY <1>1 DEF jobVars, Kept
  <1>2. ASSUME NEW i \in JobIds, NEW kind, kind \in Kinds, Add(i, kind) PROVE Kept(j)
    <2> DEFINE row == [kind |-> kind, state |-> "waiting", tries |-> 0, stalls |-> 0, holder |-> None]
    <2>1. row \in Job
      BY <1>2 DEF Job
    <2>2. jobs' = [jobs EXCEPT ![i] = row] /\ jobs[i] = None /\ UNCHANGED <<mails, batches>>
      BY <1>2 DEF Add
    <2>3. row # None
      BY <2>1, Constants
    <2> HIDE DEF row
    <2>4. QED
      BY <2>2, <2>3, KindKept
  <1>3. ASSUME NEW i \in JobIds, LoseLock(i) \/ Stall(i) PROVE Kept(j)
    <2>1. PICK row : /\ jobs' = [jobs EXCEPT ![i] = row] /\ jobs[i] # None
                     /\ DOMAIN row = DOMAIN jobs[i] /\ row.kind = jobs[i].kind
                     /\ row \in Job
                     /\ UNCHANGED <<mails, batches>>
      <3>1. CASE LoseLock(i)
        <4> DEFINE row == [jobs[i] EXCEPT !.holder = None]
        <4>1. jobs' = [jobs EXCEPT ![i] = row] /\ jobs[i] \in Job /\ jobs[i] # None
              /\ UNCHANGED <<mails, batches>>
          BY <3>1 DEF LoseLock, IInv, Tables
        <4>2. row \in Job /\ row.kind = jobs[i].kind /\ DOMAIN row = DOMAIN jobs[i]
          BY <4>1 DEF Job
        <4> HIDE DEF row
        <4>3. QED
          BY <4>1, <4>2
      <3>2. CASE Stall(i)
        <4> DEFINE n == jobs[i].stalls + 1
                   st == IF jobs[i].stalls = 0 THEN "waiting" ELSE "failed"
                   row == [jobs[i] EXCEPT !.stalls = n, !.state = st]
        <4>1. jobs' = [jobs EXCEPT ![i] = row] /\ jobs[i] \in Job /\ jobs[i] # None
              /\ jobs[i].state = "active" /\ UNCHANGED <<mails, batches>>
          BY <3>2 DEF Stall, IInv, Tables
        <4>2. n \in 0 .. 2 /\ st \in {"waiting", "failed"}
          BY <4>1 DEF IInv, Held, Sound, Job
        <4> HIDE DEF n, st
        <4>3. row \in Job /\ row.kind = jobs[i].kind /\ DOMAIN row = DOMAIN jobs[i]
          BY <4>1, <4>2 DEF Job
        <4> HIDE DEF row
        <4>4. QED
          BY <4>1, <4>3
      <3>3. QED
        BY <1>3, <3>1, <3>2
    <2>2. row # None
      BY <2>1, Constants
    <2>3. QED
      BY <2>1, <2>2, KindKept
  <1>4. ASSUME NEW w \in Workers, NEW i \in JobIds, Take(w, i) PROVE Kept(j)
    BY <1>4, Constants DEF Take, Kept, IInv, Tables, Job
  <1>5. ASSUME NEW w \in Workers, Finish(w) PROVE Kept(j)
    <2>1. workers[w].job \in JobIds /\ jobs[workers[w].job] \in Job /\ workers[w].stage # "idle"
      BY <1>5, Works DEF Finish
    <2>2. PICK i \in JobIds : i = workers[w].job
      BY <2>1
    <2>3. Moved(i, w) # None /\ Moved(i, w).kind = jobs[i].kind
      <3>1. jobs[i] \in Job /\ jobs[i] # None /\ DOMAIN jobs[i] = {"kind", "state", "tries", "stalls", "holder"}
        BY <2>1, <2>2, Works DEF Job
      <3>2. None \notin Job
        BY Constants
      <3> DEFINE n == jobs[i].tries + 1
                 st == IF n < Attempts[jobs[i].kind] THEN "waiting" ELSE "failed"
                 r1 == [jobs[i] EXCEPT !.state = "completed", !.holder = None]
                 r2 == [jobs[i] EXCEPT !.tries = n, !.holder = None, !.state = st]
      <3>3. r1 \in Job /\ r1.kind = jobs[i].kind
        BY <3>1 DEF Job
      <3>4. n \in Nat /\ st \in {"waiting", "failed"}
        BY <3>1 DEF Job
      <3>5. r2 \in Job /\ r2.kind = jobs[i].kind
        <4> HIDE DEF n, st
        <4>1. QED
          BY <3>1, <3>4 DEF Job
      <3>6. Moved(i, w) \in {jobs[i], r1, r2}
        BY <2>2 DEF Moved
      <3> HIDE DEF r1, r2
      <3>7. QED
        BY <3>1, <3>2, <3>3, <3>5, <3>6
    <2>4. jobs' = [jobs EXCEPT ![i] = Moved(i, w)] /\ UNCHANGED <<mails, batches>>
      BY <1>5, <2>2 DEF Finish
    <2>5. QED
      BY <2>3, <2>4, KindKept
  <1>6. ASSUME NEW w \in Workers, Crash(w) PROVE Kept(j)
    <2>1. workers[w].job \in JobIds /\ jobs[workers[w].job] \in Job /\ jobs[workers[w].job] # None
      BY <1>6, Works DEF Crash, IInv, Busy
    <2>2. PICK i \in JobIds : i = workers[w].job
      BY <2>1
    <2> DEFINE h == IF jobs[i].holder = w THEN None ELSE jobs[i].holder
               row == [jobs[i] EXCEPT !.holder = h]
    <2>3. h \in Workers \cup {None}
      BY <2>1, <2>2 DEF Job
    <2>4. jobs' = [jobs EXCEPT ![i] = row] /\ UNCHANGED <<mails, batches>>
      BY <1>6, <2>2 DEF Crash
    <2> HIDE DEF h
    <2>5. row \in Job /\ row.kind = jobs[i].kind
      BY <2>1, <2>2, <2>3 DEF Job
    <2> HIDE DEF row
    <2>6. row # None
      BY <2>5, Constants
    <2>7. QED
      BY <2>4, <2>5, <2>6, KindKept
  <1>7. ASSUME NEW w \in Workers,
               \/ ProcessEmailJob(w) \/ CreateBatch(w) \/ CompleteBatch(w) \/ ProcessWithoutEffect(w)
               \/ CleanActivities(w) \/ CleanHistoryFails(w) \/ CleanHistory(w)
        PROVE  Kept(j)
    <2>1. jobs' = jobs
      BY <1>7 DEF ProcessEmailJob, CreateBatch, CompleteBatch, ProcessWithoutEffect, CleanActivities,
                  CleanHistoryFails, CleanHistory
    <2>2. CASE ProcessEmailJob(w)
      <3>1. Is(workers[w].job, {"email", "bare"})
        BY <2>2, AtJob DEF ProcessEmailJob
      <3>2. batches' = batches /\ (j # workers[w].job => mails'[j] = mails[j])
        BY <2>2 DEF ProcessEmailJob, IInv, Tables
      <3>3. QED
        BY <2>1, <3>1, <3>2 DEF Kept
    <2>3. CASE CreateBatch(w) \/ CompleteBatch(w)
      <3>1. Is(workers[w].job, {"batch"})
        BY <2>3, AtJob DEF CreateBatch, CompleteBatch
      <3>2. mails' = mails /\ (j # workers[w].job => batches'[j] = batches[j])
        BY <2>3 DEF CreateBatch, CompleteBatch, IInv, Tables
      <3>3. QED
        BY <2>1, <3>1, <3>2 DEF Kept
    <2>4. CASE UNCHANGED <<mails, batches>>
      BY <2>1, <2>4 DEF Kept
    <2>5. QED
      BY <1>7, <2>2, <2>3, <2>4 DEF ProcessWithoutEffect, CleanActivities, CleanHistoryFails, CleanHistory
  <1>8. QED
    BY <1>1, <1>2, <1>3, <1>4, <1>5, <1>6, <1>7 DEF Next, vars, Produce, Handle, SendNotification,
       GenerateHotRecommendations, GenerateDailyRecommendations, RetrainModels, IntelligentDataCleanup, Kinds

(* Every step keeps the effects to their kinds.                            *)
LEMMA OwnStep == ASSUME IInv, [Next]_vars, NEW j \in JobIds, Own(j) PROVE Own(j)'
  BY KeptStep DEF Own, Kept, Is

-----------------------------------------------------------------------------
(* Lost runs are finitely many.                                            *)
LEMMA LostFinite ==
  ASSUME NEW j PROVE IsFiniteSet(Lost(j)) /\ Cardinality(Lost(j)) \in Nat
  <1>1. Lost(j) \in SUBSET Workers
    BY DEF Lost
  <1>2. QED
    BY <1>1, Constants, FS_Subset, FS_CardinalityType

(* Two sets of workers that agree but for one of them.                     *)
LEMMA OneWorker ==
  ASSUME NEW S \in SUBSET Workers, NEW T \in SUBSET Workers, NEW w \in Workers,
         \A v \in Workers : v # w => (v \in T <=> v \in S)
  PROVE  /\ Cardinality(S) \in Nat /\ Cardinality(T) \in Nat
         /\ Cardinality(T) = Cardinality(S) + (IF w \in T THEN 1 ELSE 0) - (IF w \in S THEN 1 ELSE 0)
  <1>1. IsFiniteSet(S) /\ IsFiniteSet(T) /\ Cardinality(S) \in Nat /\ Cardinality(T) \in Nat
    BY Constants, FS_Subset, FS_CardinalityType
  <1>2. CASE w \in T
    <2>1. T = S \cup {w}
      BY <1>2
    <2>2. Cardinality(S \cup {w}) = IF w \in S THEN Cardinality(S) ELSE Cardinality(S) + 1
      BY <1>1, FS_AddElement
    <2>3. QED
      BY <1>1, <1>2, <2>1, <2>2
  <1>3. CASE w \notin T
    <2>1. T = S \ {w}
      BY <1>3
    <2>2. Cardinality(S \ {w}) = IF w \in S THEN Cardinality(S) - 1 ELSE Cardinality(S)
      BY <1>1, FS_RemoveElement
    <2>3. QED
      BY <1>1, <1>3, <2>1, <2>2
  <1>4. QED
    BY <1>2, <1>3

(* The runs of job i that were lost, when one worker moves.                *)
LEMMA LostChanges ==
  ASSUME NEW i, NEW w \in Workers, \A v \in Workers : v # w => (IsLost(v, i)' <=> IsLost(v, i))
  PROVE  /\ Cardinality(Lost(i)) \in Nat /\ Cardinality(Lost(i))' \in Nat
         /\ Cardinality(Lost(i))' = Cardinality(Lost(i))
              + (IF IsLost(w, i)' THEN 1 ELSE 0) - (IF IsLost(w, i) THEN 1 ELSE 0)
  <1>1. PICK T : T = Lost(i)'
    OBVIOUS
  <1>2. \A v \in Workers : (v \in T <=> IsLost(v, i)') /\ (v \in Lost(i) <=> IsLost(v, i))
    BY <1>1 DEF Lost
  <1>3. T \in SUBSET Workers /\ Lost(i) \in SUBSET Workers
    BY <1>1 DEF Lost
  <1>4. \A v \in Workers : v # w => (v \in T <=> v \in Lost(i))
    BY <1>2
  <1>5. /\ Cardinality(Lost(i)) \in Nat /\ Cardinality(T) \in Nat
        /\ Cardinality(T) = Cardinality(Lost(i)) + (IF w \in T THEN 1 ELSE 0) - (IF w \in Lost(i) THEN 1 ELSE 0)
    BY <1>3, <1>4, OneWorker
  <1>6. QED
    BY <1>1, <1>2, <1>5

(* What pays for the rows that stay RUNNING.                               *)
Due(j) == HolderAt(j) + CutOff(j) + jobs[j].tries + jobs[j].stalls

(* A batch whose worker w moves.                                           *)
LEMMA RowsMove ==
  ASSUME IInv, NEW i \in JobIds, NEW w \in Workers, Explained(i), Is(i, {"batch"}),
         \A v \in Workers : v # w => (IsLost(v, i)' <=> IsLost(v, i)),
         batches'[i].running \in Int, Due(i) \in Int, Due(i)' \in Int,
         batches'[i].running + (IF IsLost(w, i)' THEN 1 ELSE 0) - Due(i)'
           <= batches[i].running + (IF IsLost(w, i) THEN 1 ELSE 0) - Due(i)
  PROVE  Explained(i)'
  <1>1. /\ Cardinality(Lost(i)) \in Nat /\ Cardinality(Lost(i))' \in Nat
        /\ Cardinality(Lost(i))' = Cardinality(Lost(i))
             + (IF IsLost(w, i)' THEN 1 ELSE 0) - (IF IsLost(w, i) THEN 1 ELSE 0)
    BY LostChanges
  <1>2. batches[i].running + Cardinality(Lost(i)) <= Due(i)
    BY DEF Explained, Due
  <1>3. batches[i].running \in Int
    BY DEF IInv, Tables
  <1> DEFINE a == IF IsLost(w, i)' THEN 1 ELSE 0
             b == IF IsLost(w, i) THEN 1 ELSE 0
  <1>4. a \in Int /\ b \in Int
    OBVIOUS
  <1>5. /\ Cardinality(Lost(i))' = Cardinality(Lost(i)) + a - b
        /\ batches'[i].running + a - Due(i)' <= batches[i].running + b - Due(i)
    BY <1>1
  <1> HIDE DEF a, b
  <1>6. batches'[i].running + Cardinality(Lost(i))' <= Due(i)'
    BY <1>1, <1>2, <1>3, <1>4, <1>5
  <1>7. QED
    BY <1>6 DEF Explained, Due

(* The other jobs: nothing of theirs has moved.                            *)
LEMMA RowsElsewhere ==
  ASSUME IInv, NEW i \in JobIds, NEW j \in JobIds, j # i, Explained(j),
         jobs'[j] = jobs[j], batches'[j] = batches[j],
         \A v \in Workers : \/ workers'[v] = workers[v]
                            \/ /\ workers[v].stage # "idle" => workers[v].job = i
                               /\ workers'[v].stage # "idle" => workers'[v].job = i
  PROVE  Explained(j)'
  <1>1. \A v \in Workers : IsLost(v, j)' <=> IsLost(v, j)
    BY DEF IsLost
  <1>2. Lost(j)' = Lost(j)
    BY <1>1 DEF Lost
  <1>3. ASSUME Is(j, {"batch"}) PROVE HolderAt(j)' = HolderAt(j)
    <2>1. jobs[j].holder \in Workers \cup {None}
      BY <1>3 DEF IInv, Tables, Is, Job
    <2>2. QED
      BY <2>1 DEF HolderAt
  <1>4. QED
    BY <1>2, <1>3 DEF Explained, CutOff, Is

(* The jobs and the workers are as they were, but for a job of another     *)
(* kind.                                                                   *)
LEMMA DueType ==
  ASSUME Tables, NEW j \in JobIds, jobs[j] # None
  PROVE  /\ Due(j) \in Int /\ HolderAt(j) \in {0, 1} /\ CutOff(j) \in {0, 1}
         /\ jobs[j].tries \in Nat /\ jobs[j].stalls \in Nat
         /\ jobs[j].holder \in Workers \cup {None} /\ jobs[j] \in Job
  <1>1. jobs[j] \in Job
    BY DEF Tables
  <1>2. HolderAt(j) \in {0, 1} /\ CutOff(j) \in {0, 1}
    BY DEF HolderAt, CutOff
  <1>3. jobs[j].tries \in Nat /\ jobs[j].stalls \in Nat /\ jobs[j].holder \in Workers \cup {None}
    BY <1>1 DEF Job
  <1>4. QED
    BY <1>1, <1>2, <1>3 DEF Due

(* The same after a step.                                                  *)
LEMMA DueTypeAfter ==
  ASSUME Tables', NEW j \in JobIds, jobs'[j] # None
  PROVE  /\ Due(j)' \in Int /\ HolderAt(j)' \in {0, 1} /\ CutOff(j)' \in {0, 1}
         /\ jobs'[j].tries \in Nat /\ jobs'[j].stalls \in Nat
         /\ jobs'[j].holder \in Workers \cup {None} /\ jobs'[j] \in Job
  <1>1. jobs'[j] \in Job
    BY DEF Tables
  <1>2. HolderAt(j)' \in {0, 1} /\ CutOff(j)' \in {0, 1}
    BY DEF HolderAt, CutOff
  <1>3. jobs'[j].tries \in Nat /\ jobs'[j].stalls \in Nat /\ jobs'[j].holder \in Workers \cup {None}
    BY <1>1 DEF Job
  <1>4. QED
    BY <1>1, <1>2, <1>3 DEF Due

(* A job is queued: it has no rows.                                        *)
LEMMA AddRows ==
  ASSUME IInv, NEW i \in JobIds, NEW kind \in Kinds, Add(i, kind), RowsInv, NEW j \in JobIds
  PROVE  Explained(j)'
  <1> DEFINE row == [kind |-> kind, state |-> "waiting", tries |-> 0, stalls |-> 0, holder |-> None]
  <1>1. /\ jobs' = [jobs EXCEPT ![i] = row] /\ jobs[i] = None /\ UNCHANGED <<workers, batches>>
    BY DEF Add
  <1>2. CASE j # i
    <2>1. jobs'[j] = jobs[j]
      BY <1>1, <1>2 DEF IInv, Tables
    <2>2. QED
      BY <1>1, <1>2, <2>1, RowsElsewhere DEF RowsInv
  <1>3. CASE j = i
    <2>1. \A w \in Workers : workers[w].job # i \/ workers[w].stage = "idle"
      BY <1>1 DEF IInv, Busy
    <2>2. Lost(i)' = {}
      BY <1>1, <2>1 DEF Lost, IsLost
    <2>3. Cardinality(Lost(i)') = 0
      BY <2>2, FS_EmptySet
    <2>4. batches[i] = [running |-> 0, completed |-> 0]
      BY <1>1 DEF RowsInv, Own, Is
    <2>5. batches'[i].running = 0
      BY <1>1, <2>4
    <2>6. jobs'[i].tries = 0 /\ jobs'[i].stalls = 0
      BY <1>1 DEF IInv, Tables
    <2>7. HolderAt(i)' \in {0, 1} /\ CutOff(i)' \in {0, 1}
      BY DEF HolderAt, CutOff
    <2>8. batches'[i].running + Cardinality(Lost(i)') <= HolderAt(i)' + CutOff(i)' + jobs'[i].tries + jobs'[i].stalls
      BY <2>3, <2>5, <2>6, <2>7
    <2>9. QED
      BY <1>3, <2>8 DEF Explained
  <1>4. QED
    BY <1>2, <1>3

(* A worker takes a job: it has no row of its own yet.                     *)
LEMMA TakeRows ==
  ASSUME IInv, IInv', NEW w \in Workers, NEW i \in JobIds, Take(w, i), RowsInv, NEW j \in JobIds
  PROVE  Explained(j)'
  <1> DEFINE row == [jobs[i] EXCEPT !.state = "active", !.holder = w]
             x == [job |-> i, stage |-> "start"]
  <1>1. /\ jobs' = [jobs EXCEPT ![i] = row] /\ jobs[i] # None /\ jobs[i].state = "waiting"
        /\ workers[w] = Free /\ workers' = [workers EXCEPT ![w] = x] /\ UNCHANGED batches
    BY DEF Take
  <1>2. jobs[i] \in Job /\ jobs[i].holder = None
    BY <1>1 DEF IInv, Tables, Held, Sound
  <1>3. /\ row.state = "active" /\ row.holder = w /\ row.kind = jobs[i].kind
        /\ row.tries = jobs[i].tries /\ row.stalls = jobs[i].stalls /\ row \in Job
    BY <1>2 DEF Job
  <1>4. x.job = i /\ x.stage = "start"
    OBVIOUS
  <1> HIDE DEF row, x
  <1>5. jobs'[i] = row /\ workers'[w] = x /\ \A v \in Workers : v # w => workers'[v] = workers[v]
    BY <1>1 DEF IInv, Tables
  <1>6. CASE j # i
    <2>1. jobs'[j] = jobs[j] /\ workers[w].stage = "idle"
      BY <1>1, <1>6 DEF IInv, Tables, Free
    <2>2. QED
      BY <1>1, <1>4, <1>5, <1>6, <2>1, RowsElsewhere DEF RowsInv
  <1>7. CASE j = i /\ Is(i, {"batch"})
    <2>1. \A v \in Workers : v # w => (IsLost(v, i)' <=> IsLost(v, i))
      BY <1>2, <1>3, <1>5, Constants DEF IsLost
    <2>2. ~ IsLost(w, i)' /\ ~ IsLost(w, i)
      BY <1>1, <1>3, <1>5 DEF IsLost, Free
    <2>3. HolderAt(i)' = 0 /\ HolderAt(i) = 0 /\ CutOff(i) = 0 /\ CutOff(i)' = 0
      BY <1>1, <1>2, <1>3, <1>4, <1>5, Constants DEF HolderAt, CutOff
    <2>4. Due(i) = jobs[i].tries + jobs[i].stalls /\ Due(i)' = jobs[i].tries + jobs[i].stalls
          /\ Due(i) \in Int /\ batches[i].running \in Int
      BY <1>1, <1>3, <1>5, <2>3, DueType DEF Due, IInv, Tables
    <2>5. QED
      BY <1>1, <1>7, <2>1, <2>2, <2>4, RowsMove DEF RowsInv
  <1>8. CASE j = i /\ ~ Is(i, {"batch"})
    BY <1>1, <1>3, <1>5, <1>8 DEF Explained, Is
  <1>9. QED
    BY <1>6, <1>7, <1>8

-----------------------------------------------------------------------------
(* Bull moves the job that the worker of its run lets go of.               *)
LEMMA FreedRows ==
  ASSUME IInv, IInv', RowsInv, NEW w \in Workers, workers[w].stage # "idle",
         NEW i \in JobIds, i = workers[w].job, NEW row \in Job,
         jobs' = [jobs EXCEPT ![i] = row], workers' = [workers EXCEPT ![w] = Free], UNCHANGED batches,
         row.kind = jobs[i].kind,
         row.holder = None \/ row.holder = jobs[i].holder,
         jobs[i].holder # w => row = jobs[i],
         jobs[i].holder = w =>
           /\ row.holder = None
           /\ Is(i, {"batch"}) => HolderAt(i) + jobs[i].tries + jobs[i].stalls
                                    <= CutOff(i)' + row.tries + row.stalls,
         NEW j \in JobIds
  PROVE  Explained(j)'
  <1>1. jobs[i] \in Job /\ jobs[i] # None /\ Sound(jobs[i]) /\ row # None
    BY Works, Constants
  <1>2. jobs'[i] = row /\ workers'[w] = Free /\ \A v \in Workers : v # w => workers'[v] = workers[v]
    BY DEF IInv, Tables
  <1>3. CASE j # i
    <2>1. jobs'[j] = jobs[j]
      BY <1>3 DEF IInv, Tables
    <2>2. QED
      BY <1>2, <1>3, <2>1, RowsElsewhere DEF RowsInv, Free
  <1>4. CASE j = i /\ Is(i, {"batch"})
    <2>1. \A v \in Workers : v # w => (IsLost(v, i)' <=> IsLost(v, i))
      BY <1>1, <1>2, Constants DEF IsLost
    <2>2. ~ IsLost(w, i)'
      BY <1>2 DEF IsLost, Free
    <2>3. Due(i) \in Int /\ Due(i)' \in Int /\ batches[i].running \in Int
      BY <1>1, <1>2, DueType, DueTypeAfter DEF IInv, Tables
    <2>4. Due(i) <= Due(i)' 
      <3>1. CASE jobs[i].holder # w
        <4>1. row = jobs[i]
          BY <3>1
        <4>2. HolderAt(i)' = HolderAt(i) /\ CutOff(i)' = CutOff(i)
          BY <1>1, <1>2, <3>1, <4>1, Constants DEF HolderAt, CutOff, Job
        <4>3. Due(i)' = Due(i)
          BY <1>2, <4>1, <4>2 DEF Due
        <4>4. QED
          BY <2>3, <4>3
      <3>2. CASE jobs[i].holder = w
        <4>1. jobs[i].state = "active" /\ row.holder = None
          BY <1>1, <3>2, Constants DEF Sound
        <4>2. CutOff(i) = 0 /\ HolderAt(i)' = 0
          BY <1>2, <3>2, <4>1, Constants DEF CutOff, HolderAt
        <4>3. HolderAt(i) + jobs[i].tries + jobs[i].stalls <= CutOff(i)' + row.tries + row.stalls
          BY <1>4, <3>2
        <4>4. /\ HolderAt(i) \in Int /\ jobs[i].tries \in Int /\ jobs[i].stalls \in Int
              /\ CutOff(i)' \in Int /\ row.tries \in Int /\ row.stalls \in Int
          BY <1>1, <1>2, DueType, DueTypeAfter DEF IInv
        <4>5. QED
          BY <1>2, <4>2, <4>3, <4>4 DEF Due
      <3>3. QED
        BY <3>1, <3>2
    <2>5. QED
      BY <1>4, <2>1, <2>2, <2>3, <2>4, RowsMove DEF RowsInv
  <1>5. CASE j = i /\ ~ Is(i, {"batch"})
    BY <1>1, <1>2, <1>5 DEF Explained, Is
  <1>6. QED
    BY <1>3, <1>4, <1>5

(* A run ends, and Bull counts its failure as a try.                       *)
LEMMA FinishRows ==
  ASSUME IInv, IInv', NEW w \in Workers, Finish(w), RowsInv, NEW j \in JobIds
  PROVE  Explained(j)'
  <1>0. workers[w].stage \in {"ok", "failed"} /\ workers[w].stage # "idle" /\ workers[w].job \in JobIds
    BY Works DEF Finish
  <1>1. PICK i \in JobIds : i = workers[w].job
    BY <1>0
  <1> DEFINE row == Moved(i, w)
  <1>2. /\ jobs' = [jobs EXCEPT ![i] = row] /\ workers' = [workers EXCEPT ![w] = Free]
        /\ UNCHANGED batches
    BY <1>1 DEF Finish
  <1>3. jobs[i] \in Job /\ jobs[i] # None /\ Sound(jobs[i])
    BY <1>0, <1>1, Works
  <1>4. /\ row \in Job /\ row.kind = jobs[i].kind /\ row.stalls = jobs[i].stalls
        /\ jobs[i].holder # w => row = jobs[i]
        /\ jobs[i].holder = w => /\ row.holder = None
                                 /\ row.tries = jobs[i].tries + (IF workers[w].stage = "ok" THEN 0 ELSE 1)
    <2>1. CASE jobs[i].holder # w
      BY <1>1, <1>3, <2>1 DEF Moved
    <2>2. CASE jobs[i].holder = w /\ workers[w].stage = "ok"
      <3>1. row = [jobs[i] EXCEPT !.state = "completed", !.holder = None]
        BY <1>1, <2>2 DEF Moved
      <3> HIDE DEF row
      <3>2. /\ row \in Job /\ row.kind = jobs[i].kind /\ row.stalls = jobs[i].stalls /\ row.holder = None
            /\ row.tries = jobs[i].tries /\ jobs[i].tries \in Nat
        BY <1>3, <3>1 DEF Job
      <3>3. QED
        BY <2>2, <3>2
    <2>3. CASE jobs[i].holder = w /\ workers[w].stage # "ok"
      <3> DEFINE n == jobs[i].tries + 1
                 st == IF n < Attempts[jobs[i].kind] THEN "waiting" ELSE "failed"
      <3>1. row = [jobs[i] EXCEPT !.tries = n, !.holder = None, !.state = st]
        BY <1>1, <2>3 DEF Moved
      <3>2. n \in Nat /\ st \in {"waiting", "failed"}
        BY <1>3 DEF Job
      <3> HIDE DEF row, st
      <3>3. /\ row \in Job /\ row.kind = jobs[i].kind /\ row.stalls = jobs[i].stalls /\ row.holder = None
            /\ row.tries = n
        <4> HIDE DEF n
        <4>1. QED
          BY <1>3, <3>1, <3>2 DEF Job
      <3>4. QED
        BY <2>3, <3>3
    <2>4. QED
      BY <2>1, <2>2, <2>3
  <1> HIDE DEF row
  <1>5. ASSUME jobs[i].holder = w
        PROVE  HolderAt(i) + jobs[i].tries + jobs[i].stalls <= CutOff(i)' + row.tries + row.stalls
    <2>1. HolderAt(i) = IF workers[w].stage = "ok" THEN 0 ELSE 1
      BY <1>0, <1>1, <1>5, Constants DEF HolderAt
    <2>2. CutOff(i)' \in {0, 1} /\ jobs[i].tries \in Nat /\ jobs[i].stalls \in Nat
      BY <1>3 DEF CutOff, Job
    <2>3. QED
      BY <1>4, <1>5, <2>1, <2>2
  <1>6. QED
    BY <1>0, <1>1, <1>2, <1>4, <1>5, FreedRows

(* A process stops: its run is cut off.                                    *)
LEMMA CrashRows ==
  ASSUME IInv, IInv', NEW w \in Workers, Crash(w), RowsInv, NEW j \in JobIds
  PROVE  Explained(j)'
  <1>0. workers[w].stage # "idle" /\ workers[w].job \in JobIds
    BY Works DEF Crash, IInv, Busy
  <1>1. PICK i \in JobIds : i = workers[w].job
    BY <1>0
  <1> DEFINE h == IF jobs[i].holder = w THEN None ELSE jobs[i].holder
             row == [jobs[i] EXCEPT !.holder = h]
  <1>2. /\ jobs' = [jobs EXCEPT ![i] = row] /\ workers' = [workers EXCEPT ![w] = Free]
        /\ UNCHANGED batches
    BY <1>1 DEF Crash
  <1>3. jobs[i] \in Job /\ jobs[i] # None /\ Sound(jobs[i])
    BY <1>0, <1>1, Works
  <1>4. /\ h \in Workers \cup {None} /\ (jobs[i].holder = w => h = None)
        /\ (jobs[i].holder # w => h = jobs[i].holder)
    BY <1>3 DEF Job
  <1> HIDE DEF h
  <1>5. /\ row \in Job /\ row.state = jobs[i].state /\ row.holder = h
        /\ row.kind = jobs[i].kind /\ row.stalls = jobs[i].stalls /\ row.tries = jobs[i].tries
        /\ (h = jobs[i].holder => row = jobs[i])
    BY <1>3, <1>4 DEF Job
  <1> HIDE DEF row
  <1>6. ASSUME jobs[i].holder = w
        PROVE  HolderAt(i) + jobs[i].tries + jobs[i].stalls <= CutOff(i)' + row.tries + row.stalls
    <2>1. row.state = "active" /\ row.holder = None /\ jobs'[i] = row
      BY <1>2, <1>3, <1>4, <1>5, <1>6, Constants DEF Sound, IInv, Tables
    <2>2. CutOff(i)' = 1 /\ HolderAt(i) \in {0, 1} /\ jobs[i].tries \in Nat /\ jobs[i].stalls \in Nat
      BY <1>3, <2>1 DEF CutOff, HolderAt, Job
    <2>3. QED
      BY <1>5, <2>2
  <1>7. QED
    BY <1>0, <1>1, <1>2, <1>4, <1>5, <1>6, FreedRows

(* A worker loses its lock: its run is cut off.                            *)
LEMMA LoseLockRows ==
  ASSUME IInv, IInv', NEW i \in JobIds, LoseLock(i), RowsInv, NEW j \in JobIds
  PROVE  Explained(j)'
  <1> DEFINE row == [jobs[i] EXCEPT !.holder = None]
  <1>1. /\ jobs' = [jobs EXCEPT ![i] = row] /\ jobs[i] # None /\ jobs[i].state = "active"
        /\ jobs[i].holder # None /\ UNCHANGED <<workers, batches>> /\ jobs[i] \in Job
    BY DEF LoseLock, IInv, Tables
  <1>2. /\ row.state = "active" /\ row.holder = None /\ row.kind = jobs[i].kind
        /\ row.tries = jobs[i].tries /\ row.stalls = jobs[i].stalls /\ jobs[i].holder \in Workers
    BY <1>1 DEF Job
  <1> HIDE DEF row
  <1>3. jobs'[i] = row /\ \A k \in JobIds : k # i => jobs'[k] = jobs[k]
    BY <1>1 DEF IInv, Tables
  <1>4. CASE j # i
    BY <1>1, <1>3, <1>4, RowsElsewhere DEF RowsInv
  <1>5. CASE j = i /\ Is(i, {"batch"})
    <2>1. PICK w \in Workers : w = jobs[i].holder
      BY <1>2
    <2>2. \A v \in Workers : v # w => (IsLost(v, i)' <=> IsLost(v, i))
      BY <1>1, <1>2, <1>3, <2>1, Constants DEF IsLost
    <2>3. ~ IsLost(w, i)
      BY <2>1 DEF IsLost
    <2>4. /\ HolderAt(i)' = 0 /\ CutOff(i) = 0 /\ CutOff(i)' = 1
          /\ (IsLost(w, i)' => HolderAt(i) = 0)
      BY <1>1, <1>2, <1>3, <2>1 DEF HolderAt, CutOff, IsLost
    <2>5. /\ Due(i) \in Int /\ HolderAt(i) \in {0, 1} /\ jobs[i].tries \in Nat /\ jobs[i].stalls \in Nat
          /\ batches[i].running \in Int
      BY <1>1, DueType DEF IInv, Tables
    <2>6. /\ Due(i) = HolderAt(i) + jobs[i].tries + jobs[i].stalls
          /\ Due(i)' = 1 + jobs[i].tries + jobs[i].stalls
      BY <1>2, <1>3, <2>4, <2>5 DEF Due
    <2>7. QED
      BY <1>1, <1>5, <2>2, <2>3, <2>4, <2>5, <2>6, RowsMove DEF RowsInv
  <1>6. CASE j = i /\ ~ Is(i, {"batch"})
    BY <1>1, <1>2, <1>3, <1>6 DEF Explained, Is
  <1>7. QED
    BY <1>4, <1>5, <1>6

(* A job found stalled is counted for the run that was cut off.            *)
LEMMA StallRows ==
  ASSUME IInv, IInv', NEW i \in JobIds, Stall(i), RowsInv, NEW j \in JobIds
  PROVE  Explained(j)'
  <1> DEFINE st == IF jobs[i].stalls = 0 THEN "waiting" ELSE "failed"
             n == jobs[i].stalls + 1
             row == [jobs[i] EXCEPT !.stalls = n, !.state = st]
  <1>1. /\ jobs' = [jobs EXCEPT ![i] = row] /\ jobs[i] # None /\ jobs[i].state = "active"
        /\ jobs[i].holder = None /\ UNCHANGED <<workers, batches>> /\ jobs[i] \in Job
    BY DEF Stall, IInv, Tables
  <1>2. st # "active"
    OBVIOUS
  <1> HIDE DEF st
  <1>3. /\ row.state = st /\ row.holder = None /\ row.kind = jobs[i].kind
        /\ row.tries = jobs[i].tries /\ row.stalls = n
    BY <1>1 DEF Job
  <1> HIDE DEF row
  <1>4. jobs'[i] = row /\ \A k \in JobIds : k # i => jobs'[k] = jobs[k]
    BY <1>1 DEF IInv, Tables
  <1>5. CASE j # i
    BY <1>1, <1>4, <1>5, RowsElsewhere DEF RowsInv
  <1>6. CASE j = i /\ Is(i, {"batch"})
    <2>1. Lost(i)' = Lost(i)
      BY <1>1, <1>3, <1>4 DEF Lost, IsLost
    <2>2. HolderAt(i)' = 0 /\ HolderAt(i) = 0 /\ CutOff(i) = 1 /\ CutOff(i)' = 0
      BY <1>1, <1>2, <1>3, <1>4 DEF HolderAt, CutOff
    <2>3. jobs[i].tries \in Nat /\ jobs[i].stalls \in Nat /\ batches[i].running \in Int
          /\ Cardinality(Lost(i)) \in Nat
      BY <1>1, DueType, LostFinite DEF IInv, Tables
    <2>4. batches[i].running + Cardinality(Lost(i)) <= 0 + 1 + jobs[i].tries + jobs[i].stalls
      BY <1>6, <2>2 DEF RowsInv, Explained
    <2>5. batches'[i].running + Cardinality(Lost(i)') <= 0 + 0 + jobs'[i].tries + jobs'[i].stalls
      BY <1>1, <1>3, <1>4, <2>1, <2>3, <2>4
    <2>6. QED
      BY <1>6, <2>2, <2>5 DEF Explained
  <1>7. CASE j = i /\ ~ Is(i, {"batch"})
    BY <1>1, <1>3, <1>4, <1>7 DEF Explained, Is
  <1>8. QED
    BY <1>5, <1>6, <1>7

(* A handler goes on: only its own worker moves, and only its job's rows.  *)
LEMMA GoesOnRows ==
  ASSUME IInv, IInv', RowsInv, NEW w \in Workers, workers[w].stage # "idle",
         NEW i \in JobIds, i = workers[w].job, NEW st, Goto(w, st),
         st \in {"made", "history", "ok", "failed"}, UNCHANGED jobs,
         \A k \in JobIds : k # i => batches'[k] = batches[k],
         Is(i, {"batch"}) =>
           \/ /\ workers[w].stage = "start" /\ st \in {"made", "failed"}
              /\ batches'[i].running \in {batches[i].running, batches[i].running + 1}
           \/ /\ workers[w].stage = "made"
              /\ \/ batches'[i].running = batches[i].running - 1
                 \/ batches'[i].running = batches[i].running /\ st = "failed",
         NEW j \in JobIds
  PROVE  Explained(j)'
  <1> DEFINE x == [workers[w] EXCEPT !.stage = st]
  <1>1. workers[w] \in Worker /\ jobs[i] \in Job /\ jobs[i] # None
    BY Works
  <1>2. x.job = i /\ x.stage = st
    BY <1>1 DEF Worker
  <1>3. workers'[w] = x /\ \A v \in Workers : v # w => workers'[v] = workers[v]
    BY DEF Goto, IInv, Tables
  <1> HIDE DEF x
  <1>4. CASE j # i
    BY <1>2, <1>3, <1>4, RowsElsewhere DEF RowsInv
  <1>5. CASE j = i /\ Is(i, {"batch"})
    <2>1. \A v \in Workers : v # w => (IsLost(v, i)' <=> IsLost(v, i))
      BY <1>3 DEF IsLost
    <2>2. /\ ~ IsLost(w, i)' 
          /\ IsLost(w, i) <=> workers[w].stage = "start" /\ jobs[i].holder # w
      BY <1>2, <1>3 DEF IsLost
    <2>3. /\ jobs[i].holder # w => HolderAt(i)' = HolderAt(i)
          /\ jobs[i].holder = w => /\ HolderAt(i) = IF workers[w].stage \in {"made", "failed"} THEN 1 ELSE 0
                                   /\ HolderAt(i)' = IF st \in {"made", "failed"} THEN 1 ELSE 0
      <3>1. jobs[i].holder \in Workers \cup {None}
        BY <1>1 DEF Job
      <3>2. QED
        BY <1>2, <1>3, <3>1, Constants DEF HolderAt
    <2>4. /\ HolderAt(i) \in {0, 1} /\ jobs[i].tries \in Nat /\ jobs[i].stalls \in Nat
          /\ CutOff(i) \in {0, 1} /\ batches[i].running \in Int
      BY <1>1, DueType DEF IInv, Tables
    <2>5. CutOff(i)' = CutOff(i) /\ jobs'[i] = jobs[i]
      BY DEF CutOff
    <2>6. /\ Due(i) \in Int /\ Due(i)' \in Int
          /\ Due(i)' - Due(i) = HolderAt(i)' - HolderAt(i)
      <3>1. HolderAt(i)' \in {0, 1}
        BY DEF HolderAt
      <3>2. QED
        BY <2>4, <2>5, <3>1 DEF Due
    <2>7. \/ /\ workers[w].stage = "start" /\ st \in {"made", "failed"}
             /\ batches'[i].running \in {batches[i].running, batches[i].running + 1}
          \/ /\ workers[w].stage = "made"
             /\ \/ batches'[i].running = batches[i].running - 1
                \/ batches'[i].running = batches[i].running /\ st = "failed"
      BY <1>5
    <2>8. /\ batches'[i].running \in Int
          /\ batches'[i].running - (IF IsLost(w, i) THEN 1 ELSE 0) - batches[i].running
               <= HolderAt(i)' - HolderAt(i)
      BY <2>2, <2>3, <2>4, <2>7
    <2>9. batches'[i].running + (IF IsLost(w, i)' THEN 1 ELSE 0) - Due(i)'
            <= batches[i].running + (IF IsLost(w, i) THEN 1 ELSE 0) - Due(i)
      BY <2>2, <2>4, <2>6, <2>8
    <2>10. QED
      BY <1>5, <2>1, <2>6, <2>8, <2>9, RowsMove DEF RowsInv
  <1>6. CASE j = i /\ ~ Is(i, {"batch"})
    BY <1>6 DEF Explained, Is
  <1>7. QED
    BY <1>4, <1>5, <1>6

-----------------------------------------------------------------------------
(* The handlers, one by one.                                               *)
LEMMA HandleRows ==
  ASSUME IInv, IInv', RowsInv, NEW w \in Workers, NEW j \in JobIds,
         \/ ProcessEmailJob(w) \/ CreateBatch(w) \/ CompleteBatch(w) \/ ProcessWithoutEffect(w)
         \/ CleanActivities(w) \/ CleanHistoryFails(w) \/ CleanHistory(w)
  PROVE  Explained(j)'
  <1>1. CASE CreateBatch(w) \/ CompleteBatch(w)
    <2>1. workers[w].stage \in {"start", "made"} /\ workers[w].job \in JobIds
      BY <1>1, AtJob DEF CreateBatch, CompleteBatch
    <2>2. PICK i \in JobIds : i = workers[w].job
      BY <2>1
    <2>3. UNCHANGED jobs /\ batches \in [JobIds -> [running : Int, completed : Nat]]
      BY <1>1 DEF CreateBatch, CompleteBatch, IInv, Tables
    <2>4. CASE CreateBatch(w)
      <3>1. workers[w].stage = "start"
        BY <2>4 DEF CreateBatch, At
      <3>2. \/ /\ batches' = [batches EXCEPT ![i].running = batches[i].running + 1]
               /\ Goto(w, "made") \/ Goto(w, "failed")
            \/ Goto(w, "failed") /\ UNCHANGED batches
        BY <2>2, <2>4 DEF CreateBatch
      <3>3. /\ \A k \in JobIds : k # i => batches'[k] = batches[k]
            /\ batches'[i].running \in {batches[i].running, batches[i].running + 1}
        BY <2>3, <3>2
      <3>4. QED
        BY <2>1, <2>2, <2>3, <3>1, <3>2, <3>3, GoesOnRows
    <2>5. CASE CompleteBatch(w)
      <3>1. workers[w].stage = "made"
        BY <2>5 DEF CompleteBatch, At
      <3> DEFINE r == batches[i].running - 1
                 n == batches[i].completed + 1
      <3>2. \/ /\ batches' = [batches EXCEPT ![i] = [running |-> r, completed |-> n]]
               /\ Goto(w, "ok") \/ Goto(w, "failed")
            \/ Goto(w, "failed") /\ UNCHANGED batches
        BY <2>2, <2>5 DEF CompleteBatch
      <3>3. CASE /\ batches' = [batches EXCEPT ![i] = [running |-> r, completed |-> n]]
                 /\ Goto(w, "ok") \/ Goto(w, "failed")
        <4>1. /\ \A k \in JobIds : k # i => batches'[k] = batches[k]
              /\ batches'[i].running = r
          BY <2>3, <3>3
        <4>2. QED
          BY <2>1, <2>2, <2>3, <3>1, <3>3, <4>1, GoesOnRows
      <3>4. CASE Goto(w, "failed") /\ UNCHANGED batches
        BY <2>1, <2>2, <2>3, <3>1, <3>4, GoesOnRows
      <3>5. QED
        BY <3>2, <3>3, <3>4
    <2>6. QED
      BY <1>1, <2>4, <2>5
  <1>2. CASE ~ (CreateBatch(w) \/ CompleteBatch(w))
    <2>1. /\ workers[w].stage # "idle" /\ workers[w].job \in JobIds
          /\ ~ Is(workers[w].job, {"batch"})
      BY <1>2, AtJob DEF ProcessEmailJob, ProcessWithoutEffect, CleanActivities, CleanHistoryFails,
                         CleanHistory, Is
    <2>2. PICK i \in JobIds : i = workers[w].job
      BY <2>1
    <2>3. UNCHANGED <<jobs, batches>>
      BY <1>2 DEF ProcessEmailJob, ProcessWithoutEffect, CleanActivities, CleanHistoryFails, CleanHistory
    <2>4. PICK st \in {"history", "ok", "failed"} : Goto(w, st)
      BY <1>2 DEF ProcessEmailJob, ProcessWithoutEffect, CleanActivities, CleanHistoryFails, CleanHistory
    <2>5. QED
      BY <2>1, <2>2, <2>3, <2>4, GoesOnRows
  <1>3. QED
    BY <1>1, <1>2

(* Every step keeps the rows explained.                                    *)
LEMMA RowsStep == IInv /\ RowsInv /\ [Next]_vars => RowsInv'
  <1> SUFFICES ASSUME IInv, RowsInv, [Next]_vars, NEW j \in JobIds PROVE Own(j)' /\ Explained(j)'
    BY DEF RowsInv
  <1>1. IInv'
    BY InvStep
  <1>2. Own(j)'
    BY OwnStep DEF RowsInv
  <1>3. CASE UNCHANGED jobVars
    <2>1. UNCHANGED <<jobs, workers, batches>>
      BY <1>3 DEF jobVars
    <2>2. Lost(j)' = Lost(j) /\ HolderAt(j)' = HolderAt(j) /\ CutOff(j)' = CutOff(j)
      BY <2>1 DEF Lost, IsLost, HolderAt, CutOff
    <2>3. QED
      BY <1>2, <2>1, <2>2 DEF RowsInv, Explained, Is
  <1>4. ASSUME NEW i \in JobIds, Produce(i) \/ LoseLock(i) \/ Stall(i) PROVE Explained(j)'
    BY <1>1, <1>4, AddRows, LoseLockRows, StallRows
       DEF Produce, SendNotification, GenerateHotRecommendations, GenerateDailyRecommendations,
           RetrainModels, IntelligentDataCleanup, Kinds
  <1>5. ASSUME NEW w \in Workers, Handle(w) \/ Crash(w) \/ CleanHistory(w) PROVE Explained(j)'
    BY <1>1, <1>5, HandleRows, FinishRows, CrashRows DEF Handle
  <1>6. ASSUME NEW w \in Workers, NEW i \in JobIds, Take(w, i) PROVE Explained(j)'
    BY <1>1, <1>6, TakeRows
  <1>7. QED
    BY <1>2, <1>3, <1>4, <1>5, <1>6 DEF Next, vars

(* There are no rows at first.                                             *)
LEMMA RowsInitially == Init => RowsInv
  BY DEF Init, JobsInit, RowsInv, Own, Explained, Is

(* A mail reported as sent was sent, and it was sent more often, or        *)
(* without being reported, only as often as an answer was lost or Bull     *)
(* found the job stalled (email.consumer.ts:36).                           *)
THEOREM MailsAccountedFor == Spec => []MailsAsReported
  <1>1. IInv /\ RowsInv => MailsAsReported
    <2> SUFFICES ASSUME IInv, RowsInv, NEW j \in JobIds, Is(j, {"email", "bare"})
                 PROVE  /\ jobs[j].state = "completed" => mails[j] >= 1
                        /\ mails[j] <= unheard[j] + jobs[j].stalls + Reported(j)
      BY DEF MailsAsReported
    <2>1. /\ done[j] + Cardinality(Running(j)) <= unheard[j] + jobs[j].stalls + Reported(j)
          /\ jobs[j].state = "completed" => done[j] >= 1
      BY DEF IInv, Paid, Is, Reporting
    <2>2. batches[j] = [running |-> 0, completed |-> 0]
      BY DEF RowsInv, Own, Is
    <2>3. /\ mails[j] \in Nat /\ unheard[j] \in Nat /\ Cardinality(Running(j)) \in Nat
          /\ jobs[j].stalls \in Nat /\ Reported(j) \in {0, 1}
      BY RunningFinite DEF IInv, Tables, Is, Job, Reported
    <2>4. done[j] = mails[j]
      BY <2>2, <2>3 DEF done
    <2>5. QED
      BY <2>1, <2>3, <2>4
  <1>2. QED
    BY Initially, InvStep, RowsInitially, RowsStep, <1>1, PTL DEF Spec

(* The rows of recommendation_batches tell what became of their job: a     *)
(* job that is completed completed one, and a row that no worker has in    *)
(* hand and that stays RUNNING is of a run that failed or was cut off      *)
(* (recommendation-job.service.ts:109).                                    *)
THEOREM BatchesAccountedFor == Spec => []BatchesAsReported
  <1>1. IInv /\ RowsInv => BatchesAsReported
    <2> SUFFICES ASSUME IInv, RowsInv, NEW j \in JobIds, Is(j, {"batch"})
                 PROVE  LET inHand == {w \in Workers : workers[w] = [job |-> j, stage |-> "made"]}
                            failing == {w \in Workers : workers[w] = [job |-> j, stage |-> "failed"]}
                        IN  /\ jobs[j].state = "completed" => batches[j].completed >= 1
                            /\ batches[j].completed <= unheard[j] + jobs[j].stalls + Reported(j)
                            /\ batches[j].running <= Cardinality(inHand) + Cardinality(failing)
                                 + CutOff(j) + jobs[j].tries + jobs[j].stalls
      BY DEF BatchesAsReported, CutOff
    <2> DEFINE inHand == {w \in Workers : workers[w] = [job |-> j, stage |-> "made"]}
               failing == {w \in Workers : workers[w] = [job |-> j, stage |-> "failed"]}
    <2>1. /\ done[j] + Cardinality(Running(j)) <= unheard[j] + jobs[j].stalls + Reported(j)
          /\ jobs[j].state = "completed" => done[j] >= 1
      BY DEF IInv, Paid, Is, Reporting
    <2>2. /\ batches[j].completed \in Nat /\ unheard[j] \in Nat /\ Cardinality(Running(j)) \in Nat
          /\ jobs[j].stalls \in Nat /\ Reported(j) \in {0, 1} /\ batches[j].running \in Int
          /\ jobs[j] # None /\ jobs[j] \in Job
      BY RunningFinite DEF IInv, Tables, Is, Job, Reported
    <2>3. mails[j] = 0
      BY DEF RowsInv, Own, Is
    <2>4. done[j] = batches[j].completed
      BY <2>2, <2>3 DEF done
    <2>5. /\ jobs[j].state = "completed" => batches[j].completed >= 1
          /\ batches[j].completed <= unheard[j] + jobs[j].stalls + Reported(j)
      BY <2>1, <2>2, <2>4
    <2>6. IsFiniteSet(inHand) /\ IsFiniteSet(failing)
      BY Constants, FS_Subset
    <2>7. Cardinality(inHand) \in Nat /\ Cardinality(failing) \in Nat
      BY <2>6, FS_CardinalityType
    <2>8. HolderAt(j) <= Cardinality(inHand) + Cardinality(failing)
      <3>1. CASE HolderAt(j) = 0
        BY <2>7, <3>1
      <3>2. CASE HolderAt(j) # 0
        <4>1. jobs[j].holder \in Workers /\ HolderAt(j) = 1
          BY <2>2, <3>2 DEF HolderAt, Job
        <4>2. PICK w \in Workers : w = jobs[j].holder
          BY <4>1
        <4>3. workers[w] \in Worker /\ workers[w].job = j /\ workers[w].stage \in {"made", "failed"}
          BY <3>2, <4>2 DEF HolderAt, IInv, Tables
        <4>4. w \in inHand \/ w \in failing
          BY <4>3 DEF Worker
        <4>5. Cardinality(inHand) # 0 \/ Cardinality(failing) # 0
          BY <2>6, <4>4, FS_EmptySet
        <4>6. QED
          BY <2>7, <4>1, <4>5
      <3>3. QED
        BY <3>1, <3>2
    <2>9. batches[j].running + Cardinality(Lost(j)) <= HolderAt(j) + CutOff(j) + jobs[j].tries + jobs[j].stalls
      BY DEF RowsInv, Explained
    <2>10. /\ Cardinality(Lost(j)) \in Nat /\ HolderAt(j) \in {0, 1} /\ CutOff(j) \in {0, 1}
           /\ jobs[j].tries \in Nat
      BY <2>2, LostFinite, DueType DEF IInv
    <2> HIDE DEF inHand, failing
    <2>11. batches[j].running <= Cardinality(inHand) + Cardinality(failing)
             + CutOff(j) + jobs[j].tries + jobs[j].stalls
      BY <2>2, <2>7, <2>8, <2>9, <2>10
    <2>12. QED
      BY <2>5, <2>11 DEF inHand, failing
  <1>2. QED
    BY Initially, InvStep, RowsInitially, RowsStep, <1>1, PTL DEF Spec

-----------------------------------------------------------------------------
(***************************************************************************)
(* The views of the visitors.                                              *)
(***************************************************************************)

(* What a request looks for next.                                          *)
KeyAt(v) == <<visits[v].viewer, Head(visits[v].left)>>

(* A request has views to write while it looks or writes; what it found is *)
(* an entry of the key, or was.                                            *)
Asks(v) ==
  /\ visits[v].stage = "idle" => visits[v].left = <<>>
  /\ visits[v].stage # "idle" => visits[v].left # <<>>
  /\ visits[v].stage = "write" /\ visits[v].viewer = Guest => visits[v].found = None
  /\ visits[v].stage = "write" /\ visits[v].found # None =>
       history[visits[v].found] = Deleted \/ visits[v].found \in RowsOf(KeyAt(v))

(* A signed-in user has one entry per product.                             *)
OneEntry ==
  \A r, s \in Rows : KeyOf(r) = KeyOf(s) /\ history[r].viewer # Guest => r = s

(* Requests that will miss the view of k they are about to write.          *)
Doomed(k) ==
  {v \in Visits : /\ visits[v].stage = "write" /\ KeyAt(v) = k
                  /\ IF visits[v].found = None THEN RowsOf(k) # {} ELSE visits[v].found \notin Rows}

There(k) == IF RowsOf(k) = {} THEN 0 ELSE 1

(* The bound on misses, of numbers: the requests, whether there is an      *)
(* entry, and what the deleted entries counted.                            *)
MostMisses(n, there, gone) == (n - 1) * (there + gone) + n * gone

Missable(k) ==
  IF k[1] = Guest THEN missed[k] = 0
  ELSE missed[k] + Cardinality(Doomed(k)) <= MostMisses(Cardinality(Visits), There(k), expired[k])

Balanced(k) == tracked[k] = Views(RowsOf(k)) + InFlight(k) + Uncounted(k) + expired[k]

Typed ==
  /\ history \in [RowIds -> Entry \cup {None, Deleted}]
  /\ \A r \in Rows : history[r].count >= 1
  /\ visits \in [Visits -> Visit]
  /\ tracked \in [Keys -> Nat] /\ expired \in [Keys -> Nat]
  /\ missed \in [Keys -> Nat] /\ refused \in [Keys -> Nat] /\ failed \in [Keys -> Nat]

ViewsInv ==
  /\ Typed /\ OneEntry
  /\ \A v \in Visits : Asks(v)
  /\ \A k \in Keys : Balanced(k) /\ Missable(k)

-----------------------------------------------------------------------------
(* What is assumed of the constants.                                       *)
LEMMA ActivityConstants ==
  /\ IsFiniteSet(RowIds) /\ IsFiniteSet(Visits) /\ Visits # {} /\ Guest \notin Users
  /\ None \notin RowIds /\ None # Deleted /\ None \notin Entry /\ Deleted \notin Entry
  BY ActivityAssumption, EntryAssumption DEF ActivityAssumption, EntryAssumption

(* The views that were lost are a number.                                  *)
LEMMA UncountedType ==
  Typed => \A k \in Keys : Uncounted(k) \in Nat
  <1> SUFFICES ASSUME Typed, NEW k \in Keys PROVE Uncounted(k) \in Nat
    OBVIOUS
  <1>1. missed[k] \in Nat /\ refused[k] \in Nat /\ failed[k] \in Nat
    BY DEF Typed
  <1>2. QED
    BY <1>1 DEF Uncounted

(* One view less in a list.                                                *)
LEMMA TimesTail ==
  ASSUME NEW P, NEW s \in Seq(P), s # <<>>, NEW p
  PROVE  /\ Times(p, Tail(s)) \in Nat
         /\ Times(p, s) = Times(p, Tail(s)) + (IF Head(s) = p THEN 1 ELSE 0)
  <1> DEFINE n == Len(s)
             A == {i \in DOMAIN s : s[i] = p}
             B == {i \in DOMAIN Tail(s) : Tail(s)[i] = p}
             C == A \ {1}
             f == [i \in B |-> i + 1]
  <1>1. /\ n \in Nat \ {0} /\ DOMAIN s = 1 .. n /\ Tail(s) \in Seq(P) /\ Len(Tail(s)) = n - 1
        /\ DOMAIN Tail(s) = 1 .. (n - 1)
        /\ Head(s) = s[1] /\ \A i \in 1 .. (n - 1) : Tail(s)[i] = s[i + 1]
    OBVIOUS
  <1>2. IsFiniteSet(A) /\ IsFiniteSet(B) /\ IsFiniteSet(C)
    <2>1. IsFiniteSet(1 .. n) /\ IsFiniteSet(1 .. (n - 1))
      BY <1>1, FS_Interval
    <2>2. A \subseteq 1 .. n /\ B \subseteq 1 .. (n - 1) /\ C \subseteq 1 .. n
      BY <1>1
    <2>3. QED
      BY <2>1, <2>2, FS_Subset
  <1> HIDE DEF n
  <1>3. f \in Bijection(B, C)
    <2>1. \A i \in B : i \in 1 .. (n - 1) /\ s[i + 1] = p
      BY <1>1
    <2>2. \A j \in C : j \in 2 .. n /\ s[j] = p
      BY <1>1
    <2>3. \A i \in B : i + 1 \in C
      BY <1>1, <2>1
    <2>4. \A j \in C : j - 1 \in B /\ (j - 1) + 1 = j
      BY <1>1, <2>2
    <2>5. f \in [B -> C]
      BY <2>3
    <2>6. \A x, y \in B : f[x] = f[y] => x = y
      BY <1>1, <2>1
    <2>7. \A j \in C : \E i \in B : f[i] = j
      BY <2>4
    <2> HIDE DEF f, B, C
    <2>8. f \in Injection(B, C) /\ f \in Surjection(B, C)
      BY <2>5, <2>6, <2>7 DEF Injection, Surjection, IsInjective
    <2>9. QED
      BY <2>8 DEF Bijection
  <1>4. Cardinality(C) = Cardinality(B) /\ Cardinality(B) \in Nat
    <2>1. ExistsBijection(B, C)
      BY <1>3 DEF ExistsBijection
    <2> HIDE DEF B, C
    <2>2. QED
      BY <1>2, <2>1, FS_Bijection, FS_CardinalityType
  <1>5. Cardinality(C) = IF 1 \in A THEN Cardinality(A) - 1 ELSE Cardinality(A)
    <2> HIDE DEF A
    <2>1. QED
      BY <1>2, FS_RemoveElement
  <1>6. 1 \in A <=> Head(s) = p
    BY <1>1
  <1>7. Cardinality(A) \in Nat
    <2> HIDE DEF A
    <2>1. QED
      BY <1>2, FS_CardinalityType
  <1>8. Times(p, s) = Cardinality(A) /\ Times(p, Tail(s)) = Cardinality(B)
    BY DEF Times
  <1> HIDE DEF A, B, C
  <1>9. QED
    BY <1>4, <1>5, <1>6, <1>7, <1>8

(* Nothing is viewed in no list, and in any list so many times.            *)
LEMMA TimesNone == ASSUME NEW p PROVE Times(p, <<>>) = 0
  <1>1. {i \in DOMAIN <<>> : <<>>[i] = p} = {}
    OBVIOUS
  <1>2. QED
    BY <1>1, FS_EmptySet DEF Times

(* A list has a product so many times.                                     *)
LEMMA TimesType ==
  ASSUME NEW P, NEW s \in Seq(P), NEW p PROVE Times(p, s) \in Nat
  <1>1. IsFiniteSet(1 .. Len(s)) /\ DOMAIN s = 1 .. Len(s)
    BY FS_Interval
  <1>2. {i \in DOMAIN s : s[i] = p} \subseteq 1 .. Len(s)
    BY <1>1
  <1>3. IsFiniteSet({i \in DOMAIN s : s[i] = p})
    BY <1>1, <1>2, FS_Subset
  <1>4. QED
    BY <1>3, FS_CardinalityType DEF Times

(* The views a request has still to write.                                 *)
Share(q, k) == IF q.viewer = k[1] THEN Times(k[2], q.left) ELSE 0

(* A share is a number of views.                                           *)
LEMMA ShareType == ASSUME NEW q \in Visit, NEW k \in Keys PROVE Share(q, k) \in Nat
  BY TimesType DEF Share, Visit

(* One request moves.                                                      *)
LEMMA FlightChanges ==
  ASSUME Typed, NEW v \in Visits, NEW q \in Visit, visits' = [visits EXCEPT ![v] = q], NEW k \in Keys
  PROVE  /\ InFlight(k) \in Nat /\ InFlight(k)' \in Int
         /\ Share(q, k) \in Nat /\ Share(visits[v], k) \in Nat
         /\ InFlight(k)' = InFlight(k) - Share(visits[v], k) + Share(q, k)
  <1> DEFINE f == [x \in Visits |-> Share(visits[x], k)]
             h == [x \in Visits |-> Share(visits'[x], k)]
  <1>1. InFlight(k) = SumFunction(f) /\ InFlight(k)' = SumFunction(h)
    BY DEF InFlight, Share
  <1>2. visits \in [Visits -> Visit] /\ visits' \in [Visits -> Visit]
    BY DEF Typed
  <1>3. f \in [Visits -> Nat] /\ h \in [Visits -> Nat]
    BY <1>2, ShareType
  <1>4. f \in [Visits -> Int] /\ h \in [Visits -> Int]
    BY <1>3
  <1>5. f[v] = Share(visits[v], k) /\ h[v] = Share(q, k) /\ \A x \in Visits : x # v => f[x] = h[x]
    BY <1>2
  <1>6. Share(q, k) \in Nat /\ Share(visits[v], k) \in Nat
    BY <1>2, ShareType
  <1> HIDE DEF f, h
  <1>7. SumFunction(h) = SumFunction(f) - f[v] + h[v] /\ SumFunction(h) \in Int
    BY <1>4, <1>5, OneTermChanges, ActivityConstants
  <1>8. SumFunction(f) \in Nat
    BY <1>3, WholeSumNat, ActivityConstants
  <1>9. QED
    BY <1>1, <1>5, <1>6, <1>7, <1>8

(* The entries that exist are entries.                                     *)
LEMMA RowsAreEntries ==
  ASSUME Typed, NEW r \in RowIds
  PROVE  r \in Rows <=> history[r] \in Entry
  BY ActivityConstants DEF Typed, Rows

(* The views of some entries are a number.                                 *)
LEMMA ViewsType ==
  ASSUME Typed, NEW S \in SUBSET Rows
  PROVE  Views(S) \in Nat
  <1> DEFINE f == [r \in RowIds |-> IF r \in S THEN history[r].count ELSE 0]
  <1>1. f \in [RowIds -> Nat]
    BY RowsAreEntries DEF Entry, Rows
  <1> HIDE DEF f
  <1>2. SumFunction(f) \in Nat
    BY <1>1, WholeSumNat, ActivityConstants
  <1>3. QED
    BY <1>2 DEF Views, f

-----------------------------------------------------------------------------
(* What an entry counts for a key.                                         *)
Worth(e, k) == IF e \in Entry /\ <<e.viewer, e.product>> = k THEN e.count ELSE 0

Histories == history \in [RowIds -> Entry \cup {None, Deleted}]

(* The entries of a key count what each of them is worth for it.           *)
LEMMA WorthOfRows ==
  Histories => \A k \in Keys :
    /\ Views(RowsOf(k)) = SumFunction([r \in RowIds |-> Worth(history[r], k)])
    /\ [r \in RowIds |-> Worth(history[r], k)] \in [RowIds -> Nat]
  <1> SUFFICES ASSUME Histories, NEW k \in Keys
               PROVE  /\ Views(RowsOf(k)) = SumFunction([r \in RowIds |-> Worth(history[r], k)])
                      /\ [r \in RowIds |-> Worth(history[r], k)] \in [RowIds -> Nat]
    OBVIOUS
  <1>1. ASSUME NEW r \in RowIds
        PROVE  /\ (IF r \in RowsOf(k) THEN history[r].count ELSE 0) = Worth(history[r], k)
               /\ Worth(history[r], k) \in Nat
    <2>1. r \in Rows <=> history[r] \in Entry
      BY ActivityConstants DEF Histories, Rows
    <2>2. CASE r \in Rows
      BY <2>1, <2>2 DEF RowsOf, KeyOf, Worth, Entry
    <2>3. CASE r \notin Rows
      BY <2>1, <2>3 DEF RowsOf, Worth
    <2>4. QED
      BY <2>2, <2>3
  <1>2. [r \in RowIds |-> IF r \in RowsOf(k) THEN history[r].count ELSE 0]
          = [r \in RowIds |-> Worth(history[r], k)]
    BY <1>1
  <1>3. QED
    BY <1>1, <1>2 DEF Views

(* So they do after a step.                                                *)
LEMMA WorthAfter ==
  (Histories => \A k \in Keys :
     /\ Views(RowsOf(k)) = SumFunction([r \in RowIds |-> Worth(history[r], k)])
     /\ [r \in RowIds |-> Worth(history[r], k)] \in [RowIds -> Nat])'
  BY WorthOfRows, PTL

(* One entry is written.                                                   *)
LEMMA ViewsChange ==
  ASSUME Histories, NEW r \in RowIds, NEW e \in Entry \cup {None, Deleted},
         history' = [history EXCEPT ![r] = e], NEW k \in Keys
  PROVE  /\ Views(RowsOf(k)) \in Nat /\ Views(RowsOf(k))' \in Nat
         /\ Worth(history[r], k) \in Nat /\ Worth(e, k) \in Nat
         /\ Views(RowsOf(k))' = Views(RowsOf(k)) - Worth(history[r], k) + Worth(e, k)
  <1> DEFINE f == [x \in RowIds |-> Worth(history[x], k)]
             h == [x \in RowIds |-> Worth(history'[x], k)]
  <1>1. Histories'
    BY DEF Histories
  <1>2. /\ Views(RowsOf(k)) = SumFunction(f) /\ Views(RowsOf(k))' = SumFunction(h)
        /\ f \in [RowIds -> Nat] /\ h \in [RowIds -> Nat]
    BY <1>1, WorthOfRows, WorthAfter
  <1>3. f \in [RowIds -> Int] /\ h \in [RowIds -> Int]
    BY <1>2
  <1>4. /\ f[r] = Worth(history[r], k) /\ h[r] = Worth(e, k)
        /\ \A x \in RowIds : x # r => f[x] = h[x]
    BY DEF Histories
  <1>5. f[r] \in Nat /\ h[r] \in Nat
    BY <1>2
  <1> HIDE DEF f, h
  <1>6. SumFunction(h) = SumFunction(f) - f[r] + h[r]
    BY <1>3, <1>4, OneTermChanges, ActivityConstants
  <1>7. SumFunction(f) \in Nat /\ SumFunction(h) \in Nat
    BY <1>2, WholeSumNat, ActivityConstants
  <1>8. QED
    BY <1>2, <1>4, <1>5, <1>6, <1>7

(* What a step may do to the entries: keep them for their keys, or delete  *)
(* them for good.                                                          *)
RowsKept ==
  \A r \in RowIds :
    /\ history[r] = Deleted => history'[r] = Deleted
    /\ r \in Rows => history'[r] = Deleted \/ (r \in Rows' /\ KeyOf(r)' = KeyOf(r))

(* A request that does not move still asks for the same.                   *)
LEMMA AsksStay ==
  ASSUME Typed, RowsKept, NEW v \in Visits, Asks(v), visits'[v] = visits[v]
  PROVE  Asks(v)'
  <1>1. visits[v].found \in RowIds \cup {None}
    BY DEF Typed, Visit
  <1>2. KeyAt(v)' = KeyAt(v)
    BY DEF KeyAt
  <1>3. ASSUME visits[v].stage = "write", visits[v].found # None
        PROVE  history'[visits[v].found] = Deleted \/ visits[v].found \in RowsOf(KeyAt(v))'
    BY <1>1, <1>2, <1>3 DEF Asks, RowsKept, RowsOf
  <1>4. QED
    BY <1>3 DEF Asks

(* The entries keep who they are of.                                       *)
Same == Rows' = Rows /\ \A r \in Rows : KeyOf(r)' = KeyOf(r)

(* Then each key has the entries it had.                                   *)
LEMMA SameRows ==
  ASSUME Typed, Same, \A r \in RowIds : history[r] = Deleted => history'[r] = Deleted
  PROVE  /\ RowsKept /\ \A k : RowsOf(k)' = RowsOf(k) /\ There(k)' = There(k)
         /\ OneEntry => OneEntry'
  <1>1. \A k : RowsOf(k)' = RowsOf(k)
    BY DEF Same, RowsOf
  <1>2. RowsKept
    BY DEF RowsKept, Same
  <1>3. \A k : There(k)' = There(k)
    BY <1>1 DEF There
  <1>4. \A r \in Rows : KeyOf(r)[1] = history[r].viewer /\ KeyOf(r)'[1] = history'[r].viewer
    BY DEF KeyOf
  <1>5. OneEntry => OneEntry'
    BY <1>4 DEF OneEntry, Same
  <1>6. QED
    BY <1>1, <1>2, <1>3, <1>5

(* Requests that will miss a view are finitely many.                       *)
LEMMA DoomedFinite ==
  ASSUME NEW k PROVE IsFiniteSet(Doomed(k)) /\ Cardinality(Doomed(k)) \in Nat
  <1>1. Doomed(k) \in SUBSET Visits
    BY DEF Doomed
  <1>2. QED
    BY <1>1, ActivityConstants, FS_Subset, FS_CardinalityType

(* Nothing more of key k is to be missed.                                  *)
LEMMA NoMoreMissed ==
  ASSUME Typed, NEW k \in Keys, Missable(k), Doomed(k)' \subseteq Doomed(k), There(k)' = There(k),
         missed'[k] = missed[k], expired'[k] = expired[k]
  PROVE  Missable(k)'
  <1>1. PICK D : D = Doomed(k)'
    OBVIOUS
  <1>2. IsFiniteSet(D) /\ Cardinality(D) <= Cardinality(Doomed(k)) /\ Cardinality(D) \in Nat
    BY <1>1, DoomedFinite, FS_Subset, FS_CardinalityType
  <1>3. CASE k[1] = Guest
    BY <1>3 DEF Missable
  <1>4. CASE k[1] # Guest
    <2> DEFINE m == MostMisses(Cardinality(Visits), There(k), expired[k])
    <2>1. Cardinality(Visits) \in Nat /\ There(k) \in Int /\ expired[k] \in Int
      BY ActivityConstants, FS_CardinalityType DEF There, Typed
    <2>2. m \in Int /\ missed[k] \in Int
      BY <2>1 DEF MostMisses, Typed
    <2>3. missed[k] + Cardinality(Doomed(k)) <= m
      BY <1>4 DEF Missable
    <2>4. MostMisses(Cardinality(Visits), There(k), expired[k])' = m
      BY DEF MostMisses
    <2> HIDE DEF m
    <2>5. missed'[k] + Cardinality(D) <= m
      BY <1>2, <2>2, <2>3, DoomedFinite
    <2>6. QED
      BY <1>1, <1>4, <2>4, <2>5 DEF Missable
  <1>5. QED
    BY <1>3, <1>4

(* Only request v moves, and is not to miss k after.                       *)
LEMMA DoomedSame ==
  ASSUME Rows \subseteq Rows', NEW k, RowsOf(k)' = RowsOf(k), NEW v \in Visits,
         \A u \in Visits : u # v => visits'[u] = visits[u], v \notin Doomed(k)'
  PROVE  Doomed(k)' \subseteq Doomed(k)
  <1> SUFFICES ASSUME NEW u \in Doomed(k)' PROVE u \in Doomed(k)
    OBVIOUS
  <1>1. u \in Visits /\ u # v /\ visits'[u] = visits[u]
    BY DEF Doomed
  <1>2. QED
    BY <1>1 DEF Doomed, KeyAt

-----------------------------------------------------------------------------
(* Request v moves on to q, and does not write next.                       *)
Moves(v, q) ==
  /\ visits' = [visits EXCEPT ![v] = q] /\ q \in Visit /\ q.stage # "write"
  /\ q.stage = "idle" => q.left = <<>>
  /\ q.stage # "idle" => q.left # <<>>

(* Such a move keeps what is known of the requests.                        *)
LEMMA MovesOn ==
  ASSUME ViewsInv, NEW v \in Visits, NEW q, Moves(v, q)
  PROVE  /\ visits' \in [Visits -> Visit] /\ visits'[v] = q
         /\ \A u \in Visits : u # v => visits'[u] = visits[u]
         /\ RowsKept => \A u \in Visits : Asks(u)'
         /\ \A k : v \notin Doomed(k)'
  <1>1. visits \in [Visits -> Visit]
    BY DEF ViewsInv, Typed
  <1>2. /\ visits' \in [Visits -> Visit] /\ visits'[v] = q
        /\ \A u \in Visits : u # v => visits'[u] = visits[u]
    BY <1>1 DEF Moves
  <1>3. Asks(v)'
    BY <1>2 DEF Asks, Moves
  <1>4. ASSUME RowsKept, NEW u \in Visits, u # v PROVE Asks(u)'
    BY <1>2, <1>4, AsksStay DEF ViewsInv
  <1>5. \A k : v \notin Doomed(k)'
    BY <1>2 DEF Doomed, Moves
  <1>6. QED
    BY <1>2, <1>3, <1>4, <1>5

(* A request that wrote or missed a view has one less to write.            *)
LEMMA Advances ==
  ASSUME ViewsInv, NEW v \in Visits, visits[v].stage # "idle", Advance(v)
  PROVE  /\ KeyAt(v) \in Keys
         /\ \E q \in Visit :
              /\ Moves(v, q)
              /\ \A k \in Keys : Share(visits[v], k) = Share(q, k) + (IF KeyAt(v) = k THEN 1 ELSE 0)
  <1> DEFINE s == visits[v].left
             x == [visits[v] EXCEPT !.left = Tail(visits[v].left), !.stage = "find", !.found = None]
             q == IF Len(s) = 1 THEN NoVisit ELSE x
  <1>1. visits[v] \in Visit /\ s \in Seq(Products) /\ s # <<>> /\ visits[v].viewer \in Viewers
    BY DEF ViewsInv, Typed, Visit, Asks
  <1>2. visits' = [visits EXCEPT ![v] = q]
    BY DEF Advance
  <1>3. Head(s) \in Products /\ Tail(s) \in Seq(Products) /\ (Len(s) = 1 => Tail(s) = <<>>)
        /\ (Len(s) # 1 => Tail(s) # <<>>)
    <2> HIDE DEF s
    <2>1. Head(s) \in Products /\ Tail(s) \in Seq(Products) /\ Len(s) \in Nat /\ Len(s) >= 1
          /\ Len(Tail(s)) = Len(s) - 1
      BY <1>1
    <2>2. \A t \in Seq(Products) : Len(t) = 0 <=> t = <<>>
      OBVIOUS
    <2> DEFINE t == Tail(s)
               n == Len(s)
    <2>3. n \in Nat /\ n >= 1 /\ Len(t) = n - 1 /\ (Len(t) = 0 <=> t = <<>>)
      BY <2>1, <2>2
    <2> HIDE DEF t, n
    <2>4. (n = 1 => t = <<>>) /\ (n # 1 => t # <<>>)
      BY <2>3
    <2>5. QED
      BY <2>1, <2>4 DEF t, n
  <1>4. KeyAt(v) \in Keys
    BY <1>1, <1>3 DEF KeyAt, Keys
  <1>5. NoVisit \in Visit /\ NoVisit.viewer = Guest /\ NoVisit.left = <<>> /\ NoVisit.stage = "idle"
    BY DEF NoVisit, Visit, Viewers
  <1>6. x \in Visit /\ x.viewer = visits[v].viewer /\ x.left = Tail(s) /\ x.stage = "find"
    <2> DEFINE t == Tail(s)
    <2>1. t \in Seq(Products)
      BY <1>3
    <2>2. x = [visits[v] EXCEPT !.left = t, !.stage = "find", !.found = None]
      OBVIOUS
    <2> HIDE DEF t, x
    <2>3. x \in Visit /\ x.viewer = visits[v].viewer /\ x.left = t /\ x.stage = "find"
      BY <1>1, <2>1, <2>2 DEF Visit
    <2>4. QED
      BY <2>3 DEF t
  <1> HIDE DEF x
  <1>7. q \in Visit /\ Moves(v, q)
    BY <1>2, <1>3, <1>5, <1>6 DEF Moves
  <1>8. ASSUME NEW k \in Keys
        PROVE  Share(visits[v], k) = Share(q, k) + (IF KeyAt(v) = k THEN 1 ELSE 0)
    <2>1. /\ Times(k[2], Tail(s)) \in Nat
          /\ Times(k[2], s) = Times(k[2], Tail(s)) + (IF Head(s) = k[2] THEN 1 ELSE 0)
      BY <1>1, TimesTail
    <2>2. KeyAt(v) = k <=> visits[v].viewer = k[1] /\ Head(s) = k[2]
      BY DEF KeyAt, Keys
    <2>3. Share(q, k) = IF visits[v].viewer = k[1] THEN Times(k[2], Tail(s)) ELSE 0
      <3>1. CASE Len(s) = 1
        <4>1. Share(q, k) = 0
          BY <1>5, <3>1, TimesNone DEF Share
        <4>2. Times(k[2], Tail(s)) = 0
          BY <1>3, <3>1, TimesNone
        <4>3. QED
          BY <4>1, <4>2
      <3>2. CASE Len(s) # 1
        BY <1>6, <3>2 DEF Share
      <3>3. QED
        BY <3>1, <3>2
    <2>4. Share(visits[v], k) = IF visits[v].viewer = k[1] THEN Times(k[2], s) ELSE 0
      BY DEF Share
    <2> HIDE DEF s, q
    <2>5. QED
      BY <2>1, <2>2, <2>3, <2>4
  <1>9. QED
    BY <1>4, <1>7, <1>8

(* Activities are stored, and their views are to be written.               *)
LEMMA TrackViews ==
  ASSUME ViewsInv, NEW v \in Visits, NEW viewer \in Viewers, NEW views \in ViewLists, Track(v, viewer, views)
  PROVE  ViewsInv'
  <1> DEFINE q == [viewer |-> viewer, left |-> views, stage |-> "find", found |-> None]
  <1>1. views \in Seq(Products) /\ views # <<>>
    <2>1. PICK n \in 1 .. MaxBatch : views \in [1 .. n -> Products]
      BY DEF ViewLists
    <2>2. n \in Nat /\ n >= 1 
      BY ActivityAssumption DEF ActivityAssumption
    <2>3. QED
      BY <2>1, <2>2
  <1>2. /\ visits[v].stage = "idle" /\ UNCHANGED <<history, missed, refused, failed, expired>>
        /\ visits' = [visits EXCEPT ![v] = q]
        /\ tracked' = [k \in Keys |-> tracked[k] + (IF k[1] = viewer THEN Times(k[2], views) ELSE 0)]
    BY DEF Track
  <1>3. /\ q \in Visit /\ q.viewer = viewer /\ q.left = views /\ q.stage = "find"
    BY <1>1 DEF Visit
  <1> HIDE DEF q
  <1>4. Moves(v, q)
    BY <1>1, <1>2, <1>3 DEF Moves
  <1>5. Same /\ \A r \in RowIds : history[r] = Deleted => history'[r] = Deleted
    BY <1>2 DEF Same, Rows, KeyOf
  <1>6. /\ RowsKept /\ \A k : RowsOf(k)' = RowsOf(k) /\ There(k)' = There(k)
        /\ OneEntry'
    BY <1>5, SameRows DEF ViewsInv
  <1>7. /\ visits' \in [Visits -> Visit] /\ visits'[v] = q
        /\ \A u \in Visits : u # v => visits'[u] = visits[u]
        /\ \A u \in Visits : Asks(u)'
        /\ \A k : v \notin Doomed(k)'
    BY <1>4, <1>6, MovesOn
  <1>8. \A k \in Keys : tracked'[k] = tracked[k] + Share(q, k) /\ Share(q, k) \in Nat
    BY <1>2, <1>3, ShareType DEF Share
  <1>9. Typed'
    <2>1. tracked' \in [Keys -> Nat]
      <3>1. \A k \in Keys : tracked[k] \in Nat
        BY DEF ViewsInv, Typed
      <3>2. \A k \in Keys : tracked'[k] \in Nat
        BY <1>8, <3>1
      <3>3. QED
        BY <1>2, <3>2
    <2>2. Rows' = Rows /\ \A r \in Rows : history'[r].count = history[r].count
      BY <1>2 DEF Rows
    <2>3. QED
      BY <1>2, <1>7, <2>1, <2>2 DEF ViewsInv, Typed
  <1>10. ASSUME NEW k \in Keys PROVE Balanced(k)'
    <2>1. /\ InFlight(k) \in Nat /\ InFlight(k)' \in Int /\ Share(q, k) \in Nat
          /\ InFlight(k)' = InFlight(k) - Share(visits[v], k) + Share(q, k)
      BY <1>2, <1>3, FlightChanges DEF ViewsInv
    <2>2. Share(visits[v], k) = 0
      <3>1. visits[v].left = <<>>
        BY <1>2 DEF ViewsInv, Asks
      <3>2. QED
        BY <3>1, TimesNone DEF Share
    <2>3. Views(RowsOf(k))' = Views(RowsOf(k))
      BY <1>2, <1>6 DEF Views
    <2>4. Views(RowsOf(k)) \in Nat
      BY ViewsType DEF ViewsInv, RowsOf
    <2>5. tracked[k] = Views(RowsOf(k)) + InFlight(k) + Uncounted(k) + expired[k]
      BY DEF ViewsInv, Balanced
    <2>6. /\ Uncounted(k) \in Nat /\ expired[k] \in Nat /\ tracked[k] \in Nat
          /\ Uncounted(k)' = Uncounted(k)
      BY <1>2, UncountedType DEF ViewsInv, Typed, Uncounted
    <2>7. tracked'[k] = Views(RowsOf(k))' + InFlight(k)' + Uncounted(k)' + expired'[k]
      BY <1>2, <1>8, <2>1, <2>2, <2>3, <2>4, <2>5, <2>6
    <2>8. QED
      BY <2>7 DEF Balanced
  <1>11. ASSUME NEW k \in Keys PROVE Missable(k)'
    <2>1. Doomed(k)' \subseteq Doomed(k)
      BY <1>6, <1>7, <1>5, DoomedSame DEF Same
    <2>2. QED
      BY <1>2, <1>6, <2>1, NoMoreMissed DEF ViewsInv
  <1>12. QED
    BY <1>6, <1>7, <1>9, <1>10, <1>11 DEF ViewsInv

(* A request looks for the entry of its next view.                         *)
LEMMA FindViews ==
  ASSUME ViewsInv, NEW v \in Visits, Find(v)
  PROVE  ViewsInv'
  <1>1. /\ visits[v].stage = "find" /\ UNCHANGED <<history, tracked, missed, refused, failed, expired>>
        /\ visits[v] \in Visit
    BY DEF Find, ViewsInv, Typed
  <1>2. PICK r \in IF KeyAt(v)[1] = Guest \/ RowsOf(KeyAt(v)) = {} THEN {None} ELSE RowsOf(KeyAt(v)) :
          visits' = [visits EXCEPT ![v].stage = "write", ![v].found = r]
    BY DEF Find, KeyAt
  <1> DEFINE q == [visits[v] EXCEPT !.stage = "write", !.found = r]
  <1>3. r \in RowIds \cup {None}
    BY <1>2 DEF RowsOf, Rows
  <1>4. visits' = [visits EXCEPT ![v] = q]
    BY <1>2 DEF ViewsInv, Typed
  <1>5. /\ q \in Visit /\ q.viewer = visits[v].viewer /\ q.left = visits[v].left
        /\ q.stage = "write" /\ q.found = r
    BY <1>1, <1>3 DEF Visit
  <1> HIDE DEF q
  <1>6. Same /\ \A x \in RowIds : history[x] = Deleted => history'[x] = Deleted
    BY <1>1 DEF Same, Rows, KeyOf
  <1>7. /\ RowsKept /\ \A k : RowsOf(k)' = RowsOf(k) /\ There(k)' = There(k)
        /\ OneEntry'
    BY <1>6, SameRows DEF ViewsInv
  <1>8. /\ visits' \in [Visits -> Visit] /\ visits'[v] = q
        /\ \A u \in Visits : u # v => visits'[u] = visits[u]
    BY <1>4, <1>5 DEF ViewsInv, Typed
  <1>9. KeyAt(v)' = KeyAt(v)
    BY <1>5, <1>8 DEF KeyAt
  <1>10. \A u \in Visits : Asks(u)'
    <2>1. Asks(v)'
      <3>1. visits[v].left # <<>>
        BY <1>1 DEF ViewsInv, Asks
      <3>2. KeyAt(v)[1] = visits[v].viewer
        BY DEF KeyAt
      <3>3. r # None => r \in RowsOf(KeyAt(v))'
        BY <1>2, <1>6, <1>9 DEF RowsOf, Same
      <3>4. visits[v].viewer = Guest => r = None
        BY <1>2, <3>2
      <3>5. QED
        BY <1>5, <1>8, <1>9, <3>1, <3>3, <3>4 DEF Asks
    <2>2. ASSUME NEW u \in Visits, u # v PROVE Asks(u)'
      BY <1>7, <1>8, <2>2, AsksStay DEF ViewsInv
    <2>3. QED
      BY <2>1, <2>2
  <1>11. Typed'
    <2>1. Rows' = Rows
      BY <1>6 DEF Same
    <2>2. QED
      BY <1>1, <1>8, <2>1 DEF ViewsInv, Typed
  <1>12. ASSUME NEW k \in Keys PROVE Balanced(k)'
    <2>1. /\ InFlight(k) \in Nat
          /\ InFlight(k)' = InFlight(k) - Share(visits[v], k) + Share(q, k)
          /\ Share(q, k) \in Nat
      BY <1>4, <1>5, FlightChanges DEF ViewsInv
    <2>2. Share(visits[v], k) = Share(q, k)
      BY <1>5 DEF Share
    <2>3. InFlight(k)' = InFlight(k)
      BY <2>1, <2>2
    <2>4. Views(RowsOf(k))' = Views(RowsOf(k))
      BY <1>1, <1>7 DEF Views
    <2>5. QED
      BY <1>1, <2>3, <2>4 DEF ViewsInv, Balanced, Uncounted
  <1>13. ASSUME NEW k \in Keys PROVE Missable(k)'
    <2>1. CASE k[1] = Guest
      BY <1>1, <2>1 DEF ViewsInv, Missable
    <2>2. CASE k[1] # Guest
      <3>1. v \notin Doomed(k)'
        <4>1. SUFFICES ASSUME KeyAt(v) = k
                       PROVE  IF r = None THEN RowsOf(k) = {} ELSE r \in Rows
          BY <1>5, <1>6, <1>7, <1>8, <1>9 DEF Doomed, Same
        <4>2. QED
          BY <1>2, <2>2, <4>1, ActivityConstants DEF RowsOf, Rows
      <3>2. Doomed(k)' \subseteq Doomed(k)
        BY <1>6, <1>7, <1>8, <3>1, DoomedSame DEF Same
      <3>3. QED
        BY <1>1, <1>7, <3>2, NoMoreMissed DEF ViewsInv
    <2>3. QED
      BY <2>1, <2>2
  <1>14. QED
    BY <1>7, <1>10, <1>11, <1>12, <1>13 DEF ViewsInv

-----------------------------------------------------------------------------
(* A request writes or misses a view of its key: with what the step does   *)
(* to the entries and to what was missed, every view is accounted for.     *)
LEMMA WritesBalanced ==
  ASSUME ViewsInv, NEW v \in Visits, visits[v].stage # "idle", Advance(v), NEW k \in Keys,
         Views(RowsOf(k))' + Uncounted(k)'
           = Views(RowsOf(k)) + Uncounted(k) + (IF KeyAt(v) = k THEN 1 ELSE 0),
         Views(RowsOf(k))' \in Int, Uncounted(k)' \in Int,
         tracked'[k] = tracked[k], expired'[k] = expired[k]
  PROVE  Balanced(k)'
  <1>1. PICK q \in Visit :
          /\ Moves(v, q)
          /\ Share(visits[v], k) = Share(q, k) + (IF KeyAt(v) = k THEN 1 ELSE 0)
    BY Advances
  <1>2. /\ InFlight(k) \in Nat /\ InFlight(k)' \in Int /\ Share(q, k) \in Nat
        /\ InFlight(k)' = InFlight(k) - Share(visits[v], k) + Share(q, k)
    BY <1>1, FlightChanges DEF ViewsInv, Moves
  <1>3. Views(RowsOf(k)) \in Nat
    BY ViewsType DEF ViewsInv, RowsOf
  <1>4. Uncounted(k) \in Nat /\ expired[k] \in Nat /\ tracked[k] \in Nat
    BY UncountedType DEF ViewsInv, Typed
  <1>5. tracked[k] = Views(RowsOf(k)) + InFlight(k) + Uncounted(k) + expired[k]
    BY DEF ViewsInv, Balanced
  <1> DEFINE d == IF KeyAt(v) = k THEN 1 ELSE 0
  <1>6. /\ d \in Int /\ Share(visits[v], k) = Share(q, k) + d
        /\ Views(RowsOf(k))' + Uncounted(k)' = Views(RowsOf(k)) + Uncounted(k) + d
    BY <1>1
  <1> HIDE DEF d
  <1>7. tracked'[k] = Views(RowsOf(k))' + InFlight(k)' + Uncounted(k)' + expired'[k]
    BY <1>2, <1>3, <1>4, <1>5, <1>6
  <1>8. QED
    BY <1>7 DEF Balanced

(* The entry that was found counts one view more.                          *)
LEMMA IncrementViews ==
  ASSUME ViewsInv, NEW v \in Visits, Increment(v)
  PROVE  ViewsInv'
  <1> DEFINE r == visits[v].found
             n == history[r].count + 1
             e == [history[r] EXCEPT !.count = n]
  <1>1. /\ visits[v].stage = "write" /\ r # None /\ r \in Rows /\ Advance(v)
        /\ UNCHANGED <<tracked, missed, refused, failed, expired>>
    BY DEF Increment
  <1>2. r \in RowIds /\ history[r] \in Entry
    BY <1>1, RowsAreEntries DEF ViewsInv, Rows
  <1>3. history' = [history EXCEPT ![r] = e]
    BY <1>2 DEF Increment, ViewsInv, Typed
  <1>4. n \in Nat /\ n >= 1 /\ n = history[r].count + 1 /\ history[r].count \in Nat
    BY <1>2 DEF Entry
  <1>5. /\ e \in Entry /\ e.count = n /\ e.viewer = history[r].viewer /\ e.product = history[r].product
    <2> HIDE DEF n
    <2>1. QED
      BY <1>2, <1>4 DEF Entry
  <1>k. KeyOf(r) = KeyAt(v) /\ KeyOf(r) = <<e.viewer, e.product>>
    BY <1>1, <1>5, ActivityConstants DEF ViewsInv, Asks, RowsOf, KeyOf, Rows
  <1> HIDE DEF r, n, e
  <1>6. history'[r] = e /\ \A x \in RowIds : x # r => history'[x] = history[x]
    BY <1>2, <1>3 DEF ViewsInv, Typed
  <1>7. Rows' = Rows
    BY <1>1, <1>5, <1>6, ActivityConstants DEF Rows
  <1>8. Same /\ \A x \in RowIds : history[x] = Deleted => history'[x] = Deleted
    <2>1. \A x \in Rows : KeyOf(x)' = KeyOf(x)
      BY <1>5, <1>6 DEF KeyOf, Rows
    <2>2. \A x \in RowIds : history[x] = Deleted => history'[x] = Deleted
      BY <1>1, <1>6 DEF Rows
    <2>3. QED
      BY <1>7, <2>1, <2>2 DEF Same
  <1>9. /\ RowsKept /\ \A k : RowsOf(k)' = RowsOf(k) /\ There(k)' = There(k)
        /\ OneEntry'
    BY <1>8, SameRows DEF ViewsInv
  <1>10. PICK q \in Visit : Moves(v, q)
    BY <1>1, Advances
  <1>11. /\ visits' \in [Visits -> Visit] /\ visits'[v] = q
         /\ \A u \in Visits : u # v => visits'[u] = visits[u]
         /\ \A u \in Visits : Asks(u)'
         /\ \A k : v \notin Doomed(k)'
    BY <1>9, <1>10, MovesOn
  <1>12. Typed'
    <2>1. history' \in [RowIds -> Entry \cup {None, Deleted}]
      BY <1>3, <1>5 DEF ViewsInv, Typed
    <2>2. \A x \in Rows : history'[x].count >= 1
      BY <1>4, <1>5, <1>6 DEF ViewsInv, Typed, Rows
    <2>3. QED
      BY <1>1, <1>7, <1>11, <2>1, <2>2 DEF ViewsInv, Typed
  <1>13. ASSUME NEW k \in Keys PROVE Balanced(k)'
    <2>1. /\ Views(RowsOf(k)) \in Nat /\ Views(RowsOf(k))' \in Nat
          /\ Worth(history[r], k) \in Nat /\ Worth(e, k) \in Nat
          /\ Views(RowsOf(k))' = Views(RowsOf(k)) - Worth(history[r], k) + Worth(e, k)
      BY <1>2, <1>3, <1>5, ViewsChange DEF ViewsInv, Typed, Histories
    <2>2. Worth(e, k) = Worth(history[r], k) + (IF KeyAt(v) = k THEN 1 ELSE 0)
      BY <1>2, <1>4, <1>5, <1>k DEF Worth, KeyOf
    <2>3. Uncounted(k) \in Nat /\ Uncounted(k)' = Uncounted(k)
      BY <1>1, UncountedType DEF ViewsInv, Uncounted
    <2> DEFINE d == IF KeyAt(v) = k THEN 1 ELSE 0
    <2>4. d \in Int /\ Worth(e, k) = Worth(history[r], k) + d
      BY <2>2
    <2> HIDE DEF d
    <2>5. Views(RowsOf(k))' + Uncounted(k)' = Views(RowsOf(k)) + Uncounted(k) + d
      BY <1>1, <2>1, <2>3, <2>4
    <2>6. QED
      BY <1>1, <2>1, <2>3, <2>5, WritesBalanced DEF d
  <1>14. ASSUME NEW k \in Keys PROVE Missable(k)'
    <2>1. Doomed(k)' \subseteq Doomed(k)
      BY <1>7, <1>9, <1>11, DoomedSame
    <2>2. QED
      BY <1>1, <1>9, <2>1, NoMoreMissed DEF ViewsInv
  <1>15. QED
    BY <1>9, <1>11, <1>12, <1>13, <1>14 DEF ViewsInv

(* An entry grows old.                                                     *)
LEMMA GrowViews ==
  ASSUME ViewsInv, NEW r \in RowIds, Grow(r)
  PROVE  ViewsInv'
  <1> DEFINE e == [history[r] EXCEPT !.old = TRUE]
  <1>1. /\ r \in Rows /\ UNCHANGED <<visits, tracked, missed, refused, failed, expired>>
        /\ history[r] \in Entry /\ history' = [history EXCEPT ![r] = e]
    BY RowsAreEntries DEF Grow, ViewsInv, Typed
  <1>2. /\ e \in Entry /\ e.count = history[r].count /\ e.viewer = history[r].viewer
        /\ e.product = history[r].product
    BY <1>1 DEF Entry
  <1> HIDE DEF e
  <1>3. history'[r] = e /\ \A x \in RowIds : x # r => history'[x] = history[x]
    BY <1>1 DEF ViewsInv, Typed
  <1>4. Rows' = Rows
    BY <1>1, <1>2, <1>3, ActivityConstants DEF Rows
  <1>5. Same /\ \A x \in RowIds : history[x] = Deleted => history'[x] = Deleted
    <2>1. \A x \in Rows : KeyOf(x)' = KeyOf(x)
      BY <1>2, <1>3 DEF KeyOf, Rows
    <2>2. \A x \in RowIds : history[x] = Deleted => history'[x] = Deleted
      BY <1>1, <1>3 DEF Rows
    <2>3. QED
      BY <1>4, <2>1, <2>2 DEF Same
  <1>6. /\ RowsKept /\ \A k : RowsOf(k)' = RowsOf(k) /\ There(k)' = There(k)
        /\ OneEntry'
    BY <1>5, SameRows DEF ViewsInv
  <1>7. \A u \in Visits : Asks(u)'
    BY <1>1, <1>6, AsksStay DEF ViewsInv
  <1>8. Typed'
    <2>1. history' \in [RowIds -> Entry \cup {None, Deleted}]
      BY <1>1, <1>2 DEF ViewsInv, Typed
    <2>2. \A x \in Rows : history'[x].count >= 1
      BY <1>1, <1>2, <1>3 DEF ViewsInv, Typed, Rows
    <2>3. QED
      BY <1>1, <1>4, <2>1, <2>2 DEF ViewsInv, Typed
  <1>9. ASSUME NEW k \in Keys PROVE Balanced(k)'
    <2>1. /\ Views(RowsOf(k)) \in Nat
          /\ Worth(history[r], k) \in Nat /\ Worth(e, k) \in Nat
          /\ Views(RowsOf(k))' = Views(RowsOf(k)) - Worth(history[r], k) + Worth(e, k)
      BY <1>1, <1>2, ViewsChange DEF ViewsInv, Typed, Histories
    <2>2. Worth(e, k) = Worth(history[r], k)
      BY <1>1, <1>2 DEF Worth
    <2>3. Views(RowsOf(k))' = Views(RowsOf(k))
      BY <2>1, <2>2
    <2>4. InFlight(k)' = InFlight(k)
      BY <1>1 DEF InFlight
    <2>5. QED
      BY <1>1, <2>3, <2>4 DEF ViewsInv, Balanced, Uncounted
  <1>10. ASSUME NEW k \in Keys PROVE Missable(k)'
    <2>1. Doomed(k)' \subseteq Doomed(k)
      BY <1>1, <1>4, <1>6 DEF Doomed, KeyAt
    <2>2. QED
      BY <1>1, <1>6, <2>1, NoMoreMissed DEF ViewsInv
  <1>11. QED
    BY <1>6, <1>7, <1>8, <1>9, <1>10 DEF ViewsInv

-----------------------------------------------------------------------------
(* The bound on misses, when an entry is written and when one is deleted.  *)
LEMMA MostOfWritten ==
  ASSUME NEW n \in Nat, NEW e \in Nat
  PROVE  /\ MostMisses(n, 0, e) \in Int /\ MostMisses(n, 1, e) \in Int
         /\ MostMisses(n, 1, e) = MostMisses(n, 0, e) + (n - 1)
  BY DEF MostMisses

(* An entry that is deleted had been viewed.                               *)
LEMMA MostOfDeleted ==
  ASSUME NEW n \in Nat, n >= 1, NEW e \in Nat, NEW c \in Nat, c >= 1
  PROVE  /\ MostMisses(n, 1, e) \in Int /\ MostMisses(n, 0, e + c) \in Int
         /\ MostMisses(n, 1, e) + n <= MostMisses(n, 0, e + c)
  <1>1. MostMisses(n, 0, e + c) = MostMisses(n, 1, e) + n + ((n - 1) * (c - 1) + n * (c - 1))
    BY DEF MostMisses
  <1>2. (n - 1) * (c - 1) \in Nat /\ n * (c - 1) \in Nat
    <2>1. \A a, b \in Nat : a * b \in Nat
      OBVIOUS
    <2>2. n - 1 \in Nat /\ c - 1 \in Nat
      OBVIOUS
    <2>3. QED
      BY <2>1, <2>2
  <1>3. MostMisses(n, 1, e) \in Int /\ MostMisses(n, 0, e + c) \in Int
    BY DEF MostMisses
  <1> DEFINE x == (n - 1) * (c - 1)
             y == n * (c - 1)
             a == MostMisses(n, 1, e)
             b == MostMisses(n, 0, e + c)
  <1>4. x \in Nat /\ y \in Nat /\ a \in Int /\ b \in Int /\ b = a + n + (x + y)
    BY <1>1, <1>2, <1>3
  <1> HIDE DEF x, y, a, b
  <1>5. a + n <= b
    BY <1>4
  <1>6. QED
    BY <1>3, <1>5 DEF a, b

(* A first view is written: others that looked before will miss theirs.    *)
LEMMA InsertViews ==
  ASSUME ViewsInv, NEW v \in Visits, Insert(v)
  PROVE  ViewsInv'
  <1>r. PICK r : r = CHOOSE x \in Unused : TRUE
    OBVIOUS
  <1>i. PICK i : i = KeyAt(v)
    OBVIOUS
  <1> DEFINE e == [viewer |-> i[1], product |-> i[2], count |-> 1, old |-> FALSE]
  <1>1. /\ visits[v].stage = "write" /\ Insertable(i) /\ Unused # {} /\ Advance(v)
        /\ UNCHANGED <<tracked, missed, refused, failed, expired>> /\ history' = [history EXCEPT ![r] = e]
    BY <1>r, <1>i DEF Insert, KeyAt
  <1>2. r \in Unused
    BY <1>1, <1>r
  <1>3. r \in RowIds /\ history[r] = None /\ r \notin Rows
    BY <1>2 DEF Unused, Rows
  <1>4. i \in Keys /\ \E q \in Visit : Moves(v, q)
    BY <1>1, <1>i, Advances
  <1>5. /\ e \in Entry /\ e.count = 1 /\ <<e.viewer, e.product>> = i /\ e.viewer = i[1]
    BY <1>4 DEF Keys, Entry
  <1> HIDE DEF e
  <1>6. history'[r] = e /\ \A x \in RowIds : x # r => history'[x] = history[x]
    BY <1>1, <1>3 DEF ViewsInv, Typed
  <1>7. Rows' = Rows \cup {r}
    BY <1>3, <1>5, <1>6, ActivityConstants DEF Rows
  <1>8. /\ KeyOf(r)' = i
        /\ \A x \in Rows : x # r /\ x \in RowIds /\ KeyOf(x)' = KeyOf(x) /\ history'[x] = history[x]
    BY <1>3, <1>5, <1>6 DEF KeyOf, Rows
  <1>9. RowsKept
    BY <1>3, <1>6, <1>7, <1>8, ActivityConstants DEF RowsKept
  <1>10. \A k : RowsOf(k)' = IF k = i THEN RowsOf(k) \cup {r} ELSE RowsOf(k)
    BY <1>7, <1>8 DEF RowsOf
  <1>11. OneEntry'
    <2>1. ASSUME NEW a \in Rows', NEW b \in Rows', KeyOf(a)' = KeyOf(b)', history'[a].viewer # Guest
          PROVE  a = b
      <3>1. history'[a].viewer = KeyOf(a)'[1] /\ history'[b].viewer = KeyOf(b)'[1]
        BY DEF KeyOf
      <3>2. CASE a = r \/ b = r
        <4>1. i[1] # Guest
          BY <1>8, <2>1, <3>1, <3>2
        <4>2. RowsOf(i) = {}
          BY <1>1, <4>1 DEF Insertable
        <4>3. QED
          BY <1>7, <1>8, <2>1, <3>2, <4>2 DEF RowsOf
      <3>3. CASE a # r /\ b # r
        BY <1>7, <1>8, <2>1, <3>3 DEF ViewsInv, OneEntry
      <3>4. QED
        BY <3>2, <3>3
    <2>2. QED
      BY <2>1 DEF OneEntry
  <1>12. PICK q \in Visit : Moves(v, q)
    BY <1>4
  <1>13. /\ visits' \in [Visits -> Visit]
         /\ \A u \in Visits : u # v => visits'[u] = visits[u]
         /\ \A u \in Visits : Asks(u)'
         /\ \A k : v \notin Doomed(k)'
    BY <1>9, <1>12, MovesOn
  <1>14. Typed'
    <2>1. history' \in [RowIds -> Entry \cup {None, Deleted}]
      BY <1>1, <1>5 DEF ViewsInv, Typed
    <2>2. \A x \in Rows' : history'[x].count >= 1
      BY <1>5, <1>6, <1>7, <1>8 DEF ViewsInv, Typed
    <2>3. QED
      BY <1>1, <1>13, <2>1, <2>2 DEF ViewsInv, Typed
  <1>15. ASSUME NEW k \in Keys PROVE Balanced(k)'
    <2>1. /\ Views(RowsOf(k)) \in Nat /\ Views(RowsOf(k))' \in Nat
          /\ Views(RowsOf(k))' = Views(RowsOf(k)) - Worth(history[r], k) + Worth(e, k)
      BY <1>1, <1>3, <1>5, ViewsChange DEF ViewsInv, Typed, Histories
    <2>2. Worth(e, k) = (IF i = k THEN 1 ELSE 0) /\ Worth(history[r], k) = 0
      BY <1>3, <1>5, ActivityConstants DEF Worth
    <2>3. Uncounted(k) \in Nat /\ Uncounted(k)' = Uncounted(k)
      BY <1>1, UncountedType DEF ViewsInv, Uncounted
    <2> DEFINE d == IF i = k THEN 1 ELSE 0
    <2>4. d \in Int /\ Worth(e, k) = d
      BY <2>2
    <2> HIDE DEF d
    <2>5. Views(RowsOf(k))' + Uncounted(k)' = Views(RowsOf(k)) + Uncounted(k) + d
      BY <1>1, <2>1, <2>2, <2>3, <2>4
    <2>6. Views(RowsOf(k))' + Uncounted(k)' = Views(RowsOf(k)) + Uncounted(k) + (IF KeyAt(v) = k THEN 1 ELSE 0)
      BY <1>i, <2>5 DEF d
    <2>7. Views(RowsOf(k))' \in Int /\ Uncounted(k)' \in Int
      BY <1>1, <2>1, <2>3
    <2>8. QED
      BY <1>1, <2>6, <2>7, WritesBalanced
  <1>16. ASSUME NEW k \in Keys PROVE Missable(k)'
    <2>1. CASE k # i
      <3>1. RowsOf(k)' = RowsOf(k) /\ There(k)' = There(k)
        BY <1>10, <2>1 DEF There
      <3>2. Doomed(k)' \subseteq Doomed(k)
        BY <1>7, <1>13, <3>1, DoomedSame
      <3>3. QED
        BY <1>1, <3>1, <3>2, NoMoreMissed DEF ViewsInv
    <2>2. CASE k[1] = Guest
      BY <1>1, <2>2 DEF ViewsInv, Missable
    <2>3. CASE k = i /\ k[1] # Guest
      <3>1. There(k) = 0 /\ There(k)' = 1
        BY <1>1, <1>10, <2>3 DEF Insertable, There
      <3>2. PICK D : D = Doomed(k)'
        OBVIOUS
      <3>3. D \subseteq Visits \ {v}
        BY <1>13, <3>2 DEF Doomed
      <3>4. /\ IsFiniteSet(Visits \ {v}) /\ Cardinality(Visits) \in Nat
            /\ Cardinality(Visits \ {v}) = Cardinality(Visits) - 1
        BY ActivityConstants, FS_RemoveElement, FS_CardinalityType
      <3>5. Cardinality(D) <= Cardinality(Visits) - 1 /\ Cardinality(D) \in Nat
        BY <3>3, <3>4, FS_Subset, FS_CardinalityType
      <3>6. missed[k] \in Nat /\ expired[k] \in Nat /\ Cardinality(Doomed(k)) \in Nat
        BY DoomedFinite DEF ViewsInv, Typed
      <3> DEFINE m0 == MostMisses(Cardinality(Visits), 0, expired[k])
                 m1 == MostMisses(Cardinality(Visits), 1, expired[k])
      <3>7. m0 \in Int /\ m1 \in Int /\ m1 = m0 + (Cardinality(Visits) - 1)
        BY <3>4, <3>6, MostOfWritten
      <3>8. missed[k] + Cardinality(Doomed(k)) <= m0
        BY <2>3, <3>1 DEF ViewsInv, Missable
      <3> HIDE DEF m0, m1
      <3>9. missed[k] + Cardinality(D) <= m1
        BY <3>4, <3>5, <3>6, <3>7, <3>8
      <3>10. QED
        BY <1>1, <2>3, <3>1, <3>2, <3>9 DEF Missable, m1
    <2>4. QED
      BY <2>1, <2>2, <2>3
  <1>17. QED
    BY <1>11, <1>13, <1>14, <1>15, <1>16 DEF ViewsInv

(* A request gives up a view of its key and keeps the entries as they are.  *)
GivesUp(v) ==
  /\ visits[v].stage # "idle" /\ Advance(v) /\ UNCHANGED <<history, tracked, expired>>
  /\ missed' \in [Keys -> Nat] /\ refused' \in [Keys -> Nat] /\ failed' \in [Keys -> Nat]
  /\ \A k \in Keys : Uncounted(k)' = Uncounted(k) + (IF KeyAt(v) = k THEN 1 ELSE 0)

(* The view is accounted for, and no other is to be missed for it.         *)
LEMMA GivenUp ==
  ASSUME ViewsInv, NEW v \in Visits, GivesUp(v)
  PROVE  /\ KeyAt(v) \in Keys /\ Typed' /\ OneEntry' /\ \A u \in Visits : Asks(u)'
         /\ \A k \in Keys : Balanced(k)'
         /\ \A k : /\ There(k)' = There(k)
                   /\ Doomed(k)' \subseteq Doomed(k) /\ v \notin Doomed(k)'
  <1>1. visits[v].stage # "idle" /\ Advance(v) /\ UNCHANGED <<history, tracked, expired>>
    BY DEF GivesUp
  <1>2. KeyAt(v) \in Keys /\ \E q \in Visit : Moves(v, q)
    BY <1>1, Advances
  <1>3. Same /\ \A x \in RowIds : history[x] = Deleted => history'[x] = Deleted
    BY <1>1 DEF Same, Rows, KeyOf
  <1>4. /\ RowsKept /\ \A k : RowsOf(k)' = RowsOf(k) /\ There(k)' = There(k)
        /\ OneEntry'
    BY <1>3, SameRows DEF ViewsInv
  <1>5. PICK q \in Visit : Moves(v, q)
    BY <1>2
  <1>6. /\ visits' \in [Visits -> Visit]
        /\ \A u \in Visits : u # v => visits'[u] = visits[u]
        /\ \A u \in Visits : Asks(u)'
        /\ \A k : v \notin Doomed(k)'
    BY <1>4, <1>5, MovesOn
  <1>7. Typed'
    <2>1. Rows' = Rows
      BY <1>3 DEF Same
    <2>2. QED
      BY <1>1, <1>6, <2>1 DEF ViewsInv, Typed, GivesUp
  <1>8. ASSUME NEW k \in Keys PROVE Balanced(k)'
    <2>1. Views(RowsOf(k))' = Views(RowsOf(k))
      BY <1>1, <1>4 DEF Views
    <2>2. Views(RowsOf(k)) \in Nat /\ Uncounted(k) \in Nat
      BY ViewsType, UncountedType DEF ViewsInv, RowsOf
    <2> DEFINE d == IF KeyAt(v) = k THEN 1 ELSE 0
    <2>3. d \in Int /\ Uncounted(k)' = Uncounted(k) + d
      BY DEF GivesUp
    <2> HIDE DEF d
    <2>4. /\ Views(RowsOf(k))' + Uncounted(k)' = Views(RowsOf(k)) + Uncounted(k) + d
          /\ Views(RowsOf(k))' \in Int /\ Uncounted(k)' \in Int
      BY <2>1, <2>2, <2>3
    <2>5. QED
      BY <1>1, <2>4, WritesBalanced DEF d
  <1>9. \A k : Doomed(k)' \subseteq Doomed(k)
    BY <1>3, <1>4, <1>6, DoomedSame DEF Same
  <1>10. QED
    BY <1>2, <1>4, <1>6, <1>7, <1>8, <1>9

(* Giving up for any other reason than a miss.                             *)
LEMMA GivenUpOtherwise ==
  ASSUME ViewsInv, NEW v \in Visits, GivesUp(v), UNCHANGED missed
  PROVE  ViewsInv'
  <1>1. ASSUME NEW k \in Keys PROVE Missable(k)'
    <2>1. There(k)' = There(k) /\ Doomed(k)' \subseteq Doomed(k)
      BY GivenUp
    <2>2. missed'[k] = missed[k] /\ expired'[k] = expired[k]
      BY DEF GivesUp
    <2>3. QED
      BY <2>1, <2>2, NoMoreMissed DEF ViewsInv
  <1>2. QED
    BY <1>1, GivenUp DEF ViewsInv

(* One more of what was given up for one reason.                           *)
LEMMA OneMore ==
  ASSUME NEW f \in [Keys -> Nat], NEW i \in Keys
  PROVE  /\ [f EXCEPT ![i] = @ + 1] \in [Keys -> Nat]
         /\ \A k \in Keys : [f EXCEPT ![i] = @ + 1][k] = f[k] + (IF i = k THEN 1 ELSE 0)
  OBVIOUS

(* A product or an account is not there.                                   *)
LEMMA RefuseViews ==
  ASSUME ViewsInv, NEW v \in Visits, Refuse(v)
  PROVE  ViewsInv'
  <1>1. /\ visits[v].stage = "write" /\ Advance(v)
        /\ UNCHANGED <<history, tracked, missed, failed, expired>>
        /\ refused' = [refused EXCEPT ![KeyAt(v)] = @ + 1]
    BY DEF Refuse, KeyAt
  <1>2. KeyAt(v) \in Keys
    BY <1>1, Advances
  <1>3. missed \in [Keys -> Nat] /\ refused \in [Keys -> Nat] /\ failed \in [Keys -> Nat]
    BY DEF ViewsInv, Typed
  <1> DEFINE i == KeyAt(v)
  <1>4. i = KeyAt(v) /\ i \in Keys /\ refused' = [refused EXCEPT ![i] = @ + 1]
    BY <1>1, <1>2
  <1> HIDE DEF i
  <1>5. /\ refused' \in [Keys -> Nat]
        /\ \A k \in Keys : refused'[k] = refused[k] + (IF i = k THEN 1 ELSE 0)
    BY <1>3, <1>4, OneMore
  <1>6. ASSUME NEW k \in Keys PROVE Uncounted(k)' = Uncounted(k) + (IF i = k THEN 1 ELSE 0)
    <2> DEFINE d == IF i = k THEN 1 ELSE 0
    <2>1. /\ missed[k] \in Nat /\ refused[k] \in Nat /\ failed[k] \in Nat /\ d \in Nat
          /\ missed'[k] = missed[k] /\ failed'[k] = failed[k] /\ refused'[k] = refused[k] + d
      BY <1>1, <1>3, <1>5
    <2> HIDE DEF d
    <2>2. Uncounted(k)' = Uncounted(k) + d
      BY <2>1 DEF Uncounted
    <2>3. QED
      BY <2>2 DEF d
  <1>7. GivesUp(v)
    BY <1>1, <1>3, <1>4, <1>5, <1>6 DEF GivesUp
  <1>8. QED
    BY <1>1, <1>7, GivenUpOtherwise

(* The database fails.                                                     *)
LEMMA FailViews ==
  ASSUME ViewsInv, NEW v \in Visits, Fail(v)
  PROVE  ViewsInv'
  <1>1. /\ visits[v].stage # "idle" /\ Advance(v)
        /\ UNCHANGED <<history, tracked, missed, refused, expired>>
        /\ failed' = [failed EXCEPT ![KeyAt(v)] = @ + 1]
    BY DEF Fail, KeyAt
  <1>2. KeyAt(v) \in Keys
    BY <1>1, Advances
  <1>3. missed \in [Keys -> Nat] /\ refused \in [Keys -> Nat] /\ failed \in [Keys -> Nat]
    BY DEF ViewsInv, Typed
  <1> DEFINE i == KeyAt(v)
  <1>4. i = KeyAt(v) /\ i \in Keys /\ failed' = [failed EXCEPT ![i] = @ + 1]
    BY <1>1, <1>2
  <1> HIDE DEF i
  <1>5. /\ failed' \in [Keys -> Nat]
        /\ \A k \in Keys : failed'[k] = failed[k] + (IF i = k THEN 1 ELSE 0)
    BY <1>3, <1>4, OneMore
  <1>6. ASSUME NEW k \in Keys PROVE Uncounted(k)' = Uncounted(k) + (IF i = k THEN 1 ELSE 0)
    <2> DEFINE d == IF i = k THEN 1 ELSE 0
    <2>1. /\ missed[k] \in Nat /\ refused[k] \in Nat /\ failed[k] \in Nat /\ d \in Nat
          /\ missed'[k] = missed[k] /\ refused'[k] = refused[k] /\ failed'[k] = failed[k] + d
      BY <1>1, <1>3, <1>5
    <2> HIDE DEF d
    <2>2. Uncounted(k)' = Uncounted(k) + d
      BY <2>1 DEF Uncounted
    <2>3. QED
      BY <2>2 DEF d
  <1>7. GivesUp(v)
    BY <1>1, <1>3, <1>4, <1>5, <1>6 DEF GivesUp
  <1>8. QED
    BY <1>1, <1>7, GivenUpOtherwise

(* A view is missed by a request that was to miss it.                      *)
LEMMA MissViews ==
  ASSUME ViewsInv, NEW v \in Visits, Miss(v)
  PROVE  ViewsInv'
  <1>1. /\ visits[v].stage = "write" /\ Advance(v)
        /\ UNCHANGED <<history, tracked, refused, failed, expired>>
        /\ missed' = [missed EXCEPT ![KeyAt(v)] = @ + 1]
        /\ IF visits[v].found = None THEN ~ Insertable(KeyAt(v)) ELSE visits[v].found \notin Rows
    BY DEF Miss, Missing, KeyAt
  <1>2. KeyAt(v) \in Keys
    BY <1>1, Advances
  <1>3. missed \in [Keys -> Nat] /\ refused \in [Keys -> Nat] /\ failed \in [Keys -> Nat]
    BY DEF ViewsInv, Typed
  <1> DEFINE i == KeyAt(v)
  <1>g. i[1] # Guest
    BY <1>1 DEF ViewsInv, Asks, Insertable, KeyAt
  <1>d. v \in Doomed(i)
    BY <1>1 DEF Doomed, Insertable
  <1>4. i = KeyAt(v) /\ i \in Keys /\ missed' = [missed EXCEPT ![i] = @ + 1]
    BY <1>1, <1>2
  <1> HIDE DEF i
  <1>5. /\ missed' \in [Keys -> Nat]
        /\ \A k \in Keys : missed'[k] = missed[k] + (IF i = k THEN 1 ELSE 0)
    BY <1>3, <1>4, OneMore
  <1>6. ASSUME NEW k \in Keys PROVE Uncounted(k)' = Uncounted(k) + (IF i = k THEN 1 ELSE 0)
    <2> DEFINE d == IF i = k THEN 1 ELSE 0
    <2>1. /\ missed[k] \in Nat /\ refused[k] \in Nat /\ failed[k] \in Nat /\ d \in Nat
          /\ failed'[k] = failed[k] /\ refused'[k] = refused[k] /\ missed'[k] = missed[k] + d
      BY <1>1, <1>3, <1>5
    <2> HIDE DEF d
    <2>2. Uncounted(k)' = Uncounted(k) + d
      BY <2>1 DEF Uncounted
    <2>3. QED
      BY <2>2 DEF d
  <1>7. GivesUp(v)
    BY <1>1, <1>3, <1>4, <1>5, <1>6 DEF GivesUp
  <1>8. ASSUME NEW k \in Keys PROVE Missable(k)'
    <2>1. Doomed(k)' \subseteq Doomed(k) /\ v \notin Doomed(k)' /\ There(k)' = There(k)
      BY <1>7, GivenUp
    <2>2. CASE k # i
      BY <1>1, <1>3, <1>5, <2>1, <2>2, NoMoreMissed DEF ViewsInv
    <2>3. CASE k = i
      <3>1. PICK D : D = Doomed(k)'
        OBVIOUS
      <3>2. D \subseteq Doomed(k) \ {v}
        BY <2>1, <3>1
      <3>3. /\ IsFiniteSet(Doomed(k) \ {v}) /\ Cardinality(Doomed(k)) \in Nat
            /\ Cardinality(Doomed(k) \ {v}) = Cardinality(Doomed(k)) - 1
        BY <1>d, <2>3, DoomedFinite, FS_RemoveElement
      <3>4. Cardinality(D) <= Cardinality(Doomed(k)) - 1 /\ Cardinality(D) \in Nat
        BY <3>2, <3>3, FS_Subset, FS_CardinalityType
      <3> DEFINE m == MostMisses(Cardinality(Visits), There(k), expired[k])
      <3>5. m \in Int
        <4>1. Cardinality(Visits) \in Nat /\ There(k) \in {0, 1} /\ expired[k] \in Nat
          BY ActivityConstants, FS_CardinalityType DEF There, ViewsInv, Typed
        <4>2. QED
          BY <4>1, MostOfWritten
      <3>6. missed[k] + Cardinality(Doomed(k)) <= m
        BY <1>g, <2>3 DEF ViewsInv, Missable
      <3>7. MostMisses(Cardinality(Visits), There(k), expired[k])' = m
        BY <1>1, <2>1 DEF MostMisses
      <3> HIDE DEF m
      <3>8. missed'[k] + Cardinality(D) <= m
        BY <1>3, <1>5, <2>3, <3>3, <3>4, <3>5, <3>6
      <3>9. QED
        BY <1>g, <2>3, <3>1, <3>7, <3>8 DEF Missable
    <2>4. QED
      BY <2>2, <2>3
  <1>9. QED
    BY <1>7, <1>8, GivenUp DEF ViewsInv

-----------------------------------------------------------------------------
(* What the deleted entries of k counted, and what the others still do.    *)
LEMMA SplitViews ==
  ASSUME Typed, NEW gone \in SUBSET Rows, DeleteEntries(gone), NEW k \in Keys
  PROVE  /\ Views(gone \cap RowsOf(k)) \in Nat /\ Views(RowsOf(k)) \in Nat
         /\ Views(RowsOf(k))' \in Nat
         /\ Views(RowsOf(k)) = Views(RowsOf(k))' + Views(gone \cap RowsOf(k))
  <1> DEFINE f == [r \in RowIds |-> Worth(history[r], k)]
             h == [r \in RowIds |-> Worth(history'[r], k)]
             g == [r \in RowIds |-> IF r \in gone \cap RowsOf(k) THEN history[r].count ELSE 0]
  <1>1. history' = [r \in RowIds |-> IF r \in gone THEN Deleted ELSE history[r]]
    BY DEF DeleteEntries
  <1>2. Histories /\ Histories'
    BY <1>1 DEF Typed, Histories
  <1>3. /\ Views(RowsOf(k)) = SumFunction(f) /\ Views(RowsOf(k))' = SumFunction(h)
        /\ f \in [RowIds -> Nat] /\ h \in [RowIds -> Nat]
    BY <1>2, WorthOfRows, WorthAfter
  <1>4. Views(gone \cap RowsOf(k)) = SumFunction(g)
    BY DEF Views
  <1>5. ASSUME NEW r \in RowIds
        PROVE  f[r] = h[r] + g[r] /\ g[r] \in Nat
    <2>1. r \in Rows <=> history[r] \in Entry
      BY RowsAreEntries
    <2>2. CASE r \in gone
      <3>1. history'[r] = Deleted /\ history[r] \in Entry /\ history[r].count \in Nat
        BY <1>1, <2>1, <2>2 DEF Entry
      <3>2. h[r] = 0
        BY <3>1, ActivityConstants DEF Worth
      <3>3. r \in RowsOf(k) <=> <<history[r].viewer, history[r].product>> = k
        BY <2>2 DEF RowsOf, KeyOf
      <3>4. QED
        BY <2>2, <3>1, <3>2, <3>3 DEF Worth
    <2>3. CASE r \notin gone
      <3>1. history'[r] = history[r]
        BY <1>1, <2>3
      <3>2. g[r] = 0 /\ h[r] = f[r] /\ f[r] \in Nat
        BY <1>3, <2>3, <3>1
      <3>3. QED
        BY <3>2
    <2>4. QED
      BY <2>2, <2>3
  <1>6. g \in [RowIds -> Nat] /\ \A r \in RowIds : f[r] = h[r] + g[r]
    BY <1>5
  <1> HIDE DEF f, g, h
  <1>7. f \in [RowIds -> Int] /\ h \in [RowIds -> Int] /\ g \in [RowIds -> Int]
    BY <1>3, <1>6
  <1>8. SumFunction(f) = SumFunction(h) + SumFunction(g)
    BY <1>6, <1>7, WholeSumOfSums, ActivityConstants
  <1>9. SumFunction(f) \in Nat /\ SumFunction(h) \in Nat /\ SumFunction(g) \in Nat
    BY <1>3, <1>6, WholeSumNat, ActivityConstants
  <1>10. QED
    BY <1>3, <1>4, <1>8, <1>9

(* Entries are deleted: the requests     that found them will miss.        *)
LEMMA DeleteViews ==
  ASSUME ViewsInv, NEW gone \in SUBSET Rows, DeleteEntries(gone)
  PROVE  ViewsInv'
  <1>0. /\ UNCHANGED <<visits, tracked, missed, refused, failed>>
        /\ history' = [r \in RowIds |-> IF r \in gone THEN Deleted ELSE history[r]]
        /\ expired' = [k \in Keys |-> expired[k] + Views(gone \cap RowsOf(k))]
    BY DEF DeleteEntries
  <1>p. PICK out : out = gone
    OBVIOUS
  <1>1. \A r \in RowIds : history'[r] = IF r \in out THEN Deleted ELSE history[r]
    BY <1>0, <1>p
  <1>2. Rows' = Rows \ out
    BY <1>1 DEF Rows
  <1>3. \A r \in Rows' : r \in Rows /\ r \in RowIds /\ KeyOf(r)' = KeyOf(r) /\ history'[r] = history[r]
    BY <1>1, <1>2 DEF KeyOf, Rows
  <1>4. RowsKept
    BY <1>1, <1>2, <1>3 DEF RowsKept
  <1>5. \A k : RowsOf(k)' = RowsOf(k) \ out
    BY <1>2, <1>3 DEF RowsOf
  <1>6. OneEntry'
    BY <1>3 DEF ViewsInv, OneEntry
  <1>7. \A u \in Visits : Asks(u)'
    BY <1>0, <1>4, AsksStay DEF ViewsInv
  <1>8. \A k \in Keys : /\ Views(gone \cap RowsOf(k)) \in Nat
                        /\ expired'[k] = expired[k] + Views(gone \cap RowsOf(k))
    BY <1>0, SplitViews DEF ViewsInv
  <1>9. Typed'
    <2>1. \A k \in Keys : expired[k] \in Nat
      BY DEF ViewsInv, Typed
    <2>2. ASSUME NEW k \in Keys PROVE expired'[k] \in Nat
      <3> DEFINE x == Views(gone \cap RowsOf(k))
      <3>1. x \in Nat /\ expired'[k] = expired[k] + x /\ expired[k] \in Nat
        BY <1>8, <2>1
      <3> HIDE DEF x
      <3>2. QED
        BY <3>1
    <2>3. expired' \in [Keys -> Nat]
      BY <1>0, <2>2
    <2>4. history' \in [RowIds -> Entry \cup {None, Deleted}]
      BY <1>0 DEF ViewsInv, Typed
    <2>5. \A x \in Rows' : history'[x].count >= 1
      BY <1>3 DEF ViewsInv, Typed
    <2>6. QED
      BY <1>0, <2>3, <2>4, <2>5 DEF ViewsInv, Typed
  <1>10. ASSUME NEW k \in Keys PROVE Balanced(k)'
    <2>1. /\ Views(gone \cap RowsOf(k)) \in Nat /\ Views(RowsOf(k)) \in Nat /\ Views(RowsOf(k))' \in Nat
          /\ Views(RowsOf(k)) = Views(RowsOf(k))' + Views(gone \cap RowsOf(k))
      BY SplitViews DEF ViewsInv
    <2>2. InFlight(k)' = InFlight(k)
      BY <1>0 DEF InFlight
    <2>3. InFlight(k) \in Int
      <3>1. PICK v \in Visits : TRUE
        BY ActivityConstants
      <3>2. visits[v] \in Visit /\ visits \in [Visits -> Visit]
        BY DEF ViewsInv, Typed
      <3> DEFINE f == [x \in Visits |-> Share(visits[x], k)]
      <3>3. f \in [Visits -> Int]
        BY <3>2, ShareType DEF ViewsInv, Typed
      <3>4. InFlight(k) = SumFunction(f)
        BY DEF InFlight, Share
      <3> HIDE DEF f
      <3>5. QED
        BY <3>3, <3>4, WholeSumType, ActivityConstants
    <2>4. /\ Uncounted(k) \in Nat /\ expired[k] \in Nat /\ tracked[k] \in Nat
          /\ Uncounted(k)' = Uncounted(k)
      BY <1>0, UncountedType DEF ViewsInv, Typed, Uncounted
    <2>5. tracked[k] = Views(RowsOf(k)) + InFlight(k) + Uncounted(k) + expired[k]
      BY DEF ViewsInv, Balanced
    <2> DEFINE x == Views(gone \cap RowsOf(k))
    <2>6. expired'[k] = expired[k] + x /\ x \in Nat /\ Views(RowsOf(k)) = Views(RowsOf(k))' + x
      BY <1>8, <2>1
    <2> HIDE DEF x
    <2>7. tracked'[k] = Views(RowsOf(k))' + InFlight(k)' + Uncounted(k)' + expired'[k]
      BY <1>0, <2>1, <2>2, <2>3, <2>4, <2>5, <2>6
    <2>8. QED
      BY <2>7 DEF Balanced
  <1>11. ASSUME NEW k \in Keys PROVE Missable(k)'
    <2>1. CASE RowsOf(k) \cap out = {}
      <3>1. RowsOf(k)' = RowsOf(k) /\ There(k)' = There(k)
        BY <1>5, <2>1 DEF There
      <3>2. expired'[k] = expired[k]
        <4> DEFINE z == [r \in RowIds |-> 0]
        <4>1. gone \cap RowsOf(k) = {}
          BY <1>p, <2>1
        <4>2. Views(gone \cap RowsOf(k)) = SumFunction(z)
          BY <4>1 DEF Views
        <4>3. z \in [RowIds -> Int] /\ \A r \in RowIds : z[r] = 0
          OBVIOUS
        <4> HIDE DEF z
        <4>4. SumFunction(z) = 0
          BY <4>3, WholeSumZero, ActivityConstants
        <4>5. expired[k] \in Nat
          BY DEF ViewsInv, Typed
        <4>6. QED
          BY <1>8, <4>2, <4>4, <4>5
      <3>3. Doomed(k)' \subseteq Doomed(k)
        <4>1. SUFFICES ASSUME NEW u \in Doomed(k)' PROVE u \in Doomed(k)
          OBVIOUS
        <4>2. u \in Visits /\ visits'[u] = visits[u] /\ visits[u].stage = "write" /\ KeyAt(u) = k
          BY <1>0 DEF Doomed, KeyAt
        <4>3. CASE visits[u].found = None
          BY <3>1, <4>1, <4>2, <4>3 DEF Doomed
        <4>4. CASE visits[u].found # None
          <5>1. visits[u].found \notin Rows'
            BY <4>1, <4>2, <4>4 DEF Doomed
          <5>2. history[visits[u].found] = Deleted \/ visits[u].found \in RowsOf(k)
            BY <4>2, <4>4 DEF ViewsInv, Asks
          <5>3. visits[u].found \notin Rows
            BY <1>2, <2>1, <5>1, <5>2 DEF RowsOf, Rows
          <5>4. QED
            BY <4>2, <4>4, <5>3 DEF Doomed
        <4>5. QED
          BY <4>3, <4>4
      <3>4. QED
        BY <1>0, <3>1, <3>2, <3>3, NoMoreMissed DEF ViewsInv
    <2>2. CASE k[1] = Guest
      BY <1>0, <2>2 DEF ViewsInv, Missable
    <2>3. CASE k[1] # Guest /\ RowsOf(k) \cap out # {}
      <3>1. PICK r \in RowsOf(k) : r \in out
        BY <2>3
      <3>2. r \in Rows /\ r \in RowIds /\ KeyOf(r) = k /\ history[r].viewer = k[1]
        BY <3>1 DEF RowsOf, KeyOf, Rows
      <3>3. \A x \in RowsOf(k) : x = r
        BY <2>3, <3>2 DEF ViewsInv, OneEntry, RowsOf
      <3>4. There(k) = 1 /\ There(k)' = 0
        BY <1>5, <3>1, <3>3 DEF There
      <3> DEFINE g == [x \in RowIds |-> IF x \in gone \cap RowsOf(k) THEN history[x].count ELSE 0]
                 c == Views(gone \cap RowsOf(k))
      <3>5. g \in [RowIds -> Nat] /\ g[r] = history[r].count /\ g[r] >= 1 /\ g[r] \in Nat
        <4>1. \A x \in Rows : history[x].count \in Nat
          BY RowsAreEntries DEF ViewsInv, Entry, Rows
        <4>2. history[r].count >= 1
          BY <3>2 DEF ViewsInv, Typed
        <4>3. g[r] = history[r].count
          BY <1>p, <3>1, <3>2
        <4>4. QED
          BY <3>2, <4>1, <4>2, <4>3
      <3>6. c = SumFunction(g)
        BY DEF Views
      <3> HIDE DEF g
      <3>7. g[r] <= SumFunction(g) /\ SumFunction(g) \in Nat
        BY <3>2, <3>5, TermWithinSum, WholeSumNat, ActivityConstants
      <3>8. c \in Nat /\ c >= 1 /\ expired'[k] = expired[k] + c
        BY <1>8, <3>5, <3>6, <3>7
      <3> HIDE DEF c
      <3>9. PICK D : D = Doomed(k)'
        OBVIOUS
      <3>10. D \subseteq Visits
        BY <3>9 DEF Doomed
      <3>11. /\ Cardinality(Visits) \in Nat /\ Cardinality(Visits) >= 1
             /\ Cardinality(D) <= Cardinality(Visits) /\ Cardinality(D) \in Nat
        <4>1. Cardinality(Visits) \in Nat /\ Cardinality(Visits) # 0
          BY ActivityConstants, FS_CardinalityType, FS_EmptySet
        <4>2. QED
          BY <3>10, <4>1, ActivityConstants, FS_Subset, FS_CardinalityType
      <3>12. missed[k] \in Nat /\ expired[k] \in Nat /\ Cardinality(Doomed(k)) \in Nat
        BY DoomedFinite DEF ViewsInv, Typed
      <3> DEFINE m1 == MostMisses(Cardinality(Visits), 1, expired[k])
                 m0 == MostMisses(Cardinality(Visits), 0, expired[k] + c)
      <3>13. m0 \in Int /\ m1 \in Int /\ m1 + Cardinality(Visits) <= m0
        BY <3>8, <3>11, <3>12, MostOfDeleted
      <3>14. missed[k] + Cardinality(Doomed(k)) <= m1
        BY <2>3, <3>4 DEF ViewsInv, Missable
      <3>15. MostMisses(Cardinality(Visits), There(k), expired[k])' = m0
        BY <3>4, <3>8 DEF MostMisses
      <3> HIDE DEF m0, m1
      <3>16. missed[k] + Cardinality(D) <= m0
        BY <3>11, <3>12, <3>13, <3>14
      <3>17. QED
        BY <1>0, <2>3, <3>9, <3>15, <3>16 DEF Missable
    <2>4. QED
      BY <2>1, <2>2, <2>3
  <1>12. QED
    BY <1>6, <1>7, <1>9, <1>10, <1>11 DEF ViewsInv

(* Nothing is viewed at first.                                             *)
LEMMA ViewsInitially == Init => ViewsInv
  <1> SUFFICES ASSUME Init PROVE ViewsInv
    OBVIOUS
  <1>1. ActivityInit
    BY DEF Init
  <1>2. Rows = {} /\ \A k : RowsOf(k) = {}
    BY <1>1 DEF ActivityInit, Rows, RowsOf
  <1>3. NoVisit \in Visit /\ NoVisit.left = <<>> /\ NoVisit.stage = "idle"
    BY DEF NoVisit, Visit, Viewers
  <1>4. Typed /\ OneEntry /\ \A v \in Visits : Asks(v)
    BY <1>1, <1>2, <1>3 DEF ActivityInit, Typed, OneEntry, Asks
  <1>5. ASSUME NEW k \in Keys PROVE Balanced(k)
    <2> DEFINE z == [r \in RowIds |-> 0]
               y == [v \in Visits |-> 0]
    <2>1. Views(RowsOf(k)) = SumFunction(z)
      BY <1>2 DEF Views
    <2>2. InFlight(k) = SumFunction(y)
      <3>1. \A v \in Visits : visits[v].left = <<>>
        BY <1>1, <1>3 DEF ActivityInit
      <3>2. \A v \in Visits : (IF visits[v].viewer = k[1] THEN Times(k[2], visits[v].left) ELSE 0) = 0
        BY <3>1, TimesNone
      <3>3. QED
        BY <3>2 DEF InFlight
    <2>3. /\ z \in [RowIds -> Int] /\ \A r \in RowIds : z[r] = 0
          /\ y \in [Visits -> Int] /\ \A v \in Visits : y[v] = 0
      OBVIOUS
    <2> HIDE DEF z, y
    <2>4. SumFunction(z) = 0 /\ SumFunction(y) = 0
      BY <2>3, WholeSumZero, ActivityConstants
    <2>5. QED
      BY <1>1, <2>1, <2>2, <2>4 DEF ActivityInit, Balanced, Uncounted
  <1>6. ASSUME NEW k \in Keys PROVE Missable(k)
    <2>1. Doomed(k) = {}
      BY <1>1, <1>3 DEF ActivityInit, Doomed
    <2>2. Cardinality(Doomed(k)) = 0
      BY <2>1, FS_EmptySet
    <2>3. There(k) = 0 /\ missed[k] = 0 /\ expired[k] = 0
      BY <1>1, <1>2 DEF ActivityInit, There
    <2>4. Cardinality(Visits) \in Nat
      BY ActivityConstants, FS_CardinalityType
    <2>5. MostMisses(Cardinality(Visits), 0, 0) = 0
      BY <2>4 DEF MostMisses
    <2>6. QED
      BY <2>2, <2>3, <2>5 DEF Missable
  <1>7. QED
    BY <1>4, <1>5, <1>6 DEF ViewsInv

(* Every step keeps the views accounted for.                               *)
LEMMA ViewsStep == ViewsInv /\ [Next]_vars => ViewsInv'
  <1> SUFFICES ASSUME ViewsInv, [Next]_vars PROVE ViewsInv'
    OBVIOUS
  <1>1. CASE UNCHANGED activityVars
    <2>1. UNCHANGED <<history, visits, tracked, missed, refused, failed, expired>>
      BY <1>1 DEF activityVars
    <2>2. Rows' = Rows /\ (\A r : KeyOf(r)' = KeyOf(r)) /\ \A v : KeyAt(v)' = KeyAt(v)
      BY <2>1 DEF Rows, KeyOf, KeyAt
    <2>3. \A k : /\ RowsOf(k)' = RowsOf(k) /\ There(k)' = There(k) /\ Doomed(k)' = Doomed(k)
                 /\ Views(RowsOf(k))' = Views(RowsOf(k)) /\ InFlight(k)' = InFlight(k)
      BY <2>1, <2>2 DEF RowsOf, There, Doomed, Views, InFlight
    <2>4. RowsKept
      BY <2>1, <2>2 DEF RowsKept
    <2>5. Typed' /\ OneEntry'
      BY <2>1, <2>2 DEF ViewsInv, Typed, OneEntry
    <2>6. \A u \in Visits : Asks(u)'
      BY <2>1, <2>4, AsksStay DEF ViewsInv
    <2>7. \A k \in Keys : Balanced(k)' /\ Missable(k)'
      BY <2>1, <2>3 DEF ViewsInv, Balanced, Missable, MostMisses, Uncounted
    <2>8. QED
      BY <2>5, <2>6, <2>7 DEF ViewsInv
  <1>2. CASE ActivityNext
    <2>1. ASSUME NEW x \in Users \cup Products, Remove(x) PROVE ViewsInv'
      <3> DEFINE gone == {r \in Rows : x \in {history[r].viewer, history[r].product}}
      <3>1. gone \in SUBSET Rows /\ DeleteEntries(gone)
        BY <2>1 DEF Remove
      <3> HIDE DEF gone
      <3>2. QED
        BY <3>1, DeleteViews
    <2>2. QED
      BY <1>2, <2>1, TrackViews, FindViews, IncrementViews, InsertViews, MissViews, RefuseViews,
         FailViews, GrowViews DEF ActivityNext, VisitStep
  <1>3. ASSUME NEW w \in Workers, CleanHistory(w) PROVE ViewsInv'
    <2> DEFINE gone == {r \in Rows : history[r].old}
    <2>1. gone \in SUBSET Rows /\ DeleteEntries(gone)
      BY <1>3 DEF CleanHistory, DeleteOldEntries
    <2> HIDE DEF gone
    <2>2. QED
      BY <2>1, DeleteViews
  <1>4. QED
    BY <1>1, <1>2, <1>3 DEF Next, vars

(* A view is refused only of what is not there, and what is removed does   *)
(* not come back.                                                          *)
RefusedInv == \A k \in Keys : refused[k] > 0 => ~ Referenced(k)

(* Nothing is refused at first.                                            *)
LEMMA RefusedInitially == Init => RefusedInv
  <1> SUFFICES ASSUME Init PROVE RefusedInv
    OBVIOUS
  <1>1. refused = [k \in Keys |-> 0]
    BY DEF Init, ActivityInit
  <1>2. \A k \in Keys : ~ (refused[k] > 0)
    BY <1>1
  <1>3. QED
    BY <1>2 DEF RefusedInv

(* Every step refuses only what is not there.                              *)
LEMMA RefusedStep == ViewsInv /\ RefusedInv /\ [Next]_vars => RefusedInv'
  <1> SUFFICES ASSUME ViewsInv, RefusedInv, [Next]_vars PROVE RefusedInv'
    OBVIOUS
  <1>1. ASSUME existing' \subseteq existing, UNCHANGED refused PROVE RefusedInv'
    BY <1>1 DEF RefusedInv, Referenced
  <1>2. ASSUME NEW v \in Visits, Refuse(v) PROVE RefusedInv'
    <2>1. /\ UNCHANGED existing /\ ~ Referenced(KeyAt(v))
          /\ refused' = [refused EXCEPT ![KeyAt(v)] = @ + 1]
      BY <1>2 DEF Refuse, KeyAt
    <2>2. refused \in [Keys -> Nat]
      BY DEF ViewsInv, Typed
    <2>3. \A k \in Keys : k # KeyAt(v) => refused'[k] = refused[k]
      BY <2>1, <2>2
    <2>4. \A k : Referenced(k)' = Referenced(k)
      BY <2>1 DEF Referenced
    <2>5. QED
      BY <2>1, <2>3, <2>4 DEF RefusedInv
  <1>3. CASE UNCHANGED activityVars
    BY <1>1, <1>3 DEF activityVars
  <1>4. CASE ActivityNext
    <2>1. ASSUME NEW v \in Visits, NEW viewer, NEW views, Track(v, viewer, views)
          PROVE  RefusedInv'
      BY <1>1, <2>1 DEF Track
    <2>2. ASSUME NEW v \in Visits, Find(v) \/ Increment(v) \/ Insert(v) \/ Miss(v) \/ Fail(v)
          PROVE  RefusedInv'
      BY <1>1, <2>2 DEF Find, Increment, Insert, Miss, Missing, Fail
    <2>3. ASSUME NEW r \in RowIds, Grow(r) PROVE RefusedInv'
      BY <1>1, <2>3 DEF Grow
    <2>4. ASSUME NEW x, Remove(x) PROVE RefusedInv'
      BY <1>1, <2>4 DEF Remove, DeleteEntries
    <2>5. QED
      BY <1>2, <1>4, <2>1, <2>2, <2>3, <2>4 DEF ActivityNext, VisitStep
  <1>5. ASSUME NEW w \in Workers, CleanHistory(w) PROVE RefusedInv'
    BY <1>1, <1>5 DEF CleanHistory, DeleteOldEntries, DeleteEntries
  <1>6. QED
    BY <1>3, <1>4, <1>5 DEF Next, vars

(* Every view that is stored as an activity is counted once by an entry of *)
(* the history, is about to be, was counted by an entry that was deleted,  *)
(* or is lost; and apart from errors of the database it is lost only when  *)
(* the product or the account is gone, or in numbers bounded by the        *)
(* requests that were in flight when an entry was written or deleted       *)
(* (analytics.service.ts:296).                                             *)
THEOREM ViewsAreAccountedFor == Spec => []ViewsAccountedFor
  <1>1. ViewsInv /\ RefusedInv => ViewsAccountedFor
    <2> SUFFICES ASSUME ViewsInv, RefusedInv, NEW k \in Keys
                 PROVE  /\ tracked[k] = Views(RowsOf(k)) + InFlight(k) + Uncounted(k) + expired[k]
                        /\ refused[k] > 0 => ~ Referenced(k)
                        /\ k[1] = Guest => missed[k] = 0
                        /\ missed[k] <= MostMisses(Cardinality(Visits), 1, expired[k])
      BY DEF ViewsAccountedFor, MostMisses
    <2>1. Cardinality(Visits) \in Nat /\ Cardinality(Visits) >= 1
      <3>1. Cardinality(Visits) \in Nat /\ Cardinality(Visits) # 0
        BY ActivityConstants, FS_CardinalityType, FS_EmptySet
      <3>2. QED
        BY <3>1
    <2>2. missed[k] \in Nat /\ expired[k] \in Nat /\ Cardinality(Doomed(k)) \in Nat /\ There(k) \in {0, 1}
      BY DoomedFinite DEF ViewsInv, Typed, There
    <2> DEFINE n == Cardinality(Visits)
               m0 == MostMisses(n, 0, expired[k])
               m1 == MostMisses(n, 1, expired[k])
    <2>3. m0 \in Int /\ m1 \in Int /\ m1 = m0 + (n - 1)
      BY <2>1, <2>2, MostOfWritten
    <2>4. 0 <= m0
      <3>1. \A a, b \in Nat : a * b \in Nat
        OBVIOUS
      <3>2. n - 1 \in Nat
        BY <2>1
      <3>3. (n - 1) * expired[k] \in Nat /\ n * expired[k] \in Nat
        BY <2>1, <2>2, <3>1, <3>2
      <3>4. m0 = (n - 1) * expired[k] + n * expired[k]
        BY <2>2 DEF MostMisses
      <3>5. QED
        BY <3>3, <3>4
    <2>5. k[1] # Guest => missed[k] + Cardinality(Doomed(k)) <= IF There(k) = 0 THEN m0 ELSE m1
      BY <2>2 DEF ViewsInv, Missable
    <2>6. k[1] = Guest => missed[k] = 0
      BY DEF ViewsInv, Missable
    <2>7. n \in Nat /\ n >= 1
      BY <2>1
    <2> HIDE DEF m0, m1, n
    <2>8. missed[k] <= m1
      BY <2>2, <2>3, <2>4, <2>5, <2>6, <2>7
    <2>9. QED
      BY <2>6, <2>8 DEF ViewsInv, RefusedInv, Balanced, m1, n
  <1>2. QED
    BY ViewsInitially, ViewsStep, RefusedInitially, RefusedStep, <1>1, PTL DEF Spec
=============================================================================
