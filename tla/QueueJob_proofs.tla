--------------------------- MODULE QueueJob_proofs ---------------------------
(***************************************************************************)
(* Proofs about QueueJob, for every number of jobs and workers, every      *)
(* capacity, retry limit, bound and choice of what operators may do.       *)
(***************************************************************************)
EXTENDS QueueJob, FiniteSetTheorems, TLAPS

(* Touching a job's snapshots changes no worker's job or phase.            *)
LEMMA TouchedType ==
    ASSUME NEW j \in Job, work \in [Worker -> Works]
    PROVE  /\ Touched(j) \in [Worker -> Works]
           /\ \A w \in Worker : /\ Touched(j)[w].job = work[w].job
                                /\ Touched(j)[w].phase = work[w].phase
                                /\ work[w] = Idle => Touched(j)[w] = Idle
<1>1. ASSUME NEW w \in Worker
      PROVE  /\ Touched(j)[w] \in Works
             /\ Touched(j)[w].job = work[w].job
             /\ Touched(j)[w].phase = work[w].phase
             /\ work[w] = Idle => Touched(j)[w] = Idle
  <2>1. CASE work[w].job = j /\ work[w].phase = "performing"
    <3>1. work[w] \in [job : Job, phase : {"started", "performing"},
                       retry : Nat, dated : BOOLEAN, stale : BOOLEAN]
      BY <2>1 DEF Works, Idle
    <3>2. Touched(j)[w] = [work[w] EXCEPT !.stale = TRUE]
      BY <2>1 DEF Touched
    <3>3. [work[w] EXCEPT !.stale = TRUE]
             \in [job : Job, phase : {"started", "performing"},
                  retry : Nat, dated : BOOLEAN, stale : BOOLEAN]
      BY <3>1
    <3>4. /\ [work[w] EXCEPT !.stale = TRUE].job = work[w].job
          /\ [work[w] EXCEPT !.stale = TRUE].phase = work[w].phase
      BY <3>1
    <3>5. work[w] # Idle
      BY <2>1 DEF Idle
    <3> QED  BY <3>2, <3>3, <3>4, <3>5 DEF Works
  <2>2. CASE ~(work[w].job = j /\ work[w].phase = "performing")
    BY <2>2 DEF Touched
  <2> QED  BY <2>1, <2>2
<1> QED  BY <1>1 DEF Touched

(* The rows that the runner, the operators and the crons write.            *)
LEMMA RowUpdates ==
    ASSUME NEW r \in Rows
    PROVE  /\ \A s \in States : [r EXCEPT !.state = s] \in Rows
           /\ [r EXCEPT !.state = "pending", !.retry = 0] \in Rows
           /\ [r EXCEPT !.state = "done", !.dated = TRUE] \in Rows
BY DEF Rows, States

(* A worker that takes a request keeps the counts of requests natural.     *)
LEMMA TakeCallType ==
    ASSUME calls \in [Job -> Calls], NEW j \in Job, TakeCall(j)
    PROVE  calls' \in [Job -> Calls]
<1>1. CASE /\ calls[j].open > 0
           /\ calls' = [calls EXCEPT ![j].open = @ - 1, ![j].served = @ + 1]
  BY <1>1 DEF Calls
<1>2. CASE calls[j].late > 0 /\ calls' = [calls EXCEPT ![j].late = @ - 1]
  BY <1>2 DEF Calls
<1> QED  BY <1>1, <1>2 DEF TakeCall

(* A worker that is not idle executes a job.                               *)
LEMMA BusyJob ==
    ASSUME work \in [Worker -> Works], NEW w \in Worker
    PROVE  /\ work[w].phase # "idle" =>
                work[w] \in [job : Job, phase : {"started", "performing"},
                             retry : Nat, dated : BOOLEAN, stale : BOOLEAN]
           /\ work[w] # Idle <=> work[w].phase # "idle"
BY DEF Works, Idle

(* The state functions keep their types: every update stores values of the *)
(* right shape, whichever order the actors take their steps in.            *)
LEMMA TypeStep == ConstantsAssumption /\ TypeOK /\ [Next]_vars => TypeOK'
<1> SUFFICES ASSUME ConstantsAssumption, TypeOK, [Next]_vars PROVE TypeOK'
  OBVIOUS
<1> USE DEF TypeOK
<1>o. "pending" \in States /\ "enqueued" \in States /\ "done" \in States
      /\ "started" \in States /\ "failed" \in States /\ "deleted" \in States
  BY DEF States
<1>r. \A s \in States, n \in Nat, d \in BOOLEAN :
        [state |-> s, retry |-> n, dated |-> d] \in Rows
  BY DEF Rows
<1>u. \A j \in Job : row[j] \in Rows
  OBVIOUS
<1>a. ASSUME NEW j \in Job, NEW r \in Rows, Write(j, r)
      PROVE  /\ row' \in [Job -> Rows] /\ notifs' \subseteq Job
             /\ work' \in [Worker -> Works]
  BY <1>a, TouchedType DEF Write, Notify
<1>b. ASSUME NEW w \in Worker, NEW r \in Rows, work[w].phase # "idle", WriteAndLeave(w, r)
      PROVE  /\ row' \in [Job -> Rows] /\ notifs' \subseteq Job
             /\ work' \in [Worker -> Works]
  <2>1. work[w].job \in Job
    BY <1>b, BusyJob
  <2>2. [Touched(work[w].job) EXCEPT ![w] = Idle] \in [Worker -> Works]
    BY <2>1, TouchedType DEF Works
  <2> QED  BY <1>b, <2>1, <2>2 DEF WriteAndLeave, Notify
<1>c. ASSUME NEW w \in Worker, work[w].phase # "idle"
      PROVE  work[w].job \in Job /\ work[w].retry \in Nat /\ work[w].dated \in BOOLEAN
  BY <1>c, BusyJob
<1>d. \A j \in Job : Seen(row[j].state) \in {"unknown", "pending", "running", "failed"}
  BY DEF Seen
<1>e. Spend => faults' \in 0..MaxFaults
  BY DEF Spend, ConstantsAssumption
<1>f. ASSUME NEW j \in Job, ResetEnqueued(j)
      PROVE  /\ row' \in [Job -> Rows] /\ notifs' \subseteq Job
             /\ work' \in [Worker -> Works]
  <2>1. [row[j] EXCEPT !.state = "pending"] \in Rows
    BY <1>o, <1>u, RowUpdates
  <2> QED  BY <1>f, <1>a, <2>1 DEF ResetEnqueued, dbVars
<1>1. CASE RunnerListen
  BY <1>1 DEF RunnerListen, histVars
<1>2. CASE RunnerLoad
  BY <1>2, <1>d DEF RunnerLoad, histVars, dbVars
<1>2a. CASE RunnerReady
  BY <1>2a DEF RunnerReady, histVars, dbVars
<1>3. CASE RunnerError
  BY <1>3, <1>e DEF RunnerError, histVars
<1>4. CASE RunnerDies
  <2>1. calls' \in [Job -> Calls]
    BY <1>4 DEF RunnerDies, Calls
  <2> QED  BY <1>4, <2>1, <1>e DEF RunnerDies, histVars
<1>5. ASSUME NEW j \in Job, ProcessNotification(j) PROVE TypeOK'
  BY <1>5, <1>d DEF ProcessNotification, histVars
<1>6. ASSUME NEW j \in Job, Dispatch(j) PROVE TypeOK'
  <2>1. [row[j] EXCEPT !.state = "enqueued"] \in Rows
    BY <1>o, <1>u, RowUpdates
  <2>2. /\ row' \in [Job -> Rows] /\ notifs' \subseteq Job
        /\ work' \in [Worker -> Works]
    BY <1>6, <2>1, <1>a DEF Dispatch, dbVars
  <2>3. calls' \in [Job -> Calls]
    BY <1>6 DEF Dispatch, Calls
  <2> QED  BY <1>6, <2>2, <2>3 DEF Dispatch, histVars
<1>7. ASSUME NEW j \in Job, CallTimeout(j) PROVE TypeOK'
  <2>1. calls' \in [Job -> Calls]
    BY <1>7 DEF CallTimeout, Calls
  <2> QED  BY <1>7, <2>1, <1>e, <1>f DEF CallTimeout, histVars
<1>8. ASSUME NEW j \in Job, CallRefused(j) PROVE TypeOK'
  <2>1. calls' \in [Job -> Calls]
    BY <1>8 DEF CallRefused, Calls
  <2> QED  BY <1>8, <2>1, <1>e, <1>f DEF CallRefused, histVars
<1>9. ASSUME NEW j \in Job, ServedTimeout(j) PROVE TypeOK'
  <2>1. calls' \in [Job -> Calls]
    BY <1>9 DEF ServedTimeout, Calls
  <2> QED  BY <1>9, <2>1, <1>e, <1>f DEF ServedTimeout, histVars
<1>10. ASSUME NEW j \in Job, ServedAnswered(j) PROVE TypeOK'
  <2>1. calls' \in [Job -> Calls]
    BY <1>10 DEF ServedAnswered, Calls
  <2> QED  BY <1>10, <2>1 DEF ServedAnswered, histVars, dbVars
<1>11. ASSUME NEW j \in Job, LoseLate(j) PROVE TypeOK'
  <2>1. calls' \in [Job -> Calls]
    BY <1>11 DEF LoseLate, Calls
  <2> QED  BY <1>11, <2>1, <1>e DEF LoseLate, histVars, dbVars
<1>12. ASSUME NEW w \in Worker, NEW j \in Job, ServeStart(w, j) PROVE TypeOK'
  <2>1. calls' \in [Job -> Calls]
    BY <1>12, TakeCallType DEF ServeStart
  <2>2. work' \in [Worker -> Works]
    <3> DEFINE started == [job |-> j, phase |-> "started", retry |-> row[j].retry,
                           dated |-> row[j].dated, stale |-> FALSE]
    <3>1. started \in Works
      BY <1>u DEF Works, Rows
    <3>2. work' = [Touched(j) EXCEPT ![w] = started]
      BY <1>12 DEF ServeStart
    <3> HIDE DEF started
    <3> QED  BY <3>1, <3>2, TouchedType
  <2>3. row' = [row EXCEPT ![j] = [@ EXCEPT !.state = "started"]]
    BY <1>12 DEF ServeStart
  <2>4. row' \in [Job -> Rows]
    BY <2>3, <1>o, <1>u, RowUpdates
  <2> QED  BY <1>12, <2>1, <2>2, <2>4 DEF ServeStart, Notify, histVars
<1>13. ASSUME NEW w \in Worker, NEW j \in Job, ServeSkip(w, j) PROVE TypeOK'
  BY <1>13, TakeCallType DEF ServeSkip, histVars, dbVars
<1>14. ASSUME NEW w \in Worker, BeginPerform(w) PROVE TypeOK'
  <2>1. work' \in [Worker -> Works]
    <3>1. [work[w] EXCEPT !.phase = "performing"] \in Works
      BY <1>14, BusyJob DEF BeginPerform, Works
    <3> QED  BY <1>14, <3>1 DEF BeginPerform
  <2> QED  BY <1>14, <2>1 DEF BeginPerform, histVars
<1>15. ASSUME NEW w \in Worker, PerformDone(w) PROVE TypeOK'
  <2>1. work[w].phase # "idle" /\ work[w].job \in Job
    BY <1>15, <1>c DEF PerformDone
  <2>2. StoredRow(w, "done", work[w].retry + 1, TRUE) \in Rows
    BY <2>1, <1>c, <1>o DEF StoredRow, Rows
  <2>3. effects' \in [Job -> Nat]
    BY <1>15, <2>1 DEF PerformDone
  <2> QED  BY <1>15, <2>1, <2>2, <2>3, <1>b DEF PerformDone, histVars
<1>16. ASSUME NEW w \in Worker, NothingToDoConflict(w) PROVE TypeOK'
  BY <1>16 DEF NothingToDoConflict, histVars, Works
<1>17. ASSUME NEW w \in Worker, Conflict(w) PROVE TypeOK'
  <2>1. work[w].phase # "idle" /\ work[w].job \in Job
    BY <1>17, <1>c DEF Conflict
  <2>2. StoredRow(w, "pending", work[w].retry + 1, work[w].dated) \in Rows
    BY <2>1, <1>c, <1>o, <1>r DEF StoredRow
  <2> QED  BY <1>17, <2>1, <2>2, <1>b, <1>e DEF Conflict, histVars
<1>18. ASSUME NEW w \in Worker, PerformRetry(w) PROVE TypeOK'
  <2>1. work[w].phase # "idle" /\ work[w].job \in Job
    BY <1>18, <1>c DEF PerformRetry
  <2>2. StoredRow(w, "pending", work[w].retry + 1, work[w].dated) \in Rows
    BY <2>1, <1>c, <1>o, <1>r DEF StoredRow
  <2> QED  BY <1>18, <2>1, <2>2, <1>b DEF PerformRetry, histVars
<1>19. ASSUME NEW w \in Worker, PerformRetryIgnored(w) PROVE TypeOK'
  <2>1. work[w].phase # "idle" /\ work[w].job \in Job
    BY <1>19, <1>c DEF PerformRetryIgnored
  <2>2. StoredRow(w, "pending", work[w].retry, work[w].dated) \in Rows
    BY <2>1, <1>c, <1>o, <1>r DEF StoredRow
  <2> QED  BY <1>19, <2>1, <2>2, <1>b, <1>e DEF PerformRetryIgnored, histVars
<1>20. ASSUME NEW w \in Worker, PerformFailed(w) PROVE TypeOK'
  <2>1. work[w].phase # "idle" /\ work[w].job \in Job
    BY <1>20, <1>c DEF PerformFailed
  <2>2. StoredRow(w, "failed", work[w].retry + 1, work[w].dated) \in Rows
    BY <2>1, <1>c, <1>o, <1>r DEF StoredRow
  <2> QED  BY <1>20, <2>1, <2>2, <1>b DEF PerformFailed, histVars
<1>21. ASSUME NEW w \in Worker, WorkerDies(w) PROVE TypeOK'
  BY <1>21, <1>e DEF WorkerDies, histVars, Works
<1>22. ASSUME NEW j \in Job, Enqueue(j) PROVE TypeOK'
  BY <1>22, <1>a, <1>o, <1>r DEF Enqueue, histVars
<1>23. ASSUME NEW j \in Job, Requeue(j) PROVE TypeOK'
  <2>1. [row[j] EXCEPT !.state = "pending", !.retry = 0] \in Rows
    BY <1>u, RowUpdates
  <2> QED  BY <1>23, <2>1, <1>a, <1>e DEF Requeue
<1>24. ASSUME NEW j \in Job, RequeueStuck(j) PROVE TypeOK'
  <2>1. [row[j] EXCEPT !.state = "pending", !.retry = 0] \in Rows
    BY <1>u, RowUpdates
  <2> QED  BY <1>24, <2>1, <1>a, <1>e DEF RequeueStuck, histVars
<1>25. ASSUME NEW j \in Job, SetDone(j) PROVE TypeOK'
  <2>1. [row[j] EXCEPT !.state = "done", !.dated = TRUE] \in Rows
    BY <1>u, RowUpdates
  <2> QED  BY <1>25, <2>1, <1>a, <1>e DEF SetDone, histVars
<1>26. ASSUME NEW j \in Job, Autovacuum(j) PROVE TypeOK'
  <2>1. row' \in [Job -> Rows]
    BY <1>26, <1>o, <1>r DEF Autovacuum
  <2> QED  BY <1>26, <2>1, TouchedType DEF Autovacuum, Notify, histVars
<1>27. CASE UNCHANGED vars
  BY <1>27 DEF vars
<1> QED
  BY <1>1, <1>2, <1>2a, <1>3, <1>4, <1>5, <1>6, <1>7, <1>8, <1>9, <1>10, <1>11, <1>12, <1>13,
     <1>14, <1>15, <1>16, <1>17, <1>18, <1>19, <1>20, <1>21, <1>22, <1>23, <1>24, <1>25,
     <1>26, <1>27
  DEF Next, RunnerNext, CallNext, WorkerNext, OperatorNext, Finish

(* QueueJob is type-correct for every value of its constants.              *)
THEOREM TypeCorrect == Spec => []TypeOK
<1>1. Init => TypeOK
  BY ConstantsAssumption DEF Init, TypeOK, Rows, Calls, Works, States, ConstantsAssumption
<1>2. TypeOK /\ [Next]_vars => TypeOK'
  BY ConstantsAssumption, TypeStep
<1> QED  BY <1>1, <1>2, PTL DEF Spec

-----------------------------------------------------------------------------
(* What the runner believes *)

(* A runner not loaded yet believes nothing; a loaded one knows every job   *)
(* it has no notification left for, and counts every job handed to Odoo.    *)
BeliefInv ==
    /\ ~Loaded => \A j \in Job : belief[j] = "unknown"
    /\ NoLostNotification
    /\ Loaded => InFlight \subseteq Running

(* Everything but the runner's own steps: the row of a job changes with a   *)
(* notification, or in a way the runner need not know, and no job becomes   *)
(* enqueued or started that was neither.                                    *)
TableStep ==
    /\ UNCHANGED <<runner, belief>>
    /\ InFlight' \subseteq InFlight
    /\ runner # "stopped" =>
          /\ notifs \subseteq notifs'
          /\ \A j \in Job : j \in notifs' \/ Seen(row'[j].state) = Seen(row[j].state)

(* Writing a row with a notification is such a step.                       *)
LEMMA WriteIsTableStep ==
    ASSUME TypeOK, UNCHANGED <<runner, belief>>, NEW j \in Job, NEW r \in Rows,
           row' = [row EXCEPT ![j] = r], Notify(j),
           r.state \in {"enqueued", "started"} => j \in InFlight
    PROVE  TableStep
<1>1. \A k \in Job : k # j => row'[k] = row[k]
  BY DEF TypeOK
<1>2. row'[j] = r
  BY DEF TypeOK
<1>3. InFlight' \subseteq InFlight
  BY <1>1, <1>2 DEF InFlight
<1>4. runner # "stopped" => notifs' = notifs \cup {j}
  BY DEF Notify
<1> QED  BY <1>1, <1>3, <1>4 DEF TableStep

(* ... and so is writing nothing,                                          *)
LEMMA NoWriteIsTableStep ==
    ASSUME UNCHANGED <<runner, belief, row, notifs>>
    PROVE  TableStep
BY DEF TableStep, InFlight

(* ... and the reset of an enqueued job.                                   *)
LEMMA ResetIsTableStep ==
    ASSUME TypeOK, UNCHANGED <<runner, belief>>, NEW j \in Job, ResetEnqueued(j)
    PROVE  TableStep
<1>1. [row[j] EXCEPT !.state = "pending"] \in Rows
  BY RowUpdates DEF TypeOK, States
<1>2. [row[j] EXCEPT !.state = "pending"].state = "pending"
  BY DEF TypeOK, Rows
<1>3. CASE row[j].state = "enqueued"
  BY <1>1, <1>2, <1>3, WriteIsTableStep DEF ResetEnqueued, Write
<1>4. CASE row[j].state # "enqueued"
  BY <1>4, NoWriteIsTableStep DEF ResetEnqueued, dbVars
<1> QED  BY <1>3, <1>4

(* What a worker stores when it leaves a job is in no state of execution.   *)
LEMMA LeaveIsTableStep ==
    ASSUME TypeOK, UNCHANGED <<runner, belief>>, NEW w \in Worker,
           work[w].phase = "performing",
           NEW s \in {"pending", "done", "failed"}, NEW n \in Nat, NEW d \in BOOLEAN,
           WriteAndLeave(w, StoredRow(w, s, n, d))
    PROVE  TableStep
<1>1. work[w].job \in Job
  BY BusyJob DEF TypeOK
<1>2. StoredRow(w, s, n, d) \in Rows /\ StoredRow(w, s, n, d).state = s
  BY DEF StoredRow, Rows, States
<1> QED  BY <1>1, <1>2, WriteIsTableStep DEF WriteAndLeave

(* Requests, workers and operators take such steps alone.                  *)
LEMMA TableSteps ==
    ASSUME TypeOK, CallNext \/ WorkerNext \/ OperatorNext
    PROVE  TableStep
<1>u. \A j \in Job : row[j] \in Rows
  BY DEF TypeOK
<1>w. ASSUME NEW w \in Worker, work[w].phase = "performing"
      PROVE  work[w].retry \in Nat /\ work[w].retry + 1 \in Nat /\ work[w].dated \in BOOLEAN
  BY <1>w, BusyJob DEF TypeOK
<1>p. ASSUME NEW j \in Job
      PROVE  LET r == [row[j] EXCEPT !.state = "pending", !.retry = 0]
             IN  r \in Rows /\ r.state = "pending"
  BY <1>u, RowUpdates DEF Rows
<1>1. ASSUME NEW j \in Job, CallTimeout(j) \/ CallRefused(j) \/ ServedTimeout(j)
      PROVE  TableStep
  BY <1>1, ResetIsTableStep DEF CallTimeout, CallRefused, ServedTimeout
<1>2. ASSUME NEW j \in Job, ServedAnswered(j) \/ LoseLate(j) PROVE TableStep
  BY <1>2, NoWriteIsTableStep DEF ServedAnswered, LoseLate, dbVars
<1>3. ASSUME NEW w \in Worker, NEW j \in Job, ServeStart(w, j) PROVE TableStep
  <2>1. row' = [row EXCEPT ![j] = [row[j] EXCEPT !.state = "started"]]
    BY <1>3 DEF ServeStart
  <2>2. [row[j] EXCEPT !.state = "started"] \in Rows
    BY <1>u, RowUpdates DEF States
  <2>3. j \in InFlight
    BY <1>3 DEF ServeStart, InFlight
  <2> QED  BY <1>3, <2>1, <2>2, <2>3, WriteIsTableStep DEF ServeStart
<1>4. ASSUME NEW w \in Worker, NEW j \in Job, ServeSkip(w, j) PROVE TableStep
  BY <1>4, NoWriteIsTableStep DEF ServeSkip, dbVars
<1>5. ASSUME NEW w \in Worker, BeginPerform(w) \/ NothingToDoConflict(w) \/ WorkerDies(w)
      PROVE  TableStep
  BY <1>5, NoWriteIsTableStep DEF BeginPerform, NothingToDoConflict, WorkerDies
<1>6. ASSUME NEW w \in Worker, PerformDone(w) PROVE TableStep
  BY <1>6, <1>w, LeaveIsTableStep DEF PerformDone
<1>7. ASSUME NEW w \in Worker, Conflict(w) PROVE TableStep
  BY <1>7, <1>w, LeaveIsTableStep DEF Conflict
<1>8. ASSUME NEW w \in Worker, PerformRetry(w) PROVE TableStep
  BY <1>8, <1>w, LeaveIsTableStep DEF PerformRetry
<1>9. ASSUME NEW w \in Worker, PerformRetryIgnored(w) PROVE TableStep
  BY <1>9, <1>w, LeaveIsTableStep DEF PerformRetryIgnored
<1>10. ASSUME NEW w \in Worker, PerformFailed(w) PROVE TableStep
  BY <1>10, <1>w, LeaveIsTableStep DEF PerformFailed
<1>11. ASSUME NEW j \in Job, Enqueue(j) PROVE TableStep
  <2> DEFINE r == [state |-> "pending", retry |-> 0, dated |-> FALSE]
  <2>1. r \in Rows /\ r.state = "pending"
    BY DEF Rows, States
  <2>2. Write(j, r) /\ UNCHANGED <<runner, belief>>
    BY <1>11 DEF Enqueue
  <2> HIDE DEF r
  <2> QED  BY <2>1, <2>2, WriteIsTableStep DEF Write
<1>12. ASSUME NEW j \in Job, Requeue(j) \/ RequeueStuck(j) PROVE TableStep
  <2> DEFINE r == [row[j] EXCEPT !.state = "pending", !.retry = 0]
  <2>1. r \in Rows /\ r.state = "pending"
    BY <1>p
  <2>2. Write(j, r) /\ UNCHANGED <<runner, belief>>
    BY <1>12 DEF Requeue, RequeueStuck
  <2> HIDE DEF r
  <2> QED  BY <2>1, <2>2, WriteIsTableStep DEF Write
<1>13. ASSUME NEW j \in Job, SetDone(j) PROVE TableStep
  <2> DEFINE r == [row[j] EXCEPT !.state = "done", !.dated = TRUE]
  <2>1. r \in Rows /\ r.state = "done"
    BY <1>u, RowUpdates DEF Rows
  <2>2. Write(j, r) /\ UNCHANGED <<runner, belief>>
    BY <1>13 DEF SetDone
  <2> HIDE DEF r
  <2> QED  BY <2>1, <2>2, WriteIsTableStep DEF Write
<1>14. ASSUME NEW j \in Job, Autovacuum(j) PROVE TableStep
  <2> DEFINE r == [state |-> "deleted", retry |-> 0, dated |-> FALSE]
  <2>1. r \in Rows /\ r.state = "deleted"
    BY DEF Rows, States
  <2>2. row' = [row EXCEPT ![j] = r] /\ UNCHANGED <<runner, belief>>
    BY <1>14 DEF Autovacuum
  <2> HIDE DEF r
  <2>3. CASE row[j].state # "done"
    <3>1. Notify(j)
      BY <1>14, <2>3 DEF Autovacuum
    <3> QED  BY <2>1, <2>2, <3>1, WriteIsTableStep
  <2>4. CASE row[j].state = "done"
    <3>1. notifs' = notifs
      BY <1>14, <2>4 DEF Autovacuum
    <3>2. \A k \in Job : row'[k] = IF k = j THEN r ELSE row[k]
      BY <2>2 DEF TypeOK
    <3>3. Seen(row'[j].state) = Seen(row[j].state)
      BY <2>1, <2>4, <3>2 DEF Seen
    <3>4. InFlight' \subseteq InFlight
      BY <2>1, <3>2 DEF InFlight
    <3> QED  BY <2>2, <3>1, <3>2, <3>3, <3>4 DEF TableStep
  <2> QED  BY <2>3, <2>4
<1> QED
  BY <1>1, <1>2, <1>3, <1>4, <1>5, <1>6, <1>7, <1>8, <1>9, <1>10, <1>11, <1>12, <1>13, <1>14
  DEF CallNext, WorkerNext, OperatorNext, Finish

(* The runner's view survives every step: of itself, and of everybody else. *)
LEMMA BeliefStep == TypeOK /\ BeliefInv /\ [Next]_vars => BeliefInv'
<1> SUFFICES ASSUME TypeOK, BeliefInv, [Next]_vars PROVE BeliefInv'
  OBVIOUS
<1> USE DEF BeliefInv, NoLostNotification, Loaded
<1>1. CASE RunnerListen \/ RunnerError \/ RunnerDies
  BY <1>1 DEF RunnerListen, RunnerError, RunnerDies, TypeOK
<1>2. CASE RunnerLoad
  BY <1>2 DEF RunnerLoad, dbVars, TypeOK, InFlight, Running, Seen
<1>3. ASSUME NEW j \in Job, ProcessNotification(j) PROVE BeliefInv'
  <2>1. /\ runner' = "ready" /\ runner = "ready" /\ row' = row /\ notifs' = notifs \ {j}
        /\ \A k \in Job : belief'[k] = IF k = j THEN Seen(row[j].state) ELSE belief[k]
    BY <1>3 DEF ProcessNotification, TypeOK
  <2>2. NoLostNotification'
    BY <2>1
  <2>3. (InFlight \subseteq Running)'
    BY <2>1 DEF InFlight, Running, Seen
  <2> QED  BY <2>1, <2>2, <2>3
<1>4. ASSUME NEW j \in Job, Dispatch(j) PROVE BeliefInv'
  <2>1. /\ runner = "ready" /\ runner' = "ready" /\ belief[j] = "pending"
        /\ \A k \in Job : belief'[k] = IF k = j THEN "running" ELSE belief[k]
    BY <1>4 DEF Dispatch, TypeOK
  <2>2. CASE Exists(j)
    <3>1. /\ row' = [row EXCEPT ![j] = [row[j] EXCEPT !.state = "enqueued"]]
          /\ notifs' = notifs \cup {j}
      BY <1>4, <2>1, <2>2 DEF Dispatch, Write, Notify
    <3>2. \A k \in Job : k # j => row'[k] = row[k]
      BY <3>1 DEF TypeOK
    <3>3. NoLostNotification'
      BY <2>1, <3>1, <3>2
    <3>4. (InFlight \subseteq Running)'
      BY <2>1, <3>2 DEF InFlight, Running
    <3> QED  BY <2>1, <3>3, <3>4
  <2>3. CASE ~Exists(j)
    <3>1. row' = row /\ notifs' = notifs
      BY <1>4, <2>3 DEF Dispatch, dbVars
    <3>2. j \in notifs
      BY <2>1, <2>3 DEF Exists, Seen
    <3>3. NoLostNotification'
      BY <2>1, <3>1, <3>2
    <3>4. (InFlight \subseteq Running)'
      BY <2>1, <3>1 DEF InFlight, Running
    <3> QED  BY <2>1, <3>3, <3>4
  <2> QED  BY <2>2, <2>3
<1>5. CASE CallNext \/ WorkerNext \/ OperatorNext
  <2>1. TableStep
    BY <1>5, TableSteps
  <2> QED  BY <2>1 DEF TableStep, Running
<1>6. CASE RunnerReady
  BY <1>6 DEF RunnerReady, dbVars, InFlight, Running
<1>7. CASE UNCHANGED vars
  BY <1>7 DEF vars, InFlight, Running
<1> QED  BY <1>1, <1>2, <1>3, <1>4, <1>5, <1>6, <1>7 DEF Next, RunnerNext

(* No notification is lost, through restarts of the runner and every write  *)
(* that is not the runner's.                                                *)
THEOREM NotificationsKept == Spec => []NoLostNotification
<1>1. Init => BeliefInv
  BY DEF Init, BeliefInv, NoLostNotification, Loaded
<1>2. TypeOK /\ BeliefInv /\ [Next]_vars => BeliefInv'
  BY BeliefStep
<1>3. BeliefInv => NoLostNotification
  BY DEF BeliefInv
<1> QED  BY <1>1, <1>2, <1>3, TypeCorrect, PTL DEF Spec

-----------------------------------------------------------------------------
(* Capacity *)

CapacityInv ==
    /\ Cardinality(Running) <= Capacity
    /\ WithinCapacity

(* What is counted is finite.                                              *)
LEMMA FiniteParts ==
    ASSUME ConstantsAssumption
    PROVE  /\ IsFiniteSet(Running) /\ Cardinality(Running) \in Nat
           /\ IsFiniteSet(InFlight) /\ Cardinality(InFlight) \in Nat
           /\ \A j \in Job : IsFiniteSet(WorkersOn(j)) /\ Cardinality(WorkersOn(j)) \in Nat
<1>1. IsFiniteSet(Running) /\ IsFiniteSet(InFlight)
  BY FS_Subset DEF ConstantsAssumption, Running, InFlight
<1>2. \A j \in Job : IsFiniteSet(WorkersOn(j))
  BY FS_Subset DEF ConstantsAssumption, WorkersOn
<1> QED  BY <1>1, <1>2, FS_CardinalityType

(* Only Dispatch adds to the jobs handed out, and it counts them first; a   *)
(* restarted runner starts from the jobs the table says are handed out.     *)
LEMMA CapacityStep ==
    ConstantsAssumption /\ TypeOK /\ BeliefInv /\ CapacityInv /\ [Next]_vars => CapacityInv'
<1> SUFFICES ASSUME ConstantsAssumption, TypeOK, BeliefInv, CapacityInv, [Next]_vars
             PROVE  CapacityInv'
  OBVIOUS
<1> USE DEF CapacityInv, WithinCapacity
<1>f. /\ IsFiniteSet(Running) /\ Cardinality(Running) \in Nat
      /\ IsFiniteSet(InFlight) /\ Cardinality(InFlight) \in Nat
      /\ Capacity \in Nat
  BY FiniteParts DEF ConstantsAssumption
<1>n. Cardinality({}) <= Capacity
  BY <1>f, FS_EmptySet
<1>1. CASE RunnerListen
  BY <1>1 DEF RunnerListen, Running, InFlight
<1>2. CASE RunnerError \/ RunnerDies
  <2>1. Running' = {} /\ InFlight' = InFlight
    BY <1>2 DEF RunnerError, RunnerDies, Running, InFlight
  <2> QED  BY <2>1, <1>n
<1>3. CASE RunnerLoad
  <2>1. Running' = InFlight /\ InFlight' = InFlight
    BY <1>3 DEF RunnerLoad, dbVars, Running, InFlight, Seen
  <2> QED  BY <2>1
<1>4. ASSUME NEW j \in Job, ProcessNotification(j) PROVE CapacityInv'
  <2>1. /\ runner = "ready" /\ row' = row
        /\ \A k \in Job : belief'[k] = IF k = j THEN Seen(row[j].state) ELSE belief[k]
    BY <1>4 DEF ProcessNotification, TypeOK
  <2>2. Seen(row[j].state) = "running" => j \in Running
    BY <2>1 DEF Seen, BeliefInv, Loaded, InFlight, Running
  <2>3. Running' \subseteq Running /\ InFlight' = InFlight
    BY <2>1, <2>2 DEF Running, InFlight
  <2>4. Cardinality(Running') <= Cardinality(Running) /\ Cardinality(Running') \in Nat
    BY <2>3, <1>f, FS_Subset, FS_CardinalityType
  <2> QED  BY <2>3, <2>4, <1>f
<1>5. ASSUME NEW j \in Job, Dispatch(j) PROVE CapacityInv'
  <2>1. /\ runner = "ready" /\ belief[j] = "pending" /\ Cardinality(Running) < Capacity
        /\ \A k \in Job : belief'[k] = IF k = j THEN "running" ELSE belief[k]
    BY <1>5 DEF Dispatch, TypeOK
  <2>2. Running' = Running \cup {j} /\ j \notin Running
    BY <2>1 DEF Running
  <2>3. Cardinality(Running') = Cardinality(Running) + 1 /\ IsFiniteSet(Running')
    BY <2>2, <1>f, FS_AddElement
  <2>4. \A k \in Job : k # j => row'[k] = row[k]
    BY <1>5 DEF Dispatch, Write, dbVars, TypeOK
  <2>5. InFlight' \subseteq Running'
    BY <2>1, <2>2, <2>4 DEF InFlight, BeliefInv, Loaded
  <2>6. Cardinality(InFlight') <= Cardinality(Running')
    BY <2>3, <2>5, FS_Subset
  <2>7. IsFiniteSet(InFlight') /\ Cardinality(InFlight') \in Nat
    BY <2>3, <2>5, FS_Subset, FS_CardinalityType
  <2> QED  BY <2>1, <2>3, <2>6, <2>7, <1>f
<1>6. CASE CallNext \/ WorkerNext \/ OperatorNext
  <2>1. Running' = Running /\ InFlight' \subseteq InFlight
    BY <1>6, TableSteps DEF TableStep, Running
  <2>2. Cardinality(InFlight') <= Cardinality(InFlight) /\ Cardinality(InFlight') \in Nat
    BY <2>1, <1>f, FS_Subset, FS_CardinalityType
  <2> QED  BY <2>1, <2>2, <1>f
<1>7. CASE RunnerReady
  BY <1>7 DEF RunnerReady, dbVars, Running, InFlight
<1>8. CASE UNCHANGED vars
  BY <1>8 DEF vars, Running, InFlight
<1> QED  BY <1>1, <1>2, <1>3, <1>4, <1>5, <1>6, <1>7, <1>8 DEF Next, RunnerNext

(* The jobs handed to Odoo never exceed the capacity of the channel.        *)
THEOREM CapacityKept == Spec => []WithinCapacity
<1>1. Init => BeliefInv /\ CapacityInv
  <2> SUFFICES ASSUME Init PROVE BeliefInv /\ CapacityInv
    OBVIOUS
  <2>1. Running = {} /\ InFlight = {}
    BY DEF Init, Running, InFlight
  <2> QED  BY <2>1, FS_EmptySet, ConstantsAssumption
           DEF Init, BeliefInv, NoLostNotification, Loaded, CapacityInv, WithinCapacity,
               ConstantsAssumption
<1>2. TypeOK /\ BeliefInv /\ CapacityInv /\ [Next]_vars => BeliefInv' /\ CapacityInv'
  BY ConstantsAssumption, BeliefStep, CapacityStep
<1>3. CapacityInv => WithinCapacity
  BY DEF CapacityInv
<1> QED  BY <1>1, <1>2, <1>3, TypeCorrect, PTL DEF Spec

-----------------------------------------------------------------------------
(* Executions *)

(* A job has at most one execution to come.                                *)
LEMMA ToComeType == \A j \in Job : ToCome(j) \in 0..1
BY DEF ToCome

(* A step that starts no execution: no worker joins, nothing is committed,  *)
(* and a job gets another execution to come only with a rerun.              *)
LEMMA NothingStarts ==
    ASSUME ConstantsAssumption, TypeOK, TypeOK', ExecutionsBounded,
           \A k \in Job : /\ WorkersOn(k)' \subseteq WorkersOn(k)
                          /\ effects'[k] = effects[k]
                          /\ ToCome(k)' - reruns'[k] <= ToCome(k) - reruns[k]
    PROVE  ExecutionsBounded'
<1> SUFFICES ASSUME NEW k \in Job
             PROVE  (effects[k] + Cardinality(WorkersOn(k)) + ToCome(k) <= 1 + reruns[k])'
  BY DEF ExecutionsBounded
<1>1. /\ IsFiniteSet(WorkersOn(k)) /\ Cardinality(WorkersOn(k)) \in Nat
  BY FiniteParts
<1>2. Cardinality(WorkersOn(k)') <= Cardinality(WorkersOn(k)) /\ Cardinality(WorkersOn(k)') \in Nat
  BY <1>1, FS_Subset, FS_CardinalityType
<1>3. ToCome(k) \in 0..1 /\ ToCome(k)' \in 0..1
  BY DEF ToCome
<1>4. effects[k] \in Nat /\ reruns[k] \in Nat /\ effects'[k] \in Nat /\ reruns'[k] \in Nat
  BY DEF TypeOK
<1>5. effects[k] + Cardinality(WorkersOn(k)) + ToCome(k) <= 1 + reruns[k]
  BY DEF ExecutionsBounded
<1>6. /\ effects'[k] = effects[k]
      /\ ToCome(k)' - reruns'[k] <= ToCome(k) - reruns[k]
  OBVIOUS
<1> QED  BY <1>1, <1>2, <1>3, <1>4, <1>5, <1>6

(* A step in which worker w leaves job j: its place is taken by a committed *)
(* execution or by one to come, never by both.                              *)
LEMMA WorkerLeaves ==
    ASSUME ConstantsAssumption, TypeOK, TypeOK', ExecutionsBounded,
           NEW w \in Worker, NEW j \in Job, work[w].job = j,
           work'[w] = Idle,
           \A v \in Worker : v # w => work'[v].job = work[v].job,
           reruns' = reruns,
           \A k \in Job : k # j => effects'[k] = effects[k] /\ ToCome(k)' = ToCome(k),
           effects'[j] + ToCome(j)' <= effects[j] + ToCome(j) + 1
    PROVE  ExecutionsBounded'
<1> SUFFICES ASSUME NEW k \in Job
             PROVE  (effects[k] + Cardinality(WorkersOn(k)) + ToCome(k) <= 1 + reruns[k])'
  BY DEF ExecutionsBounded
<1>1. NoJob # k
  BY DEF ConstantsAssumption
<1>2. WorkersOn(k)' = WorkersOn(k) \ {w}
  BY <1>1 DEF WorkersOn, Idle
<1>3. /\ IsFiniteSet(WorkersOn(k)) /\ Cardinality(WorkersOn(k)) \in Nat
  BY FiniteParts
<1>4. ToCome(k) \in 0..1 /\ ToCome(k)' \in 0..1
  BY DEF ToCome
<1>5. effects[k] \in Nat /\ reruns[k] \in Nat /\ effects'[k] \in Nat
  BY DEF TypeOK
<1>6. effects[k] + Cardinality(WorkersOn(k)) + ToCome(k) <= 1 + reruns[k]
  BY DEF ExecutionsBounded
<1>7. reruns'[k] = reruns[k]
  OBVIOUS
<1>8. CASE k = j
  <2>1. w \in WorkersOn(k)
    BY <1>8 DEF WorkersOn
  <2>2. Cardinality(WorkersOn(k)') = Cardinality(WorkersOn(k)) - 1
    <3>1. Cardinality(WorkersOn(k) \ {w}) = Cardinality(WorkersOn(k)) - 1
      BY <2>1, <1>3, FS_RemoveElement
    <3> QED  BY <3>1, <1>2
  <2>3. effects'[k] + ToCome(k)' <= effects[k] + ToCome(k) + 1
    BY <1>8
  <2> QED  BY <2>2, <2>3, <1>3, <1>4, <1>5, <1>6, <1>7
<1>9. CASE k # j
  <2>1. WorkersOn(k)' = WorkersOn(k)
    BY <1>2, <1>9 DEF WorkersOn
  <2>2. effects'[k] = effects[k] /\ ToCome(k)' = ToCome(k)
    BY <1>9
  <2> QED  BY <2>1, <2>2, <1>6, <1>7
<1> QED  BY <1>8, <1>9

(* Writing the row of j leaves what is to come of the other jobs alone.     *)
LEMMA OthersToCome ==
    ASSUME TypeOK, NEW j \in Job, NEW r, row' = [row EXCEPT ![j] = r], belief' = belief
    PROVE  /\ row'[j] = r
           /\ \A k \in Job : k # j => ToCome(k)' = ToCome(k)
BY DEF TypeOK, ToCome

(* A write by anybody but a worker.                                         *)
LEMMA WriteStartsNothing ==
    ASSUME ConstantsAssumption, TypeOK, TypeOK', ExecutionsBounded,
           NEW j \in Job, NEW r \in Rows,
           row' = [row EXCEPT ![j] = r], work' = Touched(j), belief' = belief,
           effects' = effects,
           \A k \in Job : k # j => reruns'[k] = reruns[k],
           \/ r.state \in {"done", "deleted"} /\ reruns'[j] = reruns[j]
           \/ ToCome(j) = 1 /\ reruns'[j] = reruns[j]
           \/ reruns'[j] = reruns[j] + 1
    PROVE  ExecutionsBounded'
<1>1. \A k \in Job : WorkersOn(k)' = WorkersOn(k)
  BY TouchedType DEF TypeOK, WorkersOn
<1>2. row'[j] = r /\ \A k \in Job : k # j => ToCome(k)' = ToCome(k)
  BY OthersToCome
<1>3. ToCome(j) \in 0..1 /\ ToCome(j)' \in 0..1 /\ reruns[j] \in Nat
  BY DEF ToCome, TypeOK
<1>4. r.state \in {"done", "deleted"} => ToCome(j)' <= ToCome(j)
  BY <1>2 DEF ToCome
<1>5. ToCome(j)' - reruns'[j] <= ToCome(j) - reruns[j]
  BY <1>3, <1>4
<1>6. ASSUME NEW k \in Job
      PROVE  /\ WorkersOn(k)' \subseteq WorkersOn(k)
             /\ effects'[k] = effects[k]
             /\ ToCome(k)' - reruns'[k] <= ToCome(k) - reruns[k]
  <2>1. CASE k = j
    BY <2>1, <1>1, <1>5
  <2>2. CASE k # j
    <3>1. ToCome(k) \in 0..1 /\ reruns[k] \in Nat
      BY DEF ToCome, TypeOK
    <3> QED  BY <2>2, <3>1, <1>1, <1>2
  <2> QED  BY <2>1, <2>2
<1> QED  BY <1>6, NothingStarts

(* A step that writes no row starts no execution,                          *)
LEMMA NoWriteStartsNothing ==
    ASSUME ConstantsAssumption, TypeOK, TypeOK', ExecutionsBounded,
           UNCHANGED <<row, effects, reruns>>,
           \A k \in Job : WorkersOn(k)' \subseteq WorkersOn(k),
           \A k \in Job : belief'[k] = "pending" => ToCome(k) = 1
    PROVE  ExecutionsBounded'
<1>1. \A k \in Job : ToCome(k)' <= ToCome(k) /\ ToCome(k) \in 0..1 /\ ToCome(k)' \in 0..1
  BY DEF ToCome
<1>2. \A k \in Job : reruns[k] \in Nat
  BY DEF TypeOK
<1>3. \A k \in Job : ToCome(k)' - reruns'[k] <= ToCome(k) - reruns[k]
  BY <1>1, <1>2
<1> QED  BY <1>3, NothingStarts

(* ... and neither does the reset of an enqueued job.                      *)
LEMMA ResetStartsNothing ==
    ASSUME ConstantsAssumption, TypeOK, TypeOK', ExecutionsBounded,
           NEW j \in Job, ResetEnqueued(j), UNCHANGED <<belief, histVars>>
    PROVE  ExecutionsBounded'
<1>1. CASE row[j].state = "enqueued"
  <2>1. [row[j] EXCEPT !.state = "pending"] \in Rows
    BY RowUpdates DEF TypeOK, States
  <2>2. ToCome(j) = 1
    BY <1>1 DEF ToCome
  <2> QED  BY <1>1, <2>1, <2>2, WriteStartsNothing DEF ResetEnqueued, Write, histVars
<1>2. CASE row[j].state # "enqueued"
  <2>1. UNCHANGED <<row, work, belief, effects, reruns>>
    BY <1>2 DEF ResetEnqueued, dbVars, histVars
  <2> QED  BY <2>1, NoWriteStartsNothing DEF WorkersOn, ToCome
<1> QED  BY <1>1, <1>2

(* A worker that stores the end of its try and leaves.                      *)
LEMMA LeaveBounded ==
    ASSUME ConstantsAssumption, TypeOK, TypeOK', ExecutionsBounded, NEW w \in Worker,
           work[w].phase = "performing", NEW r \in Rows, WriteAndLeave(w, r),
           UNCHANGED <<belief, reruns>>,
           \/ effects' = effects
           \/ /\ effects' = [effects EXCEPT ![work[w].job] = @ + 1]
              /\ r.state = "done"
    PROVE  ExecutionsBounded'
<1>1. PICK j \in Job : work[w].job = j
  BY BusyJob DEF TypeOK
<1>2. row' = [row EXCEPT ![j] = r] /\ work' = [Touched(j) EXCEPT ![w] = Idle]
  BY <1>1 DEF WriteAndLeave
<1>3. work'[w] = Idle /\ \A v \in Worker : v # w => work'[v].job = work[v].job
  BY <1>1, <1>2, TouchedType DEF TypeOK
<1>4. row'[j] = r /\ \A k \in Job : k # j => ToCome(k)' = ToCome(k)
  BY <1>1, <1>2, OthersToCome
<1>5. \A k \in Job : k # j => effects'[k] = effects[k]
  BY <1>1 DEF TypeOK
<1>6. effects'[j] + ToCome(j)' <= effects[j] + ToCome(j) + 1
  <2>1. effects[j] \in Nat /\ ToCome(j) \in 0..1 /\ ToCome(j)' \in 0..1
    BY <1>1 DEF TypeOK, ToCome
  <2>2. CASE effects' = effects
    BY <2>1, <2>2
  <2>3. CASE effects' = [effects EXCEPT ![j] = @ + 1] /\ r.state = "done"
    <3>1. ToCome(j)' <= ToCome(j)
      BY <1>1, <1>4, <2>3 DEF ToCome
    <3>2. effects'[j] = effects[j] + 1
      BY <1>1, <2>3 DEF TypeOK
    <3> QED  BY <2>1, <3>1, <3>2
  <2> QED  BY <1>1, <2>2, <2>3
<1> QED  BY <1>1, <1>3, <1>4, <1>5, <1>6, WorkerLeaves

(* A request starts an execution only of a job that is enqueued, which is   *)
(* the execution that was to come.                                          *)
LEMMA StartBounded ==
    ASSUME ConstantsAssumption, TypeOK, TypeOK', BeliefInv, ExecutionsBounded,
           NEW w \in Worker, NEW j \in Job, ServeStart(w, j)
    PROVE  ExecutionsBounded'
<1>1. /\ work[w] = Idle /\ row[j].state = "enqueued"
      /\ row' = [row EXCEPT ![j] = [row[j] EXCEPT !.state = "started"]]
      /\ UNCHANGED <<belief, effects, reruns>>
  BY DEF ServeStart, histVars
<1>2. /\ work'[w].job = j
      /\ \A v \in Worker : v # w => work'[v].job = work[v].job
  BY TouchedType DEF ServeStart, TypeOK
<1>3. belief[j] # "pending"
  BY <1>1 DEF BeliefInv, InFlight, Running
<1>4. [row[j] EXCEPT !.state = "started"].state = "started"
  BY DEF TypeOK, Rows
<1>5. row'[j].state = "started" /\ \A k \in Job : k # j => ToCome(k)' = ToCome(k)
  BY <1>1, <1>4, OthersToCome
<1>6. ToCome(j) = 1 /\ ToCome(j)' = 0
  BY <1>1, <1>3, <1>5 DEF ToCome
<1> SUFFICES ASSUME NEW k \in Job
             PROVE  (effects[k] + Cardinality(WorkersOn(k)) + ToCome(k) <= 1 + reruns[k])'
  BY DEF ExecutionsBounded
<1>7. effects[k] + Cardinality(WorkersOn(k)) + ToCome(k) <= 1 + reruns[k]
  BY DEF ExecutionsBounded
<1>8. /\ IsFiniteSet(WorkersOn(k)) /\ Cardinality(WorkersOn(k)) \in Nat
      /\ effects[k] \in Nat /\ reruns[k] \in Nat
  BY FiniteParts DEF TypeOK
<1>9. CASE k = j
  <2>1. w \notin WorkersOn(k)
    BY <1>1, <1>9 DEF WorkersOn, Idle, ConstantsAssumption
  <2>2. WorkersOn(k)' = WorkersOn(k) \cup {w}
    BY <1>2, <1>9 DEF WorkersOn
  <2>3. Cardinality(WorkersOn(k)') = Cardinality(WorkersOn(k)) + 1
    BY <2>1, <2>2, <1>8, FS_AddElement
  <2> QED  BY <2>3, <1>1, <1>6, <1>7, <1>8, <1>9
<1>10. CASE k # j
  <2>1. WorkersOn(k)' = WorkersOn(k)
    BY <1>1, <1>2, <1>10 DEF WorkersOn, Idle, ConstantsAssumption
  <2> QED  BY <2>1, <1>1, <1>5, <1>7, <1>10
<1> QED  BY <1>9, <1>10

(* Every step keeps the bound of executions.                               *)
LEMMA ExecutionsStep ==
    ConstantsAssumption /\ TypeOK /\ TypeOK' /\ BeliefInv /\ ExecutionsBounded /\ [Next]_vars
        => ExecutionsBounded'
<1> SUFFICES ASSUME ConstantsAssumption, TypeOK, TypeOK', BeliefInv, ExecutionsBounded, [Next]_vars
             PROVE  ExecutionsBounded'
  OBVIOUS
<1>u. \A j \in Job : row[j] \in Rows
  BY DEF TypeOK
<1>w. ASSUME NEW w \in Worker, work[w].phase = "performing",
             NEW s \in {"pending", "done", "failed"}
      PROVE  /\ StoredRow(w, s, work[w].retry + 1, work[w].dated) \in Rows
             /\ StoredRow(w, s, work[w].retry, work[w].dated) \in Rows
             /\ StoredRow(w, s, work[w].retry + 1, TRUE) \in Rows
             /\ StoredRow(w, s, work[w].retry + 1, TRUE).state = s
  <2>1. work[w].retry \in Nat /\ work[w].retry + 1 \in Nat /\ work[w].dated \in BOOLEAN
    BY <1>w, BusyJob DEF TypeOK
  <2> QED  BY <2>1 DEF StoredRow, Rows, States
<1>p. \A k \in Job : belief[k] = "pending" => ToCome(k) = 1
  BY DEF ToCome
<1>1. CASE RunnerListen \/ RunnerError \/ RunnerDies
  <2>1. /\ UNCHANGED <<row, effects, reruns, work>>
        /\ \A k \in Job : belief'[k] = "pending" => belief[k] = "pending"
    BY <1>1 DEF RunnerListen, RunnerError, RunnerDies, histVars, TypeOK
  <2> QED  BY <2>1, <1>p, NoWriteStartsNothing DEF WorkersOn
<1>2. CASE RunnerLoad
  <2>1. /\ UNCHANGED <<row, effects, reruns, work>>
        /\ \A k \in Job : belief'[k] = Seen(row[k].state)
    BY <1>2 DEF RunnerLoad, histVars, dbVars
  <2>2. \A k \in Job : belief'[k] = "pending" => ToCome(k) = 1
    BY <2>1 DEF Seen, ToCome
  <2> QED  BY <2>1, <2>2, NoWriteStartsNothing DEF WorkersOn
<1>2a. CASE RunnerReady
  BY <1>2a, <1>p, NoWriteStartsNothing DEF RunnerReady, dbVars, histVars, WorkersOn
<1>3. ASSUME NEW j \in Job, ProcessNotification(j) PROVE ExecutionsBounded'
  <2>1. /\ UNCHANGED <<row, effects, reruns, work>>
        /\ \A k \in Job : belief'[k] \in {Seen(row[k].state), belief[k]}
    BY <1>3 DEF ProcessNotification, histVars, TypeOK
  <2>2. \A k \in Job : belief'[k] = "pending" => ToCome(k) = 1
    BY <2>1, <1>p DEF Seen, ToCome
  <2> QED  BY <2>1, <2>2, NoWriteStartsNothing DEF WorkersOn
<1>4. ASSUME NEW j \in Job, Dispatch(j) PROVE ExecutionsBounded'
  <2>1. /\ belief[j] = "pending" /\ UNCHANGED <<effects, reruns>>
        /\ \A k \in Job : belief'[k] = IF k = j THEN "running" ELSE belief[k]
    BY <1>4 DEF Dispatch, TypeOK, histVars
  <2>2. \A k \in Job : k # j => row'[k] = row[k]
    BY <1>4 DEF Dispatch, Write, dbVars, TypeOK
  <2>3. \A k \in Job : WorkersOn(k)' = WorkersOn(k)
    <3>1. work' = Touched(j) \/ work' = work
      BY <1>4 DEF Dispatch, Write, dbVars
    <3> QED  BY <3>1, TouchedType DEF WorkersOn, TypeOK
  <2>4. ToCome(j) = 1
    BY <2>1, <1>p
  <2>5. \A k \in Job : ToCome(k)' <= ToCome(k) /\ ToCome(k) \in 0..1 /\ ToCome(k)' \in 0..1
    BY <2>1, <2>2, <2>4 DEF ToCome
  <2>6. \A k \in Job : reruns[k] \in Nat
    BY DEF TypeOK
  <2>7. \A k \in Job : ToCome(k)' - reruns'[k] <= ToCome(k) - reruns[k]
    BY <2>1, <2>5, <2>6
  <2> QED  BY <2>1, <2>3, <2>7, NothingStarts
<1>5. ASSUME NEW j \in Job, CallTimeout(j) \/ CallRefused(j) \/ ServedTimeout(j)
      PROVE  ExecutionsBounded'
  BY <1>5, ResetStartsNothing DEF CallTimeout, CallRefused, ServedTimeout
<1>6. ASSUME NEW j \in Job, ServedAnswered(j) \/ LoseLate(j) PROVE ExecutionsBounded'
  BY <1>6, <1>p, NoWriteStartsNothing
  DEF ServedAnswered, LoseLate, dbVars, histVars, WorkersOn
<1>7. ASSUME NEW w \in Worker, NEW j \in Job, ServeStart(w, j) PROVE ExecutionsBounded'
  BY <1>7, StartBounded
<1>8. ASSUME NEW w \in Worker, NEW j \in Job, ServeSkip(w, j) PROVE ExecutionsBounded'
  BY <1>8, <1>p, NoWriteStartsNothing DEF ServeSkip, dbVars, histVars, WorkersOn
<1>9. ASSUME NEW w \in Worker, BeginPerform(w) PROVE ExecutionsBounded'
  <2>1. \A v \in Worker : work'[v].job = work[v].job
    BY <1>9, BusyJob DEF BeginPerform, TypeOK
  <2> QED  BY <1>9, <2>1, <1>p, NoWriteStartsNothing DEF BeginPerform, histVars, WorkersOn
<1>10. ASSUME NEW w \in Worker, NothingToDoConflict(w) \/ WorkerDies(w)
       PROVE  ExecutionsBounded'
  <2>1. \A k \in Job : WorkersOn(k)' \subseteq WorkersOn(k)
    BY <1>10 DEF NothingToDoConflict, WorkerDies, WorkersOn, Idle, ConstantsAssumption, TypeOK
  <2> QED  BY <1>10, <2>1, <1>p, NoWriteStartsNothing
           DEF NothingToDoConflict, WorkerDies, histVars
<1>11. ASSUME NEW w \in Worker, PerformDone(w) PROVE ExecutionsBounded'
  BY <1>11, <1>w, LeaveBounded DEF PerformDone
<1>12. ASSUME NEW w \in Worker, Conflict(w) PROVE ExecutionsBounded'
  BY <1>12, <1>w, LeaveBounded DEF Conflict, histVars
<1>13. ASSUME NEW w \in Worker, PerformRetry(w) PROVE ExecutionsBounded'
  BY <1>13, <1>w, LeaveBounded DEF PerformRetry
<1>14. ASSUME NEW w \in Worker, PerformRetryIgnored(w) PROVE ExecutionsBounded'
  BY <1>14, <1>w, LeaveBounded DEF PerformRetryIgnored
<1>15. ASSUME NEW w \in Worker, PerformFailed(w) PROVE ExecutionsBounded'
  BY <1>15, <1>w, LeaveBounded DEF PerformFailed, histVars
<1>16. ASSUME NEW j \in Job, Enqueue(j) PROVE ExecutionsBounded'
  <2>1. [state |-> "pending", retry |-> 0, dated |-> FALSE] \in Rows
    BY DEF Rows, States
  <2>2. ToCome(j) = 1
    BY <1>16 DEF Enqueue, ToCome
  <2> QED  BY <1>16, <2>1, <2>2, WriteStartsNothing DEF Enqueue, Write, histVars
<1>17. ASSUME NEW j \in Job, Requeue(j) PROVE ExecutionsBounded'
  <2>1. [row[j] EXCEPT !.state = "pending", !.retry = 0] \in Rows
    BY <1>u, RowUpdates
  <2>2. /\ row' = [row EXCEPT ![j] = [row[j] EXCEPT !.state = "pending", !.retry = 0]]
        /\ work' = Touched(j) /\ UNCHANGED <<belief, effects>>
        /\ reruns' = [reruns EXCEPT ![j] =
                         IF row[j].state \in {"started", "done"} THEN @ + 1 ELSE @]
    BY <1>17 DEF Requeue, Write
  <2>3. row[j].state \in States \ {"none", "deleted"}
    BY <1>17 DEF Requeue, ConstantsAssumption
  <2>4. CASE row[j].state \in {"started", "done"}
    BY <2>1, <2>2, <2>4, WriteStartsNothing DEF TypeOK
  <2>5. CASE row[j].state \notin {"started", "done"}
    <3>1. ToCome(j) = 1
      BY <2>3, <2>5 DEF States, ToCome
    <3> QED  BY <2>1, <2>2, <2>5, <3>1, WriteStartsNothing DEF TypeOK
  <2> QED  BY <2>4, <2>5
<1>18. ASSUME NEW j \in Job, RequeueStuck(j) PROVE ExecutionsBounded'
  <2>1. [row[j] EXCEPT !.state = "pending", !.retry = 0] \in Rows
    BY <1>u, RowUpdates
  <2>2. ToCome(j) = 1
    BY <1>18 DEF RequeueStuck, ToCome
  <2> QED  BY <1>18, <2>1, <2>2, WriteStartsNothing DEF RequeueStuck, Write, histVars
<1>19. ASSUME NEW j \in Job, SetDone(j) PROVE ExecutionsBounded'
  <2> DEFINE r == [row[j] EXCEPT !.state = "done", !.dated = TRUE]
  <2>1. r \in Rows /\ r.state = "done"
    BY <1>u, RowUpdates DEF Rows
  <2>2. /\ row' = [row EXCEPT ![j] = r]
        /\ work' = Touched(j) /\ UNCHANGED <<belief, effects, reruns>>
    BY <1>19 DEF SetDone, Write, histVars
  <2> HIDE DEF r
  <2> QED  BY <2>1, <2>2, WriteStartsNothing
<1>20. ASSUME NEW j \in Job, Autovacuum(j) PROVE ExecutionsBounded'
  <2> DEFINE r == [state |-> "deleted", retry |-> 0, dated |-> FALSE]
  <2>1. r \in Rows /\ r.state = "deleted"
    BY DEF Rows, States
  <2>2. /\ row' = [row EXCEPT ![j] = r]
        /\ work' = Touched(j) /\ UNCHANGED <<belief, effects, reruns>>
    BY <1>20 DEF Autovacuum, histVars
  <2> HIDE DEF r
  <2> QED  BY <2>1, <2>2, WriteStartsNothing
<1>21. CASE UNCHANGED vars
  BY <1>21 DEF vars, ExecutionsBounded, WorkersOn, ToCome
<1> QED
  BY <1>1, <1>2, <1>2a, <1>3, <1>4, <1>5, <1>6, <1>7, <1>8, <1>9, <1>10, <1>11, <1>12, <1>13,
     <1>14, <1>15, <1>16, <1>17, <1>18, <1>19, <1>20, <1>21
  DEF Next, RunnerNext, CallNext, WorkerNext, OperatorNext, Finish

(* A job is never executed more often than once plus its reruns.            *)
THEOREM ExecutedOnce == Spec => []ExecutionsBounded
<1>1. Init => BeliefInv /\ ExecutionsBounded
  <2> SUFFICES ASSUME Init PROVE BeliefInv /\ ExecutionsBounded
    OBVIOUS
  <2>1. \A j \in Job : WorkersOn(j) = {}
    BY ConstantsAssumption DEF Init, WorkersOn, Idle, ConstantsAssumption
  <2>2. \A j \in Job : effects[j] = 0 /\ reruns[j] = 0 /\ ToCome(j) = 1
    BY DEF Init, ToCome
  <2>3. ExecutionsBounded
    <3>1. \A j \in Job : Cardinality(WorkersOn(j)) = 0
      BY <2>1, FS_EmptySet
    <3> QED  BY <2>2, <3>1 DEF ExecutionsBounded
  <2> QED  BY <2>3 DEF Init, BeliefInv, NoLostNotification, Loaded
<1>2. TypeOK /\ BeliefInv /\ ExecutionsBounded /\ [Next]_vars
        => TypeOK' /\ BeliefInv' /\ ExecutionsBounded'
  BY ConstantsAssumption, TypeStep, BeliefStep, ExecutionsStep
<1> QED  BY <1>1, <1>2, TypeCorrect, PTL DEF Spec

-----------------------------------------------------------------------------
(* Tries that nobody disturbs *)

(* Operators requeue no job that is started or done, and set none to done  *)
(* that is pending or started.                                             *)
Undisturbed == /\ RequeueFrom \cap {"started", "done"} = {}
               /\ DoneFrom \cap {"pending", "started"} = {}

(* Then a job that the channel would hand out is pending, only a done job  *)
(* has its date, and a job that a worker executes is started and that      *)
(* worker's alone.                                                         *)
TryInv ==
    /\ \A j \in Job : belief[j] = "pending" => row[j].state = "pending"
    /\ \A j \in Job : row[j].dated = TRUE => row[j].state = "done"
    /\ \A w \in Worker, j \in Job :
          work[w].job = j => row[j].state = "started" /\ work[w].dated = FALSE
    /\ \A v, w \in Worker, j \in Job : work[v].job = j /\ work[w].job = j => v = w

(* Touching a job's snapshots leaves the rest of what a worker has.        *)
LEMMA TouchedKeeps ==
    ASSUME NEW j \in Job, work \in [Worker -> Works]
    PROVE  \A w \in Worker : Touched(j)[w].job = work[w].job /\ Touched(j)[w].dated = work[w].dated
<1> SUFFICES ASSUME NEW w \in Worker
             PROVE  Touched(j)[w].job = work[w].job /\ Touched(j)[w].dated = work[w].dated
  OBVIOUS
<1>1. CASE work[w].job = j /\ work[w].phase = "performing"
  <2>1. work[w] \in [job : Job, phase : {"started", "performing"},
                     retry : Nat, dated : BOOLEAN, stale : BOOLEAN]
    BY <1>1, BusyJob
  <2> QED  BY <1>1, <2>1 DEF Touched
<1>2. CASE ~(work[w].job = j /\ work[w].phase = "performing")
  BY <1>2 DEF Touched
<1> QED  BY <1>1, <1>2

(* A write of a row of which nobody makes a try.                           *)
LEMMA WriteKeepsTries ==
    ASSUME TypeOK, TryInv, NEW j \in Job, NEW r \in Rows,
           row' = [row EXCEPT ![j] = r], work' = Touched(j),
           row[j].state # "started", r.dated = TRUE => r.state = "done",
           \A k \in Job : belief'[k] = "pending" => belief[k] = "pending",
           belief'[j] = "pending" => r.state = "pending"
    PROVE  TryInv'
<1>1. /\ row'[j] = r
      /\ \A k \in Job : k # j => row'[k] = row[k]
  BY DEF TypeOK
<1>2. \A w \in Worker : work'[w].job = work[w].job /\ work'[w].dated = work[w].dated
  BY TouchedKeeps DEF TypeOK
<1>3. \A w \in Worker : work[w].job # j
  BY DEF TryInv
<1> QED  BY <1>1, <1>2, <1>3 DEF TryInv

(* A step that writes no row and gives no worker a job.                    *)
LEMMA NoWriteKeepsTries ==
    ASSUME TryInv, row' = row,
           \A w \in Worker, j \in Job :
               work'[w].job = j => work[w].job = j /\ work'[w].dated = work[w].dated,
           \A k \in Job : belief'[k] = "pending" => row[k].state = "pending"
    PROVE  TryInv'
BY DEF TryInv

LEMMA ResetKeepsTries ==
    ASSUME TypeOK, TryInv, NEW j \in Job, ResetEnqueued(j), belief' = belief
    PROVE  TryInv'
<1>1. CASE row[j].state = "enqueued"
  <2>1. row[j] \in Rows
    BY DEF TypeOK
  <2>2. [row[j] EXCEPT !.state = "pending"] \in Rows
    BY <2>1, RowUpdates DEF States
  <2>3. /\ [row[j] EXCEPT !.state = "pending"].dated = row[j].dated
        /\ [row[j] EXCEPT !.state = "pending"].state = "pending"
    BY <2>1 DEF Rows
  <2>4. row[j].dated # TRUE
    BY <1>1 DEF TryInv
  <2> QED  BY <1>1, <2>2, <2>3, <2>4, WriteKeepsTries DEF ResetEnqueued, Write
<1>2. CASE row[j].state # "enqueued"
  <2>1. row' = row /\ work' = work
    BY <1>2 DEF ResetEnqueued, dbVars
  <2>2. \A k \in Job : belief'[k] = "pending" => row[k].state = "pending"
    BY DEF TryInv
  <2> QED  BY <2>1, <2>2, NoWriteKeepsTries
<1> QED  BY <1>1, <1>2

(* A worker stores the end of its try and leaves its job.                  *)
LEMMA LeaveKeepsTries ==
    ASSUME ConstantsAssumption, TypeOK, BeliefInv, TryInv, NEW w \in Worker,
           work[w].phase = "performing", NEW r \in Rows, WriteAndLeave(w, r),
           r.dated = TRUE => r.state = "done", belief' = belief
    PROVE  /\ TryInv'
           /\ row[work[w].job].state = "started"
<1>1. PICK j \in Job : work[w].job = j
  BY BusyJob DEF TypeOK
<1>2. row' = [row EXCEPT ![j] = r] /\ work' = [Touched(j) EXCEPT ![w] = Idle]
  BY <1>1 DEF WriteAndLeave
<1>3. /\ row'[j] = r
      /\ \A k \in Job : k # j => row'[k] = row[k]
  BY <1>2 DEF TypeOK
<1>4. /\ work'[w].job = NoJob
      /\ \A v \in Worker : v # w => work'[v].job = work[v].job /\ work'[v].dated = work[v].dated
  BY <1>2, TouchedKeeps, TouchedType DEF TypeOK, Idle
<1>5. row[j].state = "started" /\ \A v \in Worker : v # w => work[v].job # j
  BY <1>1 DEF TryInv
<1>6. belief[j] # "pending"
  BY <1>5 DEF TryInv
<1> QED  BY <1>1, <1>3, <1>4, <1>5, <1>6 DEF TryInv, ConstantsAssumption

LEMMA StartKeepsTries ==
    ASSUME ConstantsAssumption, TypeOK, TryInv, NEW w \in Worker, NEW j \in Job, ServeStart(w, j)
    PROVE  TryInv'
<1>1. /\ row[j].state = "enqueued" /\ belief' = belief
      /\ row' = [row EXCEPT ![j] = [row[j] EXCEPT !.state = "started"]]
      /\ work' = [Touched(j) EXCEPT ![w] =
                    [job |-> j, phase |-> "started", retry |-> row[j].retry,
                     dated |-> row[j].dated, stale |-> FALSE]]
  BY DEF ServeStart
<1>2. /\ row'[j].state = "started" /\ row'[j].dated = row[j].dated
      /\ \A k \in Job : k # j => row'[k] = row[k]
  BY <1>1 DEF TypeOK, Rows
<1>3. /\ work'[w].job = j /\ work'[w].dated = row[j].dated
      /\ \A v \in Worker : v # w => work'[v].job = work[v].job /\ work'[v].dated = work[v].dated
  BY <1>1, TouchedKeeps, TouchedType DEF TypeOK
<1>4. row[j].dated = FALSE /\ belief[j] # "pending"
  BY <1>1 DEF TryInv, TypeOK, Rows
<1>5. \A v \in Worker : work[v].job # j
  BY <1>1 DEF TryInv
<1> QED  BY <1>1, <1>2, <1>3, <1>4, <1>5 DEF TryInv

(* Every step keeps the tries undisturbed.                                 *)
LEMMA TryStep ==
    Undisturbed /\ ConstantsAssumption /\ TypeOK /\ BeliefInv /\ TryInv /\ [Next]_vars => TryInv'
<1> SUFFICES ASSUME Undisturbed, ConstantsAssumption, TypeOK, BeliefInv, TryInv, [Next]_vars
             PROVE  TryInv'
  OBVIOUS
<1>u. \A j \in Job : row[j] \in Rows
  BY DEF TypeOK
<1>p. \A k \in Job : belief[k] = "pending" => row[k].state = "pending"
  BY DEF TryInv
<1>e. ASSUME NEW j \in Job, NEW s \in States
      PROVE  /\ [row[j] EXCEPT !.state = s].state = s
             /\ [row[j] EXCEPT !.state = s].dated = row[j].dated
             /\ [row[j] EXCEPT !.state = s, !.retry = 0].state = s
             /\ [row[j] EXCEPT !.state = s, !.retry = 0].dated = row[j].dated
  BY <1>u DEF Rows
<1>d. \A j \in Job : row[j].state # "done" => row[j].dated # TRUE
  BY DEF TryInv
<1>w. ASSUME NEW w \in Worker, work[w].phase = "performing", NEW s \in {"pending", "failed"}
      PROVE  /\ StoredRow(w, s, work[w].retry + 1, work[w].dated) \in Rows
             /\ StoredRow(w, s, work[w].retry, work[w].dated) \in Rows
             /\ StoredRow(w, s, work[w].retry + 1, work[w].dated).dated = FALSE
             /\ StoredRow(w, s, work[w].retry, work[w].dated).dated = FALSE
  <2>1. work[w].retry \in Nat /\ work[w].retry + 1 \in Nat /\ work[w].dated = FALSE
    BY <1>w, BusyJob DEF TypeOK, TryInv
  <2> QED  BY <2>1 DEF StoredRow, Rows, States
<1>1. CASE RunnerListen \/ RunnerError \/ RunnerDies
  <2>1. /\ UNCHANGED <<row, work>>
        /\ \A k \in Job : belief'[k] = "pending" => belief[k] = "pending"
    BY <1>1 DEF RunnerListen, RunnerError, RunnerDies, TypeOK
  <2> QED  BY <2>1, <1>p, NoWriteKeepsTries
<1>2. CASE RunnerLoad
  <2>1. /\ UNCHANGED <<row, work>>
        /\ \A k \in Job : belief'[k] = Seen(row[k].state)
    BY <1>2 DEF RunnerLoad, dbVars
  <2>2. \A k \in Job : belief'[k] = "pending" => row[k].state = "pending"
    BY <2>1 DEF Seen
  <2> QED  BY <2>1, <2>2, NoWriteKeepsTries
<1>3. CASE RunnerReady
  BY <1>3, <1>p, NoWriteKeepsTries DEF RunnerReady, dbVars
<1>4. ASSUME NEW j \in Job, ProcessNotification(j) PROVE TryInv'
  <2>1. /\ UNCHANGED <<row, work>>
        /\ \A k \in Job : belief'[k] \in {Seen(row[k].state), belief[k]}
    BY <1>4 DEF ProcessNotification, TypeOK
  <2>2. \A k \in Job : belief'[k] = "pending" => row[k].state = "pending"
    BY <2>1, <1>p DEF Seen
  <2> QED  BY <2>1, <2>2, NoWriteKeepsTries
<1>5. ASSUME NEW j \in Job, Dispatch(j) PROVE TryInv'
  <2>1. row[j].state = "pending"
    BY <1>5, <1>p DEF Dispatch
  <2>2. \A k \in Job : belief'[k] = IF k = j THEN "running" ELSE belief[k]
    BY <1>5 DEF Dispatch, TypeOK
  <2>3. /\ row' = [row EXCEPT ![j] = [row[j] EXCEPT !.state = "enqueued"]]
        /\ work' = Touched(j)
    BY <1>5, <2>1 DEF Dispatch, Exists, Write
  <2>4. [row[j] EXCEPT !.state = "enqueued"] \in Rows
    BY <1>u, RowUpdates DEF States
  <2>5. [row[j] EXCEPT !.state = "enqueued"].dated # TRUE
    BY <2>1, <1>d, <1>e DEF States
  <2> QED  BY <2>1, <2>2, <2>3, <2>4, <2>5, WriteKeepsTries
<1>6. ASSUME NEW j \in Job, CallTimeout(j) \/ CallRefused(j) \/ ServedTimeout(j)
      PROVE  TryInv'
  BY <1>6, ResetKeepsTries DEF CallTimeout, CallRefused, ServedTimeout
<1>7. ASSUME NEW j \in Job, ServedAnswered(j) \/ LoseLate(j) PROVE TryInv'
  BY <1>7, <1>p, NoWriteKeepsTries DEF ServedAnswered, LoseLate, dbVars
<1>8. ASSUME NEW w \in Worker, NEW j \in Job, ServeStart(w, j) PROVE TryInv'
  BY <1>8, StartKeepsTries
<1>9. ASSUME NEW w \in Worker, NEW j \in Job, ServeSkip(w, j) PROVE TryInv'
  BY <1>9, <1>p, NoWriteKeepsTries DEF ServeSkip, dbVars
<1>10. ASSUME NEW w \in Worker, BeginPerform(w) PROVE TryInv'
  <2>1. \A v \in Worker : work'[v].job = work[v].job /\ work'[v].dated = work[v].dated
    BY <1>10, BusyJob DEF BeginPerform, TypeOK
  <2> QED  BY <1>10, <2>1, <1>p, NoWriteKeepsTries DEF BeginPerform
<1>11. ASSUME NEW w \in Worker, NothingToDoConflict(w) \/ WorkerDies(w) PROVE TryInv'
  <2>1. \A v \in Worker, j \in Job : work'[v].job = j => work[v].job = j /\ work'[v] = work[v]
    BY <1>11 DEF NothingToDoConflict, WorkerDies, Idle, ConstantsAssumption, TypeOK
  <2> QED  BY <1>11, <2>1, <1>p, NoWriteKeepsTries DEF NothingToDoConflict, WorkerDies
<1>12. ASSUME NEW w \in Worker, PerformDone(w) PROVE TryInv'
  <2>1. /\ StoredRow(w, "done", work[w].retry + 1, TRUE) \in Rows
        /\ StoredRow(w, "done", work[w].retry + 1, TRUE).state = "done"
    BY <1>12, BusyJob DEF PerformDone, TypeOK, StoredRow, Rows, States
  <2> QED  BY <1>12, <2>1, LeaveKeepsTries DEF PerformDone
<1>13. ASSUME NEW w \in Worker,
              Conflict(w) \/ PerformRetry(w) \/ PerformRetryIgnored(w) \/ PerformFailed(w)
       PROVE  TryInv'
  <2>1. CASE Conflict(w)
    BY <2>1, <1>w, LeaveKeepsTries DEF Conflict
  <2>2. CASE PerformRetry(w)
    BY <2>2, <1>w, LeaveKeepsTries DEF PerformRetry
  <2>3. CASE PerformRetryIgnored(w)
    BY <2>3, <1>w, LeaveKeepsTries DEF PerformRetryIgnored
  <2>4. CASE PerformFailed(w)
    BY <2>4, <1>w, LeaveKeepsTries DEF PerformFailed
  <2> QED  BY <1>13, <2>1, <2>2, <2>3, <2>4
<1>14. ASSUME NEW j \in Job, Enqueue(j) PROVE TryInv'
  <2>1. [state |-> "pending", retry |-> 0, dated |-> FALSE] \in Rows
    BY DEF Rows, States
  <2> QED  BY <1>14, <2>1, WriteKeepsTries DEF Enqueue, Write
<1>15. ASSUME NEW j \in Job, Requeue(j) \/ RequeueStuck(j) PROVE TryInv'
  <2>1. /\ row' = [row EXCEPT ![j] = [row[j] EXCEPT !.state = "pending", !.retry = 0]]
        /\ work' = Touched(j) /\ belief' = belief
        /\ row[j].state \notin {"started", "done"}
    BY <1>15 DEF Requeue, RequeueStuck, Write, Undisturbed
  <2>2. [row[j] EXCEPT !.state = "pending", !.retry = 0] \in Rows
    BY <1>u, RowUpdates
  <2> QED  BY <2>1, <2>2, <1>d, <1>e, WriteKeepsTries DEF States
<1>16. ASSUME NEW j \in Job, SetDone(j) PROVE TryInv'
  <2> DEFINE r == [row[j] EXCEPT !.state = "done", !.dated = TRUE]
  <2>1. r \in Rows /\ r.state = "done"
    BY <1>u, RowUpdates DEF Rows
  <2>2. /\ row' = [row EXCEPT ![j] = r] /\ work' = Touched(j) /\ belief' = belief
        /\ row[j].state \notin {"started", "pending"}
    BY <1>16 DEF SetDone, Write, Undisturbed
  <2>3. belief[j] # "pending"
    BY <2>2, <1>p
  <2> HIDE DEF r
  <2> QED  BY <2>1, <2>2, <2>3, WriteKeepsTries
<1>17. ASSUME NEW j \in Job, Autovacuum(j) PROVE TryInv'
  <2> DEFINE r == [state |-> "deleted", retry |-> 0, dated |-> FALSE]
  <2>1. r \in Rows /\ r.dated = FALSE
    BY DEF Rows, States
  <2>2. /\ row' = [row EXCEPT ![j] = r] /\ work' = Touched(j) /\ belief' = belief
        /\ row[j].dated
    BY <1>17 DEF Autovacuum
  <2>3. row[j].state = "done" /\ belief[j] # "pending"
    BY <2>2, <1>d, <1>p, <1>u DEF Rows
  <2> HIDE DEF r
  <2> QED  BY <2>1, <2>2, <2>3, WriteKeepsTries
<1>18. CASE UNCHANGED vars
  BY <1>18 DEF vars, TryInv
<1> QED
  BY <1>1, <1>2, <1>3, <1>4, <1>5, <1>6, <1>7, <1>8, <1>9, <1>10, <1>11, <1>12, <1>13, <1>14,
     <1>15, <1>16, <1>17, <1>18
  DEF Next, RunnerNext, CallNext, WorkerNext, OperatorNext, Finish

LEMMA TryInit == ConstantsAssumption /\ Init => BeliefInv /\ TryInv
BY DEF Init, BeliefInv, NoLostNotification, Loaded, TryInv, Idle, ConstantsAssumption

(* The workers that execute jobs have each a job of their own that is      *)
(* started, so there are no more of them than the channel allows, unless   *)
(* an operator disturbs a try.                                             *)
THEOREM BusyKept == ASSUME Undisturbed PROVE Spec => []BusyWithinCapacity
<1>1. Init => BeliefInv /\ CapacityInv /\ TryInv
  <2> SUFFICES ASSUME Init PROVE CapacityInv
    BY ConstantsAssumption, TryInit
  <2>1. Running = {} /\ InFlight = {}
    BY DEF Init, Running, InFlight
  <2> QED  BY <2>1, FS_EmptySet, ConstantsAssumption
           DEF CapacityInv, WithinCapacity, ConstantsAssumption
<1>2. TypeOK /\ BeliefInv /\ CapacityInv /\ TryInv /\ [Next]_vars
        => BeliefInv' /\ CapacityInv' /\ TryInv'
  BY ConstantsAssumption, BeliefStep, CapacityStep, TryStep
<1>3. TypeOK /\ CapacityInv /\ TryInv => BusyWithinCapacity
  <2> SUFFICES ASSUME TypeOK, CapacityInv, TryInv PROVE BusyWithinCapacity
    OBVIOUS
  <2> DEFINE Busy == {w \in Worker : work[w] # Idle}
             jobOf == [w \in Busy |-> work[w].job]
  <2>1. \A w \in Busy : work[w].job \in InFlight
    BY BusyJob DEF TypeOK, TryInv, InFlight
  <2>2. jobOf \in [Busy -> InFlight]
    BY <2>1
  <2>3. \A v, w \in Busy : jobOf[v] = jobOf[w] => v = w
    BY <2>1 DEF TryInv, InFlight
  <2> HIDE DEF jobOf, Busy
  <2>4. jobOf \in Injection(Busy, InFlight)
    <3>1. DOMAIN jobOf = Busy
      BY <2>2
    <3> QED  BY <2>2, <2>3, <3>1 DEF Injection, IsInjective
  <2>5. /\ IsFiniteSet(InFlight) /\ Cardinality(InFlight) \in Nat
        /\ Capacity \in Nat
    BY FiniteParts, ConstantsAssumption DEF ConstantsAssumption
  <2>6. IsFiniteSet(Busy) /\ Cardinality(Busy) <= Cardinality(InFlight)
    BY <2>4, <2>5, FS_Injection
  <2>7. Cardinality(Busy) \in Nat
    BY <2>6, FS_CardinalityType
  <2> QED  BY <2>5, <2>6, <2>7 DEF BusyWithinCapacity, CapacityInv, WithinCapacity, Busy
<1> QED  BY <1>1, <1>2, <1>3, TypeCorrect, PTL DEF Spec

(* A done job stays done until it is vacuumed: nothing hands it out, and    *)
(* no worker is left that could store the end of another try of it.         *)
THEOREM DoneStays == ASSUME Undisturbed PROVE Spec => DoneIsFinal
<1>1. ASSUME ConstantsAssumption, TypeOK, BeliefInv, TryInv, Next
      PROVE  \A j \in Job : row[j].state = "done" => row'[j].state \in {"done", "deleted"}
  <2> SUFFICES ASSUME NEW k \in Job, row[k].state = "done"
               PROVE  row'[k].state \in {"done", "deleted"}
    OBVIOUS
  <2> USE <1>1
  <2>o. \A j \in Job : \A r :
           row' = [row EXCEPT ![j] = r] /\ row'[k] # row[k] => j = k /\ row'[k] = r
    BY DEF TypeOK
  <2>1. CASE \/ RunnerListen \/ RunnerLoad \/ RunnerReady \/ RunnerError \/ RunnerDies
             \/ \E j \in Job : ProcessNotification(j)
    BY <2>1 DEF RunnerListen, RunnerLoad, RunnerReady, RunnerError, RunnerDies,
                ProcessNotification, dbVars
  <2>2. ASSUME NEW j \in Job, Dispatch(j) PROVE row'[k] = row[k]
    <3>1. row[j].state = "pending"
      BY <2>2 DEF Dispatch, TryInv
    <3> QED  BY <2>2, <2>o, <3>1 DEF Dispatch, Write, Exists
  <2>3. ASSUME NEW j \in Job, CallTimeout(j) \/ CallRefused(j) \/ ServedTimeout(j)
        PROVE  row'[k] = row[k]
    BY <2>3, <2>o DEF CallTimeout, CallRefused, ServedTimeout, ResetEnqueued, Write, dbVars
  <2>4. ASSUME NEW j \in Job, ServedAnswered(j) \/ LoseLate(j) PROVE row'[k] = row[k]
    BY <2>4 DEF ServedAnswered, LoseLate, dbVars
  <2>5. ASSUME NEW w \in Worker, NEW j \in Job, ServeStart(w, j) \/ ServeSkip(w, j)
        PROVE  row'[k] = row[k]
    BY <2>5, <2>o DEF ServeStart, ServeSkip, dbVars
  <2>6. ASSUME NEW w \in Worker, BeginPerform(w) \/ NothingToDoConflict(w) \/ WorkerDies(w)
        PROVE  row'[k] = row[k]
    BY <2>6 DEF BeginPerform, NothingToDoConflict, WorkerDies
  <2>7. ASSUME NEW w \in Worker, PerformDone(w) \/ Conflict(w) \/ PerformRetry(w)
                                 \/ PerformRetryIgnored(w) \/ PerformFailed(w)
        PROVE  row'[k] = row[k]
    <3>1. work[w].phase = "performing" /\ \E r : WriteAndLeave(w, r)
      BY <2>7 DEF PerformDone, Conflict, PerformRetry, PerformRetryIgnored, PerformFailed
    <3>2. PICK j \in Job : work[w].job = j
      BY <3>1, BusyJob DEF TypeOK
    <3>3. row[j].state = "started"
      BY <3>2 DEF TryInv
    <3> QED  BY <2>o, <3>1, <3>2, <3>3 DEF WriteAndLeave
  <2>8. ASSUME NEW j \in Job, Enqueue(j) \/ Requeue(j) \/ RequeueStuck(j)
        PROVE  row'[k] = row[k]
    BY <2>8, <2>o DEF Enqueue, Requeue, RequeueStuck, Write, Undisturbed
  <2>9. ASSUME NEW j \in Job, SetDone(j) \/ Autovacuum(j)
        PROVE  row'[k].state \in {"done", "deleted"}
    <3>1. CASE SetDone(j)
      <4> DEFINE r == [row[j] EXCEPT !.state = "done", !.dated = TRUE]
      <4>1. row' = [row EXCEPT ![j] = r]
        BY <3>1 DEF SetDone, Write
      <4>2. r.state = "done"
        BY DEF TypeOK, Rows
      <4> HIDE DEF r
      <4> QED  BY <4>1, <4>2, <2>o
    <3>2. CASE Autovacuum(j)
      <4> DEFINE r == [state |-> "deleted", retry |-> 0, dated |-> FALSE]
      <4>1. row' = [row EXCEPT ![j] = r] /\ r.state = "deleted"
        BY <3>2 DEF Autovacuum
      <4> HIDE DEF r
      <4> QED  BY <4>1, <2>o
    <3> QED  BY <2>9, <3>1, <3>2
  <2> QED
    BY <2>1, <2>2, <2>3, <2>4, <2>5, <2>6, <2>7, <2>8, <2>9
    DEF Next, RunnerNext, CallNext, WorkerNext, OperatorNext, Finish
<1>2. ASSUME ConstantsAssumption, TypeOK, BeliefInv, TryInv, [Next]_vars
      PROVE  [\A j \in Job : row[j].state = "done" => row'[j].state \in {"done", "deleted"}]_row
  BY <1>1, <1>2 DEF vars
<1>3. TypeOK /\ BeliefInv /\ TryInv /\ [Next]_vars => BeliefInv' /\ TryInv'
  BY ConstantsAssumption, BeliefStep, TryStep
<1>4. Init => BeliefInv /\ TryInv
  BY ConstantsAssumption, TryInit
<1>5. TypeOK /\ BeliefInv /\ TryInv /\ [Next]_vars
        => [\A j \in Job : row[j].state = "done" => row'[j].state \in {"done", "deleted"}]_row
  BY <1>2, ConstantsAssumption
<1> QED  BY <1>3, <1>4, <1>5, TypeCorrect, PTL DEF Spec, DoneIsFinal
=============================================================================
