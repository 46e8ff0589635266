------------------------------ MODULE QueueJob ------------------------------
(***************************************************************************)
(* The job queue of addon queue_job: one database table, one job runner,   *)
(* the HTTP calls by which the runner asks Odoo to run a job, the Odoo     *)
(* workers that serve those calls, and the people and crons that touch the *)
(* table behind their backs.                                               *)
(*                                                                         *)
(*  row      the queue_job table: state, retry and whether date_done is    *)
(*           set, per job                                                  *)
(*  runner   the runner thread: stopped, listening (for notifications),    *)
(*           loading (jobs selected) or ready (its loop runs)              *)
(*  notifs   jobs with a NOTIFY the runner has not processed.  A set is    *)
(*           enough: the runner ignores the payload's age and re-reads the *)
(*           row, so a second notification of an unchanged row is void     *)
(*  belief   where the runner's channel keeps the job                      *)
(*  calls    the runjob requests of a job: "open" (client waits, no worker *)
(*           took it), "late" (client gave up, request still queued at the *)
(*           server), "served" (a worker took it, client still waits)      *)
(*  work     what each Odoo worker is executing, with the Job object's     *)
(*           own copies of retry and date_done, and whether another        *)
(*           transaction wrote the row since this one took its snapshot    *)
(*  faults   how many more faults the environment may cause (a bound)      *)
(*                                                                         *)
(* History variables, read by no action: effects (committed executions),   *)
(* reruns (requeues of a started or done job), leaked (jobs of which an    *)
(* attempt that asked for a retry left changes in the database).           *)
(*                                                                         *)
(* Time is left out: an eta, the 1 s HTTP timeout, the 5 min of the stuck  *)
(* jobs cron and the age of a vacuumed job each become "at any moment".    *)
(* Channels are modelled in module Channels; here there is the root        *)
(* channel alone, with its capacity.                                       *)
(***************************************************************************)
EXTENDS Naturals, FiniteSets

CONSTANTS
    Job, Worker,
    NoJob,        \* what an idle worker executes
    Capacity,     \* capacity of the root channel
    MaxRetries,   \* max_retries of the jobs, 0 = retry for ever
    MaxCalls,     \* bound: runjob requests of one job outstanding at once
    MaxFaults,    \* bound: timeouts, losses, crashes, conflicts, operator acts
    RequeueFrom,  \* states in which an operator requeues a job
    DoneFrom      \* states in which an operator sets a job to done

States == {"none", "pending", "enqueued", "started", "done", "failed", "deleted"}

ASSUME ConstantsAssumption ==
    /\ IsFiniteSet(Job) /\ IsFiniteSet(Worker)
    /\ NoJob \notin Job
    /\ Capacity \in Nat \ {0}
    /\ MaxRetries \in Nat /\ MaxCalls \in Nat /\ MaxFaults \in Nat
    /\ RequeueFrom \subseteq States \ {"none", "deleted"}
    /\ DoneFrom \subseteq States \ {"none", "deleted"}

VARIABLES row, runner, notifs, belief, calls, work, faults, effects, reruns, leaked

dbVars   == <<row, notifs, work>>
histVars == <<effects, reruns, leaked>>
vars == <<row, runner, notifs, belief, calls, work, faults, effects, reruns, leaked>>

Rows  == [state : States, retry : Nat, dated : BOOLEAN]
Calls == [open : Nat, late : Nat, served : Nat]

Idle == [job |-> NoJob, phase |-> "idle", retry |-> 0, dated |-> FALSE, stale |-> FALSE]

Works == {Idle} \cup [job : Job, phase : {"started", "performing"},
                      retry : Nat, dated : BOOLEAN, stale : BOOLEAN]

Init ==
    /\ row = [j \in Job |-> [state |-> "none", retry |-> 0, dated |-> FALSE]]
    /\ runner = "stopped"
    /\ notifs = {}
    /\ belief = [j \in Job |-> "unknown"]
    /\ calls = [j \in Job |-> [open |-> 0, late |-> 0, served |-> 0]]
    /\ work = [w \in Worker |-> Idle]
    /\ faults = MaxFaults
    /\ effects = [j \in Job |-> 0]
    /\ reruns = [j \in Job |-> 0]
    /\ leaked = {}

-----------------------------------------------------------------------------
(* The table *)

Exists(j) == row[j].state \notin {"none", "deleted"}

\* Mutant: LISTEN takes effect only when the jobs are loaded.
NotifyReady(j) == notifs' = IF runner = "ready" THEN notifs \cup {j} ELSE notifs

\* Committing a write of the row of j notifies a listening runner ...
Notify(j) == notifs' = IF runner = "stopped" THEN notifs ELSE notifs \cup {j}

\* ... and makes stale every snapshot taken before.
Touched(j) ==
    [w \in Worker |-> IF work[w].job = j /\ work[w].phase = "performing"
                      THEN [work[w] EXCEPT !.stale = TRUE] ELSE work[w]]

\* Another transaction than a worker's writes row r for job j.
Write(j, r) ==
    /\ row' = [row EXCEPT ![j] = r]
    /\ Notify(j)
    /\ work' = Touched(j)

\* Worker w writes row r for its job and stops working on it; store() creates
\* the record when it finds none, so this also revives a deleted job.
WriteAndLeave(w, r) ==
    /\ row' = [row EXCEPT ![work[w].job] = r]
    /\ Notify(work[w].job)
    /\ work' = [Touched(work[w].job) EXCEPT ![w] = Idle]

Spend == faults > 0 /\ faults' = faults - 1

\* with_delay(): a business transaction commits a new job.
Enqueue(j) ==
    /\ row[j].state = "none"
    /\ Write(j, [state |-> "pending", retry |-> 0, dated |-> FALSE])
    /\ UNCHANGED <<runner, belief, calls, faults, histVars>>

-----------------------------------------------------------------------------
(* The runner *)

\* Where the channel puts a job it reads in a given state.
Seen(state) ==
    CASE state = "pending" -> "pending"
      [] state \in {"enqueued", "started"} -> "running"
      [] state = "failed" -> "failed"
      [] OTHER -> "unknown"

Running == {j \in Job : belief[j] = "running"}

\* Database(): LISTEN, before any row is read.
RunnerListen ==
    /\ runner = "stopped"
    /\ runner' = "listening"
    /\ notifs' = {}
    /\ UNCHANGED <<row, belief, calls, work, faults, histVars>>

\* Mutant: NOT_DONE without "started".
RunnerLoadNotStarted ==
    /\ runner = "listening"
    /\ runner' = "loading"
    /\ belief' = [j \in Job |-> IF row[j].state = "started" THEN "unknown"
                                                           ELSE Seen(row[j].state)]
    /\ UNCHANGED <<dbVars, calls, faults, histVars>>

\* initialize_databases(): select and load every job that is not done ...
RunnerLoad ==
    /\ runner = "listening"
    /\ runner' = "loading"
    /\ belief' = [j \in Job |-> Seen(row[j].state)]
    /\ UNCHANGED <<dbVars, calls, faults, histVars>>

\* ... until the last database is loaded and the loop of run() begins.
RunnerReady ==
    /\ runner = "loading"
    /\ runner' = "ready"
    /\ UNCHANGED <<dbVars, belief, calls, faults, histVars>>

\* process_notifications(): re-read the row and tell the channel.
ProcessNotification(j) ==
    /\ runner = "ready"
    /\ j \in notifs
    /\ notifs' = notifs \ {j}
    /\ belief' = [belief EXCEPT ![j] = Seen(row[j].state)]
    /\ UNCHANGED <<row, runner, calls, work, faults, histVars>>

\* run_jobs(): the channel has room for j; write "enqueued" whatever the row
\* holds by now, and send the request.
Dispatch(j) ==
    /\ runner = "ready"
    /\ belief[j] = "pending"
    /\ Cardinality(Running) < Capacity
    /\ calls[j].open + calls[j].late + calls[j].served < MaxCalls
    /\ belief' = [belief EXCEPT ![j] = "running"]
    /\ calls' = [calls EXCEPT ![j].open = @ + 1]
    /\ IF Exists(j) THEN Write(j, [row[j] EXCEPT !.state = "enqueued"])
                    ELSE UNCHANGED dbVars
    /\ UNCHANGED <<runner, faults, histVars>>

\* run(): an exception closes the databases; the request threads live on.
RunnerError ==
    /\ runner # "stopped"
    /\ Spend
    /\ runner' = "stopped"
    /\ notifs' = {}
    /\ belief' = [j \in Job |-> "unknown"]
    /\ UNCHANGED <<row, calls, work, histVars>>

\* The runner's process ends: its daemon threads end with it, the requests
\* they sent stay with the server.
RunnerDies ==
    /\ runner # "stopped"
    /\ Spend
    /\ runner' = "stopped"
    /\ notifs' = {}
    /\ belief' = [j \in Job |-> "unknown"]
    /\ calls' = [j \in Job |-> [open |-> 0, late |-> calls[j].late + calls[j].open,
                                served |-> 0]]
    /\ UNCHANGED <<row, work, histVars>>

-----------------------------------------------------------------------------
(* The runjob requests, seen from the runner's threads *)

\* Mutant: the UPDATE of set_job_pending() without "and state = enqueued".
ResetAny(j) ==
    IF Exists(j) THEN Write(j, [row[j] EXCEPT !.state = "pending"]) ELSE UNCHANGED dbVars

\* set_job_pending(): the job goes back to pending only if still enqueued.
ResetEnqueued(j) ==
    IF row[j].state = "enqueued"
    THEN Write(j, [row[j] EXCEPT !.state = "pending"])
    ELSE UNCHANGED dbVars

\* requests.Timeout before a worker took the request: it stays queued.
CallTimeout(j) ==
    /\ calls[j].open > 0
    /\ Spend
    /\ calls' = [calls EXCEPT ![j].open = @ - 1, ![j].late = @ + 1]
    /\ ResetEnqueued(j)
    /\ UNCHANGED <<runner, belief, histVars>>

\* Any other exception: the server never got the request.
CallRefused(j) ==
    /\ calls[j].open > 0
    /\ Spend
    /\ calls' = [calls EXCEPT ![j].open = @ - 1]
    /\ ResetEnqueued(j)
    /\ UNCHANGED <<runner, belief, histVars>>

\* A thread whose request a worker took: it times out (or the worker answers
\* with an error), which matters when the job is enqueued again by then ...
ServedTimeout(j) ==
    /\ calls[j].served > 0
    /\ row[j].state = "enqueued"
    /\ Spend
    /\ calls' = [calls EXCEPT ![j].served = @ - 1]
    /\ ResetEnqueued(j)
    /\ UNCHANGED <<runner, belief, histVars>>

\* ... or gets its answer, or times out to no effect.
ServedAnswered(j) ==
    /\ calls[j].served > 0
    /\ calls' = [calls EXCEPT ![j].served = @ - 1]
    /\ UNCHANGED <<dbVars, runner, belief, faults, histVars>>

\* The server drops a request nobody waits for any more.
LoseLate(j) ==
    /\ calls[j].late > 0
    /\ Spend
    /\ calls' = [calls EXCEPT ![j].late = @ - 1]
    /\ UNCHANGED <<dbVars, runner, belief, histVars>>

-----------------------------------------------------------------------------
(* The Odoo workers *)

\* Mutant: a request the client gave up on is taken a second time.
TakeCallTwice(j) ==
    /\ calls[j].open + calls[j].late > 0
    /\ calls' = [calls EXCEPT ![j].open = @ - 1, ![j].served = @ + 1]

\* A worker takes a request of j from the server's queue.
TakeCall(j) ==
    \/ calls[j].open > 0
       /\ calls' = [calls EXCEPT ![j].open = @ - 1, ![j].served = @ + 1]
    \/ calls[j].late > 0
       /\ calls' = [calls EXCEPT ![j].late = @ - 1]

\* Mutant: runjob() without the condition on the state.
ServeStartAny(w, j) ==
    /\ work[w] = Idle
    /\ Exists(j)
    /\ TakeCall(j)
    /\ row' = [row EXCEPT ![j].state = "started"]
    /\ Notify(j)
    /\ work' = [Touched(j) EXCEPT ![w] =
                   [job |-> j, phase |-> "started", retry |-> row[j].retry,
                    dated |-> row[j].dated, stale |-> FALSE]]
    /\ UNCHANGED <<runner, belief, faults, histVars>>

\* runjob(): SELECT ... FOR UPDATE finds the job enqueued; set_started(),
\* store() and the commit that releases the row lock are one step.
ServeStart(w, j) ==
    /\ work[w] = Idle
    /\ row[j].state = "enqueued"
    /\ TakeCall(j)
    /\ row' = [row EXCEPT ![j].state = "started"]
    /\ Notify(j)
    /\ work' = [Touched(j) EXCEPT ![w] =
                   [job |-> j, phase |-> "started", retry |-> row[j].retry,
                    dated |-> row[j].dated, stale |-> FALSE]]
    /\ UNCHANGED <<runner, belief, faults, histVars>>

\* runjob(): the job is not enqueued (any more); nothing is run.
ServeSkip(w, j) ==
    /\ work[w] = Idle
    /\ row[j].state # "enqueued"
    /\ TakeCall(j)
    /\ UNCHANGED <<dbVars, runner, belief, faults, histVars>>

\* perform(): the first query of the job's own transaction takes its snapshot.
BeginPerform(w) ==
    /\ work[w].phase = "started"
    /\ work' = [work EXCEPT ![w].phase = "performing"]
    /\ UNCHANGED <<row, runner, notifs, belief, calls, faults, histVars>>

\* The row a worker's Job object stores.
StoredRow(w, state, retry, dated) == [state |-> state, retry |-> retry, dated |-> dated]

\* The job's changes and "done" are committed together; PostgreSQL refuses
\* the commit of a transaction whose row another one wrote meanwhile.
PerformDone(w) ==
    /\ work[w].phase = "performing"
    /\ ~work[w].stale
    /\ WriteAndLeave(w, StoredRow(w, "done", work[w].retry + 1, TRUE))
    /\ effects' = [effects EXCEPT ![work[w].job] = @ + 1]
    /\ UNCHANGED <<runner, belief, calls, faults, reruns, leaked>>

\* NothingToDoJob raised, but storing "done" meets a conflict: the error
\* leaves runjob() and the row keeps what it has.
NothingToDoConflict(w) ==
    /\ work[w].phase = "performing"
    /\ work[w].stale
    /\ work' = [work EXCEPT ![w] = Idle]
    /\ UNCHANGED <<row, runner, notifs, belief, calls, faults, histVars>>

\* A serialization error of the job's transaction, on the job row or on any
\* other: postponed with the try counted, max_retries not consulted.  Spends
\* a fault even when stale: two executions of a job can conflict for ever.
Conflict(w) ==
    /\ work[w].phase = "performing"
    /\ Spend
    /\ WriteAndLeave(w, StoredRow(w, "pending", work[w].retry + 1, work[w].dated))
    /\ UNCHANGED <<runner, belief, calls, histVars>>

\* RetryableJobError below the limit.  runjob() then returns normally, so the
\* request's cursor commits whatever the attempt had already written.
PerformRetry(w) ==
    /\ work[w].phase = "performing"
    /\ MaxRetries = 0 \/ work[w].retry + 1 < MaxRetries
    /\ WriteAndLeave(w, StoredRow(w, "pending", work[w].retry + 1, work[w].dated))
    /\ leaked' \in {leaked, leaked \cup {work[w].job}}
    /\ UNCHANGED <<runner, belief, calls, faults, effects, reruns>>

\* RetryableJobError with ignore_retry: the try is not counted.
PerformRetryIgnored(w) ==
    /\ work[w].phase = "performing"
    /\ Spend
    /\ WriteAndLeave(w, StoredRow(w, "pending", work[w].retry, work[w].dated))
    /\ leaked' \in {leaked, leaked \cup {work[w].job}}
    /\ UNCHANGED <<runner, belief, calls, effects, reruns>>

\* Any other exception, the FailedJobError of the last allowed try included.
PerformFailed(w) ==
    /\ work[w].phase = "performing"
    /\ WriteAndLeave(w, StoredRow(w, "failed", work[w].retry + 1, work[w].dated))
    /\ UNCHANGED <<runner, belief, calls, faults, histVars>>

\* The worker is killed; its transaction rolls back, the row stays started.
WorkerDies(w) ==
    /\ work[w] # Idle
    /\ Spend
    /\ work' = [work EXCEPT ![w] = Idle]
    /\ UNCHANGED <<row, runner, notifs, belief, calls, histVars>>

-----------------------------------------------------------------------------
(* Operators and crons *)

\* requeue(): set_pending() with the tries reset; date_done is kept.
Requeue(j) ==
    /\ row[j].state \in RequeueFrom
    /\ Spend
    /\ Write(j, [row[j] EXCEPT !.state = "pending", !.retry = 0])
    /\ reruns' = [reruns EXCEPT ![j] =
                     IF row[j].state \in {"started", "done"} THEN @ + 1 ELSE @]
    /\ UNCHANGED <<runner, belief, calls, effects, leaked>>

\* requeue_stuck_jobs(), run by a cron with its default deltas.  That a job
\* stays enqueued so long although its request is still around is a fault.
RequeueStuck(j) ==
    /\ row[j].state = "enqueued"
    /\ IF calls[j].open + calls[j].late = 0 THEN UNCHANGED faults ELSE Spend
    /\ Write(j, [row[j] EXCEPT !.state = "pending", !.retry = 0])
    /\ UNCHANGED <<runner, belief, calls, histVars>>

\* button_done()
SetDone(j) ==
    /\ row[j].state \in DoneFrom
    /\ Spend
    /\ Write(j, [row[j] EXCEPT !.state = "done", !.dated = TRUE])
    /\ UNCHANGED <<runner, belief, calls, histVars>>

\* autovacuum() deletes by date_done alone; the trigger is silent for a done job.
Autovacuum(j) ==
    /\ Exists(j)
    /\ row[j].dated
    /\ row' = [row EXCEPT ![j] = [state |-> "deleted", retry |-> 0, dated |-> FALSE]]
    /\ work' = Touched(j)
    /\ IF row[j].state = "done" THEN UNCHANGED notifs ELSE Notify(j)
    /\ UNCHANGED <<runner, belief, calls, faults, histVars>>

-----------------------------------------------------------------------------
RunnerNext ==
    \/ RunnerListen \/ RunnerLoad \/ RunnerReady \/ RunnerError \/ RunnerDies
    \/ \E j \in Job : ProcessNotification(j) \/ Dispatch(j)

CallNext ==
    \E j \in Job :
        \/ CallTimeout(j) \/ CallRefused(j) \/ LoseLate(j)
        \/ ServedTimeout(j) \/ ServedAnswered(j)

Finish(w) ==
    \/ PerformDone(w) \/ NothingToDoConflict(w) \/ Conflict(w)
    \/ PerformRetry(w) \/ PerformRetryIgnored(w) \/ PerformFailed(w)

WorkerNext ==
    \E w \in Worker :
        \/ \E j \in Job : ServeStart(w, j) \/ ServeSkip(w, j)
        \/ BeginPerform(w) \/ Finish(w) \/ WorkerDies(w)

OperatorNext ==
    \E j \in Job :
        Enqueue(j) \/ Requeue(j) \/ RequeueStuck(j) \/ SetDone(j) \/ Autovacuum(j)

Next == RunnerNext \/ CallNext \/ WorkerNext \/ OperatorNext

Spec == Init /\ [][Next]_vars

\* The runner's loop, the server's worker pool, the job methods and the stuck
\* jobs cron keep going; nothing is owed by crashes, timeouts and people.
Fairness ==
    /\ WF_vars(RunnerListen) /\ WF_vars(RunnerLoad) /\ WF_vars(RunnerReady)
    /\ \A j \in Job :
        /\ WF_vars(ProcessNotification(j))
        /\ WF_vars(Dispatch(j))
        /\ WF_vars(RequeueStuck(j) /\ calls[j].open + calls[j].late = 0)
        /\ WF_vars(ServedAnswered(j))
        /\ WF_vars(\E w \in Worker : ServeStart(w, j) \/ ServeSkip(w, j))
    /\ \A w \in Worker :
        /\ WF_vars(BeginPerform(w))
        /\ WF_vars(Finish(w))

FairSpec == Spec /\ Fairness

-----------------------------------------------------------------------------
(* Properties *)

TypeOK ==
    /\ row \in [Job -> Rows]
    /\ runner \in {"stopped", "listening", "loading", "ready"}
    /\ notifs \subseteq Job
    /\ belief \in [Job -> {"unknown", "pending", "running", "failed"}]
    /\ calls \in [Job -> Calls]
    /\ work \in [Worker -> Works]
    /\ faults \in 0..MaxFaults
    /\ effects \in [Job -> Nat]
    /\ reruns \in [Job -> Nat]
    /\ leaked \subseteq Job

WorkersOn(j) == {w \in Worker : work[w].job = j}

InFlight == {j \in Job : row[j].state \in {"enqueued", "started"}}

Loaded == runner \in {"loading", "ready"}

(* A loaded runner with no notification left to process for a job knows    *)
(* where the job stands, through restarts of the runner and every write it *)
(* did not make: LISTEN before SELECT and re-reading on NOTIFY lose none.  *)
NoLostNotification ==
    Loaded => \A j \in Job \ notifs : belief[j] = Seen(row[j].state)

(* The jobs handed to Odoo (enqueued or started in the table) never exceed *)
(* the capacity of the channel, whoever requeues what and however often    *)
(* the runner is restarted.                                                *)
WithinCapacity == Cardinality(InFlight) <= Capacity

(* Executions of a job, committed, under way and still to come, are at     *)
(* most one more than the requeues of the job while started or done: late  *)
(* and repeated requests, timeouts, restarts, conflicts and requeues of    *)
(* pending, enqueued or failed jobs never execute it twice.                *)
ToCome(j) ==
    IF row[j].state \in {"none", "pending", "enqueued", "failed"} \/ belief[j] = "pending"
    THEN 1 ELSE 0

ExecutionsBounded ==
    \A j \in Job :
        effects[j] + Cardinality(WorkersOn(j)) + ToCome(j) <= 1 + reruns[j]

(* The workers that execute jobs are never more than the channel allows:   *)
(* needs that nobody requeues or sets to done a job that is started.       *)
BusyWithinCapacity == Cardinality({w \in Worker : work[w] # Idle}) <= Capacity

(* A job that is done stays done, with its one execution if a worker did   *)
(* it: needs that nobody requeues a done job or sets a pending one to done.*)
DoneIsFinal ==
    [][\A j \in Job : row[j].state = "done" => row'[j].state \in {"done", "deleted"}]_row

(* autovacuum's docstring: "Delete all jobs done based on the removal      *)
(* interval" -- so it deletes no other.                                    *)
VacuumOnlyDone ==
    [][\A j \in Job : row'[j].state = "deleted" => row[j].state \in {"done", "deleted"}]_row

(* README: "Jobs are executed in the background by a Jobrunner, in their   *)
(* own transaction." -- an attempt that must be retried leaves nothing.    *)
RetriedAttemptLeavesNothing == leaked = {}

\* started in the table, but the worker is dead: only an operator helps.
Orphaned(j) == row[j].state = "started" /\ WorkersOn(j) = {}

(* Every job that is created is executed or gives up, whatever timeouts,   *)
(* losses and restarts happen (finitely many), unless a dead worker left a *)
(* started job behind, which keeps its place in the channel.               *)
EveryJobSettles ==
    \A j \in Job :
        row[j].state = "pending" ~>
            (row[j].state \in {"done", "failed", "deleted"} \/ \E k \in Job : Orphaned(k))

=============================================================================
