------------------------------ MODULE Channels ------------------------------
(***************************************************************************)
(* The channels of the job runner (jobrunner/channels.py): a tree of       *)
(* channels through which the jobs flow down to the root channel, and from *)
(* it to Odoo.                                                             *)
(*                                                                         *)
(*  row      the queue_job table: state, priority and eta of every job     *)
(*           ("none": no row; a started job is as "enqueued" to a channel) *)
(*  notifs   jobs with a notification the runner has not processed         *)
(*  job      the priority and eta that the runner remembers of every job   *)
(*  queue, running, failed   the jobs each channel holds, and how          *)
(*  pause    until when a throttled channel pauses, 0 when it does not     *)
(*  todo     in run_jobs(): the channels whose turn is still to come       *)
(*  called   what wakes the runner: between two run_jobs(), whether it     *)
(*           processed a notification; during one, whether something other *)
(*           than the default timeout of wait_notification() called for it *)
(*  now      the clock, which stands still during run_jobs()               *)
(*                                                                         *)
(* The runner is one thread: it processes notifications, goes through the  *)
(* channels (children before their parent), waits, and begins again.       *)
(* Requests, workers and their failures are modelled in module QueueJob;   *)
(* here their effect on the table is any change of a row that they make.   *)
(***************************************************************************)
EXTENDS Naturals, FiniteSets

CONSTANTS
    Job,
    Channel, Root,
    Parent,       \* the parent of every channel but the root
    Path,         \* the channels from a channel down to the root, itself included
    Home,         \* the channel of every job
    Rank,         \* the order of creation of the jobs
    Capacity,     \* of every channel, 0 = unlimited
    Sequential,   \* the sequential channels
    Throttle,     \* of every channel, 0 = none
    Priorities,   \* the smaller comes first
    MaxTime       \* bound: the clock stops, and no eta lies beyond

ASSUME TreeAssumption ==
    /\ IsFiniteSet(Job) /\ IsFiniteSet(Channel)
    /\ Root \in Channel
    /\ Parent \in [Channel \ {Root} -> Channel]
    /\ Path \in [Channel -> SUBSET Channel]
    /\ Path[Root] = {Root}
    /\ \A c \in Channel \ {Root} :
         c \notin Path[Parent[c]] /\ Path[c] = {c} \cup Path[Parent[c]]
    /\ \A c \in Channel :
         /\ Root \in Path[c]
         /\ \A d \in Path[c] : Path[d] \subseteq Path[c]
         /\ \A d, e \in Path[c] : d \in Path[e] \/ e \in Path[d]
         /\ \A d \in Path[c] : c \in Path[d] => c = d

ASSUME JobAssumption ==
    /\ Home \in [Job -> Channel]
    /\ Rank \in [Job -> Nat]
    /\ \A i, j \in Job : Rank[i] = Rank[j] => i = j
    /\ Priorities \subseteq Nat /\ Priorities # {}

\* configure() refuses a sequential channel of another capacity.
ASSUME ConfigAssumption ==
    /\ Capacity \in [Channel -> Nat]
    /\ Sequential \subseteq Channel
    /\ \A c \in Sequential : Capacity[c] = 1
    /\ Throttle \in [Channel -> Nat]
    /\ MaxTime \in Nat

VARIABLES row, notifs, job, queue, running, failed, pause, todo, called, now

tableVars == <<row, notifs>>
placeVars == <<queue, running, failed>>
vars == <<row, notifs, job, queue, running, failed, pause, todo, called, now>>

Etas  == 0..MaxTime     \* 0: no eta
NoRow == [state |-> "none", prio |-> 0, eta |-> 0]
Rows  == {NoRow} \cup [state : {"pending", "enqueued", "done", "failed"},
                       prio : Priorities, eta : Etas]

PropsOf(r) == [prio |-> r.prio, eta |-> r.eta]

NoJobs == [c \in Channel |-> {}]

Init ==
    /\ row = [j \in Job |-> NoRow]
    /\ notifs = {}
    /\ job = [j \in Job |-> PropsOf(NoRow)]
    /\ queue = NoJobs
    /\ running = NoJobs
    /\ failed = NoJobs
    /\ pause = [c \in Channel |-> 0]
    /\ todo = {}
    /\ called = TRUE
    /\ now = 0

-----------------------------------------------------------------------------
(* What others do to the table: every write notifies the runner *)

Write(j, r) ==
    /\ row' = [row EXCEPT ![j] = r]
    /\ notifs' = notifs \cup {j}

\* The row of a deleted job that the runner forgot serves for a new one.
Enqueue(j, prio, eta) ==
    /\ row[j] = NoRow
    /\ j \notin notifs
    /\ Write(j, [state |-> "pending", prio |-> prio, eta |-> eta])

\* The worker is done with the job, or the job failed.
Finish(j, state) ==
    /\ row[j].state = "enqueued"
    /\ Write(j, [row[j] EXCEPT !.state = state])

\* The worker puts the job off.
Postpone(j, eta) ==
    /\ row[j].state = "enqueued"
    /\ Write(j, [row[j] EXCEPT !.state = "pending", !.eta = eta])

\* An operator, the stuck jobs cron or a request that timed out.
Requeue(j) ==
    /\ row[j].state \in {"enqueued", "done", "failed"}
    /\ Write(j, [row[j] EXCEPT !.state = "pending"])

Reprioritize(j, prio) ==
    /\ row[j].state = "pending"
    /\ prio # row[j].prio
    /\ Write(j, [row[j] EXCEPT !.prio = prio])

\* The trigger is silent when the job was done.
Delete(j) ==
    /\ row[j].state \in {"pending", "done", "failed"}
    /\ row' = [row EXCEPT ![j] = NoRow]
    /\ notifs' = IF row[j].state = "done" THEN notifs ELSE notifs \cup {j}

Others ==
    /\ \E j \in Job :
          \/ \E prio \in Priorities, eta \in Etas : Enqueue(j, prio, eta)
          \/ \E state \in {"done", "failed"} : Finish(j, state)
          \/ \E eta \in Etas : Postpone(j, eta)
          \/ Requeue(j)
          \/ \E prio \in Priorities : Reprioritize(j, prio)
          \/ Delete(j)
    /\ UNCHANGED <<job, placeVars, pause, todo, called, now>>

Tick ==
    /\ todo = {}
    /\ now < MaxTime
    /\ now' = now + 1
    /\ UNCHANGED <<tableVars, job, placeVars, pause, todo, called>>

-----------------------------------------------------------------------------
(* notify(): the runner re-reads a job's row and moves the job accordingly *)

Without(S, j) == [c \in Channel |-> S[c] \ {j}]

\* Job.remove() on the way from the job's channel to the root.
RemoveJob(j) ==
    /\ queue' = Without(queue, j)
    /\ running' = Without(running, j)
    /\ failed' = Without(failed, j)

\* Mutant: the job stays with the parents of its channel.
SetPendingHere(j, fresh) ==
    /\ queue' = [queue EXCEPT ![Home[j]] = @ \cup {j}]
    /\ running' = [running EXCEPT ![Home[j]] = @ \ {j}]
    /\ failed' = [failed EXCEPT ![Home[j]] = @ \ {j}]

\* fresh: the job was not known, or its properties changed, so that it was
\* removed from the channels first.
SetPending(j, fresh) ==
    IF ~fresh /\ j \in queue[Home[j]]
    THEN UNCHANGED placeVars
    ELSE /\ queue' = [Without(queue, j) EXCEPT ![Home[j]] = @ \cup {j}]
         /\ running' = Without(running, j)
         /\ failed' = Without(failed, j)

\* set_running() stops at the first channel that has the job running.
SetRunning(j, fresh) ==
    LET path    == Path[Home[j]]
        Has(d)  == ~fresh /\ j \in running[d]
        reached == {c \in path : \A d \in path : c \in Path[d] => ~Has(d)}
        left    == IF fresh THEN Channel ELSE reached
    IN  /\ queue' = [c \in Channel |-> IF c \in left THEN queue[c] \ {j} ELSE queue[c]]
        /\ failed' = [c \in Channel |-> IF c \in left THEN failed[c] \ {j} ELSE failed[c]]
        /\ running' = [c \in Channel |-> IF c \in reached THEN running[c] \cup {j}
                                         ELSE IF c \in left THEN running[c] \ {j}
                                         ELSE running[c]]

SetFailed(j, fresh) ==
    IF ~fresh /\ j \in failed[Home[j]]
    THEN UNCHANGED placeVars
    ELSE /\ queue' = Without(queue, j)
         /\ running' = Without(running, j)
         /\ failed' = [Without(failed, j) EXCEPT ![Home[j]] = @ \cup {j}]

Notified(j) ==
    LET state == row[j].state
        fresh == job[j] # PropsOf(row[j])
    IN  /\ todo = {}
        /\ j \in notifs
        /\ notifs' = notifs \ {j}
        /\ job' = [job EXCEPT ![j] = PropsOf(row[j])]
        /\ \/ state \in {"none", "done"} /\ RemoveJob(j)
           \/ state = "pending" /\ SetPending(j, fresh)
           \/ state = "enqueued" /\ SetRunning(j, fresh)
           \/ state = "failed" /\ SetFailed(j, fresh)
        /\ called' = TRUE
        /\ UNCHANGED <<row, pause, todo, now>>

\* Mutant: a job counts in its own channel only.
LoadedHere(c) == {j \in Job : row[j].state = "enqueued" /\ Home[j] = c}

\* The jobs that are loaded as running in c.
Loaded(c) == {j \in Job : row[j].state = "enqueued" /\ c \in Path[Home[j]]}

\* An exception in run(): the jobs are forgotten and every job that is not
\* done is loaded again.  The pauses stay.
Restart ==
    /\ notifs' = {}
    /\ job' = [j \in Job |-> PropsOf(row[j])]
    /\ queue' = [c \in Channel |-> {j \in Job : row[j].state = "pending" /\ Home[j] = c}]
    /\ running' = [c \in Channel |-> Loaded(c)]
    /\ failed' = [c \in Channel |-> {j \in Job : row[j].state = "failed" /\ Home[j] = c}]
    /\ todo' = {}
    /\ called' = TRUE
    /\ UNCHANGED <<row, pause, now>>

-----------------------------------------------------------------------------
(* run_jobs(): the channels take turns, children before their parent, and   *)
(* each passes jobs on to its parent, the root to Odoo                      *)

HasCapacity(c) ==
    /\ c \in Sequential => failed[c] = {}
    /\ Capacity[c] = 0 \/ Cardinality(running[c]) < Capacity[c]

\* sorting_key_ignoring_eta()
Before(i, j) ==
    \/ job[i].prio < job[j].prio
    \/ job[i].prio = job[j].prio /\ Rank[i] < Rank[j]

Ready(c) == {j \in queue[c] : job[j].eta <= now}
Later(c) == queue[c] \ Ready(c)

FirstReady(c) == {j \in Ready(c) : \A i \in Ready(c) \ {j} : Before(j, i)}
FirstLater(c) == {j \in Later(c) : \A i \in Later(c) \ {j} :
                     \/ job[j].eta < job[i].eta
                     \/ job[j].eta = job[i].eta /\ Before(j, i)}

\* The job that pop() returns, if any: in a sequential channel not before
\* the first of the jobs that wait for their eta.
Popped(c) ==
    {j \in FirstReady(c) : c \in Sequential => \A i \in FirstLater(c) : Before(j, i)}

\* pop() also makes the jobs whose eta has come forget it.
Woken(c) ==
    [j \in Job |-> IF j \in Ready(c) THEN [job[j] EXCEPT !.eta = 0] ELSE job[j]]

\* Mutant: a channel may take its turn before its children.
TurnAnyTime(c) == c \in todo

Turn(c) == c \in todo /\ \A d \in todo \ {Root} : Parent[d] # c

Paused(c) == now < pause[c]

\* Mutant: a pause that is over is left as it is.
UnpausedNever(c) == pause

\* The pauses after c went on with its turn.
Unpaused(c) == IF Paused(c) THEN pause ELSE [pause EXCEPT ![c] = 0]

LeaveTurn(c) ==
    /\ todo' = todo \ {c}
    /\ called' = (called /\ todo' # {})

\* Mutant: the UPDATE of no row creates one.
HandOverNone(j) == Write(j, [row[j] EXCEPT !.state = "enqueued"])

\* The root yields a job: Odoo is asked to run it.
\* (set_job_enqueued() writes whatever the row holds, if there is one.)
HandOver(j) ==
    IF row[j] = NoRow THEN UNCHANGED tableVars
    ELSE Write(j, [row[j] EXCEPT !.state = "enqueued"])

Yield(c) ==
    /\ Turn(c)
    /\ ~Paused(c)
    /\ HasCapacity(c)
    /\ \E j \in Popped(c) :
         /\ running' = [running EXCEPT ![c] = @ \cup {j}]
         /\ IF c = Root
            THEN queue' = [queue EXCEPT ![c] = @ \ {j}] /\ HandOver(j)
            ELSE /\ queue' = [queue EXCEPT ![c] = @ \ {j}, ![Parent[c]] = @ \cup {j}]
                 /\ UNCHANGED tableVars
    /\ job' = Woken(c)
    /\ IF Throttle[c] = 0
       THEN UNCHANGED <<pause, todo, called>>
       ELSE pause' = [pause EXCEPT ![c] = now + Throttle[c]] /\ LeaveTurn(c)
    /\ UNCHANGED <<failed, now>>

\* The channel is paused, has no capacity, or has no job to yield.
EndTurn(c) ==
    /\ Turn(c)
    /\ ~Paused(c) /\ HasCapacity(c) => Popped(c) = {}
    /\ job' = IF ~Paused(c) /\ HasCapacity(c) THEN Woken(c) ELSE job
    /\ pause' = Unpaused(c)
    /\ LeaveTurn(c)
    /\ UNCHANGED <<tableVars, placeVars, now>>

\* Mutant: the channels below the root are not asked.
TimesOfRoot ==
    IF ~HasCapacity(Root) THEN {} ELSE IF pause[Root] # 0 THEN {pause[Root]}
    ELSE {job[j].eta : j \in queue[Root]} \ {0}

\* get_wakeup_time(): the ends of the pauses and the etas of the channels
\* through which a job could flow now (the runner wakes up at the first).
Times ==
    LET free(c) == HasCapacity(c) /\ pause[c] = 0
        asked   == {c \in Channel : HasCapacity(c) /\ \A d \in Path[c] \ {c} : free(d)}
    IN  ({pause[c] : c \in asked}
         \cup {job[j].eta : j \in UNION {queue[c] : c \in {d \in asked : free(d)}}}) \ {0}

\* The runner wakes up: for a notification, at the wakeup time, or because
\* the default timeout is over.
RunJobs ==
    /\ todo = {}
    /\ todo' = Channel
    /\ called' = (called \/ \E t \in Times : t <= now)
    /\ UNCHANGED <<tableVars, job, placeVars, pause, now>>

-----------------------------------------------------------------------------
Next ==
    \/ Others \/ Tick \/ Restart \/ RunJobs
    \/ \E j \in Job : Notified(j)
    \/ \E c \in Channel : Yield(c) \/ EndTurn(c)

Spec == Init /\ [][Next]_vars

-----------------------------------------------------------------------------
(* Properties *)

TypeOK ==
    /\ row \in [Job -> Rows]
    /\ notifs \subseteq Job
    /\ job \in [Job -> [prio : Priorities \cup {0}, eta : Etas]]
    /\ queue \in [Channel -> SUBSET Job]
    /\ running \in [Channel -> SUBSET Job]
    /\ failed \in [Channel -> SUBSET Job]
    /\ pause \in [Channel -> Nat]
    /\ todo \subseteq Channel
    /\ called \in BOOLEAN
    /\ now \in 0..MaxTime

\* The channels that hold j in a certain way, and the places a job can have.
At(S, j) == {c \in Channel : j \in S[c]}

Above(j, c) == {d \in Path[Home[j]] : c \in Path[d]} \ {c}

InQueue(j) ==
    \E c \in Path[Home[j]] :
        At(queue, j) = {c} /\ At(running, j) = Above(j, c) /\ At(failed, j) = {}

InRun(j)    == At(queue, j) = {} /\ At(running, j) = Path[Home[j]] /\ At(failed, j) = {}
InFailed(j) == At(queue, j) = {} /\ At(running, j) = {} /\ At(failed, j) = {Home[j]}
Nowhere(j)  == At(queue, j) = {} /\ At(running, j) = {} /\ At(failed, j) = {}

(* Every job has one place in the tree, the one its row calls for unless a *)
(* notification is on its way: it waits in one channel and counts as       *)
(* running in all those above, or it was handed to Odoo and counts in all  *)
(* of its path, or it failed in its own, or it is forgotten.  A job that   *)
(* Odoo works on is never taken for anything else.                         *)
Placed(j) ==
    /\ InQueue(j) \/ InRun(j) \/ InFailed(j) \/ Nowhere(j)
    /\ row[j].state = "enqueued" => InRun(j)
    /\ j \notin notifs => CASE row[j].state = "pending"  -> InQueue(j)
                            [] row[j].state = "enqueued" -> InRun(j)
                            [] row[j].state = "failed"   -> InFailed(j)
                            [] OTHER                     -> Nowhere(j)

OnePlace == \A j \in Job : Placed(j)

(* The jobs that Odoo works on, of a channel and of those above it, never  *)
(* exceed the capacity of the channel, for every channel at once, through  *)
(* restarts of the runner and requeues of the jobs.                        *)
Working(c) == {j \in Job : row[j].state = "enqueued" /\ c \in Path[Home[j]]}

WithinCapacities ==
    \A c \in Channel : Capacity[c] # 0 => Cardinality(Working(c)) <= Capacity[c]

(* Capacity is not left idle: when run_jobs() is over, a pending job that  *)
(* waits for no eta is in a channel that is full, paused, or sequential    *)
(* (with a failed job, or with a job to wait for).                         *)
NoIdleCapacity ==
    todo = {} /\ ~called =>
        \A j \in Job \ notifs : row[j].state = "pending" /\ job[j].eta = 0 =>
            \E c \in At(queue, j) :
                \/ Capacity[c] # 0 /\ Cardinality(running[c]) >= Capacity[c]
                \/ pause[c] # 0
                \/ c \in Sequential /\ (failed[c] # {} \/ \E i \in queue[c] : job[i].eta # 0)

(* The runner need not wake up but for notifications and at the wakeup     *)
(* time: the comment in wait_notification() says that there could very     *)
(* well be no timeout at all otherwise.                                    *)
NoMissedWakeup ==
    [][todo # {} /\ running'[Root] \ running[Root] # {} => called]_vars

(* When run_jobs() is over the wakeup time is not in the past, or the      *)
(* runner would never wait.                                                *)
WakeupAhead ==
    [][todo # {} /\ todo' = {} => \A t \in Times' : t > now \/ called']_vars

(* The comment in pop(): a job with an eta that has the higher priority    *)
(* holds back the others, "since it's a sequential queue we wait until     *)
(* eta".                                                                   *)
SequentialWaits ==
    [][\A c \in Sequential \cap todo : \A j \in running'[c] \ running[c] :
         \A i \in queue[c] \ {j} : Before(j, i)]_vars
=============================================================================
