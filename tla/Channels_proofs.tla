-------------------------- MODULE Channels_proofs --------------------------
(***************************************************************************)
(* Proofs about Channels, for every tree of channels, every configuration  *)
(* of them and any finite set of jobs.                                     *)
(***************************************************************************)
EXTENDS Channels, FiniteSetTheorems, TLAPS

-----------------------------------------------------------------------------
(* Type correctness *)

(* The rows that the others and the runner write.                          *)
LEMMA RowUpdates ==
    ASSUME NEW r \in Rows, r # NoRow
    PROVE  /\ \A s \in {"pending", "enqueued", "done", "failed"} :
                [r EXCEPT !.state = s] \in Rows
           /\ \A eta \in Etas : [r EXCEPT !.state = "pending", !.eta = eta] \in Rows
           /\ \A prio \in Priorities : [r EXCEPT !.prio = prio] \in Rows
BY DEF Rows

(* A row is known by its state to exist.                                   *)
LEMMA RowExists ==
    ASSUME NEW r \in Rows, r.state \in {"pending", "enqueued", "done", "failed"}
    PROVE  r # NoRow
BY DEF NoRow

(* A write keeps the type of the table.                                    *)
LEMMA WriteType ==
    ASSUME TypeOK, NEW j \in Job, NEW r \in Rows, Write(j, r)
    PROVE  row' \in [Job -> Rows] /\ notifs' \subseteq Job
BY DEF TypeOK, Write

(* What the runner remembers of a row.                                     *)
LEMMA PropsType ==
    ASSUME NEW r \in Rows
    PROVE  PropsOf(r) \in [prio : Priorities \cup {0}, eta : Etas]
BY ConfigAssumption DEF PropsOf, Rows, NoRow, Etas

(* The others change the table only, and to rows of the type.              *)
LEMMA OthersType ==
    ASSUME TypeOK, Others
    PROVE  row' \in [Job -> Rows] /\ notifs' \subseteq Job
<1> SUFFICES ASSUME NEW j \in Job,
                    \/ \E prio \in Priorities, eta \in Etas : Enqueue(j, prio, eta)
                    \/ \E state \in {"done", "failed"} : Finish(j, state)
                    \/ \E eta \in Etas : Postpone(j, eta)
                    \/ Requeue(j)
                    \/ \E prio \in Priorities : Reprioritize(j, prio)
                    \/ Delete(j)
             PROVE  row' \in [Job -> Rows] /\ notifs' \subseteq Job
  BY DEF Others
<1>1. row[j] \in Rows
  BY DEF TypeOK
<1>2. ASSUME NEW prio \in Priorities, NEW eta \in Etas, Enqueue(j, prio, eta)
      PROVE  row' \in [Job -> Rows] /\ notifs' \subseteq Job
  <2>1. [state |-> "pending", prio |-> prio, eta |-> eta] \in Rows
    BY DEF Rows
  <2> QED  BY <1>2, <2>1, WriteType DEF Enqueue
<1>3. ASSUME NEW state \in {"done", "failed"}, Finish(j, state)
      PROVE  row' \in [Job -> Rows] /\ notifs' \subseteq Job
  <2>1. [row[j] EXCEPT !.state = state] \in Rows
    BY <1>1, <1>3, RowExists, RowUpdates DEF Finish
  <2> QED  BY <1>3, <2>1, WriteType DEF Finish
<1>4. ASSUME NEW eta \in Etas, Postpone(j, eta)
      PROVE  row' \in [Job -> Rows] /\ notifs' \subseteq Job
  <2>1. [row[j] EXCEPT !.state = "pending", !.eta = eta] \in Rows
    BY <1>1, <1>4, RowExists, RowUpdates DEF Postpone
  <2> QED  BY <1>4, <2>1, WriteType DEF Postpone
<1>5. CASE Requeue(j)
  <2>1. [row[j] EXCEPT !.state = "pending"] \in Rows
    BY <1>1, <1>5, RowExists, RowUpdates DEF Requeue
  <2> QED  BY <1>5, <2>1, WriteType DEF Requeue
<1>6. ASSUME NEW prio \in Priorities, Reprioritize(j, prio)
      PROVE  row' \in [Job -> Rows] /\ notifs' \subseteq Job
  <2>1. [row[j] EXCEPT !.prio = prio] \in Rows
    BY <1>1, <1>6, RowExists, RowUpdates DEF Reprioritize
  <2> QED  BY <1>6, <2>1, WriteType DEF Reprioritize
<1>7. CASE Delete(j)
  <2>1. NoRow \in Rows
    BY DEF Rows
  <2> QED  BY <1>7, <2>1 DEF Delete, TypeOK
<1> QED  BY <1>2, <1>3, <1>4, <1>5, <1>6, <1>7

(* The jobs of a channel stay jobs.                                        *)
PlacesOK ==
    /\ queue \in [Channel -> SUBSET Job]
    /\ running \in [Channel -> SUBSET Job]
    /\ failed \in [Channel -> SUBSET Job]

(* A job is put among the jobs of its channel.                             *)
LEMMA PutType ==
    ASSUME NEW S \in [Channel -> SUBSET Job], NEW j \in Job
    PROVE  /\ Without(S, j) \in [Channel -> SUBSET Job]
           /\ [Without(S, j) EXCEPT ![Home[j]] = @ \cup {j}] \in [Channel -> SUBSET Job]
BY JobAssumption DEF Without

(* A notification keeps the type of the channels.                          *)
LEMMA NotifiedType ==
    ASSUME TypeOK, NEW j \in Job, Notified(j)
    PROVE  PlacesOK'
<1>1. PlacesOK
  BY DEF TypeOK, PlacesOK
<1>2. CASE RemoveJob(j)
  BY <1>1, <1>2, PutType DEF RemoveJob, PlacesOK
<1>3. ASSUME NEW fresh \in BOOLEAN, SetPending(j, fresh)
      PROVE  PlacesOK'
  BY <1>1, <1>3, PutType DEF SetPending, PlacesOK, placeVars
<1>4. ASSUME NEW fresh \in BOOLEAN, SetRunning(j, fresh)
      PROVE  PlacesOK'
  BY <1>1, <1>4 DEF SetRunning, PlacesOK
<1>5. ASSUME NEW fresh \in BOOLEAN, SetFailed(j, fresh)
      PROVE  PlacesOK'
  BY <1>1, <1>5, PutType DEF SetFailed, PlacesOK, placeVars
<1> QED  BY <1>2, <1>3, <1>4, <1>5 DEF Notified

(* The runner forgets etas and nothing else.                               *)
LEMMA WokenType ==
    ASSUME TypeOK, NEW c \in Channel
    PROVE  Woken(c) \in [Job -> [prio : Priorities \cup {0}, eta : Etas]]
<1>1. 0 \in Etas
  BY ConfigAssumption DEF Etas
<1>2. ASSUME NEW j \in Job
      PROVE  [job[j] EXCEPT !.eta = 0] \in [prio : Priorities \cup {0}, eta : Etas]
  BY <1>1 DEF TypeOK
<1> QED  BY <1>2 DEF Woken, TypeOK

(* A yield keeps the type.                                                 *)
LEMMA YieldType ==
    ASSUME TypeOK, NEW c \in Channel, Yield(c)
    PROVE  TypeOK'
<1>1. PICK j \in Popped(c) :
         /\ running' = [running EXCEPT ![c] = @ \cup {j}]
         /\ IF c = Root
            THEN queue' = [queue EXCEPT ![c] = @ \ {j}] /\ HandOver(j)
            ELSE /\ queue' = [queue EXCEPT ![c] = @ \ {j}, ![Parent[c]] = @ \cup {j}]
                 /\ UNCHANGED tableVars
  BY DEF Yield
<1>2. j \in queue[c] /\ j \in Job
  BY <1>1 DEF Popped, FirstReady, Ready, TypeOK
<1>3. PlacesOK'
  BY <1>1, <1>2, TreeAssumption DEF Yield, TypeOK, PlacesOK
<1>4. row' \in [Job -> Rows] /\ notifs' \subseteq Job
  <2>1. CASE c = Root /\ row[j] # NoRow
    <3>1. [row[j] EXCEPT !.state = "enqueued"] \in Rows
      BY <1>2, <2>1, RowUpdates DEF TypeOK
    <3> QED  BY <1>1, <1>2, <2>1, <3>1, WriteType DEF HandOver
  <2>2. CASE ~(c = Root /\ row[j] # NoRow)
    BY <1>1, <2>2 DEF HandOver, tableVars, TypeOK
  <2> QED  BY <2>1, <2>2
<1>5. pause' \in [Channel -> Nat]
  <2>1. now + Throttle[c] \in Nat
    BY ConfigAssumption DEF TypeOK
  <2> QED  BY <2>1 DEF Yield, TypeOK
<1>6. todo' \subseteq Channel /\ called' \in BOOLEAN
  BY DEF Yield, TypeOK, LeaveTurn
<1>7. job' \in [Job -> [prio : Priorities \cup {0}, eta : Etas]]
  BY WokenType DEF Yield
<1> QED  BY <1>3, <1>4, <1>5, <1>6, <1>7 DEF Yield, TypeOK, PlacesOK

(* The initial state has the types.                                        *)
LEMMA TypeInit == Init => TypeOK
<1> SUFFICES ASSUME Init PROVE TypeOK
  OBVIOUS
<1>1. NoRow \in Rows /\ PropsOf(NoRow) \in [prio : Priorities \cup {0}, eta : Etas]
  BY PropsType DEF Rows
<1> QED  BY <1>1, ConfigAssumption DEF Init, TypeOK, NoJobs

(* Every step of the runner, the others and the clock keeps the types.     *)
LEMMA TypeStep == TypeOK /\ [Next]_vars => TypeOK'
<1> SUFFICES ASSUME TypeOK, [Next]_vars PROVE TypeOK'
  OBVIOUS
<1>1. CASE Others
  BY <1>1, OthersType DEF Others, TypeOK, placeVars
<1>2. CASE Tick
  BY <1>2, ConfigAssumption DEF Tick, TypeOK, placeVars, tableVars
<1>3. CASE Restart
  <2>1. job' \in [Job -> [prio : Priorities \cup {0}, eta : Etas]]
    BY <1>3, PropsType DEF Restart, TypeOK
  <2>2. PlacesOK'
    BY <1>3 DEF Restart, Loaded, PlacesOK
  <2> QED  BY <1>3, <2>1, <2>2 DEF Restart, TypeOK, PlacesOK
<1>4. CASE RunJobs
  <2>1. called' \in BOOLEAN
    BY <1>4 DEF RunJobs
  <2> QED  BY <1>4, <2>1 DEF RunJobs, TypeOK, placeVars, tableVars
<1>5. ASSUME NEW j \in Job, Notified(j)
      PROVE  TypeOK'
  <2>1. PlacesOK'
    BY <1>5, NotifiedType
  <2>2. PropsOf(row[j]) \in [prio : Priorities \cup {0}, eta : Etas]
    BY PropsType DEF TypeOK
  <2>3. job' \in [Job -> [prio : Priorities \cup {0}, eta : Etas]]
    BY <1>5, <2>2 DEF Notified, TypeOK
  <2> QED  BY <1>5, <2>1, <2>3 DEF Notified, TypeOK, PlacesOK
<1>6. ASSUME NEW c \in Channel, Yield(c)
      PROVE  TypeOK'
  BY <1>6, YieldType
<1>7. ASSUME NEW c \in Channel, EndTurn(c)
      PROVE  TypeOK'
  <2>1. job' \in [Job -> [prio : Priorities \cup {0}, eta : Etas]]
    BY <1>7, WokenType DEF EndTurn, TypeOK
  <2>2. pause' \in [Channel -> Nat]
    BY <1>7 DEF EndTurn, Unpaused, TypeOK
  <2> QED  BY <1>7, <2>1, <2>2 DEF EndTurn, LeaveTurn, TypeOK, placeVars, tableVars
<1>8. CASE UNCHANGED vars
  BY <1>8 DEF vars, TypeOK
<1> QED  BY <1>1, <1>2, <1>3, <1>4, <1>5, <1>6, <1>7, <1>8 DEF Next

(* Every variable keeps its type, whatever the tree and its configuration: *)
(* the channels hold known jobs only, and a job that was handed over keeps *)
(* a row of the table's type.                                              *)
THEOREM TypeCorrect == Spec => []TypeOK
<1>1. Init => TypeOK
  BY TypeInit
<1>2. TypeOK /\ [Next]_vars => TypeOK'
  BY TypeStep
<1> QED  BY <1>1, <1>2, PTL DEF Spec

-----------------------------------------------------------------------------
(* The tree of channels *)

(* Every channel is on its own path.                                       *)
LEMMA OwnPath ==
    ASSUME NEW c \in Channel
    PROVE  c \in Path[c]
BY TreeAssumption

(* A job that moves from a channel to its parent has that channel above it.*)
LEMMA AboveParent ==
    ASSUME NEW j \in Job, NEW c \in Path[Home[j]], c # Root
    PROVE  /\ c \in Channel
           /\ Parent[c] \in Path[Home[j]]
           /\ Above(j, Parent[c]) = Above(j, c) \cup {c}
<1> DEFINE h == Home[j]
           p == Parent[c]
<1>1. h \in Channel
  BY JobAssumption
<1>2. c \in Channel
  BY <1>1, TreeAssumption
<1>3. p \in Channel /\ c \notin Path[p] /\ Path[c] = {c} \cup Path[p]
  BY <1>2, TreeAssumption
<1>4. p \in Path[p]
  BY <1>3, OwnPath
<1>5. Path[c] \subseteq Path[h]
  BY <1>1, TreeAssumption
<1>6. p \in Path[h]
  BY <1>3, <1>4, <1>5
<1>7. ASSUME NEW d \in Path[h], c \in Path[d]
      PROVE  p \in Path[d] /\ d # p
  <2>1. d \in Channel
    BY <1>1, TreeAssumption
  <2>2. Path[c] \subseteq Path[d]
    BY <1>7, <2>1, TreeAssumption
  <2> QED  BY <1>3, <1>4, <1>7, <2>2
<1>8. ASSUME NEW d \in Path[h], p \in Path[d], d # p
      PROVE  c \in Path[d]
  <2>1. d \in Channel
    BY <1>1, TreeAssumption
  <2>2. c \in Path[d] \/ d \in Path[c]
    BY <1>1, TreeAssumption
  <2>3. CASE d \in Path[c]
    <3>1. CASE d = c
      BY <3>1, <1>2, OwnPath
    <3>2. CASE d \in Path[p]
      <4>1. p = d
        BY <1>3, <1>8, <3>2, TreeAssumption
      <4> QED  BY <4>1, <1>8
    <3> QED  BY <2>3, <3>1, <3>2, <1>3
  <2> QED  BY <2>2, <2>3
<1>9. Above(j, p) = {d \in Path[h] : c \in Path[d]}
  BY <1>7, <1>8 DEF Above
<1>10. Above(j, c) \cup {c} = {d \in Path[h] : c \in Path[d]}
  BY <1>2, OwnPath DEF Above
<1> QED  BY <1>2, <1>6, <1>9, <1>10

(* A job in its own channel is counted nowhere else.                       *)
LEMMA AboveHome ==
    ASSUME NEW j \in Job
    PROVE  Home[j] \in Channel /\ Home[j] \in Path[Home[j]] /\ Above(j, Home[j]) = {}
<1>1. Home[j] \in Channel
  BY JobAssumption
<1>2. ASSUME NEW d \in Path[Home[j]], Home[j] \in Path[d]
      PROVE  d = Home[j]
  BY <1>1, <1>2, TreeAssumption
<1> QED  BY <1>1, <1>2, OwnPath DEF Above

(* A job that waits in the root is counted in all the others of its path.  *)
LEMMA AboveRoot ==
    ASSUME NEW j \in Job
    PROVE  Root \in Path[Home[j]] /\ Above(j, Root) \cup {Root} = Path[Home[j]]
<1>1. Home[j] \in Channel
  BY JobAssumption
<1>2. ASSUME NEW d \in Path[Home[j]]
      PROVE  Root \in Path[d]
  BY <1>1, TreeAssumption
<1> QED  BY <1>1, <1>2, TreeAssumption DEF Above

-----------------------------------------------------------------------------
(* The place of a job *)

(* A job whose channels do not change keeps its place, if its row is       *)
(* written with a notification or keeps its state.                         *)
LEMMA StaysPlaced ==
    ASSUME NEW j \in Job, Placed(j),
           At(queue, j)' = At(queue, j),
           At(running, j)' = At(running, j),
           At(failed, j)' = At(failed, j),
           row[j].state' = "enqueued" => row[j].state = "enqueued",
           j \notin notifs' =>
              /\ j \notin notifs
              /\ \/ row[j].state' = row[j].state
                 \/ row[j].state = "done" /\ row[j].state' = "none"
    PROVE  Placed(j)'
<1>1. /\ InQueue(j)' = InQueue(j)
      /\ InRun(j)' = InRun(j)
      /\ InFailed(j)' = InFailed(j)
      /\ Nowhere(j)' = Nowhere(j)
  BY DEF InQueue, InRun, InFailed, Nowhere, Above
<1> QED  BY <1>1 DEF Placed

(* The same for the steps that change no channel at all.                   *)
LEMMA AllStay ==
    ASSUME OnePlace, UNCHANGED placeVars,
           \A j \in Job :
              /\ row[j].state' = "enqueued" => row[j].state = "enqueued"
              /\ j \notin notifs' =>
                    /\ j \notin notifs
                    /\ \/ row[j].state' = row[j].state
                       \/ row[j].state = "done" /\ row[j].state' = "none"
    PROVE  OnePlace'
<1> SUFFICES ASSUME NEW j \in Job PROVE Placed(j)'
  BY DEF OnePlace
<1>1. /\ At(queue, j)' = At(queue, j)
      /\ At(running, j)' = At(running, j)
      /\ At(failed, j)' = At(failed, j)
  BY DEF At, placeVars
<1> QED  BY <1>1, StaysPlaced DEF OnePlace

(* The others write rows, and notify the runner of all that it must know.  *)
LEMMA OthersPlace ==
    ASSUME TypeOK, OnePlace, Others
    PROVE  OnePlace'
<1>1. UNCHANGED placeVars
  BY DEF Others
<1>2. PICK i \in Job :
         \/ \E prio \in Priorities, eta \in Etas : Enqueue(i, prio, eta)
         \/ \E state \in {"done", "failed"} : Finish(i, state)
         \/ \E eta \in Etas : Postpone(i, eta)
         \/ Requeue(i)
         \/ \E prio \in Priorities : Reprioritize(i, prio)
         \/ Delete(i)
  BY DEF Others
<1> DEFINE Good == \A j \in Job :
              /\ row[j].state' = "enqueued" => row[j].state = "enqueued"
              /\ j \notin notifs' =>
                    /\ j \notin notifs
                    /\ \/ row[j].state' = row[j].state
                       \/ row[j].state = "done" /\ row[j].state' = "none"
<1>3. ASSUME NEW r, Write(i, r), r.state = "enqueued" => row[i].state = "enqueued"
      PROVE  Good
  BY <1>3 DEF Write, TypeOK
<1>4. row[i] \in Rows
  BY DEF TypeOK
<1>5. ASSUME NEW prio \in Priorities, NEW eta \in Etas, Enqueue(i, prio, eta)
      PROVE  Good
  BY <1>3, <1>5 DEF Enqueue
<1>6. ASSUME NEW state \in {"done", "failed"}, Finish(i, state)
      PROVE  Good
  <2>1. [row[i] EXCEPT !.state = state].state # "enqueued"
    BY <1>4 DEF Rows, NoRow
  <2> QED  BY <1>3, <1>6, <2>1 DEF Finish
<1>7. ASSUME NEW eta \in Etas, Postpone(i, eta)
      PROVE  Good
  <2>1. [row[i] EXCEPT !.state = "pending", !.eta = eta].state # "enqueued"
    BY <1>4 DEF Rows, NoRow
  <2> QED  BY <1>3, <1>7, <2>1 DEF Postpone
<1>8. ASSUME Requeue(i)
      PROVE  Good
  <2>1. [row[i] EXCEPT !.state = "pending"].state # "enqueued"
    BY <1>4 DEF Rows, NoRow
  <2>2. Write(i, [row[i] EXCEPT !.state = "pending"])
    BY <1>8 DEF Requeue
  <2> QED  BY <1>3, <2>1, <2>2
<1>9. ASSUME NEW prio \in Priorities, Reprioritize(i, prio)
      PROVE  Good
  <2>1. [row[i] EXCEPT !.prio = prio].state = row[i].state
    BY <1>4 DEF Rows, NoRow
  <2> QED  BY <1>3, <1>9, <2>1 DEF Reprioritize
<1>10. ASSUME Delete(i)
      PROVE  Good
  <2>1. row' = [row EXCEPT ![i] = NoRow] /\ NoRow.state = "none"
    BY <1>10 DEF Delete, NoRow
  <2>2. ASSUME NEW j \in Job
        PROVE  row[j].state' = IF j = i THEN "none" ELSE row[j].state
    BY <2>1 DEF TypeOK
  <2>3. notifs' = IF row[i].state = "done" THEN notifs ELSE notifs \cup {i}
    BY <1>10 DEF Delete
  <2> QED  BY <2>2, <2>3
<1>11. Good
  <2> HIDE DEF Good
  <2> QED  BY <1>2, <1>5, <1>6, <1>7, <1>8, <1>9, <1>10
<1> QED  BY <1>1, <1>11, AllStay

(* A job with a place of its own row's kind is placed.                     *)
LEMMA MatchPlaced ==
    ASSUME NEW j \in Job, row[j] \in Rows,
           CASE row[j].state = "pending"  -> InQueue(j)
             [] row[j].state = "enqueued" -> InRun(j)
             [] row[j].state = "failed"   -> InFailed(j)
             [] OTHER                     -> Nowhere(j)
    PROVE  Placed(j)
BY DEF Placed, Rows, NoRow

(* A notification moves its own job to the place its row calls for.        *)
LEMMA NotifiedMatch ==
    ASSUME TypeOK, OnePlace, NEW j \in Job, Notified(j)
    PROVE  Placed(j)'
<1> USE DEF At
<1>1. Home[j] \in Channel /\ Home[j] \in Path[Home[j]] /\ Above(j, Home[j]) = {}
      /\ Path[Home[j]] \subseteq Channel
  BY AboveHome, TreeAssumption
<1>2. row' = row /\ row[j] \in Rows
  BY DEF Notified, TypeOK
<1>3. /\ queue \in [Channel -> SUBSET Job]
      /\ running \in [Channel -> SUBSET Job]
      /\ failed \in [Channel -> SUBSET Job]
  BY DEF TypeOK
<1>4. Placed(j)
  BY DEF OnePlace
<1>5. CASE row[j].state \in {"none", "done"} /\ RemoveJob(j)
  <2>1. Nowhere(j)'
    BY <1>3, <1>5 DEF RemoveJob, Without, Nowhere
  <2> QED  BY <1>2, <1>5, <2>1 DEF Placed
<1>6. ASSUME NEW fresh \in BOOLEAN, row[j].state = "pending", SetPending(j, fresh)
      PROVE  Placed(j)'
  <2>1. CASE ~fresh /\ j \in queue[Home[j]]
    <3>1. UNCHANGED placeVars
      BY <1>6, <2>1 DEF SetPending
    <3>2. InQueue(j)
      BY <1>1, <1>4, <2>1 DEF Placed, InRun, InFailed, Nowhere
    <3>3. InQueue(j)'
      BY <3>1, <3>2 DEF InQueue, placeVars, Above
    <3> QED  BY <1>2, <1>6, <3>3 DEF Placed
  <2>2. CASE ~(~fresh /\ j \in queue[Home[j]])
    <3>1. /\ queue' = [Without(queue, j) EXCEPT ![Home[j]] = @ \cup {j}]
          /\ running' = Without(running, j)
          /\ failed' = Without(failed, j)
      BY <1>6, <2>2 DEF SetPending
    <3>2. At(queue, j)' = {Home[j]}
      BY <1>1, <1>3, <3>1 DEF Without
    <3>3. At(running, j)' = {} /\ At(failed, j)' = {}
      BY <1>3, <3>1 DEF Without
    <3>4. InQueue(j)'
      BY <1>1, <3>2, <3>3 DEF InQueue, Above
    <3> QED  BY <1>2, <1>6, <3>4 DEF Placed
  <2> QED  BY <2>1, <2>2
<1>7. ASSUME NEW fresh \in BOOLEAN, row[j].state = "enqueued", SetRunning(j, fresh)
      PROVE  Placed(j)'
  <2>1. InRun(j)
    BY <1>4, <1>7 DEF Placed
  <2>2. UNCHANGED placeVars
    BY <1>1, <1>3, <1>7, <2>1, OwnPath DEF SetRunning, InRun, placeVars
  <2>3. InRun(j)'
    BY <2>1, <2>2 DEF InRun, placeVars
  <2> QED  BY <1>2, <1>7, <2>3 DEF Placed
<1>8. ASSUME NEW fresh \in BOOLEAN, row[j].state = "failed", SetFailed(j, fresh)
      PROVE  Placed(j)'
  <2>1. CASE ~fresh /\ j \in failed[Home[j]]
    <3>1. UNCHANGED placeVars
      BY <1>8, <2>1 DEF SetFailed
    <3>2. InFailed(j)
      BY <1>1, <1>4, <2>1 DEF Placed, InQueue, InRun, Nowhere
    <3>3. InFailed(j)'
      BY <3>1, <3>2 DEF InFailed, placeVars
    <3> QED  BY <1>2, <1>8, <3>3 DEF Placed
  <2>2. CASE ~(~fresh /\ j \in failed[Home[j]])
    <3>1. /\ queue' = Without(queue, j)
          /\ running' = Without(running, j)
          /\ failed' = [Without(failed, j) EXCEPT ![Home[j]] = @ \cup {j}]
      BY <1>8, <2>2 DEF SetFailed
    <3>2. At(failed, j)' = {Home[j]}
      BY <1>1, <1>3, <3>1 DEF Without
    <3>3. At(queue, j)' = {} /\ At(running, j)' = {}
      BY <1>3, <3>1 DEF Without
    <3> QED  BY <1>2, <1>8, <3>2, <3>3 DEF Placed, InFailed
  <2> QED  BY <2>1, <2>2
<1> QED  BY <1>5, <1>6, <1>7, <1>8 DEF Notified

(* A notification moves no other job.                                      *)
LEMMA NotifiedOthers ==
    ASSUME TypeOK, OnePlace, NEW j \in Job, Notified(j), NEW i \in Job, i # j
    PROVE  Placed(i)'
<1>1. /\ queue \in [Channel -> SUBSET Job]
      /\ running \in [Channel -> SUBSET Job]
      /\ failed \in [Channel -> SUBSET Job]
      /\ Home[j] \in Channel
  BY JobAssumption DEF TypeOK
<1> DEFINE Same == \A c \in Channel : /\ i \in queue'[c] <=> i \in queue[c]
                                      /\ i \in running'[c] <=> i \in running[c]
                                      /\ i \in failed'[c] <=> i \in failed[c]
<1>2. ASSUME RemoveJob(j)
      PROVE  Same
  BY <1>1, <1>2 DEF RemoveJob, Without
<1>3. ASSUME NEW fresh \in BOOLEAN, SetPending(j, fresh)
      PROVE  Same
  <2>1. CASE ~fresh /\ j \in queue[Home[j]]
    BY <1>3, <2>1 DEF SetPending, placeVars
  <2>2. CASE ~(~fresh /\ j \in queue[Home[j]])
    <3>1. /\ queue' = [Without(queue, j) EXCEPT ![Home[j]] = @ \cup {j}]
          /\ running' = Without(running, j)
          /\ failed' = Without(failed, j)
      BY <1>3, <2>2 DEF SetPending
    <3> QED  BY <1>1, <3>1 DEF Without
  <2> QED  BY <2>1, <2>2
<1>4. ASSUME NEW fresh \in BOOLEAN, SetRunning(j, fresh)
      PROVE  Same
  BY <1>1, <1>4 DEF SetRunning
<1>5. ASSUME NEW fresh \in BOOLEAN, SetFailed(j, fresh)
      PROVE  Same
  <2>1. CASE ~fresh /\ j \in failed[Home[j]]
    BY <1>5, <2>1 DEF SetFailed, placeVars
  <2>2. CASE ~(~fresh /\ j \in failed[Home[j]])
    <3>1. /\ queue' = Without(queue, j)
          /\ running' = Without(running, j)
          /\ failed' = [Without(failed, j) EXCEPT ![Home[j]] = @ \cup {j}]
      BY <1>5, <2>2 DEF SetFailed
    <3> QED  BY <1>1, <3>1 DEF Without
  <2> QED  BY <2>1, <2>2
<1>6. Same
  <2> HIDE DEF Same
  <2> QED  BY <1>2, <1>3, <1>4, <1>5 DEF Notified
<1>7. /\ At(queue, i)' = At(queue, i)
      /\ At(running, i)' = At(running, i)
      /\ At(failed, i)' = At(failed, i)
  BY <1>6 DEF At
<1> QED  BY <1>7, StaysPlaced DEF Notified, OnePlace

(* A job that was handed over, or has no row, does not wait in a channel   *)
(* once its notifications are processed.                                   *)
LEMMA WaitingRow ==
    ASSUME TypeOK, NEW j \in Job, Placed(j), NEW c \in Channel, j \in queue[c]
    PROVE  /\ c \in Path[Home[j]]
           /\ At(queue, j) = {c} /\ At(running, j) = Above(j, c) /\ At(failed, j) = {}
           /\ row[j].state # "enqueued"
           /\ j \notin notifs => row[j].state = "pending"
<1>1. c \in At(queue, j)
  BY DEF At
<1>2. InQueue(j) /\ ~InRun(j) /\ ~InFailed(j) /\ ~Nowhere(j)
  BY <1>1 DEF Placed, InRun, InFailed, Nowhere
<1>3. row[j].state # "enqueued"
  BY <1>2 DEF Placed
<1>4. j \notin notifs => row[j].state = "pending"
  BY <1>2 DEF Placed
<1> QED  BY <1>1, <1>2, <1>3, <1>4 DEF InQueue

(* A yield moves a job one channel down, or out of the root.               *)
LEMMA YieldPlace ==
    ASSUME TypeOK, OnePlace, NEW c \in Channel, Yield(c)
    PROVE  OnePlace'
<1>1. PICK j \in Popped(c) :
         /\ running' = [running EXCEPT ![c] = @ \cup {j}]
         /\ IF c = Root
            THEN queue' = [queue EXCEPT ![c] = @ \ {j}] /\ HandOver(j)
            ELSE /\ queue' = [queue EXCEPT ![c] = @ \ {j}, ![Parent[c]] = @ \cup {j}]
                 /\ UNCHANGED tableVars
  BY DEF Yield
<1>2. j \in queue[c] /\ j \in Job
  BY <1>1 DEF Popped, FirstReady, Ready, TypeOK
<1>3. /\ queue \in [Channel -> SUBSET Job]
      /\ running \in [Channel -> SUBSET Job]
      /\ failed' = failed
  BY DEF TypeOK, Yield
<1>4. /\ c \in Path[Home[j]]
      /\ At(queue, j) = {c} /\ At(running, j) = Above(j, c) /\ At(failed, j) = {}
      /\ row[j].state # "enqueued"
      /\ j \notin notifs => row[j].state = "pending"
  BY <1>2, WaitingRow DEF OnePlace
<1>5. At(running, j)' = Above(j, c) \cup {c} /\ At(failed, j)' = {}
  <2>1. \A d \in Channel : j \in running'[d] <=> j \in running[d] \/ d = c
    BY <1>1, <1>3
  <2> QED  BY <1>3, <1>4, <2>1 DEF At
<1>6. Placed(j)'
  <2>1. CASE c = Root
    <3>1. At(queue, j)' = {}
      <4>1. \A d \in Channel : j \in queue'[d] <=> j \in queue[d] /\ d # c
        BY <1>1, <1>3, <2>1
      <4> QED  BY <1>4, <4>1 DEF At
    <3>2. At(running, j)' = Path[Home[j]]
      BY <1>2, <1>5, <2>1, AboveRoot
    <3>3. InRun(j)'
      BY <1>5, <3>1, <3>2 DEF InRun
    <3>4. CASE row[j] = NoRow
      <4>1. j \in notifs
        BY <1>4, <3>4 DEF NoRow
      <4>2. notifs' = notifs /\ row' = row
        BY <1>1, <2>1, <3>4 DEF HandOver, tableVars
      <4> QED  BY <3>3, <4>1, <4>2 DEF Placed
    <3>5. CASE row[j] # NoRow
      <4>1. j \in notifs'
        BY <1>1, <2>1, <3>5 DEF HandOver, Write
      <4> QED  BY <3>3, <4>1 DEF Placed
    <3> QED  BY <3>4, <3>5
  <2>2. CASE c # Root
    <3> DEFINE p == Parent[c]
    <3>1. /\ p \in Path[Home[j]]
          /\ Above(j, p) = Above(j, c) \cup {c}
      BY <1>2, <1>4, <2>2, AboveParent
    <3>2. p \in Channel /\ p # c
      <4>1. p \in Channel /\ c \notin Path[p]
        BY <2>2, TreeAssumption
      <4> QED  BY <4>1, OwnPath
    <3>3. At(queue, j)' = {p}
      <4>1. \A d \in Channel : j \in queue'[d] <=> (j \in queue[d] /\ d # c) \/ d = p
        BY <1>1, <1>3, <2>2, <3>2
      <4> QED  BY <1>4, <3>2, <4>1 DEF At
    <3>4. InQueue(j)'
      BY <1>5, <3>1, <3>3 DEF InQueue, Above
    <3>5. row' = row /\ notifs' = notifs
      BY <1>1, <2>2 DEF tableVars
    <3> QED  BY <1>4, <3>4, <3>5 DEF Placed
  <2> QED  BY <2>1, <2>2
<1>7. ASSUME NEW i \in Job, i # j
      PROVE  Placed(i)'
  <2>1. \A d \in Channel : /\ i \in queue'[d] <=> i \in queue[d]
                           /\ i \in running'[d] <=> i \in running[d]
    <3>1. c # Root => Parent[c] \in Channel
      BY TreeAssumption
    <3> QED  BY <1>1, <1>3, <1>7, <3>1
  <2>2. /\ At(queue, i)' = At(queue, i)
        /\ At(running, i)' = At(running, i)
        /\ At(failed, i)' = At(failed, i)
    BY <1>3, <2>1 DEF At
  <2>3. row'[i] = row[i] /\ (i \notin notifs' => i \notin notifs)
    BY <1>1, <1>7 DEF HandOver, Write, tableVars, TypeOK
  <2> QED  BY <2>2, <2>3, StaysPlaced DEF OnePlace
<1> QED  BY <1>6, <1>7 DEF OnePlace

(* A restart puts every job where its row says.                            *)
LEMMA RestartPlace ==
    ASSUME TypeOK, Restart
    PROVE  OnePlace'
<1> SUFFICES ASSUME NEW j \in Job PROVE Placed(j)'
  BY DEF OnePlace
<1>1. row' = row /\ row[j] \in Rows
  BY DEF Restart, TypeOK
<1>2. Home[j] \in Channel /\ Above(j, Home[j]) = {} /\ Home[j] \in Path[Home[j]]
      /\ Path[Home[j]] \subseteq Channel
  BY AboveHome, TreeAssumption
<1>3. /\ At(queue, j)' = {c \in Channel : row[j].state = "pending" /\ Home[j] = c}
      /\ At(running, j)' = {c \in Channel : row[j].state = "enqueued" /\ c \in Path[Home[j]]}
      /\ At(failed, j)' = {c \in Channel : row[j].state = "failed" /\ Home[j] = c}
  BY DEF Restart, At, Loaded
<1>4. CASE row[j].state = "pending"
  <2>1. InQueue(j)'
    BY <1>2, <1>3, <1>4 DEF InQueue, Above
  <2> QED  BY <1>1, <1>4, <2>1 DEF Placed
<1>5. CASE row[j].state = "enqueued"
  <2>1. InRun(j)'
    BY <1>2, <1>3, <1>5 DEF InRun
  <2> QED  BY <1>1, <1>5, <2>1 DEF Placed
<1>6. CASE row[j].state = "failed"
  <2>1. InFailed(j)'
    BY <1>2, <1>3, <1>6 DEF InFailed
  <2> QED  BY <1>1, <1>6, <2>1 DEF Placed
<1>7. CASE row[j].state \in {"none", "done"}
  <2>1. Nowhere(j)'
    BY <1>2, <1>3, <1>7 DEF Nowhere
  <2> QED  BY <1>1, <1>7, <2>1 DEF Placed
<1> QED  BY <1>1, <1>4, <1>5, <1>6, <1>7 DEF Rows, NoRow

(* Initially every job is nowhere.                                         *)
LEMMA PlaceInit == Init => OnePlace
<1> SUFFICES ASSUME Init, NEW j \in Job PROVE Placed(j)
  BY DEF OnePlace
<1>1. row[j].state = "none"
  BY DEF Init, NoRow
<1>2. Nowhere(j)
  BY DEF Init, NoJobs, Nowhere, At
<1> QED  BY <1>1, <1>2 DEF Placed

(* Every step leaves every job in one place.                               *)
LEMMA PlaceStep == TypeOK /\ OnePlace /\ [Next]_vars => OnePlace'
<1> SUFFICES ASSUME TypeOK, OnePlace, [Next]_vars PROVE OnePlace'
  OBVIOUS
<1>1. CASE Others
  BY <1>1, OthersPlace
<1>2. CASE Restart
  BY <1>2, RestartPlace
<1>3. ASSUME NEW j \in Job, Notified(j)
      PROVE  OnePlace'
  BY <1>3, NotifiedMatch, NotifiedOthers DEF OnePlace
<1>4. ASSUME NEW c \in Channel, Yield(c)
      PROVE  OnePlace'
  BY <1>4, YieldPlace
<1>5. CASE UNCHANGED <<row, notifs, queue, running, failed>>
  <2>1. UNCHANGED placeVars
    BY <1>5 DEF placeVars
  <2> QED  BY <1>5, <2>1, AllStay
<1>6. CASE Tick \/ RunJobs \/ UNCHANGED vars
  BY <1>5, <1>6 DEF Tick, RunJobs, vars, placeVars, tableVars
<1>7. ASSUME NEW c \in Channel, EndTurn(c)
      PROVE  OnePlace'
  BY <1>5, <1>7 DEF EndTurn, placeVars, tableVars
<1> QED  BY <1>1, <1>2, <1>3, <1>4, <1>6, <1>7 DEF Next

(* Every job has one place in the tree, that of its row unless a           *)
(* notification is on its way, through all moves, requeues and restarts.   *)
THEOREM PlacesKept == Spec => []OnePlace
<1>1. Init => TypeOK /\ OnePlace
  BY TypeInit, PlaceInit
<1>2. TypeOK /\ OnePlace /\ [Next]_vars => TypeOK' /\ OnePlace'
  BY TypeStep, PlaceStep
<1> QED  BY <1>1, <1>2, PTL DEF Spec

-----------------------------------------------------------------------------
(* Capacities *)

(* What the runner counts as running is within the capacity of the channel.*)
RunningWithin ==
    \A c \in Channel : Capacity[c] # 0 => Cardinality(running[c]) <= Capacity[c]

(* A channel that counts fewer jobs than before stays within its capacity. *)
LEMMA FewerRunning ==
    ASSUME TypeOK, RunningWithin, \A c \in Channel : running'[c] \subseteq running[c]
    PROVE  RunningWithin'
<1> SUFFICES ASSUME NEW c \in Channel, Capacity[c] # 0
             PROVE  Cardinality(running'[c]) <= Capacity[c]
  BY DEF RunningWithin
<1>1. IsFiniteSet(running[c])
  BY TreeAssumption, FS_Subset DEF TypeOK
<1>2. IsFiniteSet(running'[c]) /\ Cardinality(running'[c]) <= Cardinality(running[c])
  BY <1>1, FS_Subset
<1>3. Cardinality(running'[c]) \in Nat /\ Cardinality(running[c]) \in Nat
  BY <1>1, <1>2, FS_CardinalityType
<1>4. Cardinality(running[c]) <= Capacity[c] /\ Capacity[c] \in Nat
  BY ConfigAssumption DEF RunningWithin
<1> QED  BY <1>2, <1>3, <1>4

(* A yield looks at the capacity first.                                    *)
LEMMA YieldWithin ==
    ASSUME TypeOK, RunningWithin, NEW c \in Channel, Yield(c)
    PROVE  RunningWithin'
<1>1. PICK j \in Popped(c) : running' = [running EXCEPT ![c] = @ \cup {j}]
  BY DEF Yield
<1> SUFFICES ASSUME NEW d \in Channel, Capacity[d] # 0
             PROVE  Cardinality(running'[d]) <= Capacity[d]
  BY DEF RunningWithin
<1>2. CASE d # c
  BY <1>1, <1>2 DEF RunningWithin, TypeOK
<1>3. CASE d = c
  <2>1. IsFiniteSet(running[c])
    BY TreeAssumption, FS_Subset DEF TypeOK
  <2>2. Cardinality(running[c]) < Capacity[c]
    BY <1>3 DEF Yield, HasCapacity
  <2>3. Cardinality(running[c] \cup {j}) <= Cardinality(running[c]) + 1
    <3>1. Cardinality(running[c] \cup {j}) \in {Cardinality(running[c]), Cardinality(running[c]) + 1}
      BY <2>1, FS_AddElement
    <3> QED  BY <2>1, <3>1, FS_CardinalityType
  <2>4. Cardinality(running[c]) \in Nat /\ Capacity[c] \in Nat
    BY <2>1, FS_CardinalityType, ConfigAssumption
  <2>5. Cardinality(running[c] \cup {j}) \in Nat
    BY <2>1, FS_AddElement, FS_CardinalityType
  <2>6. running'[c] = running[c] \cup {j}
    BY <1>1 DEF TypeOK
  <2> QED  BY <1>3, <2>2, <2>3, <2>4, <2>5, <2>6
<1> QED  BY <1>2, <1>3

(* A notification counts no more jobs: a started job was counted already.  *)
LEMMA NotifiedWithin ==
    ASSUME TypeOK, OnePlace, NEW j \in Job, Notified(j), NEW c \in Channel
    PROVE  running'[c] \subseteq running[c]
<1>1. running \in [Channel -> SUBSET Job]
  BY DEF TypeOK
<1>2. CASE RemoveJob(j)
  BY <1>1, <1>2 DEF RemoveJob, Without
<1>3. ASSUME NEW fresh \in BOOLEAN, SetPending(j, fresh)
      PROVE  running'[c] \subseteq running[c]
  BY <1>1, <1>3 DEF SetPending, Without, placeVars
<1>4. ASSUME NEW fresh \in BOOLEAN, row[j].state = "enqueued", SetRunning(j, fresh)
      PROVE  running'[c] \subseteq running[c]
  <2>1. InRun(j)
    BY <1>4 DEF OnePlace, Placed
  <2>2. j \in running[c] <=> c \in Path[Home[j]]
    BY <2>1 DEF InRun, At
  <2> QED  BY <1>1, <1>4, <2>2 DEF SetRunning
<1>5. ASSUME NEW fresh \in BOOLEAN, SetFailed(j, fresh)
      PROVE  running'[c] \subseteq running[c]
  BY <1>1, <1>5 DEF SetFailed, Without, placeVars
<1> QED  BY <1>2, <1>3, <1>4, <1>5 DEF Notified

(* A restart counts no job that was not counted.                           *)
LEMMA RestartWithin ==
    ASSUME OnePlace, Restart, NEW c \in Channel
    PROVE  running'[c] \subseteq running[c]
<1>1. running'[c] = Loaded(c)
  BY DEF Restart
<1>2. ASSUME NEW j \in Loaded(c)
      PROVE  j \in running[c]
  <2>1. j \in Job /\ InRun(j) /\ c \in Path[Home[j]]
    BY <1>2 DEF Loaded, OnePlace, Placed
  <2> QED  BY <2>1 DEF InRun, At
<1> QED  BY <1>1, <1>2

(* Every step leaves every channel within its capacity.                    *)
LEMMA WithinStep ==
    TypeOK /\ OnePlace /\ RunningWithin /\ [Next]_vars => RunningWithin'
<1> SUFFICES ASSUME TypeOK, OnePlace, RunningWithin, [Next]_vars PROVE RunningWithin'
  OBVIOUS
<1>1. CASE Restart
  BY <1>1, RestartWithin, FewerRunning
<1>2. ASSUME NEW j \in Job, Notified(j)
      PROVE  RunningWithin'
  BY <1>2, NotifiedWithin, FewerRunning
<1>3. ASSUME NEW c \in Channel, Yield(c)
      PROVE  RunningWithin'
  BY <1>3, YieldWithin
<1>4. CASE UNCHANGED running
  BY <1>4 DEF RunningWithin
<1>5. CASE Others \/ Tick \/ RunJobs \/ UNCHANGED vars
  BY <1>4, <1>5 DEF Others, Tick, RunJobs, vars, placeVars
<1>6. ASSUME NEW c \in Channel, EndTurn(c)
      PROVE  RunningWithin'
  BY <1>4, <1>6 DEF EndTurn, placeVars
<1> QED  BY <1>1, <1>2, <1>3, <1>5, <1>6 DEF Next

(* The jobs that Odoo works on are among those the runner counts.          *)
LEMMA WorkingWithin == TypeOK /\ OnePlace /\ RunningWithin => WithinCapacities
<1> SUFFICES ASSUME TypeOK, OnePlace, RunningWithin, NEW c \in Channel, Capacity[c] # 0
             PROVE  Cardinality(Working(c)) <= Capacity[c]
  BY DEF WithinCapacities
<1>1. ASSUME NEW j \in Working(c)
      PROVE  j \in running[c]
  <2>1. j \in Job /\ InRun(j) /\ c \in Path[Home[j]]
    BY <1>1 DEF Working, OnePlace, Placed
  <2> QED  BY <2>1 DEF InRun, At
<1>2. IsFiniteSet(running[c])
  BY TreeAssumption, FS_Subset DEF TypeOK
<1>3. IsFiniteSet(Working(c)) /\ Cardinality(Working(c)) <= Cardinality(running[c])
  BY <1>1, <1>2, FS_Subset
<1>4. Cardinality(Working(c)) \in Nat /\ Cardinality(running[c]) \in Nat
  BY <1>2, <1>3, FS_CardinalityType
<1>5. Cardinality(running[c]) <= Capacity[c] /\ Capacity[c] \in Nat
  BY ConfigAssumption DEF RunningWithin
<1> QED  BY <1>3, <1>4, <1>5

(* No channel of any tree ever has more jobs handed to Odoo, its own and   *)
(* those of the channels above it, than its capacity.                      *)
THEOREM CapacitiesKept == Spec => []WithinCapacities
<1> DEFINE IInv == TypeOK /\ OnePlace /\ RunningWithin
<1>1. Init => IInv
  <2>1. Init => RunningWithin
    BY FS_EmptySet, ConfigAssumption DEF Init, NoJobs, RunningWithin
  <2> QED  BY <2>1, TypeInit, PlaceInit
<1>2. IInv /\ [Next]_vars => IInv'
  BY TypeStep, PlaceStep, WithinStep
<1>3. IInv => WithinCapacities
  BY WorkingWithin
<1> QED  BY <1>1, <1>2, <1>3, PTL DEF Spec
-----------------------------------------------------------------------------
(* The turns of run_jobs() *)

(* A finite set has a least element in a strict total order.               *)
LEMMA LeastElement ==
    ASSUME NEW S, IsFiniteSet(S), S # {}, NEW R,
           \A x \in S : <<x, x>> \notin R,
           \A x, y \in S : x = y \/ <<x, y>> \in R \/ <<y, x>> \in R,
           \A x, y, z \in S : <<x, y>> \in R /\ <<y, z>> \in R => <<x, z>> \in R
    PROVE  \E x \in S : \A y \in S \ {x} : <<x, y>> \in R
<1> DEFINE D[x \in S] == {y \in S : y = x \/ <<y, x>> \in R}
           C == {D[x] : x \in S}
<1>1. /\ FiniteSubsetsOf(S) = SUBSET S
      /\ IsWellFoundedOn(StrictSubsetOrdering(S), FiniteSubsetsOf(S))
  BY FS_FiniteSubsetsOfFinite, FS_StrictSubsetOrderingWellFounded
<1>2. C \in SUBSET (SUBSET S) /\ C # {}
  <2>1. \A x \in S : D[x] \in SUBSET S
    OBVIOUS
  <2> HIDE DEF D
  <2> QED  BY <2>1
<1>3. PICK T \in C : \A U \in C : <<U, T>> \notin StrictSubsetOrdering(S)
  <2> HIDE DEF C
  <2> QED  BY <1>1, <1>2, WFMin
<1>4. PICK x \in S : T = D[x]
  BY <1>3
<1>5. ASSUME NEW y \in S \ {x}, <<x, y>> \notin R
      PROVE  FALSE
  <2>1. <<y, x>> \in R
    BY <1>5
  <2>2. D[y] \subseteq D[x] /\ x \in D[x] /\ x \notin D[y]
    BY <1>5, <2>1
  <2>3. <<D[y], T>> \in StrictSubsetOrdering(S)
    BY <1>4, <2>2 DEF StrictSubsetOrdering
  <2> QED  BY <1>3, <2>3
<1> QED  BY <1>4, <1>5

(* Below every channel on a path there is a child of it on that path.      *)
LEMMA ChildOnPath ==
    ASSUME NEW d \in Channel, NEW c \in Path[d], c # d
    PROVE  \E e \in Path[d] \ {Root} : Parent[e] = c
<1> DEFINE S == {e \in Path[d] : e # c /\ c \in Path[e]}
           R == {p \in S \X S : p[1] # p[2] /\ p[1] \in Path[p[2]]}
<1>1. IsFiniteSet(S) /\ S \subseteq Channel
  BY TreeAssumption, FS_Subset
<1>2. d \in S
  BY OwnPath
<1>3. \A x, y \in S : x = y \/ x \in Path[y] \/ y \in Path[x]
  BY TreeAssumption
<1>4. \A x, y \in S : x \in Path[y] /\ y \in Path[x] => x = y
  BY <1>1, TreeAssumption
<1>5. \A x, y, z \in S : x \in Path[y] /\ y \in Path[z] => x \in Path[z]
  BY <1>1, TreeAssumption
<1>6. \A x, y \in S : <<x, y>> \in R <=> x # y /\ x \in Path[y]
  OBVIOUS
<1> HIDE DEF R
<1>7. PICK e \in S : \A y \in S \ {e} : <<e, y>> \in R
  <2>1. S # {}
    BY <1>2
  <2>2. /\ \A x \in S : <<x, x>> \notin R
        /\ \A x, y \in S : x = y \/ <<x, y>> \in R \/ <<y, x>> \in R
        /\ \A x, y, z \in S : <<x, y>> \in R /\ <<y, z>> \in R => <<x, z>> \in R
    BY <1>3, <1>4, <1>5, <1>6
  <2> HIDE DEF S
  <2> QED  BY <1>1, <2>1, <2>2, LeastElement
<1>8. e # Root
  BY TreeAssumption
<1> DEFINE p == Parent[e]
<1>9. p \in Channel /\ e \notin Path[p] /\ Path[e] = {e} \cup Path[p]
  BY <1>1, <1>8, TreeAssumption
<1>10. p \in Path[e] /\ p # e /\ c \in Path[p]
  BY <1>9, OwnPath
<1>11. p \in Path[d]
  BY <1>10, TreeAssumption
<1>12. p = c
  BY <1>6, <1>7, <1>9, <1>10, <1>11
<1> QED  BY <1>8, <1>12

(* Of the channels whose turn is still to come, the lower ones go first.   *)
UpClosed == \A d \in todo : Path[d] \subseteq todo

LEMMA TurnFirst ==
    ASSUME TypeOK, UpClosed, NEW c \in Channel, Turn(c), todo' = todo \ {c}
    PROVE  UpClosed'
<1>1. ASSUME NEW d \in todo, d # c, c \in Path[d]
      PROVE  FALSE
  <2>1. PICK e \in Path[d] \ {Root} : Parent[e] = c
    BY <1>1, ChildOnPath DEF TypeOK
  <2> QED  BY <2>1 DEF UpClosed, Turn
<1> QED  BY <1>1 DEF UpClosed

-----------------------------------------------------------------------------
(* Channels at rest *)

Free(c)  == HasCapacity(c) /\ pause[c] = 0
Asked(c) == HasCapacity(c) /\ \A d \in Path[c] \ {c} : Free(d)

\* The jobs that wait for no eta, and the others.
Awake(c)  == {j \in queue[c] : job[j].eta = 0}
Asleep(c) == queue[c] \ Awake(c)

FirstIn(S)   == {j \in S : \A i \in S \ {j} : Before(j, i)}
SoonestIn(S) == {j \in S : \A i \in S \ {j} :
                    \/ job[j].eta < job[i].eta
                    \/ job[j].eta = job[i].eta /\ Before(j, i)}

\* No job that is awake may flow on.
Held(c) == \A j \in FirstIn(Awake(c)) :
              c \in Sequential /\ \E i \in SoonestIn(Asleep(c)) : ~Before(j, i)

Rested(c) == Free(c) => Held(c)

\* Neither the end of the pause nor an eta is over.
Punctual(c) == /\ pause[c] # 0 => pause[c] > now
               /\ Free(c) => \A j \in Asleep(c) : job[j].eta > now

(* What a channel does depends on its own jobs.                            *)
LEMMA SameHeld ==
    ASSUME NEW c, queue'[c] = queue[c], \A j \in queue[c] : job'[j] = job[j]
    PROVE  /\ Asleep(c)' = Asleep(c)
           /\ Held(c) => Held(c)'
<1>1. \A i, j \in queue[c] : Before(i, j)' <=> Before(i, j)
  BY DEF Before
<1>2. Awake(c)' = Awake(c) /\ Awake(c) \subseteq queue[c]
  BY DEF Awake
<1>3. Asleep(c)' = Asleep(c) /\ Asleep(c) \subseteq queue[c]
  BY <1>2 DEF Asleep
<1>4. FirstIn(Awake(c))' = FirstIn(Awake(c)) /\ FirstIn(Awake(c)) \subseteq queue[c]
  BY <1>1, <1>2 DEF FirstIn
<1>5. /\ SoonestIn(Asleep(c))' = SoonestIn(Asleep(c))
      /\ SoonestIn(Asleep(c)) \subseteq queue[c]
  BY <1>1, <1>3 DEF SoonestIn
<1> QED  BY <1>1, <1>3, <1>4, <1>5 DEF Held

LEMMA SameCalm ==
    ASSUME NEW c, queue'[c] = queue[c], \A j \in queue[c] : job'[j] = job[j],
           running'[c] = running[c], failed'[c] = failed[c], pause'[c] = pause[c]
    PROVE  /\ Free(c)' <=> Free(c)
           /\ Rested(c) => Rested(c)'
           /\ Punctual(c) /\ now' = now => Punctual(c)'
<1>1. HasCapacity(c)' <=> HasCapacity(c)
  BY DEF HasCapacity
<1>2. Free(c)' <=> Free(c)
  BY <1>1 DEF Free
<1>3. Asleep(c)' = Asleep(c) /\ Asleep(c) \subseteq queue[c] /\ (Held(c) => Held(c)')
  BY SameHeld DEF Asleep
<1> QED  BY <1>2, <1>3 DEF Rested, Punctual

(* A job waits in one channel.                                             *)
LEMMA WaitsOnce ==
    ASSUME TypeOK, OnePlace, NEW c \in Channel, NEW d \in Channel, c # d
    PROVE  queue[c] \cap queue[d] = {}
<1>1. ASSUME NEW j \in queue[c], j \in queue[d]
      PROVE  FALSE
  <2>1. j \in Job
    BY <1>1 DEF TypeOK
  <2>2. At(queue, j) = {c} /\ At(queue, j) = {d}
    BY <1>1, <2>1, WaitingRow DEF OnePlace
  <2> QED  BY <2>2
<1> QED  BY <1>1

(* The jobs whose eta has come forget it, and nothing else.                *)
LEMMA WokenJobs ==
    ASSUME TypeOK, NEW c \in Channel, job' = Woken(c)
    PROVE  /\ \A j \in queue[c] : job[j].eta \in Nat /\ job'[j].prio = job[j].prio
           /\ \A j \in Ready(c) : job'[j].eta = 0
           /\ \A j \in Job \ Ready(c) : job'[j] = job[j]
           /\ Ready(c) \subseteq queue[c] /\ queue[c] \subseteq Job
<1>1. queue[c] \subseteq Job /\ Ready(c) \subseteq queue[c]
  BY DEF TypeOK, Ready
<1>2. \A j \in Job : job[j] \in [prio : Priorities \cup {0}, eta : Etas] /\ Etas \subseteq Nat
  BY ConfigAssumption DEF TypeOK, Etas
<1> QED  BY <1>1, <1>2 DEF Woken

(* When a channel has nothing to yield, the jobs it made forget their eta  *)
(* are held back.                                                          *)
LEMMA NothingPopped ==
    ASSUME TypeOK, NEW c \in Channel, Popped(c) = {}, job' = Woken(c), UNCHANGED <<queue, now>>
    PROVE  Held(c)' /\ \A j \in Asleep(c)' : job'[j].eta > now
<1>1. /\ \A j \in queue[c] : job[j].eta \in Nat /\ job'[j].prio = job[j].prio
      /\ \A j \in Ready(c) : job'[j].eta = 0
      /\ \A j \in Job \ Ready(c) : job'[j] = job[j]
      /\ Ready(c) \subseteq queue[c] /\ queue[c] \subseteq Job
  BY WokenJobs
<1>2. now \in Nat
  BY ConfigAssumption DEF TypeOK
<1>3. Awake(c)' = Ready(c)
  BY <1>1, <1>2 DEF Awake, Ready
<1>4. Asleep(c)' = Later(c) /\ Later(c) \subseteq queue[c]
  BY <1>3 DEF Asleep, Later
<1>5. \A i, j \in queue[c] : Before(i, j)' <=> Before(i, j)
  BY <1>1 DEF Before
<1>6. FirstIn(Awake(c))' = FirstReady(c) /\ FirstReady(c) \subseteq queue[c]
  BY <1>1, <1>3, <1>5 DEF FirstIn, FirstReady
<1>7. \A j \in Later(c) : job'[j] = job[j] /\ job[j].eta > now
  BY <1>1, <1>2 DEF Later, Ready
<1>8. SoonestIn(Asleep(c))' = FirstLater(c) /\ FirstLater(c) \subseteq queue[c]
  BY <1>4, <1>5, <1>7 DEF SoonestIn, FirstLater
<1>9. Held(c)'
  BY <1>5, <1>6, <1>8 DEF Held, Popped
<1> QED  BY <1>4, <1>7, <1>9

(* A job that is awake and held back is behind a job with an eta, in a     *)
(* sequential channel.                                                     *)
LEMMA HeldBack ==
    ASSUME TypeOK, NEW c \in Channel, Held(c), NEW j \in queue[c], job[j].eta = 0
    PROVE  c \in Sequential /\ \E i \in queue[c] : job[i].eta # 0
<1> DEFINE S == Awake(c)
           R == {p \in S \X S : Before(p[1], p[2])}
<1>1. IsFiniteSet(S) /\ S \subseteq Job /\ S # {}
  BY TreeAssumption, FS_Subset DEF TypeOK, Awake
<1>2. \A i \in S : Rank[i] \in Nat /\ job[i].prio \in Nat
  <2>1. \A i \in Job : job[i] \in [prio : Priorities \cup {0}, eta : Etas]
    BY DEF TypeOK
  <2>2. (\A i \in Job : Rank[i] \in Nat) /\ Priorities \cup {0} \subseteq Nat
    BY JobAssumption
  <2> HIDE DEF S
  <2> QED  BY <1>1, <2>1, <2>2
<1>3. \A x, y \in S : <<x, y>> \in R <=> Before(x, y)
  OBVIOUS
<1>4. \A x, y \in S : x # y => Rank[x] # Rank[y]
  BY <1>1, JobAssumption
<1> HIDE DEF R, S
<1>5. /\ \A x \in S : <<x, x>> \notin R
      /\ \A x, y \in S : x = y \/ <<x, y>> \in R \/ <<y, x>> \in R
      /\ \A x, y, z \in S : <<x, y>> \in R /\ <<y, z>> \in R => <<x, z>> \in R
  BY <1>2, <1>3, <1>4 DEF Before
<1>6. PICK x \in S : \A y \in S \ {x} : <<x, y>> \in R
  BY <1>1, <1>5, LeastElement
<1>7. x \in FirstIn(Awake(c))
  BY <1>3, <1>6 DEF FirstIn, S
<1> QED  BY <1>7 DEF Held, SoonestIn, Asleep, Awake
(* A channel that keeps its jobs and does not let them flow has none to    *)
(* let flow.                                                               *)
LEMMA CalmPopsNone ==
    ASSUME TypeOK, NEW c \in Channel, Rested(c), Punctual(c), HasCapacity(c), ~Paused(c)
    PROVE  Popped(c) = {}
<1>1. queue[c] \subseteq Job /\ pause[c] \in Nat /\ now \in Nat
  BY ConfigAssumption DEF TypeOK
<1>2. Free(c) /\ Held(c)
  BY <1>1 DEF Rested, Punctual, Paused, Free
<1>3. \A j \in queue[c] : job[j].eta = 0 \/ job[j].eta > now
  BY <1>2 DEF Punctual, Asleep, Awake
<1>4. Ready(c) = Awake(c)
  <2>1. \A j \in Job : job[j].eta \in Nat
    BY ConfigAssumption DEF TypeOK, Etas
  <2> QED  BY <1>1, <1>3, <2>1 DEF Ready, Awake
<1>5. Later(c) = Asleep(c)
  BY <1>4 DEF Later, Asleep
<1>6. FirstReady(c) = FirstIn(Awake(c)) /\ FirstLater(c) = SoonestIn(Asleep(c))
  BY <1>4, <1>5 DEF FirstReady, FirstIn, FirstLater, SoonestIn
<1> QED  BY <1>2, <1>6 DEF Popped, Held

(* The jobs of the other channels keep their etas during a turn.           *)
LEMMA OthersSleep ==
    ASSUME TypeOK, OnePlace, NEW c \in Channel, job' = job \/ job' = Woken(c),
           NEW e \in Channel, e # c
    PROVE  \A j \in queue[e] : job'[j] = job[j]
<1>1. queue[e] \cap queue[c] = {} /\ queue[e] \subseteq Job
  BY WaitsOnce DEF TypeOK
<1>2. CASE job' = Woken(c)
  BY <1>1, <1>2, WokenJobs
<1> QED  BY <1>2

(* At the end of its turn a channel is at rest.                            *)
LEMMA EndTurnRests ==
    ASSUME TypeOK, NEW c \in Channel, EndTurn(c)
    PROVE  Rested(c)' /\ Punctual(c)'
<1>1. /\ UNCHANGED <<queue, running, failed, now>>
      /\ pause' = Unpaused(c)
      /\ ~Paused(c) /\ HasCapacity(c) => Popped(c) = {} /\ job' = Woken(c)
  BY DEF EndTurn, placeVars
<1>2. pause \in [Channel -> Nat] /\ now \in Nat
  BY ConfigAssumption DEF TypeOK
<1>3. HasCapacity(c)' <=> HasCapacity(c)
  BY <1>1 DEF HasCapacity
<1>4. CASE Paused(c)
  <2>1. pause'[c] > now' /\ pause'[c] # 0
    BY <1>1, <1>2, <1>4 DEF Unpaused, Paused
  <2> QED  BY <2>1 DEF Rested, Punctual, Free
<1>5. CASE ~Paused(c)
  <2>1. pause'[c] = 0
    BY <1>1, <1>2, <1>5 DEF Unpaused
  <2>2. CASE HasCapacity(c)
    <3>1. Held(c)' /\ \A j \in Asleep(c)' : job'[j].eta > now
      BY <1>1, <1>5, <2>2, NothingPopped
    <3> QED  BY <1>1, <2>1, <3>1 DEF Rested, Punctual
  <2>3. CASE ~HasCapacity(c)
    BY <1>3, <2>1, <2>3 DEF Rested, Punctual, Free
  <2> QED  BY <2>2, <2>3
<1> QED  BY <1>4, <1>5

(* Between two channels, only one can be above the other.                  *)
LEMMA PathOrder ==
    ASSUME NEW e \in Channel, NEW c \in Path[e], c # e, NEW d \in Path[c]
    PROVE  c \in Channel /\ d \in Path[e] /\ d # e
<1>1. c \in Channel
  BY TreeAssumption
<1>2. d \in Path[e]
  BY TreeAssumption
<1>3. ASSUME d = e PROVE FALSE
  BY <1>1, <1>3, TreeAssumption
<1> QED  BY <1>1, <1>2, <1>3

-----------------------------------------------------------------------------
(* What is at rest during run_jobs(), and after it *)

(* The channels whose turn is over are at rest, and stay so after          *)
(* run_jobs() until a notification; their pauses and etas are to come.     *)
(* When nothing but the default timeout called for it, no channel through  *)
(* which a job could flow to the root has one to yield.                    *)
WaitInv ==
    /\ UpClosed
    /\ todo # {} \/ ~called => \A c \in Channel \ todo : Rested(c)
    /\ todo # {} => \A c \in Channel \ todo : Punctual(c)
    /\ todo # {} /\ ~called => \A c \in Channel : Asked(c) => Rested(c) /\ Punctual(c)

LEMMA EndTurnWaits ==
    ASSUME TypeOK, OnePlace, WaitInv, NEW c \in Channel, EndTurn(c)
    PROVE  WaitInv' /\ \A d \in Channel \ todo' : Punctual(d)'
<1>1. /\ Turn(c) /\ c \in todo
      /\ todo' = todo \ {c} /\ called' = (called /\ todo' # {})
      /\ UNCHANGED <<queue, running, failed, now>>
      /\ pause' = Unpaused(c) /\ (job' = job \/ job' = Woken(c))
  BY DEF EndTurn, LeaveTurn, placeVars, Turn
<1>2. pause \in [Channel -> Nat] /\ now \in Nat
  BY ConfigAssumption DEF TypeOK
<1>3. ASSUME NEW e \in Channel, e # c
      PROVE  /\ Free(e)' <=> Free(e)
             /\ Rested(e) => Rested(e)'
             /\ Punctual(e) => Punctual(e)'
             /\ HasCapacity(e)' <=> HasCapacity(e)
  <2>1. \A j \in queue[e] : job'[j] = job[j]
    BY <1>1, <1>3, OthersSleep
  <2>2. pause'[e] = pause[e]
    BY <1>1, <1>2, <1>3 DEF Unpaused
  <2>3. HasCapacity(e)' <=> HasCapacity(e)
    BY <1>1 DEF HasCapacity
  <2> QED  BY <1>1, <2>1, <2>2, <2>3, SameCalm
<1>4. Rested(c)' /\ Punctual(c)'
  BY EndTurnRests
<1>5. \A d \in Channel \ todo' : Rested(d)' /\ Punctual(d)'
  BY <1>1, <1>3, <1>4 DEF WaitInv
<1>6. UpClosed'
  BY <1>1, TurnFirst DEF WaitInv
<1>7. ASSUME todo' # {}, ~called', NEW e \in Channel, Asked(e)'
      PROVE  Rested(e)' /\ Punctual(e)'
  <2>1. CASE e = c
    BY <1>4, <2>1
  <2>2. CASE e # c
    <3>1. ~called /\ todo # {}
      BY <1>1, <1>7
    <3>2. Path[e] \subseteq Channel
      BY TreeAssumption
    <3>3. \A g \in Path[e] \ {e, c} : Free(g)
      BY <1>3, <1>7, <3>2 DEF Asked
    <3>4. ASSUME c \in Path[e]
          PROVE  Free(c)
      <4>1. Free(c)'
        BY <1>7, <2>2, <3>4 DEF Asked
      <4>2. \A g \in Path[c] \ {c} : Free(g)
        BY <2>2, <3>3, <3>4, PathOrder
      <4>3. HasCapacity(c)
        BY <1>1, <4>1 DEF Free, HasCapacity
      <4>4. Punctual(c)
        BY <3>1, <4>2, <4>3 DEF WaitInv, Asked
      <4>5. pause[c] = 0
        BY <1>1, <1>2, <4>1, <4>4 DEF Free, Unpaused, Paused, Punctual
      <4> QED  BY <4>3, <4>5 DEF Free
    <3>5. Asked(e)
      BY <1>3, <1>7, <2>2, <3>3, <3>4 DEF Asked
    <3> QED  BY <1>3, <2>2, <3>1, <3>5 DEF WaitInv
  <2> QED  BY <2>1, <2>2
<1> QED  BY <1>5, <1>6, <1>7 DEF WaitInv

LEMMA YieldWaits ==
    ASSUME TypeOK, OnePlace, WaitInv, NEW c \in Channel, Yield(c)
    PROVE  WaitInv' /\ \A d \in Channel \ todo' : Punctual(d)'
<1>1. PICK j \in Popped(c) :
         /\ running' = [running EXCEPT ![c] = @ \cup {j}]
         /\ IF c = Root
            THEN queue' = [queue EXCEPT ![c] = @ \ {j}]
            ELSE queue' = [queue EXCEPT ![c] = @ \ {j}, ![Parent[c]] = @ \cup {j}]
  BY DEF Yield
<1>2. /\ Turn(c) /\ c \in todo /\ ~Paused(c) /\ HasCapacity(c)
      /\ job' = Woken(c) /\ UNCHANGED <<failed, now>>
  BY DEF Yield, Turn
<1>3. \/ Throttle[c] = 0 /\ UNCHANGED <<pause, todo, called>>
      \/ /\ Throttle[c] # 0 /\ pause' = [pause EXCEPT ![c] = now + Throttle[c]]
         /\ todo' = todo \ {c} /\ called' = (called /\ todo' # {})
  BY DEF Yield, LeaveTurn
<1>4. /\ pause \in [Channel -> Nat] /\ now \in Nat /\ Throttle[c] \in Nat
      /\ queue \in [Channel -> SUBSET Job] /\ running \in [Channel -> SUBSET Job]
  BY ConfigAssumption DEF TypeOK
<1>5. ASSUME c # Root
      PROVE  /\ Parent[c] \in Channel /\ Parent[c] # c /\ Parent[c] \in todo
             /\ Path[c] = {c} \cup Path[Parent[c]]
  <2>1. Parent[c] \in Channel /\ c \notin Path[Parent[c]] /\ Path[c] = {c} \cup Path[Parent[c]]
    BY <1>5, TreeAssumption
  <2> QED  BY <1>2, <2>1, OwnPath DEF WaitInv, UpClosed
<1>6. ASSUME NEW e \in Channel, e # c
      PROVE  /\ pause'[e] = pause[e]
             /\ HasCapacity(e)' <=> HasCapacity(e)
             /\ Free(e)' <=> Free(e)
  <2>1. running'[e] = running[e] /\ pause'[e] = pause[e] /\ failed' = failed
    BY <1>1, <1>2, <1>3, <1>4, <1>6
  <2>2. HasCapacity(e)' <=> HasCapacity(e)
    BY <2>1 DEF HasCapacity
  <2> QED  BY <2>1, <2>2 DEF Free
<1>7. ASSUME NEW e \in Channel, e # c, c # Root => e # Parent[c]
      PROVE  (Rested(e) => Rested(e)') /\ (Punctual(e) => Punctual(e)')
  <2>1. \A i \in queue[e] : job'[i] = job[i]
    BY <1>2, <1>7, OthersSleep
  <2>2. queue'[e] = queue[e] /\ running'[e] = running[e]
    BY <1>1, <1>4, <1>5, <1>7
  <2> QED  BY <1>2, <1>6, <1>7, <2>1, <2>2, SameCalm
<1>8. ASSUME c \notin todo'
      PROVE  Rested(c)' /\ Punctual(c)'
  <2>1. pause'[c] > now' /\ pause'[c] # 0
    BY <1>2, <1>3, <1>4, <1>8
  <2> QED  BY <2>1 DEF Rested, Punctual, Free
<1>9. \A d \in Channel \ todo' : Rested(d)' /\ Punctual(d)'
  BY <1>2, <1>3, <1>5, <1>7, <1>8 DEF WaitInv
<1>10. UpClosed'
  BY <1>2, <1>3, TurnFirst DEF WaitInv, UpClosed
<1>11. ASSUME todo' # {}, ~called', NEW e \in Channel, Asked(e)'
       PROVE  Rested(e)' /\ Punctual(e)'
  <2>1. ~called /\ todo # {}
    <3>1. CASE called' = called
      BY <1>2, <1>11, <3>1, Zenon
    <3>2. CASE called' = (called /\ todo' # {})
      BY <1>2, <1>11, <3>2, Zenon
    <3> QED  BY <1>3, <3>1, <3>2
  <2>2. PICK d \in Path[c] \ {c} : ~Free(d)
    <3>1. ~Asked(c)
      BY <1>1, <1>2, <2>1, CalmPopsNone DEF WaitInv
    <3> QED  BY <1>2, <3>1 DEF Asked
  <2>3. d \in Channel /\ ~Free(d)'
    <3>1. d \in Channel
      BY TreeAssumption
    <3> QED  BY <1>6, <2>2, <3>1
  <2>4. c \notin Path[e]
    <3>1. CASE e = c
      BY <1>11, <2>2, <2>3, <3>1 DEF Asked
    <3>2. ASSUME e # c, c \in Path[e]
          PROVE  FALSE
      BY <1>11, <2>2, <2>3, <3>2, PathOrder DEF Asked
    <3> QED  BY <3>1, <3>2
  <2>5. e # c /\ Path[e] \subseteq Channel
    BY <2>4, OwnPath, TreeAssumption
  <2>6. Asked(e)
    BY <1>6, <1>11, <2>4, <2>5 DEF Asked
  <2>7. Rested(e) /\ Punctual(e)
    BY <2>1, <2>6 DEF WaitInv
  <2>8. CASE c # Root /\ e = Parent[c]
    <3>1. d = e
      BY <1>5, <1>11, <2>2, <2>3, <2>8 DEF Asked
    <3>2. pause[e] # 0
      BY <2>2, <2>6, <3>1 DEF Asked, Free
    <3>3. pause'[e] # 0 /\ pause'[e] > now'
      BY <1>2, <1>6, <2>5, <2>7, <3>2 DEF Punctual
    <3> QED  BY <3>3 DEF Rested, Punctual, Free
  <2> QED  BY <1>7, <2>5, <2>7, <2>8
<1> QED  BY <1>9, <1>10, <1>11 DEF WaitInv

(* When run_jobs() begins for the default timeout alone, nothing is due.   *)
LEMMA RunJobsWaits ==
    ASSUME TypeOK, WaitInv, RunJobs
    PROVE  WaitInv'
<1>1. /\ todo = {} /\ todo' = Channel
      /\ called' = (called \/ \E t \in Times : t <= now)
      /\ UNCHANGED <<job, queue, running, failed, pause, now>>
  BY DEF RunJobs, placeVars
<1>2. UpClosed'
  BY <1>1, TreeAssumption DEF UpClosed
<1>3. ASSUME ~called', NEW c \in Channel, Asked(c)
      PROVE  Rested(c) /\ Punctual(c)
  <2>1. Rested(c)
    BY <1>1, <1>3 DEF WaitInv
  <2>2. pause[c] \in Nat /\ now \in Nat /\ queue[c] \subseteq Job
    BY ConfigAssumption DEF TypeOK
  <2>3. pause[c] # 0 => pause[c] \in Times
    BY <1>3 DEF Times, Asked, Free
  <2>4. \A j \in queue[c] : Free(c) /\ job[j].eta # 0 => job[j].eta \in Times
    BY <1>3 DEF Times, Asked, Free
  <2>5. \A j \in Job : job[j].eta \in Nat
    BY ConfigAssumption DEF TypeOK, Etas
  <2>6. \A t \in Times : ~(t <= now)
    BY <1>1, <1>3, Zenon
  <2>7. Punctual(c)
    BY <2>2, <2>3, <2>4, <2>5, <2>6 DEF Punctual, Asleep, Awake
  <2> QED  BY <2>1, <2>7
<1>4. ASSUME NEW c \in Channel, Asked(c)'
      PROVE  Asked(c)
  BY <1>1, <1>4 DEF Asked, Free, HasCapacity
<1>5. ASSUME NEW c \in Channel
      PROVE  (Rested(c) => Rested(c)') /\ (Punctual(c) => Punctual(c)')
  BY <1>1, SameCalm
<1> QED  BY <1>1, <1>2, <1>3, <1>4, <1>5 DEF WaitInv

LEMMA WaitStep ==
    ASSUME TypeOK, OnePlace, WaitInv, [Next]_vars
    PROVE  WaitInv'
<1>1. CASE Others \/ UNCHANGED vars
  <2>1. UNCHANGED <<job, queue, running, failed, pause, todo, called, now>>
    BY <1>1 DEF Others, vars, placeVars
  <2>2. \A c \in Channel : /\ Rested(c) => Rested(c)'
                           /\ Punctual(c) => Punctual(c)'
    BY <2>1, SameCalm
  <2>3. \A c \in Channel : Asked(c)' => Asked(c)
    BY <2>1 DEF Asked, Free, HasCapacity
  <2> QED  BY <2>1, <2>2, <2>3 DEF WaitInv, UpClosed
<1>2. CASE Tick
  <2>1. todo = {} /\ UNCHANGED <<job, queue, running, failed, pause, todo, called>>
    BY <1>2 DEF Tick, placeVars
  <2>2. \A c \in Channel : Rested(c) => Rested(c)'
    BY <2>1, SameCalm
  <2> QED  BY <2>1, <2>2 DEF WaitInv, UpClosed
<1>3. CASE Restart \/ \E j \in Job : Notified(j)
  <2>1. todo' = {} /\ called' = TRUE
    BY <1>3 DEF Restart, Notified
  <2> QED  BY <2>1 DEF WaitInv, UpClosed
<1>4. CASE RunJobs
  BY <1>4, RunJobsWaits
<1>5. CASE \E c \in Channel : Yield(c) \/ EndTurn(c)
  BY <1>5, YieldWaits, EndTurnWaits
<1> QED  BY <1>1, <1>2, <1>3, <1>4, <1>5 DEF Next

WakeInv == TypeOK /\ OnePlace /\ WaitInv

LEMMA WakeAlways == Spec => []WakeInv
<1>1. Init => WakeInv
  <2>1. Init => WaitInv
    BY DEF Init, WaitInv, UpClosed
  <2> QED  BY <2>1, TypeInit, PlaceInit DEF WakeInv
<1>2. WakeInv /\ [Next]_vars => WakeInv'
  BY TypeStep, PlaceStep, WaitStep DEF WakeInv
<1> QED  BY <1>1, <1>2, PTL DEF Spec

(* Whatever the tree and its configuration, run_jobs() leaves no capacity  *)
(* idle: a pending job that could run is handed to Odoo.                   *)
THEOREM CapacityUsed == Spec => []NoIdleCapacity
<1>1. WakeInv => NoIdleCapacity
  <2> SUFFICES ASSUME WakeInv, todo = {}, ~called, NEW j \in Job \ notifs,
                      row[j].state = "pending", job[j].eta = 0
               PROVE  \E c \in At(queue, j) :
                         \/ Capacity[c] # 0 /\ Cardinality(running[c]) >= Capacity[c]
                         \/ pause[c] # 0
                         \/ c \in Sequential /\ (failed[c] # {} \/ \E i \in queue[c] : job[i].eta # 0)
    BY DEF NoIdleCapacity
  <2>1. InQueue(j)
    BY DEF WakeInv, OnePlace, Placed
  <2>2. PICK c \in Channel : j \in queue[c] /\ c \in At(queue, j)
    BY <2>1 DEF InQueue, At
  <2>3. Rested(c)
    BY DEF WakeInv, WaitInv
  <2>4. CASE ~HasCapacity(c)
    <3>1. Cardinality(running[c]) \in Nat /\ Capacity[c] \in Nat
      BY ConfigAssumption, TreeAssumption, FS_Subset, FS_CardinalityType DEF WakeInv, TypeOK
    <3> QED  BY <2>2, <2>4, <3>1 DEF HasCapacity
  <2>5. CASE Free(c)
    <3>1. c \in Sequential /\ \E i \in queue[c] : job[i].eta # 0
      BY <2>2, <2>3, <2>5, HeldBack DEF WakeInv, Rested
    <3> QED  BY <2>2, <3>1
  <2> QED  BY <2>2, <2>4, <2>5 DEF Free
<1> QED  BY <1>1, WakeAlways, PTL

(* A job reaches Odoo only after a notification or at the wakeup time that *)
(* the runner computed: the default timeout of wait_notification() finds   *)
(* nothing to run.                                                         *)
THEOREM WakeupEnough == Spec => NoMissedWakeup
<1>1. ASSUME WakeInv, [Next]_vars, todo # {}, running'[Root] \ running[Root] # {}
      PROVE  called
  <2>1. Root \in Channel /\ Path[Root] = {Root}
    BY TreeAssumption
  <2>2. running \in [Channel -> SUBSET Job]
    BY <1>1 DEF WakeInv, TypeOK
  <2>3. CASE Restart
    BY <1>1, <2>1, <2>3, RestartWithin DEF WakeInv
  <2>4. ASSUME NEW c \in Channel, Yield(c), ~called
        PROVE  FALSE
    <3>1. c = Root /\ Popped(c) # {} /\ HasCapacity(c) /\ ~Paused(c)
      BY <1>1, <2>1, <2>2, <2>4 DEF Yield
    <3>2. Rested(c) /\ Punctual(c)
      BY <1>1, <2>1, <2>4, <3>1 DEF WakeInv, WaitInv, Asked
    <3> QED  BY <1>1, <3>1, <3>2, CalmPopsNone DEF WakeInv
  <2>5. CASE UNCHANGED running
    BY <1>1, <2>5
  <2>6. ASSUME NEW j \in Job, Notified(j) PROVE FALSE
    BY <1>1, <2>6 DEF Notified
  <2>7. CASE Others \/ Tick \/ RunJobs \/ UNCHANGED vars
    BY <2>5, <2>7 DEF Others, Tick, RunJobs, vars, placeVars
  <2>8. ASSUME NEW c \in Channel, EndTurn(c) PROVE called
    BY <2>5, <2>8 DEF EndTurn, placeVars
  <2> QED  BY <1>1, <2>3, <2>4, <2>6, <2>7, <2>8 DEF Next
<1>2. WakeInv /\ [Next]_vars =>
        [todo # {} /\ running'[Root] \ running[Root] # {} => called]_vars
  BY <1>1
<1> QED  BY <1>2, WakeAlways, PTL DEF Spec, NoMissedWakeup

(* When run_jobs() is over, the wakeup time it leaves is in the future, so *)
(* that the runner does not spin.                                          *)
THEOREM WakeupLater == Spec => WakeupAhead
<1>1. ASSUME WakeInv, [Next]_vars, todo # {}, todo' = {}
      PROVE  \A t \in Times' : t > now \/ called'
  <2>1. CASE Restart
    BY <2>1 DEF Restart
  <2>2. ASSUME NEW c \in Channel, Yield(c) \/ EndTurn(c)
        PROVE  \A t \in Times' : t > now
    <3>1. now' = now /\ \A d \in Channel : Punctual(d)'
      <4>1. \A d \in Channel \ todo' : Punctual(d)'
        BY <1>1, <2>2, YieldWaits, EndTurnWaits DEF WakeInv
      <4> QED  BY <1>1, <2>2, <4>1 DEF Yield, EndTurn
    <3>2. \A d \in Channel : pause'[d] # 0 => pause'[d] > now
      BY <3>1 DEF Punctual
    <3>3. \A d \in Channel : HasCapacity(d)' /\ pause'[d] = 0 =>
             \A j \in queue'[d] : job'[j].eta # 0 => job'[j].eta > now
      BY <3>1 DEF Punctual, Free, Asleep, Awake
    <3> QED  BY <3>2, <3>3 DEF Times
  <2>3. CASE Others \/ Tick \/ RunJobs \/ UNCHANGED vars
    <3>1. CASE RunJobs
      BY <1>1, <3>1 DEF RunJobs
    <3>2. CASE Others \/ Tick \/ UNCHANGED vars
      BY <1>1, <3>2 DEF Others, Tick, vars
    <3> QED  BY <2>3, <3>1, <3>2
  <2>4. ASSUME NEW j \in Job, Notified(j) PROVE FALSE
    BY <1>1, <2>4 DEF Notified
  <2> QED  BY <1>1, <2>1, <2>2, <2>3, <2>4 DEF Next
<1>2. WakeInv /\ [Next]_vars =>
        [todo # {} /\ todo' = {} => \A t \in Times' : t > now \/ called']_vars
  BY <1>1
<1> QED  BY <1>2, WakeAlways, PTL DEF Spec, WakeupAhead
=============================================================================
