--------------------------- MODULE ThreadPoolProofs ---------------------------
(***************************************************************************)
(* Proofs about ThreadPool, for every number of workers, clients and       *)
(* tasks.                                                                  *)
(***************************************************************************)
EXTENDS ThreadPool, SequenceTheorems, TLAPS

\* An actor that may call the pool stands for a thread.
LEMMA ActorTypes ==
  /\ Callers \subseteq Actors
  /\ AllWorkers \subseteq Actors
  /\ Owner \in Callers
BY DEF Actors, Callers

\* Workers are among the threads of the model.
LEMMA WorkerTypes ==
  ASSUME TypeOK
  PROVE  /\ size \in Nat
         /\ Workers \subseteq AllWorkers
BY PoolAssumption DEF TypeOK, Workers, AllWorkers

Statuses == {"new", "queued", "running", "done", "failed", "refused"}

\* Pushing a task on the stack of the calling thread keeps the stacks' type.
LEMMA RunHereTypes ==
  ASSUME stack \in [Actors -> Seq(Tasks)],
         NEW a \in Actors, NEW t \in Tasks
  PROVE  [stack EXCEPT ![a] = <<t>> \o @] \in [Actors -> Seq(Tasks)]
<1>1. <<t>> \o stack[a] \in Seq(Tasks)
  <2>1. <<t>> \in Seq(Tasks) /\ stack[a] \in Seq(Tasks)
    OBVIOUS
  <2>2. QED
    BY <2>1
<1>2. QED
  BY <1>1

\* Recording a task keeps the type of the records.
LEMMA RecordHereTypes ==
  ASSUME dispatched \in Seq(Tasks), started \in Seq(Tasks),
         NEW o \in Objects, NEW t \in Tasks, RecordHere(o, t)
  PROVE  dispatched' \in Seq(Tasks) /\ started' \in Seq(Tasks)
<1>1. CASE o = holder
  <2>1. dispatched' = Append(dispatched, t) /\ started' = Append(started, t)
    BY <1>1 DEF RecordHere
  <2>2. QED
    BY <2>1
<1>2. CASE o # holder
  BY <1>2 DEF RecordHere
<1>3. QED
  BY <1>1, <1>2

\* Every variable keeps its type.
THEOREM TypeCorrect == Spec => []TypeOK
<1>1. Init => TypeOK
  BY PoolAssumption DEF Init, TypeOK
<1>2. TypeOK /\ [Next]_vars => TypeOK'
  <2> SUFFICES ASSUME TypeOK, [Next]_vars PROVE TypeOK'
    OBVIOUS
  <2> USE DEF TypeOK, poolVars, taskVars, Workers
  <2>a. size \in Nat /\ Workers \subseteq AllWorkers
    BY WorkerTypes
  <2>1. ASSUME NEW a \in Actors, NEW o \in Objects, NEW t \in Tasks,
               dispatch(a, o, t)
        PROVE  TypeOK'
    <3>1. CASE Enqueue(o, t) /\ UNCHANGED <<stack, started>>
      BY <2>1, <3>1 DEF dispatch, Enqueue
    <3>2. CASE RunHere(a, o, t) /\ RecordHere(o, t) /\ UNCHANGED queue
      <4>1. stack' \in [Actors -> Seq(Tasks)]
        BY <3>2, RunHereTypes DEF RunHere
      <4>2. dispatched' \in Seq(Tasks) /\ started' \in Seq(Tasks)
        BY <3>2, RecordHereTypes
      <4>3. status' \in [Tasks -> Statuses]
        BY <3>2 DEF RunHere, Statuses
      <4>4. QED
        BY <2>1, <3>2, <4>1, <4>2, <4>3 DEF dispatch, Statuses
    <3>3. QED
      BY <2>1, <3>1, <3>2 DEF dispatch
  <2>2. ASSUME NEW a \in Actors, NEW o \in Objects, NEW t \in Tasks,
               dispatch_throws(a, o, t)
        PROVE  TypeOK'
    BY <2>2 DEF dispatch_throws
  <2>3. ASSUME NEW a \in Actors, NEW o \in Objects, NEW t \in Tasks,
               dispatch_returning(a, o, t)
        PROVE  TypeOK'
    <3>1. CASE /\ Enqueue(o, t)
               /\ wait' = [wait EXCEPT ![a] = t]
               /\ wrapped' = wrapped \cup {t}
               /\ UNCHANGED <<stack, started>>
      BY <2>3, <3>1 DEF dispatch_returning, Enqueue
    <3>2. CASE /\ RunHere(a, o, t)
               /\ RecordHere(o, t)
               /\ UNCHANGED <<queue, wait, wrapped>>
      <4>1. stack' \in [Actors -> Seq(Tasks)]
        BY <3>2, RunHereTypes DEF RunHere
      <4>2. dispatched' \in Seq(Tasks) /\ started' \in Seq(Tasks)
        BY <3>2, RecordHereTypes
      <4>3. status' \in [Tasks -> Statuses]
        BY <3>2 DEF RunHere, Statuses
      <4>4. QED
        BY <2>3, <3>2, <4>1, <4>2, <4>3 DEF dispatch_returning, Statuses
    <3>3. QED
      BY <2>3, <3>1, <3>2 DEF dispatch_returning
  <2>4. ASSUME NEW a \in Actors, WaitReturns(a) PROVE TypeOK'
    BY <2>4 DEF WaitReturns
  <2>5. ASSUME NEW a \in Actors, TaskEnds(a) PROVE TypeOK'
    BY <2>5 DEF TaskEnds
  <2>6. ASSUME NEW w \in AllWorkers, WorkerPops(w) PROVE TypeOK'
    BY <2>6, ActorTypes DEF WorkerPops
  <2>7. ASSUME NEW w \in AllWorkers, WorkerExits(w) PROVE TypeOK'
    BY <2>7 DEF WorkerExits, Workers
  <2>8. ASSUME NEW o \in Objects, Move(o) PROVE TypeOK'
    BY <2>8 DEF Move
  <2>9. ASSUME NEW o \in Objects, DestroyMovedFrom(o) PROVE TypeOK'
    BY <2>9 DEF DestroyMovedFrom
  <2>10. ASSUME DestructorBegins PROVE TypeOK'
    BY <2>10 DEF DestructorBegins
  <2>11. ASSUME DestructorPushes PROVE TypeOK'
    <3>1. CASE eofs < size
      <4>1. eofs' \in 0..size /\ size' = size /\ phase' = phase
        BY <2>11, <3>1, <2>a DEF DestructorPushes
      <4>2. queue' \in Seq(Tasks \cup {NoTask})
        <5>1. queue' = Append(queue, NoTask)
          BY <2>11, <3>1, <2>a DEF DestructorPushes
        <5>2. QED
          BY <5>1
      <4>3. QED
        BY <2>11, <4>1, <4>2 DEF DestructorPushes
    <3>2. CASE ~(eofs < size)
      BY <2>11, <3>2 DEF DestructorPushes
    <3>3. QED
      BY <3>1, <3>2
  <2>12. ASSUME DestructorJoins PROVE TypeOK'
    <3>1. CASE joined < size
      <4>1. joined' \in 0..size /\ size' = size
        BY <2>12, <3>1, <2>a DEF DestructorJoins
      <4>2. UNCHANGED <<queue, phase, alive, holder>>
        BY <2>12, <3>1, <2>a DEF DestructorJoins
      <4>3. QED
        BY <2>12, <4>1, <4>2 DEF DestructorJoins
    <3>2. CASE ~(joined < size)
      <4>1. alive' \in SUBSET Objects
        BY <2>12, <3>2 DEF DestructorJoins
      <4>2. /\ phase' = "gone" /\ queue' = <<>> /\ holder' = NoObject
            /\ joined' = joined
        BY <2>12, <3>2 DEF DestructorJoins
      <4>3. queue' \in Seq(Tasks \cup {NoTask})
        BY <4>2
      <4>4. QED
        BY <2>12, <4>1, <4>2, <4>3 DEF DestructorJoins
    <3>3. QED
      BY <3>1, <3>2
  <2>13. CASE UNCHANGED vars
    BY <2>13 DEF vars, Workers
  <2>14. QED
    BY <2>1, <2>2, <2>3, <2>4, <2>5, <2>6, <2>7, <2>8, <2>9, <2>10, <2>11,
       <2>12, <2>13
       DEF Next, CallerStep, ActorStep, WorkerStep, OwnerStep, Finished
<1>3. QED
  BY <1>1, <1>2, PTL DEF Spec

-----------------------------------------------------------------------------
(* Where the tasks are *)

\* A task is in the queue once while it is queued, and nowhere else in it; the
\* destruction of the queue loses what is left in it.
QueueInv ==
  /\ \A i \in 1..Len(queue) : queue[i] # NoTask => status[queue[i]] = "queued"
  /\ \A i, j \in 1..Len(queue) : queue[i] # NoTask /\ queue[i] = queue[j] => i = j
  /\ phase # "gone" => \A t \in Tasks : status[t] = "queued" =>
                         \E i \in 1..Len(queue) : queue[i] = t

\* A task is on one stack, once, while it is running.
StackInv ==
  /\ \A a \in Actors : \A k \in 1..Len(stack[a]) : status[stack[a][k]] = "running"
  /\ \A a, b \in Actors : \A k \in 1..Len(stack[a]), l \in 1..Len(stack[b]) :
       stack[a][k] = stack[b][l] => a = b /\ k = l
  /\ \A t \in Tasks : status[t] = "running" =>
       \E a \in Actors : \E k \in 1..Len(stack[a]) : stack[a][k] = t

\* ReferenceAlive, and a wrapped task has been dispatched.
WrappedInv == /\ \A t \in wrapped : status[t] # "new"
              /\ ReferenceAlive

\* The life of the pool and of its threads: exited workers do nothing, no
\* caller is inside the pool once its destructor has begun, and that one joins
\* only workers that have exited.
LifeInv ==
  /\ phase = "gone" => holder = NoObject /\ queue = <<>> /\ exited = Workers
  /\ size = 0 => queue = <<>>
  /\ \A w \in exited : stack[w] = <<>>
  /\ \A w \in AllWorkers \ Workers : stack[w] = <<>>
  /\ phase # "open" => \A c \in Callers : Idle(c)
  /\ \A w \in 1..joined : w \in exited

\* What has begun is the beginning of what was accepted (Prefix); the rest is
\* in the queue (Waiting), and nothing else is (Accepted), in the order of
\* acceptance (Ordered), end tokens between them or not.
Known == \A k \in 1..Len(dispatched) : status[dispatched[k]] # "new"
Once == \A k, l \in 1..Len(dispatched) : dispatched[k] = dispatched[l] => k = l
Prefix == /\ Len(started) <= Len(dispatched)
          /\ \A k \in 1..Len(started) : started[k] = dispatched[k]
Waiting == phase # "gone" => \A k \in Len(started) + 1..Len(dispatched) :
                               \E i \in 1..Len(queue) : queue[i] = dispatched[k]
Accepted == \A i \in 1..Len(queue) : queue[i] # NoTask =>
              \E k \in Len(started) + 1..Len(dispatched) : dispatched[k] = queue[i]
Ordered == \A i, j \in 1..Len(queue) : \A k, l \in 1..Len(dispatched) :
             i < j /\ queue[i] = dispatched[k] /\ queue[j] = dispatched[l] => k < l
OrderInv == Known /\ Once /\ Prefix /\ Waiting /\ Accepted /\ Ordered

\* A single worker has at most the task that began last at the bottom of its
\* stack, whatever it executes on top of it for moved-from objects.
SingleInv ==
  size = 1 => \A i \in 1..Len(started) :
    \/ status[started[i]] \in {"done", "failed"}
    \/ /\ i = Len(started)
       /\ stack[1] # <<>>
       /\ stack[1][Len(stack[1])] = started[i]

\* Without late tasks the end tokens are behind all tasks: a worker that has
\* exited has left no task.
EndInv ==
  /\ phase = "open" => \A i \in 1..Len(queue) : queue[i] # NoTask
  /\ \A i, j \in 1..Len(queue) : i < j /\ queue[i] = NoTask => queue[j] = NoTask
  /\ exited # {} => /\ phase # "open"
                    /\ \A i \in 1..Len(queue) : queue[i] = NoTask
  /\ phase = "gone" => /\ Len(started) = Len(dispatched)
                       /\ \A t \in Tasks : status[t] \in Over

-----------------------------------------------------------------------------
(* Steps *)

\* t is accepted by the pool that o holds and put into the queue; a does not
\* wait for it, or waits.
Accepts(a, o, t) ==
  /\ MayDispatch(a) /\ status[t] = "new" /\ o \in alive /\ o = holder
  /\ Enqueue(o, t)
  /\ UNCHANGED <<stack, started, size, holder, alive, phase, eofs, joined, exited>>
  /\ \/ UNCHANGED <<wait, wrapped>>
     \/ wait' = [wait EXCEPT ![a] = t] /\ wrapped' = wrapped \cup {t}

\* a executes t itself.
Executes(a, o, t) ==
  /\ MayDispatch(a) /\ status[t] = "new" /\ o \in alive
  /\ RunHere(a, o, t) /\ RecordHere(o, t)
  /\ UNCHANGED <<queue, wait, wrapped, size, holder, alive, phase, eofs, joined, exited>>

\* What a step is: dispatch() and dispatch_returning() do the same but for the
\* waiting.
LEMMA Steps ==
  ASSUME TypeOK, [Next]_vars
  PROVE  \/ \E a \in Actors, o \in Objects, t \in Tasks :
              Accepts(a, o, t) \/ Executes(a, o, t) \/ dispatch_throws(a, o, t)
         \/ \E a \in Actors : WaitReturns(a) \/ TaskEnds(a)
         \/ \E w \in AllWorkers : WorkerPops(w) \/ WorkerExits(w)
         \/ \E o \in Objects : Move(o) \/ DestroyMovedFrom(o)
         \/ DestructorBegins \/ DestructorPushes \/ DestructorJoins
         \/ UNCHANGED vars
<1>1. ASSUME NEW a \in Actors, NEW o \in Objects, NEW t \in Tasks, dispatch(a, o, t)
      PROVE  Accepts(a, o, t) \/ Executes(a, o, t)
  BY <1>1 DEF dispatch, Accepts, Executes
<1>2. ASSUME NEW a \in Actors, NEW o \in Objects, NEW t \in Tasks,
             dispatch_returning(a, o, t)
      PROVE  Accepts(a, o, t) \/ Executes(a, o, t)
  <2>1. num_workers(o) > 0 => o = holder
    BY DEF num_workers
  <2>2. QED
    BY <1>2, <2>1 DEF dispatch_returning, Accepts, Executes, Enqueue
<1>3. QED
  BY <1>1, <1>2 DEF Next, CallerStep, ActorStep, WorkerStep, OwnerStep, Finished

\* The life of the pool and of its threads is in order.
THEOREM LifeCorrect == Spec => []LifeInv
<1>1. Init => LifeInv
  <2> SUFFICES ASSUME Init PROVE LifeInv
    OBVIOUS
  <2>1. \A w \in AllWorkers : w \in Actors
    BY DEF Actors
  <2>2. QED
    BY <2>1, PoolAssumption DEF Init, LifeInv, Workers
<1>2. TypeOK /\ TypeOK' /\ LifeInv /\ [Next]_vars => LifeInv'
  <2> SUFFICES ASSUME TypeOK, TypeOK', LifeInv, [Next]_vars PROVE LifeInv'
    OBVIOUS
  <2> USE DEF LifeInv, Idle, Workers
  <2>a. /\ size \in Nat /\ AllWorkers \subseteq Actors /\ Callers \subseteq Actors
        /\ exited \subseteq AllWorkers /\ Callers \cap AllWorkers = {}
        /\ Workers \subseteq AllWorkers /\ Owner \in Callers
    BY WorkerTypes, ActorTypes, PoolAssumption DEF TypeOK
  <2>b. stack \in [Actors -> Seq(Tasks)] /\ wait \in [Actors -> Tasks \cup {NoTask}]
    BY DEF TypeOK
  <2>c. NoObject \notin Objects
    BY PoolAssumption
  <2>1. ASSUME NEW a \in Actors, NEW o \in Objects, NEW t \in Tasks, Accepts(a, o, t)
        PROVE  LifeInv'
    <3>1. phase # "gone" /\ size > 0
      BY <2>1, <2>c DEF Accepts, Enqueue, num_workers
    <3>2. a \in Callers => phase = "open"
      BY <2>1, <2>a DEF Accepts, MayDispatch
    <3>3. QED
      BY <2>1, <2>a, <2>b, <3>1, <3>2 DEF Accepts
  <2>2. ASSUME NEW a \in Actors, NEW o \in Objects, NEW t \in Tasks, Executes(a, o, t)
        PROVE  LifeInv'
    <3>1. a \in AllWorkers => stack[a] # <<>>
      BY <2>2 DEF Executes, MayDispatch, Running
    <3>2. a \in Callers => phase = "open"
      BY <2>2, <2>a DEF Executes, MayDispatch
    <3>3. \A b \in Actors : b # a => stack'[b] = stack[b]
      BY <2>2, <2>b DEF Executes, RunHere
    <3>4. QED
      BY <2>2, <2>a, <2>b, <3>1, <3>2, <3>3 DEF Executes
  <2>3. ASSUME NEW a \in Actors, NEW o \in Objects, NEW t \in Tasks,
               dispatch_throws(a, o, t)
        PROVE  LifeInv'
    BY <2>3 DEF dispatch_throws, poolVars
  <2>4. ASSUME NEW a \in Actors, WaitReturns(a) PROVE LifeInv'
    BY <2>4, <2>a, <2>b DEF WaitReturns, poolVars
  <2>5. ASSUME NEW a \in Actors, TaskEnds(a) PROVE LifeInv'
    <3>1. \A b \in Actors : stack[b] = <<>> => stack'[b] = stack[b]
      BY <2>5, <2>b DEF TaskEnds
    <3>2. QED
      BY <2>5, <2>a, <3>1 DEF TaskEnds, poolVars
  <2>6. ASSUME NEW w \in AllWorkers, WorkerPops(w) PROVE LifeInv'
    <3>1. \A b \in Actors : b # w => stack'[b] = stack[b]
      BY <2>6, <2>b DEF WorkerPops
    <3>2. phase # "gone" /\ size # 0
      BY <2>6 DEF WorkerPops
    <3>3. QED
      BY <2>6, <2>a, <3>1, <3>2 DEF WorkerPops
  <2>7. ASSUME NEW w \in AllWorkers, WorkerExits(w) PROVE LifeInv'
    BY <2>7, <2>a DEF WorkerExits, taskVars
  <2>8. ASSUME NEW o \in Objects, Move(o) PROVE LifeInv'
    BY <2>8 DEF Move, taskVars
  <2>9. ASSUME NEW o \in Objects, DestroyMovedFrom(o) PROVE LifeInv'
    BY <2>9 DEF DestroyMovedFrom, taskVars
  <2>10. ASSUME DestructorBegins PROVE LifeInv'
    BY <2>10 DEF DestructorBegins, taskVars
  <2>11. ASSUME DestructorPushes PROVE LifeInv'
    BY <2>11, <2>a DEF DestructorPushes, taskVars, TypeOK
  <2>12. ASSUME DestructorJoins PROVE LifeInv'
    <3>1. CASE joined < size
      BY <2>12, <2>a, <3>1 DEF DestructorJoins, taskVars, TypeOK
    <3>2. CASE ~(joined < size)
      <4>1. exited = Workers
        BY <2>12, <3>2, <2>a DEF DestructorJoins, TypeOK
      <4>2. QED
        BY <2>12, <3>2, <4>1, <2>a DEF DestructorJoins, taskVars, TypeOK
    <3>3. QED
      BY <3>1, <3>2
  <2>13. CASE UNCHANGED vars
    BY <2>13 DEF vars, poolVars, taskVars
  <2>14. QED
    BY <2>1, <2>2, <2>3, <2>4, <2>5, <2>6, <2>7, <2>8, <2>9, <2>10, <2>11,
       <2>12, <2>13, Steps
<1>3. QED
  BY <1>1, <1>2, TypeCorrect, PTL DEF Spec

-----------------------------------------------------------------------------
(* A task is where its status says *)

\* A task is put at the end of the queue.
LEMMA QueueGrows ==
  ASSUME TypeOK, QueueInv, NEW t \in Tasks, status[t] = "new", phase' = phase,
         queue' = Append(queue, t), status' = [status EXCEPT ![t] = "queued"]
  PROVE  QueueInv'
<1>1. NoTask \notin Tasks /\ queue \in Seq(Tasks \cup {NoTask})
  BY PoolAssumption DEF TypeOK
<1>2. \A u \in Tasks : status'[u] = IF u = t THEN "queued" ELSE status[u]
  BY DEF TypeOK
<1>3. /\ Len(queue') = Len(queue) + 1
      /\ \A i \in 1..Len(queue) : queue'[i] = queue[i] /\ queue[i] \in Tasks \cup {NoTask}
      /\ queue'[Len(queue) + 1] = t
  BY <1>1
<1>4. \A i \in 1..Len(queue) : queue[i] # t
  BY <1>1, <1>3 DEF QueueInv
<1>5. \A i \in 1..Len(queue') : queue'[i] # NoTask => status'[queue'[i]] = "queued"
  BY <1>1, <1>2, <1>3, <1>4 DEF QueueInv
<1>6. \A i, j \in 1..Len(queue') : queue'[i] # NoTask /\ queue'[i] = queue'[j] => i = j
  BY <1>1, <1>3, <1>4 DEF QueueInv
<1>7. phase # "gone" => \A u \in Tasks : status'[u] = "queued" =>
                          \E i \in 1..Len(queue') : queue'[i] = u
  BY <1>1, <1>2, <1>3 DEF QueueInv
<1>8. QED
  BY <1>5, <1>6, <1>7 DEF QueueInv

\* The statuses of tasks that are not queued change among the other ones.
LEMMA QueueKept ==
  ASSUME TypeOK, QueueInv, NEW t \in Tasks, NEW s \in Statuses \ {"queued"},
         status[t] # "queued", phase' = phase, queue' = queue,
         status' = [status EXCEPT ![t] = s]
  PROVE  QueueInv'
<1>1. NoTask \notin Tasks /\ queue \in Seq(Tasks \cup {NoTask})
  BY PoolAssumption DEF TypeOK
<1>2. \A u \in Tasks : status'[u] = IF u = t THEN s ELSE status[u]
  BY DEF TypeOK
<1>3. \A i \in 1..Len(queue) : queue[i] \in Tasks \cup {NoTask} /\ queue[i] # t
  BY <1>1 DEF QueueInv
<1>4. QED
  BY <1>1, <1>2, <1>3 DEF QueueInv

\* The first element is taken from the queue.
LEMMA QueueShrinks ==
  ASSUME TypeOK, QueueInv, queue # <<>>, phase' = phase, queue' = Tail(queue),
         \/ Head(queue) = NoTask /\ status' = status
         \/ Head(queue) # NoTask /\ status' = [status EXCEPT ![Head(queue)] = "running"]
  PROVE  QueueInv'
<1>1. NoTask \notin Tasks /\ queue \in Seq(Tasks \cup {NoTask})
  BY PoolAssumption DEF TypeOK
<1>2. /\ Len(queue) > 0 /\ Len(queue') = Len(queue) - 1
      /\ Head(queue) = queue[1]
      /\ \A i \in 1..Len(queue') : queue'[i] = queue[i + 1]
      /\ \A i \in 1..Len(queue) : queue[i] \in Tasks \cup {NoTask}
  BY <1>1
<1>3. \A u \in Tasks : status'[u] = IF u = queue[1] THEN "running" ELSE status[u]
  BY <1>1, <1>2 DEF TypeOK
<1>4. \A i \in 1..Len(queue') : queue'[i] # NoTask =>
        status'[queue'[i]] = "queued" /\ queue'[i] # queue[1]
  BY <1>1, <1>2, <1>3 DEF QueueInv
<1>5. \A i, j \in 1..Len(queue') : queue'[i] # NoTask /\ queue'[i] = queue'[j] => i = j
  BY <1>1, <1>2 DEF QueueInv
<1>6. ASSUME phase # "gone", NEW u \in Tasks, status'[u] = "queued"
      PROVE  \E i \in 1..Len(queue') : queue'[i] = u
  <2>1. status[u] = "queued" /\ u # queue[1]
    BY <1>3, <1>6
  <2>2. PICK i \in 1..Len(queue) : queue[i] = u
    BY <1>6, <2>1 DEF QueueInv
  <2>3. i - 1 \in 1..Len(queue') /\ queue'[i - 1] = u
    BY <1>2, <2>1, <2>2
  <2>4. QED
    BY <2>3
<1>7. QED
  BY <1>4, <1>5, <1>6 DEF QueueInv

\* A task that was not running is put on top of a stack.
LEMMA StackGrows ==
  ASSUME TypeOK, StackInv, NEW a \in Actors, NEW t \in Tasks, status[t] # "running",
         stack' = [stack EXCEPT ![a] = <<t>> \o @],
         status' = [status EXCEPT ![t] = "running"]
  PROVE  StackInv'
<1>1. stack \in [Actors -> Seq(Tasks)]
  BY DEF TypeOK
<1>2. \A u \in Tasks : status'[u] = IF u = t THEN "running" ELSE status[u]
  BY DEF TypeOK
<1>3. /\ Len(stack'[a]) = Len(stack[a]) + 1
      /\ stack'[a][1] = t
      /\ \A k \in 2..Len(stack'[a]) : stack'[a][k] = stack[a][k - 1]
      /\ \A k \in 1..Len(stack[a]) : stack'[a][k + 1] = stack[a][k]
  <2>1. stack'[a] = <<t>> \o stack[a] /\ stack[a] \in Seq(Tasks) /\ <<t>> \in Seq(Tasks)
    BY <1>1
  <2>2. QED
    BY <2>1
<1>4. \A b \in Actors : b # a => stack'[b] = stack[b]
  BY <1>1
<1>5. \A b \in Actors : \A k \in 1..Len(stack[b]) :
        stack[b][k] \in Tasks /\ stack[b][k] # t
  BY <1>1 DEF StackInv
<1>6. \A b \in Actors : Len(stack[b]) \in Nat
  BY <1>1
<1>7. \A b \in Actors : \A k \in 1..Len(stack'[b]) :
        \/ b = a /\ k = 1 /\ stack'[b][k] = t
        \/ b = a /\ k - 1 \in 1..Len(stack[b]) /\ stack'[b][k] = stack[b][k - 1]
        \/ b # a /\ k \in 1..Len(stack[b]) /\ stack'[b][k] = stack[b][k]
  BY <1>3, <1>4, <1>6
<1>8. \A b \in Actors : \A k \in 1..Len(stack'[b]) : status'[stack'[b][k]] = "running"
  BY <1>2, <1>5, <1>7 DEF StackInv
<1>9. ASSUME NEW b \in Actors, NEW c \in Actors,
             NEW k \in 1..Len(stack'[b]), NEW l \in 1..Len(stack'[c]),
             stack'[b][k] = stack'[c][l]
      PROVE  b = c /\ k = l
  <2>1. CASE stack'[b][k] = t
    BY <1>5, <1>7, <1>9, <2>1
  <2>2. CASE stack'[b][k] # t
    <3>1. \/ b = a /\ k - 1 \in 1..Len(stack[b]) /\ stack'[b][k] = stack[b][k - 1]
          \/ b # a /\ k \in 1..Len(stack[b]) /\ stack'[b][k] = stack[b][k]
      BY <1>7, <2>2
    <3>2. \/ c = a /\ l - 1 \in 1..Len(stack[c]) /\ stack'[c][l] = stack[c][l - 1]
          \/ c # a /\ l \in 1..Len(stack[c]) /\ stack'[c][l] = stack[c][l]
      BY <1>7, <1>9, <2>2
    <3>3. QED
      BY <1>9, <3>1, <3>2 DEF StackInv
  <2>3. QED
    BY <2>1, <2>2
<1>10. ASSUME NEW u \in Tasks, status'[u] = "running"
       PROVE  \E b \in Actors : \E k \in 1..Len(stack'[b]) : stack'[b][k] = u
  <2>1. CASE u = t
    BY <1>3, <1>6, <2>1
  <2>2. CASE u # t
    <3>1. PICK b \in Actors : \E k \in 1..Len(stack[b]) : stack[b][k] = u
      BY <1>2, <1>10, <2>2 DEF StackInv
    <3>2. PICK k \in 1..Len(stack[b]) : stack[b][k] = u
      BY <3>1
    <3>3. CASE b = a
      <4>1. k + 1 \in 1..Len(stack'[b]) /\ stack'[b][k + 1] = u
        BY <1>3, <1>6, <3>2, <3>3
      <4>2. QED
        BY <4>1
    <3>4. CASE b # a
      BY <1>4, <3>2, <3>4
    <3>5. QED
      BY <3>3, <3>4
  <2>3. QED
    BY <2>1, <2>2
<1>11. QED
  BY <1>8, <1>9, <1>10 DEF StackInv

\* The task on top of a stack has ended.
LEMMA StackShrinks ==
  ASSUME TypeOK, StackInv, NEW a \in Actors, stack[a] # <<>>,
         NEW s \in Statuses \ {"running"},
         stack' = [stack EXCEPT ![a] = Tail(@)],
         status' = [status EXCEPT ![Head(stack[a])] = s]
  PROVE  StackInv'
<1>1. stack \in [Actors -> Seq(Tasks)]
  BY DEF TypeOK
<1> DEFINE t == Head(stack[a])
<1>2. /\ Len(stack[a]) > 0 /\ t = stack[a][1] /\ t \in Tasks
      /\ Len(stack'[a]) = Len(stack[a]) - 1
      /\ \A k \in 1..Len(stack'[a]) : stack'[a][k] = stack[a][k + 1]
  BY <1>1
<1>3. \A u \in Tasks : status'[u] = IF u = t THEN s ELSE status[u]
  BY <1>2 DEF TypeOK
<1>4. \A b \in Actors : b # a => stack'[b] = stack[b]
  BY <1>1
<1>5. \A b \in Actors : Len(stack[b]) \in Nat
  BY <1>1
<1> HIDE DEF t
<1>6. \A b \in Actors : \A k \in 1..Len(stack'[b]) :
        \/ b = a /\ k + 1 \in 1..Len(stack[b]) /\ stack'[b][k] = stack[b][k + 1]
        \/ b # a /\ k \in 1..Len(stack[b]) /\ stack'[b][k] = stack[b][k]
  BY <1>2, <1>4, <1>5
<1>7. \A b \in Actors : \A k \in 1..Len(stack'[b]) :
        stack'[b][k] \in Tasks /\ stack'[b][k] # t
  <2>1. 1 \in 1..Len(stack[a])
    BY <1>2, <1>5
  <2>2. \A b \in Actors : \A k \in 1..Len(stack[b]) : stack[b][k] \in Tasks
    BY <1>1
  <2>3. QED
    BY <1>2, <1>6, <2>1, <2>2 DEF StackInv
<1>8. \A b \in Actors : \A k \in 1..Len(stack'[b]) : status'[stack'[b][k]] = "running"
  BY <1>3, <1>6, <1>7 DEF StackInv
<1>9. ASSUME NEW b \in Actors, NEW c \in Actors,
             NEW k \in 1..Len(stack'[b]), NEW l \in 1..Len(stack'[c]),
             stack'[b][k] = stack'[c][l]
      PROVE  b = c /\ k = l
  BY <1>6, <1>9 DEF StackInv
<1>10. ASSUME NEW u \in Tasks, status'[u] = "running"
       PROVE  \E b \in Actors : \E k \in 1..Len(stack'[b]) : stack'[b][k] = u
  <2>1. u # t /\ status[u] = "running"
    BY <1>3, <1>10
  <2>2. PICK b \in Actors : \E k \in 1..Len(stack[b]) : stack[b][k] = u
    BY <2>1 DEF StackInv
  <2>3. PICK k \in 1..Len(stack[b]) : stack[b][k] = u
    BY <2>2
  <2>4. CASE b = a
    <3>1. k - 1 \in 1..Len(stack'[b]) /\ stack'[b][k - 1] = u
      BY <1>2, <1>5, <2>1, <2>3, <2>4
    <3>2. QED
      BY <3>1
  <2>5. CASE b # a
    BY <1>4, <2>3, <2>5
  <2>6. QED
    BY <2>4, <2>5
<1>11. QED
  BY <1>8, <1>9, <1>10 DEF StackInv

\* The status of a task that is not running changes to another such status.
LEMMA StackKept ==
  ASSUME TypeOK, StackInv, NEW t \in Tasks, status[t] # "running",
         NEW s \in Statuses \ {"running"}, stack' = stack,
         status' = [status EXCEPT ![t] = s]
  PROVE  StackInv'
<1>1. stack \in [Actors -> Seq(Tasks)]
  BY DEF TypeOK
<1>2. \A u \in Tasks : status'[u] = IF u = t THEN s ELSE status[u]
  BY DEF TypeOK
<1>3. \A b \in Actors : \A k \in 1..Len(stack[b]) : stack[b][k] \in Tasks /\ stack[b][k] # t
  BY <1>1 DEF StackInv
<1>4. QED
  BY <1>2, <1>3 DEF StackInv

\* Tasks are in the queue, or on a stack, exactly while they are queued or
\* running, and in one place only.
THEOREM TasksInPlace == Spec => [](QueueInv /\ StackInv)
<1>1. Init => QueueInv /\ StackInv
  <2> SUFFICES ASSUME Init PROVE QueueInv /\ StackInv
    OBVIOUS
  <2>1. Len(queue) = 0 /\ \A a \in Actors : Len(stack[a]) = 0
    BY DEF Init
  <2>2. \A t \in Tasks : status[t] = "new"
    BY DEF Init
  <2>3. QED
    BY <2>1, <2>2 DEF QueueInv, StackInv
<1>2. /\ TypeOK /\ LifeInv /\ QueueInv /\ StackInv
      /\ [Next]_vars
      => QueueInv' /\ StackInv'
  <2> SUFFICES ASSUME TypeOK, LifeInv, QueueInv, StackInv, [Next]_vars
               PROVE  QueueInv' /\ StackInv'
    OBVIOUS
  <2>1. ASSUME NEW a \in Actors, NEW o \in Objects, NEW t \in Tasks, Accepts(a, o, t)
        PROVE  QueueInv' /\ StackInv'
    <3>1. QueueInv'
      BY <2>1, QueueGrows DEF Accepts, Enqueue
    <3>2. StackInv'
      BY <2>1, StackKept DEF Accepts, Enqueue, Statuses
    <3>3. QED
      BY <3>1, <3>2
  <2>2. ASSUME NEW a \in Actors, NEW o \in Objects, NEW t \in Tasks, Executes(a, o, t)
        PROVE  QueueInv' /\ StackInv'
    <3>1. QueueInv'
      BY <2>2, QueueKept DEF Executes, RunHere, Statuses
    <3>2. StackInv'
      BY <2>2, StackGrows DEF Executes, RunHere
    <3>3. QED
      BY <3>1, <3>2
  <2>3. ASSUME NEW a \in Actors, NEW o \in Objects, NEW t \in Tasks,
               dispatch_throws(a, o, t)
        PROVE  QueueInv' /\ StackInv'
    <3>1. QueueInv'
      BY <2>3, QueueKept DEF dispatch_throws, poolVars, Statuses
    <3>2. StackInv'
      BY <2>3, StackKept DEF dispatch_throws, poolVars, Statuses
    <3>3. QED
      BY <3>1, <3>2
  <2>4. ASSUME NEW a \in Actors, WaitReturns(a) PROVE QueueInv' /\ StackInv'
    BY <2>4 DEF WaitReturns, poolVars, QueueInv, StackInv
  <2>5. ASSUME NEW a \in Actors, TaskEnds(a) PROVE QueueInv' /\ StackInv'
    <3>1. PICK s \in {"done", "failed"} : status' = [status EXCEPT ![Head(stack[a])] = s]
      BY <2>5 DEF TaskEnds
    <3>2. Head(stack[a]) \in Tasks /\ status[Head(stack[a])] = "running"
      <4>1. stack[a] \in Seq(Tasks) /\ stack[a] # <<>>
        BY <2>5 DEF TaskEnds, TypeOK
      <4>2. 1 \in 1..Len(stack[a]) /\ Head(stack[a]) = stack[a][1]
        BY <4>1
      <4>3. QED
        BY <4>1, <4>2 DEF StackInv
    <3>3. QueueInv'
      BY <2>5, <3>1, <3>2, QueueKept DEF TaskEnds, poolVars, Statuses
    <3>4. StackInv'
      BY <2>5, <3>1, StackShrinks DEF TaskEnds, Statuses
    <3>5. QED
      BY <3>3, <3>4
  <2>6. ASSUME NEW w \in AllWorkers, WorkerPops(w) PROVE QueueInv' /\ StackInv'
    <3>1. QueueInv'
      BY <2>6, QueueShrinks DEF WorkerPops
    <3>2. Head(queue) \in Tasks /\ status[Head(queue)] # "running"
      <4>1. queue \in Seq(Tasks \cup {NoTask}) /\ queue # <<>>
        BY <2>6 DEF WorkerPops, TypeOK
      <4>2. 1 \in 1..Len(queue) /\ Head(queue) = queue[1]
        BY <4>1
      <4>3. QED
        BY <2>6, <4>1, <4>2 DEF WorkerPops, QueueInv
    <3>3. stack' = [stack EXCEPT ![w] = <<Head(queue)>> \o @]
      <4>1. w \in Actors /\ stack[w] = <<>> /\ <<Head(queue)>> \o <<>> = <<Head(queue)>>
        BY <2>6, <3>2, ActorTypes DEF WorkerPops
      <4>2. stack' = [stack EXCEPT ![w] = <<Head(queue)>>]
        BY <2>6 DEF WorkerPops
      <4>3. QED
        BY <4>1, <4>2 DEF TypeOK
    <3>4. StackInv'
      BY <2>6, <3>2, <3>3, StackGrows, ActorTypes DEF WorkerPops
    <3>5. QED
      BY <3>1, <3>4
  <2>7. ASSUME NEW w \in AllWorkers, WorkerExits(w) PROVE QueueInv' /\ StackInv'
    <3>1. QueueInv'
      BY <2>7, QueueShrinks DEF WorkerExits, taskVars
    <3>2. QED
      BY <2>7, <3>1 DEF WorkerExits, taskVars, StackInv
  <2>8. ASSUME NEW o \in Objects, Move(o) PROVE QueueInv' /\ StackInv'
    BY <2>8 DEF Move, taskVars, QueueInv, StackInv
  <2>9. ASSUME NEW o \in Objects, DestroyMovedFrom(o) PROVE QueueInv' /\ StackInv'
    BY <2>9 DEF DestroyMovedFrom, taskVars, QueueInv, StackInv
  <2>10. ASSUME DestructorBegins PROVE QueueInv' /\ StackInv'
    BY <2>10 DEF DestructorBegins, taskVars, QueueInv, StackInv
  <2>11. ASSUME DestructorPushes PROVE QueueInv' /\ StackInv'
    <3>1. StackInv'
      BY <2>11 DEF DestructorPushes, taskVars, StackInv
    <3>2. CASE queue' = Append(queue, NoTask) /\ phase' = phase
      <4>1. queue \in Seq(Tasks \cup {NoTask}) /\ status' = status /\ NoTask \notin Tasks
        BY <2>11, PoolAssumption DEF DestructorPushes, taskVars, TypeOK
      <4>2. /\ Len(queue') = Len(queue) + 1
            /\ \A i \in 1..Len(queue) : queue'[i] = queue[i]
            /\ queue'[Len(queue) + 1] = NoTask
        BY <3>2, <4>1
      <4>3. QED
        BY <3>1, <3>2, <4>1, <4>2 DEF QueueInv
    <3>3. CASE phase' = "join" /\ queue' = queue
      BY <2>11, <3>1, <3>3 DEF DestructorPushes, taskVars, QueueInv
    <3>4. QED
      BY <2>11, <3>2, <3>3 DEF DestructorPushes
  <2>12. ASSUME DestructorJoins PROVE QueueInv' /\ StackInv'
    <3>1. StackInv'
      BY <2>12 DEF DestructorJoins, taskVars, StackInv
    <3>2. CASE UNCHANGED <<queue, phase>>
      BY <2>12, <3>1, <3>2 DEF DestructorJoins, taskVars, QueueInv
    <3>3. CASE phase' = "gone" /\ queue' = <<>>
      <4>1. Len(queue') = 0
        BY <3>3
      <4>2. QED
        BY <3>1, <3>3, <4>1 DEF QueueInv
    <3>4. QED
      BY <2>12, <3>2, <3>3 DEF DestructorJoins
  <2>13. CASE UNCHANGED vars
    BY <2>13 DEF vars, poolVars, taskVars, QueueInv, StackInv
  <2>14. QED
    BY <2>1, <2>2, <2>3, <2>4, <2>5, <2>6, <2>7, <2>8, <2>9, <2>10, <2>11,
       <2>12, <2>13, Steps
<1>3. QED
  BY <1>1, <1>2, TypeCorrect, LifeCorrect, PTL DEF Spec

-----------------------------------------------------------------------------
(* References to the frames of callers *)

\* dispatch_returning() gives the workers a reference into the frame of its
\* caller, and the caller stays in that frame as long as they may use it.
THEOREM ReferencesAlive == Spec => []ReferenceAlive
<1>1. Init => WrappedInv
  BY DEF Init, WrappedInv, ReferenceAlive
<1>2. TypeOK /\ QueueInv /\ StackInv /\ WrappedInv /\ [Next]_vars => WrappedInv'
  <2> SUFFICES ASSUME TypeOK, QueueInv, StackInv, WrappedInv, [Next]_vars
               PROVE  WrappedInv'
    OBVIOUS
  <2> USE DEF WrappedInv, ReferenceAlive
  <2>a. /\ wait \in [Actors -> Tasks \cup {NoTask}] /\ wrapped \subseteq Tasks
        /\ status \in [Tasks -> Statuses] /\ NoTask \notin Tasks
    BY PoolAssumption DEF TypeOK, Statuses
  <2>1. ASSUME NEW a \in Actors, NEW o \in Objects, NEW t \in Tasks, Accepts(a, o, t)
        PROVE  WrappedInv'
    <3>1. t \notin wrapped /\ wait[a] = NoTask
      BY <2>1 DEF Accepts, MayDispatch, Running
    <3>2. status' = [status EXCEPT ![t] = "queued"]
      BY <2>1 DEF Accepts, Enqueue
    <3>3. CASE UNCHANGED <<wait, wrapped>>
      BY <2>a, <3>1, <3>2, <3>3
    <3>4. CASE wait' = [wait EXCEPT ![a] = t] /\ wrapped' = wrapped \cup {t}
      <4>1. wait'[a] = t /\ \A b \in Actors : b # a => wait'[b] = wait[b]
        BY <2>a, <3>4
      <4>2. \A u \in Tasks : status'[u] = IF u = t THEN "queued" ELSE status[u]
        BY <2>a, <3>2
      <4>3. QED
        BY <2>a, <3>1, <3>4, <4>1, <4>2
    <3>5. QED
      BY <2>1, <3>3, <3>4 DEF Accepts
  <2>2. ASSUME NEW a \in Actors, NEW o \in Objects, NEW t \in Tasks, Executes(a, o, t)
        PROVE  WrappedInv'
    <3>1. t \notin wrapped
      BY <2>2 DEF Executes
    <3>2. QED
      BY <2>2, <2>a, <3>1 DEF Executes, RunHere
  <2>3. ASSUME NEW a \in Actors, NEW o \in Objects, NEW t \in Tasks,
               dispatch_throws(a, o, t)
        PROVE  WrappedInv'
    BY <2>3, <2>a DEF dispatch_throws
  <2>4. ASSUME NEW a \in Actors, WaitReturns(a) PROVE WrappedInv'
    BY <2>4, <2>a DEF WaitReturns
  <2>5. ASSUME NEW a \in Actors, TaskEnds(a) PROVE WrappedInv'
    <3>1. Head(stack[a]) \in Tasks
      BY <2>5 DEF TaskEnds, TypeOK
    <3>2. QED
      BY <2>5, <2>a, <3>1 DEF TaskEnds
  <2>6. ASSUME NEW w \in AllWorkers, WorkerPops(w) PROVE WrappedInv'
    <3>1. Head(queue) \in Tasks /\ status[Head(queue)] = "queued"
      <4>1. queue \in Seq(Tasks \cup {NoTask}) /\ queue # <<>>
        BY <2>6 DEF WorkerPops, TypeOK
      <4>2. 1 \in 1..Len(queue) /\ Head(queue) = queue[1]
        BY <4>1
      <4>3. QED
        BY <2>6, <4>1, <4>2 DEF WorkerPops, QueueInv
    <3>2. QED
      BY <2>6, <2>a, <3>1 DEF WorkerPops
  <2>7. ASSUME NEW w \in AllWorkers, WorkerExits(w) PROVE WrappedInv'
    BY <2>7 DEF WorkerExits, taskVars
  <2>8. ASSUME NEW o \in Objects, Move(o) \/ DestroyMovedFrom(o) PROVE WrappedInv'
    BY <2>8 DEF Move, DestroyMovedFrom, taskVars
  <2>9. ASSUME DestructorBegins \/ DestructorPushes \/ DestructorJoins PROVE WrappedInv'
    BY <2>9 DEF DestructorBegins, DestructorPushes, DestructorJoins, taskVars
  <2>10. CASE UNCHANGED vars
    BY <2>10 DEF vars, poolVars, taskVars
  <2>11. QED
    BY <2>1, <2>2, <2>3, <2>4, <2>5, <2>6, <2>7, <2>8, <2>9, <2>10, Steps
<1>3. WrappedInv => ReferenceAlive
  BY DEF WrappedInv
<1>4. QED
  BY <1>1, <1>2, <1>3, TypeCorrect, TasksInPlace, PTL DEF Spec

-----------------------------------------------------------------------------
(* The order of execution *)

\* A task is accepted behind all others.
LEMMA OrderAccepts ==
  ASSUME TypeOK, QueueInv, OrderInv,
         NEW a \in Actors, NEW o \in Objects, NEW t \in Tasks, Accepts(a, o, t)
  PROVE  OrderInv'
<1>0. /\ status[t] = "new" /\ status' = [status EXCEPT ![t] = "queued"]
      /\ queue' = Append(queue, t) /\ dispatched' = Append(dispatched, t)
      /\ started' = started /\ phase' = phase
  BY DEF Accepts, Enqueue
<1>1. /\ NoTask \notin Tasks /\ queue \in Seq(Tasks \cup {NoTask})
      /\ dispatched \in Seq(Tasks) /\ started \in Seq(Tasks)
  BY PoolAssumption DEF TypeOK
<1>2. /\ Len(queue') = Len(queue) + 1 /\ queue'[Len(queue) + 1] = t /\ Len(queue) \in Nat
      /\ \A i \in 1..Len(queue) : queue'[i] = queue[i]
  BY <1>0, <1>1
<1>3. /\ Len(dispatched') = Len(dispatched) + 1 /\ dispatched'[Len(dispatched) + 1] = t
      /\ Len(dispatched) \in Nat /\ Len(started) \in Nat /\ Len(started') = Len(started)
      /\ \A k \in 1..Len(dispatched) : dispatched'[k] = dispatched[k]
  BY <1>0, <1>1
<1>4. \A i \in 1..Len(queue) : queue[i] # t
  BY <1>0, <1>1 DEF QueueInv
<1>5. \A k \in 1..Len(dispatched) : dispatched[k] # t /\ dispatched[k] \in Tasks
  BY <1>0, <1>1 DEF OrderInv, Known
<1>6. \A u \in Tasks : status'[u] = IF u = t THEN "queued" ELSE status[u]
  BY <1>0 DEF TypeOK
<1>7. Known'
  BY <1>3, <1>5, <1>6 DEF OrderInv, Known
<1>8. Once'
  BY <1>3, <1>5 DEF OrderInv, Once
<1>9. Prefix'
  BY <1>0, <1>3 DEF OrderInv, Prefix
<1>10. Waiting'
  <2> SUFFICES ASSUME phase # "gone", NEW k \in Len(started) + 1..Len(dispatched')
               PROVE  \E i \in 1..Len(queue') : queue'[i] = dispatched'[k]
    BY <1>0 DEF Waiting
  <2>1. CASE k = Len(dispatched')
    BY <1>2, <1>3, <2>1
  <2>2. CASE k # Len(dispatched')
    <3>1. k \in Len(started) + 1..Len(dispatched) /\ k \in 1..Len(dispatched)
      BY <1>3, <2>2
    <3>2. PICK i \in 1..Len(queue) : queue[i] = dispatched[k]
      BY <3>1 DEF OrderInv, Waiting
    <3>3. QED
      BY <1>2, <1>3, <3>1, <3>2
  <2>3. QED
    BY <2>1, <2>2
<1>11. Accepted'
  <2> SUFFICES ASSUME NEW i \in 1..Len(queue'), queue'[i] # NoTask
               PROVE  \E k \in Len(started) + 1..Len(dispatched') : dispatched'[k] = queue'[i]
    BY <1>0 DEF Accepted
  <2>1. CASE i = Len(queue')
    <3>1. Len(dispatched') \in Len(started) + 1..Len(dispatched')
      BY <1>3 DEF OrderInv, Prefix
    <3>2. QED
      BY <1>2, <1>3, <2>1, <3>1
  <2>2. CASE i # Len(queue')
    <3>1. i \in 1..Len(queue) /\ queue'[i] = queue[i]
      BY <1>2, <2>2
    <3>2. PICK k \in Len(started) + 1..Len(dispatched) : dispatched[k] = queue[i]
      BY <3>1 DEF OrderInv, Accepted
    <3>3. k \in Len(started) + 1..Len(dispatched') /\ dispatched'[k] = dispatched[k]
      BY <1>3, <3>2
    <3>4. QED
      BY <3>1, <3>2, <3>3
  <2>3. QED
    BY <2>1, <2>2
<1>12. Ordered'
  <2> SUFFICES ASSUME NEW i \in 1..Len(queue'), NEW j \in 1..Len(queue'),
                      NEW k \in 1..Len(dispatched'), NEW l \in 1..Len(dispatched'),
                      i < j, queue'[i] = dispatched'[k], queue'[j] = dispatched'[l]
               PROVE  k < l
    BY DEF Ordered
  <2>1. i \in 1..Len(queue) /\ queue'[i] = queue[i] /\ queue[i] # t
    BY <1>2, <1>4
  <2>2. k \in 1..Len(dispatched) /\ dispatched'[k] = dispatched[k]
    <3>1. dispatched'[k] # t
      BY <2>1
    <3>2. k # Len(dispatched) + 1
      BY <1>3, <3>1
    <3>3. QED
      BY <1>3, <3>2
  <2>3. CASE l = Len(dispatched')
    BY <1>3, <2>2, <2>3
  <2>4. CASE l # Len(dispatched')
    <3>1. l \in 1..Len(dispatched) /\ dispatched'[l] = dispatched[l]
      BY <1>3, <2>4
    <3>2. j \in 1..Len(queue) /\ queue'[j] = queue[j]
      BY <1>2, <1>5, <3>1
    <3>3. QED
      BY <2>1, <2>2, <3>1, <3>2 DEF OrderInv, Ordered
  <2>5. QED
    BY <2>3, <2>4
<1>13. QED
  BY <1>7, <1>8, <1>9, <1>10, <1>11, <1>12 DEF OrderInv

\* What is left of the queue without its first element.
LEMMA QueueTail ==
  ASSUME TypeOK, queue # <<>>, queue' = Tail(queue)
  PROVE  /\ Len(queue) > 0 /\ Len(queue') = Len(queue) - 1 /\ Len(queue) \in Nat
         /\ Head(queue) = queue[1] /\ queue[1] \in Tasks \cup {NoTask}
         /\ \A i \in 1..Len(queue') : queue'[i] = queue[i + 1] /\ i + 1 \in 1..Len(queue)
         /\ \A i \in 2..Len(queue) : queue'[i - 1] = queue[i] /\ i - 1 \in 1..Len(queue')
BY DEF TypeOK

\* The first element leaves the queue; the order of the others stays.
LEMMA OrderedTail ==
  ASSUME TypeOK, queue # <<>>, queue' = Tail(queue), dispatched' = dispatched, Ordered
  PROVE  Ordered'
<1> SUFFICES ASSUME NEW i \in 1..Len(queue'), NEW j \in 1..Len(queue'),
                    NEW k \in 1..Len(dispatched), NEW l \in 1..Len(dispatched),
                    i < j, queue'[i] = dispatched[k], queue'[j] = dispatched[l]
             PROVE  k < l
  BY DEF Ordered
<1>1. /\ i + 1 \in 1..Len(queue) /\ queue'[i] = queue[i + 1]
      /\ j + 1 \in 1..Len(queue) /\ queue'[j] = queue[j + 1]
  BY QueueTail
<1>2. i + 1 < j + 1
  OBVIOUS
<1>3. QED
  BY <1>1, <1>2 DEF Ordered

\* The first task of the queue is the next one that was accepted.
LEMMA OrderPops ==
  ASSUME TypeOK, LifeInv, OrderInv, NEW w \in AllWorkers, WorkerPops(w)
  PROVE  OrderInv'
<1>0. /\ phase # "gone" /\ phase' = phase
      /\ queue # <<>> /\ Head(queue) # NoTask
      /\ status' = [status EXCEPT ![Head(queue)] = "running"]
      /\ queue' = Tail(queue) /\ started' = Append(started, Head(queue))
      /\ dispatched' = dispatched
  BY DEF WorkerPops, LifeInv
<1>1. /\ NoTask \notin Tasks
      /\ dispatched \in Seq(Tasks) /\ started \in Seq(Tasks)
  BY PoolAssumption DEF TypeOK
<1>2. /\ Len(queue) > 0 /\ Len(queue') = Len(queue) - 1 /\ Len(queue) \in Nat
      /\ Head(queue) = queue[1] /\ queue[1] \in Tasks
      /\ \A i \in 1..Len(queue') : queue'[i] = queue[i + 1] /\ i + 1 \in 1..Len(queue)
      /\ \A i \in 2..Len(queue) : queue'[i - 1] = queue[i] /\ i - 1 \in 1..Len(queue')
  BY <1>0, QueueTail
<1>3. /\ Len(started') = Len(started) + 1 /\ started'[Len(started) + 1] = queue[1]
      /\ Len(dispatched) \in Nat /\ Len(started) \in Nat
      /\ \A k \in 1..Len(started) : started'[k] = started[k]
      /\ \A k \in 1..Len(dispatched) : dispatched[k] \in Tasks
  BY <1>0, <1>1, <1>2
<1>4. \A u \in Tasks : status'[u] = IF u = queue[1] THEN "running" ELSE status[u]
  BY <1>0, <1>2 DEF TypeOK
<1>5. PICK m \in Len(started) + 1..Len(dispatched) : dispatched[m] = queue[1]
  <2>1. 1 \in 1..Len(queue) /\ queue[1] # NoTask
    BY <1>0, <1>2
  <2>2. QED
    BY <2>1 DEF OrderInv, Accepted
<1>6. /\ m = Len(started) + 1
      /\ m \in 1..Len(dispatched) /\ 1 \in 1..Len(queue)
  <2>1. Len(started) + 1 \in Len(started) + 1..Len(dispatched)
    BY <1>3, <1>5
  <2>2. PICK j \in 1..Len(queue) : queue[j] = dispatched[Len(started) + 1]
    BY <1>0, <2>1 DEF OrderInv, Waiting
  <2>3. 1 \in 1..Len(queue) /\ m \in 1..Len(dispatched)
        /\ Len(started) + 1 \in 1..Len(dispatched)
    BY <1>2, <1>3, <1>5, <2>1
  <2>4. CASE j = 1
    BY <1>5, <2>2, <2>3, <2>4 DEF OrderInv, Once
  <2>5. CASE j # 1
    <3>1. 1 < j
      BY <1>2, <2>2, <2>5
    <3>2. m < Len(started) + 1
      BY <1>5, <2>2, <2>3, <3>1 DEF OrderInv, Ordered
    <3>3. QED
      BY <1>3, <1>5, <3>2
  <2>6. QED
    BY <2>3, <2>4, <2>5
<1>7. Known'
  BY <1>0, <1>3, <1>4 DEF OrderInv, Known
<1>8. Prefix'
  BY <1>0, <1>3, <1>5, <1>6 DEF OrderInv, Prefix
<1>9. Waiting'
  <2> SUFFICES ASSUME NEW k \in Len(started') + 1..Len(dispatched)
               PROVE  \E i \in 1..Len(queue') : queue'[i] = dispatched[k]
    BY <1>0 DEF Waiting
  <2>1. k \in Len(started) + 1..Len(dispatched) /\ k # m /\ k \in 1..Len(dispatched)
    BY <1>3, <1>5, <1>6
  <2>2. PICK i \in 1..Len(queue) : queue[i] = dispatched[k]
    BY <1>0, <2>1 DEF OrderInv, Waiting
  <2>3. i # 1
    BY <1>5, <1>6, <2>1, <2>2 DEF OrderInv, Once
  <2>4. i \in 2..Len(queue)
    BY <1>2, <2>3
  <2>5. QED
    BY <1>2, <2>2, <2>4
<1>10. Accepted'
  <2> SUFFICES ASSUME NEW i \in 1..Len(queue'), queue'[i] # NoTask
               PROVE  \E k \in Len(started') + 1..Len(dispatched) : dispatched[k] = queue'[i]
    BY <1>0 DEF Accepted
  <2>1. i + 1 \in 1..Len(queue) /\ queue'[i] = queue[i + 1] /\ 1 < i + 1
    BY <1>2
  <2>2. PICK k \in Len(started) + 1..Len(dispatched) : dispatched[k] = queue[i + 1]
    BY <2>1 DEF OrderInv, Accepted
  <2>3. k \in 1..Len(dispatched)
    BY <1>3, <2>2
  <2>4. m < k
    BY <1>5, <1>6, <2>1, <2>2, <2>3 DEF OrderInv, Ordered
  <2>5. k \in Len(started') + 1..Len(dispatched)
    BY <1>3, <1>6, <2>2, <2>4
  <2>6. QED
    BY <2>1, <2>2, <2>5
<1>11. Ordered'
  BY <1>0, OrderedTail DEF OrderInv
<1>12. Once'
  BY <1>0 DEF OrderInv, Once
<1>13. QED
  BY <1>7, <1>8, <1>9, <1>10, <1>11, <1>12 DEF OrderInv

\* A pool without workers executes what it accepts at once; what a moved-from
\* object executes is not part of the order.
LEMMA OrderHere ==
  ASSUME TypeOK, LifeInv, OrderInv,
         NEW a \in Actors, NEW o \in Objects, NEW t \in Tasks, Executes(a, o, t)
  PROVE  OrderInv'
<1>0. /\ status[t] = "new" /\ status' = [status EXCEPT ![t] = "running"]
      /\ UNCHANGED <<queue, phase>>
  BY DEF Executes, RunHere
<1>1. dispatched \in Seq(Tasks) /\ started \in Seq(Tasks)
  BY DEF TypeOK
<1>2. \A u \in Tasks : status'[u] = IF u = t THEN "running" ELSE status[u]
  BY <1>0 DEF TypeOK
<1>3. \A k \in 1..Len(dispatched) : dispatched[k] # t /\ dispatched[k] \in Tasks
  BY <1>0, <1>1 DEF OrderInv, Known
<1>4. CASE o = holder
  <2>1. /\ dispatched' = Append(dispatched, t) /\ started' = Append(started, t)
        /\ phase # "gone" /\ queue = <<>>
    BY <1>4, PoolAssumption DEF Executes, RecordHere, RunHere, num_workers, LifeInv
  <2>2. /\ Len(dispatched') = Len(dispatched) + 1 /\ dispatched'[Len(dispatched) + 1] = t
        /\ Len(dispatched) \in Nat /\ Len(started) \in Nat /\ Len(queue) = 0
        /\ \A k \in 1..Len(dispatched) : dispatched'[k] = dispatched[k]
        /\ Len(started') = Len(started) + 1 /\ started'[Len(started) + 1] = t
        /\ \A k \in 1..Len(started) : started'[k] = started[k]
    BY <1>1, <2>1
  <2>3. Len(started) = Len(dispatched)
    <3>1. ASSUME Len(started) # Len(dispatched) PROVE FALSE
      <4>1. Len(dispatched) \in Len(started) + 1..Len(dispatched)
        BY <2>2, <3>1 DEF OrderInv, Prefix
      <4>2. QED
        BY <2>1, <2>2, <4>1 DEF OrderInv, Waiting
    <3>2. QED
      BY <3>1
  <2>4. Known'
    BY <2>2, <1>2, <1>3 DEF OrderInv, Known
  <2>5. Once'
    BY <2>2, <1>3 DEF OrderInv, Once
  <2>6. Prefix'
    BY <2>2, <2>3 DEF OrderInv, Prefix
  <2>7. Len(queue') = 0 /\ Len(started') = Len(dispatched') /\ Len(started') \in Nat
    BY <1>0, <2>2, <2>3
  <2>8. Waiting' /\ Accepted' /\ Ordered'
    BY <2>7 DEF Waiting, Accepted, Ordered
  <2>9. QED
    BY <2>4, <2>5, <2>6, <2>8 DEF OrderInv
<1>5. CASE o # holder
  <2>1. UNCHANGED <<dispatched, started>>
    BY <1>5 DEF Executes, RecordHere
  <2>2. Known'
    BY <1>2, <1>3, <2>1 DEF OrderInv, Known
  <2>3. QED
    BY <1>0, <2>1, <2>2 DEF OrderInv, Once, Prefix, Waiting, Accepted, Ordered
<1>6. QED
  BY <1>4, <1>5

\* The status of a task changes, and it is not its dispatch.
LEMMA OrderKept ==
  ASSUME TypeOK, OrderInv, NEW t \in Tasks, NEW s \in Statuses \ {"new"},
         UNCHANGED <<queue, phase, dispatched, started>>,
         status' = [status EXCEPT ![t] = s]
  PROVE  OrderInv'
<1>1. \A u \in Tasks : status'[u] = IF u = t THEN s ELSE status[u]
  BY DEF TypeOK
<1>2. \A k \in 1..Len(dispatched) : dispatched[k] \in Tasks
  BY DEF TypeOK
<1>3. Known'
  BY <1>1, <1>2 DEF OrderInv, Known
<1>4. Once' /\ Prefix' /\ Ordered'
  BY DEF OrderInv, Once, Prefix, Ordered
<1>5. Waiting' /\ Accepted'
  BY DEF OrderInv, Waiting, Accepted
<1>6. QED
  BY <1>3, <1>4, <1>5 DEF OrderInv

\* An end token is put behind the tasks, or all of them are there.
LEMMA OrderToken ==
  ASSUME TypeOK, OrderInv, DestructorPushes
  PROVE  OrderInv'
<1>0. UNCHANGED <<dispatched, started, status>>
  BY DEF DestructorPushes, taskVars
<1>1. CASE queue' = Append(queue, NoTask) /\ phase' = phase
  <2>1. /\ NoTask \notin Tasks /\ queue \in Seq(Tasks \cup {NoTask})
        /\ dispatched \in Seq(Tasks)
    BY PoolAssumption DEF TypeOK
  <2>2. /\ Len(queue') = Len(queue) + 1 /\ queue'[Len(queue) + 1] = NoTask
        /\ Len(queue) \in Nat
        /\ \A i \in 1..Len(queue) : queue'[i] = queue[i]
    BY <1>1, <2>1
  <2>3. \A k \in 1..Len(dispatched) : dispatched[k] # NoTask
    BY <2>1
  <2>4. Accepted'
    BY <1>0, <2>2 DEF OrderInv, Accepted
  <2>5. Ordered'
    <3> SUFFICES ASSUME NEW i \in 1..Len(queue'), NEW j \in 1..Len(queue'),
                        NEW k \in 1..Len(dispatched), NEW l \in 1..Len(dispatched),
                        i < j, queue'[i] = dispatched[k], queue'[j] = dispatched[l]
                 PROVE  k < l
      BY <1>0 DEF Ordered
    <3>1. /\ i \in 1..Len(queue) /\ queue'[i] = queue[i]
          /\ j \in 1..Len(queue) /\ queue'[j] = queue[j]
      BY <2>2, <2>3
    <3>2. QED
      BY <3>1 DEF OrderInv, Ordered
  <2>6. Waiting'
    <3> SUFFICES ASSUME phase # "gone", NEW k \in Len(started) + 1..Len(dispatched)
                 PROVE  \E i \in 1..Len(queue') : queue'[i] = dispatched[k]
      BY <1>0, <1>1 DEF Waiting
    <3>1. PICK i \in 1..Len(queue) : queue[i] = dispatched[k]
      BY DEF OrderInv, Waiting
    <3>2. QED
      BY <2>2, <3>1
  <2>7. QED
    BY <1>0, <2>4, <2>5, <2>6 DEF OrderInv, Known, Once, Prefix
<1>2. CASE phase = "eof" /\ phase' = "join" /\ queue' = queue
  BY <1>0, <1>2 DEF OrderInv, Known, Once, Prefix, Waiting, Accepted, Ordered
<1>3. QED
  BY <1>1, <1>2 DEF DestructorPushes

\* An end token is taken.
LEMMA OrderTokenTaken ==
  ASSUME TypeOK, OrderInv, NEW w \in AllWorkers, WorkerExits(w)
  PROVE  OrderInv'
<1>0. /\ queue # <<>> /\ Head(queue) = NoTask /\ queue' = Tail(queue)
      /\ UNCHANGED <<phase, dispatched, started, status>>
  BY DEF WorkerExits, taskVars
<1>1. /\ Len(queue) > 0 /\ Len(queue') = Len(queue) - 1 /\ Len(queue) \in Nat
      /\ queue[1] = NoTask
      /\ \A i \in 1..Len(queue') : queue'[i] = queue[i + 1] /\ i + 1 \in 1..Len(queue)
      /\ \A i \in 2..Len(queue) : queue'[i - 1] = queue[i] /\ i - 1 \in 1..Len(queue')
  BY <1>0, QueueTail
<1>2. \A k \in Len(started) + 1..Len(dispatched) : dispatched[k] # NoTask
  BY PoolAssumption DEF TypeOK
<1>3. Accepted'
  BY <1>0, <1>1 DEF OrderInv, Accepted
<1>4. Ordered'
  BY <1>0, OrderedTail DEF OrderInv
<1>5. Waiting'
  <2> SUFFICES ASSUME phase # "gone", NEW k \in Len(started) + 1..Len(dispatched)
               PROVE  \E i \in 1..Len(queue') : queue'[i] = dispatched[k]
    BY <1>0 DEF Waiting
  <2>1. PICK i \in 1..Len(queue) : queue[i] = dispatched[k]
    BY DEF OrderInv, Waiting
  <2>2. i \in 2..Len(queue)
    BY <1>1, <1>2, <2>1
  <2>3. QED
    BY <1>1, <2>1, <2>2
<1>6. QED
  BY <1>0, <1>3, <1>4, <1>5 DEF OrderInv, Known, Once, Prefix

\* The tasks begin in the order in which they were accepted, whatever the
\* number of workers and whoever dispatches during the destruction.
THEOREM OrderCorrect == Spec => []OrderInv
<1>1. Init => OrderInv
  <2> SUFFICES ASSUME Init PROVE OrderInv
    OBVIOUS
  <2>1. Len(queue) = 0 /\ Len(dispatched) = 0 /\ Len(started) = 0
    BY DEF Init
  <2>2. QED
    BY <2>1 DEF OrderInv, Known, Once, Prefix, Waiting, Accepted, Ordered
<1>2. TypeOK /\ LifeInv /\ QueueInv /\ StackInv /\ OrderInv /\ [Next]_vars => OrderInv'
  <2> SUFFICES ASSUME TypeOK, LifeInv, QueueInv, StackInv, OrderInv, [Next]_vars
               PROVE  OrderInv'
    OBVIOUS
  <2>a. ASSUME UNCHANGED <<queue, phase, dispatched, started, status>> PROVE OrderInv'
    BY <2>a DEF OrderInv, Known, Once, Prefix, Waiting, Accepted, Ordered
  <2>1. ASSUME NEW a \in Actors, NEW o \in Objects, NEW t \in Tasks,
               dispatch_throws(a, o, t)
        PROVE  OrderInv'
    BY <2>1, OrderKept DEF dispatch_throws, poolVars, Statuses
  <2>2. ASSUME NEW a \in Actors, WaitReturns(a) PROVE OrderInv'
    BY <2>2, <2>a DEF WaitReturns, poolVars
  <2>3. ASSUME NEW a \in Actors, TaskEnds(a) PROVE OrderInv'
    <3>1. Head(stack[a]) \in Tasks
      BY <2>3 DEF TaskEnds, TypeOK
    <3>2. PICK s \in {"done", "failed"} : status' = [status EXCEPT ![Head(stack[a])] = s]
      BY <2>3 DEF TaskEnds
    <3>3. QED
      BY <2>3, <3>1, <3>2, OrderKept DEF TaskEnds, poolVars, Statuses
  <2>4. ASSUME NEW o \in Objects, Move(o) \/ DestroyMovedFrom(o) PROVE OrderInv'
    BY <2>4, <2>a DEF Move, DestroyMovedFrom, taskVars
  <2>5. ASSUME DestructorBegins PROVE OrderInv'
    <3>1. /\ UNCHANGED <<queue, dispatched, started, status>>
          /\ phase # "gone" /\ phase' # "gone"
      BY <2>5 DEF DestructorBegins, taskVars
    <3>2. Known' /\ Once' /\ Prefix' /\ Ordered'
      BY <3>1 DEF OrderInv, Known, Once, Prefix, Ordered
    <3>3. Waiting' /\ Accepted'
      BY <3>1 DEF OrderInv, Waiting, Accepted
    <3>4. QED
      BY <3>2, <3>3 DEF OrderInv
  <2>6. ASSUME DestructorJoins PROVE OrderInv'
    <3>1. UNCHANGED <<dispatched, started, status>>
      BY <2>6 DEF DestructorJoins, taskVars
    <3>2. CASE UNCHANGED <<queue, phase>>
      BY <3>1, <3>2, <2>a
    <3>3. CASE phase' = "gone" /\ queue' = <<>>
      <4>1. Len(queue') = 0
        BY <3>3
      <4>2. Known' /\ Once' /\ Prefix'
        BY <3>1 DEF OrderInv, Known, Once, Prefix
      <4>3. Waiting' /\ Accepted' /\ Ordered'
        BY <3>3, <4>1 DEF Waiting, Accepted, Ordered
      <4>4. QED
        BY <4>2, <4>3 DEF OrderInv
    <3>4. QED
      BY <2>6, <3>2, <3>3 DEF DestructorJoins
  <2>7. CASE UNCHANGED vars
    BY <2>7, <2>a DEF vars, poolVars, taskVars
  <2>8. QED
    BY <2>1, <2>2, <2>3, <2>4, <2>5, <2>6, <2>7, OrderAccepts, OrderHere, OrderPops,
       OrderToken, OrderTokenTaken, Steps
<1>3. QED
  BY <1>1, <1>2, TypeCorrect, LifeCorrect, TasksInPlace, PTL DEF Spec

\* A task that has begun is not dispatched again.
LEMMA BegunTasks ==
  ASSUME TypeOK, OrderInv
  PROVE  \A i \in 1..Len(started) : started[i] \in Tasks /\ status[started[i]] # "new"
<1>1. started \in Seq(Tasks) /\ Len(started) \in Nat /\ Len(dispatched) \in Nat
  BY DEF TypeOK
<1>2. \A i \in 1..Len(started) : i \in 1..Len(dispatched) /\ started[i] = dispatched[i]
  BY <1>1 DEF OrderInv, Prefix
<1>3. QED
  BY <1>1, <1>2 DEF OrderInv, Known

\* Tasks that have begun keep what SingleInv says of them while a task that
\* was never begun changes its status and the bottom of the stack of the one
\* worker stays.
LEMMA SingleKept ==
  ASSUME TypeOK, OrderInv, SingleInv, size' = size, started' = started,
         NEW t \in Tasks, NEW s \in Statuses,
         status' = [status EXCEPT ![t] = s],
         status[t] = "new" \/ s \in {"done", "failed"},
         size = 1 => /\ stack[1] # <<>> => stack'[1] # <<>>
                     /\ stack[1] # <<>> => stack'[1][Len(stack'[1])] = stack[1][Len(stack[1])]
  PROVE  SingleInv'
<1>1. \A i \in 1..Len(started) : started[i] \in Tasks /\ status[started[i]] # "new"
  BY BegunTasks
<1>2. \A u \in Tasks : status'[u] = IF u = t THEN s ELSE status[u]
  BY DEF TypeOK
<1>3. QED
  BY <1>1, <1>2 DEF SingleInv

\* A sequence of two elements or more and its tail end alike: the outermost
\* call stays at the bottom of a thread's stack.
LEMMA TailLast ==
  ASSUME NEW S, NEW s \in Seq(S), s # <<>>, Len(s) # 1
  PROVE  Tail(s) # <<>> /\ Tail(s)[Len(Tail(s))] = s[Len(s)]
<1>1. /\ Len(s) \in Nat /\ Len(s) > 1
  BY EmptySeq
<1>2. /\ Tail(s) \in Seq(S) /\ Len(Tail(s)) = Len(s) - 1
      /\ \A k \in 1..Len(Tail(s)) : Tail(s)[k] = s[k + 1]
  BY HeadTailProperties
<1>3. Len(Tail(s)) \in 1..Len(Tail(s)) /\ Len(Tail(s)) + 1 = Len(s) /\ Len(Tail(s)) # 0
  BY <1>1, <1>2
<1>4. Tail(s)[Len(Tail(s))] = s[Len(s)]
  BY <1>2, <1>3
<1>5. Tail(s) # <<>>
  BY <1>2, <1>3, EmptySeq
<1>6. QED
  BY <1>4, <1>5

\* The one worker of a pool begins a task when the previous one has ended.
THEOREM SingleCorrect == Spec => []SingleInv
<1>1. Init => SingleInv
  <2> SUFFICES ASSUME Init PROVE SingleInv
    OBVIOUS
  <2>1. Len(started) = 0
    BY DEF Init
  <2>2. QED
    BY <2>1 DEF SingleInv
<1>2. TypeOK /\ StackInv /\ OrderInv /\ SingleInv /\ [Next]_vars => SingleInv'
  <2> SUFFICES ASSUME TypeOK, StackInv, OrderInv, SingleInv, [Next]_vars
               PROVE  SingleInv'
    OBVIOUS
  <2>a. ASSUME UNCHANGED <<size, stack, started, status>> PROVE SingleInv'
    BY <2>a DEF SingleInv
  <2>b. size = 1 => 1 \in Actors /\ 1 \in AllWorkers
    BY WorkerTypes, ActorTypes DEF Workers
  <2>c. stack \in [Actors -> Seq(Tasks)]
    BY DEF TypeOK
  <2>1. ASSUME NEW a \in Actors, NEW o \in Objects, NEW t \in Tasks, Accepts(a, o, t)
        PROVE  SingleInv'
    BY <2>1, SingleKept DEF Accepts, Enqueue, Statuses
  <2>2. ASSUME NEW a \in Actors, NEW o \in Objects, NEW t \in Tasks, Executes(a, o, t)
        PROVE  SingleInv'
    <3>1. CASE size # 1
      BY <2>2, <3>1 DEF Executes, SingleInv
    <3>2. CASE size = 1
      <4>1. started' = started
        BY <2>2, <3>2 DEF Executes, RecordHere, RunHere, num_workers
      <4>2. stack[1] # <<>> => /\ stack'[1] # <<>>
                               /\ stack'[1][Len(stack'[1])] = stack[1][Len(stack[1])]
        <5>1. CASE a = 1
          <6>1. stack'[1] = <<t>> \o stack[1] /\ stack[1] \in Seq(Tasks) /\ <<t>> \in Seq(Tasks)
            BY <2>2, <2>c, <5>1 DEF Executes, RunHere
          <6>2. QED
            BY <6>1
        <5>2. CASE a # 1
          BY <2>2, <2>b, <2>c, <3>2, <5>2 DEF Executes, RunHere
        <5>3. QED
          BY <5>1, <5>2
      <4>3. QED
        BY <2>2, <4>1, <4>2, SingleKept DEF Executes, RunHere, Statuses
    <3>3. QED
      BY <3>1, <3>2
  <2>3. ASSUME NEW a \in Actors, NEW o \in Objects, NEW t \in Tasks,
               dispatch_throws(a, o, t)
        PROVE  SingleInv'
    BY <2>3, SingleKept DEF dispatch_throws, poolVars, Statuses
  <2>4. ASSUME NEW a \in Actors, WaitReturns(a) PROVE SingleInv'
    BY <2>4, <2>a DEF WaitReturns, poolVars
  <2>5. ASSUME NEW a \in Actors, TaskEnds(a) PROVE SingleInv'
    <3>1. PICK s \in {"done", "failed"} : status' = [status EXCEPT ![Head(stack[a])] = s]
      BY <2>5 DEF TaskEnds
    <3>2. /\ Head(stack[a]) \in Tasks /\ stack[a] # <<>>
          /\ size' = size /\ started' = started
          /\ stack' = [stack EXCEPT ![a] = Tail(@)]
      BY <2>5, <2>c DEF TaskEnds, poolVars
    <3>3. \A i \in 1..Len(started) : started[i] \in Tasks
      BY BegunTasks
    <3>4. \A u \in Tasks : status'[u] = IF u = Head(stack[a]) THEN s ELSE status[u]
      BY <3>1, <3>2 DEF TypeOK
    <3>5. CASE a = 1 /\ Len(stack[1]) = 1
      <4>1. Head(stack[1]) = stack[1][Len(stack[1])]
        BY <2>c, <3>5
      <4>2. QED
        BY <3>1, <3>2, <3>3, <3>4, <3>5, <4>1 DEF SingleInv
    <3>6. CASE ~(a = 1 /\ Len(stack[1]) = 1)
      <4>1. size = 1 /\ stack[1] # <<>> =>
              stack'[1] # <<>> /\ stack'[1][Len(stack'[1])] = stack[1][Len(stack[1])]
        <5>1. CASE a = 1
          <6>1. /\ stack[1] \in Seq(Tasks) /\ stack[1] # <<>> /\ Len(stack[1]) # 1
                /\ stack'[1] = Tail(stack[1])
            BY <2>c, <3>2, <3>6, <5>1
          <6>2. QED
            BY <6>1, TailLast
        <5>2. CASE a # 1
          BY <2>b, <2>c, <3>2, <5>2
        <5>3. QED
          BY <5>1, <5>2
      <4>2. QED
        BY <3>1, <3>2, <4>1, SingleKept DEF Statuses
    <3>7. QED
      BY <3>5, <3>6
  <2>6. ASSUME NEW w \in AllWorkers, WorkerPops(w) PROVE SingleInv'
    <3> SUFFICES ASSUME size = 1 PROVE SingleInv'
      BY <2>6 DEF SingleInv, WorkerPops
    <3>1. w = 1 /\ stack[1] = <<>> /\ size' = size
      BY <2>6 DEF WorkerPops, Workers
    <3>2. stack'[1] = <<Head(queue)>>
      BY <2>6, <2>b, <2>c, <3>1 DEF WorkerPops
    <3>3. /\ started' = Append(started, Head(queue)) /\ started \in Seq(Tasks)
          /\ Head(queue) \in Tasks
      BY <2>6 DEF WorkerPops, TypeOK
    <3>4. /\ Len(started') = Len(started) + 1 /\ started'[Len(started) + 1] = Head(queue)
          /\ Len(started) \in Nat
          /\ \A i \in 1..Len(started) : started'[i] = started[i]
      BY <3>3
    <3>5. \A i \in 1..Len(started) : status[started[i]] \in {"done", "failed"}
      BY <3>1 DEF SingleInv
    <3>6. \A i \in 1..Len(started) : started[i] # Head(queue) /\ started[i] \in Tasks
      <4>1. PICK m \in Len(started) + 1..Len(dispatched) : dispatched[m] = Head(queue)
        <5>1. queue \in Seq(Tasks \cup {NoTask}) /\ queue # <<>> /\ Head(queue) # NoTask
          BY <2>6 DEF WorkerPops, TypeOK
        <5>2. 1 \in 1..Len(queue) /\ Head(queue) = queue[1]
          BY <5>1
        <5>3. QED
          BY <5>1, <5>2 DEF OrderInv, Accepted
      <4>2. ASSUME NEW i \in 1..Len(started) PROVE started[i] # Head(queue)
        <5>1. started[i] = dispatched[i] /\ i \in 1..Len(dispatched) /\ i # m
              /\ m \in 1..Len(dispatched)
          BY <3>4, <4>1 DEF OrderInv, Prefix, TypeOK
        <5>2. QED
          BY <4>1, <5>1 DEF OrderInv, Once
      <4>3. QED
        BY <4>2, BegunTasks
    <3>7. status' = [status EXCEPT ![Head(queue)] = "running"]
      BY <2>6 DEF WorkerPops
    <3>8. \A i \in 1..Len(started) : status'[started'[i]] \in {"done", "failed"}
      BY <3>3, <3>4, <3>5, <3>6, <3>7 DEF TypeOK
    <3>9. stack'[1] # <<>> /\ stack'[1][Len(stack'[1])] = Head(queue)
      BY <3>2, <3>3
    <3>10. QED
      BY <3>1, <3>4, <3>8, <3>9 DEF SingleInv
  <2>7. ASSUME NEW w \in AllWorkers, WorkerExits(w) PROVE SingleInv'
    BY <2>7, <2>a DEF WorkerExits, taskVars
  <2>8. ASSUME NEW o \in Objects, Move(o) \/ DestroyMovedFrom(o) PROVE SingleInv'
    BY <2>8, <2>a DEF Move, DestroyMovedFrom, taskVars
  <2>9. ASSUME DestructorBegins \/ DestructorPushes \/ DestructorJoins PROVE SingleInv'
    BY <2>9, <2>a DEF DestructorBegins, DestructorPushes, DestructorJoins, taskVars
  <2>10. CASE UNCHANGED vars
    BY <2>10, <2>a DEF vars, poolVars, taskVars
  <2>11. QED
    BY <2>1, <2>2, <2>3, <2>4, <2>5, <2>6, <2>7, <2>8, <2>9, <2>10, Steps
<1>3. QED
  BY <1>1, <1>2, TypeCorrect, TasksInPlace, OrderCorrect, PTL DEF Spec

\* "FIFO order is guaranteed if num_workers() <= 1", for any number of
\* clients and tasks, nested and late dispatches included.
THEOREM FifoGuaranteed == Spec => []FifoOrder
<1>1. TypeOK /\ OrderInv /\ SingleInv => FifoOrder
  <2> SUFFICES ASSUME TypeOK, OrderInv, SingleInv PROVE FifoOrder
    OBVIOUS
  <2>1. Len(started) \in Nat
    BY DEF TypeOK
  <2>2. size = 1 => \A i \in 1..Len(started) - 1 : status[started[i]] \in {"done", "failed"}
    BY <2>1 DEF SingleInv
  <2>3. QED
    BY <2>2 DEF FifoOrder, OrderInv, Prefix
<1>2. QED
  BY <1>1, TypeCorrect, OrderCorrect, SingleCorrect, PTL

-----------------------------------------------------------------------------
(* The destructor *)

\* No step after the beginning of the destructor dispatches anything.
LEMMA NothingLate ==
  ASSUME ~LateDispatch, NEW a \in Actors, MayDispatch(a)
  PROVE  phase = "open"
BY DEF MayDispatch

\* "Causes the dispatching thread to exit after all queued tasks have been
\* executed": unless a task dispatches another one while the destructor runs,
\* the pool is gone only after each task it accepted was executed, in order.
THEOREM AllTasksExecuted ==
  ASSUME ~LateDispatch
  PROVE  Spec => []AllExecuted
<1>1. Init => EndInv
  <2> SUFFICES ASSUME Init PROVE EndInv
    OBVIOUS
  <2>1. Len(queue) = 0 /\ exited = {} /\ phase = "open"
    BY DEF Init
  <2>2. QED
    BY <2>1 DEF EndInv
<1>2. TypeOK /\ LifeInv /\ QueueInv /\ StackInv /\ OrderInv /\ EndInv /\ [Next]_vars => EndInv'
  <2> SUFFICES ASSUME TypeOK, LifeInv, QueueInv, StackInv, OrderInv, EndInv, [Next]_vars
               PROVE  EndInv'
    OBVIOUS
  <2>a. ASSUME UNCHANGED <<queue, phase, exited, started, dispatched, status>>
        PROVE  EndInv'
    BY <2>a DEF EndInv
  <2>b. NoTask \notin Tasks /\ queue \in Seq(Tasks \cup {NoTask}) /\ Len(queue) \in Nat
    BY PoolAssumption DEF TypeOK
  <2>1. ASSUME NEW a \in Actors, NEW o \in Objects, NEW t \in Tasks, Accepts(a, o, t)
        PROVE  EndInv'
    <3>1. phase = "open" /\ phase' = phase /\ exited' = exited /\ queue' = Append(queue, t)
      BY <2>1, NothingLate DEF Accepts, Enqueue
    <3>2. exited = {}
      BY <3>1 DEF EndInv
    <3>3. /\ Len(queue') = Len(queue) + 1 /\ queue'[Len(queue) + 1] = t
          /\ \A i \in 1..Len(queue) : queue'[i] = queue[i] /\ queue[i] # NoTask
      BY <2>b, <3>1 DEF EndInv
    <3>4. \A i \in 1..Len(queue') : queue'[i] # NoTask
      BY <2>b, <3>3
    <3>5. QED
      BY <3>1, <3>2, <3>4 DEF EndInv
  <2>2. ASSUME NEW a \in Actors, NEW o \in Objects, NEW t \in Tasks,
               Executes(a, o, t) \/ dispatch_throws(a, o, t)
        PROVE  EndInv'
    <3>1. phase = "open" /\ UNCHANGED <<phase, exited, queue>>
      BY <2>2, NothingLate DEF Executes, dispatch_throws, poolVars
    <3>2. QED
      BY <3>1 DEF EndInv
  <2>3. ASSUME NEW a \in Actors, WaitReturns(a) PROVE EndInv'
    BY <2>3, <2>a DEF WaitReturns, poolVars
  <2>4. ASSUME NEW a \in Actors, TaskEnds(a) PROVE EndInv'
    <3>1. UNCHANGED <<queue, phase, exited, started, dispatched>>
      BY <2>4 DEF TaskEnds, poolVars
    <3>2. \A t \in Tasks : status[t] \in Over => status'[t] \in Over
      BY <2>4 DEF TaskEnds, TypeOK, Over
    <3>3. QED
      BY <3>1, <3>2 DEF EndInv
  <2>5. ASSUME NEW w \in AllWorkers, WorkerPops(w) PROVE EndInv'
    <3>1. /\ queue # <<>> /\ Head(queue) # NoTask /\ queue' = Tail(queue)
          /\ UNCHANGED <<phase, exited>> /\ phase # "gone"
      BY <2>5 DEF WorkerPops, LifeInv
    <3>2. /\ Len(queue) > 0 /\ Head(queue) = queue[1] /\ 1 \in 1..Len(queue)
          /\ \A i \in 1..Len(queue') : queue'[i] = queue[i + 1] /\ i + 1 \in 1..Len(queue)
      BY <3>1, QueueTail
    <3>3. exited = {}
      BY <3>1, <3>2 DEF EndInv
    <3>4. phase' = "open" => \A i \in 1..Len(queue') : queue'[i] # NoTask
      BY <3>1, <3>2 DEF EndInv
    <3>5. ASSUME NEW i \in 1..Len(queue'), NEW j \in 1..Len(queue'), i < j,
                 queue'[i] = NoTask
          PROVE  queue'[j] = NoTask
      <4>1. /\ i + 1 \in 1..Len(queue) /\ queue[i + 1] = NoTask
            /\ j + 1 \in 1..Len(queue) /\ queue'[j] = queue[j + 1]
        BY <3>2, <3>5
      <4>2. i + 1 < j + 1
        BY <3>5
      <4>3. QED
        BY <4>1, <4>2 DEF EndInv
    <3>6. QED
      BY <3>1, <3>3, <3>4, <3>5 DEF EndInv
  <2>6. ASSUME NEW w \in AllWorkers, WorkerExits(w) PROVE EndInv'
    <3>1. /\ queue # <<>> /\ Head(queue) = NoTask /\ queue' = Tail(queue)
          /\ phase' = phase /\ phase # "gone" /\ exited' = exited \cup {w}
      BY <2>6 DEF WorkerExits, LifeInv
    <3>2. /\ Len(queue) > 0 /\ queue[1] = NoTask /\ 1 \in 1..Len(queue)
          /\ \A i \in 1..Len(queue') : queue'[i] = queue[i + 1] /\ i + 1 \in 1..Len(queue)
      BY <3>1, QueueTail
    <3>3. phase # "open"
      BY <3>2 DEF EndInv
    <3>4. ASSUME NEW i \in 1..Len(queue') PROVE queue'[i] = NoTask
      <4>1. queue'[i] = queue[i + 1] /\ i + 1 \in 1..Len(queue)
        BY <3>2
      <4>2. 1 < i + 1
        OBVIOUS
      <4>3. QED
        BY <3>2, <4>1, <4>2 DEF EndInv
    <3>5. QED
      BY <3>1, <3>3, <3>4 DEF EndInv
  <2>7. ASSUME NEW o \in Objects, Move(o) \/ DestroyMovedFrom(o) PROVE EndInv'
    BY <2>7, <2>a DEF Move, DestroyMovedFrom, taskVars
  <2>8. ASSUME DestructorBegins PROVE EndInv'
    BY <2>8 DEF DestructorBegins, taskVars, EndInv
  <2>9. ASSUME DestructorPushes PROVE EndInv'
    <3>1. phase = "eof" /\ UNCHANGED <<exited, started, dispatched, status>>
      BY <2>9 DEF DestructorPushes, taskVars
    <3>2. CASE queue' = Append(queue, NoTask) /\ phase' = phase
      <4>1. /\ Len(queue') = Len(queue) + 1 /\ queue'[Len(queue) + 1] = NoTask
            /\ \A i \in 1..Len(queue) : queue'[i] = queue[i]
        BY <2>b, <3>2
      <4>2. \A i, j \in 1..Len(queue') : i < j /\ queue'[i] = NoTask => queue'[j] = NoTask
        BY <2>b, <4>1 DEF EndInv
      <4>3. exited # {} => \A i \in 1..Len(queue') : queue'[i] = NoTask
        BY <2>b, <4>1 DEF EndInv
      <4>4. QED
        BY <3>1, <3>2, <4>2, <4>3 DEF EndInv
    <3>3. CASE phase' = "join" /\ queue' = queue
      BY <3>1, <3>3 DEF EndInv
    <3>4. QED
      BY <2>9, <3>2, <3>3 DEF DestructorPushes
  <2>10. ASSUME DestructorJoins PROVE EndInv'
    <3>1. phase = "join" /\ UNCHANGED <<exited, size, started, dispatched, status, stack>>
      BY <2>10 DEF DestructorJoins, taskVars
    <3>2. CASE UNCHANGED <<queue, phase>>
      BY <2>a, <3>1, <3>2
    <3>3. CASE joined = size /\ phase' = "gone" /\ queue' = <<>>
      <4>1. size \in Nat /\ exited = Workers
        BY <3>3, WorkerTypes DEF LifeInv, TypeOK, Workers
      <4>2. \A i \in 1..Len(queue) : queue[i] = NoTask
        <5>1. CASE size = 0
          BY <2>b, <5>1 DEF LifeInv
        <5>2. CASE size # 0
          <6>1. 1 \in exited
            BY <4>1, <5>2 DEF Workers
          <6>2. QED
            BY <6>1 DEF EndInv
        <5>3. QED
          BY <5>1, <5>2
      <4>3. Len(started) = Len(dispatched)
        <5>1. /\ Len(started) \in Nat /\ Len(dispatched) \in Nat
              /\ \A k \in 1..Len(dispatched) : dispatched[k] \in Tasks
          BY DEF TypeOK
        <5>2. ASSUME Len(started) # Len(dispatched) PROVE FALSE
          <6>1. /\ Len(dispatched) \in Len(started) + 1..Len(dispatched)
                /\ Len(dispatched) \in 1..Len(dispatched)
            BY <5>1, <5>2 DEF OrderInv, Prefix
          <6>2. PICK i \in 1..Len(queue) : queue[i] = dispatched[Len(dispatched)]
            BY <3>1, <6>1 DEF OrderInv, Waiting
          <6>3. QED
            BY <2>b, <4>2, <5>1, <6>1, <6>2
        <5>3. QED
          BY <5>2
      <4>4. ASSUME NEW t \in Tasks PROVE status[t] \in Over
        <5>1. status[t] # "queued"
          BY <2>b, <3>1, <4>2 DEF QueueInv
        <5>2. \A a \in Actors : Len(stack[a]) = 0
          <6>1. \A a \in Actors : stack[a] = <<>>
            BY <3>1, <4>1 DEF LifeInv, Idle, Actors
          <6>2. QED
            BY <6>1
        <5>3. status[t] # "running"
          BY <5>2 DEF StackInv
        <5>4. QED
          BY <5>1, <5>3 DEF TypeOK, Over
      <4>5. Len(queue') = 0
        BY <3>3
      <4>6. QED
        BY <3>1, <3>3, <4>3, <4>4, <4>5 DEF EndInv
    <3>4. QED
      BY <2>10, <3>2, <3>3 DEF DestructorJoins
  <2>11. CASE UNCHANGED vars
    BY <2>11, <2>a DEF vars, poolVars, taskVars
  <2>12. QED
    BY <2>1, <2>2, <2>3, <2>4, <2>5, <2>6, <2>7, <2>8, <2>9, <2>10, <2>11, Steps
<1>3. TypeOK /\ LifeInv /\ OrderInv /\ EndInv => AllExecuted
  <2> SUFFICES ASSUME TypeOK, LifeInv, OrderInv, EndInv, phase = "gone"
               PROVE  /\ exited = Workers
                      /\ \A t \in Tasks : status[t] \in Over
                      /\ started = dispatched
    BY DEF AllExecuted
  <2>1. /\ started \in Seq(Tasks) /\ dispatched \in Seq(Tasks)
        /\ Len(started) = Len(dispatched)
        /\ \A k \in 1..Len(started) : started[k] = dispatched[k]
    BY DEF TypeOK, EndInv, OrderInv, Prefix
  <2>2. started = dispatched
    BY <2>1
  <2>3. QED
    BY <2>2 DEF LifeInv, EndInv
<1>4. QED
  BY <1>1, <1>2, <1>3, TypeCorrect, LifeCorrect, TasksInPlace, OrderCorrect, PTL DEF Spec
=============================================================================
