------------------------------ MODULE ThreadPool ------------------------------
(***************************************************************************)
(* nanonet::dispatch::thread_pool (include/nanonet/dispatch.h,             *)
(* src/dispatch.cpp): worker threads that execute the tasks of one         *)
(* unbounded safe_queue, and the destructor that stops them with one end   *)
(* token per worker.  push() and pop() of the queue are atomic here: that  *)
(* is what SafeQueue is shown to implement (module Fifo).                  *)
(*                                                                         *)
(* A task is a black box that may dispatch further tasks while it runs and *)
(* ends normally or with an exception.  The owner is the thread that       *)
(* constructs, moves and destroys the pool; like every C++ object the pool *)
(* may not be used by other clients any more when its destruction begins,  *)
(* but tasks it is still executing may use it (LateDispatch).              *)
(***************************************************************************)
EXTENDS Naturals, Sequences

CONSTANTS Sizes,          \* the values of the constructor's argument n
          Owner,          \* thread that moves and destroys the pool
          Clients,        \* other threads that dispatch tasks
          Tasks,          \* the tasks ever dispatched (bounds the model)
          Objects,        \* thread_pool objects: the pool moves among them
          First,          \* the object that is constructed
          NoTask, NoObject,
          NestedDispatch, \* tasks may call dispatch() on their own pool ...
          LateDispatch,   \* ... even after its destructor has begun
          NestedWait      \* tasks may call dispatch_returning() on it

AllWorkers == UNION {1..k : k \in Sizes}
Callers    == Clients \cup {Owner}
Actors     == AllWorkers \cup Callers

ASSUME PoolAssumption ==
  /\ Sizes \subseteq Nat      \* verify(n_threads >= 0)
  /\ Owner \notin Clients
  /\ Callers \cap AllWorkers = {}
  /\ NoTask \notin Tasks
  /\ First \in Objects
  /\ NoObject \notin Objects
  /\ NestedDispatch \in BOOLEAN
  /\ LateDispatch \in BOOLEAN
  /\ NestedWait \in BOOLEAN

VARIABLES
  size,        \* the constructor's argument: number of worker threads
  queue,       \* *tasks: tasks, and NoTask for a token with continue = false
  holder,      \* the object whose tasks pointer is not null
  alive,       \* the objects in their lifetime
  phase,       \* of the pool: "open", "eof", "join", "gone"
  eofs,        \* end tokens pushed by the destructor
  joined,      \* workers joined by the destructor
  exited,      \* workers whose thread_function returned
  stack,       \* stack[a]: the tasks a is executing, innermost first
  wait,        \* wait[a]: the task whose future a waits for
  status,      \* status[t]: "new", "queued", "running", "done", "failed" (an
               \* exception), "refused" (by a moved-from pool)
  wrapped,     \* tasks whose wrapper refers to the frame of their caller
  dispatched,  \* tasks in the order in which the pool accepted them
  started      \* tasks in the order in which their execution began

poolVars == <<size, queue, holder, alive, phase, eofs, joined, exited>>
taskVars == <<stack, wait, status, wrapped, dispatched, started>>
vars == <<poolVars, taskVars>>

Workers == 1..size

Init == /\ size \in Sizes
        /\ queue = <<>>
        /\ holder = First
        /\ alive = {First}
        /\ phase = "open"
        /\ eofs = 0
        /\ joined = 0
        /\ exited = {}
        /\ stack = [a \in Actors |-> <<>>]
        /\ wait = [a \in Actors |-> NoTask]
        /\ status = [t \in Tasks |-> "new"]
        /\ wrapped = {}
        /\ dispatched = <<>>
        /\ started = <<>>

\* num_workers(): the vector of threads moves together with the pointer.
num_workers(o) == IF o = holder THEN size ELSE 0

\* The code a is running may call the pool.
Running(a) == wait[a] = NoTask /\ (a \in AllWorkers => stack[a] # <<>>)

MayDispatch(a) ==
  /\ Running(a)
  /\ stack[a] # <<>> => NestedDispatch
  /\ phase # "open" => LateDispatch /\ stack[a] # <<>>

-----------------------------------------------------------------------------
(* dispatch() and dispatch_returning() on the object o *)

\* Mutation: the newest task is executed first.
Enqueue_Front(o, t) == /\ num_workers(o) > 0
                       /\ status' = [status EXCEPT ![t] = "queued"]
                       /\ queue' = <<t>> \o queue
                       /\ dispatched' = Append(dispatched, t)

\* Mutation: tasks of a pool without workers are queued, too.
Enqueue_Always(o, t) == /\ status' = [status EXCEPT ![t] = "queued"]
                        /\ queue' = Append(queue, t)
                        /\ dispatched' = Append(dispatched, t)

\* tasks->push(): the pool has workers.
Enqueue(o, t) == /\ num_workers(o) > 0
                 /\ status' = [status EXCEPT ![t] = "queued"]
                 /\ queue' = Append(queue, t)
                 /\ dispatched' = Append(dispatched, t)

\* t(): no workers, the caller executes t itself.
RunHere(a, o, t) == /\ num_workers(o) = 0
                    /\ status' = [status EXCEPT ![t] = "running"]
                    /\ stack' = [stack EXCEPT ![a] = <<t>> \o @]

\* The pool object o executes t in the calling thread: the order of its
\* tasks is recorded unless it is a moved-from object.
RecordHere(o, t) ==
  \/ /\ o = holder
     /\ dispatched' = Append(dispatched, t)
     /\ started' = Append(started, t)
  \/ o # holder /\ UNCHANGED <<dispatched, started>>

dispatch(a, o, t) ==
  /\ MayDispatch(a) /\ o \in alive /\ status[t] = "new"
  /\ o = holder                      \* verify: not moved from
  /\ \/ Enqueue(o, t) /\ UNCHANGED <<stack, started>>
     \/ RunHere(a, o, t) /\ RecordHere(o, t) /\ UNCHANGED queue
  /\ UNCHANGED <<size, holder, alive, phase, eofs, joined, exited, wait, wrapped>>

\* verify() throws on a moved-from pool: t is not executed.
dispatch_throws(a, o, t) ==
  /\ MayDispatch(a) /\ o \in alive /\ status[t] = "new"
  /\ o # holder
  /\ status' = [status EXCEPT ![t] = "refused"]
  /\ UNCHANGED <<poolVars, stack, wait, wrapped, dispatched, started>>

\* The wrapper holds a reference to the caller's t: the caller blocks on the
\* wrapper's future.  A moved-from object has no workers, so t is executed in
\* the calling thread and nothing is thrown.
dispatch_returning(a, o, t) ==
  /\ MayDispatch(a) /\ o \in alive /\ status[t] = "new"
  /\ stack[a] # <<>> /\ num_workers(o) > 0 => NestedWait
  /\ \/ /\ Enqueue(o, t)
        /\ wait' = [wait EXCEPT ![a] = t]
        /\ wrapped' = wrapped \cup {t}
        /\ UNCHANGED <<stack, started>>
     \/ /\ RunHere(a, o, t)
        /\ RecordHere(o, t)
        /\ UNCHANGED <<queue, wait, wrapped>>
  /\ UNCHANGED <<size, holder, alive, phase, eofs, joined, exited>>

\* Mutation: returns without waiting for the future.
WaitReturns_AtOnce(a) == /\ wait[a] # NoTask
                         /\ wait' = [wait EXCEPT ![a] = NoTask]
                         /\ UNCHANGED <<poolVars, stack, status, wrapped,
                                        dispatched, started>>

\* wfut.get() and tfut.get() return (exceptions are logged and swallowed).
WaitReturns(a) == /\ wait[a] # NoTask
                  /\ status[wait[a]] \in {"done", "failed"}
                  /\ wait' = [wait EXCEPT ![a] = NoTask]
                  /\ UNCHANGED <<poolVars, stack, status, wrapped, dispatched, started>>

\* The innermost task of a ends; the packaged_task stores its result or its
\* exception.
TaskEnds(a) ==
  /\ stack[a] # <<>> /\ wait[a] = NoTask
  /\ \E r \in {"done", "failed"} :
       status' = [status EXCEPT ![Head(stack[a])] = r]
  /\ stack' = [stack EXCEPT ![a] = Tail(@)]
  /\ UNCHANGED <<poolVars, wait, wrapped, dispatched, started>>

-----------------------------------------------------------------------------
(* thread_function() *)

\* pop() of a task, which the worker executes.
WorkerPops(w) == /\ w \in Workers \ exited /\ stack[w] = <<>>
                 /\ queue # <<>> /\ Head(queue) # NoTask
                 /\ queue' = Tail(queue)
                 /\ stack' = [stack EXCEPT ![w] = <<Head(queue)>>]
                 /\ status' = [status EXCEPT ![Head(queue)] = "running"]
                 /\ started' = Append(started, Head(queue))
                 /\ UNCHANGED <<size, holder, alive, phase, eofs, joined, exited,
                                wait, wrapped, dispatched>>

\* Mutation: the token is seen but left in the queue.
WorkerExits_LeavesToken(w) ==
  /\ w \in Workers \ exited /\ stack[w] = <<>>
  /\ queue # <<>> /\ Head(queue) = NoTask
  /\ exited' = exited \cup {w}
  /\ UNCHANGED <<size, queue, holder, alive, phase, eofs, joined, taskVars>>

\* pop() of an end token.
WorkerExits(w) == /\ w \in Workers \ exited /\ stack[w] = <<>>
                  /\ queue # <<>> /\ Head(queue) = NoTask
                  /\ queue' = Tail(queue)
                  /\ exited' = exited \cup {w}
                  /\ UNCHANGED <<size, holder, alive, phase, eofs, joined, taskVars>>

-----------------------------------------------------------------------------
(* Moves and destruction, by the owner outside of any call *)

Idle(c) == stack[c] = <<>> /\ wait[c] = NoTask

\* Move construction of dst, or move assignment to an object without a pool.
Move(dst) == /\ Idle(Owner)
             /\ phase = "open"
             /\ holder \in alive
             /\ dst # holder
             /\ holder' = dst
             /\ alive' = alive \cup {dst}
             /\ UNCHANGED <<size, queue, phase, eofs, joined, exited, taskVars>>

\* The destructor of a moved-from object returns at once.
DestroyMovedFrom(o) == /\ Idle(Owner)
                       /\ phase \in {"open", "gone"}
                       /\ o \in alive \ {holder}
                       /\ alive' = alive \ {o}
                       /\ UNCHANGED <<size, queue, holder, phase, eofs, joined,
                                      exited, taskVars>>

\* ~thread_pool() begins when no other client is in a call.
DestructorBegins == /\ \A c \in Callers : Idle(c)
                    /\ phase = "open"
                    /\ phase' = "eof"
                    /\ UNCHANGED <<size, queue, holder, alive, eofs, joined, exited,
                                   taskVars>>

\* Mutation: one end token for all workers.
DestructorPushes_Once ==
  /\ phase = "eof"
  /\ queue' = Append(queue, NoTask)
  /\ phase' = "join"
  /\ UNCHANGED <<size, holder, alive, eofs, joined, exited, taskVars>>

\* Mutation: the end tokens overtake the tasks.
DestructorPushes_Front ==
  /\ phase = "eof"
  /\ \/ /\ eofs < size
        /\ queue' = <<NoTask>> \o queue
        /\ eofs' = eofs + 1
        /\ UNCHANGED phase
     \/ /\ eofs = size
        /\ phase' = "join"
        /\ UNCHANGED <<queue, eofs>>
  /\ UNCHANGED <<size, holder, alive, joined, exited, taskVars>>

\* One iteration of the loop that pushes the end tokens, or its end.
DestructorPushes ==
  /\ phase = "eof"
  /\ \/ /\ eofs < size
        /\ queue' = Append(queue, NoTask)
        /\ eofs' = eofs + 1
        /\ UNCHANGED phase
     \/ /\ eofs = size
        /\ phase' = "join"
        /\ UNCHANGED <<queue, eofs>>
  /\ UNCHANGED <<size, holder, alive, joined, exited, taskVars>>

\* One iteration of the loop that joins the workers in order, or its end:
\* then the members are destroyed, the queue with whatever is left in it.
DestructorJoins ==
  /\ phase = "join"
  /\ \/ /\ joined < size
        /\ joined + 1 \in exited
        /\ joined' = joined + 1
        /\ UNCHANGED <<queue, phase, alive, holder>>
     \/ /\ joined = size
        /\ phase' = "gone"
        /\ queue' = <<>>
        /\ alive' = alive \ {holder}
        /\ holder' = NoObject
        /\ UNCHANGED joined
  /\ UNCHANGED <<size, eofs, exited, taskVars>>

\* The program has nothing more to do with the pool.
Finished == phase = "gone" /\ alive = {} /\ UNCHANGED vars

CallerStep(a) == \E o \in Objects, t \in Tasks : \/ dispatch(a, o, t)
                                                 \/ dispatch_throws(a, o, t)
                                                 \/ dispatch_returning(a, o, t)

ActorStep(a) == WaitReturns(a) \/ TaskEnds(a)

WorkerStep(w) == WorkerPops(w) \/ WorkerExits(w)

OwnerStep == \/ \E o \in Objects : Move(o) \/ DestroyMovedFrom(o)
             \/ DestructorBegins

Next == \/ \E a \in Actors : CallerStep(a) \/ ActorStep(a)
        \/ \E w \in AllWorkers : WorkerStep(w)
        \/ OwnerStep
        \/ DestructorPushes
        \/ DestructorJoins
        \/ Finished

Spec == Init /\ [][Next]_vars

\* Threads keep running and every task ends.  Nobody has to dispatch anything,
\* nor to destroy the pool; the destructor, once begun, goes on.
Fairness == /\ \A a \in Actors : WF_vars(ActorStep(a))
            /\ \A w \in AllWorkers : WF_vars(WorkerStep(w))
            /\ WF_vars(DestructorPushes)
            /\ WF_vars(DestructorJoins)

FairSpec == Spec /\ Fairness

-----------------------------------------------------------------------------
(* Properties *)

\* Every variable has its type.
TypeOK ==
  /\ size \in Sizes
  /\ queue \in Seq(Tasks \cup {NoTask})
  /\ holder \in Objects \cup {NoObject}
  /\ alive \in SUBSET Objects
  /\ phase \in {"open", "eof", "join", "gone"}
  /\ eofs \in 0..size
  /\ joined \in 0..size
  /\ exited \in SUBSET Workers
  /\ stack \in [Actors -> Seq(Tasks)]
  /\ wait \in [Actors -> Tasks \cup {NoTask}]
  /\ status \in [Tasks -> {"new", "queued", "running", "done", "failed",
                           "refused"}]
  /\ wrapped \in SUBSET Tasks
  /\ dispatched \in Seq(Tasks)
  /\ started \in Seq(Tasks)

Over == {"new", "done", "failed", "refused"}

\* "Causes the dispatching thread to exit after all queued tasks have been
\* executed": when the pool is gone every worker has exited, no task is queued
\* or running, and the accepted tasks were executed once each and in order
\* of acceptance.
AllExecuted ==
  phase = "gone" => /\ exited = Workers
                    /\ \A t \in Tasks : status[t] \in Over
                    /\ started = dispatched

\* "FIFO order is guaranteed if num_workers() <= 1": tasks begin in the order
\* in which they were accepted and, with one worker, only when the previous
\* one has ended.
FifoOrder ==
  size <= 1 =>
    /\ Len(started) <= Len(dispatched)
    /\ \A i \in 1..Len(started) : started[i] = dispatched[i]
    /\ size = 1 => \A i \in 1..Len(started) - 1 :
                            status[started[i]] \in {"done", "failed"}

\* dispatch_returning() hands the workers a reference to its argument: while
\* they can still use it, the caller is blocked in that call.
ReferenceAlive ==
  \A t \in wrapped : status[t] \in {"queued", "running"} =>
                        \E a \in Actors : wait[a] = t

\* Once begun, the destructor returns: there is an end token for each worker
\* and no worker takes two.
DestructorReturns == phase = "eof" ~> phase = "gone"

\* dispatch_returning() of a client returns.
CallsReturn == \A c \in Callers : wait[c] # NoTask ~> wait[c] = NoTask
=============================================================================
