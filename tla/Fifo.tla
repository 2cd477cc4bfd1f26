-------------------------------- MODULE Fifo --------------------------------
(***************************************************************************)
(* What nanonet::util::safe_queue promises its callers: a FIFO of at most  *)
(* Capacity elements (any number when it is not Bounded), on which push()  *)
(* and pop() take effect atomically at one instant between their call and  *)
(* their return.  A push() waits only while the queue is full, a pop()     *)
(* only while it is empty.  Nothing is said of mutexes, condition          *)
(* variables or wakeups: SafeQueue implements this specification.          *)
(***************************************************************************)
EXTENDS Naturals, Sequences

CONSTANTS Threads,    \* the threads that call the queue
          Values,     \* the elements
          NoVal,      \* "no element": the thread is not in a call
          Bounded,    \* the template parameter BOUNDED
          Capacity    \* the constructor's argument, when Bounded

VARIABLES buf,   \* the elements, oldest first
          st,    \* st[t]: where thread t is with respect to its call
          arg    \* arg[t]: the element t pushes, or has popped

fifoVars == <<buf, st, arg>>

FifoInit == /\ buf = <<>>
            /\ st  = [t \in Threads |-> "idle"]
            /\ arg = [t \in Threads |-> NoVal]

CallPush(t, v) == /\ st[t] = "idle"
                  /\ st'  = [st EXCEPT ![t] = "pushing"]
                  /\ arg' = [arg EXCEPT ![t] = v]
                  /\ UNCHANGED buf

CallPop(t) == /\ st[t] = "idle"
              /\ st' = [st EXCEPT ![t] = "popping"]
              /\ UNCHANGED <<buf, arg>>

\* The instants at which the two operations take effect.
DoPush(t) == /\ st[t] = "pushing"
             /\ Bounded => Len(buf) < Capacity
             /\ buf' = Append(buf, arg[t])
             /\ st'  = [st EXCEPT ![t] = "pushed"]
             /\ UNCHANGED arg

DoPop(t) == /\ st[t] = "popping"
            /\ buf # <<>>
            /\ arg' = [arg EXCEPT ![t] = Head(buf)]
            /\ buf' = Tail(buf)
            /\ st'  = [st EXCEPT ![t] = "popped"]

Return(t) == /\ st[t] \in {"pushed", "popped"}
             /\ st'  = [st EXCEPT ![t] = "idle"]
             /\ arg' = [arg EXCEPT ![t] = NoVal]
             /\ UNCHANGED buf

FifoNext == \E t \in Threads :
               \/ \E v \in Values : CallPush(t, v)
               \/ CallPop(t)
               \/ DoPush(t)
               \/ DoPop(t)
               \/ Return(t)

FifoSafe == FifoInit /\ [][FifoNext]_fifoVars

\* No operation is forgotten: while the queue has room and somebody is in
\* push(), some push takes effect; while it has elements and somebody is in
\* pop(), some pop does; and a call that took effect returns.
FifoLive == /\ WF_fifoVars(\E t \in Threads : DoPush(t))
            /\ WF_fifoVars(\E t \in Threads : DoPop(t))
            /\ \A t \in Threads : WF_fifoVars(Return(t))

FifoSpec == FifoSafe /\ FifoLive
=============================================================================
