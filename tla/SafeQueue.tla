------------------------------ MODULE SafeQueue ------------------------------
(***************************************************************************)
(* nanonet::util::safe_queue<T, BOUNDED> (include/nanonet/safe_queue.h):   *)
(* a std::queue guarded by one mutex, with one condition variable for      *)
(* readers (has_data) and one for writers (has_space).                     *)
(*                                                                         *)
(* The steps are the ones another thread can observe: acquiring the mutex, *)
(* the body of the critical section up to the wait or the unlock, and the  *)
(* notification, which the code issues after it has released the mutex.    *)
(* A thread in pop_wait (push_wait) is in the wait set of has_data         *)
(* (has_space); condition variables may wake up spuriously.                *)
(***************************************************************************)
EXTENDS Naturals, Sequences, FiniteSets

CONSTANTS Producers,   \* threads that call push(), full()
          Consumers,   \* threads that call pop(), empty(); may overlap
          Values, NoVal, NoThread,
          Bounded,     \* template parameter BOUNDED
          Capacity,    \* capacity_
          MaxBacklog   \* model bound: pushes that wait or are queued

Threads == Producers \cup Consumers

\* The checks of the constructor, and a finite set of threads.
ASSUME QueueAssumption ==
  /\ IsFiniteSet(Threads)
  /\ NoThread \notin Threads
  /\ NoVal \notin Values
  /\ Bounded \in BOOLEAN
  /\ Capacity \in Nat
  /\ Capacity >= 1
  /\ MaxBacklog \in Nat

VARIABLES q,      \* the std::queue
          m,      \* owner of the mutex, or NoThread
          pc,     \* pc[t]: where t is in push() or pop()
          val,    \* val[t]: argument of push(), result of pop()
          hint    \* hint[t]: what t learned from empty() or full(), as long
                  \* as no pop() (push()) has made it stale: "data" (the
                  \* queue is not empty) or "space" (it is not full)

vars == <<q, m, pc, val, hint>>

PushPC == {"push_lock", "push_test", "push_wait", "push_notify"}
PopPC  == {"pop_lock", "pop_test", "pop_wait", "pop_unlocked"}
At(L)  == {t \in Threads : pc[t] \in L}

Init == /\ q    = <<>>
        /\ m    = NoThread
        /\ pc   = [t \in Threads |-> "idle"]
        /\ val  = [t \in Threads |-> NoVal]
        /\ hint = [t \in Threads |-> "none"]

IsFull == Bounded /\ Len(q) = Capacity

\* The hints after somebody pushed (space) or popped (data).
Stale(h) == [t \in Threads |-> IF hint[t] = h THEN "none" ELSE hint[t]]

\* t acquires the mutex, on entry or when it returns from wait().
Lock(t, from, to) == /\ pc[t] = from
                     /\ m = NoThread
                     /\ m'  = t
                     /\ pc' = [pc EXCEPT ![t] = to]
                     /\ UNCHANGED <<q, val, hint>>

\* wait(): releases the mutex and enters the wait set in one step.
Wait(t, from, to) == /\ pc[t] = from
                     /\ m'  = NoThread
                     /\ pc' = [pc EXCEPT ![t] = to]
                     /\ UNCHANGED <<q, val, hint>>

\* t calls notify_one() and returns: one thread of the wait set, if there is
\* one, has to compete for the mutex again.
NotifyAndReturn(t, waiting, woken) ==
  /\ \/ \E w \in At({waiting}) :
          pc' = [pc EXCEPT ![w] = woken, ![t] = "idle"]
     \/ /\ At({waiting}) = {}
        /\ pc' = [pc EXCEPT ![t] = "idle"]
  /\ val' = [val EXCEPT ![t] = NoVal]
  /\ UNCHANGED <<q, m, hint>>

-----------------------------------------------------------------------------
(* push() *)

PushCall(t, v) == /\ pc[t] = "idle"
                  /\ Len(q) + Cardinality(At(PushPC)) < MaxBacklog
                  /\ pc'  = [pc EXCEPT ![t] = "push_lock"]
                  /\ val' = [val EXCEPT ![t] = v]
                  /\ UNCHANGED <<q, m, hint>>

PushLock(t) == Lock(t, "push_lock", "push_test")

PushWait(t) == IsFull /\ Wait(t, "push_test", "push_wait")

PushItem(t) == /\ pc[t] = "push_test"
               /\ ~IsFull
               /\ q'    = Append(q, val[t])
               /\ m'    = NoThread
               /\ pc'   = [pc EXCEPT ![t] = "push_notify"]
               /\ hint' = Stale("space")
               /\ UNCHANGED val

\* Mutation: notify only when the queue has just become non-empty.
PushNotify_WhenFirst(t) ==
  /\ pc[t] = "push_notify"
  /\ \/ Len(q) = 1 /\ NotifyAndReturn(t, "pop_wait", "pop_lock")
     \/ /\ Len(q) # 1
        /\ pc'  = [pc EXCEPT ![t] = "idle"]
        /\ val' = [val EXCEPT ![t] = NoVal]
        /\ UNCHANGED <<q, m, hint>>

PushNotify(t) == /\ pc[t] = "push_notify"
                 /\ NotifyAndReturn(t, "pop_wait", "pop_lock")

-----------------------------------------------------------------------------
(* pop() *)

PopCall(t) == /\ pc[t] = "idle"
              /\ pc' = [pc EXCEPT ![t] = "pop_lock"]
              /\ UNCHANGED <<q, m, val, hint>>

PopLock(t) == Lock(t, "pop_lock", "pop_test")

PopWait(t) == q = <<>> /\ Wait(t, "pop_test", "pop_wait")

\* Mutation: takes the newest element.
PopItem_Back(t) == /\ pc[t] = "pop_test"
                   /\ q # <<>>
                   /\ val'  = [val EXCEPT ![t] = q[Len(q)]]
                   /\ q'    = SubSeq(q, 1, Len(q) - 1)
                   /\ m'    = NoThread
                   /\ pc'   = [pc EXCEPT ![t] = "pop_unlocked"]
                   /\ hint' = Stale("data")

PopItem(t) == /\ pc[t] = "pop_test"
              /\ q # <<>>
              /\ val'  = [val EXCEPT ![t] = Head(q)]
              /\ q'    = Tail(q)
              /\ m'    = NoThread
              /\ pc'   = [pc EXCEPT ![t] = "pop_unlocked"]
              /\ hint' = Stale("data")

\* Only a bounded queue can have writers to notify.
PopReturn(t) ==
  /\ pc[t] = "pop_unlocked"
  /\ \/ Bounded /\ NotifyAndReturn(t, "push_wait", "push_lock")
     \/ /\ ~Bounded
        /\ pc'  = [pc EXCEPT ![t] = "idle"]
        /\ val' = [val EXCEPT ![t] = NoVal]
        /\ UNCHANGED <<q, m, hint>>

-----------------------------------------------------------------------------
(* empty(), full(), and what condition variables may do on their own *)

\* Mutation: true and false exchanged.
Empty_Negated(t) == /\ pc[t] = "idle"
                    /\ m = NoThread
                    /\ hint' = [hint EXCEPT ![t] = IF q = <<>> THEN "data" ELSE "none"]
                    /\ UNCHANGED <<q, m, pc, val>>

Empty(t) == /\ pc[t] = "idle"
            /\ m = NoThread
            /\ hint' = [hint EXCEPT ![t] = IF q # <<>> THEN "data" ELSE "none"]
            /\ UNCHANGED <<q, m, pc, val>>

\* full() of an unbounded queue returns false without taking the mutex.
Full(t) == /\ pc[t] = "idle"
           /\ Bounded => m = NoThread
           /\ hint' = [hint EXCEPT ![t] = IF IsFull THEN "none" ELSE "space"]
           /\ UNCHANGED <<q, m, pc, val>>

SpuriousWakeup(t) ==
  /\ \/ /\ pc[t] = "pop_wait"
        /\ pc' = [pc EXCEPT ![t] = "pop_lock"]
     \/ /\ pc[t] = "push_wait"
        /\ pc' = [pc EXCEPT ![t] = "push_lock"]
  /\ UNCHANGED <<q, m, val, hint>>

ProducerStep(t) == \/ \E v \in Values : PushCall(t, v)
                   \/ Full(t)
                   \/ PushLock(t)
                   \/ PushWait(t)
                   \/ PushItem(t)
                   \/ PushNotify(t)

ConsumerStep(t) == \/ PopCall(t)
                   \/ Empty(t)
                   \/ PopLock(t)
                   \/ PopWait(t)
                   \/ PopItem(t)
                   \/ PopReturn(t)

Next == \/ \E t \in Producers : ProducerStep(t)
        \/ \E t \in Consumers : ConsumerStep(t)
        \/ \E t \in Threads   : SpuriousWakeup(t)

Spec == Init /\ [][Next]_vars

\* A thread that is running keeps running (weak fairness of its steps), and
\* the mutex, though contended, is granted to each thread that keeps asking
\* (strong fairness).  Nobody has to call anything, and no spurious wakeup
\* ever has to happen.
Fairness ==
  /\ \A t \in Producers : /\ SF_vars(PushLock(t))
                          /\ WF_vars(PushWait(t) \/ PushItem(t) \/ PushNotify(t))
  /\ \A t \in Consumers : /\ SF_vars(PopLock(t))
                          /\ WF_vars(PopWait(t) \/ PopItem(t) \/ PopReturn(t))

FairSpec == Spec /\ Fairness

-----------------------------------------------------------------------------
(* Properties *)

\* Every variable has its type, exactly the thread that tests the loop
\* condition of push() or pop() owns the mutex, and push() has its argument.
TypeOK ==
  /\ q \in Seq(Values)
  /\ m \in Threads \cup {NoThread}
  /\ pc \in [Threads -> {"idle"} \cup PushPC \cup PopPC]
  /\ val \in [Threads -> Values \cup {NoVal}]
  /\ hint \in [Threads -> {"none", "data", "space"}]
  /\ \A t \in Threads : pc[t] \in {"push_test", "pop_test"} <=> m = t
  /\ \A t \in Threads : pc[t] \in PushPC => val[t] \in Values

\* A bounded queue never holds more than Capacity elements, whatever writers
\* were woken together and whichever of them gets the mutex first
\* (the while loop of push()).
WithinCapacity == Bounded => Len(q) <= Capacity

\* No wakeup of a reader is lost although push() notifies after it has
\* released the mutex: while some reader sleeps on has_data, every element
\* in the queue has a thread of its own that will fetch it or that has still
\* to notify for it.
NoLostData ==
  At({"pop_wait"}) # {} =>
    Len(q) <= Cardinality(At({"pop_lock", "pop_test", "push_notify"}))

\* The same for the writers of a bounded queue: while one sleeps on
\* has_space, every free place has a thread that will fill it or that has
\* still to notify for it (pop()).
NoLostSpace ==
  At({"push_wait"}) # {} =>
    Capacity - Len(q) <=
      Cardinality(At({"push_lock", "push_test", "pop_unlocked"}))

\* No notification is lost on either condition variable.
NoLostWakeup == NoLostData /\ NoLostSpace

\* "If a previous call to empty() returned false and there is only one
\* consumer, pop() does not block" (the comment on pop()), and more generally
\* as long as nobody else popped in between.
EmptyThenPop == \A t \in Threads : hint[t] = "data" => pc[t] # "pop_wait"

\* The mirror image, on which a sole producer relies: after full() returned
\* false, its next push() does not block.
FullThenPush == \A t \in Threads : hint[t] = "space" => pc[t] # "push_wait"

\* The answers of empty() and full(), given with the mutex held and used
\* without it, can be relied on by a sole consumer and a sole producer.
AnswersHold == EmptyThenPop /\ FullThenPush

\* The queue implements the FIFO: mutex, wait sets and wakeups are hidden,
\* an operation takes effect where q changes.
AbsSt(l) == CASE l = "idle" -> "idle"
              [] l \in {"push_lock", "push_test", "push_wait"} -> "pushing"
              [] l = "push_notify" -> "pushed"
              [] l \in {"pop_lock", "pop_test", "pop_wait"} -> "popping"
              [] l = "pop_unlocked" -> "popped"

F == INSTANCE Fifo WITH buf <- q,
                        st  <- [t \in Threads |-> AbsSt(pc[t])],
                        arg <- val

\* push() and pop() are atomic FIFO operations: no element is lost,
\* duplicated or overtaken, whatever the interleaving.
ImplementsFifo == F!FifoSafe

\* Nobody sleeps for ever beside work: while there are elements some pop()
\* in progress completes, while there is room some push() does.
ImplementsFifoLive == F!FifoLive
=============================================================================
