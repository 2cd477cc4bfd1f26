--------------------------- MODULE SafeQueueProofs ---------------------------
(***************************************************************************)
(* Proofs about SafeQueue, for every finite set of threads, every capacity *)
(* and every bound on the backlog.                                         *)
(***************************************************************************)
EXTENDS SafeQueue, FiniteSetTheorems, TLAPS

\* Every step of the queue keeps the types and the ownership of the mutex:
\* it is taken only when free and released before the thread leaves the
\* critical section.
THEOREM TypeCorrect == Spec => []TypeOK
<1>1. Init => TypeOK
  BY QueueAssumption DEF Init, TypeOK, PushPC, PopPC
<1>2. TypeOK /\ [Next]_vars => TypeOK'
  <2> SUFFICES ASSUME TypeOK, [Next]_vars PROVE TypeOK'
    OBVIOUS
  <2> USE QueueAssumption DEF TypeOK, PushPC, PopPC
  <2>1. ASSUME NEW t \in Producers, NEW v \in Values, PushCall(t, v) PROVE TypeOK'
    BY <2>1 DEF PushCall, Threads
  <2>2. ASSUME NEW t \in Producers, Full(t) PROVE TypeOK'
    BY <2>2 DEF Full, Threads
  <2>3. ASSUME NEW t \in Producers, PushLock(t) PROVE TypeOK'
    BY <2>3 DEF PushLock, Lock, Threads
  <2>4. ASSUME NEW t \in Producers, PushWait(t) PROVE TypeOK'
    BY <2>4 DEF PushWait, Wait, Threads
  <2>5. ASSUME NEW t \in Producers, PushItem(t) PROVE TypeOK'
    BY <2>5 DEF PushItem, Stale, Threads
  <2>6. ASSUME NEW t \in Producers, PushNotify(t) PROVE TypeOK'
    BY <2>6 DEF PushNotify, NotifyAndReturn, At, Threads
  <2>7. ASSUME NEW t \in Consumers, PopCall(t) PROVE TypeOK'
    BY <2>7 DEF PopCall, Threads
  <2>8. ASSUME NEW t \in Consumers, Empty(t) PROVE TypeOK'
    BY <2>8 DEF Empty, Threads
  <2>9. ASSUME NEW t \in Consumers, PopLock(t) PROVE TypeOK'
    BY <2>9 DEF PopLock, Lock, Threads
  <2>10. ASSUME NEW t \in Consumers, PopWait(t) PROVE TypeOK'
    BY <2>10 DEF PopWait, Wait, Threads
  <2>11. ASSUME NEW t \in Consumers, PopItem(t) PROVE TypeOK'
    BY <2>11 DEF PopItem, Stale, Threads
  <2>12. ASSUME NEW t \in Consumers, PopReturn(t) PROVE TypeOK'
    BY <2>12 DEF PopReturn, NotifyAndReturn, At, Threads
  <2>13. ASSUME NEW t \in Threads, SpuriousWakeup(t) PROVE TypeOK'
    BY <2>13 DEF SpuriousWakeup, Threads
  <2>14. CASE UNCHANGED vars
    BY <2>14 DEF vars
  <2>15. QED
    BY <2>1, <2>2, <2>3, <2>4, <2>5, <2>6, <2>7, <2>8, <2>9, <2>10, <2>11, <2>12, <2>13, <2>14 DEF Next, ProducerStep, ConsumerStep
<1>3. QED BY <1>1, <1>2, PTL DEF Spec

-----------------------------------------------------------------------------
(* Wait sets and cardinalities *)

\* What a notification does: w is woken and the notifier t returns.
LEMMA AtNotify ==
  ASSUME TypeOK, NEW t \in Threads, NEW w \in Threads, w # t, NEW l, NEW L,
         l \in L, "idle" \notin L,
         pc' = [pc EXCEPT ![w] = l, ![t] = "idle"]
  PROVE  At(L)' = (At(L) \ {t}) \cup {w}
BY DEF TypeOK, At

\* The sets of threads are finite and their cardinalities are numbers.
LEMMA AtFinite ==
  ASSUME NEW L
  PROVE  IsFiniteSet(At(L)) /\ Cardinality(At(L)) \in Nat
<1>1. At(L) \in SUBSET Threads
  BY DEF At
<1>2. QED
  BY <1>1, FS_Subset, FS_CardinalityType, QueueAssumption

\* Cardinality of a finite set after one element joins or leaves it.
LEMMA AddRemove ==
  ASSUME NEW S, IsFiniteSet(S), NEW x
  PROVE  /\ Cardinality(S) \in Nat
         /\ x \in S => Cardinality(S \cup {x}) = Cardinality(S)
         /\ x \notin S => Cardinality(S \cup {x}) = Cardinality(S) + 1
         /\ x \in S => Cardinality(S \ {x}) = Cardinality(S) - 1
         /\ x \notin S => Cardinality(S \ {x}) = Cardinality(S)
BY FS_AddElement, FS_RemoveElement, FS_CardinalityType

\* Replacing one member of a finite set by a new one keeps its cardinality.
LEMMA Exchange ==
  ASSUME NEW S, IsFiniteSet(S), NEW x \in S, NEW y, y \notin S
  PROVE  Cardinality((S \ {x}) \cup {y}) = Cardinality(S)
<1>1. /\ IsFiniteSet(S \ {x})
      /\ Cardinality(S \ {x}) = Cardinality(S) - 1
  BY FS_RemoveElement
<1>2. Cardinality((S \ {x}) \cup {y}) = Cardinality(S \ {x}) + 1
  BY <1>1, FS_AddElement
<1>3. QED
  BY <1>1, <1>2, FS_CardinalityType

-----------------------------------------------------------------------------
(* Capacity *)

\* No interleaving of writers and readers overfills a bounded queue.
THEOREM CapacityRespected == Spec => []WithinCapacity
<1>1. Init => WithinCapacity
  BY QueueAssumption DEF Init, WithinCapacity
<1>2. TypeOK /\ WithinCapacity /\ [Next]_vars => WithinCapacity'
  <2> SUFFICES ASSUME TypeOK, WithinCapacity, [Next]_vars, Bounded
               PROVE  Len(q') <= Capacity
    BY DEF WithinCapacity
  <2>1. Len(q) \in Nat /\ Capacity \in Nat /\ Len(q) <= Capacity
    BY QueueAssumption DEF TypeOK, WithinCapacity
  <2>2. ASSUME NEW t \in Threads, PushItem(t) PROVE Len(q') <= Capacity
    BY <2>1, <2>2 DEF PushItem, IsFull, TypeOK
  <2>3. ASSUME NEW t \in Threads, PopItem(t) PROVE Len(q') <= Capacity
    BY <2>1, <2>3 DEF PopItem, TypeOK
  <2>4. CASE q' = q
    BY <2>1, <2>4
  <2>5. QED
    BY <2>2, <2>3, <2>4 DEF Next, ProducerStep, ConsumerStep, vars, Threads,
       PushCall, PushLock, PushWait, PushNotify, Full, PopCall, PopLock,
       PopWait, PopReturn, Empty, SpuriousWakeup, Lock, Wait, NotifyAndReturn
<1>3. QED
  BY <1>1, <1>2, TypeCorrect, PTL DEF Spec

-----------------------------------------------------------------------------
(* No lost wakeup *)

DataWakers  == {"pop_lock", "pop_test", "push_notify"}
SpaceWakers == {"push_lock", "push_test", "pop_unlocked"}

\* A reader is added to the wait set only when the queue is empty, an element
\* only together with its notifier, and a notification turns the notifier
\* into an awake reader: so push() loses no wakeup by notifying after it has
\* released the mutex.
THEOREM NoWakeupOfReadersLost == Spec => []NoLostData
<1> DEFINE W == At({"pop_wait"})
           D == At(DataWakers)
<1>1. Init => NoLostData
  BY DEF Init, NoLostData, At
<1>2. TypeOK /\ NoLostData /\ [Next]_vars => NoLostData'
  <2> SUFFICES ASSUME TypeOK, NoLostData, [Next]_vars, W' # {}
               PROVE  Len(q') <= Cardinality(D')
    BY DEF NoLostData, DataWakers
  <2> HIDE DEF W, D
  <2>a. W # {} => Len(q) <= Cardinality(D)
    BY DEF NoLostData, DataWakers, W, D
  <2>b. Len(q) \in Nat /\ IsFiniteSet(D) /\ Cardinality(D) \in Nat
    BY AtFinite DEF TypeOK, D
  \* Steps that leave the queue alone and take nobody out of D.
  <2>c. ASSUME q' = q, W # {}, NEW t \in Threads, D' = D \cup {t}
        PROVE  Len(q') <= Cardinality(D')
    <3>1. Cardinality(D \cup {t}) \in {Cardinality(D), Cardinality(D) + 1}
      BY <2>b, AddRemove
    <3>2. QED
      BY <2>a, <2>b, <2>c, <3>1
  <2>1. ASSUME NEW t \in Threads, NEW v \in Values, PushCall(t, v)
        PROVE  Len(q') <= Cardinality(D')
    <3>1. D' = D /\ W' = W
      BY <2>1 DEF PushCall, DataWakers, D, W, At, TypeOK
    <3>2. QED
      BY <2>1, <2>a, <3>1 DEF PushCall
  <2>2. ASSUME NEW t \in Threads, PushLock(t)
        PROVE  Len(q') <= Cardinality(D')
    <3>1. D' = D /\ W' = W
      BY <2>2 DEF PushLock, Lock, DataWakers, D, W, At, TypeOK
    <3>2. QED
      BY <2>2, <2>a, <3>1 DEF PushLock, Lock
  <2>3. ASSUME NEW t \in Threads, PushWait(t)
        PROVE  Len(q') <= Cardinality(D')
    <3>1. D' = D /\ W' = W
      BY <2>3 DEF PushWait, Wait, DataWakers, D, W, At, TypeOK
    <3>2. QED
      BY <2>3, <2>a, <3>1 DEF PushWait, Wait
  <2>4. ASSUME NEW t \in Threads, PushItem(t)
        PROVE  Len(q') <= Cardinality(D')
    <3>1. D' = D \cup {t} /\ t \notin D /\ W' = W
      BY <2>4 DEF PushItem, DataWakers, D, W, At, TypeOK
    <3>2. Len(q') = Len(q) + 1
      BY <2>4 DEF PushItem, TypeOK, PushPC
    <3>3. QED
      BY <2>a, <2>b, <3>1, <3>2, AddRemove
  <2>5. ASSUME NEW t \in Threads, PushNotify(t)
        PROVE  Len(q') <= Cardinality(D')
    <3>1. q' = q /\ pc[t] = "push_notify" /\ t \in D
      BY <2>5 DEF PushNotify, NotifyAndReturn, D, At, DataWakers
    <3>2. CASE W = {}
      <4>1. pc' = [pc EXCEPT ![t] = "idle"]
        BY <2>5, <3>2 DEF PushNotify, NotifyAndReturn, W
      <4>2. W' = {}
        BY <3>2, <4>1 DEF W, At, TypeOK
      <4>3. QED
        BY <4>2
    <3>3. CASE W # {}
      <4>1. PICK w \in W : pc' = [pc EXCEPT ![w] = "pop_lock", ![t] = "idle"]
        BY <2>5, <3>3 DEF PushNotify, NotifyAndReturn, W
      <4>2. w \in Threads /\ w # t /\ w \notin D
        BY <3>1, <4>1 DEF W, D, At, DataWakers
      <4>3. At(DataWakers)' = (At(DataWakers) \ {t}) \cup {w}
        BY <4>1, <4>2, AtNotify DEF DataWakers
      <4>4. Cardinality(D') = Cardinality(D)
        BY <2>b, <3>1, <4>2, <4>3, Exchange DEF D
      <4>5. QED
        BY <2>a, <3>1, <3>3, <4>4
    <3>4. QED
      BY <3>2, <3>3
  <2>6. ASSUME NEW t \in Threads, PopCall(t)
        PROVE  Len(q') <= Cardinality(D')
    <3>1. D' = D \cup {t} /\ W' = W
      BY <2>6 DEF PopCall, DataWakers, D, W, At, TypeOK
    <3>2. QED
      BY <2>6, <2>c, <3>1 DEF PopCall
  <2>7. ASSUME NEW t \in Threads, PopLock(t)
        PROVE  Len(q') <= Cardinality(D')
    <3>1. D' = D \cup {t} /\ W' = W
      BY <2>7 DEF PopLock, Lock, DataWakers, D, W, At, TypeOK
    <3>2. QED
      BY <2>7, <2>c, <3>1 DEF PopLock, Lock
  <2>8. ASSUME NEW t \in Threads, PopWait(t)
        PROVE  Len(q') <= Cardinality(D')
    <3>1. q' = <<>>
      BY <2>8 DEF PopWait, Wait
    <3>2. D' = D \ {t}
      BY <2>8 DEF PopWait, Wait, DataWakers, D, W, At, TypeOK
    <3>3. QED
      BY <2>b, <3>1, <3>2, FS_RemoveElement, FS_CardinalityType
  <2>9. ASSUME NEW t \in Threads, PopItem(t)
        PROVE  Len(q') <= Cardinality(D')
    <3>1. D' = D \ {t} /\ t \in D /\ W' = W
      BY <2>9 DEF PopItem, DataWakers, D, W, At, TypeOK
    <3>2. Len(q') = Len(q) - 1
      BY <2>9 DEF PopItem, TypeOK
    <3>3. QED
      BY <2>a, <2>b, <3>1, <3>2, AddRemove
  <2>10. ASSUME NEW t \in Threads, PopReturn(t)
         PROVE  Len(q') <= Cardinality(D')
    <3>1. q' = q /\ pc[t] = "pop_unlocked"
      BY <2>10 DEF PopReturn, NotifyAndReturn
    <3>2. CASE pc' = [pc EXCEPT ![t] = "idle"]
      <4>1. D' = D /\ W' = W
        BY <3>1, <3>2 DEF DataWakers, D, W, At, TypeOK
      <4>2. QED
        BY <2>a, <3>1, <4>1
    <3>3. CASE \E w \in At({"push_wait"}) :
                 pc' = [pc EXCEPT ![w] = "push_lock", ![t] = "idle"]
      <4>1. D' = D /\ W' = W
        BY <3>1, <3>3 DEF D, W, At, DataWakers, TypeOK
      <4>2. QED
        BY <2>a, <3>1, <4>1
    <3>4. QED
      BY <2>10, <3>2, <3>3 DEF PopReturn, NotifyAndReturn
  <2>11. ASSUME NEW t \in Threads, SpuriousWakeup(t)
         PROVE  Len(q') <= Cardinality(D')
    <3>1. CASE pc[t] = "pop_wait"
      <4>1. D' = D \cup {t} /\ t \in W
        BY <2>11, <3>1 DEF SpuriousWakeup, DataWakers, D, W, At, TypeOK
      <4>2. QED
        BY <2>11, <2>c, <4>1 DEF SpuriousWakeup
    <3>2. CASE pc[t] = "push_wait"
      <4>1. D' = D /\ W' = W
        BY <2>11, <3>2 DEF SpuriousWakeup, DataWakers, D, W, At, TypeOK
      <4>2. QED
        BY <2>11, <2>a, <4>1 DEF SpuriousWakeup
    <3>3. QED
      BY <2>11, <3>1, <3>2 DEF SpuriousWakeup
  <2>12. CASE q' = q /\ pc' = pc
    BY <2>12, <2>a DEF W, D, At
  <2>13. QED
    BY <2>1, <2>2, <2>3, <2>4, <2>5, <2>6, <2>7, <2>8, <2>9, <2>10, <2>11,
       <2>12 DEF Next, ProducerStep, ConsumerStep, Full, Empty, vars, Threads
<1>3. QED
  BY <1>1, <1>2, TypeCorrect, PTL DEF Spec

\* The inductive strengthening for writers: only a bounded queue has any that
\* sleep, so pop() of an unbounded one may return without notifying.
SpaceInv == NoLostSpace /\ (~Bounded => At({"push_wait"}) = {})

\* The mirror image for writers: a writer falls asleep only when the queue is
\* full, a place becomes free only together with its notifier.
THEOREM NoWakeupOfWritersLost == Spec => []NoLostSpace
<1> DEFINE W == At({"push_wait"})
           D == At(SpaceWakers)
<1>1. Init => SpaceInv
  BY DEF Init, SpaceInv, NoLostSpace, At
<1>2. TypeOK /\ SpaceInv /\ [Next]_vars => SpaceInv'
  <2> SUFFICES ASSUME TypeOK, SpaceInv, [Next]_vars, W' # {}
               PROVE  Bounded /\ Capacity - Len(q') <= Cardinality(D')
    BY DEF SpaceInv, NoLostSpace, SpaceWakers
  <2> DEFINE Goal == Bounded /\ Capacity - Len(q') <= Cardinality(D')
  <2> HIDE DEF W, D
  <2>a. W # {} => Bounded /\ Capacity - Len(q) <= Cardinality(D)
    BY DEF SpaceInv, NoLostSpace, SpaceWakers, W, D
  <2>b. /\ Len(q) \in Nat /\ IsFiniteSet(D) /\ Cardinality(D) \in Nat
        /\ Capacity \in Nat
    BY AtFinite, QueueAssumption DEF TypeOK, D
  \* Steps that leave the queue alone and take nobody out of D.
  <2>c. ASSUME q' = q, W # {}, NEW t \in Threads, D' = D \cup {t}
        PROVE  Goal
    <3>1. Cardinality(D \cup {t}) \in {Cardinality(D), Cardinality(D) + 1}
      BY <2>b, AddRemove
    <3>2. QED
      BY <2>a, <2>b, <2>c, <3>1
  <2>d. ASSUME q' = q, W' = W, D' = D
        PROVE  Goal
    BY <2>a, <2>d
  <2>1. ASSUME NEW t \in Threads, NEW v \in Values, PushCall(t, v)
        PROVE  Goal
    <3>1. D' = D \cup {t} /\ W' = W
      BY <2>1 DEF PushCall, SpaceWakers, D, W, At, TypeOK
    <3>2. QED
      BY <2>1, <2>c, <3>1 DEF PushCall
  <2>2. ASSUME NEW t \in Threads, PushLock(t)
        PROVE  Goal
    <3>1. D' = D \cup {t} /\ W' = W
      BY <2>2 DEF PushLock, Lock, SpaceWakers, D, W, At, TypeOK
    <3>2. QED
      BY <2>2, <2>c, <3>1 DEF PushLock, Lock
  <2>3. ASSUME NEW t \in Threads, PushWait(t)
        PROVE  Goal
    <3>1. Bounded /\ Len(q') = Capacity
      BY <2>3 DEF PushWait, Wait, IsFull
    <3>2. D' = D \ {t}
      BY <2>3 DEF PushWait, Wait, SpaceWakers, D, At, TypeOK
    <3>3. QED
      BY <2>b, <3>1, <3>2, FS_RemoveElement, FS_CardinalityType
  <2>4. ASSUME NEW t \in Threads, PushItem(t)
        PROVE  Goal
    <3>1. D' = D \ {t} /\ t \in D /\ W' = W
      BY <2>4 DEF PushItem, SpaceWakers, D, W, At, TypeOK
    <3>2. Len(q') = Len(q) + 1
      BY <2>4 DEF PushItem, TypeOK, PushPC
    <3>3. QED
      BY <2>a, <2>b, <3>1, <3>2, AddRemove
  <2>5. ASSUME NEW t \in Threads, PushNotify(t)
        PROVE  Goal
    <3>1. q' = q /\ pc[t] = "push_notify"
      BY <2>5 DEF PushNotify, NotifyAndReturn
    <3>2. CASE pc' = [pc EXCEPT ![t] = "idle"]
      <4>1. D' = D /\ W' = W
        BY <3>1, <3>2 DEF SpaceWakers, D, W, At, TypeOK
      <4>2. QED
        BY <2>d, <3>1, <4>1
    <3>3. CASE \E w \in At({"pop_wait"}) :
                 pc' = [pc EXCEPT ![w] = "pop_lock", ![t] = "idle"]
      <4>1. D' = D /\ W' = W
        BY <3>1, <3>3 DEF D, W, At, SpaceWakers, TypeOK
      <4>2. QED
        BY <2>d, <3>1, <4>1
    <3>4. QED
      BY <2>5, <3>2, <3>3 DEF PushNotify, NotifyAndReturn
  <2>6. ASSUME NEW t \in Threads, PopCall(t)
        PROVE  Goal
    <3>1. D' = D /\ W' = W
      BY <2>6 DEF PopCall, SpaceWakers, D, W, At, TypeOK
    <3>2. QED
      BY <2>6, <2>d, <3>1 DEF PopCall
  <2>7. ASSUME NEW t \in Threads, PopLock(t)
        PROVE  Goal
    <3>1. D' = D /\ W' = W
      BY <2>7 DEF PopLock, Lock, SpaceWakers, D, W, At, TypeOK
    <3>2. QED
      BY <2>7, <2>d, <3>1 DEF PopLock, Lock
  <2>8. ASSUME NEW t \in Threads, PopWait(t)
        PROVE  Goal
    <3>1. D' = D /\ W' = W
      BY <2>8 DEF PopWait, Wait, SpaceWakers, D, W, At, TypeOK
    <3>2. QED
      BY <2>8, <2>d, <3>1 DEF PopWait, Wait
  <2>9. ASSUME NEW t \in Threads, PopItem(t)
        PROVE  Goal
    <3>1. D' = D \cup {t} /\ t \notin D /\ W' = W
      BY <2>9 DEF PopItem, SpaceWakers, D, W, At, TypeOK
    <3>2. Len(q') = Len(q) - 1
      BY <2>9 DEF PopItem, TypeOK
    <3>3. QED
      BY <2>a, <2>b, <3>1, <3>2, AddRemove
  <2>10. ASSUME NEW t \in Threads, PopReturn(t)
         PROVE  Goal
    <3>1. q' = q /\ pc[t] = "pop_unlocked" /\ t \in D
      BY <2>10 DEF PopReturn, NotifyAndReturn, D, At, SpaceWakers
    <3>2. CASE W = {}
      <4>1. pc' = [pc EXCEPT ![t] = "idle"]
        BY <2>10, <3>2 DEF PopReturn, NotifyAndReturn, W
      <4>2. W' = {}
        BY <3>2, <4>1 DEF W, At, TypeOK
      <4>3. QED
        BY <4>2
    <3>3. CASE W # {}
      <4>1. PICK w \in W : pc' = [pc EXCEPT ![w] = "push_lock", ![t] = "idle"]
        BY <2>a, <2>10, <3>3 DEF PopReturn, NotifyAndReturn, W
      <4>2. w \in Threads /\ w # t /\ w \notin D
        BY <3>1, <4>1 DEF W, D, At, SpaceWakers
      <4>3. At(SpaceWakers)' = (At(SpaceWakers) \ {t}) \cup {w}
        BY <4>1, <4>2, AtNotify DEF SpaceWakers
      <4>4. Cardinality(D') = Cardinality(D)
        BY <2>b, <3>1, <4>2, <4>3, Exchange DEF D
      <4>5. QED
        BY <2>a, <3>1, <3>3, <4>4
    <3>4. QED
      BY <3>2, <3>3
  <2>11. ASSUME NEW t \in Threads, SpuriousWakeup(t)
         PROVE  Goal
    <3>1. CASE pc[t] = "push_wait"
      <4>1. D' = D \cup {t} /\ t \in W
        BY <2>11, <3>1 DEF SpuriousWakeup, SpaceWakers, D, W, At, TypeOK
      <4>2. QED
        BY <2>11, <2>c, <4>1 DEF SpuriousWakeup
    <3>2. CASE pc[t] = "pop_wait"
      <4>1. D' = D /\ W' = W
        BY <2>11, <3>2 DEF SpuriousWakeup, SpaceWakers, D, W, At, TypeOK
      <4>2. QED
        BY <2>11, <2>d, <4>1 DEF SpuriousWakeup
    <3>3. QED
      BY <2>11, <3>1, <3>2 DEF SpuriousWakeup
  <2>12. CASE q' = q /\ pc' = pc
    BY <2>12, <2>a DEF W, D, At
  <2>13. QED
    BY <2>1, <2>2, <2>3, <2>4, <2>5, <2>6, <2>7, <2>8, <2>9, <2>10, <2>11,
       <2>12 DEF Next, ProducerStep, ConsumerStep, Full, Empty, vars, Threads
<1>3. QED
  BY <1>1, <1>2, TypeCorrect, PTL DEF Spec, SpaceInv

\* Neither condition variable loses a notification.
THEOREM NoWakeupLost == Spec => []NoLostWakeup
BY NoWakeupOfReadersLost, NoWakeupOfWritersLost, PTL DEF NoLostWakeup

-----------------------------------------------------------------------------
(* What a caller may conclude from empty() or full() *)

\* The strengthening: what a hint says of the queue is still true.
HintInv == /\ \A t \in Threads : hint[t] = "data"  => q # <<>>
           /\ \A t \in Threads : hint[t] = "space" => ~IsFull
           /\ EmptyThenPop
           /\ FullThenPush

\* Hints stay true until somebody pops (pushes), so a thread that holds one
\* does not find the queue empty (full).
LEMMA HintsStayTrue == Spec => []HintInv
<1>1. Init => HintInv
  BY DEF Init, HintInv, EmptyThenPop, FullThenPush
<1>2. TypeOK /\ WithinCapacity /\ HintInv /\ [Next]_vars => HintInv'
  <2> SUFFICES ASSUME TypeOK, WithinCapacity, HintInv, [Next]_vars
               PROVE  HintInv'
    OBVIOUS
  <2> USE DEF HintInv, EmptyThenPop, FullThenPush, TypeOK, IsFull
  <2>1. ASSUME NEW t \in Threads, NEW v \in Values, PushCall(t, v)
        PROVE  HintInv'
    BY <2>1 DEF PushCall
  <2>2. ASSUME NEW t \in Threads, PushLock(t) \/ PopLock(t)
        PROVE  HintInv'
    BY <2>2 DEF PushLock, PopLock, Lock
  <2>3. ASSUME NEW t \in Threads, PushWait(t) \/ PopWait(t)
        PROVE  HintInv'
    BY <2>3 DEF PushWait, PopWait, Wait
  <2>4. ASSUME NEW t \in Threads, PushItem(t)
        PROVE  HintInv'
    <3>1. val[t] \in Values
      BY <2>4 DEF PushItem, PushPC
    <3>2. q' # <<>>
      BY <2>4, <3>1 DEF PushItem
    <3>3. QED
      BY <2>4, <3>2 DEF PushItem, Stale
  <2>5. ASSUME NEW t \in Threads, PushNotify(t) \/ PopReturn(t)
        PROVE  HintInv'
    <3>1. UNCHANGED <<q, hint>>
      BY <2>5 DEF PushNotify, PopReturn, NotifyAndReturn
    <3>2. \A x \in Threads : /\ pc'[x] = "pop_wait"  => pc[x] = "pop_wait"
                             /\ pc'[x] = "push_wait" => pc[x] = "push_wait"
      BY <2>5 DEF PushNotify, PopReturn, NotifyAndReturn, At
    <3>3. QED
      BY <3>1, <3>2
  <2>6. ASSUME NEW t \in Threads, PopCall(t)
        PROVE  HintInv'
    BY <2>6 DEF PopCall
  <2>7. ASSUME NEW t \in Threads, PopItem(t)
        PROVE  HintInv'
    <3>1. Bounded => Len(q') < Capacity
      BY <2>7, QueueAssumption DEF PopItem, WithinCapacity
    <3>2. QED
      BY <2>7, <3>1, QueueAssumption DEF PopItem, Stale
  <2>8. ASSUME NEW t \in Threads, Empty(t) \/ Full(t)
        PROVE  HintInv'
    BY <2>8 DEF Empty, Full
  <2>9. ASSUME NEW t \in Threads, SpuriousWakeup(t)
        PROVE  HintInv'
    BY <2>9 DEF SpuriousWakeup
  <2>10. CASE UNCHANGED vars
    BY <2>10 DEF vars
  <2>11. QED
    BY <2>1, <2>2, <2>3, <2>4, <2>5, <2>6, <2>7, <2>8, <2>9, <2>10
       DEF Next, ProducerStep, ConsumerStep, Threads
<1>3. QED
  BY <1>1, <1>2, TypeCorrect, CapacityRespected, PTL DEF Spec

\* A sole consumer and a sole producer can rely on empty() and full().
THEOREM AnswersStayTrue == Spec => []AnswersHold
BY HintsStayTrue, PTL DEF HintInv, AnswersHold

\* pop() does not block after empty() returned false, as long as nobody else
\* pops.
THEOREM PopAfterEmpty == Spec => []EmptyThenPop
BY HintsStayTrue, PTL DEF HintInv

\* push() does not block after full() returned false, as long as nobody else
\* pushes.
THEOREM PushAfterFull == Spec => []FullThenPush
BY HintsStayTrue, PTL DEF HintInv

-----------------------------------------------------------------------------
(* The queue is an atomic FIFO *)

\* The values of the refinement mapping.
LEMMA AbsStValues ==
  /\ AbsSt("idle") = "idle"
  /\ \A l \in {"push_lock", "push_test", "push_wait"} : AbsSt(l) = "pushing"
  /\ AbsSt("push_notify") = "pushed"
  /\ \A l \in {"pop_lock", "pop_test", "pop_wait"} : AbsSt(l) = "popping"
  /\ AbsSt("pop_unlocked") = "popped"
BY DEF AbsSt

\* Every step of the queue is a step of the FIFO or leaves it unchanged: the
\* call, the instant at which q changes, the return; locking, waiting and
\* waking are invisible.
THEOREM QueueImplementsFifo == Spec => ImplementsFifo
<1>1. Init => F!FifoInit
  BY AbsStValues DEF Init, F!FifoInit
<1>2. TypeOK /\ WithinCapacity /\ [Next]_vars => [F!FifoNext]_(F!fifoVars)
  <2> SUFFICES ASSUME TypeOK, WithinCapacity, [Next]_vars
               PROVE  F!FifoNext \/ UNCHANGED F!fifoVars
    OBVIOUS
  <2>a. Len(q) \in Nat /\ Capacity \in Nat
    BY QueueAssumption DEF TypeOK
  <2>1. ASSUME NEW t \in Threads, NEW v \in Values, PushCall(t, v)
        PROVE  F!CallPush(t, v)
    BY <2>1, AbsStValues DEF PushCall, F!CallPush, TypeOK
  <2>2. ASSUME NEW t \in Threads, PushItem(t)
        PROVE  F!DoPush(t)
    <3>1. Bounded => Len(q) < Capacity
      BY <2>2, <2>a DEF PushItem, IsFull, WithinCapacity
    <3>2. [x \in Threads |-> AbsSt(pc'[x])] =
            [[x \in Threads |-> AbsSt(pc[x])] EXCEPT ![t] = "pushed"]
      BY <2>2, AbsStValues DEF PushItem, TypeOK
    <3>3. QED
      BY <2>2, <3>1, <3>2, AbsStValues DEF PushItem, F!DoPush
  <2>3. ASSUME NEW t \in Threads, PushNotify(t) \/ PopReturn(t)
        PROVE  F!Return(t)
    <3>1. /\ pc[t] \in {"push_notify", "pop_unlocked"}
          /\ q' = q
          /\ val' = [val EXCEPT ![t] = NoVal]
      BY <2>3 DEF PushNotify, PopReturn, NotifyAndReturn
    <3>2. [x \in Threads |-> AbsSt(pc'[x])] =
            [[x \in Threads |-> AbsSt(pc[x])] EXCEPT ![t] = "idle"]
      <4>1. CASE pc' = [pc EXCEPT ![t] = "idle"]
        BY <4>1, AbsStValues DEF TypeOK
      <4>2. CASE \E w \in At({"pop_wait"}) :
                   pc' = [pc EXCEPT ![w] = "pop_lock", ![t] = "idle"]
        <5>1. PICK w \in Threads :
                 /\ pc[w] = "pop_wait"
                 /\ pc' = [pc EXCEPT ![w] = "pop_lock", ![t] = "idle"]
          BY <4>2 DEF At
        <5>2. \A x \in Threads :
                 AbsSt(pc'[x]) = IF x = t THEN "idle" ELSE AbsSt(pc[x])
          BY <5>1, AbsStValues DEF TypeOK
        <5>3. QED
          BY <5>2
      <4>3. CASE \E w \in At({"push_wait"}) :
                   pc' = [pc EXCEPT ![w] = "push_lock", ![t] = "idle"]
        <5>1. PICK w \in Threads :
                 /\ pc[w] = "push_wait"
                 /\ pc' = [pc EXCEPT ![w] = "push_lock", ![t] = "idle"]
          BY <4>3 DEF At
        <5>2. \A x \in Threads :
                 AbsSt(pc'[x]) = IF x = t THEN "idle" ELSE AbsSt(pc[x])
          BY <5>1, AbsStValues DEF TypeOK
        <5>3. QED
          BY <5>2
      <4>4. QED
        BY <2>3, <4>1, <4>2, <4>3 DEF PushNotify, PopReturn, NotifyAndReturn
    <3>3. QED
      BY <3>1, <3>2, AbsStValues DEF F!Return
  <2>4. ASSUME NEW t \in Threads, PopCall(t)
        PROVE  F!CallPop(t)
    BY <2>4, AbsStValues DEF PopCall, F!CallPop, TypeOK
  <2>5. ASSUME NEW t \in Threads, PopItem(t)
        PROVE  F!DoPop(t)
    BY <2>5, AbsStValues DEF PopItem, F!DoPop, TypeOK
  <2>6. ASSUME NEW t \in Threads,
               \/ PushLock(t) \/ PushWait(t) \/ PopLock(t) \/ PopWait(t)
               \/ Full(t) \/ Empty(t) \/ SpuriousWakeup(t)
        PROVE  UNCHANGED F!fifoVars
    BY <2>6, AbsStValues DEF PushLock, PushWait, PopLock, PopWait, Full, Empty,
       SpuriousWakeup, Lock, Wait, F!fifoVars, TypeOK
  <2>7. CASE UNCHANGED vars
    BY <2>7 DEF vars, F!fifoVars
  <2>8. QED
    BY <2>1, <2>2, <2>3, <2>4, <2>5, <2>6, <2>7 DEF Next, ProducerStep,
       ConsumerStep, F!FifoNext, Threads
<1>3. QED
  BY <1>1, <1>2, TypeCorrect, CapacityRespected, PTL
     DEF Spec, ImplementsFifo, F!FifoSafe
=============================================================================
