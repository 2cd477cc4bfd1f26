----------------------------- MODULE ServerProofs -----------------------------
(***************************************************************************)
(* Proofs about Server, for every set of connections, all parameters of    *)
(* run_server() and any number of interrupted sleeps.                      *)
(***************************************************************************)
EXTENDS Server, FiniteSetTheorems, TLAPS

\* Where the thread of run_server() is before or between accept loops.
BeforeServe == {"stdio", "stdio_read", "loop", "listen", "caught", "retry"}

\* Where the accept loop is while its status exists.
LivePC == {"check", "accept", "error", "wait", "waiting"}

\* How the two threads hang together: there is at most one accept loop, it
\* owns the only status, another one starts only after a signal ended the
\* previous one, and run_server() and the manager are through only when it is.
Control ==
  /\ inc <= interrupts + 1
  /\ mpc \in BeforeServe => inc <= interrupts
  /\ mpc \in BeforeServe \cup {"threw"} => spc = "none"
  /\ statusAlive = IF spc \in LivePC THEN {inc} ELSE {}
  /\ mpc # "returned" => manager = "none"
  /\ params.mode = "foreground" /\ mpc = "returned" => spc \in {"none", "done"}
  /\ manager \in {"noop", "destroyed"} => spc \in {"none", "done"}
  /\ \A c \in Active : of[c] \in Incarnations

\* How far the retry counter can get.
Retries ==
  /\ params.n_listen_retries >= 0 /\ mpc # "threw" =>
       retries <= params.n_listen_retries
  /\ mpc = "threw" /\ interrupts = 0 =>
       params.n_listen_retries >= 0 /\ retries = params.n_listen_retries + 1

ControlInv == TypeOK /\ Control /\ Retries

\* The types, and the order in which the threads reach their states.
LEMMA ControlHolds == Spec => []ControlInv
<1> USE ServerAssumption
<1>1. Init => ControlInv
  BY DEF Init, ControlInv, TypeOK, Control, Retries, Incarnations, ActivePC,
     Active, BeforeServe, LivePC
<1>2. ControlInv /\ [Next]_vars => ControlInv'
  <2> SUFFICES ASSUME ControlInv, [Next]_vars PROVE ControlInv'
    OBVIOUS
  <2> USE DEF ControlInv, TypeOK, Control, Retries, Incarnations, ActivePC,
              Active, BeforeServe, LivePC, mainVars, serverVars, connVars
  <2>1. ASSUME StdioCheck PROVE ControlInv'
    BY <2>1 DEF StdioCheck
  <2>2. ASSUME StdioLine PROVE ControlInv'
    BY <2>2 DEF StdioLine
  <2>3. ASSUME ReturnNotRunning PROVE ControlInv'
    BY <2>3 DEF ReturnNotRunning, LogAfterReturn
  <2>4. ASSUME MainLoop PROVE ControlInv'
    BY <2>4 DEF MainLoop
  <2>5. ASSUME Listen PROVE ControlInv'
    BY <2>5 DEF Listen, LogAfterReturn
  <2>6. ASSUME ListenFails PROVE ControlInv'
    BY <2>6 DEF ListenFails
  <2>7. ASSUME RetryOrThrow PROVE ControlInv'
    <3>0. params.n_listen_retries \in Int
      BY ServerAssumption
    <3>1. CASE params.n_listen_retries < 0
      BY <2>7, <3>1 DEF RetryOrThrow
    <3>2. CASE params.n_listen_retries >= 0
      <4>1. /\ mpc = "caught" /\ retries' = retries + 1
            /\ mpc' \in {"retry", "threw"}
            /\ mpc' = "retry" <=> retries' <= params.n_listen_retries
            /\ UNCHANGED <<params, running, manager, logAlive, serverVars, connVars,
                           count, interrupts>>
        BY <2>7, <3>2 DEF RetryOrThrow
      <4>2. retries <= params.n_listen_retries
        BY <3>2, <4>1
      <4>3. TypeOK'
        BY <4>1
      <4>4. Control'
        BY <4>1
      <4>5. Retries'
        BY <3>0, <3>2, <4>1, <4>2
      <4> QED BY <4>3, <4>4, <4>5
    <3> QED BY <3>0, <3>1, <3>2
  <2>8. ASSUME RetrySleep PROVE ControlInv'
    BY <2>8 DEF RetrySleep
  <2>9. ASSUME ForegroundReturns PROVE ControlInv'
    BY <2>9 DEF ForegroundReturns, LogAfterReturn
  <2>10. ASSUME DestroyManager PROVE ControlInv'
    BY <2>10 DEF DestroyManager
  <2>11. ASSUME ServerCheck PROVE ControlInv'
    BY <2>11 DEF ServerCheck
  <2>12. ASSUME AcceptTimeout PROVE ControlInv'
    BY <2>12 DEF AcceptTimeout
  <2>13. ASSUME AcceptFails PROVE ControlInv'
    BY <2>13 DEF AcceptFails
  <2>14. ASSUME CountZero PROVE ControlInv'
    BY <2>14 DEF CountZero
  <2>15. ASSUME CountPositive PROVE ControlInv'
    BY <2>15 DEF CountPositive
  <2>16. ASSUME ServerSleep PROVE ControlInv'
    BY <2>16 DEF ServerSleep
  <2>17. ASSUME ServerSleepThrows PROVE ControlInv'
    BY <2>17 DEF ServerSleepThrows
  <2>18. ASSUME NEW c \in Conns, Accept(c) PROVE ControlInv'
    BY <2>18 DEF Accept
  <2>19. ASSUME NEW c \in Conns, ConnBegin(c) PROVE ControlInv'
    BY <2>19 DEF ConnBegin, Goto
  <2>20. ASSUME NEW c \in Conns, Welcome(c) PROVE ControlInv'
    <3>1. PICK l \in {"check", "closing", "draining"} :
             conn' = [conn EXCEPT ![c] = l]
      BY <2>20 DEF Welcome, Calls, Goto
    <3>2. running' \in BOOLEAN /\ inbox' \in [Conns -> BOOLEAN]
      BY <2>20 DEF Welcome, Calls
    <3>3. conn[c] \in ActivePC /\ UNCHANGED <<params, mainVars, serverVars, of,
                                              peerOpen, count, interrupts>>
      BY <2>20 DEF Welcome, Calls
    <3>4. TypeOK'
      BY <3>1, <3>2, <3>3
    <3>5. Active' = Active
      BY <3>1, <3>3
    <3>6. Control' /\ Retries'
      BY <3>3, <3>5
    <3>7. QED
      BY <3>4, <3>6
  <2>21. ASSUME NEW c \in Conns, ConnCheck(c) PROVE ControlInv'
    BY <2>21 DEF ConnCheck, Goto
  <2>22. ASSUME NEW c \in Conns, ConnLine(c) PROVE ControlInv'
    <3>1. PICK l \in {"check", "closing", "draining"} :
             conn' = [conn EXCEPT ![c] = l]
      BY <2>22 DEF ConnLine, Calls, Goto
    <3>2. running' \in BOOLEAN /\ inbox' \in [Conns -> BOOLEAN]
      BY <2>22 DEF ConnLine, Calls
    <3>3. conn[c] \in ActivePC /\ UNCHANGED <<params, mainVars, serverVars, of,
                                              peerOpen, count, interrupts>>
      BY <2>22 DEF ConnLine, Calls
    <3>4. TypeOK'
      BY <3>1, <3>2, <3>3
    <3>5. Active' = Active
      BY <3>1, <3>3
    <3>6. Control' /\ Retries'
      BY <3>3, <3>5
    <3>7. QED
      BY <3>4, <3>6
  <2>23. ASSUME NEW c \in Conns, InputEnds(c) PROVE ControlInv'
    BY <2>23 DEF InputEnds, Goto
  <2>24. ASSUME NEW c \in Conns, Drain(c) PROVE ControlInv'
    BY <2>24 DEF Drain
  <2>25. ASSUME NEW c \in Conns, SentryReleased(c) PROVE ControlInv'
    BY <2>25 DEF SentryReleased, Goto
  <2>26. ASSUME NEW c \in Conns, SocketClosed(c) PROVE ControlInv'
    BY <2>26 DEF SocketClosed, Goto
  <2>27. ASSUME NEW c \in Conns, ClientConnects(c) PROVE ControlInv'
    BY <2>27 DEF ClientConnects, Goto
  <2>28. ASSUME NEW c \in Conns, ClientSends(c) PROVE ControlInv'
    BY <2>28 DEF ClientSends
  <2>29. ASSUME NEW c \in Conns, ClientCloses(c) PROVE ControlInv'
    BY <2>29 DEF ClientCloses
  <2>30. ASSUME ExternalShutdown PROVE ControlInv'
    BY <2>30 DEF ExternalShutdown
  <2>31. CASE UNCHANGED vars
    BY <2>31 DEF vars, mainVars, serverVars, connVars
  <2>32. QED
    BY <2>1, <2>2, <2>3, <2>4, <2>5, <2>6, <2>7, <2>8, <2>9, <2>10, <2>11,
       <2>12, <2>13, <2>14, <2>15, <2>16, <2>17, <2>18, <2>19, <2>20,
       <2>21, <2>22, <2>23, <2>24, <2>25, <2>26, <2>27, <2>28, <2>29,
       <2>30, <2>31
       DEF Next, MainStep, ServerStep, ConnStep, Environment
<1>3. QED
  BY <1>1, <1>2, PTL DEF Spec

\* Every variable of the server keeps its type.
THEOREM TypeCorrect == Spec => []TypeOK
BY ControlHolds, PTL DEF ControlInv

\* run_server() gives up only after n_listen_retries + 1 failures, and never
\* for -1, unless a signal interrupts it.
THEOREM GivesUpAfterRetries == Spec => []ThrowsAfterRetries
<1>1. ControlInv => ThrowsAfterRetries
  BY DEF ControlInv, Retries, ThrowsAfterRetries
<1>2. QED
  BY <1>1, ControlHolds, PTL

\* The threads of an incarnation are finitely many.
LEMMA ActiveFinite ==
  ASSUME NEW i
  PROVE  IsFiniteSet(ActiveOf(i)) /\ Cardinality(ActiveOf(i)) \in Nat
<1>1. ActiveOf(i) \in SUBSET Conns
  BY DEF ActiveOf, Active
<1>2. QED
  BY <1>1, FS_Subset, FS_CardinalityType, ServerAssumption

\* The sentry of a connection is counted exactly from before its thread starts
\* until the members of the thread object are destroyed.
THEOREM CountIsExact == Spec => []CountExact
<1>1. Init => CountExact
  <2> SUFFICES ASSUME Init, NEW i \in Incarnations
               PROVE  count[i] = Cardinality(ActiveOf(i))
    BY DEF CountExact
  <2>1. ActiveOf(i) = {}
    BY DEF Init, ActiveOf, Active, ActivePC
  <2>2. QED
    BY <2>1, FS_EmptySet DEF Init
<1>2. ControlInv /\ CountExact /\ [Next]_vars => CountExact'
  <2> SUFFICES ASSUME ControlInv, CountExact, [Next]_vars,
                      NEW j \in Incarnations
               PROVE  count'[j] = Cardinality(ActiveOf(j)')
    BY DEF CountExact
  <2> USE DEF CountExact, ControlInv, TypeOK, Control
  <2>a. ASSUME UNCHANGED <<conn, of, count>>
        PROVE  count'[j] = Cardinality(ActiveOf(j)')
    BY <2>a DEF ActiveOf, Active
  <2>b. \A i \in Incarnations : /\ IsFiniteSet(ActiveOf(i))
                                /\ Cardinality(ActiveOf(i)) \in Nat
    BY ActiveFinite
  <2>1. ASSUME StdioCheck PROVE count'[j] = Cardinality(ActiveOf(j)')
    BY <2>1, <2>a DEF StdioCheck, connVars
  <2>2. ASSUME StdioLine PROVE count'[j] = Cardinality(ActiveOf(j)')
    BY <2>2, <2>a DEF StdioLine, connVars
  <2>3. ASSUME ReturnNotRunning PROVE count'[j] = Cardinality(ActiveOf(j)')
    BY <2>3, <2>a DEF ReturnNotRunning, connVars
  <2>4. ASSUME MainLoop PROVE count'[j] = Cardinality(ActiveOf(j)')
    BY <2>4, <2>a DEF MainLoop, connVars
  <2>5. ASSUME Listen PROVE count'[j] = Cardinality(ActiveOf(j)')
    BY <2>5, <2>a DEF Listen, connVars
  <2>6. ASSUME ListenFails PROVE count'[j] = Cardinality(ActiveOf(j)')
    BY <2>6, <2>a DEF ListenFails, connVars
  <2>7. ASSUME RetryOrThrow PROVE count'[j] = Cardinality(ActiveOf(j)')
    BY <2>7, <2>a DEF RetryOrThrow, connVars
  <2>8. ASSUME RetrySleep PROVE count'[j] = Cardinality(ActiveOf(j)')
    BY <2>8, <2>a DEF RetrySleep, connVars
  <2>9. ASSUME ForegroundReturns PROVE count'[j] = Cardinality(ActiveOf(j)')
    BY <2>9, <2>a DEF ForegroundReturns, connVars
  <2>10. ASSUME DestroyManager PROVE count'[j] = Cardinality(ActiveOf(j)')
    BY <2>10, <2>a DEF DestroyManager, connVars
  <2>11. ASSUME ServerCheck PROVE count'[j] = Cardinality(ActiveOf(j)')
    BY <2>11, <2>a DEF ServerCheck, connVars
  <2>12. ASSUME AcceptTimeout PROVE count'[j] = Cardinality(ActiveOf(j)')
    BY <2>12, <2>a DEF AcceptTimeout, connVars
  <2>13. ASSUME AcceptFails PROVE count'[j] = Cardinality(ActiveOf(j)')
    <3>1. \A i \in Incarnations : ActiveOf(i)' = ActiveOf(i)
      BY <2>13 DEF AcceptFails, ActiveOf, Active, ActivePC
    <3>2. QED
      BY <2>13, <3>1 DEF AcceptFails
  <2>14. ASSUME CountZero PROVE count'[j] = Cardinality(ActiveOf(j)')
    BY <2>14, <2>a DEF CountZero, connVars
  <2>15. ASSUME CountPositive PROVE count'[j] = Cardinality(ActiveOf(j)')
    BY <2>15, <2>a DEF CountPositive, connVars
  <2>16. ASSUME ServerSleep PROVE count'[j] = Cardinality(ActiveOf(j)')
    BY <2>16, <2>a DEF ServerSleep, connVars
  <2>17. ASSUME ServerSleepThrows PROVE count'[j] = Cardinality(ActiveOf(j)')
    BY <2>17, <2>a DEF ServerSleepThrows, connVars
  <2>18. ASSUME NEW c \in Conns, Accept(c)
         PROVE  count'[j] = Cardinality(ActiveOf(j)')
    <3>1. inc \in Incarnations /\ c \notin ActiveOf(inc)
      BY <2>18 DEF Accept, ActiveOf, Active, ActivePC
    <3>2. ActiveOf(inc)' = ActiveOf(inc) \cup {c}
      BY <2>18, <3>1 DEF Accept, ActiveOf, Active, ActivePC
    <3>3. \A i \in Incarnations \ {inc} : ActiveOf(i)' = ActiveOf(i)
      BY <2>18 DEF Accept, ActiveOf, Active, ActivePC
    <3>4. Cardinality(ActiveOf(inc)') = Cardinality(ActiveOf(inc)) + 1
      BY <2>b, <3>1, <3>2, FS_AddElement
    <3>5. QED
      BY <2>18, <3>1, <3>3, <3>4 DEF Accept
  <2>19. ASSUME NEW c \in Conns, ConnBegin(c)
         PROVE  count'[j] = Cardinality(ActiveOf(j)')
    <3>1. \A i \in Incarnations : ActiveOf(i)' = ActiveOf(i)
      BY <2>19 DEF ConnBegin, Goto, ActiveOf, Active, ActivePC
    <3>2. QED
      BY <2>19, <3>1 DEF ConnBegin
  <2>20. ASSUME NEW c \in Conns, Welcome(c)
         PROVE  count'[j] = Cardinality(ActiveOf(j)')
    <3>1. \A i \in Incarnations : ActiveOf(i)' = ActiveOf(i)
      BY <2>20 DEF Welcome, Calls, Goto, ActiveOf, Active, ActivePC
    <3>2. QED
      BY <2>20, <3>1 DEF Welcome, Calls
  <2>21. ASSUME NEW c \in Conns, ConnCheck(c)
         PROVE  count'[j] = Cardinality(ActiveOf(j)')
    <3>1. \A i \in Incarnations : ActiveOf(i)' = ActiveOf(i)
      BY <2>21 DEF ConnCheck, Goto, ActiveOf, Active, ActivePC
    <3>2. QED
      BY <2>21, <3>1 DEF ConnCheck
  <2>22. ASSUME NEW c \in Conns, ConnLine(c)
         PROVE  count'[j] = Cardinality(ActiveOf(j)')
    <3>1. \A i \in Incarnations : ActiveOf(i)' = ActiveOf(i)
      BY <2>22 DEF ConnLine, Calls, Goto, ActiveOf, Active, ActivePC
    <3>2. QED
      BY <2>22, <3>1 DEF ConnLine, Calls
  <2>23. ASSUME NEW c \in Conns, InputEnds(c)
         PROVE  count'[j] = Cardinality(ActiveOf(j)')
    <3>1. \A i \in Incarnations : ActiveOf(i)' = ActiveOf(i)
      BY <2>23 DEF InputEnds, Goto, ActiveOf, Active, ActivePC
    <3>2. QED
      BY <2>23, <3>1 DEF InputEnds
  <2>24. ASSUME NEW c \in Conns, Drain(c)
         PROVE  count'[j] = Cardinality(ActiveOf(j)')
    BY <2>24, <2>a DEF Drain, connVars
  <2>25. ASSUME NEW c \in Conns, SentryReleased(c)
         PROVE  count'[j] = Cardinality(ActiveOf(j)')
    <3>1. CASE j = of[c]
      <4>1. c \in ActiveOf(j)
        BY <2>25, <3>1 DEF SentryReleased, ActiveOf, Active, ActivePC
      <4>2. ActiveOf(j)' = ActiveOf(j) \ {c}
        BY <2>25, <3>1 DEF SentryReleased, Goto, ActiveOf, Active, ActivePC
      <4>3. Cardinality(ActiveOf(j)') = Cardinality(ActiveOf(j)) - 1
        BY <2>b, <4>1, <4>2, FS_RemoveElement
      <4>4. QED
        BY <2>25, <3>1, <4>3 DEF SentryReleased
    <3>2. CASE j # of[c]
      <4>1. ActiveOf(j)' = ActiveOf(j)
        BY <2>25, <3>2 DEF SentryReleased, Goto, ActiveOf, Active, ActivePC
      <4>2. QED
        BY <2>25, <3>2, <4>1 DEF SentryReleased
    <3>3. QED
      BY <3>1, <3>2
  <2>26. ASSUME NEW c \in Conns, SocketClosed(c)
         PROVE  count'[j] = Cardinality(ActiveOf(j)')
    <3>1. \A i \in Incarnations : ActiveOf(i)' = ActiveOf(i)
      BY <2>26 DEF SocketClosed, Goto, ActiveOf, Active, ActivePC
    <3>2. QED
      BY <2>26, <3>1 DEF SocketClosed
  <2>27. ASSUME NEW c \in Conns, ClientConnects(c)
         PROVE  count'[j] = Cardinality(ActiveOf(j)')
    <3>1. \A i \in Incarnations : ActiveOf(i)' = ActiveOf(i)
      BY <2>27 DEF ClientConnects, Goto, ActiveOf, Active, ActivePC
    <3>2. QED
      BY <2>27, <3>1 DEF ClientConnects
  <2>28. ASSUME NEW c \in Conns, ClientSends(c)
         PROVE  count'[j] = Cardinality(ActiveOf(j)')
    BY <2>28, <2>a DEF ClientSends, connVars
  <2>29. ASSUME NEW c \in Conns, ClientCloses(c)
         PROVE  count'[j] = Cardinality(ActiveOf(j)')
    BY <2>29, <2>a DEF ClientCloses, connVars
  <2>30. ASSUME ExternalShutdown PROVE count'[j] = Cardinality(ActiveOf(j)')
    BY <2>30, <2>a DEF ExternalShutdown, connVars
  <2>31. CASE UNCHANGED vars
    BY <2>31, <2>a DEF vars, mainVars, serverVars, connVars
  <2>32. QED
    BY <2>1, <2>2, <2>3, <2>4, <2>5, <2>6, <2>7, <2>8, <2>9, <2>10, <2>11,
       <2>12, <2>13, <2>14, <2>15, <2>16, <2>17, <2>18, <2>19, <2>20,
       <2>21, <2>22, <2>23, <2>24, <2>25, <2>26, <2>27, <2>28, <2>29,
       <2>30, <2>31
       DEF Next, MainStep, ServerStep, ConnStep, Environment
<1>3. QED
  BY <1>1, <1>2, ControlHolds, PTL DEF Spec

-----------------------------------------------------------------------------
(* Shutdown *)

\* The status is destroyed at the end of the accept loop, when it has read 0
\* from the count, which is exact: no thread refers to it any more.
THEOREM StatusIsSafe == Spec => []StatusOutlivesThreads
<1>1. Init => StatusOutlivesThreads
  BY DEF Init, StatusOutlivesThreads, Active, ActivePC
<1>2. ControlInv /\ CountExact /\ StatusOutlivesThreads /\ [Next]_vars
        => StatusOutlivesThreads'
  <2> SUFFICES ASSUME ControlInv, CountExact, StatusOutlivesThreads, [Next]_vars
               PROVE  StatusOutlivesThreads'
    OBVIOUS
  <2> USE DEF ControlInv, TypeOK, Control, StatusOutlivesThreads
  <2>a. ASSUME UNCHANGED <<conn, of, statusAlive>>,
               interrupts' \in {interrupts, interrupts + 1}
        PROVE  StatusOutlivesThreads'
    BY <2>a, ServerAssumption DEF Active
  <2>1. ASSUME StdioCheck PROVE StatusOutlivesThreads'
    BY <2>1, <2>a DEF StdioCheck, connVars, serverVars
  <2>2. ASSUME StdioLine PROVE StatusOutlivesThreads'
    BY <2>2, <2>a DEF StdioLine, connVars, serverVars
  <2>3. ASSUME ReturnNotRunning PROVE StatusOutlivesThreads'
    BY <2>3, <2>a DEF ReturnNotRunning, connVars, serverVars
  <2>4. ASSUME MainLoop PROVE StatusOutlivesThreads'
    BY <2>4, <2>a DEF MainLoop, connVars, serverVars
  <2>5. ASSUME Listen PROVE StatusOutlivesThreads'
    BY <2>5 DEF Listen, Active, connVars
  <2>6. ASSUME ListenFails PROVE StatusOutlivesThreads'
    BY <2>6, <2>a DEF ListenFails, connVars, serverVars
  <2>7. ASSUME RetryOrThrow PROVE StatusOutlivesThreads'
    BY <2>7, <2>a DEF RetryOrThrow, connVars, serverVars
  <2>8. ASSUME RetrySleep PROVE StatusOutlivesThreads'
    BY <2>8, <2>a DEF RetrySleep, connVars, serverVars
  <2>9. ASSUME ForegroundReturns PROVE StatusOutlivesThreads'
    BY <2>9, <2>a DEF ForegroundReturns, connVars, serverVars
  <2>10. ASSUME DestroyManager PROVE StatusOutlivesThreads'
    BY <2>10, <2>a DEF DestroyManager, connVars, serverVars
  <2>11. ASSUME ServerCheck PROVE StatusOutlivesThreads'
    BY <2>11, <2>a DEF ServerCheck, connVars, serverVars
  <2>12. ASSUME AcceptTimeout PROVE StatusOutlivesThreads'
    BY <2>12, <2>a DEF AcceptTimeout, connVars, serverVars
  <2>13. ASSUME AcceptFails PROVE StatusOutlivesThreads'
    <3>1. Active' \subseteq Active
      BY <2>13 DEF AcceptFails, Active, ActivePC
    <3>2. QED
      BY <2>13, <3>1 DEF AcceptFails, serverVars
  <2>14. ASSUME CountZero PROVE StatusOutlivesThreads'
    <3>1. inc \in Incarnations /\ Cardinality(ActiveOf(inc)) = 0
      BY <2>14 DEF CountZero, CountExact
    <3>2. ActiveOf(inc) = {}
      BY <3>1, ActiveFinite, FS_EmptySet
    <3>3. \A d \in Active : of[d] # inc
      BY <3>2 DEF ActiveOf
    <3>4. QED
      BY <2>14, <3>3 DEF CountZero, connVars, Active
  <2>15. ASSUME CountPositive PROVE StatusOutlivesThreads'
    BY <2>15, <2>a DEF CountPositive, connVars, serverVars
  <2>16. ASSUME ServerSleep PROVE StatusOutlivesThreads'
    BY <2>16, <2>a DEF ServerSleep, connVars, serverVars
  <2>17. ASSUME ServerSleepThrows PROVE StatusOutlivesThreads'
    BY <2>17 DEF ServerSleepThrows
  <2>18. ASSUME NEW c \in Conns, Accept(c) PROVE StatusOutlivesThreads'
    BY <2>18 DEF Accept, Active, ActivePC, LivePC
  <2>19. ASSUME NEW c \in Conns, ConnBegin(c) PROVE StatusOutlivesThreads'
    <3>1. Active' \subseteq Active
      BY <2>19 DEF ConnBegin, Goto, Active, ActivePC
    <3>2. QED
      BY <2>19, <3>1 DEF ConnBegin, serverVars
  <2>20. ASSUME NEW c \in Conns, Welcome(c) PROVE StatusOutlivesThreads'
    <3>1. Active' = Active
      BY <2>20 DEF Welcome, Calls, Goto, Active, ActivePC
    <3>2. QED
      BY <2>20, <3>1 DEF Welcome, Calls, serverVars
  <2>21. ASSUME NEW c \in Conns, ConnCheck(c) PROVE StatusOutlivesThreads'
    <3>1. Active' \subseteq Active
      BY <2>21 DEF ConnCheck, Goto, Active, ActivePC
    <3>2. QED
      BY <2>21, <3>1 DEF ConnCheck, serverVars
  <2>22. ASSUME NEW c \in Conns, ConnLine(c) PROVE StatusOutlivesThreads'
    <3>1. Active' = Active
      BY <2>22 DEF ConnLine, Calls, Goto, Active, ActivePC
    <3>2. QED
      BY <2>22, <3>1 DEF ConnLine, Calls, serverVars
  <2>23. ASSUME NEW c \in Conns, InputEnds(c) PROVE StatusOutlivesThreads'
    <3>1. Active' \subseteq Active
      BY <2>23 DEF InputEnds, Goto, Active, ActivePC
    <3>2. QED
      BY <2>23, <3>1 DEF InputEnds, serverVars
  <2>24. ASSUME NEW c \in Conns, Drain(c) PROVE StatusOutlivesThreads'
    BY <2>24, <2>a DEF Drain, connVars, serverVars
  <2>25. ASSUME NEW c \in Conns, SentryReleased(c) PROVE StatusOutlivesThreads'
    <3>1. Active' \subseteq Active
      BY <2>25 DEF SentryReleased, Goto, Active, ActivePC
    <3>2. QED
      BY <2>25, <3>1 DEF SentryReleased, serverVars
  <2>26. ASSUME NEW c \in Conns, SocketClosed(c) PROVE StatusOutlivesThreads'
    <3>1. Active' \subseteq Active
      BY <2>26 DEF SocketClosed, Goto, Active, ActivePC
    <3>2. QED
      BY <2>26, <3>1 DEF SocketClosed, serverVars
  <2>27. ASSUME NEW c \in Conns, ClientConnects(c) PROVE StatusOutlivesThreads'
    <3>1. Active' \subseteq Active
      BY <2>27 DEF ClientConnects, Goto, Active, ActivePC
    <3>2. QED
      BY <2>27, <3>1 DEF ClientConnects, serverVars
  <2>28. ASSUME NEW c \in Conns, ClientSends(c) PROVE StatusOutlivesThreads'
    BY <2>28, <2>a DEF ClientSends, connVars, serverVars
  <2>29. ASSUME NEW c \in Conns, ClientCloses(c) PROVE StatusOutlivesThreads'
    BY <2>29, <2>a DEF ClientCloses, connVars, serverVars
  <2>30. ASSUME ExternalShutdown PROVE StatusOutlivesThreads'
    BY <2>30, <2>a DEF ExternalShutdown, connVars, serverVars
  <2>31. CASE UNCHANGED vars
    BY <2>31, <2>a DEF vars, mainVars, serverVars, connVars
  <2>32. QED
    BY <2>1, <2>2, <2>3, <2>4, <2>5, <2>6, <2>7, <2>8, <2>9, <2>10, <2>11,
       <2>12, <2>13, <2>14, <2>15, <2>16, <2>17, <2>18, <2>19, <2>20,
       <2>21, <2>22, <2>23, <2>24, <2>25, <2>26, <2>27, <2>28, <2>29,
       <2>30, <2>31
       DEF Next, MainStep, ServerStep, ConnStep, Environment
<1>3. QED
  BY <1>1, <1>2, ControlHolds, CountIsExact, PTL DEF Spec

\* The guarantee of run_server(), and of the destructor of the manager: unless
\* a signal interrupted the server no connection is active when they return.
THEOREM ReturnMeansShutDown == Spec => []ShutdownCompleteUndisturbed
<1>1. ControlInv /\ StatusOutlivesThreads => ShutdownCompleteUndisturbed
  <2> SUFFICES ASSUME ControlInv, StatusOutlivesThreads, interrupts = 0, Returned
               PROVE  Active = {}
    BY DEF ShutdownCompleteUndisturbed, ShutdownComplete
  <2>1. spc \in {"none", "done"}
    BY DEF ControlInv, Control, Returned
  <2>2. statusAlive = {}
    BY <2>1 DEF ControlInv, Control, LivePC
  <2>3. QED
    BY <2>2 DEF StatusOutlivesThreads
<1>2. QED
  BY <1>1, ControlHolds, StatusIsSafe, PTL
=============================================================================
