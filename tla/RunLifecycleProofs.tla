------------------------- MODULE RunLifecycleProofs -------------------------
(***************************************************************************)
(* The inductive invariant of RunLifecycle and the safety properties that  *)
(* follow from it, for any number of runs, users, lanes and reapers and    *)
(* any budget of mishaps. First every conjunct of Inv is shown to be       *)
(* preserved by every step: one lemma per conjunct, one step per action    *)
(* (actions that leave the conjunct's variables alone share a step). Then  *)
(* each property follows from Inv.                                         *)
(***************************************************************************)
EXTENDS RunInvariants, FiniteSetTheorems, TLAPS

-----------------------------------------------------------------------------

\* The type invariant of RunLifecycle is inductive.
LEMMA TypeStep == TypeOK /\ [Next]_vars => TypeOK'
<1> SUFFICES ASSUME TypeOK, [Next]_vars PROVE TypeOK'
  OBVIOUS
<1> USE ConstantsAssumption DEF TypeOK, dbVars, bullVars, laneVars, reaperVars, historyVars, Status,
       TerminalStatus, JobState, ErrorKind, PC, Mishap
<1>1. ASSUME NEW r \in Runs, CreateRun(r) PROVE TypeOK'
  BY <1>1 DEF CreateRun
<1>2. ASSUME NEW r \in Runs, Enqueue(r) PROVE TypeOK'
  BY <1>2 DEF Enqueue
<1>3. ASSUME NEW r \in Runs, LoseEnqueue(r) PROVE TypeOK'
  BY <1>3 DEF LoseEnqueue, Suffer
<1>4. ASSUME NEW r \in Runs, Age(r) PROVE TypeOK'
  BY <1>4 DEF Age, OnRun, Bounded
<1>5. ASSUME NEW r \in Runs, ExpireSlot(r) PROVE TypeOK'
  BY <1>5 DEF ExpireSlot, OnRun, Executing, Bounded
<1>6. ASSUME NEW r \in Runs, Promote(r) PROVE TypeOK'
  BY <1>6 DEF Promote
<1>7. ASSUME NEW r \in Runs, StallCheck(r) PROVE TypeOK'
  BY <1>7 DEF StallCheck
<1>8. ASSUME NEW r \in Runs, RequestCancel(r) PROVE TypeOK'
  BY <1>8 DEF RequestCancel
<1>9. ASSUME NEW r \in Runs, RecordCancel(r) PROVE TypeOK'
  BY <1>9 DEF RecordCancel, OnRun
<1>10. ASSUME NEW r \in Runs, PublishCancel(r) PROVE TypeOK'
  BY <1>10 DEF PublishCancel, OnRun, Bounded
<1>11. ASSUME NEW p \in Lanes, NEW r \in Runs, Pickup(p, r) PROVE TypeOK'
  BY <1>11 DEF Pickup, IsFinalAttempt
<1>12. ASSUME NEW p \in Lanes, Load(p) PROVE TypeOK'
  BY <1>12 DEF Load, Goto, AlreadySettled
<1>13. ASSUME NEW p \in Lanes, CheckCancel(p) PROVE TypeOK'
  BY <1>13 DEF CheckCancel, Goto
<1>14. ASSUME NEW p \in Lanes, HonourQueuedCancel(p) PROVE TypeOK'
  BY <1>14 DEF HonourQueuedCancel, Goto
<1>15. ASSUME NEW p \in Lanes, AcquireSlot(p) PROVE TypeOK'
  BY <1>15 DEF AcquireSlot, Goto, HasFreeSlot
<1>16. ASSUME NEW p \in Lanes, Throttle(p) PROVE TypeOK'
  BY <1>16, SMTT(20) DEF Throttle, LeaveLane, HasFreeSlot
<1>17. ASSUME NEW p \in Lanes, Start(p) PROVE TypeOK'
  BY <1>17 DEF Start, Goto, GotoWith
<1>18. ASSUME NEW p \in Lanes, ExtractionDone(p) PROVE TypeOK'
  BY <1>18 DEF ExtractionDone, Goto
<1>19. ASSUME NEW p \in Lanes, ExtractionFails(p) PROVE TypeOK'
  BY <1>19 DEF ExtractionFails, Goto, GotoWith
<1>20. ASSUME NEW p \in Lanes, SeeCancel(p) PROVE TypeOK'
  BY <1>20 DEF SeeCancel, Goto, GotoWith
<1>21. ASSUME NEW p \in Lanes, Precheck(p) PROVE TypeOK'
  BY <1>21 DEF Precheck, Goto, GotoWith
<1>22. ASSUME NEW p \in Lanes, AbortBeforeDispatch(p) PROVE TypeOK'
  BY <1>22 DEF AbortBeforeDispatch, Goto, GotoWith
<1>23. ASSUME NEW p \in Lanes, Dispatch(p) PROVE TypeOK'
  BY <1>23 DEF Dispatch, Goto
<1>24. ASSUME NEW p \in Lanes, AgentReturns(p) PROVE TypeOK'
  BY <1>24 DEF AgentReturns, Goto, GotoWith
<1>25. ASSUME NEW p \in Lanes, ClearCancel(p) PROVE TypeOK'
  BY <1>25 DEF ClearCancel, Goto
<1>26. ASSUME NEW p \in Lanes, Succeed(p) PROVE TypeOK'
  BY <1>26 DEF Succeed, Goto
<1>27. ASSUME NEW p \in Lanes, CatchCancelled(p) PROVE TypeOK'
  BY <1>27 DEF CatchCancelled, Goto
<1>28. ASSUME NEW p \in Lanes, CatchFailed(p) PROVE TypeOK'
  BY <1>28 DEF CatchFailed, Goto
<1>29. ASSUME NEW p \in Lanes, CatchRetry(p) PROVE TypeOK'
  BY <1>29 DEF CatchRetry, Goto
<1>30. ASSUME NEW p \in Lanes, Tell(p) PROVE TypeOK'
  BY <1>30 DEF Tell, Goto
<1>31. ASSUME NEW p \in Lanes, ReleaseSlot(p) PROVE TypeOK'
  BY <1>31 DEF ReleaseSlot, Goto
<1>32. ASSUME NEW p \in Lanes, Ack(p) PROVE TypeOK'
  BY <1>32 DEF Ack, LeaveLane
<1>33. ASSUME NEW p \in Lanes, LoseLock(p) PROVE TypeOK'
  BY <1>33 DEF LoseLock, Suffer
<1>34. ASSUME NEW p \in Lanes, Crash(p) PROVE TypeOK'
  BY <1>34 DEF Crash, LeaveLane, Suffer, Window
<1>35. ASSUME NEW p \in Lanes, Fault(p) PROVE TypeOK'
  BY <1>35 DEF Fault, Suffer, Window, AfterFault
<1>36. ASSUME NEW k \in Reapers, NEW s \in {"RUNNING", "PENDING"}, Sweep(k, s) PROVE TypeOK'
  BY <1>36 DEF Sweep, Candidates
<1>37. ASSUME NEW k \in Reapers, NEW r \in Runs, PassOver(k, r) PROVE TypeOK'
  BY <1>37 DEF PassOver
<1>38. ASSUME NEW k \in Reapers, NEW r \in Runs, NEW s \in {"RUNNING", "PENDING"}, Reap(k, r, s)
       PROVE TypeOK'
  BY <1>38 DEF Reap
<1>39. ASSUME NEW k \in Reapers, FinishReap(k) PROVE TypeOK'
  BY <1>39 DEF FinishReap
<1>40. ASSUME NEW k \in Reapers, AbandonSweep(k) PROVE TypeOK'
  BY <1>40 DEF AbandonSweep, Suffer
<1>41. CASE UNCHANGED vars
  BY <1>41 DEF vars
<1>42. ASSUME NEW p \in Lanes, RowAnswerLost(p) PROVE TypeOK'
  BY <1>42, SMTT(60) DEF RowAnswerLost, Suffer, Writes, AfterFault
<1>43. ASSUME NEW p \in Lanes, RedisAnswerLost(p) PROVE TypeOK'
  BY <1>43, SMTT(60) DEF RedisAnswerLost, Suffer, AfterFault
<1> HIDE DEF TypeOK, dbVars, bullVars, laneVars, reaperVars, historyVars, Status, TerminalStatus,
       JobState, ErrorKind, PC, Mishap
<1> QED
  BY <1>1, <1>2, <1>3, <1>4, <1>5, <1>6, <1>7, <1>8, <1>9, <1>10, <1>11, <1>12, <1>13, <1>14, <1>15,
         <1>16, <1>17, <1>18, <1>19, <1>20, <1>21, <1>22, <1>23, <1>24, <1>25, <1>26, <1>27, <1>28,
         <1>29, <1>30, <1>31, <1>32, <1>33, <1>34, <1>35, <1>36, <1>37, <1>38, <1>39, <1>40, <1>41, <1>42, <1>43
         DEF Next, LaneStep, ReaperStep

\* An active job of an undisturbed run stays with the one lane that locked it.
LEMMA LockStep == TypeOK /\ CreatedInv /\ LockInv /\ [Next]_vars => LockInv'
<1> SUFFICES ASSUME TypeOK, CreatedInv, LockInv, [Next]_vars PROVE LockInv'
  OBVIOUS
<1> USE ConstantsAssumption DEF TypeOK, LockInv, dbVars, bullVars, laneVars, reaperVars, historyVars
<1>1. ASSUME NEW r \in Runs, Enqueue(r) PROVE LockInv'
  BY <1>1 DEF Enqueue, CreatedInv
<1>2. ASSUME NEW r \in Runs, Promote(r) PROVE LockInv'
  BY <1>2 DEF Promote
<1>3. ASSUME NEW r \in Runs, StallCheck(r) PROVE LockInv'
  BY <1>3 DEF StallCheck
<1>4. ASSUME NEW r \in Runs, CreateRun(r) \/ LoseEnqueue(r) \/ Age(r) \/ ExpireSlot(r) \/
       RequestCancel(r) \/ RecordCancel(r) \/ PublishCancel(r) PROVE LockInv'
  BY <1>4 DEF CreateRun, LoseEnqueue, Age, ExpireSlot, RequestCancel, RecordCancel, PublishCancel,
         Suffer, OnRun, Bounded, Executing
<1>5. ASSUME NEW p \in Lanes, NEW r \in Runs, Pickup(p, r) PROVE LockInv'
  BY <1>5 DEF Pickup, IsFinalAttempt
<1>6. ASSUME NEW p \in Lanes, Throttle(p) PROVE LockInv'
  BY <1>6 DEF Throttle, LeaveLane, HasFreeSlot
<1>7. ASSUME NEW p \in Lanes, Ack(p) PROVE LockInv'
  BY <1>7 DEF Ack, LeaveLane
<1>8. ASSUME NEW p \in Lanes, LoseLock(p) PROVE LockInv'
  BY <1>8 DEF LoseLock, Suffer
<1>9. ASSUME NEW p \in Lanes, Crash(p) PROVE LockInv'
  BY <1>9 DEF Crash, LeaveLane, Suffer, Window
<1>10. ASSUME NEW p \in Lanes, Fault(p) PROVE LockInv'
  BY <1>10 DEF Fault, Suffer, Window, AfterFault
<1>11. ASSUME NEW p \in Lanes, Load(p) \/ CheckCancel(p) \/ HonourQueuedCancel(p) \/ AcquireSlot(p)
       \/ Start(p) \/ ExtractionDone(p) \/ ExtractionFails(p) \/ SeeCancel(p) \/ Precheck(p) PROVE
       LockInv'
  BY <1>11 DEF Load, CheckCancel, HonourQueuedCancel, AcquireSlot, Start, ExtractionDone,
         ExtractionFails, SeeCancel, Precheck, Goto, AlreadySettled, HasFreeSlot, GotoWith
<1>12. ASSUME NEW p \in Lanes, AbortBeforeDispatch(p) \/ Dispatch(p) \/ AgentReturns(p) \/
       ClearCancel(p) \/ Succeed(p) \/ CatchCancelled(p) \/ CatchFailed(p) \/ CatchRetry(p) \/
       Tell(p) PROVE LockInv'
  BY <1>12 DEF AbortBeforeDispatch, Dispatch, AgentReturns, ClearCancel, Succeed, CatchCancelled,
         CatchFailed, CatchRetry, Tell, Goto, GotoWith
<1>13. ASSUME NEW p \in Lanes, ReleaseSlot(p) PROVE LockInv'
  BY <1>13 DEF ReleaseSlot, Goto
<1>14. ASSUME NEW k \in Reapers, NEW r \in Runs, NEW s \in {"RUNNING", "PENDING"}, Reap(k, r, s)
       PROVE LockInv'
  BY <1>14 DEF Reap
<1>15. ASSUME NEW k \in Reapers, (\E s \in {"RUNNING", "PENDING"} : Sweep(k, s)) \/ (\E r \in Runs :
       PassOver(k, r)) \/ FinishReap(k) \/ AbandonSweep(k) PROVE LockInv'
  BY <1>15 DEF Sweep, PassOver, FinishReap, AbandonSweep, Candidates, Suffer
<1>16. CASE UNCHANGED vars
  BY <1>16 DEF vars
<1>17. ASSUME NEW p \in Lanes, RowAnswerLost(p) PROVE LockInv'
  BY <1>17, SMTT(60) DEF RowAnswerLost, Suffer, Writes, AfterFault
<1>18. ASSUME NEW p \in Lanes, RedisAnswerLost(p) PROVE LockInv'
  BY <1>18, SMTT(60) DEF RedisAnswerLost, Suffer, AfterFault
<1> HIDE DEF TypeOK, LockInv, dbVars, bullVars, laneVars, reaperVars, historyVars
<1> QED
  BY <1>1, <1>2, <1>3, <1>4, <1>5, <1>6, <1>7, <1>8, <1>9, <1>10, <1>11, <1>12, <1>13, <1>14, <1>15,
         <1>16, <1>17, <1>18 DEF Next, LaneStep, ReaperStep

\* A run nobody created stays untouched.
LEMMA CreatedStep == TypeOK /\ CreatedInv /\ [Next]_vars => CreatedInv'
<1> SUFFICES ASSUME TypeOK, CreatedInv, [Next]_vars PROVE CreatedInv'
  OBVIOUS
<1> USE ConstantsAssumption DEF TypeOK, CreatedInv, dbVars, bullVars, laneVars, reaperVars,
       historyVars
<1>1. ASSUME NEW r \in Runs, CreateRun(r) PROVE CreatedInv'
  BY <1>1 DEF CreateRun
<1>2. ASSUME NEW r \in Runs, Enqueue(r) PROVE CreatedInv'
  BY <1>2 DEF Enqueue
<1>3. ASSUME NEW r \in Runs, LoseEnqueue(r) \/ Age(r) \/ ExpireSlot(r) \/ Promote(r) \/
       StallCheck(r) \/ RequestCancel(r) \/ RecordCancel(r) \/ PublishCancel(r) PROVE CreatedInv'
  BY <1>3 DEF LoseEnqueue, Age, ExpireSlot, Promote, StallCheck, RequestCancel, RecordCancel,
         PublishCancel, Suffer, OnRun, Bounded, Executing
<1>4. ASSUME NEW p \in Lanes, NEW r \in Runs, Pickup(p, r) PROVE CreatedInv'
  BY <1>4 DEF Pickup, IsFinalAttempt
<1>5. ASSUME NEW p \in Lanes, HonourQueuedCancel(p) PROVE CreatedInv'
  BY <1>5 DEF HonourQueuedCancel, Goto
<1>6. ASSUME NEW p \in Lanes, Throttle(p) PROVE CreatedInv'
  BY <1>6 DEF Throttle, LeaveLane, HasFreeSlot
<1>7. ASSUME NEW p \in Lanes, Start(p) PROVE CreatedInv'
  BY <1>7 DEF Start, Goto, GotoWith
<1>8. ASSUME NEW p \in Lanes, Succeed(p) PROVE CreatedInv'
  BY <1>8 DEF Succeed, Goto
<1>9. ASSUME NEW p \in Lanes, CatchCancelled(p) PROVE CreatedInv'
  BY <1>9 DEF CatchCancelled, Goto
<1>10. ASSUME NEW p \in Lanes, CatchFailed(p) PROVE CreatedInv'
  BY <1>10 DEF CatchFailed, Goto
<1>11. ASSUME NEW p \in Lanes, Ack(p) PROVE CreatedInv'
  BY <1>11 DEF Ack, LeaveLane
<1>12. ASSUME NEW p \in Lanes, LoseLock(p) PROVE CreatedInv'
  BY <1>12 DEF LoseLock, Suffer
<1>13. ASSUME NEW p \in Lanes, Crash(p) PROVE CreatedInv'
  BY <1>13 DEF Crash, LeaveLane, Suffer, Window
<1>14. ASSUME NEW p \in Lanes, Fault(p) PROVE CreatedInv'
  BY <1>14 DEF Fault, Suffer, Window, AfterFault
<1>15. ASSUME NEW p \in Lanes, Load(p) \/ CheckCancel(p) \/ AcquireSlot(p) \/ ExtractionDone(p) \/
       ExtractionFails(p) \/ SeeCancel(p) \/ Precheck(p) \/ AbortBeforeDispatch(p) \/ Dispatch(p)
       PROVE CreatedInv'
  BY <1>15 DEF Load, CheckCancel, AcquireSlot, ExtractionDone, ExtractionFails, SeeCancel, Precheck,
         AbortBeforeDispatch, Dispatch, Goto, AlreadySettled, HasFreeSlot, GotoWith
<1>16. ASSUME NEW p \in Lanes, AgentReturns(p) \/ ClearCancel(p) \/ CatchRetry(p) \/ Tell(p) \/
       ReleaseSlot(p) PROVE CreatedInv'
  BY <1>16 DEF AgentReturns, ClearCancel, CatchRetry, Tell, ReleaseSlot, Goto, GotoWith
<1>17. ASSUME NEW k \in Reapers, NEW s \in {"RUNNING", "PENDING"}, Sweep(k, s) PROVE CreatedInv'
  BY <1>17 DEF Sweep, Candidates
<1>18. ASSUME NEW k \in Reapers, NEW r \in Runs, PassOver(k, r) PROVE CreatedInv'
  BY <1>18 DEF PassOver
<1>19. ASSUME NEW k \in Reapers, NEW r \in Runs, NEW s \in {"RUNNING", "PENDING"}, Reap(k, r, s)
       PROVE CreatedInv'
  <2> USE <1>19 DEF Reap
  <2>1. ASSUME NEW k2 \in Reapers, NEW r2 \in Runs, NEW s2 \in {"RUNNING", "PENDING"},
               <<r2, s2>> \in todo'[k2]
        PROVE  status'[r2] # "ABSENT"
    <3>1. todo'[k2] \subseteq todo[k2]
      OBVIOUS
    <3>2. \A q \in Reapers, i \in Runs, t \in {"RUNNING", "PENDING"} : <<i, t>> \in todo[q] => status[i] # "ABSENT"
      OBVIOUS
    <3>3. status \in [Runs -> Status] /\ status' = [status EXCEPT ![r] = "FAILED"]
      OBVIOUS
    <3> HIDE DEF TypeOK, CreatedInv, Reap, dbVars, bullVars, laneVars, reaperVars, historyVars
    <3>4. <<r2, s2>> \in todo[k2]
      BY <2>1, <3>1
    <3>5. status[r2] # "ABSENT"
      BY <3>2, <3>4
    <3> QED
      BY <3>3, <3>5
  <2>2. status[r] # "ABSENT"
    OBVIOUS
  <2>3. \A r2 \in Runs : status'[r2] = "ABSENT" <=> status[r2] = "ABSENT"
    BY <2>2
  <2>4. \A k2 \in Reapers : reaping'[k2] # NoRun => reaping'[k2] \in tainted'
    OBVIOUS
  <2>5. \A r2 \in tainted' : status'[r2] # "ABSENT"
    BY <2>2
  <2> QED
    BY <2>1, <2>3, <2>4, <2>5
<1>20. ASSUME NEW k \in Reapers, FinishReap(k) PROVE CreatedInv'
  BY <1>20 DEF FinishReap
<1>21. ASSUME NEW k \in Reapers, AbandonSweep(k) PROVE CreatedInv'
  BY <1>21 DEF AbandonSweep, Suffer
<1>22. CASE UNCHANGED vars
  BY <1>22 DEF vars
<1>23. ASSUME NEW p \in Lanes, RowAnswerLost(p) PROVE CreatedInv'
  BY <1>23, SMTT(60) DEF RowAnswerLost, Suffer, Writes, AfterFault
<1>24. ASSUME NEW p \in Lanes, RedisAnswerLost(p) PROVE CreatedInv'
  BY <1>24, SMTT(60) DEF RedisAnswerLost, Suffer, AfterFault
<1> HIDE DEF TypeOK, CreatedInv, dbVars, bullVars, laneVars, reaperVars, historyVars
<1> QED
  BY <1>1, <1>2, <1>3, <1>4, <1>5, <1>6, <1>7, <1>8, <1>9, <1>10, <1>11, <1>12, <1>13, <1>14, <1>15,
         <1>16, <1>17, <1>18, <1>19, <1>20, <1>21, <1>22, <1>23, <1>24 DEF Next, LaneStep, ReaperStep

\* Where the lane of an undisturbed run is agrees with what its row says.
LEMMA PhaseStep == TypeOK /\ CreatedInv /\ LockInv /\ PhaseInv /\ [Next]_vars => PhaseInv'
<1> SUFFICES ASSUME TypeOK, CreatedInv, LockInv, PhaseInv, [Next]_vars PROVE PhaseInv'
  OBVIOUS
<1> USE ConstantsAssumption DEF TypeOK, dbVars, bullVars, laneVars, reaperVars, historyVars,
       LockInv, PhaseInv, Terminal, TerminalStatus, Bounded
<1>1. ASSUME NEW r \in Runs, CreateRun(r) PROVE PhaseInv'
  BY <1>1 DEF CreateRun, CreatedInv
<1>2. ASSUME NEW r \in Runs, Enqueue(r) \/ LoseEnqueue(r) \/ Age(r) \/ ExpireSlot(r) \/ Promote(r)
       \/ StallCheck(r) \/ RequestCancel(r) \/ RecordCancel(r) \/ PublishCancel(r) PROVE PhaseInv'
  BY <1>2 DEF Enqueue, LoseEnqueue, Age, ExpireSlot, Promote, StallCheck, RequestCancel,
         RecordCancel, PublishCancel, Suffer, OnRun, Bounded, Executing
<1>3. ASSUME NEW p \in Lanes, NEW r \in Runs, Pickup(p, r) PROVE PhaseInv'
  BY <1>3, SMTT(60) DEF Pickup, IsFinalAttempt
<1>4. ASSUME NEW p \in Lanes, Load(p) PROVE PhaseInv'
  <2> USE <1>4 DEF Load
  <2>1. cur[p] \in Runs /\ status[cur[p]] # "ABSENT"
    BY DEF CreatedInv
  <2>2. CASE Terminal(cur[p])
    BY <2>2 DEF Goto, AlreadySettled
  <2>3. CASE ~Terminal(cur[p])
    <3>1. pc' = [pc EXCEPT ![p] = "check"]
      BY <2>3 DEF Goto, AlreadySettled
    <3>2. status[cur[p]] \in {"PENDING", "RUNNING"}
      BY <2>1, <2>3 DEF Status
    <3> QED
      BY <3>1, <3>2
  <2> QED
    BY <2>2, <2>3
<1>5. ASSUME NEW p \in Lanes, CheckCancel(p) PROVE PhaseInv'
  BY <1>5 DEF CheckCancel, Goto
<1>6. ASSUME NEW p \in Lanes, HonourQueuedCancel(p) PROVE PhaseInv'
  BY <1>6 DEF HonourQueuedCancel, Goto
<1>7. ASSUME NEW p \in Lanes, AcquireSlot(p) PROVE PhaseInv'
  BY <1>7 DEF AcquireSlot, Goto, HasFreeSlot
<1>8. ASSUME NEW p \in Lanes, Throttle(p) PROVE PhaseInv'
  BY <1>8, SMTT(60) DEF Throttle, LeaveLane, HasFreeSlot
<1>9. ASSUME NEW p \in Lanes, Start(p) PROVE PhaseInv'
  BY <1>9 DEF Start, Goto, GotoWith
<1>10. ASSUME NEW p \in Lanes, ExtractionDone(p) PROVE PhaseInv'
  BY <1>10 DEF ExtractionDone, Goto
<1>11. ASSUME NEW p \in Lanes, ExtractionFails(p) PROVE PhaseInv'
  BY <1>11 DEF ExtractionFails, Goto, GotoWith
<1>12. ASSUME NEW p \in Lanes, SeeCancel(p) PROVE PhaseInv'
  BY <1>12 DEF SeeCancel, Goto, GotoWith
<1>13. ASSUME NEW p \in Lanes, Precheck(p) PROVE PhaseInv'
  BY <1>13 DEF Precheck, Goto, GotoWith
<1>14. ASSUME NEW p \in Lanes, AbortBeforeDispatch(p) PROVE PhaseInv'
  BY <1>14 DEF AbortBeforeDispatch, Goto, GotoWith
<1>15. ASSUME NEW p \in Lanes, Dispatch(p) PROVE PhaseInv'
  BY <1>15 DEF Dispatch, Goto
<1>16. ASSUME NEW p \in Lanes, AgentReturns(p) PROVE PhaseInv'
  BY <1>16 DEF AgentReturns, Goto, GotoWith
<1>17. ASSUME NEW p \in Lanes, ClearCancel(p) PROVE PhaseInv'
  BY <1>17 DEF ClearCancel, Goto
<1>18. ASSUME NEW p \in Lanes, Succeed(p) PROVE PhaseInv'
  BY <1>18, SMTT(60) DEF Succeed, Goto
<1>19. ASSUME NEW p \in Lanes, CatchCancelled(p) PROVE PhaseInv'
  BY <1>19 DEF CatchCancelled, Goto
<1>20. ASSUME NEW p \in Lanes, CatchFailed(p) PROVE PhaseInv'
  BY <1>20 DEF CatchFailed, Goto
<1>21. ASSUME NEW p \in Lanes, CatchRetry(p) PROVE PhaseInv'
  BY <1>21 DEF CatchRetry, Goto
<1>22. ASSUME NEW p \in Lanes, Tell(p) PROVE PhaseInv'
  BY <1>22 DEF Tell, Goto
<1>23. ASSUME NEW p \in Lanes, ReleaseSlot(p) PROVE PhaseInv'
  BY <1>23 DEF ReleaseSlot, Goto
<1>24. ASSUME NEW p \in Lanes, Ack(p) PROVE PhaseInv'
  BY <1>24, SMTT(60) DEF Ack, LeaveLane
<1>25. ASSUME NEW p \in Lanes, LoseLock(p) PROVE PhaseInv'
  BY <1>25 DEF LoseLock, Suffer
<1>26. ASSUME NEW p \in Lanes, Crash(p) PROVE PhaseInv'
  BY <1>26, SMTT(60) DEF Crash, LeaveLane, Suffer, Window
<1>27. ASSUME NEW p \in Lanes, Fault(p) PROVE PhaseInv'
  <2> USE <1>27 DEF Fault, Suffer, AfterFault
  <2>1. cur' = cur /\ status' = status /\ calls' = calls /\ lock' = lock /\ slots' = slots
    OBVIOUS
  <2>2. tainted \subseteq tainted'
    OBVIOUS
  <2>3. \A q \in Lanes : q # p => pc'[q] = pc[q] /\ err'[q] = err[q]
    OBVIOUS
  <2>4. pc'[p] \in {"ack", "release", "catch"}
    OBVIOUS
  <2>5. pc'[p] = "catch" /\ cur[p] \in Runs \ tainted' => status[cur[p]] = "RUNNING" \/ status[cur[p]] = "PENDING"
    BY DEF PC
  <2> QED
    BY <2>1, <2>2, <2>3, <2>4, <2>5
<1>28. ASSUME NEW k \in Reapers, NEW s \in {"RUNNING", "PENDING"}, Sweep(k, s) PROVE PhaseInv'
  BY <1>28 DEF Sweep, Candidates
<1>29. ASSUME NEW k \in Reapers, NEW r \in Runs, PassOver(k, r) PROVE PhaseInv'
  BY <1>29 DEF PassOver
<1>30. ASSUME NEW k \in Reapers, NEW r \in Runs, NEW s \in {"RUNNING", "PENDING"}, Reap(k, r, s)
       PROVE PhaseInv'
  BY <1>30 DEF Reap
<1>31. ASSUME NEW k \in Reapers, FinishReap(k) PROVE PhaseInv'
  BY <1>31 DEF FinishReap
<1>32. ASSUME NEW k \in Reapers, AbandonSweep(k) PROVE PhaseInv'
  BY <1>32 DEF AbandonSweep, Suffer
<1>33. CASE UNCHANGED vars
  BY <1>33 DEF vars
<1>34. ASSUME NEW p \in Lanes, RowAnswerLost(p) PROVE PhaseInv'
  BY <1>34, SMTT(60) DEF RowAnswerLost, Suffer, Writes, AfterFault
<1>35. ASSUME NEW p \in Lanes, RedisAnswerLost(p) PROVE PhaseInv'
  BY <1>35, SMTT(60) DEF RedisAnswerLost, Suffer, AfterFault
<1> HIDE DEF TypeOK, dbVars, bullVars, laneVars, reaperVars, historyVars, LockInv, PhaseInv,
       Terminal, TerminalStatus, Bounded
<1> QED
  BY <1>1, <1>2, <1>3, <1>4, <1>5, <1>6, <1>7, <1>8, <1>9, <1>10, <1>11, <1>12, <1>13, <1>14, <1>15,
         <1>16, <1>17, <1>18, <1>19, <1>20, <1>21, <1>22, <1>23, <1>24, <1>25, <1>26, <1>27, <1>28,
         <1>29, <1>30, <1>31, <1>32, <1>33, <1>34, <1>35 DEF Next, LaneStep, ReaperStep

\* Whoever executes an undisturbed run keeps holding its slot.
LEMMA ExecutingStep == TypeOK /\ CreatedInv /\ LockInv /\ ExecutingHoldsSlot /\ [Next]_vars =>
       ExecutingHoldsSlot'
<1> SUFFICES ASSUME TypeOK, CreatedInv, LockInv, ExecutingHoldsSlot, [Next]_vars PROVE ExecutingHoldsSlot'
  OBVIOUS
<1> USE ConstantsAssumption DEF TypeOK, dbVars, bullVars, laneVars, reaperVars, historyVars,
       LockInv, ExecutingHoldsSlot, Executing, Bounded
<1>1. ASSUME NEW r \in Runs, ExpireSlot(r) PROVE ExecutingHoldsSlot'
  BY <1>1 DEF ExpireSlot, OnRun, Executing, Bounded
<1>2. ASSUME NEW r \in Runs, CreateRun(r) \/ Enqueue(r) \/ LoseEnqueue(r) \/ Age(r) \/ Promote(r) \/
       StallCheck(r) \/ RequestCancel(r) \/ RecordCancel(r) \/ PublishCancel(r) PROVE
       ExecutingHoldsSlot'
  BY <1>2 DEF CreateRun, Enqueue, LoseEnqueue, Age, Promote, StallCheck, RequestCancel,
         RecordCancel, PublishCancel, Suffer, OnRun, Bounded
<1>3. ASSUME NEW p \in Lanes, NEW r \in Runs, Pickup(p, r) PROVE ExecutingHoldsSlot'
  BY <1>3, SMTT(60) DEF Pickup, IsFinalAttempt
<1>4. ASSUME NEW p \in Lanes, AcquireSlot(p) PROVE ExecutingHoldsSlot'
  BY <1>4 DEF AcquireSlot, Goto, HasFreeSlot
<1>5. ASSUME NEW p \in Lanes, Throttle(p) PROVE ExecutingHoldsSlot'
  BY <1>5, SMTT(60) DEF Throttle, LeaveLane, HasFreeSlot
<1>6. ASSUME NEW p \in Lanes, ReleaseSlot(p) PROVE ExecutingHoldsSlot'
  BY <1>6 DEF ReleaseSlot, Goto
<1>7. ASSUME NEW p \in Lanes, Ack(p) PROVE ExecutingHoldsSlot'
  BY <1>7, SMTT(60) DEF Ack, LeaveLane
<1>8. ASSUME NEW p \in Lanes, LoseLock(p) PROVE ExecutingHoldsSlot'
  BY <1>8 DEF LoseLock, Suffer
<1>9. ASSUME NEW p \in Lanes, Crash(p) PROVE ExecutingHoldsSlot'
  BY <1>9, SMTT(60) DEF Crash, LeaveLane, Suffer, Window
<1>10. ASSUME NEW p \in Lanes, Fault(p) PROVE ExecutingHoldsSlot'
  <2> USE <1>10 DEF Fault, Suffer, AfterFault
  <2>1. cur' = cur /\ status' = status /\ calls' = calls /\ lock' = lock /\ slots' = slots
    OBVIOUS
  <2>2. tainted \subseteq tainted'
    OBVIOUS
  <2>3. \A q \in Lanes : q # p => pc'[q] = pc[q] /\ err'[q] = err[q]
    OBVIOUS
  <2>4. pc'[p] \in {"ack", "release", "catch"}
    OBVIOUS
  <2>5. pc'[p] = "catch" /\ cur[p] \in Runs \ tainted' => pc[p] \in Executing
    BY DEF PC
  <2> QED
    BY <2>1, <2>2, <2>3, <2>4, <2>5
<1>11. ASSUME NEW p \in Lanes, Load(p) \/ CheckCancel(p) \/ HonourQueuedCancel(p) \/ Start(p) \/
       ExtractionDone(p) \/ ExtractionFails(p) \/ SeeCancel(p) \/ Precheck(p) \/
       AbortBeforeDispatch(p) PROVE ExecutingHoldsSlot'
  BY <1>11 DEF Load, CheckCancel, HonourQueuedCancel, Start, ExtractionDone, ExtractionFails,
         SeeCancel, Precheck, AbortBeforeDispatch, Goto, AlreadySettled, GotoWith
<1>12. ASSUME NEW p \in Lanes, Dispatch(p) \/ AgentReturns(p) \/ ClearCancel(p) \/ Succeed(p) \/
       CatchCancelled(p) \/ CatchFailed(p) \/ CatchRetry(p) \/ Tell(p) PROVE ExecutingHoldsSlot'
  BY <1>12 DEF Dispatch, AgentReturns, ClearCancel, Succeed, CatchCancelled, CatchFailed,
         CatchRetry, Tell, Goto, GotoWith
<1>13. ASSUME NEW k \in Reapers, NEW s \in {"RUNNING", "PENDING"}, Sweep(k, s) PROVE
       ExecutingHoldsSlot'
  BY <1>13 DEF Sweep, Candidates
<1>14. ASSUME NEW k \in Reapers, NEW r \in Runs, PassOver(k, r) PROVE ExecutingHoldsSlot'
  BY <1>14 DEF PassOver
<1>15. ASSUME NEW k \in Reapers, NEW r \in Runs, NEW s \in {"RUNNING", "PENDING"}, Reap(k, r, s)
       PROVE ExecutingHoldsSlot'
  BY <1>15 DEF Reap
<1>16. ASSUME NEW k \in Reapers, FinishReap(k) PROVE ExecutingHoldsSlot'
  BY <1>16 DEF FinishReap, CreatedInv
<1>17. ASSUME NEW k \in Reapers, AbandonSweep(k) PROVE ExecutingHoldsSlot'
  BY <1>17 DEF AbandonSweep, Suffer
<1>18. CASE UNCHANGED vars
  BY <1>18 DEF vars
<1>19. ASSUME NEW p \in Lanes, RowAnswerLost(p) PROVE ExecutingHoldsSlot'
  BY <1>19, SMTT(60) DEF RowAnswerLost, Suffer, Writes, AfterFault
<1>20. ASSUME NEW p \in Lanes, RedisAnswerLost(p) PROVE ExecutingHoldsSlot'
  BY <1>20, SMTT(60) DEF RedisAnswerLost, Suffer, AfterFault
<1> HIDE DEF TypeOK, dbVars, bullVars, laneVars, reaperVars, historyVars, LockInv,
       ExecutingHoldsSlot, Executing, Bounded
<1> QED
  BY <1>1, <1>2, <1>3, <1>4, <1>5, <1>6, <1>7, <1>8, <1>9, <1>10, <1>11, <1>12, <1>13, <1>14, <1>15,
         <1>16, <1>17, <1>18, <1>19, <1>20 DEF Next, LaneStep, ReaperStep

\* Side effects follow the end of an undisturbed run, once.
LEMMA ToldOnceStep == TypeOK /\ CreatedInv /\ LockInv /\ PhaseInv /\ ToldOnce /\ [Next]_vars =>
       ToldOnce'
<1> SUFFICES ASSUME TypeOK, CreatedInv, LockInv, PhaseInv, ToldOnce, [Next]_vars PROVE ToldOnce'
  OBVIOUS
<1> USE ConstantsAssumption DEF TypeOK, dbVars, bullVars, laneVars, reaperVars, historyVars,
       LockInv, PhaseInv, ToldOnce, Terminal, TerminalStatus
<1>1. ASSUME NEW r \in Runs, CreateRun(r) PROVE ToldOnce'
  BY <1>1 DEF CreateRun, CreatedInv
<1>2. ASSUME NEW r \in Runs, Enqueue(r) \/ LoseEnqueue(r) \/ Age(r) \/ ExpireSlot(r) \/ Promote(r)
       \/ StallCheck(r) \/ RequestCancel(r) \/ RecordCancel(r) \/ PublishCancel(r) PROVE ToldOnce'
  BY <1>2 DEF Enqueue, LoseEnqueue, Age, ExpireSlot, Promote, StallCheck, RequestCancel,
         RecordCancel, PublishCancel, Suffer, OnRun, Bounded, Executing
<1>3. ASSUME NEW p \in Lanes, NEW r \in Runs, Pickup(p, r) PROVE ToldOnce'
  BY <1>3, SMTT(60) DEF Pickup, IsFinalAttempt
<1>4. ASSUME NEW p \in Lanes, HonourQueuedCancel(p) PROVE ToldOnce'
  BY <1>4 DEF HonourQueuedCancel, Goto
<1>5. ASSUME NEW p \in Lanes, Throttle(p) PROVE ToldOnce'
  BY <1>5, SMTT(60) DEF Throttle, LeaveLane, HasFreeSlot
<1>6. ASSUME NEW p \in Lanes, Start(p) PROVE ToldOnce'
  BY <1>6 DEF Start, Goto, GotoWith
<1>7. ASSUME NEW p \in Lanes, Succeed(p) PROVE ToldOnce'
  BY <1>7, SMTT(60) DEF Succeed, Goto, Bounded
<1>8. ASSUME NEW p \in Lanes, CatchCancelled(p) PROVE ToldOnce'
  BY <1>8 DEF CatchCancelled, Goto
<1>9. ASSUME NEW p \in Lanes, CatchFailed(p) PROVE ToldOnce'
  BY <1>9 DEF CatchFailed, Goto
<1>10. ASSUME NEW p \in Lanes, Tell(p) PROVE ToldOnce'
  BY <1>10 DEF Tell, Goto
<1>11. ASSUME NEW p \in Lanes, Ack(p) PROVE ToldOnce'
  BY <1>11, SMTT(60) DEF Ack, LeaveLane
<1>12. ASSUME NEW p \in Lanes, LoseLock(p) PROVE ToldOnce'
  BY <1>12 DEF LoseLock, Suffer
<1>13. ASSUME NEW p \in Lanes, Crash(p) PROVE ToldOnce'
  BY <1>13, SMTT(60) DEF Crash, LeaveLane, Suffer, Window
<1>14. ASSUME NEW p \in Lanes, Fault(p) PROVE ToldOnce'
  BY <1>14, SMTT(60) DEF Fault, Suffer, Window, AfterFault
<1>15. ASSUME NEW p \in Lanes, Load(p) \/ CheckCancel(p) \/ AcquireSlot(p) \/ ExtractionDone(p) \/
       ExtractionFails(p) \/ SeeCancel(p) \/ Precheck(p) \/ AbortBeforeDispatch(p) \/ Dispatch(p)
       PROVE ToldOnce'
  BY <1>15 DEF Load, CheckCancel, AcquireSlot, ExtractionDone, ExtractionFails, SeeCancel, Precheck,
         AbortBeforeDispatch, Dispatch, Goto, AlreadySettled, HasFreeSlot, GotoWith
<1>16. ASSUME NEW p \in Lanes, AgentReturns(p) \/ ClearCancel(p) \/ CatchRetry(p) \/ ReleaseSlot(p)
       PROVE ToldOnce'
  BY <1>16 DEF AgentReturns, ClearCancel, CatchRetry, ReleaseSlot, Goto, GotoWith
<1>17. ASSUME NEW k \in Reapers, NEW s \in {"RUNNING", "PENDING"}, Sweep(k, s) PROVE ToldOnce'
  BY <1>17 DEF Sweep, Candidates
<1>18. ASSUME NEW k \in Reapers, NEW r \in Runs, PassOver(k, r) PROVE ToldOnce'
  BY <1>18 DEF PassOver
<1>19. ASSUME NEW k \in Reapers, NEW r \in Runs, NEW s \in {"RUNNING", "PENDING"}, Reap(k, r, s)
       PROVE ToldOnce'
  BY <1>19 DEF Reap
<1>20. ASSUME NEW k \in Reapers, FinishReap(k) PROVE ToldOnce'
  BY <1>20 DEF FinishReap, CreatedInv
<1>21. ASSUME NEW k \in Reapers, AbandonSweep(k) PROVE ToldOnce'
  BY <1>21 DEF AbandonSweep, Suffer
<1>22. CASE UNCHANGED vars
  BY <1>22 DEF vars
<1>23. ASSUME NEW p \in Lanes, RowAnswerLost(p) PROVE ToldOnce'
  BY <1>23, SMTT(60) DEF RowAnswerLost, Suffer, Writes, AfterFault
<1>24. ASSUME NEW p \in Lanes, RedisAnswerLost(p) PROVE ToldOnce'
  BY <1>24, SMTT(60) DEF RedisAnswerLost, Suffer, AfterFault
<1> HIDE DEF TypeOK, dbVars, bullVars, laneVars, reaperVars, historyVars, LockInv, PhaseInv,
       ToldOnce, Terminal, TerminalStatus
<1> QED
  BY <1>1, <1>2, <1>3, <1>4, <1>5, <1>6, <1>7, <1>8, <1>9, <1>10, <1>11, <1>12, <1>13, <1>14, <1>15,
         <1>16, <1>17, <1>18, <1>19, <1>20, <1>21, <1>22, <1>23, <1>24 DEF Next, LaneStep, ReaperStep

\* An undisturbed run that ended is announced by the lane that ended it.
LEMMA SomebodyTellsStep == TypeOK /\ CreatedInv /\ LockInv /\ PhaseInv /\ SomebodyTells /\
       [Next]_vars => SomebodyTells'
<1> SUFFICES ASSUME TypeOK, CreatedInv, LockInv, PhaseInv, SomebodyTells, [Next]_vars PROVE SomebodyTells'
  OBVIOUS
<1> USE ConstantsAssumption DEF TypeOK, dbVars, bullVars, laneVars, reaperVars, historyVars,
       LockInv, PhaseInv, SomebodyTells, Terminal, TerminalStatus
<1>1. ASSUME NEW r \in Runs, CreateRun(r) PROVE SomebodyTells'
  BY <1>1 DEF CreateRun, CreatedInv
<1>2. ASSUME NEW r \in Runs, Enqueue(r) \/ LoseEnqueue(r) \/ Age(r) \/ ExpireSlot(r) \/ Promote(r)
       \/ StallCheck(r) \/ RequestCancel(r) \/ RecordCancel(r) \/ PublishCancel(r) PROVE
       SomebodyTells'
  BY <1>2 DEF Enqueue, LoseEnqueue, Age, ExpireSlot, Promote, StallCheck, RequestCancel,
         RecordCancel, PublishCancel, Suffer, OnRun, Bounded, Executing
<1>3. ASSUME NEW p \in Lanes, NEW r \in Runs, Pickup(p, r) PROVE SomebodyTells'
  BY <1>3, SMTT(60) DEF Pickup, IsFinalAttempt
<1>4. ASSUME NEW p \in Lanes, Load(p) PROVE SomebodyTells'
  BY <1>4, SMTT(60) DEF Load, Goto, AlreadySettled
<1>5. ASSUME NEW p \in Lanes, CheckCancel(p) PROVE SomebodyTells'
  BY <1>5 DEF CheckCancel, Goto
<1>6. ASSUME NEW p \in Lanes, HonourQueuedCancel(p) PROVE SomebodyTells'
  BY <1>6 DEF HonourQueuedCancel, Goto
<1>7. ASSUME NEW p \in Lanes, AcquireSlot(p) PROVE SomebodyTells'
  BY <1>7 DEF AcquireSlot, Goto, HasFreeSlot
<1>8. ASSUME NEW p \in Lanes, Throttle(p) PROVE SomebodyTells'
  BY <1>8, SMTT(60) DEF Throttle, LeaveLane, HasFreeSlot
<1>9. ASSUME NEW p \in Lanes, Start(p) PROVE SomebodyTells'
  BY <1>9 DEF Start, Goto, GotoWith
<1>10. ASSUME NEW p \in Lanes, ExtractionDone(p) PROVE SomebodyTells'
  BY <1>10 DEF ExtractionDone, Goto
<1>11. ASSUME NEW p \in Lanes, ExtractionFails(p) PROVE SomebodyTells'
  BY <1>11 DEF ExtractionFails, Goto, GotoWith
<1>12. ASSUME NEW p \in Lanes, SeeCancel(p) PROVE SomebodyTells'
  BY <1>12 DEF SeeCancel, Goto, GotoWith
<1>13. ASSUME NEW p \in Lanes, Precheck(p) PROVE SomebodyTells'
  BY <1>13 DEF Precheck, Goto, GotoWith
<1>14. ASSUME NEW p \in Lanes, AbortBeforeDispatch(p) PROVE SomebodyTells'
  BY <1>14 DEF AbortBeforeDispatch, Goto, GotoWith
<1>15. ASSUME NEW p \in Lanes, Dispatch(p) PROVE SomebodyTells'
  BY <1>15 DEF Dispatch, Goto
<1>16. ASSUME NEW p \in Lanes, AgentReturns(p) PROVE SomebodyTells'
  BY <1>16 DEF AgentReturns, Goto, GotoWith
<1>17. ASSUME NEW p \in Lanes, ClearCancel(p) PROVE SomebodyTells'
  BY <1>17 DEF ClearCancel, Goto
<1>18. ASSUME NEW p \in Lanes, Succeed(p) PROVE SomebodyTells'
  BY <1>18, SMTT(60) DEF Succeed, Goto
<1>19. ASSUME NEW p \in Lanes, CatchCancelled(p) PROVE SomebodyTells'
  BY <1>19 DEF CatchCancelled, Goto
<1>20. ASSUME NEW p \in Lanes, CatchFailed(p) PROVE SomebodyTells'
  BY <1>20 DEF CatchFailed, Goto
<1>21. ASSUME NEW p \in Lanes, CatchRetry(p) PROVE SomebodyTells'
  BY <1>21 DEF CatchRetry, Goto
<1>22. ASSUME NEW p \in Lanes, Tell(p) PROVE SomebodyTells'
  BY <1>22 DEF Tell, Goto
<1>23. ASSUME NEW p \in Lanes, ReleaseSlot(p) PROVE SomebodyTells'
  BY <1>23 DEF ReleaseSlot, Goto
<1>24. ASSUME NEW p \in Lanes, Ack(p) PROVE SomebodyTells'
  BY <1>24, SMTT(60) DEF Ack, LeaveLane
<1>25. ASSUME NEW p \in Lanes, LoseLock(p) PROVE SomebodyTells'
  BY <1>25 DEF LoseLock, Suffer
<1>26. ASSUME NEW p \in Lanes, Crash(p) PROVE SomebodyTells'
  BY <1>26, SMTT(60) DEF Crash, LeaveLane, Suffer, Window
<1>27. ASSUME NEW p \in Lanes, Fault(p) PROVE SomebodyTells'
  BY <1>27, SMTT(60) DEF Fault, Suffer, Window, AfterFault
<1>28. ASSUME NEW k \in Reapers, NEW s \in {"RUNNING", "PENDING"}, Sweep(k, s) PROVE SomebodyTells'
  BY <1>28 DEF Sweep, Candidates
<1>29. ASSUME NEW k \in Reapers, NEW r \in Runs, PassOver(k, r) PROVE SomebodyTells'
  BY <1>29 DEF PassOver
<1>30. ASSUME NEW k \in Reapers, NEW r \in Runs, NEW s \in {"RUNNING", "PENDING"}, Reap(k, r, s)
       PROVE SomebodyTells'
  BY <1>30 DEF Reap
<1>31. ASSUME NEW k \in Reapers, FinishReap(k) PROVE SomebodyTells'
  BY <1>31 DEF FinishReap, CreatedInv
<1>32. ASSUME NEW k \in Reapers, AbandonSweep(k) PROVE SomebodyTells'
  BY <1>32 DEF AbandonSweep, Suffer
<1>33. CASE UNCHANGED vars
  BY <1>33 DEF vars
<1>34. ASSUME NEW p \in Lanes, RowAnswerLost(p) PROVE SomebodyTells'
  BY <1>34, SMTT(60) DEF RowAnswerLost, Suffer, Writes, AfterFault
<1>35. ASSUME NEW p \in Lanes, RedisAnswerLost(p) PROVE SomebodyTells'
  BY <1>35, SMTT(60) DEF RedisAnswerLost, Suffer, AfterFault
<1> HIDE DEF TypeOK, dbVars, bullVars, laneVars, reaperVars, historyVars, LockInv, PhaseInv,
       SomebodyTells, Terminal, TerminalStatus
<1> QED
  BY <1>1, <1>2, <1>3, <1>4, <1>5, <1>6, <1>7, <1>8, <1>9, <1>10, <1>11, <1>12, <1>13, <1>14, <1>15,
         <1>16, <1>17, <1>18, <1>19, <1>20, <1>21, <1>22, <1>23, <1>24, <1>25, <1>26, <1>27, <1>28,
         <1>29, <1>30, <1>31, <1>32, <1>33, <1>34, <1>35 DEF Next, LaneStep, ReaperStep

\* A cancel recorded while no lane had the run is not lost ...
LEMMA QuietKeptStep == TypeOK /\ CreatedInv /\ LockInv /\ PhaseInv /\ QuietKept /\ QuietStopsLanes
       /\ [Next]_vars => QuietKept'
<1> SUFFICES ASSUME TypeOK, CreatedInv, LockInv, PhaseInv, QuietKept, QuietStopsLanes, [Next]_vars PROVE QuietKept'
  OBVIOUS
<1> USE ConstantsAssumption DEF TypeOK, dbVars, bullVars, laneVars, reaperVars, historyVars,
       LockInv, PhaseInv, QuietKept, QuietStopsLanes, Terminal, TerminalStatus, OnRun
<1>1. ASSUME NEW r \in Runs, CreateRun(r) PROVE QuietKept'
  BY <1>1 DEF CreateRun, CreatedInv
<1>2. ASSUME NEW r \in Runs, RecordCancel(r) PROVE QuietKept'
  BY <1>2 DEF RecordCancel, OnRun
<1>3. ASSUME NEW r \in Runs, Enqueue(r) \/ LoseEnqueue(r) \/ Age(r) \/ ExpireSlot(r) \/ Promote(r)
       \/ StallCheck(r) \/ RequestCancel(r) \/ PublishCancel(r) PROVE QuietKept'
  BY <1>3 DEF Enqueue, LoseEnqueue, Age, ExpireSlot, Promote, StallCheck, RequestCancel,
         PublishCancel, Suffer, OnRun, Bounded, Executing
<1>4. ASSUME NEW p \in Lanes, NEW r \in Runs, Pickup(p, r) PROVE QuietKept'
  BY <1>4, SMTT(60) DEF Pickup, IsFinalAttempt
<1>5. ASSUME NEW p \in Lanes, Load(p) PROVE QuietKept'
  BY <1>5, SMTT(60) DEF Load, Goto, AlreadySettled
<1>6. ASSUME NEW p \in Lanes, CheckCancel(p) PROVE QuietKept'
  BY <1>6 DEF CheckCancel, Goto
<1>7. ASSUME NEW p \in Lanes, HonourQueuedCancel(p) PROVE QuietKept'
  BY <1>7 DEF HonourQueuedCancel, Goto
<1>8. ASSUME NEW p \in Lanes, AcquireSlot(p) PROVE QuietKept'
  BY <1>8 DEF AcquireSlot, Goto, HasFreeSlot
<1>9. ASSUME NEW p \in Lanes, Throttle(p) PROVE QuietKept'
  BY <1>9, SMTT(60) DEF Throttle, LeaveLane, HasFreeSlot
<1>10. ASSUME NEW p \in Lanes, Start(p) PROVE QuietKept'
  BY <1>10 DEF Start, Goto, GotoWith
<1>11. ASSUME NEW p \in Lanes, ExtractionDone(p) PROVE QuietKept'
  BY <1>11 DEF ExtractionDone, Goto
<1>12. ASSUME NEW p \in Lanes, ExtractionFails(p) PROVE QuietKept'
  BY <1>12 DEF ExtractionFails, Goto, GotoWith
<1>13. ASSUME NEW p \in Lanes, SeeCancel(p) PROVE QuietKept'
  BY <1>13 DEF SeeCancel, Goto, GotoWith
<1>14. ASSUME NEW p \in Lanes, Precheck(p) PROVE QuietKept'
  BY <1>14 DEF Precheck, Goto, GotoWith
<1>15. ASSUME NEW p \in Lanes, AbortBeforeDispatch(p) PROVE QuietKept'
  BY <1>15 DEF AbortBeforeDispatch, Goto, GotoWith
<1>16. ASSUME NEW p \in Lanes, Dispatch(p) PROVE QuietKept'
  BY <1>16 DEF Dispatch, Goto
<1>17. ASSUME NEW p \in Lanes, AgentReturns(p) PROVE QuietKept'
  BY <1>17 DEF AgentReturns, Goto, GotoWith
<1>18. ASSUME NEW p \in Lanes, ClearCancel(p) PROVE QuietKept'
  BY <1>18 DEF ClearCancel, Goto
<1>19. ASSUME NEW p \in Lanes, Succeed(p) PROVE QuietKept'
  BY <1>19, SMTT(60) DEF Succeed, Goto
<1>20. ASSUME NEW p \in Lanes, CatchCancelled(p) PROVE QuietKept'
  BY <1>20 DEF CatchCancelled, Goto
<1>21. ASSUME NEW p \in Lanes, CatchFailed(p) PROVE QuietKept'
  BY <1>21 DEF CatchFailed, Goto
<1>22. ASSUME NEW p \in Lanes, CatchRetry(p) PROVE QuietKept'
  BY <1>22 DEF CatchRetry, Goto
<1>23. ASSUME NEW p \in Lanes, Tell(p) PROVE QuietKept'
  BY <1>23 DEF Tell, Goto
<1>24. ASSUME NEW p \in Lanes, ReleaseSlot(p) PROVE QuietKept'
  BY <1>24 DEF ReleaseSlot, Goto
<1>25. ASSUME NEW p \in Lanes, Ack(p) PROVE QuietKept'
  BY <1>25, SMTT(60) DEF Ack, LeaveLane
<1>26. ASSUME NEW p \in Lanes, LoseLock(p) PROVE QuietKept'
  BY <1>26 DEF LoseLock, Suffer
<1>27. ASSUME NEW p \in Lanes, Crash(p) PROVE QuietKept'
  BY <1>27, SMTT(60) DEF Crash, LeaveLane, Suffer, Window
<1>28. ASSUME NEW p \in Lanes, Fault(p) PROVE QuietKept'
  BY <1>28, SMTT(60) DEF Fault, Suffer, Window, AfterFault
<1>29. ASSUME NEW k \in Reapers, NEW s \in {"RUNNING", "PENDING"}, Sweep(k, s) PROVE QuietKept'
  BY <1>29 DEF Sweep, Candidates
<1>30. ASSUME NEW k \in Reapers, NEW r \in Runs, PassOver(k, r) PROVE QuietKept'
  BY <1>30 DEF PassOver
<1>31. ASSUME NEW k \in Reapers, NEW r \in Runs, NEW s \in {"RUNNING", "PENDING"}, Reap(k, r, s)
       PROVE QuietKept'
  BY <1>31 DEF Reap
<1>32. ASSUME NEW k \in Reapers, FinishReap(k) PROVE QuietKept'
  BY <1>32 DEF FinishReap
<1>33. ASSUME NEW k \in Reapers, AbandonSweep(k) PROVE QuietKept'
  BY <1>33 DEF AbandonSweep, Suffer
<1>34. CASE UNCHANGED vars
  BY <1>34 DEF vars
<1>35. ASSUME NEW p \in Lanes, RowAnswerLost(p) PROVE QuietKept'
  BY <1>35, SMTT(60) DEF RowAnswerLost, Suffer, Writes, AfterFault
<1>36. ASSUME NEW p \in Lanes, RedisAnswerLost(p) PROVE QuietKept'
  BY <1>36, SMTT(60) DEF RedisAnswerLost, Suffer, AfterFault
<1> HIDE DEF TypeOK, dbVars, bullVars, laneVars, reaperVars, historyVars, LockInv, PhaseInv,
       QuietKept, QuietStopsLanes, Terminal, TerminalStatus, OnRun
<1> QED
  BY <1>1, <1>2, <1>3, <1>4, <1>5, <1>6, <1>7, <1>8, <1>9, <1>10, <1>11, <1>12, <1>13, <1>14, <1>15,
         <1>16, <1>17, <1>18, <1>19, <1>20, <1>21, <1>22, <1>23, <1>24, <1>25, <1>26, <1>27, <1>28,
         <1>29, <1>30, <1>31, <1>32, <1>33, <1>34, <1>35, <1>36 DEF Next, LaneStep, ReaperStep

\* ... and keeps every lane of that run before the agent call.
LEMMA QuietStopsStep == TypeOK /\ CreatedInv /\ LockInv /\ PhaseInv /\ QuietKept /\ QuietStopsLanes
       /\ [Next]_vars => QuietStopsLanes'
<1> SUFFICES ASSUME TypeOK, CreatedInv, LockInv, PhaseInv, QuietKept, QuietStopsLanes, [Next]_vars PROVE QuietStopsLanes'
  OBVIOUS
<1> USE ConstantsAssumption DEF TypeOK, dbVars, bullVars, laneVars, reaperVars, historyVars,
       LockInv, PhaseInv, QuietKept, QuietStopsLanes, Terminal, TerminalStatus, OnRun
<1>1. ASSUME NEW r \in Runs, CreateRun(r) PROVE QuietStopsLanes'
  BY <1>1 DEF CreateRun, CreatedInv
<1>2. ASSUME NEW r \in Runs, RecordCancel(r) PROVE QuietStopsLanes'
  BY <1>2 DEF RecordCancel, OnRun
<1>3. ASSUME NEW r \in Runs, Enqueue(r) \/ LoseEnqueue(r) \/ Age(r) \/ ExpireSlot(r) \/ Promote(r)
       \/ StallCheck(r) \/ RequestCancel(r) \/ PublishCancel(r) PROVE QuietStopsLanes'
  BY <1>3 DEF Enqueue, LoseEnqueue, Age, ExpireSlot, Promote, StallCheck, RequestCancel,
         PublishCancel, Suffer, OnRun, Bounded, Executing
<1>4. ASSUME NEW p \in Lanes, NEW r \in Runs, Pickup(p, r) PROVE QuietStopsLanes'
  BY <1>4, SMTT(60) DEF Pickup, IsFinalAttempt
<1>5. ASSUME NEW p \in Lanes, Load(p) PROVE QuietStopsLanes'
  BY <1>5, SMTT(60) DEF Load, Goto, AlreadySettled
<1>6. ASSUME NEW p \in Lanes, CheckCancel(p) PROVE QuietStopsLanes'
  BY <1>6 DEF CheckCancel, Goto
<1>7. ASSUME NEW p \in Lanes, HonourQueuedCancel(p) PROVE QuietStopsLanes'
  BY <1>7 DEF HonourQueuedCancel, Goto
<1>8. ASSUME NEW p \in Lanes, AcquireSlot(p) PROVE QuietStopsLanes'
  BY <1>8 DEF AcquireSlot, Goto, HasFreeSlot
<1>9. ASSUME NEW p \in Lanes, Throttle(p) PROVE QuietStopsLanes'
  BY <1>9, SMTT(60) DEF Throttle, LeaveLane, HasFreeSlot
<1>10. ASSUME NEW p \in Lanes, Start(p) PROVE QuietStopsLanes'
  BY <1>10 DEF Start, Goto, GotoWith
<1>11. ASSUME NEW p \in Lanes, ExtractionDone(p) PROVE QuietStopsLanes'
  BY <1>11 DEF ExtractionDone, Goto
<1>12. ASSUME NEW p \in Lanes, ExtractionFails(p) PROVE QuietStopsLanes'
  BY <1>12 DEF ExtractionFails, Goto, GotoWith
<1>13. ASSUME NEW p \in Lanes, SeeCancel(p) PROVE QuietStopsLanes'
  BY <1>13 DEF SeeCancel, Goto, GotoWith
<1>14. ASSUME NEW p \in Lanes, Precheck(p) PROVE QuietStopsLanes'
  BY <1>14 DEF Precheck, Goto, GotoWith
<1>15. ASSUME NEW p \in Lanes, AbortBeforeDispatch(p) PROVE QuietStopsLanes'
  BY <1>15 DEF AbortBeforeDispatch, Goto, GotoWith
<1>16. ASSUME NEW p \in Lanes, Dispatch(p) PROVE QuietStopsLanes'
  BY <1>16 DEF Dispatch, Goto
<1>17. ASSUME NEW p \in Lanes, AgentReturns(p) PROVE QuietStopsLanes'
  BY <1>17 DEF AgentReturns, Goto, GotoWith
<1>18. ASSUME NEW p \in Lanes, ClearCancel(p) PROVE QuietStopsLanes'
  BY <1>18 DEF ClearCancel, Goto
<1>19. ASSUME NEW p \in Lanes, Succeed(p) PROVE QuietStopsLanes'
  BY <1>19, SMTT(60) DEF Succeed, Goto
<1>20. ASSUME NEW p \in Lanes, CatchCancelled(p) PROVE QuietStopsLanes'
  BY <1>20 DEF CatchCancelled, Goto
<1>21. ASSUME NEW p \in Lanes, CatchFailed(p) PROVE QuietStopsLanes'
  BY <1>21 DEF CatchFailed, Goto
<1>22. ASSUME NEW p \in Lanes, CatchRetry(p) PROVE QuietStopsLanes'
  BY <1>22 DEF CatchRetry, Goto
<1>23. ASSUME NEW p \in Lanes, Tell(p) PROVE QuietStopsLanes'
  BY <1>23 DEF Tell, Goto
<1>24. ASSUME NEW p \in Lanes, ReleaseSlot(p) PROVE QuietStopsLanes'
  BY <1>24 DEF ReleaseSlot, Goto
<1>25. ASSUME NEW p \in Lanes, Ack(p) PROVE QuietStopsLanes'
  BY <1>25, SMTT(60) DEF Ack, LeaveLane
<1>26. ASSUME NEW p \in Lanes, LoseLock(p) PROVE QuietStopsLanes'
  BY <1>26 DEF LoseLock, Suffer
<1>27. ASSUME NEW p \in Lanes, Crash(p) PROVE QuietStopsLanes'
  BY <1>27, SMTT(60) DEF Crash, LeaveLane, Suffer, Window
<1>28. ASSUME NEW p \in Lanes, Fault(p) PROVE QuietStopsLanes'
  BY <1>28, SMTT(60) DEF Fault, Suffer, Window, AfterFault
<1>29. ASSUME NEW k \in Reapers, NEW s \in {"RUNNING", "PENDING"}, Sweep(k, s) PROVE
       QuietStopsLanes'
  BY <1>29 DEF Sweep, Candidates
<1>30. ASSUME NEW k \in Reapers, NEW r \in Runs, PassOver(k, r) PROVE QuietStopsLanes'
  BY <1>30 DEF PassOver
<1>31. ASSUME NEW k \in Reapers, NEW r \in Runs, NEW s \in {"RUNNING", "PENDING"}, Reap(k, r, s)
       PROVE QuietStopsLanes'
  BY <1>31 DEF Reap
<1>32. ASSUME NEW k \in Reapers, FinishReap(k) PROVE QuietStopsLanes'
  BY <1>32 DEF FinishReap
<1>33. ASSUME NEW k \in Reapers, AbandonSweep(k) PROVE QuietStopsLanes'
  BY <1>33 DEF AbandonSweep, Suffer
<1>34. CASE UNCHANGED vars
  BY <1>34 DEF vars
<1>35. ASSUME NEW p \in Lanes, RowAnswerLost(p) PROVE QuietStopsLanes'
  BY <1>35, SMTT(60) DEF RowAnswerLost, Suffer, Writes, AfterFault
<1>36. ASSUME NEW p \in Lanes, RedisAnswerLost(p) PROVE QuietStopsLanes'
  BY <1>36, SMTT(60) DEF RedisAnswerLost, Suffer, AfterFault
<1> HIDE DEF TypeOK, dbVars, bullVars, laneVars, reaperVars, historyVars, LockInv, PhaseInv,
       QuietKept, QuietStopsLanes, Terminal, TerminalStatus, OnRun
<1> QED
  BY <1>1, <1>2, <1>3, <1>4, <1>5, <1>6, <1>7, <1>8, <1>9, <1>10, <1>11, <1>12, <1>13, <1>14, <1>15,
         <1>16, <1>17, <1>18, <1>19, <1>20, <1>21, <1>22, <1>23, <1>24, <1>25, <1>26, <1>27, <1>28,
         <1>29, <1>30, <1>31, <1>32, <1>33, <1>34, <1>35, <1>36 DEF Next, LaneStep, ReaperStep

\* An idle lane carries no error over to the next job.
LEMMA IdleStep == TypeOK /\ IdleInv /\ [Next]_vars => IdleInv'
<1> SUFFICES ASSUME TypeOK, IdleInv, [Next]_vars PROVE IdleInv'
  OBVIOUS
<1> USE ConstantsAssumption DEF TypeOK, dbVars, bullVars, laneVars, reaperVars, historyVars, IdleInv
<1>1. ASSUME NEW r \in Runs, CreateRun(r) \/ Enqueue(r) \/ LoseEnqueue(r) \/ Age(r) \/ ExpireSlot(r)
       \/ Promote(r) \/ StallCheck(r) \/ RequestCancel(r) \/ RecordCancel(r) \/ PublishCancel(r)
       PROVE IdleInv'
  BY <1>1 DEF CreateRun, Enqueue, LoseEnqueue, Age, ExpireSlot, Promote, StallCheck, RequestCancel,
         RecordCancel, PublishCancel, Suffer, OnRun, Bounded, Executing
<1>2. ASSUME NEW p \in Lanes, NEW r \in Runs, Pickup(p, r) PROVE IdleInv'
  BY <1>2 DEF Pickup, IsFinalAttempt
<1>3. ASSUME NEW p \in Lanes, Load(p) \/ CheckCancel(p) \/ HonourQueuedCancel(p) \/ AcquireSlot(p)
       \/ Throttle(p) \/ Start(p) \/ ExtractionDone(p) \/ ExtractionFails(p) \/ SeeCancel(p) PROVE
       IdleInv'
  BY <1>3 DEF Load, CheckCancel, HonourQueuedCancel, AcquireSlot, Throttle, Start, ExtractionDone,
         ExtractionFails, SeeCancel, Goto, AlreadySettled, HasFreeSlot, LeaveLane, GotoWith
<1>4. ASSUME NEW p \in Lanes, Precheck(p) \/ AbortBeforeDispatch(p) \/ Dispatch(p) \/
       AgentReturns(p) \/ ClearCancel(p) \/ Succeed(p) \/ CatchCancelled(p) \/ CatchFailed(p) \/
       CatchRetry(p) PROVE IdleInv'
  BY <1>4 DEF Precheck, AbortBeforeDispatch, Dispatch, AgentReturns, ClearCancel, Succeed,
         CatchCancelled, CatchFailed, CatchRetry, Goto, GotoWith
<1>5. ASSUME NEW p \in Lanes, Tell(p) \/ ReleaseSlot(p) \/ Ack(p) \/ LoseLock(p) \/ Crash(p) \/
       Fault(p) PROVE IdleInv'
  BY <1>5 DEF Tell, ReleaseSlot, Ack, LoseLock, Crash, Fault, Goto, LeaveLane, Suffer, Window,
         AfterFault
<1>6. ASSUME NEW k \in Reapers, (\E s \in {"RUNNING", "PENDING"} : Sweep(k, s)) \/ (\E r \in Runs :
       PassOver(k, r)) \/ (\E r \in Runs, s \in {"RUNNING", "PENDING"} : Reap(k, r, s)) \/
       FinishReap(k) \/ AbandonSweep(k) PROVE IdleInv'
  BY <1>6 DEF Sweep, PassOver, Reap, FinishReap, AbandonSweep, Candidates, Suffer
<1>7. CASE UNCHANGED vars
  BY <1>7 DEF vars
<1>8. ASSUME NEW p \in Lanes, RowAnswerLost(p) PROVE IdleInv'
  BY <1>8, SMTT(60) DEF RowAnswerLost, Suffer, Writes, AfterFault
<1>9. ASSUME NEW p \in Lanes, RedisAnswerLost(p) PROVE IdleInv'
  BY <1>9, SMTT(60) DEF RedisAnswerLost, Suffer, AfterFault
<1> HIDE DEF TypeOK, dbVars, bullVars, laneVars, reaperVars, historyVars, IdleInv
<1> QED
  BY <1>1, <1>2, <1>3, <1>4, <1>5, <1>6, <1>7, <1>8, <1>9 DEF Next, LaneStep, ReaperStep

\* How a lane ended agrees with the row it leaves.
LEMMA OutcomeStep == TypeOK /\ CreatedInv /\ LockInv /\ PhaseInv /\ IdleInv /\ OutcomeInv /\
       [Next]_vars => OutcomeInv'
<1> SUFFICES ASSUME TypeOK, CreatedInv, LockInv, PhaseInv, IdleInv, OutcomeInv, [Next]_vars PROVE OutcomeInv'
  OBVIOUS
<1> USE ConstantsAssumption DEF TypeOK, dbVars, bullVars, laneVars, reaperVars, historyVars,
       LockInv, PhaseInv, IdleInv, OutcomeInv, Terminal, TerminalStatus, IsFinalAttempt, Mishap
<1>1. ASSUME NEW r \in Runs, CreateRun(r) PROVE OutcomeInv'
  BY <1>1 DEF CreateRun, CreatedInv
<1>2. ASSUME NEW r \in Runs, LoseEnqueue(r) PROVE OutcomeInv'
  BY <1>2 DEF LoseEnqueue, Suffer
<1>3. ASSUME NEW r \in Runs, Enqueue(r) \/ Age(r) \/ ExpireSlot(r) \/ Promote(r) \/ StallCheck(r) \/
       RequestCancel(r) \/ RecordCancel(r) \/ PublishCancel(r) PROVE OutcomeInv'
  BY <1>3 DEF Enqueue, Age, ExpireSlot, Promote, StallCheck, RequestCancel, RecordCancel,
         PublishCancel, OnRun, Bounded, Executing
<1>4. ASSUME NEW p \in Lanes, NEW r \in Runs, Pickup(p, r) PROVE OutcomeInv'
  <2> USE <1>4 DEF Pickup
  <2>1. cur'[p] = r /\ pc'[p] = "load" /\ err' = err /\ status' = status /\ made' = made
    OBVIOUS
  <2>2. err[p] = "none"
    OBVIOUS
  <2>3. final'[p] <=> IsFinalAttempt(r)
    <3> HIDE DEF IsFinalAttempt, OutcomeInv, PhaseInv, LockInv, IdleInv
    <3>1. final \in [Lanes -> BOOLEAN] /\ final' = [final EXCEPT ![p] = IsFinalAttempt(r)]
      OBVIOUS
    <3> QED
      BY <3>1, ZenonT(30)
  <2>4. \A q \in Lanes : q # p => cur'[q] = cur[q] /\ pc'[q] = pc[q] /\ final'[q] = final[q]
    OBVIOUS
  <2> QED
    BY <2>1, <2>2, <2>3, <2>4
<1>5. ASSUME NEW p \in Lanes, Load(p) PROVE OutcomeInv'
  BY <1>5, SMTT(60) DEF Load, Goto, AlreadySettled
<1>6. ASSUME NEW p \in Lanes, CheckCancel(p) PROVE OutcomeInv'
  BY <1>6 DEF CheckCancel, Goto
<1>7. ASSUME NEW p \in Lanes, HonourQueuedCancel(p) PROVE OutcomeInv'
  BY <1>7 DEF HonourQueuedCancel, Goto
<1>8. ASSUME NEW p \in Lanes, AcquireSlot(p) PROVE OutcomeInv'
  BY <1>8 DEF AcquireSlot, Goto, HasFreeSlot
<1>9. ASSUME NEW p \in Lanes, Throttle(p) PROVE OutcomeInv'
  BY <1>9, SMTT(60) DEF Throttle, LeaveLane, HasFreeSlot
<1>10. ASSUME NEW p \in Lanes, Start(p) PROVE OutcomeInv'
  BY <1>10 DEF Start, Goto, GotoWith
<1>11. ASSUME NEW p \in Lanes, ExtractionDone(p) PROVE OutcomeInv'
  BY <1>11 DEF ExtractionDone, Goto
<1>12. ASSUME NEW p \in Lanes, ExtractionFails(p) PROVE OutcomeInv'
  BY <1>12 DEF ExtractionFails, Goto, GotoWith
<1>13. ASSUME NEW p \in Lanes, SeeCancel(p) PROVE OutcomeInv'
  BY <1>13 DEF SeeCancel, Goto, GotoWith
<1>14. ASSUME NEW p \in Lanes, Precheck(p) PROVE OutcomeInv'
  BY <1>14 DEF Precheck, Goto, GotoWith
<1>15. ASSUME NEW p \in Lanes, AbortBeforeDispatch(p) PROVE OutcomeInv'
  BY <1>15 DEF AbortBeforeDispatch, Goto, GotoWith
<1>16. ASSUME NEW p \in Lanes, Dispatch(p) PROVE OutcomeInv'
  BY <1>16 DEF Dispatch, Goto
<1>17. ASSUME NEW p \in Lanes, AgentReturns(p) PROVE OutcomeInv'
  BY <1>17 DEF AgentReturns, Goto, GotoWith
<1>18. ASSUME NEW p \in Lanes, ClearCancel(p) PROVE OutcomeInv'
  BY <1>18 DEF ClearCancel, Goto
<1>19. ASSUME NEW p \in Lanes, Succeed(p) PROVE OutcomeInv'
  BY <1>19, SMTT(60) DEF Succeed, Goto
<1>20. ASSUME NEW p \in Lanes, CatchCancelled(p) PROVE OutcomeInv'
  BY <1>20 DEF CatchCancelled, Goto
<1>21. ASSUME NEW p \in Lanes, CatchFailed(p) PROVE OutcomeInv'
  BY <1>21 DEF CatchFailed, Goto
<1>22. ASSUME NEW p \in Lanes, CatchRetry(p) PROVE OutcomeInv'
  BY <1>22 DEF CatchRetry, Goto
<1>23. ASSUME NEW p \in Lanes, Tell(p) PROVE OutcomeInv'
  BY <1>23 DEF Tell, Goto
<1>24. ASSUME NEW p \in Lanes, ReleaseSlot(p) PROVE OutcomeInv'
  BY <1>24 DEF ReleaseSlot, Goto
<1>25. ASSUME NEW p \in Lanes, Ack(p) PROVE OutcomeInv'
  BY <1>25, SMTT(60) DEF Ack, LeaveLane
<1>26. ASSUME NEW p \in Lanes, LoseLock(p) PROVE OutcomeInv'
  BY <1>26 DEF LoseLock, Suffer
<1>27. ASSUME NEW p \in Lanes, Crash(p) PROVE OutcomeInv'
  BY <1>27, SMTT(60) DEF Crash, LeaveLane, Suffer, Window
<1>28. ASSUME NEW p \in Lanes, Fault(p) PROVE OutcomeInv'
  BY <1>28, SMTT(60) DEF Fault, Suffer, Window, AfterFault
<1>29. ASSUME NEW k \in Reapers, NEW s \in {"RUNNING", "PENDING"}, Sweep(k, s) PROVE OutcomeInv'
  BY <1>29 DEF Sweep, Candidates
<1>30. ASSUME NEW k \in Reapers, NEW r \in Runs, PassOver(k, r) PROVE OutcomeInv'
  BY <1>30 DEF PassOver
<1>31. ASSUME NEW k \in Reapers, NEW r \in Runs, NEW s \in {"RUNNING", "PENDING"}, Reap(k, r, s)
       PROVE OutcomeInv'
  BY <1>31 DEF Reap
<1>32. ASSUME NEW k \in Reapers, FinishReap(k) PROVE OutcomeInv'
  BY <1>32 DEF FinishReap
<1>33. ASSUME NEW k \in Reapers, AbandonSweep(k) PROVE OutcomeInv'
  BY <1>33 DEF AbandonSweep, Suffer
<1>34. CASE UNCHANGED vars
  BY <1>34 DEF vars
<1>35. ASSUME NEW p \in Lanes, RowAnswerLost(p) PROVE OutcomeInv'
  BY <1>35, SMTT(60) DEF RowAnswerLost, Suffer, Writes, AfterFault
<1>36. ASSUME NEW p \in Lanes, RedisAnswerLost(p) PROVE OutcomeInv'
  BY <1>36, SMTT(60) DEF RedisAnswerLost, Suffer, AfterFault
<1> HIDE DEF TypeOK, dbVars, bullVars, laneVars, reaperVars, historyVars, LockInv, PhaseInv,
       IdleInv, OutcomeInv, Terminal, TerminalStatus, IsFinalAttempt, Mishap
<1> QED
  BY <1>1, <1>2, <1>3, <1>4, <1>5, <1>6, <1>7, <1>8, <1>9, <1>10, <1>11, <1>12, <1>13, <1>14, <1>15,
         <1>16, <1>17, <1>18, <1>19, <1>20, <1>21, <1>22, <1>23, <1>24, <1>25, <1>26, <1>27, <1>28,
         <1>29, <1>30, <1>31, <1>32, <1>33, <1>34, <1>35, <1>36 DEF Next, LaneStep, ReaperStep

\* A slot is taken on the way to a release.
LEMMA HoldersStep == TypeOK /\ SlotsHaveHolders /\ [Next]_vars => SlotsHaveHolders'
<1> SUFFICES ASSUME TypeOK, SlotsHaveHolders, [Next]_vars PROVE SlotsHaveHolders'
  OBVIOUS
<1> USE ConstantsAssumption DEF TypeOK, dbVars, bullVars, laneVars, reaperVars, historyVars,
       SlotsHaveHolders, Holding, Executing, Bounded, Mishap
<1>1. ASSUME NEW r \in Runs, LoseEnqueue(r) PROVE SlotsHaveHolders'
  BY <1>1 DEF LoseEnqueue, Suffer
<1>2. ASSUME NEW r \in Runs, CreateRun(r) \/ Enqueue(r) \/ Age(r) \/ ExpireSlot(r) \/ Promote(r) \/
       StallCheck(r) \/ RequestCancel(r) \/ RecordCancel(r) \/ PublishCancel(r) PROVE
       SlotsHaveHolders'
  BY <1>2 DEF CreateRun, Enqueue, Age, ExpireSlot, Promote, StallCheck, RequestCancel, RecordCancel,
         PublishCancel, OnRun, Bounded, Executing
<1>3. ASSUME NEW p \in Lanes, NEW r \in Runs, Pickup(p, r) PROVE SlotsHaveHolders'
  BY <1>3, SMTT(60) DEF Pickup, IsFinalAttempt
<1>4. ASSUME NEW p \in Lanes, Load(p) PROVE SlotsHaveHolders'
  BY <1>4, SMTT(60) DEF Load, Goto, AlreadySettled
<1>5. ASSUME NEW p \in Lanes, CheckCancel(p) PROVE SlotsHaveHolders'
  BY <1>5 DEF CheckCancel, Goto
<1>6. ASSUME NEW p \in Lanes, HonourQueuedCancel(p) PROVE SlotsHaveHolders'
  BY <1>6 DEF HonourQueuedCancel, Goto
<1>7. ASSUME NEW p \in Lanes, AcquireSlot(p) PROVE SlotsHaveHolders'
  BY <1>7 DEF AcquireSlot, Goto, HasFreeSlot
<1>8. ASSUME NEW p \in Lanes, Throttle(p) PROVE SlotsHaveHolders'
  BY <1>8, SMTT(60) DEF Throttle, LeaveLane, HasFreeSlot
<1>9. ASSUME NEW p \in Lanes, Start(p) PROVE SlotsHaveHolders'
  BY <1>9 DEF Start, Goto, GotoWith
<1>10. ASSUME NEW p \in Lanes, ExtractionDone(p) PROVE SlotsHaveHolders'
  BY <1>10 DEF ExtractionDone, Goto
<1>11. ASSUME NEW p \in Lanes, ExtractionFails(p) PROVE SlotsHaveHolders'
  BY <1>11 DEF ExtractionFails, Goto, GotoWith
<1>12. ASSUME NEW p \in Lanes, SeeCancel(p) PROVE SlotsHaveHolders'
  BY <1>12 DEF SeeCancel, Goto, GotoWith
<1>13. ASSUME NEW p \in Lanes, Precheck(p) PROVE SlotsHaveHolders'
  BY <1>13 DEF Precheck, Goto, GotoWith
<1>14. ASSUME NEW p \in Lanes, AbortBeforeDispatch(p) PROVE SlotsHaveHolders'
  BY <1>14 DEF AbortBeforeDispatch, Goto, GotoWith
<1>15. ASSUME NEW p \in Lanes, Dispatch(p) PROVE SlotsHaveHolders'
  BY <1>15 DEF Dispatch, Goto
<1>16. ASSUME NEW p \in Lanes, AgentReturns(p) PROVE SlotsHaveHolders'
  BY <1>16 DEF AgentReturns, Goto, GotoWith
<1>17. ASSUME NEW p \in Lanes, ClearCancel(p) PROVE SlotsHaveHolders'
  BY <1>17 DEF ClearCancel, Goto
<1>18. ASSUME NEW p \in Lanes, Succeed(p) PROVE SlotsHaveHolders'
  BY <1>18, SMTT(60) DEF Succeed, Goto
<1>19. ASSUME NEW p \in Lanes, CatchCancelled(p) PROVE SlotsHaveHolders'
  BY <1>19 DEF CatchCancelled, Goto
<1>20. ASSUME NEW p \in Lanes, CatchFailed(p) PROVE SlotsHaveHolders'
  BY <1>20 DEF CatchFailed, Goto
<1>21. ASSUME NEW p \in Lanes, CatchRetry(p) PROVE SlotsHaveHolders'
  BY <1>21 DEF CatchRetry, Goto
<1>22. ASSUME NEW p \in Lanes, Tell(p) PROVE SlotsHaveHolders'
  BY <1>22 DEF Tell, Goto
<1>23. ASSUME NEW p \in Lanes, ReleaseSlot(p) PROVE SlotsHaveHolders'
  BY <1>23 DEF ReleaseSlot, Goto
<1>24. ASSUME NEW p \in Lanes, Ack(p) PROVE SlotsHaveHolders'
  BY <1>24, SMTT(60) DEF Ack, LeaveLane
<1>25. ASSUME NEW p \in Lanes, LoseLock(p) PROVE SlotsHaveHolders'
  BY <1>25 DEF LoseLock, Suffer
<1>26. ASSUME NEW p \in Lanes, Crash(p) PROVE SlotsHaveHolders'
  BY <1>26, SMTT(60) DEF Crash, LeaveLane, Suffer, Window
<1>27. ASSUME NEW p \in Lanes, Fault(p) PROVE SlotsHaveHolders'
  BY <1>27, SMTT(60) DEF Fault, Suffer, Window, AfterFault
<1>28. ASSUME NEW k \in Reapers, NEW s \in {"RUNNING", "PENDING"}, Sweep(k, s) PROVE
       SlotsHaveHolders'
  BY <1>28 DEF Sweep, Candidates
<1>29. ASSUME NEW k \in Reapers, NEW r \in Runs, PassOver(k, r) PROVE SlotsHaveHolders'
  BY <1>29 DEF PassOver
<1>30. ASSUME NEW k \in Reapers, NEW r \in Runs, NEW s \in {"RUNNING", "PENDING"}, Reap(k, r, s)
       PROVE SlotsHaveHolders'
  BY <1>30 DEF Reap
<1>31. ASSUME NEW k \in Reapers, FinishReap(k) PROVE SlotsHaveHolders'
  BY <1>31 DEF FinishReap
<1>32. ASSUME NEW k \in Reapers, AbandonSweep(k) PROVE SlotsHaveHolders'
  BY <1>32 DEF AbandonSweep, Suffer
<1>33. CASE UNCHANGED vars
  BY <1>33 DEF vars
<1>34. ASSUME NEW p \in Lanes, RowAnswerLost(p) PROVE SlotsHaveHolders'
  BY <1>34, SMTT(60) DEF RowAnswerLost, Suffer, Writes, AfterFault
<1>35. ASSUME NEW p \in Lanes, RedisAnswerLost(p) PROVE SlotsHaveHolders'
  BY <1>35, SMTT(60) DEF RedisAnswerLost, Suffer, AfterFault
<1> HIDE DEF TypeOK, dbVars, bullVars, laneVars, reaperVars, historyVars, SlotsHaveHolders, Holding,
       Executing, Bounded, Mishap
<1> QED
  BY <1>1, <1>2, <1>3, <1>4, <1>5, <1>6, <1>7, <1>8, <1>9, <1>10, <1>11, <1>12, <1>13, <1>14, <1>15,
         <1>16, <1>17, <1>18, <1>19, <1>20, <1>21, <1>22, <1>23, <1>24, <1>25, <1>26, <1>27, <1>28,
         <1>29, <1>30, <1>31, <1>32, <1>33, <1>34, <1>35 DEF Next, LaneStep, ReaperStep

\* BullMQ's verdict agrees with the row.
LEMMA QueueStep == TypeOK /\ CreatedInv /\ LockInv /\ PhaseInv /\ OutcomeInv /\
       QueueAgreesWithStatus /\ [Next]_vars => QueueAgreesWithStatus'
<1> SUFFICES ASSUME TypeOK, CreatedInv, LockInv, PhaseInv, OutcomeInv, QueueAgreesWithStatus, [Next]_vars PROVE QueueAgreesWithStatus'
  OBVIOUS
<1> USE ConstantsAssumption DEF TypeOK, dbVars, bullVars, laneVars, reaperVars, historyVars,
       LockInv, PhaseInv, OutcomeInv, QueueAgreesWithStatus, Terminal, TerminalStatus, Mishap,
       Bounded
<1>1. ASSUME NEW r \in Runs, CreateRun(r) PROVE QueueAgreesWithStatus'
  BY <1>1 DEF CreateRun, CreatedInv
<1>2. ASSUME NEW r \in Runs, Enqueue(r) PROVE QueueAgreesWithStatus'
  BY <1>2 DEF Enqueue
<1>3. ASSUME NEW r \in Runs, LoseEnqueue(r) PROVE QueueAgreesWithStatus'
  BY <1>3 DEF LoseEnqueue, Suffer
<1>4. ASSUME NEW r \in Runs, Promote(r) PROVE QueueAgreesWithStatus'
  BY <1>4 DEF Promote
<1>5. ASSUME NEW r \in Runs, StallCheck(r) PROVE QueueAgreesWithStatus'
  BY <1>5 DEF StallCheck
<1>6. ASSUME NEW r \in Runs, Age(r) \/ ExpireSlot(r) \/ RequestCancel(r) \/ RecordCancel(r) \/
       PublishCancel(r) PROVE QueueAgreesWithStatus'
  BY <1>6 DEF Age, ExpireSlot, RequestCancel, RecordCancel, PublishCancel, OnRun, Bounded, Executing
<1>7. ASSUME NEW p \in Lanes, NEW r \in Runs, Pickup(p, r) PROVE QueueAgreesWithStatus'
  BY <1>7, SMTT(60) DEF Pickup, IsFinalAttempt
<1>8. ASSUME NEW p \in Lanes, Load(p) PROVE QueueAgreesWithStatus'
  BY <1>8, SMTT(60) DEF Load, Goto, AlreadySettled
<1>9. ASSUME NEW p \in Lanes, CheckCancel(p) PROVE QueueAgreesWithStatus'
  BY <1>9 DEF CheckCancel, Goto
<1>10. ASSUME NEW p \in Lanes, HonourQueuedCancel(p) PROVE QueueAgreesWithStatus'
  BY <1>10 DEF HonourQueuedCancel, Goto
<1>11. ASSUME NEW p \in Lanes, AcquireSlot(p) PROVE QueueAgreesWithStatus'
  BY <1>11 DEF AcquireSlot, Goto, HasFreeSlot
<1>12. ASSUME NEW p \in Lanes, Throttle(p) PROVE QueueAgreesWithStatus'
  BY <1>12, SMTT(60) DEF Throttle, LeaveLane, HasFreeSlot
<1>13. ASSUME NEW p \in Lanes, Start(p) PROVE QueueAgreesWithStatus'
  BY <1>13 DEF Start, Goto, GotoWith
<1>14. ASSUME NEW p \in Lanes, ExtractionDone(p) PROVE QueueAgreesWithStatus'
  BY <1>14 DEF ExtractionDone, Goto
<1>15. ASSUME NEW p \in Lanes, ExtractionFails(p) PROVE QueueAgreesWithStatus'
  BY <1>15 DEF ExtractionFails, Goto, GotoWith
<1>16. ASSUME NEW p \in Lanes, SeeCancel(p) PROVE QueueAgreesWithStatus'
  BY <1>16 DEF SeeCancel, Goto, GotoWith
<1>17. ASSUME NEW p \in Lanes, Precheck(p) PROVE QueueAgreesWithStatus'
  BY <1>17 DEF Precheck, Goto, GotoWith
<1>18. ASSUME NEW p \in Lanes, AbortBeforeDispatch(p) PROVE QueueAgreesWithStatus'
  BY <1>18 DEF AbortBeforeDispatch, Goto, GotoWith
<1>19. ASSUME NEW p \in Lanes, Dispatch(p) PROVE QueueAgreesWithStatus'
  BY <1>19 DEF Dispatch, Goto
<1>20. ASSUME NEW p \in Lanes, AgentReturns(p) PROVE QueueAgreesWithStatus'
  BY <1>20 DEF AgentReturns, Goto, GotoWith
<1>21. ASSUME NEW p \in Lanes, ClearCancel(p) PROVE QueueAgreesWithStatus'
  BY <1>21 DEF ClearCancel, Goto
<1>22. ASSUME NEW p \in Lanes, Succeed(p) PROVE QueueAgreesWithStatus'
  BY <1>22, SMTT(60) DEF Succeed, Goto
<1>23. ASSUME NEW p \in Lanes, CatchCancelled(p) PROVE QueueAgreesWithStatus'
  BY <1>23 DEF CatchCancelled, Goto
<1>24. ASSUME NEW p \in Lanes, CatchFailed(p) PROVE QueueAgreesWithStatus'
  BY <1>24 DEF CatchFailed, Goto
<1>25. ASSUME NEW p \in Lanes, CatchRetry(p) PROVE QueueAgreesWithStatus'
  BY <1>25 DEF CatchRetry, Goto
<1>26. ASSUME NEW p \in Lanes, Tell(p) PROVE QueueAgreesWithStatus'
  BY <1>26 DEF Tell, Goto
<1>27. ASSUME NEW p \in Lanes, ReleaseSlot(p) PROVE QueueAgreesWithStatus'
  BY <1>27 DEF ReleaseSlot, Goto
<1>28. ASSUME NEW p \in Lanes, Ack(p) PROVE QueueAgreesWithStatus'
  BY <1>28, SMTT(60) DEF Ack, LeaveLane, IsFinalAttempt
<1>29. ASSUME NEW p \in Lanes, LoseLock(p) PROVE QueueAgreesWithStatus'
  BY <1>29 DEF LoseLock, Suffer
<1>30. ASSUME NEW p \in Lanes, Crash(p) PROVE QueueAgreesWithStatus'
  BY <1>30, SMTT(60) DEF Crash, LeaveLane, Suffer, Window
<1>31. ASSUME NEW p \in Lanes, Fault(p) PROVE QueueAgreesWithStatus'
  BY <1>31, SMTT(60) DEF Fault, Suffer, Window, AfterFault
<1>32. ASSUME NEW k \in Reapers, NEW s \in {"RUNNING", "PENDING"}, Sweep(k, s) PROVE
       QueueAgreesWithStatus'
  BY <1>32 DEF Sweep, Candidates
<1>33. ASSUME NEW k \in Reapers, NEW r \in Runs, PassOver(k, r) PROVE QueueAgreesWithStatus'
  BY <1>33 DEF PassOver
<1>34. ASSUME NEW k \in Reapers, NEW r \in Runs, NEW s \in {"RUNNING", "PENDING"}, Reap(k, r, s)
       PROVE QueueAgreesWithStatus'
  BY <1>34 DEF Reap
<1>35. ASSUME NEW k \in Reapers, FinishReap(k) PROVE QueueAgreesWithStatus'
  BY <1>35 DEF FinishReap
<1>36. ASSUME NEW k \in Reapers, AbandonSweep(k) PROVE QueueAgreesWithStatus'
  BY <1>36 DEF AbandonSweep, Suffer
<1>37. CASE UNCHANGED vars
  BY <1>37 DEF vars
<1>38. ASSUME NEW p \in Lanes, RowAnswerLost(p) PROVE QueueAgreesWithStatus'
  BY <1>38, SMTT(60) DEF RowAnswerLost, Suffer, Writes, AfterFault
<1>39. ASSUME NEW p \in Lanes, RedisAnswerLost(p) PROVE QueueAgreesWithStatus'
  BY <1>39, SMTT(60) DEF RedisAnswerLost, Suffer, AfterFault
<1> HIDE DEF TypeOK, dbVars, bullVars, laneVars, reaperVars, historyVars, LockInv, PhaseInv,
       OutcomeInv, QueueAgreesWithStatus, Terminal, TerminalStatus, Mishap, Bounded
<1> QED
  BY <1>1, <1>2, <1>3, <1>4, <1>5, <1>6, <1>7, <1>8, <1>9, <1>10, <1>11, <1>12, <1>13, <1>14, <1>15,
         <1>16, <1>17, <1>18, <1>19, <1>20, <1>21, <1>22, <1>23, <1>24, <1>25, <1>26, <1>27, <1>28,
         <1>29, <1>30, <1>31, <1>32, <1>33, <1>34, <1>35, <1>36, <1>37, <1>38, <1>39 DEF Next, LaneStep,
         ReaperStep

\* A slot is taken below the limit.
TakesSlot(q) == HasFreeSlot(OwnerOf[cur[q]]) /\ slots' = slots \cup {cur[q]}

\* Only tryAcquireUserSlot adds a slot, whether or not its answer arrives.
LEMMA OnlyAcquireGrows == TypeOK /\ [Next]_vars => slots' \subseteq slots \/ \E q \in Lanes : TakesSlot(q)
<1> SUFFICES ASSUME TypeOK, [Next]_vars PROVE slots' \subseteq slots \/ \E q \in Lanes : TakesSlot(q)
  OBVIOUS
<1> USE ConstantsAssumption DEF TypeOK, dbVars, bullVars, laneVars, reaperVars, historyVars
<1>1. ASSUME NEW r \in Runs, CreateRun(r) \/ Enqueue(r) \/ LoseEnqueue(r) \/ Age(r) \/ ExpireSlot(r)
       \/ Promote(r) \/ StallCheck(r) \/ RequestCancel(r) \/ RecordCancel(r) \/ PublishCancel(r)
       PROVE slots' \subseteq slots \/ \E q \in Lanes : TakesSlot(q)
  BY <1>1 DEF CreateRun, Enqueue, LoseEnqueue, Age, ExpireSlot, Promote, StallCheck, RequestCancel,
         RecordCancel, PublishCancel, Suffer, OnRun, Bounded, Executing
<1>2. ASSUME NEW p \in Lanes, NEW r \in Runs, Pickup(p, r) PROVE slots' \subseteq slots \/ \E q \in Lanes : TakesSlot(q)
  BY <1>2 DEF Pickup, IsFinalAttempt
<1>3. ASSUME NEW p \in Lanes, AcquireSlot(p) PROVE slots' \subseteq slots \/ \E q \in Lanes : TakesSlot(q)
  BY <1>3 DEF AcquireSlot, TakesSlot
<1>4. ASSUME NEW p \in Lanes, Load(p) \/ CheckCancel(p) \/ HonourQueuedCancel(p) \/ Throttle(p) \/
       Start(p) \/ ExtractionDone(p) \/ ExtractionFails(p) \/ SeeCancel(p) \/ Precheck(p) PROVE slots' \subseteq slots \/ \E q \in Lanes : TakesSlot(q)
  BY <1>4 DEF Load, CheckCancel, HonourQueuedCancel, Throttle, Start, ExtractionDone,
         ExtractionFails, SeeCancel, Precheck, Goto, AlreadySettled, LeaveLane, HasFreeSlot,
         GotoWith
<1>5. ASSUME NEW p \in Lanes, AbortBeforeDispatch(p) \/ Dispatch(p) \/ AgentReturns(p) \/
       ClearCancel(p) \/ Succeed(p) \/ CatchCancelled(p) \/ CatchFailed(p) \/ CatchRetry(p) \/
       Tell(p) PROVE slots' \subseteq slots \/ \E q \in Lanes : TakesSlot(q)
  BY <1>5 DEF AbortBeforeDispatch, Dispatch, AgentReturns, ClearCancel, Succeed, CatchCancelled,
         CatchFailed, CatchRetry, Tell, Goto, GotoWith
<1>6. ASSUME NEW p \in Lanes, ReleaseSlot(p) \/ Ack(p) \/ LoseLock(p) \/ Crash(p) \/ Fault(p) PROVE slots' \subseteq slots \/ \E q \in Lanes : TakesSlot(q)
  BY <1>6 DEF ReleaseSlot, Ack, LoseLock, Crash, Fault, Goto, LeaveLane, Suffer, Window, AfterFault
<1>7. ASSUME NEW k \in Reapers, (\E s \in {"RUNNING", "PENDING"} : Sweep(k, s)) \/ (\E r \in Runs :
       PassOver(k, r)) \/ (\E r \in Runs, s \in {"RUNNING", "PENDING"} : Reap(k, r, s)) \/
       FinishReap(k) \/ AbandonSweep(k) PROVE slots' \subseteq slots \/ \E q \in Lanes : TakesSlot(q)
  BY <1>7 DEF Sweep, PassOver, Reap, FinishReap, AbandonSweep, Candidates, Suffer
<1>8. CASE UNCHANGED vars
  BY <1>8 DEF vars
<1>9. ASSUME NEW p \in Lanes, RowAnswerLost(p) PROVE slots' \subseteq slots \/ \E q \in Lanes : TakesSlot(q)
  BY <1>9, SMTT(60) DEF RowAnswerLost, Suffer, Writes, AfterFault, TakesSlot
<1>10. ASSUME NEW p \in Lanes, RedisAnswerLost(p) PROVE slots' \subseteq slots \/ \E q \in Lanes : TakesSlot(q)
  BY <1>10, SMTT(60) DEF RedisAnswerLost, Suffer, AfterFault, TakesSlot
<1> HIDE DEF TypeOK, dbVars, bullVars, laneVars, reaperVars, historyVars
<1> QED
  BY <1>1, <1>2, <1>3, <1>4, <1>5, <1>6, <1>7, <1>8, <1>9, <1>10 DEF Next, LaneStep, ReaperStep

\* The slots of any user stay within the limit: the acquiring script counts first.
LEMMA LimitStep == TypeOK /\ SlotsWithinLimit /\ [Next]_vars => SlotsWithinLimit'
<1> SUFFICES ASSUME TypeOK, SlotsWithinLimit, [Next]_vars, NEW u \in Users
             PROVE  Cardinality(SlotsOf(u)') <= UserLimit
  BY DEF SlotsWithinLimit
<1>1. /\ IsFiniteSet(SlotsOf(u))
      /\ Cardinality(SlotsOf(u)) \in Nat
      /\ Cardinality(SlotsOf(u)) <= UserLimit
  <2>1. SlotsOf(u) \subseteq Runs
    BY DEF SlotsOf, TypeOK
  <2> QED
    BY <2>1, ConstantsAssumption, FS_Subset, FS_CardinalityType DEF SlotsWithinLimit
<1>2. CASE slots' \subseteq slots
  <2>1. SlotsOf(u)' \subseteq SlotsOf(u)
    BY <1>2 DEF SlotsOf
  <2>2. IsFiniteSet(SlotsOf(u)') /\ Cardinality(SlotsOf(u)') <= Cardinality(SlotsOf(u))
    BY <1>1, <2>1, FS_Subset
  <2>3. Cardinality(SlotsOf(u)') \in Nat
    BY <2>2, FS_CardinalityType
  <2> QED
    BY <1>1, <2>2, <2>3, ConstantsAssumption
<1>3. ASSUME NEW p \in Lanes, TakesSlot(p) PROVE Cardinality(SlotsOf(u)') <= UserLimit
  <2>1. slots' = slots \cup {cur[p]}
    BY <1>3 DEF TakesSlot
  <2>2. CASE OwnerOf[cur[p]] = u
    <3>1. SlotsOf(u)' = SlotsOf(u) \cup {cur[p]}
      BY <2>1, <2>2 DEF SlotsOf
    <3>2. Cardinality(SlotsOf(u)) < UserLimit
      BY <1>3, <2>2 DEF TakesSlot, HasFreeSlot
    <3> DEFINE S == SlotsOf(u)
               x == cur[p]
    <3>3. IsFiniteSet(S \cup {x}) /\ Cardinality(S \cup {x}) <= Cardinality(S) + 1
      <4> HIDE DEF S, x
      <4>1. IsFiniteSet(S) /\ Cardinality(S) \in Nat
        BY <1>1 DEF S
      <4>2. IsFiniteSet(S \cup {x})
        BY <4>1, FS_AddElement
      <4>3. CASE x \in S
        <5>1. S \cup {x} = S
          BY <4>3
        <5> QED
          BY <4>1, <5>1
      <4>4. CASE x \notin S
        <5>1. Cardinality(S \cup {x}) = Cardinality(S) + 1
          BY <4>1, <4>4, FS_AddElement
        <5> QED
          BY <4>1, <4>2, <5>1
      <4> QED
        BY <4>3, <4>4
    <3>4. Cardinality(S \cup {x}) \in Nat
      BY <3>3, FS_CardinalityType
    <3>5. Cardinality(SlotsOf(u)') = Cardinality(S \cup {x})
      BY <3>1
    <3> HIDE DEF S, x
    <3>6. Cardinality(S) < UserLimit /\ Cardinality(S) \in Nat
      BY <1>1, <3>2 DEF S
    <3> QED
      BY <3>3, <3>4, <3>5, <3>6, ConstantsAssumption
  <2>3. CASE OwnerOf[cur[p]] # u
    <3>1. SlotsOf(u)' = SlotsOf(u)
      BY <2>1, <2>3 DEF SlotsOf
    <3> QED
      BY <1>1, <3>1
  <2> QED
    BY <2>2, <2>3
<1> QED
  BY <1>2, <1>3, OnlyAcquireGrows

\* Initially nothing exists.
LEMMA InvInit == Init => TypeOK /\ Inv
<1> SUFFICES ASSUME Init PROVE TypeOK /\ Inv
  OBVIOUS
<1> USE ConstantsAssumption DEF Init
<1>1. TypeOK
  BY DEF TypeOK, Status, TerminalStatus, JobState, ErrorKind, PC, Mishap
<1>2. LockInv /\ CreatedInv /\ IdleInv
  BY DEF LockInv, CreatedInv, IdleInv
<1>3. PhaseInv /\ OutcomeInv /\ QuietStopsLanes /\ ExecutingHoldsSlot
  BY DEF PhaseInv, OutcomeInv, QuietStopsLanes, ExecutingHoldsSlot
<1>4. ToldOnce /\ SomebodyTells /\ QuietKept /\ QueueAgreesWithStatus
  BY DEF ToldOnce, SomebodyTells, QuietKept, QueueAgreesWithStatus, Terminal, TerminalStatus
<1>5. SlotsHaveHolders
  BY DEF SlotsHaveHolders
<1>6. SlotsWithinLimit
  <2> SUFFICES ASSUME NEW u \in Users PROVE Cardinality(SlotsOf(u)) <= UserLimit
    BY DEF SlotsWithinLimit
  <2>1. SlotsOf(u) = {}
    BY DEF SlotsOf
  <2>2. Cardinality(SlotsOf(u)) = 0
    BY <2>1, FS_EmptySet
  <2> QED
    BY <2>2
<1> QED
  BY <1>1, <1>2, <1>3, <1>4, <1>5, <1>6 DEF Inv

\* The inductive invariant holds throughout, for all values of the constants.
THEOREM Invariance == Spec => [](TypeOK /\ Inv)
<1>1. TypeOK /\ Inv /\ [Next]_vars => (TypeOK /\ Inv)'
  BY TypeStep, LockStep, CreatedStep, PhaseStep, ExecutingStep, LimitStep, HoldersStep, ToldOnceStep,
     SomebodyTellsStep, QuietKeptStep, QuietStopsStep, IdleStep, OutcomeStep, QueueStep DEF Inv
<1> QED
  BY InvInit, <1>1, PTL DEF Spec

-----------------------------------------------------------------------------

\* Every variable keeps its type.
THEOREM TypeCorrect == Spec => []TypeOK
<1>1. Init => TypeOK
  BY InvInit
<1> QED
  BY <1>1, TypeStep, PTL DEF Spec

\* The per-user ceiling of concurrency.ts bounds the runs that execute: each of
\* them holds a slot, and the acquiring script keeps the slots within the limit.
THEOREM CeilingKept == Spec => []PerUserCeiling
<1>1. TypeOK /\ Inv => PerUserCeiling
  <2> SUFFICES ASSUME TypeOK, Inv, NEW u \in Users
               PROVE  Cardinality({r \in Runs : /\ OwnerOf[r] = u /\ r \notin tainted
                                                /\ \E p \in OnRun(r) : pc[p] \in Executing}) <= UserLimit
    BY DEF PerUserCeiling
  <2> DEFINE executing == {r \in Runs : /\ OwnerOf[r] = u /\ r \notin tainted
                                        /\ \E p \in OnRun(r) : pc[p] \in Executing}
  <2>1. executing \subseteq SlotsOf(u)
    <3> SUFFICES ASSUME NEW r \in executing PROVE r \in SlotsOf(u)
      OBVIOUS
    <3>1. PICK p \in Lanes : cur[p] = r /\ pc[p] \in Executing
      BY DEF OnRun
    <3>2. r \in slots
      BY <3>1 DEF Inv, ExecutingHoldsSlot
    <3> QED
      BY <3>2 DEF SlotsOf
  <2>2. IsFiniteSet(SlotsOf(u))
    <3>1. SlotsOf(u) \subseteq Runs
      BY DEF SlotsOf, TypeOK
    <3> QED
      BY <3>1, ConstantsAssumption, FS_Subset
  <2>3. IsFiniteSet(executing) /\ Cardinality(executing) <= Cardinality(SlotsOf(u))
    <3> HIDE DEF executing
    <3> QED
      BY <2>1, <2>2, FS_Subset
  <2>4. Cardinality(SlotsOf(u)) <= UserLimit
    BY DEF Inv, SlotsWithinLimit
  <2>5. Cardinality(executing) \in Nat /\ Cardinality(SlotsOf(u)) \in Nat
    <3> HIDE DEF executing
    <3> QED
      BY <2>2, <2>3, FS_CardinalityType
  <2> HIDE DEF executing
  <2>6. Cardinality(executing) <= UserLimit
    BY <2>3, <2>4, <2>5, ConstantsAssumption
  <2> QED
    BY <2>6 DEF executing
<1> QED
  BY <1>1, Invariance, PTL

\* Every way out of processRun gives the slot back.
THEOREM SlotsGivenBack == Spec => []NoSlotLeak
<1>1. TypeOK /\ Inv => NoSlotLeak
  BY DEF Inv, SlotsHaveHolders, NoSlotLeak, OnRun, TypeOK
<1> QED
  BY <1>1, Invariance, PTL

\* The end of a run is announced at most once, and exactly once when BullMQ is
\* done with its job, disturbed runs and interrupted announcements aside.
THEOREM AnnouncedOnceHolds == Spec => []AnnouncedOnce
<1>1. TypeOK /\ Inv => AnnouncedOnce
  <2> SUFFICES ASSUME TypeOK, Inv, NEW r \in Runs \ tainted
               PROVE  /\ told[r] <= 1
                      /\ job[r] \in {"completed", "failed"} /\ Terminal(r) /\ <<r, "tell">> \notin cut
                            => told[r] = 1
    BY DEF AnnouncedOnce
  <2>1. told[r] \in Nat /\ told[r] <= 1
    BY DEF TypeOK, Inv, ToldOnce
  <2>2. ASSUME job[r] \in {"completed", "failed"} PROVE \A p \in Lanes : cur[p] # r
    BY <2>2, ConstantsAssumption DEF Inv, LockInv
  <2>3. ASSUME job[r] \in {"completed", "failed"}, Terminal(r), <<r, "tell">> \notin cut
        PROVE  told[r] # 0
    BY <2>2, <2>3 DEF Inv, SomebodyTells
  <2> QED
    BY <2>1, <2>3
<1> QED
  BY <1>1, Invariance, PTL

\* BullMQ and Postgres agree about how an undisturbed run ended.
THEOREM QueueAgrees == Spec => []QueueAgreesWithStatus
<1>1. TypeOK /\ Inv => QueueAgreesWithStatus
  BY DEF Inv
<1> QED
  BY <1>1, Invariance, PTL

\* Only the step that puts the request on the wire counts a call.
LEMMA OnlyDispatchCalls ==
    ASSUME TypeOK, [Next]_vars, NEW r \in Runs, calls'[r] # calls[r]
    PROVE  \E p \in Lanes : cur[p] = r /\ pc[p] = "dispatch" /\ Dispatch(p)
<1> USE ConstantsAssumption DEF TypeOK, dbVars, bullVars, laneVars, reaperVars, historyVars
<1>1. ASSUME NEW q \in Runs, CreateRun(q) \/ Enqueue(q) \/ LoseEnqueue(q) \/ Age(q) \/ ExpireSlot(q)
       \/ Promote(q) \/ StallCheck(q) \/ RequestCancel(q) \/ RecordCancel(q) \/ PublishCancel(q)
       PROVE calls' = calls
  BY <1>1 DEF CreateRun, Enqueue, LoseEnqueue, Age, ExpireSlot, Promote, StallCheck, RequestCancel,
         RecordCancel, PublishCancel, Suffer, OnRun, Bounded, Executing
<1>2. ASSUME NEW p \in Lanes, NEW q \in Runs, Pickup(p, q) PROVE calls' = calls
  BY <1>2 DEF Pickup, IsFinalAttempt
<1>3. ASSUME NEW p \in Lanes, Dispatch(p), calls'[r] # calls[r]
        PROVE  cur[p] = r /\ pc[p] = "dispatch"
  BY <1>3 DEF Dispatch, Goto
<1>4. ASSUME NEW p \in Lanes, Load(p) \/ CheckCancel(p) \/ HonourQueuedCancel(p) \/ AcquireSlot(p)
       \/ Throttle(p) \/ Start(p) \/ ExtractionDone(p) \/ ExtractionFails(p) \/ SeeCancel(p) PROVE calls' = calls
  BY <1>4 DEF Load, CheckCancel, HonourQueuedCancel, AcquireSlot, Throttle, Start, ExtractionDone,
         ExtractionFails, SeeCancel, Goto, AlreadySettled, HasFreeSlot, LeaveLane, GotoWith
<1>5. ASSUME NEW p \in Lanes, Precheck(p) \/ AbortBeforeDispatch(p) \/ AgentReturns(p) \/
       ClearCancel(p) \/ Succeed(p) \/ CatchCancelled(p) \/ CatchFailed(p) \/ CatchRetry(p) \/
       Tell(p) PROVE calls' = calls
  BY <1>5 DEF Precheck, AbortBeforeDispatch, AgentReturns, ClearCancel, Succeed, CatchCancelled,
         CatchFailed, CatchRetry, Tell, Goto, GotoWith
<1>6. ASSUME NEW p \in Lanes, ReleaseSlot(p) \/ Ack(p) \/ LoseLock(p) \/ Crash(p) \/ Fault(p) PROVE calls' = calls
  BY <1>6 DEF ReleaseSlot, Ack, LoseLock, Crash, Fault, Goto, LeaveLane, Suffer, Window, AfterFault
<1>7. ASSUME NEW k \in Reapers, (\E s \in {"RUNNING", "PENDING"} : Sweep(k, s)) \/ (\E q \in Runs :
       PassOver(k, q)) \/ (\E q \in Runs, s \in {"RUNNING", "PENDING"} : Reap(k, q, s)) \/
       FinishReap(k) \/ AbandonSweep(k) PROVE calls' = calls
  BY <1>7 DEF Sweep, PassOver, Reap, FinishReap, AbandonSweep, Candidates, Suffer
<1>8. CASE UNCHANGED vars
  BY <1>8 DEF vars
<1>9. ASSUME NEW p \in Lanes, RowAnswerLost(p) PROVE calls' = calls
  BY <1>9, SMTT(60) DEF RowAnswerLost, Suffer, Writes, AfterFault
<1>10. ASSUME NEW p \in Lanes, RedisAnswerLost(p) PROVE calls' = calls
  BY <1>10, SMTT(60) DEF RedisAnswerLost, Suffer, AfterFault
<1> HIDE DEF TypeOK, dbVars, bullVars, laneVars, reaperVars, historyVars
<1> QED
  BY <1>1, <1>2, <1>3, <1>4, <1>5, <1>6, <1>7, <1>8, <1>9, <1>10 DEF Next, LaneStep, ReaperStep

\* A cancel recorded while no lane had the run keeps the agent from being called.
THEOREM QuietCancelHolds == Spec => QuietCancelHonoured
<1>1. TypeOK /\ Inv /\ [Next]_vars =>
        [\A r \in quiet : calls'[r] # calls[r] => <<r, "cancel">> \in cut \/ r \in tainted]_vars
  <2> SUFFICES ASSUME TypeOK, Inv, [Next]_vars, NEW r \in quiet, calls'[r] # calls[r]
               PROVE  <<r, "cancel">> \in cut \/ r \in tainted
    OBVIOUS
  <2>1. r \in Runs
    BY DEF TypeOK
  <2>2. PICK p \in Lanes : cur[p] = r /\ pc[p] = "dispatch"
    BY <2>1, OnlyDispatchCalls
  <2> QED
    BY <2>1, <2>2 DEF Inv, QuietStopsLanes
<1> QED
  BY <1>1, Invariance, PTL DEF Spec, QuietCancelHonoured

\* A step on a disturbed run, or one that disturbs it, is a Disturb of RunContract.
LEMMA Disturbs ==
    ASSUME NEW r \in Runs, NEW s \in Status \ {"ABSENT"}, status[r] # "ABSENT",
           status' = [status EXCEPT ![r] = s], tainted' = tainted \cup {r},
           calls' = calls \/ calls' = [calls EXCEPT ![r] = @ + 1]
    PROVE  Contract!Next
<1>1. Contract!Status = Status
  BY DEF Contract!Status, Status, Contract!TerminalStatus, TerminalStatus
<1>2. Contract!Disturb(r)
  BY <1>1 DEF Contract!Disturb
<1> QED
  BY <1>2 DEF Contract!Next

\* A lane is on a run that exists.
LEMMA LaneOnCreatedRun ==
    ASSUME TypeOK, CreatedInv, NEW p \in Lanes, pc[p] # "idle"
    PROVE  cur[p] \in Runs /\ status[cur[p]] # "ABSENT"
BY DEF TypeOK, CreatedInv

\* Writing a result: Settle for a run inside the contract, Disturb otherwise.
LEMMA Settles ==
    ASSUME TypeOK, Inv, NEW p \in Lanes, NEW s \in TerminalStatus,
           status' = [status EXCEPT ![cur[p]] = s], calls' = calls, tainted' = tainted,
           \/ s = "CANCELLED" /\ pc[p] = "honour"
           \/ s \in {"FAILED", "CANCELLED"} /\ pc[p] = "catch"
           \/ s = "SUCCESS" /\ pc[p] = "succeed"
    PROVE  Contract!Next
<1>1. cur[p] \in Runs /\ status[cur[p]] # "ABSENT"
  BY LaneOnCreatedRun DEF Inv
<1>2. CASE cur[p] \in tainted
  <2>1. s \in Status \ {"ABSENT"} /\ tainted' = tainted \cup {cur[p]}
    BY <1>2 DEF Status, TerminalStatus
  <2> QED
    BY <1>1, <2>1, Disturbs
<1>3. CASE cur[p] \notin tainted
  <2>1. CASE pc[p] \in {"honour", "catch"}
    <3>1. status[cur[p]] \in {"PENDING", "RUNNING"}
      BY <1>1, <1>3, <2>1 DEF Inv, PhaseInv
    <3>2. s \in {"FAILED", "CANCELLED"}
      BY <2>1
    <3>3. Contract!Settle(cur[p])
      BY <3>1, <3>2 DEF Contract!Settle
    <3> QED
      BY <1>1, <3>3 DEF Contract!Next
  <2>2. CASE pc[p] = "succeed"
    <3>1. status[cur[p]] = "RUNNING" /\ calls[cur[p]] > 0
      BY <1>1, <1>3, <2>2 DEF Inv, PhaseInv, Bounded
    <3>2. s = "SUCCESS"
      BY <2>2
    <3>3. Contract!Settle(cur[p])
      BY <3>1, <3>2 DEF Contract!Settle
    <3> QED
      BY <1>1, <3>3 DEF Contract!Next
  <2> QED
    BY <2>1, <2>2
<1> QED
  BY <1>2, <1>3

\* Every step of the machine is a step of the contract or leaves it unchanged.
LEMMA ContractStep ==
    TypeOK /\ Inv /\ [Next]_vars => [Contract!Next]_(Contract!contractVars)
<1> SUFFICES ASSUME TypeOK, Inv, [Next]_vars
             PROVE  Contract!Next \/ UNCHANGED <<status, calls, tainted>>
  BY DEF Contract!contractVars
<1>1. ASSUME NEW r \in Runs, CreateRun(r)
     PROVE  Contract!Next
  <2>1. status[r] = "ABSENT"
    BY <1>1 DEF CreateRun, Inv, CreatedInv
  <2>2. Contract!Submit(r)
    BY <1>1, <2>1 DEF CreateRun, Contract!Submit, historyVars
  <2> QED
    BY <2>2 DEF Contract!Next
<1>2. ASSUME NEW r \in Runs, Enqueue(r) \/ LoseEnqueue(r) \/ Age(r) \/ ExpireSlot(r) \/ Promote(r)
       \/ StallCheck(r) \/ RequestCancel(r) \/ RecordCancel(r) \/ PublishCancel(r)
     PROVE  UNCHANGED <<status, calls, tainted>>
  BY <1>2 DEF dbVars, bullVars, laneVars, reaperVars, historyVars, Enqueue, LoseEnqueue, Age, ExpireSlot, Promote, StallCheck, RequestCancel,
         RecordCancel, PublishCancel, Suffer, OnRun, Bounded, Executing
<1>3. ASSUME NEW p \in Lanes, NEW r \in Runs, Pickup(p, r)
     PROVE  UNCHANGED <<status, calls, tainted>>
  BY <1>3 DEF dbVars, bullVars, laneVars, reaperVars, historyVars, Pickup, IsFinalAttempt
<1>4. ASSUME NEW p \in Lanes, HonourQueuedCancel(p)
     PROVE  Contract!Next
  BY <1>4, Settles DEF HonourQueuedCancel, Goto, historyVars, TerminalStatus
<1>5. ASSUME NEW p \in Lanes, Start(p)
     PROVE  Contract!Next
  <2>1. /\ pc[p] = "start" /\ status' = [status EXCEPT ![cur[p]] = "RUNNING"]
        /\ calls' = calls /\ tainted' = tainted
    BY <1>5 DEF Start, Goto, GotoWith, historyVars
  <2>2. cur[p] \in Runs /\ status[cur[p]] # "ABSENT"
    BY <2>1, LaneOnCreatedRun DEF Inv
  <2>3. CASE cur[p] \in tainted
    <3>1. tainted' = tainted \cup {cur[p]} /\ "RUNNING" \in Status \ {"ABSENT"}
      BY <2>1, <2>3 DEF Status
    <3> QED
      BY <2>1, <2>2, <3>1, Disturbs
  <2>4. CASE cur[p] \notin tainted
    <3>1. status[cur[p]] \in {"PENDING", "RUNNING"}
      BY <2>1, <2>2, <2>4 DEF Inv, PhaseInv
    <3>2. Contract!Begin(cur[p])
      BY <2>1, <3>1 DEF Contract!Begin
    <3> QED
      BY <2>2, <3>2 DEF Contract!Next
  <2> QED
    BY <2>3, <2>4
<1>6. ASSUME NEW p \in Lanes, Dispatch(p)
     PROVE  Contract!Next
  <2>1. /\ pc[p] = "dispatch" /\ calls' = [calls EXCEPT ![cur[p]] = @ + 1]
        /\ status' = status /\ tainted' = tainted
    BY <1>6 DEF Dispatch, Goto, dbVars
  <2>2. cur[p] \in Runs /\ status[cur[p]] # "ABSENT"
    BY <2>1, LaneOnCreatedRun DEF Inv
  <2>3. CASE cur[p] \in tainted
    <3>1. tainted' = tainted \cup {cur[p]} /\ status[cur[p]] \in Status \ {"ABSENT"}
      BY <2>1, <2>2, <2>3 DEF TypeOK
    <3>2. status' = [status EXCEPT ![cur[p]] = status[cur[p]]]
      BY <2>1, <2>2 DEF TypeOK
    <3> QED
      BY <2>1, <2>2, <3>1, <3>2, Disturbs
  <2>4. CASE cur[p] \notin tainted
    <3>1. status[cur[p]] = "RUNNING"
      BY <2>1, <2>2, <2>4 DEF Inv, PhaseInv, Bounded
    <3>2. Contract!Call(cur[p])
      BY <2>1, <3>1 DEF Contract!Call
    <3> QED
      BY <2>2, <3>2 DEF Contract!Next
  <2> QED
    BY <2>3, <2>4
<1>7. ASSUME NEW p \in Lanes, Succeed(p)
     PROVE  Contract!Next
  BY <1>7, Settles DEF Succeed, Goto, historyVars, TerminalStatus
<1>8. ASSUME NEW p \in Lanes, CatchCancelled(p)
     PROVE  Contract!Next
  BY <1>8, Settles DEF CatchCancelled, Goto, historyVars, TerminalStatus
<1>9. ASSUME NEW p \in Lanes, CatchFailed(p)
     PROVE  Contract!Next
  BY <1>9, Settles DEF CatchFailed, Goto, historyVars, TerminalStatus
<1>10. ASSUME NEW p \in Lanes, LoseLock(p)
     PROVE  Contract!Next
  <2>1. /\ pc[p] # "idle" /\ status' = status /\ calls' = calls
        /\ tainted' = tainted \cup {cur[p]}
    BY <1>10 DEF LoseLock, dbVars
  <2>2. cur[p] \in Runs /\ status[cur[p]] # "ABSENT"
    BY <2>1, LaneOnCreatedRun DEF Inv
  <2>3. /\ status[cur[p]] \in Status \ {"ABSENT"}
        /\ status' = [status EXCEPT ![cur[p]] = status[cur[p]]]
    BY <2>1, <2>2 DEF TypeOK
  <2> QED
    BY <2>1, <2>2, <2>3, Disturbs
<1>11. ASSUME NEW p \in Lanes, Fault(p)
     PROVE  Contract!Next \/ UNCHANGED <<status, calls, tainted>>
  <2>1. pc[p] # "idle" /\ status' = status /\ calls' = calls
    BY <1>11 DEF Fault, dbVars
  <2>2. tainted' = tainted \/ tainted' = tainted \cup {cur[p]}
    BY <1>11 DEF Fault
  <2>3. cur[p] \in Runs /\ status[cur[p]] # "ABSENT"
    BY <2>1, LaneOnCreatedRun DEF Inv
  <2>4. /\ status[cur[p]] \in Status \ {"ABSENT"}
        /\ status' = [status EXCEPT ![cur[p]] = status[cur[p]]]
    BY <2>1, <2>3 DEF TypeOK
  <2> QED
    BY <2>1, <2>2, <2>3, <2>4, Disturbs
<1>17. ASSUME NEW p \in Lanes, RowAnswerLost(p)
     PROVE  Contract!Next
  <2>1. PICK s \in Writes(p) : status' = [status EXCEPT ![cur[p]] = s]
    BY <1>17 DEF RowAnswerLost
  <2>2. calls' = calls /\ tainted' = IF pc[p] = "succeed" THEN tainted \cup {cur[p]} ELSE tainted
    BY <1>17 DEF RowAnswerLost
  <2>3. \/ pc[p] = "start" /\ s = "RUNNING"
        \/ pc[p] = "honour" /\ s = "CANCELLED"
        \/ pc[p] = "succeed" /\ s = "SUCCESS"
        \/ pc[p] = "catch" /\ s \in {"FAILED", "CANCELLED"}
    BY <2>1 DEF Writes
  <2>4. cur[p] \in Runs /\ status[cur[p]] # "ABSENT"
    BY <2>3, LaneOnCreatedRun DEF Inv
  <2>5. CASE pc[p] \in {"honour", "catch"}
    BY <2>1, <2>2, <2>3, <2>5, Settles DEF TerminalStatus
  <2>6. CASE pc[p] = "succeed"
    <3>1. s \in Status \ {"ABSENT"} /\ tainted' = tainted \cup {cur[p]}
      BY <2>2, <2>3, <2>6 DEF Status, TerminalStatus
    <3> QED
      BY <2>1, <2>2, <2>4, <3>1, Disturbs
  <2>7. CASE pc[p] = "start" /\ cur[p] \in tainted
    <3>1. s \in Status \ {"ABSENT"} /\ tainted' = tainted \cup {cur[p]}
      BY <2>2, <2>3, <2>7 DEF Status
    <3> QED
      BY <2>1, <2>2, <2>4, <3>1, Disturbs
  <2>8. CASE pc[p] = "start" /\ cur[p] \notin tainted
    <3>1. status[cur[p]] \in {"PENDING", "RUNNING"}
      BY <2>4, <2>8 DEF Inv, PhaseInv
    <3>2. Contract!Begin(cur[p])
      BY <2>1, <2>2, <2>3, <2>8, <3>1 DEF Contract!Begin
    <3> QED
      BY <2>4, <3>2 DEF Contract!Next
  <2> QED
    BY <2>3, <2>5, <2>6, <2>7, <2>8
<1>18. ASSUME NEW p \in Lanes, RedisAnswerLost(p)
     PROVE  UNCHANGED <<status, calls, tainted>>
  BY <1>18 DEF RedisAnswerLost, dbVars
<1>12. ASSUME NEW p \in Lanes, Load(p) \/ CheckCancel(p) \/ AcquireSlot(p) \/ Throttle(p) \/
       ExtractionDone(p) \/ ExtractionFails(p) \/ SeeCancel(p) \/ Precheck(p) \/
       AbortBeforeDispatch(p)
     PROVE  UNCHANGED <<status, calls, tainted>>
  BY <1>12 DEF dbVars, bullVars, laneVars, reaperVars, historyVars, Load, CheckCancel, AcquireSlot, Throttle, ExtractionDone, ExtractionFails, SeeCancel,
         Precheck, AbortBeforeDispatch, Goto, AlreadySettled, HasFreeSlot, LeaveLane, GotoWith
<1>13. ASSUME NEW p \in Lanes, AgentReturns(p) \/ ClearCancel(p) \/ CatchRetry(p) \/ Tell(p) \/
       ReleaseSlot(p) \/ Ack(p) \/ Crash(p)
     PROVE  UNCHANGED <<status, calls, tainted>>
  BY <1>13 DEF dbVars, bullVars, laneVars, reaperVars, historyVars, AgentReturns, ClearCancel, CatchRetry, Tell, ReleaseSlot, Ack, Crash, Goto, GotoWith,
         LeaveLane, Suffer, Window
<1>14. ASSUME NEW k \in Reapers, NEW r \in Runs, NEW s \in {"RUNNING", "PENDING"}, Reap(k, r, s)
     PROVE  Contract!Next
  <2>1. /\ status' = [status EXCEPT ![r] = "FAILED"] /\ calls' = calls
        /\ tainted' = tainted \cup {r}
    BY <1>14 DEF Reap
  <2>2. status[r] # "ABSENT"
    BY <1>14 DEF Reap, Inv, CreatedInv
  <2>3. "FAILED" \in Status \ {"ABSENT"}
    BY DEF Status, TerminalStatus
  <2> QED
    BY <2>1, <2>2, <2>3, Disturbs
<1>15. ASSUME NEW k \in Reapers, (\E s \in {"RUNNING", "PENDING"} : Sweep(k, s)) \/ (\E r \in Runs :
       PassOver(k, r)) \/ FinishReap(k) \/ AbandonSweep(k)
     PROVE  UNCHANGED <<status, calls, tainted>>
  BY <1>15 DEF dbVars, bullVars, laneVars, reaperVars, historyVars, Sweep, PassOver, FinishReap, AbandonSweep, Candidates, Suffer
<1>16. CASE UNCHANGED vars
  BY <1>16 DEF vars, dbVars, bullVars, laneVars, reaperVars, historyVars
<1> QED
  BY <1>1, <1>2, <1>3, <1>4, <1>5, <1>6, <1>7, <1>8, <1>9, <1>10, <1>11, <1>12, <1>13, <1>14, <1>15,
         <1>16, <1>17, <1>18 DEF Next, LaneStep, ReaperStep

\* The whole machine keeps the contract: legal status changes only, the agent
\* called only while RUNNING, no SUCCESS without a call.
THEOREM ContractKept == Spec => KeepsContract
<1>1. Init => Contract!Init
  BY DEF Init, Contract!Init
<1> QED
  BY <1>1, ContractStep, Invariance, PTL DEF Spec, KeepsContract, Contract!Spec

=============================================================================
