----------------------- MODULE InteractionHandlerProofs -----------------------
(***************************************************************************)
(* What InteractionHandler guarantees for every set of requests and every  *)
(* value of its durations.                                                 *)
(***************************************************************************)
EXTENDS InteractionHandler, TLAPS

\* What Acquire computes from a request is always a legal duration, also when
\* the addition overflows.
LEMMA FinalDurationsLegal ==
    ASSUME NEW d \in Requests, NEW f \in FinalDurations(d)
    PROVE  f \in MinDurationMs..MaxDurationMs
  BY RequestsAssumption, DurationAssumption DEF FinalDurations, Clamp

\* In the initial state all parts of the inductive invariant hold.
LEMMA InitIInv == Init => IInv
  <1> SUFFICES ASSUME Init PROVE IInv
    OBVIOUS
  <1>1. TypeOK
    <2>1. fdsOpen \in BOOLEAN /\ hint \in BOOLEAN
      BY Zenon DEF Init
    <2>2. QED
      BY <2>1, DurationAssumption DEF Init, TypeOK, States, Threads, WaitEnds, Owners, SinceCap
  <1>2. HintMatchesState /\ DescriptorsOpen /\ Lifecycle
    BY Zenon DEF Init, HintMatchesState, DescriptorsOpen, Lifecycle
  <1>3. AbortIsForTheCurrentWait /\ WaitCoversLease /\ DueWithinLease
    BY SMTT(30) DEF Init, AbortIsForTheCurrentWait, WaitCoversLease, DueWithinLease
  <1>4. QED
    BY <1>1, <1>2, <1>3 DEF IInv

\* Every step of the thread, the owner, the clients or the clock preserves it.
LEMMA NextIInv == IInv /\ [Next]_vars => IInv'
  <1> SUFFICES ASSUME IInv, [Next]_vars PROVE IInv'
    OBVIOUS
  <1> USE DurationAssumption
      DEF IInv, TypeOK, HintMatchesState, AbortIsForTheCurrentWait, DescriptorsOpen,
          Lifecycle, WaitCoversLease, DueWithinLease, States, Threads, WaitEnds, Owners, SinceCap
  <1>1. CASE RoutineSleep    BY <1>1 DEF RoutineSleep
  <1>2. CASE RoutineReturn   BY <1>2 DEF RoutineReturn
  <1>3. CASE RoutineWait     BY <1>3 DEF RoutineWait
  <1>4. CASE WaitForIdle     BY <1>4 DEF WaitForIdle
  <1>5. CASE PollAborted     BY <1>5 DEF PollAborted, Return
  <1>6. CASE WaitElapsed     BY <1>6 DEF WaitElapsed
  <1>7. CASE PreadReturns    BY <1>7 DEF PreadReturns, Return
  <1>8. CASE PreadBusy       BY <1>8 DEF PreadBusy
  <1>9. CASE PollTimedOut    BY <1>9 DEF PollTimedOut, Return
  <1>10. CASE Release
    <2>1. CASE mState = "WAITING"
      <3>1. hint' \in BOOLEAN /\ ~hint' /\ due' = 0 /\ mState' = "IDLE" /\ mEventFd' = mEventFd
        BY <1>10, <2>1, Zenon DEF Release
      <3>2. QED
        BY <1>10, <2>1, <3>1 DEF Release
    <2>2. CASE mState # "WAITING"
      <3>1. mEventFd' = 0 /\ UNCHANGED <<mState, hint, due>>
        BY <1>10, <2>2, Zenon DEF Release
      <3>2. QED
        BY <1>10, <2>2, <3>1 DEF Release
    <2>3. QED
      BY <2>1, <2>2
  <1>11. CASE SpuriousWakeup BY <1>11 DEF SpuriousWakeup
  <1>12. CASE PollError      BY <1>12 DEF PollError, Return
  <1>13. CASE IdleDetected   BY <1>13 DEF IdleDetected, Return
  <1>14. CASE Tick           BY <1>14 DEF Tick
  <1>15. CASE InitHandler    BY <1>15 DEF InitHandler
  <1>16. CASE InitFails      BY <1>16 DEF InitFails
  <1>17. CASE ExitLocked     BY <1>17 DEF ExitLocked
  <1>18. CASE ExitNotify     BY <1>18 DEF ExitNotify, Notify
  <1>19. CASE ExitJoin       BY Zenon, <1>19 DEF ExitJoin
  <1>20. CASE AcquireCovered
    <2>1. PICK d \in Requests : \E f \in FinalDurations(d) :
            /\ \E elapsed \in ElapsedTimes : Covered(f, elapsed)
            /\ due' = Larger(due, f)
      BY <1>20 DEF AcquireCovered
    <2>2. PICK f \in FinalDurations(d) :
            /\ \E elapsed \in ElapsedTimes : Covered(f, elapsed)
            /\ due' = Larger(due, f)
      BY <2>1
    <2>3. f \in MinDurationMs..MaxDurationMs
      BY FinalDurationsLegal
    <2>4. mState # "IDLE" /\ since + f <= mDurationMs
      BY <2>2, <2>3 DEF ElapsedTimes, Covered
    <2>5. QED
      BY <1>20, <2>2, <2>3, <2>4 DEF AcquireCovered, Larger
  <1>21. CASE AcquireGrant
    <2>1. PICK d \in Requests : \E f \in FinalDurations(d) :
            /\ \E elapsed \in ElapsedTimes : ~Covered(f, elapsed)
            /\ mDurationMs' = f
            /\ due' = Larger(due, f)
      BY <1>21 DEF AcquireGrant
    <2>2. PICK f \in FinalDurations(d) :
            /\ \E elapsed \in ElapsedTimes : ~Covered(f, elapsed)
            /\ mDurationMs' = f
            /\ due' = Larger(due, f)
      BY <2>1
    <2>3. f \in MinDurationMs..MaxDurationMs
      BY FinalDurationsLegal
    <2>4. mState = "IDLE" \/ f > mDurationMs \/ since + f >= mDurationMs
      BY <2>2, <2>3 DEF ElapsedTimes, Covered
    <2>5. mState \in {"IDLE", "INTERACTION", "WAITING"}
      BY <1>21 DEF AcquireGrant
    <2>6. due' = f
      BY <2>2, <2>3, <2>4, <2>5 DEF Larger
    <2>7. hint' \in BOOLEAN /\ hint'
      <3>1. hint' = (hint \/ mState = "IDLE")
        BY <1>21 DEF AcquireGrant
      <3>2. hint \/ mState = "IDLE"
        BY <2>5
      <3>3. QED
        BY <3>1, <3>2, Zenon
    <2>8. QED
      BY <1>21, <2>2, <2>3, <2>5, <2>6, <2>7 DEF AcquireGrant, Notify
  <1>22. CASE UNCHANGED vars BY <1>22 DEF vars
  <1>23. QED
    BY Zenon, <1>1, <1>2, <1>3, <1>4, <1>5, <1>6, <1>7, <1>8, <1>9, <1>10, <1>11, <1>12, <1>13,
       <1>14, <1>15, <1>16, <1>17, <1>18, <1>19, <1>20, <1>21, <1>22
    DEF Next, Routine, Environment, OwnerStep

\* The inductive invariant holds in every reachable state.
THEOREM Invariance == Spec => []IInv
  <1>1. QED BY InitIInv, NextIInv, PTL DEF Spec

-----------------------------------------------------------------------------
\* Every variable of the handler keeps its type: in particular the eventfd
\* never counts more than one abort by Acquire and one by Exit.
THEOREM TypeCorrect == Spec => []TypeOK
  <1>1. IInv => TypeOK BY DEF IInv
  <1>2. QED BY Invariance, <1>1, PTL

\* The hint is requested exactly in the states that hold the lease.
THEOREM HintCorrect == Spec => []HintMatchesState
  <1>1. IInv => HintMatchesState BY DEF IInv
  <1>2. QED BY Invariance, <1>1, PTL

\* A pending abort is always for the wait in progress.
THEOREM AbortCorrect == Spec => []AbortIsForTheCurrentWait
  <1>1. IInv => AbortIsForTheCurrentWait BY DEF IInv
  <1>2. QED BY Invariance, <1>1, PTL

\* No descriptor is used after Exit has closed it.
THEOREM DescriptorsCorrect == Spec => []DescriptorsOpen
  <1>1. IInv => DescriptorsOpen BY DEF IInv
  <1>2. QED BY Invariance, <1>1, PTL

\* Only Release ends the hint, and it does so in state WAITING.
LEMMA OnlyReleaseEndsHint ==
    ASSUME IInv, [Next]_vars, hint, ~hint'
    PROVE  thread = "release" /\ mState = "WAITING"
  <1>1. hint' # hint
    BY Zenon
  <1>2. CASE Routine
    <2>1. CASE Release
      BY Zenon, <1>1, <2>1 DEF Release
    <2>2. QED
      BY Zenon, <1>1, <1>2, <2>1 DEF Routine, RoutineSleep, RoutineReturn, RoutineWait, WaitForIdle,
         PollAborted, WaitElapsed, PreadReturns, PreadBusy, PollTimedOut, Return
  <1>3. CASE Environment
    BY Zenon, <1>1, <1>3 DEF Environment, SpuriousWakeup, PollError, IdleDetected, Tick, Return
  <1>4. CASE OwnerStep
    BY Zenon, <1>1, <1>4 DEF OwnerStep, InitHandler, InitFails, ExitLocked, ExitNotify, ExitJoin
  <1>5. CASE AcquireCovered \/ UNCHANGED vars
    BY Zenon, <1>1, <1>5 DEF AcquireCovered, vars
  <1>6. CASE AcquireGrant
    <2>1. hint' = (hint \/ mState = "IDLE")
      BY <1>6 DEF AcquireGrant
    <2>2. QED
      BY <2>1, Zenon
  <1>7. QED
    BY <1>2, <1>3, <1>4, <1>5, <1>6 DEF Next

\* No request, granted or covered, loses any of its duration to the timeout,
\* and no wait that began before a request was granted ends its lease.
THEOREM HeldCorrect == Spec => HeldLongEnough
  <1>1. IInv /\ [Next]_vars =>
          [hint /\ ~hint' =>
             /\ waitEnd # "error" => since >= WaitMs
             /\ waitEnd = "timeout" => due = 0 /\ since >= WaitMs + mDurationMs]_vars
    <2> SUFFICES ASSUME IInv, [Next]_vars, hint, ~hint'
                 PROVE  /\ waitEnd # "error" => since >= WaitMs
                        /\ waitEnd = "timeout" => due = 0 /\ since >= WaitMs + mDurationMs
      BY Zenon
    <2>1. thread = "release" /\ mState = "WAITING"
      BY OnlyReleaseEndsHint
    <2>2. QED
      BY <2>1, DurationAssumption DEF IInv, TypeOK, WaitCoversLease, DueWithinLease, SinceCap
  <1>2. QED
    BY Invariance, <1>1, PTL DEF Spec, HeldLongEnough

-----------------------------------------------------------------------------
(* The handler implements the lease the power HAL relies on.               *)

\* The constructed handler holds no lease.
LEMMA InitLease == Init => Lease!LeaseInit
  BY Zenon DEF Init, Lease!LeaseInit

\* Every step takes, ages, disturbs or ends the lease, or leaves it alone.
LEMMA NextLease == IInv /\ [Next]_vars => [Lease!LeaseNext]_(Lease!leaseVars)
  <1> SUFFICES ASSUME IInv, [Next]_vars PROVE [Lease!LeaseNext]_(Lease!leaseVars)
    OBVIOUS
  <1>1. ASSUME NEW pc, NEW how, Return(pc, how) PROVE Lease!Disturb
    BY <1>1, Zenon DEF Return, Lease!Disturb
  <1>2. CASE PollAborted \/ PreadReturns \/ PollTimedOut \/ PollError \/ IdleDetected
    BY <1>1, <1>2, Zenon DEF PollAborted, PreadReturns, PollTimedOut, PollError, IdleDetected,
       Lease!LeaseNext
  <1>3. CASE UNCHANGED <<hint, since, waitEnd>>
    BY <1>3, Zenon DEF Lease!leaseVars
  <1>4. CASE Release
    <2>1. CASE mState = "WAITING"
      <3>1. hint' = FALSE /\ since' = since /\ waitEnd' = waitEnd
        BY <1>4, <2>1, Zenon DEF Release
      <3>2. hint /\ (since >= WaitMs \/ waitEnd = "error")
        BY <1>4, <2>1 DEF Release, IInv, HintMatchesState, WaitCoversLease
      <3>3. Lease!Lapse
        BY <3>1, <3>2, Zenon DEF Lease!Lapse
      <3>4. QED
        BY <3>3 DEF Lease!LeaseNext
    <2>2. CASE mState # "WAITING"
      BY <1>3, <1>4, <2>2 DEF Release
    <2>3. QED
      BY <2>1, <2>2
  <1>5. CASE Tick
    <2>1. /\ since' = IF since < SinceCap THEN since + 1 ELSE since
          /\ hint' = hint
          /\ waitEnd' = waitEnd
      BY <1>5 DEF Tick
    <2>2. Lease!Age
      BY <2>1, Zenon DEF Lease!Age
    <2>3. QED
      BY <2>2 DEF Lease!LeaseNext
  <1>6. CASE AcquireGrant
    <2>1. hint \/ mState = "IDLE"
      BY <1>6 DEF AcquireGrant, IInv, TypeOK, States, HintMatchesState
    <2>2. hint' = (hint \/ mState = "IDLE") /\ since' = 0 /\ waitEnd' = waitEnd
      BY <1>6 DEF AcquireGrant
    <2>3. Lease!Take
      BY <2>1, <2>2, Zenon DEF Lease!Take
    <2>4. QED
      BY <2>3 DEF Lease!LeaseNext
  <1>7. CASE \/ RoutineSleep \/ RoutineReturn \/ RoutineWait \/ WaitForIdle \/ WaitElapsed
             \/ PreadBusy \/ SpuriousWakeup \/ OwnerStep \/ AcquireCovered \/ UNCHANGED vars
    BY <1>3, <1>7 DEF RoutineSleep, RoutineReturn, RoutineWait, WaitForIdle, WaitElapsed, PreadBusy,
       SpuriousWakeup, OwnerStep, InitHandler, InitFails, ExitLocked, ExitNotify, ExitJoin,
       AcquireCovered, vars
  <1>8. QED
    BY <1>2, <1>4, <1>5, <1>6, <1>7 DEF Next, Routine, Environment

\* The handler implements the abstract lease: it never ends the hint before
\* mWaitMs have passed since the last granted request, unless a poll failed.
THEOREM LeaseRefinement == Spec => ImplementsLease
  <1>1. QED
    BY Invariance, InitLease, NextLease, PTL DEF Spec, ImplementsLease, Lease!LeaseSpec

-----------------------------------------------------------------------------
(* The clock arithmetic of Acquire.                                        *)

\* CalcTimespecDiffMs returns the elapsed time in whole milliseconds or one
\* more: exactly the values ElapsedTimes allows.  q is the time between the
\* two stamps in whole milliseconds.
THEOREM ElapsedWithinOneMs ==
    ASSUME NEW s1 \in Nat, NEW s2 \in Nat,
           NEW n1 \in Nat, NEW n2 \in Nat, n1 < 1000 * 1000000, n2 < 1000 * 1000000,
           NEW q \in Nat,
           q * 1000000 <= (s2 - s1) * (1000 * 1000000) + (n2 - n1),
           (s2 - s1) * (1000 * 1000000) + (n2 - n1) < (q + 1) * 1000000
    PROVE  CalcTimespecDiffMs([tv_sec |-> s1, tv_nsec |-> n1],
                              [tv_sec |-> s2, tv_nsec |-> n2]) \in {q, q + 1}
  <1>1. CASE n2 >= n1
    <2>1. PICK k \in Nat : k * 1000000 <= n2 - n1 /\ n2 - n1 < (k + 1) * 1000000
                            /\ k = (n2 - n1) \div 1000000
      BY SMT, <1>1
    <2>2. q = (s2 - s1) * 1000 + k
      BY SMT, <2>1
    <2>3. QED
      BY SMT, <1>1, <2>1, <2>2 DEF CalcTimespecDiffMs, Truncated, MSINSEC, USINMS
  <1>2. CASE n2 < n1
    <2>1. PICK k \in Nat : k * 1000000 <= n1 - n2 /\ n1 - n2 < (k + 1) * 1000000
                            /\ k = (n1 - n2) \div 1000000
      BY SMT, <1>2
    <2>2. (s2 - s1) * 1000 - k \in {q, q + 1}
      BY SMT, <2>1
    <2>3. QED
      BY SMT, <1>2, <2>1, <2>2 DEF CalcTimespecDiffMs, Truncated, MSINSEC, USINMS
  <1>3. QED
    BY SMT, <1>1, <1>2
=============================================================================
