------------------------- MODULE InteractionHandler -------------------------
(***************************************************************************)
(* The touch-boost lease of the power HAL                                  *)
(* (hardware/power-libperfmgr/InteractionHandler.cpp).                     *)
(*                                                                         *)
(* Three actors share mState under mLock: the owner, which calls Init and  *)
(* Exit; the clients, which call Acquire; and the handler's own thread,    *)
(* which runs Routine.  A critical section is one action, because every    *)
(* access to mState happens under mLock; what runs unlocked (the argument  *)
(* evaluation of WaitForIdle, its two polls and its pread, the tail of     *)
(* Exit) is split into one action per observable step.                     *)
(*                                                                         *)
(* Time is relative: `since' is the age of mLastTimespec in ms (rounded    *)
(* down), `timer' what is left of the poll in progress.  Both are finite   *)
(* without a bound on the length of the behaviour, so that liveness can be *)
(* checked: `since' saturates at SinceCap, above every value it is         *)
(* compared with.                                                          *)
(***************************************************************************)
EXTENDS Integers

CONSTANTS
    Requests,        \* the durations clients pass to Acquire (int32_t)
    RequestPad,      \* 650, added to every request (line 126)
    MinDurationMs,   \* mMinDurationMs = 1400
    MaxDurationMs,   \* mMaxDurationMs = 5650
    WaitMs,          \* mWaitMs = 100
    Int32Max         \* 2^31 - 1

ASSUME RequestsAssumption ==
    /\ Requests \subseteq Int
    /\ Int32Max \in Nat
    /\ \A d \in Requests : d <= Int32Max

ASSUME DurationAssumption ==
    /\ RequestPad \in Nat
    /\ MinDurationMs \in Nat
    /\ MaxDurationMs \in Nat
    /\ WaitMs \in Nat
    /\ MinDurationMs <= MaxDurationMs
    /\ MaxDurationMs <= Int32Max

VARIABLES
    mState,        \* the interaction_state
    mDurationMs,   \* duration of the lease in force
    since,         \* ms since mLastTimespec
    mEventFd,      \* counter of the abort eventfd
    fdsOpen,       \* mEventFd and mIdleFd are open descriptors
    thread,        \* program counter of the Routine thread
    timeoutMs,     \* WaitForIdle's argument timeout_ms
    timer,         \* ms left of the poll in progress
    waitEnd,       \* how the last WaitForIdle ended
    owner,         \* program counter of the caller of Init and Exit
    hint,          \* INTERACTION is requested from the HintManager
    due            \* observer: ms for which some accepted request is still owed the hint

vars == <<mState, mDurationMs, since, mEventFd, fdsOpen, thread, timeoutMs,
          timer, waitEnd, owner, hint, due>>

-----------------------------------------------------------------------------
(* The states of the code.                                                  *)

States == {"UNINITIALIZED", "IDLE", "INTERACTION", "WAITING"}

\* "lock": about to take mLock at the top of the loop; "sleep": blocked in
\* mCond.wait; "args": mLock released, mDurationMs not read yet; "poll1",
\* "pread" and "poll2": inside WaitForIdle; "release": WaitForIdle returned.
Threads == {"none", "lock", "sleep", "args", "poll1", "pread", "poll2", "release"}

WaitEnds == {"none", "aborted", "error", "eof", "idle", "timeout", "idleEvent"}

\* "new": constructed; "running": Init has returned; "notify": Exit has released
\* mLock; "join": Exit waits for the thread; "gone": Exit has returned.  The
\* power HAL calls Init once, and Exit only from the destructor.
Owners == {"new", "running", "notify", "join", "gone"}

SinceCap == WaitMs + MaxDurationMs + 1

-----------------------------------------------------------------------------
(* The arithmetic of the code.                                              *)

Larger(a, b) == IF a >= b THEN a ELSE b

Clamp(inputDuration) ==
    IF inputDuration > MaxDurationMs THEN MaxDurationMs
    ELSE IF inputDuration > MinDurationMs THEN inputDuration
    ELSE MinDurationMs

\* duration + 650 overflows int for the largest requests, which C++ leaves
\* undefined: the sum either wraps to a negative value, clamped to the
\* minimum, or is folded into the comparison and clamped to the maximum.
FinalDurations(duration) ==
    IF duration + RequestPad > Int32Max
    THEN {MinDurationMs, MaxDurationMs}
    ELSE {Clamp(duration + RequestPad)}

\* C++ division of integers truncates towards zero.
Truncated(a, b) == IF a >= 0 THEN a \div b ELSE -((-a) \div b)

MSINSEC == 1000
USINMS  == 1000000

\* CalcTimespecDiffMs: seconds and nanoseconds are subtracted separately, so
\* the result may be one above the elapsed time in whole milliseconds.
CalcTimespecDiffMs(start, end) ==
    (end.tv_sec - start.tv_sec) * MSINSEC
        + Truncated(end.tv_nsec - start.tv_nsec, USINMS)

\* The values CalcTimespecDiffMs can return when `since' whole ms have passed.
ElapsedTimes == {since, since + 1}

-----------------------------------------------------------------------------
TypeOK ==
    /\ mState \in States
    /\ mDurationMs \in 0..MaxDurationMs
    /\ since \in 0..SinceCap
    /\ mEventFd \in 0..2
    /\ fdsOpen \in BOOLEAN
    /\ thread \in Threads
    /\ timeoutMs \in 0..MaxDurationMs
    /\ timer \in 0..(WaitMs + MaxDurationMs)
    /\ waitEnd \in WaitEnds
    /\ owner \in Owners
    /\ hint \in BOOLEAN
    /\ due \in 0..MaxDurationMs

\* The constructor.  mLastTimespec is not initialised: it is not read before
\* the first Acquire has set it.
Init ==
    /\ mState = "UNINITIALIZED"
    /\ mDurationMs = 0
    /\ since = 0
    /\ mEventFd = 0
    /\ fdsOpen = FALSE
    /\ thread = "none"
    /\ timeoutMs = 0
    /\ timer = 0
    /\ waitEnd = "none"
    /\ owner = "new"
    /\ hint = FALSE
    /\ due = 0

-----------------------------------------------------------------------------
(* The owner: Init and Exit.                                                *)

\* Init() opens both descriptors and starts the thread.
InitHandler ==
    /\ owner = "new"
    /\ owner' = "running"
    /\ mEventFd' = 0
    /\ fdsOpen' = TRUE
    /\ mState' = "IDLE"
    /\ thread' = "lock"
    /\ UNCHANGED <<mDurationMs, since, timeoutMs, timer, waitEnd, hint, due>>

\* Either open fails: Init returns false, which its caller ignores.
InitFails ==
    /\ owner = "new"
    /\ owner' = "running"
    /\ UNCHANGED <<mState, mDurationMs, since, mEventFd, fdsOpen, thread, timeoutMs, timer,
                   waitEnd, hint, due>>

\* Variant of ExitLocked for mutation: the abort is not written.
ExitLocked_NoAbort ==
    /\ owner = "running"
    /\ mState # "UNINITIALIZED"
    /\ mState' = "UNINITIALIZED"
    /\ owner' = "notify"
    /\ UNCHANGED <<mDurationMs, since, mEventFd, fdsOpen, thread, timeoutMs, timer, waitEnd,
                   hint, due>>

\* Exit() up to lk.unlock().
ExitLocked ==
    /\ owner = "running"
    /\ mState # "UNINITIALIZED"
    /\ mEventFd' = mEventFd + 1          \* AbortWaitLocked
    /\ mState' = "UNINITIALIZED"
    /\ owner' = "notify"
    /\ UNCHANGED <<mDurationMs, since, fdsOpen, thread, timeoutMs, timer, waitEnd, hint, due>>

\* Variant of Notify for mutation: the notification is lost.
Notify_Lost == UNCHANGED thread

\* mCond.notify_one and mCond.notify_all: the handler's thread is the only waiter.
Notify == thread' = IF thread = "sleep" THEN "lock" ELSE thread

ExitNotify ==
    /\ owner = "notify"
    /\ owner' = "join"
    /\ Notify
    /\ UNCHANGED <<mState, mDurationMs, since, mEventFd, fdsOpen, timeoutMs, timer, waitEnd, hint, due>>

\* Variant of ExitJoin for mutation: the fds are closed without joining.
ExitJoin_NoJoin ==
    /\ owner = "join"
    /\ fdsOpen' = FALSE
    /\ owner' = "gone"
    /\ UNCHANGED <<mState, mDurationMs, since, mEventFd, thread, timeoutMs, timer, waitEnd, hint, due>>

\* join returns once the thread has ended; only then are the fds closed.
ExitJoin ==
    /\ owner = "join"
    /\ thread = "none"
    /\ fdsOpen' = FALSE
    /\ owner' = "gone"
    /\ UNCHANGED <<mState, mDurationMs, since, mEventFd, thread, timeoutMs, timer, waitEnd, hint, due>>

-----------------------------------------------------------------------------
(* The clients: Acquire.                                                    *)

\* The test of lines 137-145: the lease in force covers the request.
Covered(finalDuration, elapsed) ==
    /\ mState # "IDLE"
    /\ finalDuration <= mDurationMs
    /\ elapsed <= mDurationMs - finalDuration

\* A request the lease in force covers changes no state of the handler.
AcquireCovered ==
    /\ mState # "UNINITIALIZED"
    /\ \E duration \in Requests : \E finalDuration \in FinalDurations(duration) :
         /\ \E elapsed \in ElapsedTimes : Covered(finalDuration, elapsed)
         /\ due' = Larger(due, finalDuration)
    /\ UNCHANGED <<mState, mDurationMs, since, mEventFd, fdsOpen, thread, timeoutMs,
                   timer, waitEnd, owner, hint>>

\* Variant of AcquireGrant for mutation: a wait in progress is not marked as outdated.
AcquireGrant_KeepsWaiting ==
    /\ mState # "UNINITIALIZED"
    /\ \E duration \in Requests : \E finalDuration \in FinalDurations(duration) :
         /\ \E elapsed \in ElapsedTimes : ~Covered(finalDuration, elapsed)
         /\ mDurationMs' = finalDuration
         /\ due' = Larger(due, finalDuration)
    /\ since' = 0
    /\ mEventFd' = IF mState = "WAITING" THEN mEventFd + 1 ELSE mEventFd
    /\ hint' = (hint \/ mState = "IDLE")
    /\ mState' = IF mState = "WAITING" THEN "WAITING" ELSE "INTERACTION"
    /\ Notify
    /\ UNCHANGED <<fdsOpen, timeoutMs, timer, waitEnd, owner>>

AcquireGrant ==
    /\ mState # "UNINITIALIZED"
    /\ \E duration \in Requests : \E finalDuration \in FinalDurations(duration) :
         /\ \E elapsed \in ElapsedTimes : ~Covered(finalDuration, elapsed)
         /\ mDurationMs' = finalDuration
         /\ due' = Larger(due, finalDuration)
    /\ since' = 0
    /\ mEventFd' = IF mState = "WAITING" THEN mEventFd + 1 ELSE mEventFd
    /\ hint' = (hint \/ mState = "IDLE")                         \* PerfLock
    /\ mState' = "INTERACTION"
    /\ Notify
    /\ UNCHANGED <<fdsOpen, timeoutMs, timer, waitEnd, owner>>

-----------------------------------------------------------------------------
(* The thread: Routine, WaitForIdle and Release.                            *)

\* Lines 234-239, with mLock held: block while IDLE, end when uninitialised,
\* otherwise start a wait.
RoutineSleep ==
    /\ thread = "lock"
    /\ mState = "IDLE"
    /\ thread' = "sleep"
    /\ UNCHANGED <<mState, mDurationMs, since, mEventFd, fdsOpen, timeoutMs, timer,
                   waitEnd, owner, hint, due>>

SpuriousWakeup ==
    /\ thread = "sleep"
    /\ thread' = "lock"
    /\ UNCHANGED <<mState, mDurationMs, since, mEventFd, fdsOpen, timeoutMs, timer,
                   waitEnd, owner, hint, due>>

RoutineReturn ==
    /\ thread = "lock"
    /\ mState = "UNINITIALIZED"
    /\ thread' = "none"
    /\ UNCHANGED <<mState, mDurationMs, since, mEventFd, fdsOpen, timeoutMs, timer,
                   waitEnd, owner, hint, due>>

RoutineWait ==
    /\ thread = "lock"
    /\ mState \notin {"IDLE", "UNINITIALIZED"}
    /\ mState' = "WAITING"
    /\ thread' = "args"
    /\ UNCHANGED <<mDurationMs, since, mEventFd, fdsOpen, timeoutMs, timer, waitEnd,
                   owner, hint, due>>

\* mDurationMs is read without mLock: the call may see the value of an Acquire
\* that came after RoutineWait.
WaitForIdle ==
    /\ thread = "args"
    /\ timeoutMs' = mDurationMs
    /\ timer' = WaitMs
    /\ thread' = "poll1"
    /\ UNCHANGED <<mState, mDurationMs, since, mEventFd, fdsOpen, waitEnd, owner, hint, due>>

\* WaitForIdle returns from program point pc, having ended as `how' says.
Return(pc, how) ==
    /\ thread = pc
    /\ waitEnd' = how
    /\ thread' = "release"
    /\ UNCHANGED <<mState, mDurationMs, since, mEventFd, fdsOpen, timeoutMs, timer,
                   owner, hint, due>>

\* poll reports the eventfd (in the second poll it is looked at first).
PollAborted == \E pc \in {"poll1", "poll2"} : mEventFd > 0 /\ Return(pc, "aborted")

\* poll fails, for example interrupted by a signal.
PollError == \E pc \in {"poll1", "poll2"} : Return(pc, "error")

\* The first poll ran for mWaitMs without an abort.
WaitElapsed ==
    /\ thread = "poll1"
    /\ mEventFd = 0
    /\ timer = 0
    /\ thread' = "pread"
    /\ UNCHANGED <<mState, mDurationMs, since, mEventFd, fdsOpen, timeoutMs, timer,
                   waitEnd, owner, hint, due>>

\* Lines 208-217.  When pread fails, data is uninitialised and the comparison
\* with "idle" goes either way: both outcomes are among the ones below.
PreadReturns == \E how \in {"eof", "idle"} : Return("pread", how)

PreadBusy ==
    /\ thread = "pread"
    /\ timer' = timeoutMs
    /\ thread' = "poll2"
    /\ UNCHANGED <<mState, mDurationMs, since, mEventFd, fdsOpen, timeoutMs, waitEnd,
                   owner, hint, due>>

PollTimedOut == mEventFd = 0 /\ timer = 0 /\ Return("poll2", "timeout")

\* The display's idle_state file signals idleness.
IdleDetected == mEventFd = 0 /\ Return("poll2", "idleEvent")

\* Variant of Release for mutation: mState is not looked at again.
Release_Unchecked ==
    /\ thread = "release"
    /\ thread' = "lock"
    /\ hint' = FALSE
    /\ due' = 0
    /\ mState' = "IDLE"
    /\ UNCHANGED <<mDurationMs, since, mEventFd, fdsOpen, timeoutMs, timer, waitEnd, owner>>

\* Variant of Release for mutation: the hint is not ended.
Release_KeepsHint ==
    /\ thread = "release"
    /\ thread' = "lock"
    /\ mState' = IF mState = "WAITING" THEN "IDLE" ELSE mState
    /\ mEventFd' = IF mState = "WAITING" THEN mEventFd ELSE 0
    /\ UNCHANGED <<mDurationMs, since, fdsOpen, timeoutMs, timer, waitEnd, owner, hint, due>>

\* Release(): ends the hint when no Acquire came since RoutineWait, and clears
\* the abort otherwise (the read fails harmlessly when the counter is 0).
Release ==
    /\ thread = "release"
    /\ thread' = "lock"
    /\ IF mState = "WAITING"
       THEN /\ hint' = FALSE                                     \* PerfRel
            /\ due' = 0
            /\ mState' = "IDLE"
            /\ UNCHANGED mEventFd
       ELSE /\ mEventFd' = 0
            /\ UNCHANGED <<mState, hint, due>>
    /\ UNCHANGED <<mDurationMs, since, fdsOpen, timeoutMs, timer, waitEnd, owner>>

-----------------------------------------------------------------------------
\* CLOCK_MONOTONIC and the timeout of the poll in progress.
Tick ==
    /\ since' = IF since < SinceCap THEN since + 1 ELSE since
    /\ timer' = IF timer > 0 THEN timer - 1 ELSE 0
    /\ due' = IF due > 0 THEN due - 1 ELSE 0
    /\ UNCHANGED <<mState, mDurationMs, mEventFd, fdsOpen, thread, timeoutMs, waitEnd,
                   owner, hint>>

Routine ==
    \/ RoutineSleep \/ RoutineReturn \/ RoutineWait \/ WaitForIdle
    \/ PollAborted \/ WaitElapsed \/ PreadReturns \/ PreadBusy
    \/ PollTimedOut \/ Release

Environment == SpuriousWakeup \/ PollError \/ IdleDetected \/ Tick

OwnerStep == InitHandler \/ InitFails \/ ExitLocked \/ ExitNotify \/ ExitJoin

Next == Routine \/ Environment \/ OwnerStep \/ AcquireCovered \/ AcquireGrant

Spec == Init /\ [][Next]_vars

\* The thread is scheduled and the owner completes an Exit it has begun.
Scheduling == WF_vars(Routine) /\ WF_vars(ExitNotify) /\ WF_vars(ExitJoin)

FairSpec == Spec /\ Scheduling

-----------------------------------------------------------------------------
(* Properties.                                                              *)

\* The INTERACTION hint is requested exactly while the handler is in the
\* states that hold the lease, whatever the order of Acquire, Release and a
\* pending abort: no lease without the hint, and no hint left behind by a
\* wait.  (Exit never ends the hint: nothing is said of what it leaves.)
HintMatchesState ==
    mState # "UNINITIALIZED" => (hint <=> mState \in {"INTERACTION", "WAITING"})

\* An abort is pending only for a wait it was meant for: the thread is still
\* between RoutineWait and Release and mState is no longer WAITING.  Were it
\* otherwise, Release would either miss clearing it or the next wait would be
\* cut short by it.
AbortIsForTheCurrentWait ==
    mEventFd > 0 /\ mState # "UNINITIALIZED" =>
        /\ mEventFd = 1
        /\ mState = "INTERACTION"
        /\ thread \in {"args", "poll1", "pread", "poll2", "release"}

\* The descriptors are open whenever Acquire or the thread may use them: Exit
\* closes them only after the thread has ended.
DescriptorsOpen ==
    (mState # "UNINITIALIZED" \/ thread # "none") => fdsOpen

\* The hint is not ended before mWaitMs have passed since the request that was
\* last granted, unless poll failed; and when the wait ran into its timeout, no
\* request, granted or found covered, is still owed any of its duration.
HeldLongEnough ==
    [][hint /\ ~hint' =>
          /\ waitEnd # "error" => since >= WaitMs
          /\ waitEnd = "timeout" => due = 0 /\ since >= WaitMs + mDurationMs]_vars

\* Where the thread is and what Init and Exit have done agree: the thread runs
\* from Init until it has seen Exit, and sleeps only while there is nothing to
\* do or Exit is about to wake it.
Lifecycle ==
    /\ owner = "new" => thread = "none" /\ ~hint /\ due = 0
    /\ mState # "UNINITIALIZED" => owner = "running" /\ thread # "none"
    /\ thread # "none" /\ mState = "UNINITIALIZED" => owner \in {"notify", "join"}
    /\ owner = "join" => thread # "sleep"
    /\ thread = "sleep" => mState \in {"IDLE", "UNINITIALIZED"}
    /\ mState = "WAITING" => thread \in {"args", "poll1", "pread", "poll2", "release"}
    /\ mState = "IDLE" => thread \in {"lock", "sleep"}

\* While no request has been granted since RoutineWait, the wait in progress
\* measures the lease in force: what has passed of it and what is left of the
\* poll add up to at least the time the lease must be held.
WaitCoversLease ==
    mState = "WAITING" =>
        /\ thread = "poll1" => since + timer >= WaitMs
        /\ thread \in {"pread", "poll2"} => since >= WaitMs
        /\ thread \in {"poll1", "pread", "poll2"} => timeoutMs = mDurationMs
        /\ thread = "poll2" => since + timer >= WaitMs + mDurationMs
        /\ thread = "release" /\ waitEnd # "error" => since >= WaitMs
        /\ thread = "release" /\ waitEnd = "timeout" => since >= WaitMs + mDurationMs

\* No request is owed more than what is left of the lease in force.
DueWithinLease ==
    /\ mState = "IDLE" => due = 0
    /\ mState \in {"INTERACTION", "WAITING"} => due = 0 \/ since + due <= mDurationMs

\* The inductive invariant: at every step of every interleaving the lease, the
\* abort, the descriptors, the thread and the time owed to requests agree.
IInv ==
    /\ TypeOK
    /\ HintMatchesState
    /\ AbortIsForTheCurrentWait
    /\ DescriptorsOpen
    /\ Lifecycle
    /\ WaitCoversLease
    /\ DueWithinLease

Lease == INSTANCE InteractionLease WITH
    MinHold <- WaitMs, AgeCap <- SinceCap,
    held <- hint, age <- since, disturbed <- (waitEnd = "error")

\* Seen from the power HAL the handler is a lease that is held for mWaitMs at
\* least after the request granted last, whatever the thread does meanwhile.
ImplementsLease == Lease!LeaseSpec

\* A lease ends: as time passes, and unless requests are granted again and
\* again, the handler returns to a state without a lease.  Fails when a
\* notification is lost.
LeaseEnds ==
    WF_vars(Tick) =>
        []<>(mState \in {"IDLE", "UNINITIALIZED"}) \/ []<><<AcquireGrant>>_vars

\* Exit completes without waiting for a timeout to run out: the abort it
\* writes is never consumed before the thread has seen UNINITIALIZED.
ExitCompletes == owner = "notify" ~> owner = "gone"
=============================================================================
