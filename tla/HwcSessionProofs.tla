-------------------------- MODULE HwcSessionProofs --------------------------
(***************************************************************************)
(* For any number of binder threads and any budgets: no service call that  *)
(* waits for the sequence and no removal of the external display works     *)
(* inside a frame (SequenceUndisturbed), and the external display is never *)
(* created beside a virtual one (ExternalYieldsToVirtual).  Both rest on   *)
(* who holds which mutex at which place of its call, and on sequence_wait_ *)
(* being 1 from the validate that enters a sequence to the present that    *)
(* leaves it.                                                              *)
(* Third, what SurfaceFlinger is told of the external display settles      *)
(* (ViewSettled): every change is on its way to it until it is announced.  *)
(***************************************************************************)
EXTENDS HwcSession, TLAPS

Places ==
  {"idle", "validate", "validating", "failed", "present", "refused", "pending", "lock_e",
   "lock_v", "connect", "commit", "cached", "hotplug", "registered", "primary", "wait",
   "woken", "disconnect", "refresh", "vsync_period", "cache", "caching", "panel", "body",
   "bandwidth", "timed", "lock", "plain", "reset"}
Ops == {"none", "first", "second", "revalidate", "query", "config", "camera", "partial",
        "color", "animate"}
CallRecord == [at : Places, on : Displays, op : Ops, notify : BOOLEAN]

(* The types the proof needs; the other variables do not matter to it.     *)
LockTypes ==
  /\ mutex \in [Displays -> Threads \cup {"none"}]
  /\ sequence_wait_ \in [Displays -> {-1, 0, 1}]
  /\ call \in [Threads -> CallRecord]
  /\ drawing \subseteq Displays

(* A validated display is in its sequence.                                 *)
DrawnInSequence == \A d \in drawing : sequence_wait_[d] = 1

(* A service that waits for the sequence works with its display's mutex    *)
(* held, outside the sequence...                                           *)
ServiceHolds(t) ==
  call[t].at \in {"body", "refresh", "bandwidth"} =>
    mutex[call[t].on] = t /\ sequence_wait_[call[t].on] # 1
ServicesHold == \A t \in Services : ServiceHolds(t)

(* ...and so does the removal of the external display.                     *)
RemoverHolds ==
  call["uevent"].at = "disconnect" =>
    mutex["external"] = "uevent" /\ sequence_wait_["external"] # 1

(* SurfaceFlinger is in a call on a display it has not validated, but for  *)
(* a present that has not started; a validate has entered the sequence.    *)
SfPlace ==
  /\ call["sf"].at \notin {"idle", "present", "registered"} => call["sf"].on \notin drawing
  /\ call["sf"].at = "validating" => sequence_wait_[call["sf"].on] = 1

(* Who is about to connect the external display has seen, under a mutex it *)
(* still holds, that there is no virtual one.                              *)
Connects(t) ==
  call[t].at = "connect" => mutex["virtual"] = t /\ "virtual" \notin hwc_display_
ConnectorsHold == Connects("sf") /\ Connects("uevent")

IInv ==
  /\ LockTypes
  /\ DrawnInSequence
  /\ ServicesHold
  /\ RemoverHolds
  /\ SfPlace
  /\ ConnectorsHold

-----------------------------------------------------------------------------
(* The steps of a thread's own call record.                                *)

(* Goto moves one thread and leaves the rest of every call alone.          *)
LEMMA GotoMoves ==
  ASSUME call \in [Threads -> CallRecord], NEW t \in Threads, NEW place \in Places,
         Goto(t, place)
  PROVE  /\ call' \in [Threads -> CallRecord]
         /\ call'[t].at = place /\ call'[t].on = call[t].on /\ call'[t].notify = call[t].notify
         /\ \A u \in Threads \ {t} : call'[u] = call[u]
  BY Zenon DEF Goto, CallRecord

(* Decide is a Goto that also sets notify_hotplug.                         *)
LEMMA DecideMoves ==
  ASSUME call \in [Threads -> CallRecord], NEW t \in Threads, NEW place \in Places,
         NEW announce \in BOOLEAN, Decide(t, place, announce)
  PROVE  /\ call' \in [Threads -> CallRecord]
         /\ call'[t].at = place /\ call'[t].on = call[t].on /\ call'[t].notify = announce
         /\ \A u \in Threads \ {t} : call'[u] = call[u]
  BY Zenon DEF Decide, CallRecord

(* Start begins a call of one thread.                                      *)
LEMMA StartMoves ==
  ASSUME call \in [Threads -> CallRecord], NEW t \in Threads, NEW place \in Places,
         NEW display \in Displays, NEW what \in Ops, Start(t, place, display, what)
  PROVE  /\ call' \in [Threads -> CallRecord]
         /\ call'[t].at = place /\ call'[t].on = display /\ ~call'[t].notify
         /\ \A u \in Threads \ {t} : call'[u] = call[u]
<1> DEFINE record == [at |-> place, on |-> display, op |-> what, notify |-> FALSE]
<1>1. record \in CallRecord /\ record.at = place /\ record.on = display /\ ~record.notify
  BY Zenon DEF CallRecord
<1>2. call' = [call EXCEPT ![t] = record]
  BY Zenon DEF Start
<1> HIDE DEF record
<1> QED BY Zenon, <1>1, <1>2

(* Return ends it.                                                         *)
LEMMA ReturnMoves ==
  ASSUME call \in [Threads -> CallRecord], NEW t \in Threads, Return(t)
  PROVE  /\ call' \in [Threads -> CallRecord]
         /\ call'[t].at = "idle"
         /\ \A u \in Threads \ {t} : call'[u] = call[u]
<1>1. Idle.at = "idle"
  BY Zenon DEF Idle
<1>2. "primary" \in Displays
  BY Zenon DEF Displays
<1>3. Idle \in CallRecord
  BY Zenon, <1>2 DEF Idle, CallRecord, Places, Ops
<1> QED BY Zenon, <1>1, <1>3 DEF Return

(* A present that returns either ends or goes on to validate its display.  *)
LEMMA PresentReturnsMoves ==
  ASSUME call \in [Threads -> CallRecord], PresentReturns
  PROVE  /\ call' \in [Threads -> CallRecord]
         /\ \/ call'["sf"].at = "idle"
            \/ call'["sf"].at = "validate" /\ call'["sf"].on = call["sf"].on
         /\ \A u \in Threads \ {"sf"} : call'[u] = call[u]
<1>1. "sf" \in Threads
  BY Zenon DEF Threads
<1>2. call["sf"].on \in Displays
  BY Zenon, <1>1 DEF CallRecord
<1>3. CASE call["sf"].op = "revalidate"
  <2>1. Start("sf", "validate", call["sf"].on, "none")
    BY Zenon, <1>3 DEF PresentReturns
  <2>2. "validate" \in Places /\ "none" \in Ops
    BY Zenon DEF Places, Ops
  <2> QED BY Zenon, <1>1, <1>2, <2>1, <2>2, StartMoves
<1>4. CASE call["sf"].op # "revalidate"
  BY Zenon, <1>1, <1>4, ReturnMoves DEF PresentReturns
<1> QED BY Zenon, <1>3, <1>4

-----------------------------------------------------------------------------
(* What one thread's step does to the others.                              *)

(* A step of thread t: it moves only itself, changes the mutex and the     *)
(* sequence of a display only where no other thread holds the mutex, and   *)
(* creates a virtual display only while its mutex is free.                 *)
StepOf(t) ==
  /\ LockTypes'
  /\ \A u \in Threads \ {t} : call'[u] = call[u]
  /\ \A d \in Displays : mutex[d] \in Threads \ {t} =>
       mutex'[d] = mutex[d] /\ sequence_wait_'[d] = sequence_wait_[d]
  /\ "virtual" \in hwc_display_' => "virtual" \in hwc_display_ \/ mutex["virtual"] = "none"

(* The kinds of thread are told apart by their names.                      *)
LEMMA Names ==
  /\ "sf" \in Threads /\ "uevent" \in Threads /\ Services \subseteq Threads
  /\ "none" \notin Threads /\ "sf" \notin Services /\ "uevent" \notin Services
  /\ "primary" \in Displays /\ "external" \in Displays /\ "virtual" \in Displays
  BY Zenon, ServicesAssumption DEF Threads, Displays

(* Another thread's mutex is safe from it, and with it what that thread    *)
(* relies on.                                                              *)
LEMMA OthersUndisturbed ==
  ASSUME IInv, NEW t \in Threads, StepOf(t)
  PROVE  /\ \A u \in Services \ {t} : ServiceHolds(u)'
         /\ t # "uevent" => RemoverHolds' /\ Connects("uevent")'
         /\ t # "sf" => Connects("sf")'
<1>1. ASSUME NEW u \in Services \ {t} PROVE ServiceHolds(u)'
  <2>1. u \in Threads /\ call'[u] = call[u] /\ call[u].on \in Displays /\ ServiceHolds(u)
    BY Zenon, Names DEF IInv, LockTypes, StepOf, CallRecord, ServicesHold
  <2> QED BY ZenonT(60), <2>1 DEF StepOf, ServiceHolds
<1>2. ASSUME t # "uevent" PROVE RemoverHolds'
  BY Zenon, <1>2, Names DEF IInv, StepOf, RemoverHolds
<1>3. ASSUME NEW u \in {"sf", "uevent"}, t # u PROVE Connects(u)'
  <2>1. u \in Threads /\ u # "none" /\ call'[u] = call[u] /\ Connects(u)
    BY Zenon, <1>3, Names DEF IInv, StepOf, ConnectorsHold
  <2> QED BY Zenon, <1>3, <2>1, Names DEF StepOf, Connects
<1> QED BY Zenon, <1>1, <1>2, <1>3

(* What is left to show for a step of a service...                         *)
LEMMA ServiceKeeps ==
  ASSUME IInv, NEW s \in Services, StepOf(s), UNCHANGED <<sequence_wait_, drawing>>,
         ServiceHolds(s)'
  PROVE  IInv'
<1>1. s \in Threads /\ s # "sf" /\ s # "uevent"
  BY Zenon, Names
<1>2. call'["sf"] = call["sf"]
  BY Zenon, <1>1, Names DEF StepOf
<1>3. ServicesHold' /\ RemoverHolds' /\ ConnectorsHold'
  BY Zenon, <1>1, OthersUndisturbed DEF ServicesHold, ConnectorsHold
<1>4. DrawnInSequence' /\ SfPlace'
  BY Zenon, <1>2 DEF IInv, DrawnInSequence, SfPlace
<1> QED BY Zenon, <1>3, <1>4 DEF IInv, StepOf

(* ...of the uevent thread...                                              *)
LEMMA UEventKeeps ==
  ASSUME IInv, StepOf("uevent"), UNCHANGED <<sequence_wait_, drawing>>,
         RemoverHolds', Connects("uevent")'
  PROVE  IInv'
<1>1. call'["sf"] = call["sf"]
  BY Zenon, Names DEF StepOf
<1>2. ServicesHold' /\ ConnectorsHold'
  BY Zenon, Names, OthersUndisturbed DEF ServicesHold, ConnectorsHold
<1>3. DrawnInSequence' /\ SfPlace'
  BY Zenon, <1>1 DEF IInv, DrawnInSequence, SfPlace
<1> QED BY Zenon, <1>2, <1>3 DEF IInv, StepOf

(* ...and of SurfaceFlinger.                                               *)
LEMMA SfKeeps ==
  ASSUME IInv, StepOf("sf"), DrawnInSequence', SfPlace', Connects("sf")'
  PROVE  IInv'
<1>1. ServicesHold' /\ RemoverHolds' /\ ConnectorsHold'
  BY Zenon, Names, OthersUndisturbed DEF ServicesHold, ConnectorsHold
<1> QED BY Zenon, <1>1 DEF IInv, StepOf

(* Taking a free mutex disturbs nobody...                                  *)
LEMMA LockKeeps ==
  ASSUME LockTypes, NEW t \in Threads, NEW d \in Displays, Lock(t, d)
  PROVE  /\ mutex' \in [Displays -> Threads \cup {"none"}]
         /\ mutex'[d] = t
         /\ \A e \in Displays : mutex[e] \in Threads \/ e # d => mutex'[e] = mutex[e]
  BY Zenon, Names DEF LockTypes, Lock, Free

(* ...and neither does the end of a scope, which gives up one's own.       *)
LEMMA UnlockKeeps ==
  ASSUME LockTypes, NEW t \in Threads, Unlock(t)
  PROVE  /\ mutex' \in [Displays -> Threads \cup {"none"}]
         /\ \A e \in Displays : mutex[e] # t => mutex'[e] = mutex[e]
  BY Zenon DEF LockTypes, Unlock

-----------------------------------------------------------------------------
(* The binder threads                                                      *)

(* A service that goes to a place where it need not hold its mutex.        *)
LEMMA ServiceLeaves ==
  ASSUME IInv, NEW s \in Services, UNCHANGED <<sequence_wait_, drawing, hwc_display_>>,
         mutex' = mutex \/ Unlock(s) \/ Lock(s, call[s].on),
         call' \in [Threads -> CallRecord],
         call'[s].at \notin {"body", "refresh", "bandwidth"},
         \A u \in Threads \ {s} : call'[u] = call[u]
  PROVE  IInv'
<1>1. s \in Threads /\ LockTypes
  BY Zenon, Names DEF IInv
<1>2. /\ mutex' \in [Displays -> Threads \cup {"none"}]
      /\ \A e \in Displays : mutex[e] \in Threads \ {s} => mutex'[e] = mutex[e]
  <2>1. call[s].on \in Displays
    BY Zenon, <1>1 DEF LockTypes, CallRecord
  <2> QED BY Zenon, <1>1, <2>1, UnlockKeeps, LockKeeps DEF LockTypes
<1>3. StepOf(s)
  BY Zenon, <1>1, <1>2 DEF StepOf, LockTypes
<1> QED BY Zenon, <1>3, ServiceKeeps DEF ServiceHolds

(* A service that works on under the mutex it holds.                       *)
LEMMA ServiceWorksOn ==
  ASSUME IInv, NEW s \in Services, UNCHANGED <<mutex, sequence_wait_, drawing, hwc_display_>>,
         NEW place \in Places, Goto(s, place), call[s].at \in {"body", "refresh", "bandwidth"}
  PROVE  IInv'
<1>1. s \in Threads /\ LockTypes /\ ServiceHolds(s)
  BY Zenon, Names DEF IInv, ServicesHold
<1>2. /\ call' \in [Threads -> CallRecord] /\ call'[s].on = call[s].on
      /\ \A u \in Threads \ {s} : call'[u] = call[u]
  BY Zenon, <1>1, GotoMoves DEF LockTypes
<1>3. StepOf(s)
  BY Zenon, <1>1, <1>2 DEF StepOf, LockTypes
<1>4. ServiceHolds(s)'
  BY Zenon, <1>1, <1>2 DEF ServiceHolds
<1> QED BY Zenon, <1>3, <1>4, ServiceKeeps

(* Every step of a service, its call included, keeps the invariant.        *)
LEMMA ServiceStepKeeps ==
  ASSUME IInv, NEW s \in Services, ServiceStep(s) \/ ServiceCall(s)
  PROVE  IInv'
<1>1. s \in Threads /\ LockTypes /\ call \in [Threads -> CallRecord]
  BY Zenon, Names DEF IInv, LockTypes
<1>2. call[s].on \in Displays
  BY Zenon, <1>1 DEF CallRecord
<1>3. {"wait", "woken", "body", "refresh", "bandwidth", "timed", "lock", "plain", "reset"} \subseteq Places
  BY Zenon DEF Places
<1>4. ASSUME Return(s), UNCHANGED <<sequence_wait_, drawing, hwc_display_>>, mutex' = mutex \/ Unlock(s)
      PROVE  IInv'
  BY Zenon, <1>1, <1>4, ReturnMoves, ServiceLeaves
<1>5. CASE ServiceCall(s)
  <2>1. PICK place \in {"wait", "lock"}, c \in WaitingCalls \cup PlainCalls : Start(s, place, c[2], c[1])
    BY Zenon, <1>5 DEF ServiceCall
  <2>2. c[1] \in Ops /\ c[2] \in Displays /\ place \in Places
    BY SMTT(30), <1>3 DEF WaitingCalls, PlainCalls, Ops, Displays
  <2>3. call' \in [Threads -> CallRecord] /\ call'[s].at = place /\ \A u \in Threads \ {s} : call'[u] = call[u]
    BY Zenon, <1>1, <1>3, <2>1, <2>2, StartMoves
  <2> QED BY Zenon, <1>5, <2>3, ServiceLeaves DEF ServiceCall, locks
<1>6. CASE ServiceWait(s)
  <2>1. CASE Goto(s, "woken") /\ UNCHANGED mutex
    <3>1. call' \in [Threads -> CallRecord] /\ call'[s].at = "woken" /\ \A u \in Threads \ {s} : call'[u] = call[u]
      BY Zenon, <1>1, <1>3, <2>1, GotoMoves
    <3> QED BY Zenon, <1>6, <2>1, <3>1, ServiceLeaves DEF ServiceWait, SequenceWait
  <2>2. CASE sequence_wait_[call[s].on] # 1 /\ Lock(s, call[s].on) /\ Goto(s, "body")
    <3>1. /\ call' \in [Threads -> CallRecord] /\ call'[s].on = call[s].on
          /\ \A u \in Threads \ {s} : call'[u] = call[u]
      BY Zenon, <1>1, <1>3, <2>2, GotoMoves
    <3>2. UNCHANGED <<sequence_wait_, drawing, hwc_display_>>
      BY Zenon, <1>6 DEF ServiceWait, SequenceWait
    <3>3. StepOf(s)
      BY Zenon, <1>1, <1>2, <2>2, <3>1, <3>2, LockKeeps DEF StepOf, LockTypes
    <3>4. ServiceHolds(s)'
      BY Zenon, <1>1, <1>2, <2>2, <3>1, <3>2, LockKeeps DEF ServiceHolds
    <3> QED BY Zenon, <3>2, <3>3, <3>4, ServiceKeeps
  <2> QED BY Zenon, <1>6, <2>1, <2>2 DEF ServiceWait, SequenceWait
<1>7. CASE ServiceQuery(s)
  BY Zenon, <1>4, <1>7 DEF ServiceQuery, ServiceReturns
<1>8. CASE SetCameraLaunchStatus(s)
  BY Zenon, <1>3, <1>8, ServiceWorksOn DEF SetCameraLaunchStatus, locks
<1>9. ASSUME NEW ok \in BOOLEAN, SetActiveConfigIndex(s, ok) PROVE IInv'
  <2>1. CASE ok
    BY Zenon, <1>3, <1>9, <2>1, ServiceWorksOn DEF SetActiveConfigIndex
  <2>2. CASE ~ok
    BY Zenon, <1>4, <1>9, <2>2 DEF SetActiveConfigIndex, ServiceReturns
  <2> QED BY Zenon, <2>1, <2>2
<1>10. ASSUME NEW pending \in BOOLEAN, ControlPartialUpdate(s, pending) PROVE IInv'
  <2>1. CASE pending
    BY Zenon, <1>3, <1>10, <2>1, ServiceWorksOn DEF ControlPartialUpdate
  <2>2. CASE ~pending
    BY Zenon, <1>4, <1>10, <2>2 DEF ControlPartialUpdate, ServiceReturns
  <2> QED BY Zenon, <2>1, <2>2
<1>11. ASSUME NEW ok \in BOOLEAN, SetMaxBandwidthMode(s, ok) PROVE IInv'
  BY Zenon, <1>4, <1>11 DEF SetMaxBandwidthMode, ServiceReturns
<1>12. CASE ServiceRefresh(s)
  <2>1. CASE ServiceReturns(s)
    BY Zenon, <1>4, <1>12, <2>1 DEF ServiceRefresh, ServiceReturns
  <2>2. CASE Goto(s, "bandwidth") /\ UNCHANGED mutex
    BY Zenon, <1>3, <1>12, <2>2, ServiceWorksOn DEF ServiceRefresh
  <2>3. CASE Goto(s, "timed") /\ Unlock(s)
    <3>1. call' \in [Threads -> CallRecord] /\ call'[s].at = "timed" /\ \A u \in Threads \ {s} : call'[u] = call[u]
      BY Zenon, <1>1, <1>3, <2>3, GotoMoves
    <3> QED BY Zenon, <1>12, <2>3, <3>1, ServiceLeaves DEF ServiceRefresh
  <2> QED BY Zenon, <1>12, <2>1, <2>2, <2>3 DEF ServiceRefresh
<1>13. CASE ServiceTimedWait(s)
  BY Zenon, <1>4, <1>13 DEF ServiceTimedWait, locks
<1>14. CASE CallDisplayFunction(s)
  <2>1. call' \in [Threads -> CallRecord] /\ call'[s].at = "plain" /\ \A u \in Threads \ {s} : call'[u] = call[u]
    BY Zenon, <1>1, <1>3, <1>14, GotoMoves DEF CallDisplayFunction
  <2> QED BY Zenon, <1>14, <2>1, ServiceLeaves DEF CallDisplayFunction
<1>15. ASSUME NEW ok \in BOOLEAN, SetColorMode(s, ok) PROVE IInv'
  <2>1. CASE Goto(s, "reset") /\ UNCHANGED mutex
    <3>1. call' \in [Threads -> CallRecord] /\ call'[s].at = "reset" /\ \A u \in Threads \ {s} : call'[u] = call[u]
      BY Zenon, <1>1, <1>3, <2>1, GotoMoves
    <3> QED BY Zenon, <1>15, <2>1, <3>1, ServiceLeaves DEF SetColorMode
  <2>2. CASE ServiceReturns(s)
    BY Zenon, <1>4, <1>15, <2>2 DEF SetColorMode, ServiceReturns
  <2> QED BY Zenon, <1>15, <2>1, <2>2 DEF SetColorMode
<1>16. CASE SetColorModeEnds(s) \/ SetDisplayAnimating(s)
  BY Zenon, <1>4, <1>16 DEF SetColorModeEnds, SetDisplayAnimating, ServiceReturns
<1> QED BY Zenon, <1>5, <1>6, <1>7, <1>8, <1>9, <1>10, <1>11, <1>12, <1>13, <1>14, <1>15, <1>16
        DEF ServiceStep

-----------------------------------------------------------------------------
(* The uevent thread                                                       *)

(* A step of the uevent thread that ends in no place of the invariant.     *)
LEMMA UEventLeaves ==
  ASSUME IInv, UNCHANGED <<sequence_wait_, drawing>>,
         "virtual" \in hwc_display_' => "virtual" \in hwc_display_,
         mutex' = mutex \/ Unlock("uevent") \/ Lock("uevent", "external"),
         call' \in [Threads -> CallRecord],
         call'["uevent"].at \notin {"disconnect", "connect"},
         \A u \in Threads \ {"uevent"} : call'[u] = call[u]
  PROVE  IInv'
<1>1. LockTypes
  BY Zenon DEF IInv
<1>2. /\ mutex' \in [Displays -> Threads \cup {"none"}]
      /\ \A e \in Displays : mutex[e] \in Threads \ {"uevent"} => mutex'[e] = mutex[e]
  BY Zenon, <1>1, Names, UnlockKeeps, LockKeeps DEF LockTypes
<1>3. StepOf("uevent")
  BY Zenon, <1>1, <1>2 DEF StepOf, LockTypes
<1> QED BY Zenon, <1>3, UEventKeeps DEF RemoverHolds, Connects

(* Every step of the uevent thread, the events included.                   *)
LEMMA UEventStepKeeps ==
  ASSUME IInv, UEventStep \/ UEvent \/ PanelDead
  PROVE  IInv'
<1>1. LockTypes /\ call \in [Threads -> CallRecord]
  BY Zenon DEF IInv, LockTypes
<1>2. /\ {"primary", "lock_e", "wait", "woken", "lock_v", "connect", "refresh", "disconnect",
          "vsync_period", "cache", "hotplug", "caching", "panel"} \subseteq Places
      /\ "none" \in Ops
  BY Zenon DEF Places, Ops
<1>3. ASSUME Return("uevent"), UNCHANGED <<sequence_wait_, drawing>>,
             "virtual" \in hwc_display_' => "virtual" \in hwc_display_,
             mutex' = mutex \/ Unlock("uevent")
      PROVE  IInv'
  BY Zenon, <1>1, <1>3, Names, ReturnMoves, UEventLeaves
<1>4. ASSUME NEW place \in Places, place \notin {"disconnect", "connect"},
             Goto("uevent", place) \/ \E b \in BOOLEAN : Decide("uevent", place, b),
             UNCHANGED <<sequence_wait_, drawing>>,
             "virtual" \in hwc_display_' => "virtual" \in hwc_display_,
             mutex' = mutex \/ Unlock("uevent") \/ Lock("uevent", "external")
      PROVE  IInv'
  <2>1. /\ call' \in [Threads -> CallRecord] /\ call'["uevent"].at = place
        /\ \A u \in Threads \ {"uevent"} : call'[u] = call[u]
    BY SMTT(30), <1>1, <1>4, Names, GotoMoves, DecideMoves
  <2> QED BY Zenon, <1>4, <2>1, UEventLeaves
<1>5. CASE UEvent
  <2>1. /\ call' \in [Threads -> CallRecord] /\ call'["uevent"].at = "primary"
        /\ \A u \in Threads \ {"uevent"} : call'[u] = call[u]
    BY Zenon, <1>1, <1>2, <1>5, Names, StartMoves DEF UEvent
  <2> QED BY Zenon, <1>5, <2>1, UEventLeaves DEF UEvent, locks
<1>6. CASE HotPlugPrimary
  BY Zenon, <1>2, <1>4, <1>6 DEF HotPlugPrimary, locks
<1>7. CASE HotPlugLockE
  BY Zenon, <1>2, <1>4, <1>7 DEF HotPlugLockE
<1>8. CASE HotPlugLockV
  <2>1. CASE "virtual" \in hwc_display_
    BY Zenon, <1>2, <1>4, <1>8, <2>1 DEF HotPlugLockV
  <2>2. CASE "virtual" \notin hwc_display_
    <3>1. Lock("uevent", "virtual") /\ Goto("uevent", "connect") /\ UNCHANGED <<sequence_wait_, drawing, hwc_display_>>
      BY Zenon, <1>8, <2>2 DEF HotPlugLockV
    <3>2. /\ call' \in [Threads -> CallRecord] /\ call'["uevent"].at = "connect"
          /\ \A u \in Threads \ {"uevent"} : call'[u] = call[u]
      BY Zenon, <1>1, <1>2, <3>1, Names, GotoMoves
    <3>3. StepOf("uevent") /\ mutex'["virtual"] = "uevent"
      BY Zenon, <1>1, <3>1, <3>2, Names, LockKeeps DEF StepOf, LockTypes
    <3> QED BY Zenon, <2>2, <3>1, <3>2, <3>3, UEventKeeps DEF RemoverHolds, Connects
  <2> QED BY Zenon, <2>1, <2>2
<1>9. ASSUME NEW ok \in BOOLEAN, HotPlugConnect(ok) PROVE IInv'
  <2>1. "virtual" \in hwc_display_' => "virtual" \in hwc_display_
    BY Zenon, <1>9 DEF HotPlugConnect, ConnectDisplay
  <2>2. CASE ok
    BY Zenon, <1>2, <1>4, <1>9, <2>1, <2>2 DEF HotPlugConnect
  <2>3. CASE ~ok
    BY Zenon, <1>3, <1>9, <2>1, <2>3 DEF HotPlugConnect
  <2> QED BY Zenon, <2>2, <2>3
<1>10. CASE HotPlugWait
  <2>1. CASE Goto("uevent", "woken") /\ UNCHANGED mutex
    BY Zenon, <1>2, <1>4, <1>10, <2>1 DEF HotPlugWait, SequenceWait
  <2>2. CASE sequence_wait_["external"] # 1 /\ Lock("uevent", "external") /\ Goto("uevent", "disconnect")
    <3>1. UNCHANGED <<sequence_wait_, drawing, hwc_display_>>
      BY Zenon, <1>10 DEF HotPlugWait, SequenceWait
    <3>2. /\ call' \in [Threads -> CallRecord] /\ call'["uevent"].at = "disconnect"
          /\ \A u \in Threads \ {"uevent"} : call'[u] = call[u]
      BY Zenon, <1>1, <1>2, <2>2, Names, GotoMoves
    <3>3. StepOf("uevent") /\ mutex'["external"] = "uevent"
      BY Zenon, <1>1, <2>2, <3>1, <3>2, Names, LockKeeps DEF StepOf, LockTypes
    <3> QED BY Zenon, <2>2, <3>1, <3>2, <3>3, UEventKeeps DEF RemoverHolds, Connects
  <2> QED BY Zenon, <1>10, <2>1, <2>2 DEF HotPlugWait, SequenceWait
<1>11. CASE HotPlugDisconnect
  <2>1. "virtual" \in hwc_display_' => "virtual" \in hwc_display_
    BY Zenon, <1>11 DEF HotPlugDisconnect
  <2>2. \E b \in BOOLEAN : Decide("uevent", "cache", b)
    <3> DEFINE was == "external" \in hwc_display_
    <3>1. was \in BOOLEAN /\ Decide("uevent", "cache", was)
      BY SMTT(30), <1>11 DEF HotPlugDisconnect
    <3> HIDE DEF was
    <3> QED BY <3>1, Zenon
  <2> QED BY Zenon, <1>2, <1>4, <1>11, <2>1, <2>2 DEF HotPlugDisconnect
<1>12. CASE HotPlugRefresh
  BY Zenon, <1>2, <1>4, <1>12 DEF HotPlugRefresh, locks
<1>13. CASE HotPlugVsyncPeriod
  BY Zenon, <1>2, <1>4, <1>13 DEF HotPlugVsyncPeriod, locks
<1>14. CASE HotPlugCache
  BY Zenon, <1>2, <1>3, <1>4, <1>14 DEF HotPlugCache, locks
<1>15. CASE HotPlugCaching
  BY Zenon, <1>3, <1>15 DEF HotPlugCaching, locks
<1>16. CASE HotPlugTell
  <2>1. CASE Return("uevent") /\ UNCHANGED <<mutex, sequence_wait_, drawing, hwc_display_>>
    BY Zenon, <1>3, <2>1
  <2>2. CASE call["uevent"].at = "hotplug" /\ UNCHANGED <<call, mutex, sequence_wait_, drawing, hwc_display_>>
    BY Zenon, <1>1, <2>2, UEventLeaves
  <2> QED BY Zenon, <1>16, <2>1, <2>2 DEF HotPlugTell, HotPlugWaits, locks
<1>17. CASE PanelDead
  BY Zenon, <1>2, <1>4, <1>17 DEF PanelDead, locks
<1>18. CASE PanelReset
  BY Zenon, <1>3, <1>18 DEF PanelReset, locks
<1> QED BY Zenon, <1>5, <1>6, <1>7, <1>8, <1>9, <1>10, <1>11, <1>12, <1>13, <1>14, <1>15, <1>16,
           <1>17, <1>18 DEF UEventStep

-----------------------------------------------------------------------------
(* SurfaceFlinger's thread                                                 *)

(* A step that changes no sequence, draws nothing new and does not connect *)
(* keeps the invariant if the display it goes on with is not being drawn.  *)
LEMMA SfGoesOn ==
  ASSUME IInv, UNCHANGED sequence_wait_, drawing' \subseteq drawing,
         "virtual" \in hwc_display_' => "virtual" \in hwc_display_ \/ mutex["virtual"] = "none",
         mutex' = mutex \/ Unlock("sf") \/ Lock("sf", "external"),
         call' \in [Threads -> CallRecord],
         call'["sf"].at \notin {"validating", "connect"},
         call'["sf"].at \notin {"idle", "present", "registered"} => call'["sf"].on \notin drawing',
         \A u \in Threads \ {"sf"} : call'[u] = call[u]
  PROVE  IInv'
<1>1. LockTypes
  BY Zenon DEF IInv
<1>2. /\ mutex' \in [Displays -> Threads \cup {"none"}]
      /\ \A e \in Displays : mutex[e] \in Threads \ {"sf"} => mutex'[e] = mutex[e]
  BY Zenon, <1>1, Names, UnlockKeeps, LockKeeps DEF LockTypes
<1>3. StepOf("sf")
  BY Zenon, <1>1, <1>2 DEF StepOf, LockTypes
<1>4. DrawnInSequence'
  BY Zenon DEF IInv, DrawnInSequence
<1> QED BY Zenon, <1>3, <1>4, SfKeeps DEF SfPlace, Connects

(* A step that ends a sequence, with the display no longer drawn.          *)
LEMMA SfEndsSequence ==
  ASSUME IInv, NEW d \in Displays, NEW flag \in {0, -1}, Free(d),
         sequence_wait_' = [sequence_wait_ EXCEPT ![d] = flag],
         drawing' \subseteq drawing \ {d}, UNCHANGED <<mutex, hwc_display_>>,
         call' \in [Threads -> CallRecord],
         call'["sf"].at \notin {"validating", "connect"},
         call'["sf"].at \notin {"idle", "present", "registered"} => call'["sf"].on \notin drawing',
         \A u \in Threads \ {"sf"} : call'[u] = call[u]
  PROVE  IInv'
<1>1. LockTypes
  BY Zenon DEF IInv
<1>2. StepOf("sf")
  BY Zenon, <1>1, Names DEF StepOf, LockTypes, Free
<1>3. DrawnInSequence'
  BY Zenon, <1>1 DEF IInv, DrawnInSequence, LockTypes
<1> QED BY Zenon, <1>2, <1>3, SfKeeps DEF SfPlace, Connects

(* Every step of SurfaceFlinger and of the composer service for it.        *)
LEMMA SfStepKeeps ==
  ASSUME IInv,
         \/ SfStep \/ CreateVirtualDisplay \/ DestroyVirtualDisplay \/ ClientDies
         \/ \E d \in Displays : OwnFrame(d) \/ CallLayerFunction(d)
  PROVE  IInv'
<1> DEFINE d == call["sf"].on
<1>1. LockTypes /\ call \in [Threads -> CallRecord]
  BY Zenon DEF IInv, LockTypes
<1>2. d \in Displays
  BY Zenon, <1>1, Names DEF CallRecord
<1>3. /\ {"validate", "present", "validating", "failed", "refused", "pending", "lock_e", "lock_v",
          "connect", "commit", "cached", "hotplug", "registered"} \subseteq Places
      /\ {"none", "first", "second", "revalidate"} \subseteq Ops
  BY Zenon DEF Places, Ops
<1>4. call["sf"].at \notin {"idle", "present", "registered"} => d \notin drawing
  BY Zenon DEF IInv, SfPlace
<1> HIDE DEF d
<1>5. ASSUME Return("sf") \/ (UNCHANGED call /\ call["sf"].at = "idle"),
             UNCHANGED sequence_wait_, drawing' \subseteq drawing,
             "virtual" \in hwc_display_' => "virtual" \in hwc_display_ \/ mutex["virtual"] = "none",
             mutex' = mutex \/ Unlock("sf")
      PROVE  IInv'
  <2>1. /\ call' \in [Threads -> CallRecord] /\ call'["sf"].at = "idle"
        /\ \A u \in Threads \ {"sf"} : call'[u] = call[u]
    BY Zenon, <1>1, <1>5, Names, ReturnMoves
  <2> QED BY Zenon, <1>5, <2>1, SfGoesOn
<1>6. ASSUME NEW place \in Places, place \notin {"validating", "connect"},
             Goto("sf", place) \/ Decide("sf", place, TRUE),
             call["sf"].at \notin {"idle", "present", "registered"},
             UNCHANGED <<sequence_wait_, drawing>>,
             "virtual" \in hwc_display_' => "virtual" \in hwc_display_,
             mutex' = mutex \/ Unlock("sf") \/ Lock("sf", "external")
      PROVE  IInv'
  <2>1. /\ call' \in [Threads -> CallRecord] /\ call'["sf"].at = place /\ call'["sf"].on = d
        /\ \A u \in Threads \ {"sf"} : call'[u] = call[u]
    BY Zenon, <1>1, <1>6, Names, GotoMoves, DecideMoves DEF d
  <2> QED BY Zenon, <1>4, <1>6, <2>1, SfGoesOn
<1>7. ASSUME PresentReturns, call["sf"].at \notin {"idle", "present", "registered"},
             UNCHANGED <<mutex, sequence_wait_, drawing, hwc_display_>>
      PROVE  IInv'
  <2>1. /\ call' \in [Threads -> CallRecord]
        /\ call'["sf"].at = "idle" \/ (call'["sf"].at = "validate" /\ call'["sf"].on = d)
        /\ \A u \in Threads \ {"sf"} : call'[u] = call[u]
    BY Zenon, <1>1, <1>7, PresentReturnsMoves DEF d
  <2> QED BY Zenon, <1>4, <1>7, <2>1, SfGoesOn
<1>8. ASSUME NEW e \in Displays, BeginFrame(e) PROVE IInv'
  <2>1. PICK first \in {"validate", "present"} : Start("sf", first, e, "first")
    BY Zenon, <1>8 DEF BeginFrame
  <2>2. /\ call' \in [Threads -> CallRecord] /\ call'["sf"].at = first /\ call'["sf"].on = e
        /\ \A u \in Threads \ {"sf"} : call'[u] = call[u]
    BY SMTT(30), <1>1, <1>3, <2>1, Names, StartMoves
  <2> QED BY Zenon, <1>8, <2>2, SfGoesOn DEF BeginFrame, locks
<1>9. CASE RefreshFrame \/ \E e \in Displays : OwnFrame(e)
  BY Zenon, <1>8, <1>9, Names DEF RefreshFrame, OwnFrame
<1>10. ASSUME NEW e \in Displays, FinishFrame(e) PROVE IInv'
  <2>1. /\ call' \in [Threads -> CallRecord] /\ call'["sf"].at = "present"
        /\ \A u \in Threads \ {"sf"} : call'[u] = call[u]
    BY Zenon, <1>1, <1>3, <1>10, Names, StartMoves DEF FinishFrame
  <2> QED BY Zenon, <1>10, <2>1, SfGoesOn DEF FinishFrame, locks
<1>11. CASE ValidateLock
  <2>1. /\ Lock("sf", d) /\ sequence_wait_' = [sequence_wait_ EXCEPT ![d] = 1]
        /\ UNCHANGED <<drawing, hwc_display_>> /\ call["sf"].at = "validate"
    BY Zenon, <1>11 DEF ValidateLock, SequenceEntry, d
  <2>2. /\ call' \in [Threads -> CallRecord] /\ call'["sf"].at = "validating" /\ call'["sf"].on = d
        /\ \A u \in Threads \ {"sf"} : call'[u] = call[u]
    BY Zenon, <1>1, <1>3, <1>11, Names, GotoMoves DEF ValidateLock, d
  <2>3. mutex[d] = "none"
    BY Zenon, <2>1 DEF Lock, Free
  <2>4. StepOf("sf")
    BY SMTT(30), <1>1, <1>2, <2>1, <2>2, <2>3, Names, LockKeeps DEF StepOf, LockTypes
  <2>5. DrawnInSequence'
    BY Zenon, <1>1, <1>2, <2>1 DEF IInv, DrawnInSequence, LockTypes
  <2>6. SfPlace'
    BY Zenon, <1>1, <1>2, <1>4, <2>1, <2>2 DEF SfPlace, LockTypes
  <2> QED BY Zenon, <2>2, <2>4, <2>5, <2>6, SfKeeps DEF Connects
<1>12. ASSUME NEW ok \in BOOLEAN, ValidateBody(ok) PROVE IInv'
  <2>1. /\ Unlock("sf") /\ UNCHANGED <<sequence_wait_, hwc_display_>> /\ call["sf"].at = "validating"
        /\ drawing' = IF ok THEN drawing \cup {d} ELSE drawing
        /\ IF ok THEN Return("sf") ELSE Goto("sf", "failed")
    BY Zenon, <1>12 DEF ValidateBody, d
  <2>2. CASE ok
    <3>1. /\ call' \in [Threads -> CallRecord] /\ call'["sf"].at = "idle"
          /\ \A u \in Threads \ {"sf"} : call'[u] = call[u]
      BY Zenon, <1>1, <2>1, <2>2, Names, ReturnMoves
    <3>2. StepOf("sf")
      BY Zenon, <1>1, <1>2, <2>1, <2>2, <3>1, Names, UnlockKeeps DEF StepOf, LockTypes
    <3>3. sequence_wait_[d] = 1
      BY Zenon, <2>1 DEF IInv, SfPlace, d
    <3>4. DrawnInSequence'
      BY Zenon, <2>1, <2>2, <3>3 DEF IInv, DrawnInSequence
    <3> QED BY Zenon, <3>1, <3>2, <3>4, SfKeeps DEF SfPlace, Connects
  <2>3. CASE ~ok
    BY Zenon, <1>3, <1>6, <2>1, <2>3
  <2> QED BY Zenon, <2>2, <2>3
<1>13. CASE ValidateBadDisplay
  BY Zenon, <1>3, <1>6, <1>13 DEF ValidateBadDisplay
<1>14. CASE ValidateCancel
  <2>1. /\ call' \in [Threads -> CallRecord] /\ call'["sf"].at = "idle"
        /\ \A u \in Threads \ {"sf"} : call'[u] = call[u]
    BY Zenon, <1>1, <1>14, Names, ReturnMoves DEF ValidateCancel
  <2>2. /\ Free(d) /\ sequence_wait_' = [sequence_wait_ EXCEPT ![d] = -1]
        /\ UNCHANGED <<mutex, hwc_display_, drawing>> /\ d \notin drawing
    BY Zenon, <1>4, <1>14 DEF ValidateCancel, SequenceCancel, d
  <2>3. drawing' \subseteq drawing \ {d}
    BY Zenon, <2>2
  <2> QED BY Zenon, <1>2, <2>1, <2>2, <2>3, SfEndsSequence
<1>15. CASE PresentBody
  <2>1. PICK place \in {"pending", "refused"}, what \in Ops : Start("sf", place, d, what)
    BY Zenon, <1>3, <1>15 DEF PresentBody, d
  <2>2. /\ call' \in [Threads -> CallRecord] /\ call'["sf"].at = place /\ call'["sf"].on = d
        /\ \A u \in Threads \ {"sf"} : call'[u] = call[u]
    BY SMTT(30), <1>1, <1>2, <1>3, <2>1, Names, StartMoves
  <2>3. /\ Free(d) /\ sequence_wait_' = [sequence_wait_ EXCEPT ![d] = 0]
        /\ UNCHANGED <<mutex, hwc_display_>> /\ drawing' = drawing \ {d}
    BY Zenon, <1>15 DEF PresentBody, SequenceExit, d
  <2> QED BY Zenon, <1>2, <2>2, <2>3, SfEndsSequence
<1>16. CASE PresentCancel
  <2>1. /\ call' \in [Threads -> CallRecord] /\ call'["sf"].at = "pending" /\ call'["sf"].on = d
        /\ \A u \in Threads \ {"sf"} : call'[u] = call[u]
    BY Zenon, <1>1, <1>3, <1>16, Names, GotoMoves DEF PresentCancel, d
  <2>2. /\ Free(d) /\ sequence_wait_' = [sequence_wait_ EXCEPT ![d] = -1]
        /\ UNCHANGED <<mutex, hwc_display_, drawing>> /\ d \notin drawing
    BY Zenon, <1>4, <1>16 DEF PresentCancel, SequenceCancel, d
  <2>3. drawing' \subseteq drawing \ {d}
    BY Zenon, <2>2
  <2> QED BY Zenon, <1>2, <2>1, <2>2, <2>3, SfEndsSequence
<1>17. CASE PresentPending
  BY Zenon, <1>3, <1>6, <1>7, <1>17 DEF PresentPending, locks
<1>18. CASE PresentLockE
  BY Zenon, <1>3, <1>6, <1>18 DEF PresentLockE
<1>19. CASE PresentLockV
  <2>1. CASE "virtual" \in hwc_display_
    BY Zenon, <1>3, <1>6, <1>19, <2>1 DEF PresentLockV
  <2>2. CASE "virtual" \notin hwc_display_
    <3>1. /\ Lock("sf", "virtual") /\ Goto("sf", "connect") /\ call["sf"].at = "lock_v"
          /\ UNCHANGED <<sequence_wait_, drawing, hwc_display_>>
      BY Zenon, <1>19, <2>2 DEF PresentLockV
    <3>2. /\ call' \in [Threads -> CallRecord] /\ call'["sf"].at = "connect" /\ call'["sf"].on = d
          /\ \A u \in Threads \ {"sf"} : call'[u] = call[u]
      BY Zenon, <1>1, <1>3, <3>1, Names, GotoMoves DEF d
    <3>3. StepOf("sf") /\ mutex'["virtual"] = "sf"
      BY Zenon, <1>1, <3>1, <3>2, Names, LockKeeps DEF StepOf, LockTypes
    <3>4. DrawnInSequence' /\ SfPlace'
      BY Zenon, <1>4, <3>1, <3>2 DEF IInv, DrawnInSequence, SfPlace
    <3> QED BY Zenon, <2>2, <3>1, <3>3, <3>4, SfKeeps DEF Connects
  <2> QED BY Zenon, <2>1, <2>2
<1>20. ASSUME NEW ok \in BOOLEAN, PresentConnect(ok) PROVE IInv'
  <2>1. "virtual" \in hwc_display_' => "virtual" \in hwc_display_
    BY Zenon, <1>20 DEF PresentConnect, ConnectDisplay
  <2> QED BY Zenon, <1>3, <1>6, <1>20, <2>1 DEF PresentConnect
<1>21. CASE PresentFirstCommit
  BY Zenon, <1>3, <1>6, <1>21 DEF PresentFirstCommit, locks
<1>22. CASE PresentCached
  BY Zenon, <1>3, <1>6, <1>7, <1>22 DEF PresentCached, locks
<1>23. CASE PresentHotPlug
  BY Zenon, <1>7, <1>23 DEF PresentHotPlug, HotPlugTells, locks
<1>24. CASE RegisterCallback
  <2>1. /\ call' \in [Threads -> CallRecord] /\ call'["sf"].at = "registered"
        /\ \A u \in Threads \ {"sf"} : call'[u] = call[u]
    BY Zenon, <1>1, <1>3, <1>24, Names, GotoMoves DEF RegisterCallback
  <2> QED BY Zenon, <1>24, <2>1, SfGoesOn DEF RegisterCallback
<1>25. CASE Registered
  BY Zenon, <1>5, <1>25 DEF Registered, locks
<1>26. CASE Deregister
  BY Zenon, <1>5, <1>26 DEF Deregister
<1>27. CASE ClientDies
  BY Zenon, <1>5, <1>27 DEF ClientDies, SfIdle, locks
<1>28. CASE CreateVirtualDisplay
  BY Zenon, <1>5, <1>28 DEF CreateVirtualDisplay, SfIdle, Free, locks
<1>29. CASE DestroyVirtualDisplay
  BY Zenon, <1>5, <1>29 DEF DestroyVirtualDisplay, locks
<1>30. ASSUME NEW e \in Displays, CallLayerFunction(e) PROVE IInv'
  BY Zenon, <1>5, <1>30 DEF CallLayerFunction, SfIdle, locks
<1> QED BY Zenon, <1>9, <1>10, <1>11, <1>12, <1>13, <1>14, <1>15, <1>16, <1>17, <1>18, <1>19, <1>20,
           <1>21, <1>22, <1>23, <1>24, <1>25, <1>26, <1>27, <1>28, <1>29, <1>30 DEF SfStep

-----------------------------------------------------------------------------
(* What SurfaceFlinger is told of the external display                     *)

ClientRecord ==
  [state : {"new", "running", "dying"}, registered : BOOLEAN, refresh : BOOLEAN,
   external : BOOLEAN, toldBy : {"none", "sf", "uevent"}, died : BOOLEAN,
   orphaned : SUBSET Displays, raced : BOOLEAN]
SessionRecord ==
  [pending_connect : BOOLEAN, pending_hotplug : BOOLEAN, first_commit : BOOLEAN,
   need_invalidate : BOOLEAN, reset_panel : BOOLEAN, bw_unapplied : BOOLEAN]

ViewTypes ==
  /\ client \in ClientRecord
  /\ session \in SessionRecord
  /\ cable \in BOOLEAN
  /\ client.state = "dying" => client.died

(* The branch of HotPlugHandler is the cable's, and notify_hotplug is      *)
(* set on the way; whoever announces has seen first_commit_ set, so        *)
(* SurfaceFlinger knows of no external display before.                     *)
Branches ==
  /\ call["uevent"].at \in {"lock_e", "lock_v", "connect", "refresh", "vsync_period"} => cable
  /\ call["uevent"].at \in {"wait", "woken", "disconnect"} => ~cable
  /\ call["uevent"].at \in {"primary", "lock_e", "lock_v"} => ~call["uevent"].notify
  /\ call["uevent"].at \in {"caching", "hotplug"} => call["uevent"].notify
  /\ call["uevent"].at = "hotplug" => session.first_commit
  /\ call["sf"].at \in {"cached", "hotplug"} => session.first_commit
  /\ client.external => session.first_commit

(* From the removal of the display to the end of the call it stays away,   *)
(* unless a present connects it that had seen the connection pending; and  *)
(* a display whose arrival is yet to be announced is there.                *)
Announcing == {"refresh", "vsync_period", "cache", "caching", "hotplug"}
Removed ==
  call["uevent"].at \in {"cache", "caching", "hotplug"} /\ ~cable /\ ~client.raced
    => "external" \notin hwc_display_ /\ ~session.pending_connect
Arrived ==
  call["uevent"].at \in Announcing /\ call["uevent"].notify /\ cable => "external" \in hwc_display_

(* A display SurfaceFlinger does not know is about to be announced: by a   *)
(* cached announcement, by the present in progress or by the uevent        *)
(* thread...                                                               *)
ToBeTold ==
  \/ session.pending_hotplug
  \/ call["sf"].at \in {"commit", "cached"} /\ call["sf"].notify
  \/ call["sf"].at = "hotplug"
  \/ call["uevent"].at \in Announcing /\ call["uevent"].notify /\ cable

(* ...and the removal of one it knows is about to be announced too, unless *)
(* a present has announced it.                                             *)
ToBeUntold == call["uevent"].at \in {"cache", "hotplug"} /\ call["uevent"].notify /\ ~cable

Settling ==
  ~client.died /\ ~client.raced =>
    /\ "external" \in hwc_display_ => client.external \/ ToBeTold
    /\ client.external /\ "external" \notin hwc_display_ => client.toldBy = "sf" \/ ToBeUntold

ViewInv ==
  /\ ViewTypes
  /\ Branches
  /\ Removed
  /\ Arrived
  /\ Settling

(* What a step that tells SurfaceFlinger nothing leaves alone.             *)
SameView ==
  /\ session'.pending_connect = session.pending_connect
  /\ session'.pending_hotplug = session.pending_hotplug
  /\ session'.first_commit = session.first_commit
  /\ client'.external = client.external
  /\ client'.toldBy = client.toldBy
  /\ client'.died = client.died
  /\ client'.raced = client.raced
  /\ cable' = cable
  /\ "external" \in hwc_display_' <=> "external" \in hwc_display_

(* Asking for a frame is no such step...                                   *)
LEMMA RefreshViews ==
  ASSUME ViewTypes, client' = Refreshed(client) \/ client' = client,
         UNCHANGED <<session, cable>>,
         "external" \in hwc_display_' <=> "external" \in hwc_display_
  PROVE  ViewTypes' /\ SameView
  BY Zenon DEF ViewTypes, SameView, Refreshed, ClientRecord

(* ...so the services' steps keep the view...                              *)
LEMMA OthersView ==
  ASSUME ViewInv, ViewTypes', SameView,
         call'["sf"] = call["sf"], call'["uevent"] = call["uevent"]
  PROVE  ViewInv'
<1>1. Branches' /\ Removed' /\ Arrived'
  BY Zenon DEF ViewInv, SameView, Branches, Removed, Arrived, Announcing
<1>2. Settling'
  BY Zenon DEF ViewInv, SameView, Settling, ToBeTold, ToBeUntold, Announcing
<1> QED BY Zenon, <1>1, <1>2 DEF ViewInv

(* ...and SurfaceFlinger's own outside the end of a present.               *)
LEMMA SfView ==
  ASSUME ViewInv, ViewTypes', SameView, call'["uevent"] = call["uevent"],
         call["sf"].at \notin {"commit", "cached", "hotplug"},
         call'["sf"].at \notin {"cached", "hotplug"}
  PROVE  ViewInv'
<1>1. Branches' /\ Removed' /\ Arrived'
  BY Zenon DEF ViewInv, SameView, Branches, Removed, Arrived, Announcing
<1>2. Settling'
  BY Zenon DEF ViewInv, SameView, Settling, ToBeTold, ToBeUntold, Announcing
<1> QED BY Zenon, <1>1, <1>2 DEF ViewInv

(* Every step of a service.                                                *)
LEMMA ServiceStepView ==
  ASSUME IInv, ViewInv, NEW s \in Services, ServiceStep(s) \/ ServiceCall(s)
  PROVE  ViewInv'
<1>1. s \in Threads /\ s # "sf" /\ s # "uevent"
  BY Zenon, Names
<1>2. call'["sf"] = call["sf"] /\ call'["uevent"] = call["uevent"]
  <2>1. call \in [Threads -> CallRecord]
    BY Zenon DEF IInv, LockTypes
  <2>2. \E r : call' = [call EXCEPT ![s] = r]
    <3>1. ASSUME NEW place, Goto(s, place) PROVE \E r : call' = [call EXCEPT ![s] = r]
      BY Zenon, <3>1 DEF Goto
    <3>2. ASSUME Return(s) PROVE \E r : call' = [call EXCEPT ![s] = r]
      BY Zenon, <3>2 DEF Return
    <3>3. ASSUME NEW place, NEW display, NEW what, Start(s, place, display, what)
          PROVE  \E r : call' = [call EXCEPT ![s] = r]
      BY Zenon, <3>3 DEF Start
    <3> QED BY Zenon, <3>1, <3>2, <3>3 DEF ServiceStep, ServiceCall, ServiceWait, SequenceWait, ServiceQuery,
          SetCameraLaunchStatus, SetActiveConfigIndex, ControlPartialUpdate, SetMaxBandwidthMode,
          ServiceRefresh, ServiceReturns, ServiceTimedWait, CallDisplayFunction, SetColorMode,
          SetColorModeEnds, SetDisplayAnimating
  <2> QED BY SMTT(30), <1>1, <2>1, <2>2
<1>3. ViewTypes' /\ SameView
  <2>1. ASSUME NEW ok \in BOOLEAN, SetMaxBandwidthMode(s, ok) PROVE ViewTypes' /\ SameView
    BY Zenon, <2>1 DEF SetMaxBandwidthMode, ViewInv, ViewTypes, SameView, SessionRecord
  <2>2. ASSUME ~\E ok \in BOOLEAN : SetMaxBandwidthMode(s, ok)
        PROVE  /\ client' = Refreshed(client) \/ client' = client
               /\ UNCHANGED <<session, cable, hwc_display_>>
    BY Zenon, <2>2 DEF ServiceStep, ServiceCall, ServiceWait, ServiceQuery, SetCameraLaunchStatus,
       SetActiveConfigIndex, ControlPartialUpdate, ServiceRefresh, ServiceTimedWait,
       CallDisplayFunction, SetColorMode, SetColorModeEnds, SetDisplayAnimating
  <2> QED BY Zenon, <2>1, <2>2, RefreshViews DEF ViewInv
<1> QED BY Zenon, <1>2, <1>3, OthersView

(* Every step of the uevent thread, the events included.                   *)
LEMMA UEventStepView ==
  ASSUME IInv, ViewInv, UEventStep \/ UEvent \/ PanelDead
  PROVE  ViewInv'
<1>1. call \in [Threads -> CallRecord] /\ "sf" \in Threads /\ "uevent" \in Threads /\ "external" \in Displays
  BY Zenon, Names DEF IInv, LockTypes
<1>2. /\ {"primary", "lock_e", "wait", "woken", "lock_v", "connect", "refresh", "disconnect",
          "vsync_period", "cache", "hotplug", "caching", "panel"} \subseteq Places
      /\ "none" \in Ops
  BY Zenon DEF Places, Ops
<1>3. ViewTypes /\ Branches /\ Removed /\ Arrived /\ Settling
  BY Zenon DEF ViewInv
<1>4. ASSUME NEW place \in Places, Goto("uevent", place)
      PROVE  /\ call'["uevent"].at = place /\ call'["uevent"].notify = call["uevent"].notify
             /\ call'["sf"] = call["sf"]
  BY Zenon, <1>1, <1>4, GotoMoves
<1>5. ASSUME Return("uevent") PROVE call'["uevent"].at = "idle" /\ call'["sf"] = call["sf"]
  BY Zenon, <1>1, <1>5, ReturnMoves
<1>6. ASSUME NEW place \in Places, NEW announce \in BOOLEAN, Decide("uevent", place, announce)
      PROVE  /\ call'["uevent"].at = place /\ call'["uevent"].notify = announce
             /\ call'["sf"] = call["sf"]
  BY ZenonT(60), <1>1, <1>6, DecideMoves
<1>7. ASSUME ViewTypes', SameView, call'["sf"] = call["sf"],
             call["uevent"].at \notin Announcing,
             call'["uevent"].at \notin Announcing,
             call'["uevent"].at \in {"lock_e", "lock_v", "connect"} => cable,
             call'["uevent"].at \in {"wait", "woken", "disconnect"} => ~cable,
             call'["uevent"].at \in {"primary", "lock_e", "lock_v"} => ~call'["uevent"].notify
      PROVE  ViewInv'
  <2>1. Branches' /\ Removed' /\ Arrived'
    BY Zenon, <1>3, <1>7 DEF SameView, Branches, Removed, Arrived, Announcing
  <2>2. Settling'
    BY Zenon, <1>3, <1>7 DEF SameView, Settling, ToBeTold, ToBeUntold, Announcing
  <2> QED BY Zenon, <1>7, <2>1, <2>2 DEF ViewInv
<1>8. ASSUME UNCHANGED <<session, cable, hwc_display_, client>> PROVE ViewTypes' /\ SameView
  BY Zenon, <1>3, <1>8, RefreshViews
<1>9. CASE UEvent
  <2>1. call'["uevent"].at = "primary" /\ ~call'["uevent"].notify /\ call'["sf"] = call["sf"]
    BY ZenonT(60), <1>1, <1>2, <1>9, StartMoves DEF UEvent
  <2>2. call["uevent"].at = "idle" /\ UNCHANGED <<session, client, hwc_display_>>
    BY Zenon, <1>9 DEF UEvent
  <2>3. ViewTypes' /\ Branches' /\ Removed' /\ Arrived'
    BY Zenon, <1>3, <1>9, <2>1, <2>2 DEF UEvent, ViewTypes, Branches, Removed, Arrived, Announcing
  <2>4. Settling'
    BY Zenon, <1>3, <2>1, <2>2 DEF Settling, ToBeTold, ToBeUntold, Announcing
  <2> QED BY Zenon, <2>3, <2>4 DEF ViewInv
<1>10. CASE HotPlugPrimary
  <2>1. PICK place \in {"lock_e", "wait"} : Goto("uevent", place) /\ (place = "lock_e" <=> cable)
    BY Zenon, <1>10 DEF HotPlugPrimary
  <2>2. /\ call["uevent"].at = "primary" /\ call'["uevent"].at = place /\ call'["sf"] = call["sf"]
        /\ ~call'["uevent"].notify /\ UNCHANGED <<session, cable, hwc_display_, client>>
    BY Zenon, <1>2, <1>3, <1>4, <1>10, <2>1 DEF HotPlugPrimary, Branches
  <2> QED BY Zenon, <1>7, <1>8, <2>1, <2>2 DEF Announcing
<1>11. CASE HotPlugLockE
  <2>1. /\ call["uevent"].at = "lock_e" /\ call'["uevent"].at = "lock_v" /\ call'["sf"] = call["sf"]
        /\ ~call'["uevent"].notify /\ UNCHANGED <<session, cable, hwc_display_, client>>
    BY Zenon, <1>2, <1>3, <1>4, <1>11 DEF HotPlugLockE, Branches
  <2> QED BY Zenon, <1>3, <1>7, <1>8, <2>1 DEF Announcing, Branches
<1>12. CASE HotPlugLockV
  <2>1. call["uevent"].at = "lock_v" /\ cable /\ UNCHANGED <<cable, hwc_display_, client>>
    BY Zenon, <1>3, <1>12 DEF HotPlugLockV, Branches
  <2>2. CASE "virtual" \in hwc_display_
    <3>1. /\ session' = [session EXCEPT !.pending_connect = TRUE]
          /\ call'["uevent"].at = "refresh" /\ ~call'["uevent"].notify
          /\ call'["sf"] = call["sf"]
      BY Zenon, <1>2, <1>3, <1>4, <1>12, <2>2 DEF HotPlugLockV, Branches
    <3>2. ViewTypes' /\ session'.pending_hotplug = session.pending_hotplug
            /\ session'.first_commit = session.first_commit
      BY Zenon, <1>3, <2>1, <3>1 DEF ViewTypes, SessionRecord
    <3>3. Branches' /\ Removed' /\ Arrived'
      BY Zenon, <1>3, <2>1, <3>1, <3>2 DEF Branches, Removed, Arrived
    <3>4. Settling'
      BY Zenon, <1>3, <2>1, <3>1, <3>2 DEF Settling, ToBeTold, ToBeUntold, Announcing
    <3> QED BY Zenon, <3>2, <3>3, <3>4 DEF ViewInv
  <2>3. CASE "virtual" \notin hwc_display_
    <3>1. UNCHANGED session /\ call'["uevent"].at = "connect" /\ call'["sf"] = call["sf"]
      BY Zenon, <1>2, <1>4, <1>12, <2>3 DEF HotPlugLockV
    <3> QED BY Zenon, <1>7, <1>8, <2>1, <3>1 DEF Announcing
  <2> QED BY Zenon, <2>2, <2>3
<1>13. ASSUME NEW ok \in BOOLEAN, HotPlugConnect(ok) PROVE ViewInv'
  <2>1. /\ call["uevent"].at = "connect" /\ cable /\ UNCHANGED <<session, cable, client>>
    BY Zenon, <1>3, <1>13 DEF HotPlugConnect, Branches
  <2>2. CASE ok
    <3>1. /\ "external" \in hwc_display_' /\ call'["uevent"].at = "refresh" /\ call'["uevent"].notify
          /\ call'["sf"] = call["sf"]
      BY Zenon, <1>2, <1>6, <1>13, <2>2 DEF HotPlugConnect, ConnectDisplay
    <3>2. ViewTypes' /\ Branches' /\ Removed' /\ Arrived'
      BY Zenon, <1>3, <2>1, <3>1 DEF ViewTypes, Branches, Removed, Arrived
    <3>3. Settling'
      BY Zenon, <2>1, <3>1 DEF Settling, ToBeTold, Announcing
    <3> QED BY Zenon, <3>2, <3>3 DEF ViewInv
  <2>3. CASE ~ok
    <3>1. UNCHANGED hwc_display_ /\ call'["uevent"].at = "idle" /\ call'["sf"] = call["sf"]
      BY Zenon, <1>5, <1>13, <2>3 DEF HotPlugConnect, ConnectDisplay
    <3> QED BY Zenon, <1>7, <1>8, <2>1, <3>1 DEF Announcing
  <2> QED BY Zenon, <2>2, <2>3
<1>14. CASE HotPlugWait
  <2>1. PICK place \in {"woken", "disconnect"} : Goto("uevent", place)
    BY Zenon, <1>14 DEF HotPlugWait, SequenceWait
  <2>2. /\ call["uevent"].at \in {"wait", "woken"} /\ call'["uevent"].at = place /\ call'["sf"] = call["sf"]
        /\ ~cable /\ UNCHANGED <<session, cable, hwc_display_, client>>
    BY Zenon, <1>2, <1>3, <1>4, <1>14, <2>1 DEF HotPlugWait, Branches
  <2> QED BY Zenon, <1>7, <1>8, <2>2 DEF Announcing
<1>15. CASE HotPlugDisconnect
  <2> DEFINE was == "external" \in hwc_display_
  <2>1. /\ call["uevent"].at = "disconnect" /\ ~cable /\ UNCHANGED <<cable, client>>
        /\ "external" \notin hwc_display_' /\ session' = [session EXCEPT !.pending_connect = FALSE]
        /\ Decide("uevent", "cache", was) /\ was \in BOOLEAN
    BY SMTT(30), <1>3, <1>15 DEF HotPlugDisconnect, Branches
  <2> HIDE DEF was
  <2>2. /\ call'["uevent"].at = "cache" /\ call'["uevent"].notify = was /\ call'["sf"] = call["sf"]
    BY Zenon, <1>2, <1>6, <2>1
  <2>3. ViewTypes' /\ session'.pending_connect = FALSE /\ session'.first_commit = session.first_commit
    BY Zenon, <1>3, <2>1 DEF ViewTypes, SessionRecord
  <2>4. Branches' /\ Removed' /\ Arrived'
    BY Zenon, <1>3, <2>1, <2>2, <2>3 DEF Branches, Removed, Arrived
  <2>5. Settling'
    BY Zenon, <1>3, <2>1, <2>2 DEF Settling, ToBeUntold, was
  <2> QED BY Zenon, <2>3, <2>4, <2>5 DEF ViewInv
<1>16. CASE HotPlugRefresh \/ HotPlugVsyncPeriod
  <2>1. /\ call["uevent"].at \in {"refresh", "vsync_period"} /\ call'["uevent"].at \in {"vsync_period", "cache"}
        /\ call'["uevent"].notify = call["uevent"].notify /\ call'["sf"] = call["sf"] /\ cable
    BY Zenon, <1>2, <1>3, <1>4, <1>16 DEF HotPlugRefresh, HotPlugVsyncPeriod, Branches
  <2>2. ViewTypes' /\ SameView
    BY Zenon, <1>3, <1>16, RefreshViews DEF HotPlugRefresh, HotPlugVsyncPeriod
  <2>3. Branches' /\ Removed' /\ Arrived'
    BY Zenon, <1>3, <2>1, <2>2 DEF SameView, Branches, Removed, Arrived, Announcing
  <2>4. Settling'
    BY Zenon, <1>3, <2>1, <2>2 DEF SameView, Settling, ToBeTold, ToBeUntold, Announcing
  <2> QED BY Zenon, <2>2, <2>3, <2>4 DEF ViewInv
<1>17. CASE HotPlugCache
  <2>1. call["uevent"].at = "cache" /\ ViewTypes' /\ SameView
    BY Zenon, <1>8, <1>17 DEF HotPlugCache
  <2>2. CASE ~call["uevent"].notify
    <3>1. call'["uevent"].at = "idle" /\ call'["sf"] = call["sf"]
      BY Zenon, <1>5, <1>17, <2>2 DEF HotPlugCache
    <3>2. Branches' /\ Removed' /\ Arrived'
      BY Zenon, <1>3, <2>1, <3>1 DEF SameView, Branches, Removed, Arrived, Announcing
    <3>3. Settling'
      BY Zenon, <1>3, <2>1, <2>2, <3>1 DEF SameView, Settling, ToBeTold, ToBeUntold, Announcing
    <3> QED BY Zenon, <2>1, <3>2, <3>3 DEF ViewInv
  <2>3. CASE call["uevent"].notify
    <3>1. /\ call'["uevent"].at = IF session.first_commit THEN "hotplug" ELSE "caching"
          /\ call'["uevent"].notify /\ call'["sf"] = call["sf"]
      BY Zenon, <1>2, <1>4, <1>17, <2>3 DEF HotPlugCache
    <3>2. Branches' /\ Removed' /\ Arrived'
      BY Zenon, <1>3, <2>1, <2>3, <3>1 DEF SameView, Branches, Removed, Arrived, Announcing
    <3>3. Settling'
      BY Zenon, <1>3, <2>1, <2>3, <3>1 DEF SameView, Settling, ToBeTold, ToBeUntold, Announcing, Branches
    <3> QED BY Zenon, <2>1, <3>2, <3>3 DEF ViewInv
  <2> QED BY Zenon, <2>2, <2>3
<1>18. CASE HotPlugCaching
  <2>1. /\ call["uevent"].at = "caching" /\ session' = [session EXCEPT !.pending_hotplug = cable]
        /\ UNCHANGED <<cable, client, hwc_display_>>
        /\ call'["uevent"].at = "idle" /\ call'["sf"] = call["sf"]
    BY Zenon, <1>5, <1>18 DEF HotPlugCaching
  <2>2. /\ ViewTypes' /\ session'.pending_hotplug = cable /\ session'.first_commit = session.first_commit
        /\ session'.pending_connect = session.pending_connect
    BY Zenon, <1>3, <2>1 DEF ViewTypes, SessionRecord
  <2>3. Branches' /\ Removed' /\ Arrived'
    BY Zenon, <1>3, <2>1, <2>2 DEF Branches, Removed, Arrived, Announcing
  <2>4. Settling'
    BY Zenon, <1>3, <2>1, <2>2 DEF Settling, ToBeTold, ToBeUntold, Announcing, Removed
  <2> QED BY Zenon, <2>2, <2>3, <2>4 DEF ViewInv
<1>19. CASE HotPlugTell
  <2>1. CASE HotPlugWaits("uevent")
    <3>1. call' = call /\ ViewTypes' /\ SameView
      BY Zenon, <1>8, <1>19, <2>1 DEF HotPlugTell, HotPlugTells, HotPlugWaits
    <3> QED BY Zenon, <3>1, OthersView
  <2>2. CASE HotPlugTells("uevent", cable)
    <3>1. /\ call["uevent"].at = "hotplug" /\ UNCHANGED <<session, cable, hwc_display_>>
          /\ call'["uevent"].at = "idle" /\ call'["sf"] = call["sf"]
          /\ client' = [client EXCEPT !.external = cable, !.toldBy = "uevent"]
      BY Zenon, <1>5, <1>19, <2>2 DEF HotPlugTell, HotPlugTells, HotPlugWaits
    <3>2. /\ ViewTypes' /\ client'.external = cable
          /\ client'.died = client.died /\ client'.raced = client.raced
      BY Zenon, <1>3, <3>1 DEF ViewTypes, ClientRecord
    <3>3. Branches' /\ Removed' /\ Arrived'
      BY Zenon, <1>3, <3>1, <3>2 DEF Branches, Removed, Arrived, Announcing
    <3>4. Settling'
      BY Zenon, <1>3, <3>1, <3>2 DEF Settling, Branches, Removed, Arrived, Announcing
    <3> QED BY Zenon, <3>2, <3>3, <3>4 DEF ViewInv
  <2> QED BY Zenon, <1>19, <2>1, <2>2 DEF HotPlugTell
<1>20. CASE PanelDead
  <2>1. /\ call["uevent"].at = "idle" /\ call'["uevent"].at = "panel" /\ call'["sf"] = call["sf"]
        /\ ViewTypes' /\ SameView
    BY Zenon, <1>2, <1>3, <1>4, <1>20, RefreshViews DEF PanelDead
  <2> QED BY Zenon, <1>7, <2>1 DEF Announcing
<1>21. CASE PanelReset
  <2>1. /\ call["uevent"].at = "panel" /\ call'["uevent"].at = "idle" /\ call'["sf"] = call["sf"]
        /\ session' = [session EXCEPT !.reset_panel = TRUE] /\ UNCHANGED <<cable, hwc_display_, client>>
    BY Zenon, <1>5, <1>21 DEF PanelReset
  <2>2. ViewTypes' /\ SameView
    BY Zenon, <1>3, <2>1 DEF ViewTypes, SameView, SessionRecord
  <2> QED BY Zenon, <1>7, <2>1, <2>2 DEF Announcing
<1> QED BY Zenon, <1>9, <1>10, <1>11, <1>12, <1>13, <1>14, <1>15, <1>16, <1>17, <1>18, <1>19, <1>20, <1>21
        DEF UEventStep

(* Every step of SurfaceFlinger and of the composer service for it.        *)
LEMMA SfStepView ==
  ASSUME IInv, ViewInv,
         \/ SfStep \/ CreateVirtualDisplay \/ DestroyVirtualDisplay \/ ClientDies
         \/ \E d \in Displays : OwnFrame(d) \/ CallLayerFunction(d)
  PROVE  ViewInv'
<1>1. call \in [Threads -> CallRecord] /\ "sf" \in Threads /\ "uevent" \in Threads /\ call["sf"].on \in Displays
  BY Zenon, Names DEF IInv, LockTypes, CallRecord
<1>2. /\ {"validate", "present", "validating", "failed", "refused", "pending", "lock_e", "lock_v",
          "connect", "commit", "cached", "hotplug", "registered"} \subseteq Places
      /\ {"none", "first", "second", "revalidate"} \subseteq Ops
  BY Zenon DEF Places, Ops
<1>3. ViewTypes /\ Branches /\ Removed /\ Arrived /\ Settling
  BY Zenon DEF ViewInv
<1>4. ASSUME NEW place \in Places, Goto("sf", place)
      PROVE  /\ call'["sf"].at = place /\ call'["sf"].notify = call["sf"].notify
             /\ call'["uevent"] = call["uevent"]
  BY Zenon, <1>1, <1>4, GotoMoves
<1>5. ASSUME Return("sf") PROVE call'["sf"].at = "idle" /\ call'["uevent"] = call["uevent"]
  BY Zenon, <1>1, <1>5, ReturnMoves
<1>6. ASSUME PresentReturns
      PROVE  call'["sf"].at \in {"idle", "validate"} /\ call'["uevent"] = call["uevent"]
  BY Zenon, <1>1, <1>6, PresentReturnsMoves
<1>7. ASSUME NEW place \in Places, NEW d \in Displays, NEW what \in Ops, Start("sf", place, d, what)
      PROVE  call'["sf"].at = place /\ call'["uevent"] = call["uevent"]
  BY Zenon, <1>1, <1>7, StartMoves
<1>8. ASSUME UNCHANGED <<session, cable, client>>,
             "external" \in hwc_display_' <=> "external" \in hwc_display_
      PROVE  ViewTypes' /\ SameView
  BY Zenon, <1>3, <1>8, RefreshViews
<1>9. ASSUME NEW d \in Displays, SfIdle, BeginFrame(d) PROVE ViewInv'
  <2>1. /\ call["sf"].at = "idle" /\ call'["sf"].at \in {"validate", "present"} /\ call'["uevent"] = call["uevent"]
    BY Zenon, <1>2, <1>7, <1>9 DEF BeginFrame, SfIdle
  <2>2. ViewTypes' /\ SameView
    BY Zenon, <1>3, <1>9 DEF BeginFrame, ViewTypes, SameView, ClientRecord
  <2> QED BY Zenon, <2>1, <2>2, SfView
<1>10. CASE RefreshFrame \/ \E d \in Displays : OwnFrame(d)
  BY Zenon, <1>9, <1>10, Names DEF RefreshFrame, OwnFrame
<1>11. ASSUME NEW d \in Displays, FinishFrame(d) PROVE ViewInv'
  <2>1. /\ call["sf"].at = "idle" /\ call'["sf"].at = "present" /\ call'["uevent"] = call["uevent"]
    BY Zenon, <1>2, <1>7, <1>11 DEF FinishFrame, SfIdle
  <2> QED BY Zenon, <1>8, <1>11, <2>1, SfView DEF FinishFrame
<1>12. CASE ValidateLock \/ ValidateBadDisplay \/ ValidateCancel
  <2>1. /\ call["sf"].at \in {"validate", "validating", "failed"}
        /\ call'["sf"].at \in {"validating", "failed", "idle"} /\ call'["uevent"] = call["uevent"]
    BY Zenon, <1>2, <1>4, <1>5, <1>12 DEF ValidateLock, ValidateBadDisplay, ValidateCancel
  <2>2. ViewTypes' /\ SameView
    BY Zenon, <1>8, <1>12 DEF ValidateLock, ValidateBadDisplay, ValidateCancel
  <2> QED BY Zenon, <2>1, <2>2, SfView
<1>13. ASSUME NEW ok \in BOOLEAN, ValidateBody(ok) PROVE ViewInv'
  <2>1. /\ call["sf"].at = "validating" /\ call'["sf"].at \in {"failed", "idle"} /\ call'["uevent"] = call["uevent"]
    BY Zenon, <1>2, <1>4, <1>5, <1>13 DEF ValidateBody
  <2>2. /\ client' = Refreshed(client) \/ client' = client
        /\ \/ session' = session
           \/ session' = [session EXCEPT !.reset_panel = FALSE, !.need_invalidate = FALSE,
                                         !.bw_unapplied = FALSE]
        /\ UNCHANGED <<cable, hwc_display_>>
    BY Zenon, <1>13 DEF ValidateBody
  <2>3. ViewTypes' /\ SameView
    BY ZenonT(60), <1>3, <2>2 DEF ViewTypes, SameView, Refreshed, ClientRecord, SessionRecord
  <2> QED BY Zenon, <2>1, <2>3, SfView
<1>14. CASE PresentBody
  <2>1. PICK place \in {"pending", "refused"}, what \in Ops : Start("sf", place, call["sf"].on, what)
    BY Zenon, <1>2, <1>14 DEF PresentBody
  <2>2. call["sf"].at = "present" /\ call'["sf"].at = place /\ call'["uevent"] = call["uevent"]
    BY Zenon, <1>1, <1>2, <1>7, <1>14, <2>1 DEF PresentBody
  <2> QED BY Zenon, <1>8, <1>14, <2>2, SfView DEF PresentBody
<1>15. CASE PresentCancel \/ PresentLockE \/ PresentLockV
  <2>1. /\ call["sf"].at \in {"refused", "lock_e", "lock_v"}
        /\ call'["sf"].at \in {"pending", "lock_v", "commit", "connect"} /\ call'["uevent"] = call["uevent"]
    BY Zenon, <1>2, <1>4, <1>15 DEF PresentCancel, PresentLockE, PresentLockV
  <2>2. ViewTypes' /\ SameView
    BY Zenon, <1>8, <1>15 DEF PresentCancel, PresentLockE, PresentLockV
  <2> QED BY Zenon, <2>1, <2>2, SfView
<1>16. CASE PresentPending
  <2>1. call["sf"].at = "pending" /\ ViewTypes' /\ SameView
    BY Zenon, <1>8, <1>16 DEF PresentPending
  <2>2. call'["sf"].at \in {"idle", "validate", "lock_e", "commit"} /\ call'["uevent"] = call["uevent"]
    BY Zenon, <1>2, <1>4, <1>6, <1>16 DEF PresentPending
  <2> QED BY Zenon, <2>1, <2>2, SfView
<1>17. ASSUME NEW ok \in BOOLEAN, PresentConnect(ok) PROVE ViewInv'
  <2>1. /\ call["sf"].at = "connect" /\ call'["sf"].at = "commit" /\ call'["sf"].notify
        /\ call'["uevent"] = call["uevent"]
    BY ZenonT(60), <1>1, <1>2, <1>17, DecideMoves DEF PresentConnect
  <2>2. /\ session' = [session EXCEPT !.pending_connect = FALSE] /\ UNCHANGED cable
        /\ client' = [client EXCEPT !.raced = client.raced \/ ~session.pending_connect]
        /\ "external" \in hwc_display_ => "external" \in hwc_display_'
    BY Zenon, <1>17 DEF PresentConnect, ConnectDisplay
  <2>3. /\ session'.pending_hotplug = session.pending_hotplug /\ ~session'.pending_connect
        /\ session'.first_commit = session.first_commit /\ session' \in SessionRecord
    BY Zenon, <1>3, <2>2 DEF ViewTypes, SessionRecord
  <2>4. /\ client'.external = client.external /\ client'.toldBy = client.toldBy
        /\ client'.died = client.died /\ client'.state = client.state
        /\ client'.raced <=> client.raced \/ ~session.pending_connect
        /\ client' \in ClientRecord
    BY Zenon, <1>3, <2>2 DEF ViewTypes, ClientRecord
  <2>5. ViewTypes' /\ Branches' /\ Arrived'
    BY Zenon, <1>3, <2>1, <2>2, <2>3, <2>4 DEF ViewTypes, Branches, Arrived
  <2>6. Removed'
    BY Zenon, <1>3, <2>1, <2>2, <2>3, <2>4 DEF Removed
  <2>7. Settling'
    BY Zenon, <1>3, <2>1, <2>2, <2>3, <2>4 DEF Settling, ToBeTold, ToBeUntold, Announcing
  <2> QED BY Zenon, <2>5, <2>6, <2>7 DEF ViewInv
<1>18. CASE PresentFirstCommit
  <2>1. /\ call["sf"].at = "commit" /\ call'["sf"].at = "cached" /\ call'["sf"].notify = call["sf"].notify
        /\ call'["uevent"] = call["uevent"] /\ UNCHANGED <<cable, client, hwc_display_>>
        /\ session' = [session EXCEPT !.first_commit = TRUE]
    BY Zenon, <1>2, <1>4, <1>18 DEF PresentFirstCommit
  <2>2. /\ ViewTypes' /\ session'.first_commit /\ session'.pending_hotplug = session.pending_hotplug
        /\ session'.pending_connect = session.pending_connect
    BY Zenon, <1>3, <2>1 DEF ViewTypes, SessionRecord
  <2>3. Branches' /\ Removed' /\ Arrived'
    BY Zenon, <1>3, <2>1, <2>2 DEF Branches, Removed, Arrived
  <2>4. Settling'
    BY Zenon, <1>3, <2>1, <2>2 DEF Settling, ToBeTold, ToBeUntold
  <2> QED BY Zenon, <2>2, <2>3, <2>4 DEF ViewInv
<1>19. CASE PresentCached
  <2>1. /\ call["sf"].at = "cached" /\ UNCHANGED <<cable, client, hwc_display_>>
        /\ session' = [session EXCEPT !.pending_hotplug = FALSE]
    BY Zenon, <1>19 DEF PresentCached
  <2>2. /\ ViewTypes' /\ session'.first_commit = session.first_commit /\ ~session'.pending_hotplug
        /\ session'.pending_connect = session.pending_connect
    BY Zenon, <1>3, <2>1 DEF ViewTypes, SessionRecord
  <2>3. /\ call'["sf"].at \in {"hotplug", "idle", "validate"} /\ call'["uevent"] = call["uevent"]
        /\ call["sf"].notify \/ session.pending_hotplug => call'["sf"].at = "hotplug"
    BY Zenon, <1>2, <1>4, <1>6, <1>19 DEF PresentCached
  <2>4. Branches' /\ Removed' /\ Arrived'
    BY Zenon, <1>3, <2>1, <2>2, <2>3 DEF Branches, Removed, Arrived
  <2>5. Settling'
    BY Zenon, <1>3, <2>1, <2>2, <2>3 DEF Settling, ToBeTold, ToBeUntold
  <2> QED BY Zenon, <2>2, <2>4, <2>5 DEF ViewInv
<1>20. CASE PresentHotPlug
  <2>1. /\ call["sf"].at = "hotplug" /\ UNCHANGED <<session, cable, hwc_display_>>
        /\ client' = [client EXCEPT !.external = TRUE, !.toldBy = "sf"]
        /\ call'["sf"].at \in {"idle", "validate"} /\ call'["uevent"] = call["uevent"]
    BY Zenon, <1>6, <1>20 DEF PresentHotPlug, HotPlugTells
  <2>2. /\ ViewTypes' /\ client'.external /\ client'.toldBy = "sf"
        /\ client'.died = client.died /\ client'.raced = client.raced
    BY Zenon, <1>3, <2>1 DEF ViewTypes, ClientRecord
  <2>3. Branches' /\ Removed' /\ Arrived'
    BY Zenon, <1>3, <2>1, <2>2 DEF Branches, Removed, Arrived
  <2>4. Settling'
    BY Zenon, <2>2 DEF Settling
  <2> QED BY Zenon, <2>2, <2>3, <2>4 DEF ViewInv
<1>21. CASE RegisterCallback \/ Registered
  <2>1. /\ call["sf"].at \in {"idle", "registered"} /\ call'["sf"].at \in {"registered", "idle"}
        /\ call'["uevent"] = call["uevent"]
    BY Zenon, <1>2, <1>4, <1>5, <1>21 DEF RegisterCallback, Registered
  <2>2. ViewTypes' /\ SameView
    <3>1. CASE RegisterCallback
      BY Zenon, <1>3, <3>1 DEF RegisterCallback, ViewTypes, SameView, ClientRecord
    <3>2. CASE Registered
      BY Zenon, <1>3, <3>2 DEF Registered, ViewTypes, SameView, ClientRecord, SessionRecord
    <3> QED BY Zenon, <1>21, <3>1, <3>2
  <2> QED BY Zenon, <2>1, <2>2, SfView
<1>22. ASSUME call["sf"].at = "idle", UNCHANGED <<call, cable, hwc_display_>>,
              ViewTypes', client'.died, session'.first_commit = session.first_commit,
              session'.pending_connect = session.pending_connect,
              client'.raced = client.raced, client'.external => client.external
       PROVE  ViewInv'
  <2>1. Branches' /\ Removed' /\ Arrived'
    BY Zenon, <1>3, <1>22 DEF Branches, Removed, Arrived
  <2>2. Settling'
    BY Zenon, <1>22 DEF Settling
  <2> QED BY Zenon, <1>22, <2>1, <2>2 DEF ViewInv
<1>23. CASE Deregister
  <2>1. /\ call["sf"].at = "idle" /\ client.died /\ UNCHANGED <<call, cable, hwc_display_>>
        /\ client' = [client EXCEPT !.state = "new", !.registered = FALSE,
                                    !.refresh = FALSE, !.external = FALSE, !.toldBy = "none"]
        /\ session' = [session EXCEPT !.need_invalidate = FALSE]
    BY Zenon, <1>3, <1>23 DEF Deregister, ViewTypes
  <2>2. /\ client' \in ClientRecord /\ client'.died /\ client'.raced = client.raced
        /\ ~client'.external
    BY Zenon, <1>3, <2>1 DEF ViewTypes, ClientRecord
  <2>3. /\ session' \in SessionRecord /\ session'.first_commit = session.first_commit
        /\ session'.pending_connect = session.pending_connect
    BY Zenon, <1>3, <2>1 DEF ViewTypes, SessionRecord
  <2>4. ViewTypes'
    BY Zenon, <1>3, <2>1, <2>2, <2>3 DEF ViewTypes
  <2> QED BY Zenon, <1>22, <2>1, <2>2, <2>3, <2>4
<1>24. CASE ClientDies
  <2>1. /\ call["sf"].at = "idle" /\ UNCHANGED <<call, cable, hwc_display_, session>>
        /\ client' = [client EXCEPT !.state = "dying", !.died = TRUE,
                                    !.orphaned = client.orphaned \cup drawing]
        /\ drawing \subseteq Displays
    BY Zenon, <1>24 DEF ClientDies, SfIdle, IInv, LockTypes
  <2>2. /\ client' \in ClientRecord /\ client'.died /\ client'.raced = client.raced
        /\ client'.external = client.external
    BY Zenon, <1>3, <2>1 DEF ViewTypes, ClientRecord
  <2>3. ViewTypes'
    BY Zenon, <1>3, <2>1, <2>2 DEF ViewTypes
  <2> QED BY Zenon, <1>22, <2>1, <2>2, <2>3
<1>25. CASE CreateVirtualDisplay \/ DestroyVirtualDisplay \/ \E d \in Displays : CallLayerFunction(d)
  <2>1. /\ call["sf"].at = "idle" /\ UNCHANGED <<call, cable, session, client>>
        /\ "external" \in hwc_display_' <=> "external" \in hwc_display_
    BY Zenon, <1>25 DEF CreateVirtualDisplay, DestroyVirtualDisplay, CallLayerFunction, SfIdle
  <2> QED BY Zenon, <1>8, <2>1, SfView
<1> QED BY Zenon, <1>10, <1>11, <1>12, <1>13, <1>14, <1>15, <1>16, <1>17, <1>18, <1>19, <1>20, <1>21,
           <1>23, <1>24, <1>25 DEF SfStep

-----------------------------------------------------------------------------
(* The theorems                                                            *)

(* The invariant holds of every state of every run of the session.         *)
THEOREM Inductive == Spec => []IInv
<1>1. Init => IInv
  BY SMTT(30), Names DEF Init, IInv, LockTypes, CallRecord, Idle, Places, Ops, DrawnInSequence,
     ServicesHold, ServiceHolds, RemoverHolds, SfPlace, ConnectorsHold, Connects
<1>2. IInv /\ [Next]_vars => IInv'
  <2> SUFFICES ASSUME IInv, [Next]_vars PROVE IInv'
    BY Zenon
  <2>1. CASE SfStep \/ UEventStep \/ (\E s \in Services : ServiceStep(s))
    BY Zenon, <2>1, SfStepKeeps, UEventStepKeeps, ServiceStepKeeps
  <2>2. CASE Environment
    BY Zenon, <2>2, SfStepKeeps, UEventStepKeeps, ServiceStepKeeps DEF Environment
  <2>3. CASE UNCHANGED vars
    BY Zenon, <2>3 DEF vars, locks, IInv, LockTypes, DrawnInSequence, ServicesHold, ServiceHolds,
       RemoverHolds, SfPlace, ConnectorsHold, Connects
  <2> QED BY Zenon, <2>1, <2>2, <2>3 DEF Next
<1> QED BY <1>1, <1>2, PTL DEF Spec

(* While a service call that takes its display's Locker with               *)
(* SEQUENCE_WAIT_SCOPE_LOCK, or the removal of the external display, works *)
(* under it, SurfaceFlinger is not between its validate and its present of *)
(* that display.  SetColorModeOverride and setDisplayAnimating take the    *)
(* mutex alone, may work there, and do not disturb this for the others.    *)
THEOREM SequenceTheorem == Spec => []SequenceUndisturbed
<1>1. IInv => SequenceUndisturbed
  <2> SUFFICES ASSUME IInv, NEW t \in Threads, NEW d \in Displays, Working(t, d)
               PROVE  sequence_wait_[d] # 1
    BY Zenon DEF SequenceUndisturbed, IInv, DrawnInSequence
  <2> QED BY Zenon DEF Working, IInv, ServicesHold, ServiceHolds, RemoverHolds
<1> QED BY <1>1, Inductive, PTL

(* No step of either thread creates the external display while a virtual   *)
(* one exists: HotPlugHandler and PresentDisplay decide under its mutex.   *)
THEOREM YieldTheorem == Spec => ExternalYieldsToVirtual
<1> DEFINE Yields == "external" \in hwc_display_' \ hwc_display_
                       => "virtual" \notin hwc_display_ \cup hwc_display_'
<1>1. IInv /\ [Next]_vars => [Yields]_vars
  <2> SUFFICES ASSUME IInv, Next, "external" \in hwc_display_' \ hwc_display_
               PROVE  "virtual" \notin hwc_display_ \cup hwc_display_'
    BY Zenon
  <2>1. \E ok \in BOOLEAN : PresentConnect(ok) \/ HotPlugConnect(ok)
    <3>1. CASE \E s \in Services : ServiceStep(s) \/ ServiceCall(s)
      BY Zenon, <3>1 DEF ServiceStep, ServiceCall, ServiceWait, ServiceQuery, SetCameraLaunchStatus,
         SetActiveConfigIndex, ControlPartialUpdate, SetMaxBandwidthMode, ServiceRefresh,
         ServiceTimedWait, CallDisplayFunction, SetColorMode, SetColorModeEnds, SetDisplayAnimating
    <3>2. CASE UEventStep \/ UEvent \/ PanelDead
      BY Zenon, <3>2 DEF UEventStep, UEvent, PanelDead, HotPlugPrimary, HotPlugLockE, HotPlugLockV,
         HotPlugWait, HotPlugDisconnect, HotPlugRefresh, HotPlugVsyncPeriod, HotPlugCache,
         HotPlugCaching, HotPlugTell, PanelReset
    <3>3. CASE SfStep
      BY Zenon, <3>3 DEF SfStep, RefreshFrame, BeginFrame, FinishFrame, ValidateLock, ValidateBody,
         ValidateBadDisplay, ValidateCancel, PresentBody, PresentCancel, PresentPending,
         PresentLockE, PresentLockV, PresentFirstCommit, PresentCached, PresentHotPlug,
         RegisterCallback, Registered, Deregister, DestroyVirtualDisplay
    <3>4. CASE \/ CreateVirtualDisplay \/ DestroyVirtualDisplay \/ ClientDies
               \/ \E d \in Displays : OwnFrame(d) \/ CallLayerFunction(d)
      BY SMTT(30), <3>4 DEF CreateVirtualDisplay, DestroyVirtualDisplay, ClientDies, OwnFrame, BeginFrame,
         CallLayerFunction
    <3> QED BY Zenon, <3>1, <3>2, <3>3, <3>4 DEF Next, Environment
  <2>2. ASSUME NEW ok \in BOOLEAN, PresentConnect(ok)
        PROVE  "virtual" \notin hwc_display_ \cup hwc_display_'
    BY Zenon, <2>2 DEF PresentConnect, ConnectDisplay, IInv, ConnectorsHold, Connects
  <2>3. ASSUME NEW ok \in BOOLEAN, HotPlugConnect(ok)
        PROVE  "virtual" \notin hwc_display_ \cup hwc_display_'
    BY Zenon, <2>3 DEF HotPlugConnect, ConnectDisplay, IInv, ConnectorsHold, Connects
  <2> QED BY Zenon, <2>1, <2>2, <2>3
<1> QED BY <1>1, Inductive, PTL DEF Spec, ExternalYieldsToVirtual

(* Whatever the three kinds of thread do, once SurfaceFlinger and the      *)
(* uevent thread are at rest SurfaceFlinger has been told of the external  *)
(* display the session has; one announced and not there was announced by a *)
(* PresentDisplay that had decided before the removal.                     *)
THEOREM ViewTheorem == Spec => []ViewSettled
<1>1. Init => ViewInv
  <2> SUFFICES ASSUME Init PROVE ViewInv
    BY Zenon
  <2>1. call["sf"].at = "idle" /\ call["uevent"].at = "idle"
    BY Zenon, Names DEF Init, Idle
  <2>2. ViewTypes /\ ~client.external /\ "external" \notin hwc_display_
    BY Zenon DEF Init, ViewTypes, ClientRecord, SessionRecord
  <2> QED BY Zenon, <2>1, <2>2 DEF ViewInv, Branches, Removed, Arrived, Announcing, Settling
<1>2. IInv /\ ViewInv /\ [Next]_vars => ViewInv'
  <2> SUFFICES ASSUME IInv, ViewInv, [Next]_vars PROVE ViewInv'
    BY Zenon
  <2>1. CASE SfStep \/ UEventStep \/ (\E s \in Services : ServiceStep(s))
    BY Zenon, <2>1, SfStepView, UEventStepView, ServiceStepView
  <2>2. CASE Environment
    BY Zenon, <2>2, SfStepView, UEventStepView, ServiceStepView DEF Environment
  <2>3. CASE UNCHANGED vars
    BY Zenon, <2>3, RefreshViews, OthersView DEF vars, ViewInv
  <2> QED BY Zenon, <2>1, <2>2, <2>3 DEF Next
<1>3. ViewInv => ViewSettled
  BY Zenon DEF ViewInv, ViewSettled, Settling, ToBeTold, ToBeUntold, Announcing, SfIdle
<1> QED BY <1>1, <1>2, <1>3, Inductive, PTL DEF Spec

=============================================================================
