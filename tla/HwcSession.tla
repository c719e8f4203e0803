----------------------------- MODULE HwcSession -----------------------------
(***************************************************************************)
(* The threads of the hardware composer process and the locks between      *)
(* them: SurfaceFlinger's calls into HWCSession (hwc2/hwc_session.cpp),    *)
(* the uevent thread that plugs and unplugs the external display, and the  *)
(* binder threads of the display services (hwc2/hwc_session_services.cpp). *)
(* A display's Locker (utils/locker.h) is a mutex, a condition variable    *)
(* and sequence_wait_, which keeps the services that wait for it out while *)
(* SurfaceFlinger is between its validate and its present of that display; *)
(* two services take the mutex alone.                                      *)
(*                                                                         *)
(* A step ends where another thread can see the difference: at an access   *)
(* to an unlocked flag, and at a lock that is taken while another is held. *)
(* A region under one lock is one step.  The callback lock guards no       *)
(* region that takes another lock, so only its condition variable appears. *)
(* The panel is the primary display (hdmi_is_primary_ is false).           *)
(***************************************************************************)
EXTENDS Integers, FiniteSets

CONSTANTS Services,  \* the binder threads
          Budgets    \* bounds on how often the environment does each thing

Displays == {"primary", "external", "virtual"}
Threads == {"sf", "uevent"} \cup Services

ASSUME ServicesAssumption == Services \cap ({"sf", "uevent", "none"} \cup Displays) = {}

VARIABLES mutex,          \* Locker::mutex_: the thread that holds it
          sequence_wait_, \* Locker::sequence_wait_
          waiting,        \* the locker whose condition a thread waits for
          call,           \* each thread's call: where it is, on which display, what a
                          \* service does or SurfaceFlinger does next, notify_hotplug
          hwc_display_,   \* the displays whose pointer is set
          validated_,     \* HWCDisplay::validated_
          session,        \* the flags of HWCSession
          cable,          \* the external display is plugged in
          drawing,        \* displays SurfaceFlinger has validated and not yet presented
          client,         \* SurfaceFlinger: what it was told, and whether it runs
          left            \* what remains of the budget

locks == <<mutex, sequence_wait_, waiting>>
vars == <<locks, call, hwc_display_, validated_, session, cable, drawing, client, left>>

Idle == [at |-> "idle", on |-> "primary", op |-> "none", notify |-> FALSE]

Init ==
  /\ mutex = [d \in Displays |-> "none"]
  /\ sequence_wait_ = [d \in Displays |-> 0]
  /\ waiting = [t \in Threads |-> "none"]
  /\ call = [t \in Threads |-> Idle]
  /\ hwc_display_ = {"primary"}
  /\ validated_ = {}
  /\ session = [pending_connect |-> FALSE, pending_hotplug |-> FALSE,
                first_commit |-> FALSE, need_invalidate |-> FALSE,
                reset_panel |-> FALSE, bw_unapplied |-> FALSE]
  /\ cable = FALSE
  /\ drawing = {}
  /\ client = [state |-> "new", registered |-> FALSE, refresh |-> FALSE,
               external |-> FALSE, toldBy |-> "none", died |-> FALSE,
               orphaned |-> {}, raced |-> FALSE]
  /\ left \in Budgets

-----------------------------------------------------------------------------
(* utils/locker.h                                                          *)

Free(d) == mutex[d] = "none"
Lock(t, d) == Free(d) /\ mutex' = [mutex EXCEPT ![d] = t]
(* The end of a scope: the thread gives up every lock of the scope.        *)
Unlock(t) == mutex' = [d \in Displays |-> IF mutex[d] = t THEN "none" ELSE mutex[d]]
Broadcast(l) == waiting' = [t \in Threads |-> IF waiting[t] = l THEN "none" ELSE waiting[t]]

SequenceEntry(t, d) ==
  /\ Lock(t, d)
  /\ sequence_wait_' = [sequence_wait_ EXCEPT ![d] = 1]

(* The two that end a sequence do their work in one step.                  *)
SequenceExit(d) ==
  /\ Free(d)
  /\ sequence_wait_' = [sequence_wait_ EXCEPT ![d] = 0]
  /\ Broadcast(d)

SequenceCancel(d) ==
  /\ Free(d)
  /\ sequence_wait_' = [sequence_wait_ EXCEPT ![d] = -1]
  /\ Broadcast(d)

Goto(t, place) == call' = [call EXCEPT ![t].at = place]
Start(t, place, display, what) ==
  call' = [call EXCEPT ![t] = [at |-> place, on |-> display, op |-> what, notify |-> FALSE]]
Decide(t, place, announce) == call' = [call EXCEPT ![t].at = place, ![t].notify = announce]
Return(t) == call' = [call EXCEPT ![t] = Idle]
Awake(t) == waiting[t] = "none"

\* Variant of SequenceWait for mutation: the flag is not read again after a
\* wake-up.
SequenceWait_Once(t, d, next) ==
  /\ Awake(t) /\ Free(d)
  /\ \/ /\ sequence_wait_[d] = 1 /\ call[t].at = "wait"
        /\ waiting' = [waiting EXCEPT ![t] = d]
        /\ Goto(t, "woken")
        /\ UNCHANGED mutex
     \/ /\ sequence_wait_[d] # 1 \/ call[t].at = "woken"
        /\ Lock(t, d)
        /\ Goto(t, next)
        /\ UNCHANGED waiting
  /\ UNCHANGED sequence_wait_

SequenceWait(t, d, next) ==
  /\ Awake(t) /\ Free(d)
  /\ \/ /\ sequence_wait_[d] = 1
        /\ waiting' = [waiting EXCEPT ![t] = d]
        /\ Goto(t, "woken")
        /\ UNCHANGED mutex
     \/ /\ sequence_wait_[d] # 1
        /\ Lock(t, d)
        /\ Goto(t, next)
        /\ UNCHANGED waiting
  /\ UNCHANGED sequence_wait_

-----------------------------------------------------------------------------
(* Callbacks and the external display, used by more than one thread.       *)

(* callbacks_.Refresh: SurfaceFlinger owes the primary display a frame.    *)
Refreshed(c) == [c EXCEPT !.refresh = @ \/ c.registered]

(* HotPlug tells SurfaceFlinger...                                         *)
HotPlugTells(t, connected) ==
  /\ call[t].at = "hotplug" /\ Awake(t)
  /\ client.registered
  /\ client' = [client EXCEPT !.external = connected, !.toldBy = t]

(* ...and waits while there is no callback to tell it with.                *)
HotPlugWaits(t) ==
  /\ call[t].at = "hotplug" /\ Awake(t)
  /\ ~client.registered
  /\ waiting' = [waiting EXCEPT ![t] = "callbacks"]

(* ConnectDisplay: creating the external display may fail before or after  *)
(* its Init has reset the validated bits.                                  *)
ConnectDisplay(ok) ==
  /\ hwc_display_' = IF ok THEN hwc_display_ \cup {"external"} ELSE hwc_display_
  /\ validated_' \in IF ok THEN {{}} ELSE {validated_, {}}

-----------------------------------------------------------------------------
(* SurfaceFlinger's thread                                                 *)

SfIdle == call["sf"].at = "idle" /\ client.state = "running"
Known == {"primary"} \cup (hwc_display_ \cap {"virtual"})
           \cup (IF client.external THEN {"external"} ELSE {})
Spend(what) == left[what] > 0 /\ left' = [left EXCEPT ![what] = @ - 1]

(* A frame starts with a validate, or with a present that hopes to skip it. *)
BeginFrame(d) ==
  /\ d \in Known \ drawing
  /\ \E first \in {"validate", "present"} : Start("sf", first, d, "first")
  /\ client' = [client EXCEPT !.refresh = @ /\ d # "primary"]
  /\ UNCHANGED <<locks, hwc_display_, validated_, session, cable, drawing>>

RefreshFrame == SfIdle /\ client.refresh /\ BeginFrame("primary") /\ UNCHANGED left
OwnFrame(d) == SfIdle /\ Spend("frames") /\ BeginFrame(d)

(* The second half of a frame that was validated.                          *)
FinishFrame(d) ==
  /\ SfIdle
  /\ d \in drawing
  /\ Start("sf", "present", d, "second")
  /\ UNCHANGED <<locks, hwc_display_, validated_, session, cable, drawing, client, left>>

(* A layer call that changes the geometry: the bits of all displays go.    *)
CallLayerFunction(d) ==
  /\ SfIdle
  /\ d \in (Known \cap hwc_display_) \ drawing /\ Free(d)
  /\ validated_ # {} /\ validated_' = {}
  /\ UNCHANGED <<locks, call, hwc_display_, session, cable, drawing, client, left>>

ValidateLock ==
  /\ call["sf"].at = "validate"
  /\ SequenceEntry("sf", call["sf"].on)
  /\ Goto("sf", "validating")
  /\ UNCHANGED <<waiting, hwc_display_, validated_, session, cable, drawing, client, left>>

(* The body of ValidateDisplay on a display that exists.  A reset of the   *)
(* panel switches its power, which clears the validated bits.              *)
ValidateBody(ok) ==
  LET d == call["sf"].on
      reset == d = "primary" /\ session.reset_panel
      kept == IF reset THEN {} ELSE validated_
  IN /\ call["sf"].at = "validating"
     /\ d \in hwc_display_
     /\ Unlock("sf")
     /\ session' = IF d = "primary"
                   THEN [session EXCEPT !.reset_panel = FALSE, !.need_invalidate = FALSE,
                                        !.bw_unapplied = FALSE]
                   ELSE session
     /\ client' = IF d = "primary" /\ session.need_invalidate THEN Refreshed(client) ELSE client
     /\ validated_' = IF ok THEN kept \cup {d} ELSE kept
     /\ drawing' = IF ok THEN drawing \cup {d} ELSE drawing
     /\ IF ok THEN Return("sf") ELSE Goto("sf", "failed")
     /\ UNCHANGED <<sequence_wait_, waiting, hwc_display_, cable, left>>

ValidateBadDisplay ==
  /\ call["sf"].at = "validating"
  /\ call["sf"].on \notin hwc_display_
  /\ Unlock("sf")
  /\ Goto("sf", "failed")
  /\ UNCHANGED <<sequence_wait_, waiting, hwc_display_, validated_, session, cable, drawing, client, left>>

\* Variant of ValidateCancel for mutation: a failed validate leaves the
\* sequence open.
ValidateCancel_Forgets ==
  /\ call["sf"].at = "failed"
  /\ Return("sf")
  /\ UNCHANGED <<locks, hwc_display_, validated_, session, cable, drawing, client, left>>

ValidateCancel ==
  /\ call["sf"].at = "failed"
  /\ SequenceCancel(call["sf"].on)
  /\ Return("sf")
  /\ UNCHANGED <<mutex, hwc_display_, validated_, session, cable, drawing, client, left>>

(* PresentDisplay returns; if a first present found the display not        *)
(* validated, SurfaceFlinger goes on with a validate.                      *)
PresentReturns ==
  IF call["sf"].op = "revalidate" THEN Start("sf", "validate", call["sf"].on, "none")
  ELSE Return("sf")

(* How Present may end while updates are not paused: None, NotValidated,   *)
(* or another error.                                                       *)
PresentBody ==
  LET d == call["sf"].on
  IN /\ call["sf"].at = "present"
     /\ SequenceExit(d)
     /\ drawing' = drawing \ {d}
     /\ \/ d \in hwc_display_ \cap validated_ /\ Start("sf", "pending", d, "none")
        \/ /\ d \in hwc_display_ \ validated_
           /\ Start("sf", "pending", d, IF call["sf"].op = "first" THEN "revalidate" ELSE "none")
        \/ (d \in validated_ \/ d \notin hwc_display_) /\ Start("sf", "refused", d, "none")
     /\ UNCHANGED <<mutex, hwc_display_, validated_, session, cable, client, left>>

PresentCancel ==
  /\ call["sf"].at = "refused"
  /\ SequenceCancel(call["sf"].on)
  /\ Goto("sf", "pending")
  /\ UNCHANGED <<mutex, hwc_display_, validated_, session, cable, drawing, client, left>>

(* external_pending_connect_ is read without a lock...                     *)
PresentPending ==
  /\ call["sf"].at = "pending"
  /\ IF call["sf"].on # "primary" THEN PresentReturns
     ELSE Goto("sf", IF session.pending_connect THEN "lock_e" ELSE "commit")
  /\ UNCHANGED <<locks, hwc_display_, validated_, session, cable, drawing, client, left>>

PresentLockE ==
  /\ call["sf"].at = "lock_e"
  /\ Lock("sf", "external")
  /\ Goto("sf", "lock_v")
  /\ UNCHANGED <<sequence_wait_, waiting, hwc_display_, validated_, session, cable, drawing, client, left>>

PresentLockV ==
  /\ call["sf"].at = "lock_v"
  /\ Free("virtual")
  /\ IF "virtual" \in hwc_display_ THEN Unlock("sf") /\ Goto("sf", "commit")
     ELSE Lock("sf", "virtual") /\ Goto("sf", "connect")
  /\ UNCHANGED <<sequence_wait_, waiting, hwc_display_, validated_, session, cable, drawing, client, left>>

\* Variant of PresentConnect for mutation: the connection is not announced.
PresentConnect_Silent(ok) ==
  /\ call["sf"].at = "connect"
  /\ ConnectDisplay(ok)
  /\ session' = [session EXCEPT !.pending_connect = FALSE]
  /\ client' = [client EXCEPT !.raced = @ \/ ~session.pending_connect]
  /\ Unlock("sf")
  /\ Goto("sf", "commit")
  /\ UNCHANGED <<sequence_wait_, waiting, cable, drawing, left>>

(* ...and not read again under the locks: raced remembers a connection     *)
(* that was no longer pending.  A failure is announced like a success.     *)
PresentConnect(ok) ==
  /\ call["sf"].at = "connect"
  /\ ConnectDisplay(ok)
  /\ session' = [session EXCEPT !.pending_connect = FALSE]
  /\ client' = [client EXCEPT !.raced = @ \/ ~session.pending_connect]
  /\ Unlock("sf")
  /\ Decide("sf", "commit", TRUE)
  /\ UNCHANGED <<sequence_wait_, waiting, cable, drawing, left>>

PresentFirstCommit ==
  /\ call["sf"].at = "commit"
  /\ session' = [session EXCEPT !.first_commit = TRUE]
  /\ Goto("sf", "cached")
  /\ UNCHANGED <<locks, hwc_display_, validated_, cable, drawing, client, left>>

PresentCached ==
  LET told == call["sf"].notify \/ session.pending_hotplug
  IN /\ call["sf"].at = "cached"
     /\ session' = [session EXCEPT !.pending_hotplug = FALSE]
     /\ IF told THEN Goto("sf", "hotplug") ELSE PresentReturns
     /\ UNCHANGED <<locks, hwc_display_, validated_, cable, drawing, client, left>>

(* SurfaceFlinger has registered before it presents, so this never waits.  *)
PresentHotPlug ==
  /\ HotPlugTells("sf", TRUE)
  /\ PresentReturns
  /\ UNCHANGED <<locks, hwc_display_, validated_, session, cable, drawing, left>>

(* Creating the virtual display asks nothing of the external one.          *)
CreateVirtualDisplay ==
  /\ SfIdle
  /\ Spend("virtual")
  /\ Free("virtual")
  /\ "virtual" \notin hwc_display_
  /\ hwc_display_' = hwc_display_ \cup {"virtual"}
  /\ validated_' = {}
  /\ UNCHANGED <<locks, call, session, cable, drawing, client>>

DestroyVirtualDisplay ==
  /\ call["sf"].at = "idle" /\ client.state \in {"running", "dying"}
  /\ Free("virtual")
  /\ "virtual" \in hwc_display_ \ drawing
  /\ hwc_display_' = hwc_display_ \ {"virtual"}
  /\ UNCHANGED <<locks, call, validated_, session, cable, drawing, client, left>>

(* A client that registers is told of the primary display and draws it.    *)
RegisterCallback ==
  /\ call["sf"].at = "idle" /\ client.state = "new"
  /\ client' = [client EXCEPT !.registered = TRUE]
  /\ Broadcast("callbacks")
  /\ Goto("sf", "registered")
  /\ UNCHANGED <<mutex, sequence_wait_, hwc_display_, validated_, session, cable, drawing, left>>

Registered ==
  /\ call["sf"].at = "registered"
  /\ client' = [client EXCEPT !.state = "running", !.refresh = TRUE]
  /\ session' = [session EXCEPT !.need_invalidate = FALSE]
  /\ Return("sf")
  /\ UNCHANGED <<locks, hwc_display_, validated_, cable, drawing, left>>

(* SurfaceFlinger dies between two calls, and the composer service takes   *)
(* back its callbacks and its virtual display.  Its frames stay open.      *)
ClientDies ==
  /\ SfIdle
  /\ Spend("deaths")
  /\ client' = [client EXCEPT !.state = "dying", !.died = TRUE, !.orphaned = @ \cup drawing]
  /\ drawing' = {}
  /\ UNCHANGED <<locks, call, hwc_display_, validated_, session, cable>>

Deregister ==
  /\ call["sf"].at = "idle" /\ client.state = "dying"
  /\ "virtual" \notin hwc_display_
  /\ client' = [client EXCEPT !.state = "new", !.registered = FALSE,
                              !.refresh = FALSE, !.external = FALSE, !.toldBy = "none"]
  /\ Broadcast("callbacks")
  /\ session' = [session EXCEPT !.need_invalidate = FALSE]
  /\ UNCHANGED <<mutex, sequence_wait_, call, hwc_display_, validated_, cable, drawing, left>>

-----------------------------------------------------------------------------
(* The uevent thread: UEventHandler and HotPlugHandler                     *)

UEvent ==
  /\ call["uevent"].at = "idle"
  /\ Spend("cable")
  /\ cable' = ~cable
  /\ Start("uevent", "primary", "external", "none")
  /\ UNCHANGED <<locks, hwc_display_, validated_, session, drawing, client>>

(* The lock of the primary display is taken to see that it is there.       *)
HotPlugPrimary ==
  /\ call["uevent"].at = "primary"
  /\ Free("primary")
  /\ Goto("uevent", IF cable THEN "lock_e" ELSE "wait")
  /\ UNCHANGED <<locks, hwc_display_, validated_, session, cable, drawing, client, left>>

HotPlugLockE ==
  /\ call["uevent"].at = "lock_e"
  /\ Lock("uevent", "external")
  /\ Goto("uevent", "lock_v")
  /\ UNCHANGED <<sequence_wait_, waiting, hwc_display_, validated_, session, cable, drawing, client, left>>

\* Variant of HotPlugLockV for mutation: the virtual display is looked at
\* without its lock.
HotPlugLockV_NoLock ==
  /\ call["uevent"].at = "lock_v"
  /\ IF "virtual" \in hwc_display_
     THEN /\ session' = [session EXCEPT !.pending_connect = TRUE]
          /\ Unlock("uevent")
          /\ Goto("uevent", "refresh")
     ELSE UNCHANGED <<session, mutex>> /\ Goto("uevent", "connect")
  /\ UNCHANGED <<sequence_wait_, waiting, hwc_display_, validated_, cable, drawing, client, left>>

HotPlugLockV ==
  /\ call["uevent"].at = "lock_v"
  /\ Free("virtual")
  /\ IF "virtual" \in hwc_display_
     THEN /\ session' = [session EXCEPT !.pending_connect = TRUE]
          /\ Unlock("uevent")
          /\ Goto("uevent", "refresh")
     ELSE UNCHANGED session /\ Lock("uevent", "virtual") /\ Goto("uevent", "connect")
  /\ UNCHANGED <<sequence_wait_, waiting, hwc_display_, validated_, cable, drawing, client, left>>

HotPlugConnect(ok) ==
  /\ call["uevent"].at = "connect"
  /\ ConnectDisplay(ok)
  /\ Unlock("uevent")
  /\ IF ok THEN Decide("uevent", "refresh", TRUE) ELSE Return("uevent")
  /\ UNCHANGED <<sequence_wait_, waiting, session, cable, drawing, client, left>>

HotPlugWait ==
  /\ call["uevent"].at \in {"wait", "woken"}
  /\ SequenceWait("uevent", "external", "disconnect")
  /\ UNCHANGED <<hwc_display_, validated_, session, cable, drawing, client, left>>

HotPlugDisconnect ==
  /\ call["uevent"].at = "disconnect"
  /\ hwc_display_' = hwc_display_ \ {"external"}
  /\ session' = [session EXCEPT !.pending_connect = FALSE]
  /\ Unlock("uevent")
  /\ Decide("uevent", "cache", "external" \in hwc_display_)
  /\ UNCHANGED <<sequence_wait_, waiting, validated_, cable, drawing, client, left>>

HotPlugRefresh ==
  /\ call["uevent"].at = "refresh"
  /\ client' = Refreshed(client)
  /\ Goto("uevent", "vsync_period")
  /\ UNCHANGED <<locks, hwc_display_, validated_, session, cable, drawing, left>>

HotPlugVsyncPeriod ==
  /\ call["uevent"].at = "vsync_period"
  /\ Free("primary")
  /\ Goto("uevent", "cache")
  /\ UNCHANGED <<locks, hwc_display_, validated_, session, cable, drawing, client, left>>

(* first_commit_ is read without a lock; the announcement is cached after. *)
HotPlugCache ==
  /\ call["uevent"].at = "cache"
  /\ IF ~call["uevent"].notify THEN Return("uevent")
     ELSE Goto("uevent", IF session.first_commit THEN "hotplug" ELSE "caching")
  /\ UNCHANGED <<locks, hwc_display_, validated_, session, cable, drawing, client, left>>

HotPlugCaching ==
  /\ call["uevent"].at = "caching"
  /\ session' = [session EXCEPT !.pending_hotplug = cable]
  /\ Return("uevent")
  /\ UNCHANGED <<locks, hwc_display_, validated_, cable, drawing, client, left>>

HotPlugTell ==
  \/ /\ HotPlugTells("uevent", cable)
     /\ Return("uevent")
     /\ UNCHANGED <<locks, hwc_display_, validated_, session, cable, drawing, left>>
  \/ /\ HotPlugWaits("uevent")
     /\ UNCHANGED <<mutex, sequence_wait_, call, hwc_display_, validated_, session, cable, drawing, client, left>>

(* The panel has died: the frame is asked for before the flag is set.      *)
PanelDead ==
  /\ call["uevent"].at = "idle"
  /\ Spend("panel")
  /\ client' = Refreshed(client)
  /\ Goto("uevent", "panel")
  /\ UNCHANGED <<locks, hwc_display_, validated_, session, cable, drawing>>

PanelReset ==
  /\ call["uevent"].at = "panel"
  /\ session' = [session EXCEPT !.reset_panel = TRUE]
  /\ Return("uevent")
  /\ UNCHANGED <<locks, hwc_display_, validated_, cable, drawing, client, left>>

-----------------------------------------------------------------------------
(* The binder threads: a service call waits for the sequence of its        *)
(* display to end and holds the lock over its body.  SetColorModeOverride  *)
(* and setDisplayAnimating go through CallDisplayFunction, which takes the *)
(* lock whatever the sequence; only the primary display has color modes.   *)

WaitingCalls ==
  {<<"query", d>> : d \in Displays} \cup {<<"config", d>> : d \in Displays}
    \cup {<<"camera", "primary">>, <<"partial", "primary">>}
PlainCalls == {<<"color", "primary">>} \cup {<<"animate", d>> : d \in Displays}

ServiceCall(s) ==
  /\ call[s].at = "idle"
  /\ Spend("calls")
  /\ \/ \E c \in WaitingCalls : Start(s, "wait", c[2], c[1])
     \/ \E c \in PlainCalls : Start(s, "lock", c[2], c[1])
  /\ UNCHANGED <<locks, hwc_display_, validated_, session, cable, drawing, client>>

ServiceWait(s) ==
  /\ call[s].at \in {"wait", "woken"}
  /\ SequenceWait(s, call[s].on, "body")
  /\ UNCHANGED <<hwc_display_, validated_, session, cable, drawing, client, left>>

CallDisplayFunction(s) ==
  /\ call[s].at = "lock"
  /\ Lock(s, call[s].on)
  /\ Goto(s, "plain")
  /\ UNCHANGED <<sequence_wait_, waiting, hwc_display_, validated_, session, cable, drawing, client, left>>

ServiceReturns(s) == Unlock(s) /\ Return(s)

(* A query, and any call on a display that is not there, changes nothing.  *)
ServiceQuery(s) ==
  /\ call[s].at \in {"body", "plain"}
  /\ call[s].op = "query" \/ call[s].on \notin hwc_display_
  /\ ServiceReturns(s)
  /\ UNCHANGED <<sequence_wait_, waiting, hwc_display_, validated_, session, cable, drawing, client, left>>

(* SetActiveConfigIndex; the bits of all displays are reset even on failure. *)
SetActiveConfigIndex(s, ok) ==
  /\ call[s].at = "body" /\ call[s].op = "config" /\ call[s].on \in hwc_display_
  /\ validated_' = {}
  /\ IF ok THEN Goto(s, "refresh") /\ UNCHANGED mutex ELSE ServiceReturns(s)
  /\ UNCHANGED <<sequence_wait_, waiting, hwc_display_, session, cable, drawing, client, left>>

(* ControlPartialUpdate returns at once unless a frame has to apply it.    *)
ControlPartialUpdate(s, pending) ==
  /\ call[s].at = "body" /\ call[s].op = "partial" /\ call[s].on \in hwc_display_
  /\ IF pending THEN Goto(s, "refresh") /\ UNCHANGED mutex ELSE ServiceReturns(s)
  /\ UNCHANGED <<sequence_wait_, waiting, hwc_display_, validated_, session, cable, drawing, client, left>>

SetCameraLaunchStatus(s) ==
  /\ call[s].at = "body" /\ call[s].op = "camera"
  /\ Goto(s, "refresh")
  /\ UNCHANGED <<locks, hwc_display_, validated_, session, cable, drawing, client, left>>

(* Refresh with the display's lock held.                                   *)
ServiceRefresh(s) ==
  /\ call[s].at = "refresh"
  /\ client' = Refreshed(client)
  /\ \/ call[s].op = "config" /\ ServiceReturns(s)
     \/ call[s].op = "camera" /\ Goto(s, "bandwidth") /\ UNCHANGED mutex
     \/ call[s].op = "partial" /\ Goto(s, "timed") /\ Unlock(s)
  /\ UNCHANGED <<sequence_wait_, waiting, hwc_display_, validated_, session, cable, drawing, left>>

\* Variant of SetMaxBandwidthMode for mutation: the validated bits are kept.
SetMaxBandwidthMode_KeepsBits(s, ok) ==
  /\ call[s].at = "bandwidth"
  /\ session' = IF ok THEN [session EXCEPT !.need_invalidate = TRUE, !.bw_unapplied = TRUE] ELSE session
  /\ ServiceReturns(s)
  /\ UNCHANGED <<sequence_wait_, waiting, hwc_display_, validated_, cable, drawing, client, left>>

(* The end of setCameraLaunchStatus.  bw_unapplied observes a mode that no *)
(* validate of the primary display has seen yet.                           *)
SetMaxBandwidthMode(s, ok) ==
  /\ call[s].at = "bandwidth"
  /\ session' = IF ok THEN [session EXCEPT !.need_invalidate = TRUE, !.bw_unapplied = TRUE] ELSE session
  /\ validated_' = IF ok THEN {} ELSE validated_
  /\ ServiceReturns(s)
  /\ UNCHANGED <<sequence_wait_, waiting, hwc_display_, cable, drawing, client, left>>

(* WaitFinite gives the lock away and takes it again, woken or timed out,  *)
(* to return.                                                              *)
ServiceTimedWait(s) ==
  /\ call[s].at = "timed" /\ Free(call[s].on)
  /\ Return(s)
  /\ UNCHANGED <<locks, hwc_display_, validated_, session, cable, drawing, client, left>>

(* HWCDisplayPrimary::SetColorMode: a failure changes nothing; else the    *)
(* frame is asked for first and the bits are reset after it.               *)
SetColorMode(s, ok) ==
  /\ call[s].at = "plain" /\ call[s].op = "color" /\ call[s].on \in hwc_display_
  /\ \/ ok /\ client' = Refreshed(client) /\ Goto(s, "reset") /\ UNCHANGED mutex
     \/ ~ok /\ ServiceReturns(s) /\ UNCHANGED client
  /\ UNCHANGED <<sequence_wait_, waiting, hwc_display_, validated_, session, cable, drawing, left>>

SetColorModeEnds(s) ==
  /\ call[s].at = "reset"
  /\ validated_' = {}
  /\ ServiceReturns(s)
  /\ UNCHANGED <<sequence_wait_, waiting, hwc_display_, session, cable, drawing, client, left>>

(* No bit survives the assignment of false to validated_.                  *)
SetDisplayAnimating(s) ==
  /\ call[s].at = "plain" /\ call[s].op = "animate" /\ call[s].on \in hwc_display_
  /\ validated_' = {}
  /\ ServiceReturns(s)
  /\ UNCHANGED <<sequence_wait_, waiting, hwc_display_, session, cable, drawing, client, left>>

-----------------------------------------------------------------------------

SfStep ==
  \/ RefreshFrame
  \/ \E d \in Displays : FinishFrame(d)
  \/ ValidateLock \/ ValidateBadDisplay \/ ValidateCancel
  \/ \E ok \in BOOLEAN : ValidateBody(ok) \/ PresentConnect(ok)
  \/ PresentBody \/ PresentCancel \/ PresentPending \/ PresentLockE \/ PresentLockV
  \/ PresentFirstCommit \/ PresentCached \/ PresentHotPlug
  \/ RegisterCallback \/ Registered \/ Deregister
  \/ client.state = "dying" /\ DestroyVirtualDisplay

UEventStep ==
  \/ HotPlugPrimary \/ HotPlugLockE \/ HotPlugLockV
  \/ \E ok \in BOOLEAN : HotPlugConnect(ok)
  \/ HotPlugWait \/ HotPlugDisconnect
  \/ HotPlugRefresh \/ HotPlugVsyncPeriod \/ HotPlugCache \/ HotPlugCaching
  \/ HotPlugTell \/ PanelReset

ServiceStep(s) ==
  \/ ServiceWait(s) \/ ServiceQuery(s) \/ SetCameraLaunchStatus(s)
  \/ \E b \in BOOLEAN : \/ SetActiveConfigIndex(s, b)
                        \/ ControlPartialUpdate(s, b)
                        \/ SetMaxBandwidthMode(s, b)
                        \/ SetColorMode(s, b)
  \/ ServiceRefresh(s) \/ ServiceTimedWait(s)
  \/ CallDisplayFunction(s) \/ SetColorModeEnds(s) \/ SetDisplayAnimating(s)

(* What nothing forces to happen.                                          *)
Environment ==
  \/ \E d \in Displays : OwnFrame(d) \/ CallLayerFunction(d)
  \/ CreateVirtualDisplay
  \/ client.state = "running" /\ DestroyVirtualDisplay
  \/ ClientDies \/ UEvent \/ PanelDead
  \/ \E s \in Services : ServiceCall(s)

Next == SfStep \/ UEventStep \/ (\E s \in Services : ServiceStep(s)) \/ Environment

Spec == Init /\ [][Next]_vars
FairSpec ==
  /\ Spec
  /\ WF_vars(SfStep)
  /\ WF_vars(UEventStep)
  /\ \A s \in Services : WF_vars(ServiceStep(s))

-----------------------------------------------------------------------------

(* While a service call that waits for the sequence, or the removal of the *)
(* external display, works under a display's lock, SurfaceFlinger is not   *)
(* between its validate and its present of that display (locker.h: "so     *)
(* that capturing a transitionary snapshot of context is prevented").  Not *)
(* promised of SetColorModeOverride and setDisplayAnimating, which do not  *)
(* wait and take away the bits of a frame that is validated.               *)
Working(t, d) ==
  \/ t \in Services /\ call[t].on = d /\ call[t].at \in {"body", "refresh", "bandwidth"}
  \/ t = "uevent" /\ d = "external" /\ call[t].at = "disconnect"

SequenceUndisturbed == \A t \in Threads, d \in Displays : Working(t, d) => d \notin drawing

(* The external display is created only while no virtual display exists,   *)
(* whichever of the two threads creates it: HotPlugHandler or              *)
(* PresentDisplay.                                                         *)
ExternalYieldsToVirtual ==
  [][ "external" \in hwc_display_' \ hwc_display_
        => "virtual" \notin hwc_display_ \cup hwc_display_' ]_vars

(* Once SurfaceFlinger and the uevent thread are at rest, the session has  *)
(* told SurfaceFlinger of the external display it has; a display that is   *)
(* announced and not there was announced by a PresentDisplay that took its *)
(* decision before the removal.  Not promised after SurfaceFlinger has     *)
(* died (a new one is told of the primary display only), while an          *)
(* announcement is cached, and once a pending connection was made that the *)
(* removal of the display had cancelled.                                   *)
ViewSettled ==
  (/\ SfIdle /\ call["uevent"].at = "idle"
   /\ ~client.died /\ ~session.pending_hotplug /\ ~client.raced)
  => /\ "external" \in hwc_display_ => client.external
     /\ client.external /\ "external" \notin hwc_display_ => client.toldBy = "sf"

(* Every call returns, so that every thread is idle again and again: the   *)
(* three kinds of thread never wait for each other in a circle, and no     *)
(* wake-up is missed.  The one exception is a display that a dead          *)
(* SurfaceFlinger has left between validate and present and that its       *)
(* successor does not draw; the primary display it does draw.              *)
Orphaned(d) == d \in client.orphaned \ {"primary"} /\ sequence_wait_[d] = 1

NothingStuck ==
  \A t \in Threads : []<>(call[t].at = "idle" \/ \E d \in Displays : waiting[t] = d /\ Orphaned(d))

(* A bandwidth mode set by setCameraLaunchStatus reaches a validate of the *)
(* primary display, whatever the frames and the other calls are doing:     *)
(* again and again no mode is left to apply.  Updates are taken not to be  *)
(* paused: a paused primary is presented without a validate.               *)
BandwidthApplied == []<>~session.bw_unapplied

=============================================================================
