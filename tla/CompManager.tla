---------------------------- MODULE CompManager ----------------------------
(***************************************************************************)
(* The composition manager of the display HAL (sdm/libs/core/              *)
(* comp_manager.cpp) with the strategy (strategy.cpp), the default         *)
(* resource manager (module ResourceDefault) and the calls of DisplayBase  *)
(* (display_base.cpp) that reach it.  Three threads share it:              *)
(*   - SurfaceFlinger's, which draws on both displays and switches them on *)
(*     and off;                                                            *)
(*   - the uevent thread, which adds and removes the HDMI display;         *)
(*   - the primary's event thread: idle timeouts and thermal levels.       *)
(* CompManager's operations hold locker_, SetDisplayState excepted.  The   *)
(* display's own calls hold its recursive mutex.                           *)
(*                                                                         *)
(* Of HWCDisplay (module DisplayFrame) only validated_ is used: it decides *)
(* whether SurfaceFlinger may commit, and threads write it unlocked.  The  *)
(* hardware has more than kSafeModeThreshold pipes, as the MSM8998 has.    *)
(***************************************************************************)
EXTENDS ResourceDefault

PowerStates == {"Off", "On", "Doze", "DozeSuspend"}

(* What the rest of the system does, the same throughout a behaviour:      *)
(* power states asked for, strategies of a frame (one without the          *)
(* extension library), frames, whether HDMI content may be secure, and     *)
(* whether the event thread is active.                                     *)
CONSTANT Scopes

ASSUME ScopeAssumption ==
    Scopes \subseteq [states : SUBSET PowerStates, attempts : Nat \ {0}, frames : SUBSET Configs,
                     secure : {{FALSE}, BOOLEAN}, events : BOOLEAN]

(* Observers.  since: the displays that have committed since a display was *)
(* added, removed or switched on, and not been switched off since.  torn:  *)
(* an unlocked update of configured_displays_ has undone a locked one.     *)
(* shown: the last content prepared for this HDMI display.  owed: it has   *)
(* turned secure since the primary's last frame was prepared.  late: the   *)
(* thermal level rose between the primary's Prepare and the write of the   *)
(* bit that records it, or between the test of that bit and Commit.        *)
VARIABLES
    registered_displays_,
    configured_displays_,
    safe_mode_,
    secure_external_layer_,
    secure_external_transition_,
    constraints,        \* safe_mode of the primary's StrategyConstraints
    idle_fallback,      \* of the primary's context, like the next one
    thermal_fallback_,
    frame_count,        \* the displays that have shown a frame since they were registered
    base,               \* DisplayBase: state_, needs_validate_ and the pipes of the frame
    validated,          \* HWCDisplay::validated_
    creating,           \* the uevent thread is in HWCDisplay::Init of the HDMI display
    sf,                 \* SurfaceFlinger's thread: where it is and on which display
    since, torn, shown, owed, late,   \* observers
    scope

compVars == <<registered_displays_, configured_displays_, safe_mode_>>
secureVars == <<secure_external_layer_, secure_external_transition_>>
primaryVars == <<constraints, idle_fallback, thermal_fallback_>>
safeSeen == <<since, torn>>
primarySeen == <<shown, owed, late>>
observers == <<safeSeen, primarySeen>>
vars == <<src_pipes_, compVars, secureVars, primaryVars, frame_count, base, validated, creating, sf, observers,
          scope>>

NewBase == [state |-> "Off", needs_validate |-> TRUE, config |-> {}]
At(place, d) == [at |-> place, on |-> d, max |-> 0, left |-> 0, bits |-> {}, secure |-> FALSE]
AtRest == At("rest", "primary")

Init ==
    /\ ResourceInit
    /\ registered_displays_ = {"primary"} /\ configured_displays_ = {} /\ safe_mode_ = FALSE
    /\ secure_external_layer_ = FALSE /\ secure_external_transition_ = FALSE
    /\ constraints = FALSE /\ idle_fallback = FALSE /\ thermal_fallback_ = FALSE
    /\ frame_count = {}
    /\ base = [d \in Displays |-> NewBase]
    /\ validated = {} /\ creating = FALSE
    /\ sf = AtRest
    /\ since = {} /\ torn = FALSE /\ shown = "nothing" /\ owed = FALSE /\ late = FALSE
    /\ scope \in Scopes

active_(d) ==
    \/ base[d].state \in {"On", "Doze"}
    \/ base[d].state = "DozeSuspend" /\ d # "primary"

\* CompManager::locker_ is SurfaceFlinger's.
Locked == sf.at = "attempt"

\* SurfaceFlinger's thread is in a call of DisplayBase, whose mutex it holds.
InDisplay(d) == sf.at \notin {"rest", "prepared", "bits", "tested"} /\ sf.on = d

\* The displays SurfaceFlinger knows.
Known == IF creating THEN registered_displays_ \ {"hdmi"} ELSE registered_displays_

-----------------------------------------------------------------------------
(* Prepare.                                                                *)

Goes(place) == sf' = [sf EXCEPT !.at = place]
Returns == sf' = AtRest

(* A bit of validated_ is set or reset by a read and a write, without a    *)
(* lock: what another thread writes in between is lost.                    *)
Writes(d, bits) == sf' = [at |-> "bits", on |-> d, max |-> 0, left |-> 0, bits |-> bits, secure |-> FALSE]

\* DisplayBase::Prepare up to its loop: the last frame's configuration is gone;
\* a display that is not active, or a stack that is not valid, is refused.
PrePrepare(d) ==
    /\ sf.at = "rest" /\ d \in Known
    /\ base' = [base EXCEPT ![d].needs_validate = TRUE, ![d].config = {}]
    /\ \/ Returns
       \/ /\ active_(d)
          /\ \E attempts \in 1..scope.attempts, secure \in scope.secure :
                /\ secure => d = "hdmi"
                /\ sf' = [at |-> "prepare", on |-> d, max |-> attempts, left |-> attempts, bits |-> {},
                          secure |-> secure]
    /\ UNCHANGED <<src_pipes_, compVars, secureVars, primaryVars, frame_count, validated, observers>>

\* Variant of ExternalContent for mutation: leaving secure content is no transition.
ExternalContent_OneWay ==
    /\ secure_external_layer_' = (secure_external_layer_ \/ sf.secure)
    /\ secure_external_transition_' = (secure_external_transition_ \/ (sf.secure /\ ~secure_external_layer_))
    /\ shown' = IF sf.secure THEN "secure" ELSE "clear"
    /\ owed' = (sf.secure /\ (owed \/ shown = "clear"))
    /\ UNCHANGED <<constraints, late>>

\* PrepareStrategyConstraints for the HDMI display.
ExternalContent ==
    /\ secure_external_layer_' = sf.secure
    /\ secure_external_transition_' = (secure_external_transition_ \/ sf.secure # secure_external_layer_)
    /\ shown' = IF sf.secure THEN "secure" ELSE "clear"
    /\ owed' = (sf.secure /\ (owed \/ shown = "clear"))
    /\ UNCHANGED <<constraints, late>>

\* PrepareStrategyConstraints for the primary.
PrimaryConstraints ==
    LET transition == /\ registered_displays_ = Displays
                      /\ secure_external_layer_ /\ secure_external_transition_
    IN  /\ constraints' = \/ safe_mode_ \/ transition \/ sf.left # sf.max
                          \/ idle_fallback \/ thermal_fallback_
        /\ secure_external_transition_' = (secure_external_transition_ /\ ~transition)
        /\ owed' = FALSE /\ late' = FALSE
        /\ UNCHANGED <<secure_external_layer_, shown>>

\* CompManager::Prepare up to its loop.
PrepareStrategyConstraints ==
    /\ sf.at = "prepare"
    /\ \/ sf.on = "primary" /\ PrimaryConstraints
       \/ sf.on = "hdmi" /\ ExternalContent
    /\ IF sf.left = 0 THEN Returns ELSE Goes("attempt")
    /\ UNCHANGED <<src_pipes_, compVars, idle_fallback, thermal_fallback_, frame_count, base, validated,
                   safeSeen>>

\* remaining_strategies is decremented.
CountsOne(place) ==
    sf' = [at |-> place, on |-> sf.on, max |-> sf.max, left |-> sf.left - 1, bits |-> {}, secure |-> sf.secure]

\* Variant of Attempt for mutation: an attempt that succeeds is not counted.
Attempt_NotCounted ==
    /\ sf.at = "attempt"
    /\ \/ UNCHANGED <<src_pipes_, base>> /\ Returns
       \/ \E frame \in scope.frames : \E outcome \in ResourcePrepare(sf.on, frame) :
            /\ src_pipes_' = outcome.pipes
            /\ base' = [base EXCEPT ![sf.on].config = outcome.config]
            /\ IF outcome.ok THEN Goes("validate") ELSE IF sf.left > 1 THEN CountsOne("attempt") ELSE Returns
    /\ UNCHANGED <<compVars, secureVars, primaryVars, frame_count, validated, observers>>

\* A turn of that loop: the next strategy, if there is one, and its resources.
Attempt ==
    /\ sf.at = "attempt"
    /\ \/ UNCHANGED <<src_pipes_, base>> /\ Returns
       \/ \E frame \in scope.frames : \E outcome \in ResourcePrepare(sf.on, frame) :
            /\ src_pipes_' = outcome.pipes
            /\ base' = [base EXCEPT ![sf.on].config = outcome.config]
            /\ IF outcome.ok THEN CountsOne("validate")
               ELSE IF sf.left > 1 THEN CountsOne("attempt") ELSE Returns
    /\ UNCHANGED <<compVars, secureVars, primaryVars, frame_count, validated, observers>>

\* The hardware accepts the frame, is shutting down, or the next strategy is tried.
Validate ==
    /\ sf.at = "validate"
    /\ \/ /\ base' = [base EXCEPT ![sf.on].needs_validate = FALSE]
          /\ sf' = At("prepared", sf.on)
       \/ UNCHANGED base /\ (Returns \/ Goes("prepare"))
    /\ UNCHANGED <<src_pipes_, compVars, secureVars, primaryVars, frame_count, validated, observers>>

\* Back in HWCDisplay::PrepareLayerStack.
SetValidated ==
    /\ sf.at = "prepared"
    /\ Writes(sf.on, validated \cup {sf.on})
    /\ UNCHANGED <<src_pipes_, compVars, secureVars, primaryVars, frame_count, base, validated, observers>>

WriteBits ==
    /\ sf.at = "bits"
    /\ validated' = sf.bits
    /\ Returns
    /\ UNCHANGED <<src_pipes_, compVars, secureVars, primaryVars, frame_count, base, observers>>

-----------------------------------------------------------------------------
(* Commit and Flush.                                                       *)

\* HWCDisplay::CommitLayerStack up to DisplayBase::Commit: a display whose layers have
\* changed (CanSkipValidate) is validated no more; one that is validated goes on.
CommitLayerStack(d) ==
    /\ sf.at = "rest" /\ d \in Known \cap validated
    /\ Writes(d, validated \ {d}) \/ sf' = At("tested", d)
    /\ UNCHANGED <<src_pipes_, compVars, secureVars, primaryVars, frame_count, base, validated, observers>>

\* DisplayBase::Commit, with the display's mutex: the hardware takes the frame, or refuses
\* it, or the frame is not prepared.  (A display that is not active is not validated:
\* changing its state clears the bits.)
Commit ==
    /\ sf.at = "tested"
    /\ \/ active_(sf.on) /\ ~base[sf.on].needs_validate /\ (sf' = At("committed", sf.on) \/ Returns)
       \/ base[sf.on].needs_validate /\ Writes(sf.on, validated \ {sf.on})
    /\ UNCHANGED <<src_pipes_, compVars, secureVars, primaryVars, frame_count, base, validated, observers>>

\* Variant of PostCommit for mutation: one configured display is enough.
PostCommit_Any ==
    /\ sf.at = "committed"
    /\ configured_displays_' = configured_displays_ \cup {sf.on}
    /\ safe_mode_' = FALSE
    /\ ResourcePostCommit(sf.on, sf.on \notin frame_count)
    /\ frame_count' = frame_count \cup {sf.on}
    /\ idle_fallback' = (idle_fallback /\ sf.on # "primary")
    /\ since' = since \cup {sf.on}
    /\ Returns
    /\ UNCHANGED <<registered_displays_, secureVars, constraints, thermal_fallback_, base, validated, torn,
                   primarySeen>>

PostCommit ==
    /\ sf.at = "committed"
    /\ configured_displays_' = configured_displays_ \cup {sf.on}
    /\ safe_mode_' = (safe_mode_ /\ configured_displays_' # registered_displays_)
    /\ ResourcePostCommit(sf.on, sf.on \notin frame_count)
    /\ frame_count' = frame_count \cup {sf.on}
    /\ idle_fallback' = (idle_fallback /\ sf.on # "primary")
    /\ since' = since \cup {sf.on}
    /\ Returns
    /\ UNCHANGED <<registered_displays_, secureVars, constraints, thermal_fallback_, base, validated, torn,
                   primarySeen>>

\* PostCommitLayerStack flushes after a failure, or when there is nothing to show.
Flush(d) ==
    /\ sf.at = "rest" /\ d \in Known
    /\ \/ ~active_(d) /\ UNCHANGED <<base, src_pipes_>>
       \/ /\ active_(d)   \* it works
          /\ base' = [base EXCEPT ![d].config = {}, ![d].needs_validate = TRUE]
          /\ ResourcePurge(d)
       \/ /\ active_(d)   \* it fails
          /\ base' = [base EXCEPT ![d].config = {}]
          /\ UNCHANGED src_pipes_
    /\ Writes(d, validated \ {d})
    /\ UNCHANGED <<compVars, secureVars, primaryVars, frame_count, validated, observers>>

-----------------------------------------------------------------------------
(* SetPowerMode and SetDisplayState.                                       *)

\* HWCDisplay::SetPowerMode ends.
PowerReturns == validated' = {} /\ Returns

\* DisplayBase::SetDisplayState up to CompManager's.  Each call of the hardware may fail.
SetDisplayState(d, state) ==
    /\ sf.at = "rest" /\ d \in Known /\ state # base[d].state
    /\ \/ /\ base' = IF state = "Off" THEN [base EXCEPT ![d].state = state, ![d].config = {}]
                    ELSE [base EXCEPT ![d].state = state]
          /\ sf' = At(CASE state = "Off" -> "purge" [] state = "On" -> "count" [] OTHER -> "power", d)
          /\ UNCHANGED validated
       \/ /\ base' = IF state = "Off" THEN [base EXCEPT ![d].config = {}] ELSE base
          /\ PowerReturns
    /\ UNCHANGED <<src_pipes_, compVars, secureVars, primaryVars, frame_count, observers>>

PurgeOff ==
    /\ sf.at = "purge"
    /\ ResourcePurge(sf.on)
    /\ Goes("read")
    /\ UNCHANGED <<compVars, secureVars, primaryVars, frame_count, base, validated, observers>>

(* configured_displays_.reset() is a read and a write, without the lock:   *)
(* what another thread writes in between is lost.                          *)
ReadConfigured ==
    /\ sf.at = "read"
    /\ sf' = [sf EXCEPT !.at = "write", !.bits = configured_displays_]
    /\ UNCHANGED <<src_pipes_, compVars, secureVars, primaryVars, frame_count, base, validated, observers>>

ResetConfigured ==
    /\ sf.at = "write"
    /\ configured_displays_' = sf.bits \ {sf.on}
    /\ since' = since \ {sf.on}
    /\ torn' = (torn \/ sf.bits # configured_displays_)
    /\ PowerReturns
    /\ UNCHANGED <<src_pipes_, registered_displays_, safe_mode_, secureVars, primaryVars, frame_count, base,
                   primarySeen>>

\* Nor is safe_mode_ written in the step that counts the displays.
CountRegistered ==
    /\ sf.at = "count"
    /\ Goes(IF registered_displays_ = Displays THEN "safe" ELSE "power")
    /\ UNCHANGED <<src_pipes_, compVars, secureVars, primaryVars, frame_count, base, validated, observers>>

SetSafeMode ==
    /\ sf.at = "safe"
    /\ safe_mode_' = TRUE
    /\ since' = {}
    /\ PowerReturns
    /\ UNCHANGED <<src_pipes_, registered_displays_, configured_displays_, secureVars, primaryVars, frame_count,
                   base, torn, primarySeen>>

OtherPowerState ==
    /\ sf.at = "power"
    /\ PowerReturns
    /\ UNCHANGED <<src_pipes_, compVars, secureVars, primaryVars, frame_count, base, observers>>

-----------------------------------------------------------------------------
(* The uevent thread.                                                      *)

\* CreateDisplay, the first call of HWCDisplay::Init.
RegisterDisplay ==
    /\ "hdmi" \notin registered_displays_ /\ ~Locked
    /\ registered_displays_' = Displays
    /\ safe_mode_' = TRUE
    /\ creating' = TRUE
    /\ since' = {}
    /\ UNCHANGED <<src_pipes_, configured_displays_, secureVars, primaryVars, frame_count, base, validated, sf,
                   torn, primarySeen>>

\* The rest of it; then SurfaceFlinger is told.
DisplayCreated ==
    /\ creating
    /\ validated' = {}
    /\ creating' = FALSE
    /\ UNCHANGED <<src_pipes_, compVars, secureVars, primaryVars, frame_count, base, sf, observers>>

\* Variant of UnregisterDisplay for mutation: the display stays configured.
UnregisterDisplay_StaysConfigured ==
    /\ "hdmi" \in Known /\ ~Locked /\ sf.on # "hdmi"
    /\ ResourcePurge("hdmi")
    /\ registered_displays_' = registered_displays_ \ {"hdmi"}
    /\ frame_count' = frame_count \ {"hdmi"}
    /\ base' = [base EXCEPT !["hdmi"] = NewBase]
    /\ since' = {} /\ torn' = FALSE /\ shown' = "nothing" /\ owed' = FALSE
    /\ UNCHANGED <<configured_displays_, safe_mode_, secureVars, primaryVars, validated, sf, late>>

\* DisplayBase::Deinit; the device is closed before another can be added.  HWCSession
\* holds the display's lock, which SurfaceFlinger's calls on it hold.
UnregisterDisplay ==
    /\ "hdmi" \in Known /\ ~Locked /\ sf.on # "hdmi"
    /\ ResourcePurge("hdmi")
    /\ registered_displays_' = registered_displays_ \ {"hdmi"}
    /\ configured_displays_' = configured_displays_ \ {"hdmi"}
    /\ frame_count' = frame_count \ {"hdmi"}
    /\ base' = [base EXCEPT !["hdmi"] = NewBase]
    /\ since' = {} /\ torn' = FALSE /\ shown' = "nothing" /\ owed' = FALSE
    /\ UNCHANGED <<safe_mode_, secureVars, primaryVars, validated, sf, late>>

-----------------------------------------------------------------------------
(* The primary's event thread.                                             *)

ProcessIdleTimeout ==
    /\ ~Locked
    /\ idle_fallback' = TRUE
    /\ UNCHANGED <<src_pipes_, compVars, secureVars, constraints, thermal_fallback_, frame_count, base, validated,
                   sf, observers>>

\* DisplayPrimary::ThermalEvent, which ends with HWCDisplay::HandleEvent.
ThermalEvent(hot) ==
    /\ ~Locked /\ ~InDisplay("primary")
    /\ thermal_fallback_' = hot
    /\ validated' = {}
    /\ late' = \/ late
               \/ hot /\ sf.at \in {"prepared", "tested"} /\ sf.on = "primary"
               \/ hot /\ sf.at = "bits" /\ "primary" \in sf.bits
    /\ UNCHANGED <<src_pipes_, compVars, secureVars, constraints, idle_fallback, frame_count, base, sf, safeSeen,
                   shown, owed>>

-----------------------------------------------------------------------------
Calls == \E d \in Displays :
    PrePrepare(d) \/ CommitLayerStack(d) \/ Flush(d) \/ \E state \in scope.states : SetDisplayState(d, state)

Preparing == PrepareStrategyConstraints \/ Attempt \/ Validate \/ SetValidated

Committing == Commit \/ PostCommit \/ WriteBits

Switching == PurgeOff \/ ReadConfigured \/ ResetConfigured \/ CountRegistered \/ SetSafeMode \/ OtherPowerState

\* SurfaceFlinger's thread goes on with the call it has made.
Proceeds == (Preparing \/ Committing \/ Switching) /\ UNCHANGED <<creating, scope>>

Adding == RegisterDisplay \/ DisplayCreated

Others ==
    \/ UnregisterDisplay
    \/ scope.events /\ (ProcessIdleTimeout \/ \E hot \in BOOLEAN : ThermalEvent(hot))

Next ==
    \/ Proceeds
    \/ (Calls \/ Others) /\ UNCHANGED <<creating, scope>>
    \/ Adding /\ UNCHANGED scope

\* SurfaceFlinger's thread finishes the calls it makes.
Spec == Init /\ [][Next]_vars /\ WF_vars(Proceeds)

-----------------------------------------------------------------------------
(* Properties.                                                             *)

\* The pipes of a frame that is prepared stay reserved for its display until
\* the next one is prepared or the display is flushed, whatever is prepared,
\* flushed or unregistered for the other display meanwhile.
FramesKeepPipes ==
    \A d \in registered_displays_ : base[d].config \subseteq Reserved(src_pipes_, d)

\* "New non-primary display device has been added, so move the composition
\* mode to safe mode until resources for the added display is configured
\* properly" (comp_manager.cpp:132): until the added display has shown a frame
\* all displays are in safe mode.  (Excepted is an update of
\* configured_displays_ that SetDisplayState, unlocked, has undone.)
SafeUntilConfigured ==
    "hdmi" \in registered_displays_ \ frame_count /\ ~torn => safe_mode_

\* Safe mode does not outlive its cause: it has ended when every display has
\* shown a frame since one was added, removed or switched on.  (Same exception.)
SafeModeEnds ==
    registered_displays_ \subseteq since /\ ~torn => ~safe_mode_

\* "Safe mode needs to be kicked in primary during secure transition on
\* external" (comp_manager.cpp:255), and on a thermal event: the first frame
\* prepared for the primary after the content of a connected HDMI display has
\* turned secure is in safe mode; and no frame of the primary is committed
\* outside safe mode while it is hot.  (Excepted is a thermal event that falls
\* where HWCDisplay works without the display's mutex: between the end of
\* Prepare and the write of the bit, while a bit is being written together
\* with the primary's, and between Commit's test of the bit and the mutex.)
PrimaryFallsBack ==
    [][ /\ sf.at = "prepare" /\ sf'.at = "attempt" /\ sf.on = "primary" /\ owed => constraints'
        /\ sf.at = "tested" /\ sf'.at = "committed" /\ sf.on = "primary" /\ thermal_fallback_ /\ ~late
              => constraints ]_vars

\* DisplayBase::Prepare's loop ends, however often the hardware refuses what
\* a strategy proposes.
PrepareEnds == sf.at \in {"prepare", "attempt", "validate"} ~> sf.at \in {"prepared", "rest"}

-----------------------------------------------------------------------------
(* The inductive invariant of CompManagerProofs: one conjunct per concern, *)
(* with the types of what it is about.                                     *)

Places == {"rest", "prepare", "attempt", "validate", "prepared", "bits", "tested",
           "committed", "purge", "read", "write", "count", "safe", "power"}

Threads == [at : Places, on : Displays, max : Nat, left : Nat, bits : SUBSET Displays, secure : BOOLEAN]

\* SurfaceFlinger works on a display that is there, and on a strategy that was counted.
CallsInv ==
    /\ sf \in Threads
    /\ configured_displays_ \subseteq Displays /\ validated \subseteq Displays
    /\ registered_displays_ \in {{"primary"}, Displays} /\ sf.on \in registered_displays_
    /\ sf.at = "attempt" => sf.left > 0
    /\ scope \in Scopes

PipeTable == [Pipes -> [owner : {"user", "kernel"}, hw_block_id : Displays \cup {NoBlock}]]

Bases == [Displays -> [state : PowerStates, needs_validate : BOOLEAN, config : SUBSET Pipes]]

\* The pipes of every frame; a display that is switched off has none when its pipes are released.
PipesInv ==
    /\ src_pipes_ \in PipeTable
    /\ base \in Bases
    /\ \A d \in Displays : base[d].config \subseteq Reserved(src_pipes_, d)
    /\ sf.at = "purge" => base[sf.on].config = {}

\* The sets of displays behind safe mode.  What is said of the primary holds even when
\* an update was undone, since unregistering the HDMI display mends the rest.
SafeInv ==
    /\ ~torn => /\ configured_displays_ \subseteq registered_displays_ \cap frame_count
                /\ since \subseteq configured_displays_
    /\ "primary" \in configured_displays_ => "primary" \in frame_count
    /\ sf.at = "write" /\ "primary" \in sf.bits => "primary" \in frame_count
    /\ SafeUntilConfigured /\ SafeModeEnds

\* What the secure flags of CompManager know of the HDMI display's content.
SecureInv ==
    /\ secure_external_layer_ \in BOOLEAN /\ secure_external_transition_ \in BOOLEAN
    /\ owed => registered_displays_ = Displays /\ secure_external_layer_ /\ secure_external_transition_
    /\ shown = "clear" => ~secure_external_layer_
    /\ shown = "secure" => secure_external_layer_

\* A frame of a hot primary that is being prepared, or may be committed, is in safe mode.
ThermalInv ==
    /\ thermal_fallback_ /\ ~late
    /\ \/ "primary" \in validated
       \/ sf.at = "bits" /\ "primary" \in sf.bits
       \/ sf.on = "primary" /\ sf.at \in {"attempt", "validate", "prepared", "tested"}
    => constraints

IInv == CallsInv /\ PipesInv /\ SafeInv /\ SecureInv /\ ThermalInv
=============================================================================
