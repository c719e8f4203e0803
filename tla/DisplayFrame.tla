---------------------------- MODULE DisplayFrame ----------------------------
(***************************************************************************)
(* One frame of the Qualcomm hardware composer: SurfaceFlinger's calls     *)
(* into HWCDisplay (hwc2/hwc_display.cpp and its primary and external      *)
(* subclasses), HWCLayer's buffers and fences (hwc2/hwc_layers.cpp), the   *)
(* Prepare/Commit/Flush protocol of DisplayBase (core/display_base.cpp)    *)
(* and the atomic-commit driver behind HWDevice (core/fb/hw_device.cpp).   *)
(*                                                                         *)
(* Data abstractions: a buffer is the layer's current one or the one       *)
(* before it; a fence is known by the frame it waits for; a composition is *)
(* SDE (a hardware pipe) or GPU (drawn into the client target).  Content   *)
(* is SDR and solid fill, frame capture and dumps are off, so the tone     *)
(* mapper and the output buffer do not appear.                             *)
(***************************************************************************)
EXTENDS Naturals, Sequences, FiniteSets

CONSTANTS Displays,    \* subset of {"primary", "external"}
          Layers,      \* HWC2 layer identifiers
          Owner,       \* [Layers -> Displays]: the display a layer is made on
          SecureOnes,  \* layers whose buffers may be secure-display ones
          CmdMode,     \* the primary panel is a command-mode panel
          SwapIntervalZero,  \* displays with swap_interval_zero_ set: fences are not used
          PowerModes,  \* the power modes SurfaceFlinger asks for
          HwErrors     \* how an ioctl may fail: "hardware", "shutdown"

VARIABLES disp,       \* HWCDisplay: one record per display
          validated,  \* HWCDisplay::validated_, one bitset for all displays
          layer,      \* HWCLayer and its sdm Layer: one record per layer
          base,       \* DisplayBase: one record per display
          hw,         \* the driver's frames: one record per display
          fence,      \* release fences: HWCLayer's queue, SurfaceFlinger's
          sf          \* SurfaceFlinger: the step of the frame and its view

vars == <<disp, validated, layer, base, hw, fence, sf>>

Target == "target"   \* the client target, last layer of every layer stack

ASSUME ConstantsAssumption == /\ Owner \in [Layers -> Displays]
                              /\ Target \notin Layers
                              /\ CmdMode \in BOOLEAN
                              /\ SwapIntervalZero \subseteq Displays

(* What a frame in the driver shows of each layer: nothing, the buffer the *)
(* layer holds now, or the one it held before.                             *)
Blank == [l \in Layers |-> "none"]
Frames == [Layers -> {"none", "cur", "prev"}]

(* A release fence: signalled or -1, or waiting for the frame on screen or *)
(* for the queued one to be replaced.                                      *)
Fences == {"none", "front", "next"}
Later(f, g) == IF "next" \in {f, g} THEN "next"
               ELSE IF "front" \in {f, g} THEN "front" ELSE "none"

LayersOf(d) == disp[d].layer_set
Active(d) == \/ base[d].state \in {"On", "Doze"}
             \/ base[d].state = "DozeSuspend" /\ d # "primary"

-----------------------------------------------------------------------------

NewLayer == [req |-> "Device", dev |-> "Device", sdm |-> "GPU",
             needs_validate |-> TRUE, geometry |-> FALSE,
             acquire |-> "none", secure |-> FALSE]
\* Variant of NewFences for mutation: the constructor pushes no fence.
NewFences_Empty == [queue |-> <<>>, held |-> "none"]
NewFences == [queue |-> <<"none">>, held |-> "none"]

Init == /\ disp = [d \in Displays |->
                    [layer_set |-> {}, flush |-> FALSE, flush_on_error |-> FALSE,
                     skip_validate |-> FALSE, skip_prepare |-> FALSE,
                     shutdown |-> FALSE, paused |-> FALSE, secure |-> FALSE,
                     changes |-> {}, target_dirty |-> TRUE, bypass |-> FALSE]]
        /\ validated = {}
        /\ layer = [l \in Layers |-> NewLayer]
        /\ base = [d \in Displays |->
                    [state |-> "Off", needs_validate |-> TRUE, hw_layers |-> {},
                     prepared |-> FALSE]]
        /\ hw = [d \in Displays |->
                  [front |-> Blank, next |-> Blank, content |-> "blank"]]
        /\ fence = [l \in Layers |-> NewFences]
        /\ sf = [at |-> [d \in Displays |-> "idle"],
                 type |-> [l \in Layers |-> "Device"],
                 latched |-> {}, sync |-> [l \in Layers |-> "done"],
                 bypassed |-> {}]

(* The driver scans a frame out until a vertical sync after the commit of  *)
(* the next one, and a commit waits for the frame before it to be taken:   *)
(* until the next commit the panel may show either of the last two frames. *)
(* When a frame is committed, the fence of the last one but one has        *)
(* signalled.                                                              *)
Aged(f) == IF f = "next" THEN "front" ELSE "none"
Replaced(d) ==
    [l \in Layers |->
      IF Owner[l] = d
      THEN [queue |-> [i \in DOMAIN fence[l].queue |-> Aged(fence[l].queue[i])],
            held |-> Aged(fence[l].held)]
      ELSE fence[l]]
Queued(d, frame, content) ==
    [hw EXCEPT ![d] = [front |-> @.next, next |-> frame, content |-> content]]

-----------------------------------------------------------------------------
(* SurfaceFlinger's calls on a layer, made between two frames.             *)

Idle(d) == sf.at[d] = "idle"

(* A layer identifier is used once; a model value is used again, with      *)
(* nothing left of the layer it named before.                              *)
CreateLayer(d, l) ==
    /\ Idle(d) /\ Owner[l] = d /\ l \notin LayersOf(d)
    /\ disp' = [disp EXCEPT ![d].layer_set = @ \union {l}]
    /\ layer' = [layer EXCEPT ![l] = NewLayer]
    /\ fence' = [fence EXCEPT ![l] = NewFences]
    /\ validated' = {}
    /\ UNCHANGED <<base, hw, sf>>

DestroyLayer(d, l) ==
    /\ Idle(d) /\ l \in LayersOf(d)
    /\ disp' = [disp EXCEPT ![d].layer_set = @ \ {l},
                            ![d].changes = {c \in @ : c[1] # l}]
    /\ layer' = [layer EXCEPT ![l] = NewLayer]
    /\ fence' = [fence EXCEPT ![l] = NewFences]
    /\ validated' = {}
    /\ hw' = [hw EXCEPT ![d].front[l] = "none", ![d].next[l] = "none"]
    /\ sf' = [sf EXCEPT !.type[l] = "Device", !.latched = @ \ {l},
                        !.sync[l] = "done", !.bypassed = @ \ {l}]
    /\ UNCHANGED base

Older(shown) == IF shown = "cur" THEN "prev" ELSE "none"

(* A new buffer with its acquire fence; the fence of the one before it is  *)
(* closed.  s: it is a secure-display one.                                 *)
SetLayerBuffer(d, l, s) ==
    /\ Idle(d) /\ l \in LayersOf(d) \ sf.latched
    /\ s => l \in SecureOnes
    /\ layer' = [layer EXCEPT ![l].acquire = "open", ![l].secure = s,
                              ![l].needs_validate = @ \/ layer[l].secure # s]
    /\ hw' = [hw EXCEPT ![d].front[l] = Older(@), ![d].next[l] = Older(@)]
    /\ sf' = [sf EXCEPT !.latched = @ \union {l}, !.sync[l] = "fresh"]
    /\ UNCHANGED <<disp, validated, base, fence>>

(* Blend mode, crop, frame, transform, plane alpha, z-order, dataspace, or *)
(* a buffer of another format or size.                                     *)
SetLayerGeometry(d, l) ==
    /\ Idle(d) /\ l \in LayersOf(d) /\ ~layer[l].geometry
    /\ layer' = [layer EXCEPT ![l].geometry = TRUE]
    /\ UNCHANGED <<disp, validated, base, hw, fence, sf>>

SetLayerSurfaceDamage(d, l) ==
    /\ Idle(d) /\ l \in LayersOf(d) /\ ~layer[l].needs_validate
    /\ layer' = [layer EXCEPT ![l].needs_validate = TRUE]
    /\ UNCHANGED <<disp, validated, base, hw, fence, sf>>

SetLayerCompositionType(d, l, t) ==
    /\ Idle(d) /\ l \in LayersOf(d) /\ sf.type[l] # t
    /\ layer' = [layer EXCEPT ![l].req = t]
    /\ sf' = [sf EXCEPT !.type[l] = t]
    /\ UNCHANGED <<disp, validated, base, hw, fence>>

-----------------------------------------------------------------------------
(* DisplayBase::Flush and the driver's empty commit behind it.             *)

FlushedBase(d, ok) ==
    IF Active(d)
    THEN [base EXCEPT ![d].hw_layers = {}, ![d].prepared = FALSE,
                      ![d].needs_validate = @ \/ ok]
    ELSE base

(* The driver's side: an empty frame replaces the last one, or what is on  *)
(* screen stays unflushed.  The hardware has no PPP (has_ppp is false), on *)
(* which only secure flushes are made.                                     *)
FlushedHw(d, done) ==
    IF done THEN Queued(d, Blank, "blank")
    ELSE [hw EXCEPT ![d].content = IF @ = "blank" THEN @ ELSE "unflushed"]
FlushedFence(d, done) == IF done THEN Replaced(d) ELSE fence

Flush(d, ok) == /\ base' = FlushedBase(d, ok)
                /\ hw' = FlushedHw(d, Active(d) /\ ok)

(* An ioctl that succeeds, or one that fails.                              *)
Outcomes == {"ok"} \union HwErrors

-----------------------------------------------------------------------------
(* Validate: build the layer stack and prepare it.                         *)

(* What SurfaceFlinger is told by getChangedCompositionTypes after a       *)
(* validate that succeeded.                                                *)
Told(d, changes, valid) ==
    [sf EXCEPT !.at[d] = "validated",
               !.type = [l \in Layers |->
                          IF valid /\ \E c \in changes : c[1] = l
                          THEN (CHOOSE c \in changes : c[1] = l)[2]
                          ELSE sf.type[l]]]
Refused(d) == [sf EXCEPT !.at[d] = "accepted"]

SecureNow(d) == \E l \in LayersOf(d) : layer[l].secure

MarkLayersForGPUBypass(d) ==
    [l \in Layers |-> IF l \in LayersOf(d) THEN [layer[l] EXCEPT !.sdm = "SDE"]
                      ELSE layer[l]]

(* Paused updates, or an external display that stays dark during a secure  *)
(* session: no stack is built.                                             *)
Bypasses(d) == IF d = "primary" THEN disp[d].paused ELSE disp[d].secure

ValidateBypass(d) ==
    /\ Idle(d) /\ Bypasses(d)
    /\ layer' = MarkLayersForGPUBypass(d)
    /\ validated' = validated \union {d}
    /\ disp' = [disp EXCEPT ![d].bypass = TRUE]
    /\ sf' = Told(d, disp[d].changes, LayersOf(d) # {})
    /\ UNCHANGED <<base, hw, fence>>

(* BuildLayerStack: every layer starts as GPU-composed, and the stack is   *)
(* secure if one of its layers is.  On the primary a change of that has    *)
(* the next prepare skipped; the external display is flushed at once when  *)
(* its stack becomes secure.  With swap_interval_zero_ the acquire fences  *)
(* are closed here.                                                        *)
AcquireFence(d, l) == IF d \in SwapIntervalZero THEN "none" ELSE layer[l].acquire
BuildLayerStack(d) ==
    [l \in Layers |->
      IF l \in LayersOf(d)
      THEN [layer[l] EXCEPT !.sdm = "GPU", !.acquire = AcquireFence(d, l)]
      ELSE layer[l]]

\* Variant of SetSecureDisplay for mutation: the next frame is prepared.
SetSecureDisplay_NoFlush(d) == [disp[d] EXCEPT !.secure = SecureNow(d)]
SetSecureDisplay(d) ==
    [disp[d] EXCEPT !.secure = SecureNow(d),
                    !.skip_prepare = IF d = "primary" /\ disp[d].secure # SecureNow(d)
                                     THEN ~CmdMode ELSE @]

FlushesExternal(d) == d = "external" /\ SecureNow(d)
BuiltBase(d, ok) ==
    [(IF FlushesExternal(d) THEN FlushedBase(d, ok) ELSE base)
        EXCEPT ![d].prepared = FALSE]
BuiltValidated(d) == IF FlushesExternal(d) THEN {} ELSE validated

Builds(d, ok) == /\ Idle(d) /\ ~Bypasses(d)
                 /\ IF FlushesExternal(d)
                    THEN /\ hw' = FlushedHw(d, Active(d) /\ ok)
                         /\ fence' = FlushedFence(d, Active(d) /\ ok)
                    ELSE UNCHANGED <<hw, fence>>

(* An empty stack is flushed.  The primary sets its bit by assigning the   *)
(* whole bitset, which takes the other displays' bits away.                *)
ValidateEmpty(d) ==
    /\ Builds(d, TRUE) /\ LayersOf(d) = {}
    /\ disp' = [disp EXCEPT ![d] = [SetSecureDisplay(d) EXCEPT !.flush = TRUE]]
    /\ validated' = IF d = "primary" THEN {"primary"} ELSE validated
    /\ base' = BuiltBase(d, TRUE)
    /\ sf' = Told(d, {}, FALSE)
    /\ UNCHANGED layer

(* Prepare is refused without a try: the driver is shutting down.          *)
ValidateShutdown(d, ok) ==
    /\ Builds(d, ok) /\ LayersOf(d) # {} /\ disp[d].shutdown
    /\ disp' = [disp EXCEPT ![d] = [SetSecureDisplay(d) EXCEPT !.changes = {}]]
    /\ validated' = BuiltValidated(d)
    /\ base' = BuiltBase(d, ok)
    /\ layer' = BuildLayerStack(d)
    /\ sf' = Refused(d)

(* The end of PrepareLayerStack: SDM's choice becomes the layer's type,    *)
(* and what differs from SurfaceFlinger's request is a change.             *)
SetComposition(sdm) == IF sdm = "GPU" THEN "Client" ELSE "Device"

\* Variant of Composed for mutation: the acquire fence is closed too early.
Composed_ClosesFence(d, sde) ==
    [l \in Layers |->
      IF l \in LayersOf(d)
      THEN [layer[l] EXCEPT !.sdm = IF l \in sde THEN "SDE" ELSE "GPU",
                            !.dev = SetComposition(IF l \in sde THEN "SDE" ELSE "GPU"),
                            !.needs_validate = FALSE, !.acquire = "none"]
      ELSE layer[l]]
Composed(d, sde) ==
    [l \in Layers |->
      IF l \in LayersOf(d)
      THEN [layer[l] EXCEPT !.sdm = IF l \in sde THEN "SDE" ELSE "GPU",
                            !.dev = SetComposition(IF l \in sde THEN "SDE" ELSE "GPU"),
                            !.needs_validate = FALSE,
                            !.acquire = AcquireFence(d, l)]
      ELSE layer[l]]

LayerChanges(d, sde) ==
    {<<l, SetComposition(IF l \in sde THEN "SDE" ELSE "GPU")>> :
        l \in {k \in LayersOf(d) :
                 layer[k].req # SetComposition(IF k \in sde THEN "SDE" ELSE "GPU")}}

(* A secure session starts or ends: nothing is prepared, the frame is to   *)
(* be flushed.                                                             *)
ValidateSkipPrepare(d, ok) ==
    /\ Builds(d, ok) /\ LayersOf(d) # {} /\ ~disp[d].shutdown
    /\ SetSecureDisplay(d).skip_prepare
    /\ LET changes == LayerChanges(d, LayersOf(d)) IN
       /\ disp' = [disp EXCEPT ![d] =
                    [SetSecureDisplay(d) EXCEPT
                       !.skip_prepare = FALSE, !.flush = TRUE, !.bypass = TRUE,
                       !.changes = changes, !.target_dirty = FALSE,
                       !.skip_validate = FALSE]]
       /\ sf' = Told(d, changes, TRUE)
    /\ layer' = Composed(d, LayersOf(d))
    /\ validated' = BuiltValidated(d) \union {d}
    /\ base' = BuiltBase(d, ok)

(* DisplayBase::Prepare finds the display inactive.                        *)
Prepares(d, ok) == /\ Builds(d, ok) /\ LayersOf(d) # {} /\ ~disp[d].shutdown
                   /\ ~SetSecureDisplay(d).skip_prepare

ValidateInactive(d, ok) ==
    /\ Prepares(d, ok) /\ ~Active(d)
    /\ disp' = [disp EXCEPT ![d] = [SetSecureDisplay(d) EXCEPT !.changes = {}]]
    /\ base' = [BuiltBase(d, ok) EXCEPT ![d].needs_validate = TRUE]
    /\ layer' = BuildLayerStack(d)
    /\ validated' = BuiltValidated(d)
    /\ sf' = Refused(d)

(* The strategy offers compositions until the driver accepts one.  Which   *)
(* layers get a pipe is its choice; a layer SurfaceFlinger draws itself    *)
(* never does.  The client target is shown if some layer has none.         *)
ValidatePrepared(d, ok, sde) ==
    /\ Prepares(d, ok) /\ Active(d)
    /\ sde \subseteq {l \in LayersOf(d) : layer[l].req # "Client"}
    /\ LET changes == LayerChanges(d, sde) IN
       /\ disp' = [disp EXCEPT ![d] =
                    [SetSecureDisplay(d) EXCEPT
                       !.bypass = FALSE, !.changes = changes,
                       !.target_dirty = FALSE, !.skip_validate = FALSE]]
       /\ sf' = Told(d, changes, TRUE)
    /\ base' = [BuiltBase(d, ok) EXCEPT
                  ![d].needs_validate = FALSE, ![d].prepared = TRUE,
                  ![d].hw_layers = sde \union (IF sde = LayersOf(d) THEN {}
                                               ELSE {Target})]
    /\ layer' = Composed(d, sde)
    /\ validated' = BuiltValidated(d) \union {d}

(* No composition is accepted, or the driver is shutting down.             *)
ValidateFails(d, ok, r) ==
    /\ Prepares(d, ok) /\ Active(d) /\ r \in HwErrors
    /\ disp' = [disp EXCEPT ![d] = [SetSecureDisplay(d) EXCEPT
                  !.changes = {}, !.shutdown = r = "shutdown",
                  !.flush = @ \/ r # "shutdown"]]
    /\ base' = [BuiltBase(d, ok) EXCEPT ![d].needs_validate = TRUE,
                                        ![d].hw_layers = {}]
    /\ layer' = BuildLayerStack(d)
    /\ validated' = BuiltValidated(d)
    /\ sf' = Refused(d)

AcceptDisplayChanges(d) ==
    /\ sf.at[d] = "validated"
    /\ layer' = IF d \in validated
                THEN [l \in Layers |->
                       IF \E c \in disp[d].changes : c[1] = l /\ l \in LayersOf(d)
                       THEN [layer[l] EXCEPT
                              !.req = (CHOOSE c \in disp[d].changes : c[1] = l)[2]]
                       ELSE layer[l]]
                ELSE layer
    /\ sf' = [sf EXCEPT !.at[d] = "accepted"]
    /\ UNCHANGED <<disp, validated, base, hw, fence>>

(* SurfaceFlinger has drawn its layers; the damage differs from before.    *)
SetClientTarget(d) ==
    /\ sf.at[d] = "accepted" /\ ~disp[d].target_dirty
    /\ \E l \in LayersOf(d) : sf.type[l] = "Client"
    /\ disp' = [disp EXCEPT ![d].target_dirty = TRUE]
    /\ UNCHANGED <<validated, layer, base, hw, fence, sf>>

-----------------------------------------------------------------------------
(* Present: commit the prepared stack, or flush, and pass the fences on.   *)

Presents(d) == sf.at[d] \in {"idle", "accepted"}

\* Variant of CanSkipValidate for mutation: client-composed layers are skipped.
CanSkipValidate_Client(d) ==
    /\ ~disp[d].target_dirty
    /\ \A l \in LayersOf(d) : ~layer[l].needs_validate /\ ~layer[l].geometry
CanSkipValidate(d) ==
    /\ ~disp[d].target_dirty
    /\ \A l \in LayersOf(d) : /\ ~layer[l].needs_validate /\ ~layer[l].geometry
                              /\ layer[l].dev # "Client"

StillValidated(d) == /\ d \in validated
                     /\ disp[d].skip_validate => CanSkipValidate(d)

CloseAcquireFds(d) ==
    [l \in Layers |-> IF l \in LayersOf(d) THEN [layer[l] EXCEPT !.acquire = "none"]
                      ELSE layer[l]]

(* SurfaceFlinger after a present: whether it gets the release fences, and *)
(* which buffers the driver has been given.                                *)
Presented(d, at, committed) ==
    [sf EXCEPT !.at[d] = at,
               !.sync = [l \in Layers |->
                          IF l \notin LayersOf(d) THEN sf.sync[l]
                          ELSE IF committed THEN "done"
                          ELSE IF sf.sync[l] = "fresh" THEN "retried"
                          ELSE sf.sync[l]]]

(* PostCommitLayerStack passes every layer's fence on: that of the frame   *)
(* just committed for a layer with a pipe, else -1.                        *)
PostCommitLayer(d) ==
    [l \in Layers |-> IF l \in LayersOf(d)
                      THEN [layer[l] EXCEPT !.geometry = FALSE, !.acquire = "none"]
                      ELSE layer[l]]
\* Variant of PushReleaseFence for mutation: no -1 for a layer without a pipe.
PushReleaseFence_OnlyShown(d, fences, shown) ==
    [l \in Layers |->
      IF l \in LayersOf(d) \cap shown /\ layer[l].sdm # "GPU"
      THEN [fences[l] EXCEPT !.queue = Append(@, "next")]
      ELSE fences[l]]
PushReleaseFence(d, fences, shown) ==
    [l \in Layers |->
      IF l \in LayersOf(d)
      THEN [fences[l] EXCEPT !.queue =
              Append(@, IF l \in shown /\ layer[l].sdm # "GPU" THEN "next" ELSE "none")]
      ELSE fences[l]]

(* With swap_interval_zero_ the driver's fences are closed and none is     *)
(* passed on, unless the frame is flushed.                                 *)
FrameFences(d, fences, shown) ==
    IF d \in SwapIntervalZero THEN fences ELSE PushReleaseFence(d, fences, shown)
PostCommitLayerStack(d) == /\ layer' = PostCommitLayer(d)
                           /\ fence' = FrameFences(d, fence, {})

(* PostCommitLayerStack of a frame to be flushed: the flush is made if a   *)
(* frame was committed since the last one, and every layer gets -1.        *)
\* Variant of PostCommitFlush for mutation: the frame stays validated.
PostCommitFlush_Validated(d, ok) ==
    /\ IF disp[d].flush_on_error
       THEN /\ Flush(d, ok)
            /\ fence' = PushReleaseFence(d, FlushedFence(d, Active(d) /\ ok), {})
       ELSE /\ fence' = PushReleaseFence(d, fence, {})
            /\ UNCHANGED <<base, hw>>
    /\ layer' = PostCommitLayer(d)
    /\ UNCHANGED validated

PostCommitFlush(d, ok) ==
    /\ IF disp[d].flush_on_error
       THEN /\ Flush(d, ok)
            /\ fence' = PushReleaseFence(d, FlushedFence(d, Active(d) /\ ok), {})
            /\ validated' = validated \ {d}
       ELSE /\ fence' = PushReleaseFence(d, fence, {})
            /\ UNCHANGED <<base, hw, validated>>
    /\ layer' = PostCommitLayer(d)

(* Updates paused, or a secure session on the external display: the driver *)
(* gets nothing and no fence is pushed, not even -1.                       *)
PresentBypass(d, ok) ==
    /\ Presents(d) /\ Bypasses(d)
    /\ IF d = "primary"
       THEN Flush(d, ok) /\ fence' = FlushedFence(d, Active(d) /\ ok)
       ELSE UNCHANGED <<base, hw, fence>>
    /\ layer' = CloseAcquireFds(d)
    /\ sf' = [Presented(d, "presented", FALSE) EXCEPT
                !.bypassed = @ \union LayersOf(d)]
    /\ UNCHANGED <<disp, validated>>

(* The frame Validate marked for a flush.                                  *)
PresentFlush(d, ok) ==
    /\ Presents(d) /\ ~Bypasses(d) /\ disp[d].flush
    /\ PostCommitFlush(d, ok)
    /\ disp' = [disp EXCEPT ![d].flush = FALSE, ![d].flush_on_error = FALSE]
    /\ sf' = Presented(d, "presented", FALSE)

Commits(d) == Presents(d) /\ ~Bypasses(d) /\ ~disp[d].flush

PresentNotValidated(d) ==
    /\ Commits(d) /\ ~StillValidated(d)
    /\ validated' = validated \ {d}
    /\ layer' = CloseAcquireFds(d)
    /\ sf' = Presented(d, "idle", FALSE)
    /\ UNCHANGED <<disp, base, hw, fence>>

PresentNothing(d) ==
    /\ Commits(d) /\ StillValidated(d)
    /\ disp[d].shutdown \/ LayersOf(d) = {}
    /\ PostCommitLayerStack(d)
    /\ sf' = Presented(d, "presented", FALSE)
    /\ UNCHANGED <<disp, validated, base, hw>>

CommitsStack(d) == /\ Commits(d) /\ StillValidated(d)
                   /\ ~disp[d].shutdown /\ LayersOf(d) # {}

(* DisplayBase::Commit on an inactive display: the frame is dropped and    *)
(* SurfaceFlinger is told nothing.                                         *)
PresentInactive(d) ==
    /\ CommitsStack(d) /\ ~Active(d)
    /\ base' = [base EXCEPT ![d].needs_validate = TRUE]
    /\ disp' = [disp EXCEPT ![d].skip_validate = TRUE]
    /\ PostCommitLayerStack(d)
    /\ sf' = Presented(d, "presented", FALSE)
    /\ UNCHANGED <<validated, hw>>

(* DisplayBase has not prepared since its last flush.                      *)
PresentNotPrepared(d) ==
    /\ CommitsStack(d) /\ Active(d) /\ base[d].needs_validate
    /\ validated' = validated \ {d}
    /\ layer' = CloseAcquireFds(d)
    /\ sf' = Presented(d, "idle", FALSE)
    /\ UNCHANGED <<disp, base, hw, fence>>

(* The atomic commit.                                                      *)
CommitsFrame(d) == /\ CommitsStack(d) /\ Active(d) /\ ~base[d].needs_validate

(* The prepared layers are known by their place in the stack.  If nothing  *)
(* was prepared since it was built, the pipes left take what is there now. *)
Shown(d) == IF ~disp[d].bypass THEN {base[d].hw_layers}
            ELSE {s \in SUBSET LayersOf(d) :
                    Cardinality(s) <= Cardinality(base[d].hw_layers)}

PresentCommit(d, shown) ==
    /\ CommitsFrame(d) /\ shown \in Shown(d)
    /\ hw' = Queued(d, [l \in Layers |-> IF l \in shown THEN "cur" ELSE "none"],
                    IF disp[d].bypass THEN "unprepared"
                    ELSE IF SecureNow(d) THEN "secure" ELSE "plain")
    /\ disp' = [disp EXCEPT ![d].flush_on_error = TRUE, ![d].skip_validate = TRUE]
    /\ layer' = PostCommitLayer(d)
    /\ fence' = FrameFences(d, Replaced(d), shown)
    /\ sf' = Presented(d, "presented", TRUE)
    /\ UNCHANGED <<validated, base>>

(* The driver refuses the frame: what it shows is flushed instead.         *)
PresentFails(d, ok) ==
    /\ CommitsFrame(d) /\ "hardware" \in HwErrors
    /\ PostCommitFlush(d, ok)
    /\ disp' = [disp EXCEPT ![d].skip_validate = TRUE, ![d].flush_on_error = FALSE]
    /\ sf' = Presented(d, "presented", FALSE)

PresentShutdown(d) ==
    /\ CommitsFrame(d) /\ "shutdown" \in HwErrors
    /\ disp' = [disp EXCEPT ![d].shutdown = TRUE]
    /\ layer' = CloseAcquireFds(d)
    /\ sf' = Presented(d, "idle", FALSE)
    /\ UNCHANGED <<validated, base, hw, fence>>

PopReleaseFence(l) == IF fence[l].queue = <<>> THEN "none" ELSE Head(fence[l].queue)

(* SurfaceFlinger hands the buffer a layer showed before back to its       *)
(* producer, with every fence it got for it; a fence that comes while the  *)
(* buffer is still the current one is kept for later.                      *)
GetReleaseFences(d) ==
    /\ sf.at[d] = "presented"
    /\ fence' = [l \in Layers |->
                  IF l \in LayersOf(d)
                  THEN [queue |-> IF fence[l].queue = <<>> THEN <<>>
                                  ELSE Tail(fence[l].queue),
                        held |-> IF l \in sf.latched THEN "none"
                                 ELSE Later(fence[l].held, PopReleaseFence(l))]
                  ELSE fence[l]]
    /\ sf' = [sf EXCEPT !.at[d] = "idle", !.latched = @ \ LayersOf(d)]
    /\ UNCHANGED <<disp, validated, layer, base, hw>>

-----------------------------------------------------------------------------
(* Power and the callers that are not SurfaceFlinger's frame.              *)

Signalled(d) == [l \in Layers |->
                  IF Owner[l] = d
                  THEN [queue |-> [i \in DOMAIN fence[l].queue |-> "none"],
                        held |-> "none"]
                  ELSE fence[l]]

(* SetPowerMode and DisplayBase::SetDisplayState.  A power-off flushes the *)
(* driver and then turns the panel off, which frees every buffer; either   *)
(* may fail, and flushed says which.                                       *)
PowerOff(d, r, flushed) ==
    /\ Idle(d) /\ ~disp[d].shutdown
    /\ base[d].state # "Off"
    /\ (r = "ok" => flushed) /\ (r = "shutdown" => ~flushed)
    /\ base' = [base EXCEPT ![d].hw_layers = {}, ![d].prepared = FALSE,
                            ![d].state = IF r = "ok" THEN "Off" ELSE @]
    /\ validated' = {}
    /\ disp' = [disp EXCEPT ![d].flush_on_error = @ /\ r # "ok",
                            ![d].shutdown = r = "shutdown"]
    /\ IF r = "ok"
       THEN /\ hw' = [hw EXCEPT ![d] = [front |-> Blank, next |-> Blank,
                                        content |-> "blank"]]
            /\ fence' = Signalled(d)
       ELSE /\ hw' = FlushedHw(d, flushed)
            /\ fence' = FlushedFence(d, flushed)
    /\ UNCHANGED <<layer, sf>>

(* Any other mode, or Off once more, is one call or none.                  *)
SetPowerMode(d, mode, r) ==
    /\ Idle(d) /\ ~disp[d].shutdown
    /\ mode # "Off" \/ base[d].state = "Off"
    /\ (base[d].state = mode => r = "ok") /\ (mode # "On" => r # "shutdown")
    /\ base' = [base EXCEPT ![d].state = IF r = "ok" THEN mode ELSE @]
    /\ validated' = {}
    /\ disp' = [disp EXCEPT ![d].flush_on_error = @ /\ mode # "Off",
                            ![d].shutdown = r = "shutdown"]
    /\ UNCHANGED <<hw, layer, fence, sf>>

(* The session's sequence lock keeps services out of a frame that has been *)
(* validated and not presented.                                            *)
Unlocked(d) == sf.at[d] \notin {"validated", "accepted"}

ToggleScreenUpdates(enable) ==
    /\ "primary" \in Displays /\ Unlocked("primary")
    /\ disp["primary"].paused = enable
    /\ disp' = [disp EXCEPT !["primary"].paused = ~enable]
    /\ validated' = {}
    /\ UNCHANGED <<layer, base, hw, fence, sf>>

(* A thermal event comes on the event thread, at any time, and so does a   *)
(* service that sets the color mode or animating_.  Brightness, a new      *)
(* configuration, a frame dump and an HDCP level reset the bits the same   *)
(* way, outside the sequence.                                              *)
HandleEvent == /\ validated # {}
               /\ validated' = {}
               /\ UNCHANGED <<disp, layer, base, hw, fence, sf>>

-----------------------------------------------------------------------------

LayerCalls(d) ==
    \E l \in Layers :
       \/ CreateLayer(d, l)
       \/ DestroyLayer(d, l)
       \/ \E s \in BOOLEAN : SetLayerBuffer(d, l, s)
       \/ SetLayerGeometry(d, l)
       \/ SetLayerSurfaceDamage(d, l)
       \/ \E t \in {"Device", "Client"} : SetLayerCompositionType(d, l, t)

Validate(d) ==
    \/ ValidateBypass(d)
    \/ ValidateEmpty(d)
    \/ \E ok \in BOOLEAN :
         /\ ok \/ FlushesExternal(d)
         /\ \/ ValidateShutdown(d, ok)
            \/ ValidateSkipPrepare(d, ok)
            \/ ValidateInactive(d, ok)
            \/ \E sde \in SUBSET Layers : ValidatePrepared(d, ok, sde)
            \/ \E r \in HwErrors : ValidateFails(d, ok, r)

Present(d) ==
    \/ \E ok \in BOOLEAN : PresentBypass(d, ok)
    \/ \E ok \in BOOLEAN : PresentFlush(d, ok)
    \/ PresentNotValidated(d)
    \/ PresentNothing(d)
    \/ PresentInactive(d)
    \/ PresentNotPrepared(d)
    \/ \E shown \in Shown(d) : PresentCommit(d, shown)
    \/ \E ok \in BOOLEAN : PresentFails(d, ok)
    \/ PresentShutdown(d)

Next == \/ \E d \in Displays :
             \/ LayerCalls(d)
             \/ Validate(d)
             \/ AcceptDisplayChanges(d)
             \/ SetClientTarget(d)
             \/ Present(d)
             \/ GetReleaseFences(d)
             \/ \E r \in Outcomes, f \in BOOLEAN : PowerOff(d, r, f)
             \/ \E m \in PowerModes, r \in Outcomes : SetPowerMode(d, m, r)
        \/ \E enable \in BOOLEAN : ToggleScreenUpdates(enable)
        \/ HandleEvent

Spec == Init /\ [][Next]_vars

-----------------------------------------------------------------------------
(* A present whose frame reaches the driver. *)
Committed(d) == \E shown \in Shown(d) : PresentCommit(d, shown)

(* "Client must ensure that layer stack is same as previous call to        *)
(* Prepare" (include/core/display_interface.h:303): what is committed was  *)
(* prepared since the stack was built, the display flushed or turned off.  *)
(* Except that a frame marked for GPU bypass is taken for a validated one: *)
(* when it is not flushed, because nothing was committed since the display *)
(* came on, a present without a validate commits what is left of the last  *)
(* prepared stack.                                                         *)
CommitsPrepared ==
    [][\A d \in Displays :
         Committed(d) => base[d].prepared \/ disp[d].bypass]_vars

(* Every layer of a committed frame is on screen: it has a pipe, or        *)
(* SurfaceFlinger has drawn it and the client target has one.  The same    *)
(* frames are excepted, and so is a layer of whose type SurfaceFlinger and *)
(* HWCLayer have different notions: AcceptDisplayChanges refuses a change  *)
(* when the bits were reset after the validate that asked for it.          *)
NothingMissing ==
    [][\A d \in Displays : Committed(d) /\ ~disp[d].bypass =>
         \A l \in {k \in LayersOf(d) : sf.type[k] = layer[k].req} :
            \/ l \in base[d].hw_layers
            \/ Target \in base[d].hw_layers /\ sf.type[l] = "Client"]_vars

(* The driver waits for the producer of a buffer it shows: the buffer's    *)
(* first commit has its acquire fence.  Except for a buffer whose earlier  *)
(* present was refused or not committed: that present closed the fence;    *)
(* and except on a display with swap_interval_zero_, whose validate closes *)
(* it.                                                                     *)
AcquireHonoured ==
    [][\A d \in Displays \ SwapIntervalZero : Committed(d) =>
         \A l \in {k \in LayersOf(d) : hw'[d].next[k] = "cur"} :
            sf.sync[l] = "fresh" => layer[l].acquire = "open"]_vars

(* A buffer goes back to its producer with a fence that does not signal    *)
(* while the panel may still show it, whatever became of the frames since; *)
(* unless a present without a push has set the layer's fences off by a     *)
(* frame, or the display has swap_interval_zero_: there the driver's fence *)
(* is closed and the buffer goes back with none.                           *)
NoEarlyRelease ==
    [][\A d \in Displays \ SwapIntervalZero : GetReleaseFences(d) =>
         \A l \in (LayersOf(d) \cap sf.latched) \ sf.bypassed :
            LET given == Later(fence[l].held, PopReleaseFence(l)) IN
              /\ hw[d].next[l] = "prev" => given = "next"
              /\ hw[d].front[l] = "prev" => given # "none"]_vars

(* "push a -1 to preserve release fence circulation semantics"             *)
(* (hwc_display.cpp:1272): between two frames every layer has the fence of *)
(* one frame left to hand out, the one for the buffer it shows.  Where     *)
(* swap_interval_zero_ is set, fences are not to circulate                 *)
(* (hwc_display.cpp:1261).                                                 *)
FencesPreserved ==
    \A d \in Displays \ SwapIntervalZero : Idle(d) =>
        \A l \in LayersOf(d) : Len(fence[l].queue) = 1

(* No fence of the driver is in a layer's queue.                           *)
Discarded(l) == \A i \in DOMAIN fence[l].queue : fence[l].queue[i] = "none"

(* The same of the layers no bypassed present has taken a fence from.      *)
(* "If swapinterval property is set to 0 ... do not update f/w release     *)
(* fences and discard fences from driver" (hwc_display.cpp:1261): on such  *)
(* a display no fence of the driver is left to hand out.                   *)
FencesCirculate ==
    \A d \in Displays : Idle(d) =>
        \A l \in LayersOf(d) \ sf.bypassed :
            IF d \in SwapIntervalZero
            THEN Discarded(l)
            ELSE Len(fence[l].queue) = 1

(* "SecureDisplay state changed ... Needs Flush!!" (hwc_display.cpp:1911): *)
(* secure and other content never follow each other on a video-mode panel  *)
(* without a flush between them, whether or not the driver does it, and    *)
(* the external display never shows secure content.                        *)
SecureFlushed ==
    [][\A d \in Displays : Committed(d) =>
         /\ d = "primary" /\ ~CmdMode =>
              {hw[d].content, hw'[d].content} # {"plain", "secure"}
         /\ d = "external" => hw'[d].content # "secure"]_vars

-----------------------------------------------------------------------------
(* The inductive invariant of DisplayFrameProofs.                          *)

CompositionTypes == {"Device", "Client"}
DispRecord ==
    [layer_set : SUBSET Layers, flush : BOOLEAN, flush_on_error : BOOLEAN,
     skip_validate : BOOLEAN, skip_prepare : BOOLEAN, shutdown : BOOLEAN,
     paused : BOOLEAN, secure : BOOLEAN,
     changes : SUBSET (Layers \X CompositionTypes), target_dirty : BOOLEAN,
     bypass : BOOLEAN]
LayerRecord ==
    [req : CompositionTypes, dev : CompositionTypes, sdm : {"GPU", "SDE"},
     needs_validate : BOOLEAN, geometry : BOOLEAN, acquire : {"none", "open"},
     secure : BOOLEAN]
BaseRecord ==
    [state : {"Off"} \union PowerModes, needs_validate : BOOLEAN,
     hw_layers : SUBSET (Layers \union {Target}), prepared : BOOLEAN]
HwRecord ==
    [front : Frames, next : Frames,
     content : {"blank", "plain", "secure", "unprepared", "unflushed"}]
FenceRecord == [queue : Seq(Fences), held : Fences]
SfRecord ==
    [at : [Displays -> {"idle", "validated", "accepted", "presented"}],
     type : [Layers -> CompositionTypes], latched : SUBSET Layers,
     sync : [Layers -> {"done", "fresh", "retried"}], bypassed : SUBSET Layers]

TypeOK ==
    /\ disp \in [Displays -> DispRecord]
    /\ validated \subseteq Displays
    /\ layer \in [Layers -> LayerRecord]
    /\ base \in [Displays -> BaseRecord]
    /\ hw \in [Displays -> HwRecord]
    /\ fence \in [Layers -> FenceRecord]
    /\ sf \in SfRecord

(* A display deals with its own layers only.                               *)
OwnInv(d) == /\ \A l \in LayersOf(d) : Owner[l] = d
             /\ \A c \in disp[d].changes : Owner[c[1]] = d

(* A flush Validate has asked for is made by the present that follows; the *)
(* external display's stays asked for once a secure session darkens it.    *)
FlushInv(d) ==
    disp[d].flush =>
        IF Bypasses(d) THEN d # "primary" ELSE sf.at[d] \in {"validated", "accepted"}

(* A frame that DisplayBase would commit. *)
Ready(d) == /\ d \in validated /\ LayersOf(d) # {} /\ ~disp[d].shutdown /\ ~Bypasses(d)
            /\ ~base[d].needs_validate

(* Such a frame was prepared, and nothing has undone it: between frames    *)
(* what could have makes CanSkipValidate false.                            *)
PreparedInv(d) ==
    Ready(d) /\ ~disp[d].bypass =>
        /\ base[d].prepared /\ ~disp[d].flush /\ ~disp[d].skip_prepare
        /\ base[d].hw_layers \subseteq LayersOf(d) \union {Target}
        /\ \A l \in LayersOf(d) \ base[d].hw_layers :
              /\ Target \in base[d].hw_layers /\ layer[l].dev = "Client"
              /\ sf.at[d] \in {"validated", "accepted"} /\ sf.type[l] = layer[l].req =>
                    sf.type[l] = "Client"
              /\ sf.at[d] = "validated" =>
                    \A c \in disp[d].changes : c[1] = l => sf.type[l] = "Client"
        /\ sf.at[d] \in {"idle", "presented"} => disp[d].skip_validate
        /\ \/ SecureNow(d) = disp[d].secure
           \/ sf.at[d] = "idle" /\ \E l \in LayersOf(d) : layer[l].needs_validate

(* Whatever it shows has a hardware composition. *)
ComposedInv(d) ==
    Ready(d) => \A l \in LayersOf(d) :
        disp[d].bypass \/ l \in base[d].hw_layers => layer[l].sdm = "SDE"

(* What the panel shows, and the flush that is due. *)
ScreenInv(d) ==
    /\ base[d].state = "Off" => hw[d].content = "blank"
    /\ hw[d].content \in {"plain", "secure", "unprepared"} => disp[d].flush_on_error
    /\ d = "primary" /\ ~CmdMode
          /\ hw[d].content = (IF disp[d].secure THEN "plain" ELSE "secure") =>
             disp[d].flush \/ disp[d].skip_prepare

(* A fence that signals no sooner than a buffer of a layer is gone from    *)
(* the panel.                                                              *)
Covers(f, frames, l, buffer) ==
    /\ frames.next[l] = buffer => f = "next"
    /\ frames.front[l] = buffer => f # "none"

(* The fences a layer is owed: the one in its queue, and what came before  *)
(* it while the buffer was the same.  A present that is not yet answered   *)
(* has put the fence of its frame behind it.                               *)
Owed(l) == Later(fence[l].held, fence[l].queue[1])
Pushed(d, l) == IF sf.at[d] = "presented" THEN fence[l].queue[2] ELSE "none"
Safe(owed, pushed, frames, l) ==
    IF l \in sf.latched
    THEN Covers(owed, frames, l, "prev") /\ Covers(pushed, frames, l, "cur")
    ELSE Covers(Later(owed, pushed), frames, l, "cur")
Protected(d, l) ==
    d \notin SwapIntervalZero =>
        /\ Len(fence[l].queue) = IF sf.at[d] = "presented" THEN 2 ELSE 1
        /\ Safe(Owed(l), Pushed(d, l), hw[d], l)

FenceInv(d) ==
    /\ \A l \in LayersOf(d) \ sf.bypassed : Protected(d, l)
    /\ \A l \in Layers : Owner[l] = d /\ l \notin LayersOf(d) =>
          hw[d].front[l] = "none" /\ hw[d].next[l] = "none"

(* The acquire fence of a buffer no present has taken yet is open, unless  *)
(* a validate has closed it.                                               *)
AcquireInv(d) ==
    \A l \in Layers : Owner[l] = d /\ sf.sync[l] = "fresh" =>
        (layer[l].acquire = "open" \/ d \in SwapIntervalZero) /\ l \in LayersOf(d)

DisplayInv(d) == /\ OwnInv(d) /\ FlushInv(d) /\ PreparedInv(d) /\ ComposedInv(d)
                 /\ ScreenInv(d) /\ FenceInv(d) /\ AcquireInv(d)
IInv == TypeOK /\ \A d \in Displays : DisplayInv(d)

(* The fences of a display with swap_interval_zero_ are all -1.            *)
DiscardInv == \A l \in Layers : Owner[l] \in SwapIntervalZero => Discarded(l)
=============================================================================
