-------------------------------- MODULE Power --------------------------------
(***************************************************************************)
(* The hint half of the power HAL (hardware/power-libperfmgr/Power.cpp)    *)
(* and what surrounds it: the HintManager of libperfmgr with the property  *)
(* nodes of powerhint.json, the properties the constructor restores its    *)
(* state from, and the rules of the service's .rc file that restart the    *)
(* HAL when one of its clients dies.                                       *)
(*                                                                         *)
(* The service has one binder thread (service.cpp:45), so hint calls are   *)
(* serialised.  A call is the sequence of operations its switch case       *)
(* performs; they run one by one, because the process may die, and the     *)
(* HintManager's looper thread may write a property, between any two.      *)
(* INTERACTION goes to InteractionHandler, of which only the lease it      *)
(* implements is used here.                                                *)
(***************************************************************************)
EXTENDS InteractionLease, Sequences

CONSTANT Clienteles   \* the sets of hints that may have clients: one of them has

ModeHints == {"SUSTAINED_PERFORMANCE", "VR_MODE", "VR_SUSTAINED_PERFORMANCE"}
AudioHints == {"AUDIO_LOW_LATENCY", "AUDIO_STREAMING"}
CameraHints == {"CAMERA_LAUNCH", "CAMERA_STREAMING", "CAMERA_SHOT"}

\* Hints that end by themselves: all their nodes have a Duration in
\* powerhint.json, or DoHint is given one.
TimedHints == {"LAUNCH", "AUDIO_STREAMING"} \cup CameraHints

ASSUME HintAssumption ==
    UNION Clienteles \subseteq {"SUSTAINED_PERFORMANCE", "VR_MODE", "VIDEO_ENCODE", "LAUNCH", "INTERACTION",
                                "EXPENSIVE_RENDERING"} \cup AudioHints \cup CameraHints

VARIABLES
    boot,                   \* progress of the constructor's init thread
    mVRModeOn,
    mSustainedPerfModeOn,
    mEncoderModeOn,
    call,                   \* what is left to do of the hint call in progress
    active,                 \* hints requested from the HintManager, INTERACTION excepted
    node,                   \* the value each property node believes its property has
    prop,                   \* the properties vendor.powerhal.{state,audio,rendering}
    dead,                   \* services init reports as restarting
    queued,                 \* services whose rule init has triggered and not yet run
    restart,                \* a rule has run, up to its last command, `restart'
    stale,                  \* observer: the last VIDEO_ENCODE write of the state property failed,
                            \* or overtook a value the looper still owed it
    orphaned,               \* observer: the audio HAL died while the property named its hint,
                            \* and this process still runs
    canceled,               \* observer: the last VIDEO_ENCODE call canceled the hint
    clientele               \* the hints clients send, the same throughout

halVars == <<boot, mVRModeOn, mSustainedPerfModeOn, mEncoderModeOn, call, active, node, stale,
             orphaned>>
initVars == <<dead, queued, restart>>
clientVars == <<canceled, clientele>>
vars == <<halVars, prop, initVars, clientVars, leaseVars>>

Props == {"state", "audio", "rendering"}
Services == {"framework", "camera", "audio"}
Data == -1..1           \* the int32_t of a hint: negative, zero or positive

mReady == boot = "ready"
InMode == mVRModeOn \/ mSustainedPerfModeOn

Init ==
    /\ boot = "wait"
    /\ mVRModeOn = FALSE /\ mSustainedPerfModeOn = FALSE /\ mEncoderModeOn = FALSE
    /\ call = <<>>
    /\ active = {}
    /\ node = [p \in Props |-> ""]
    /\ prop = [p \in Props |-> ""]
    /\ dead = {} /\ queued = {} /\ restart = FALSE
    /\ stale = FALSE /\ orphaned = FALSE
    /\ canceled = FALSE
    /\ clientele \in Clienteles
    /\ LeaseInit

-----------------------------------------------------------------------------
(* The conditions of the .rc file's rules.  init looks at a rule when one  *)
(* of the two properties it names changes, never later.                    *)

\* Variant of RuleApplies for mutation: the audio rule looks at the state property.
RuleApplies_WrongProperty(s, value) ==
    CASE s = "framework" -> value["state"] # ""
      [] s = "camera"    -> value["state"] = "VIDEO_ENCODE"
      [] s = "audio"     -> value["state"] = "AUDIO_LOW_LATENCY"

\* The rule of a dead service, by the values of the HAL's properties.  init
\* matches "=*" with every value but the empty one.
RuleApplies(s, value) ==
    CASE s = "framework" -> value["state"] # ""
      [] s = "camera"    -> value["state"] = "VIDEO_ENCODE"
      [] s = "audio"     -> value["audio"] = "AUDIO_LOW_LATENCY"

\* A property of the HAL was written: the rules of dead services that apply now
\* are triggered, but for those whose service init starts again before it gets
\* round to the change.
PropertyChanged ==
    /\ \E missed \in SUBSET dead : queued' = queued \cup {s \in dead \ missed : RuleApplies(s, prop')}
    /\ UNCHANGED <<dead, restart>>

-----------------------------------------------------------------------------
(* The HintManager: a node takes the first of its values some active hint  *)
(* asks for, and its looper writes the property when that value changes.   *)

\* Variant of MainStates for mutation: the combined mode has no value.
MainStates_NoCombined == <<"CAMERA_STREAMING", "SUSTAINED_PERFORMANCE", "VR_MODE">>

MainStates == <<"CAMERA_STREAMING", "VR_SUSTAINED_PERFORMANCE", "SUSTAINED_PERFORMANCE", "VR_MODE">>

FirstActive(values) ==
    IF \E i \in DOMAIN values : values[i] \in active
    THEN values[CHOOSE i \in DOMAIN values :
                  values[i] \in active /\ \A j \in 1..(i - 1) : values[j] \notin active]
    ELSE ""

Target(p) ==
    FirstActive(CASE p = "state" -> MainStates
                  [] p = "audio" -> <<"AUDIO_LOW_LATENCY">>
                  [] OTHER         -> <<"EXPENSIVE_RENDERING">>)

Settled == \A p \in Props : node[p] = Target(p)

NodeWrite(p) ==
    /\ node[p] # Target(p)
    /\ node' = [node EXCEPT ![p] = Target(p)]
    /\ prop' = [prop EXCEPT ![p] = Target(p)]
    /\ stale' = (stale /\ p # "state")
    /\ PropertyChanged
    /\ UNCHANGED <<boot, mVRModeOn, mSustainedPerfModeOn, mEncoderModeOn, call, active, orphaned,
                   clientVars, leaseVars>>

\* A hint with a duration ends.
HintExpires ==
    /\ \E h \in TimedHints \cap active : active' = active \ {h}
    /\ UNCHANGED <<boot, mVRModeOn, mSustainedPerfModeOn, mEncoderModeOn, call, node, stale,
                   orphaned, prop, initVars, clientVars, leaseVars>>

-----------------------------------------------------------------------------
(* The constructor's init thread.                                          *)

\* vendor.powerhal.init is 1; the HintManager and the handler are created.
CreateHandlers ==
    /\ boot = "wait"
    /\ boot' = "state"
    /\ UNCHANGED <<mVRModeOn, mSustainedPerfModeOn, mEncoderModeOn, call, active, node, stale,
                   orphaned, prop, initVars, clientVars, leaseVars>>

RestoreState ==
    /\ boot = "state"
    /\ boot' = "audio"
    /\ active' = active \cup ({prop["state"]} \cap (ModeHints \cup {"VIDEO_ENCODE"}))
    /\ mEncoderModeOn' = (prop["state"] = "VIDEO_ENCODE")
    /\ mSustainedPerfModeOn' = (prop["state"] \in {"SUSTAINED_PERFORMANCE", "VR_SUSTAINED_PERFORMANCE"})
    /\ mVRModeOn' = (prop["state"] \in {"VR_MODE", "VR_SUSTAINED_PERFORMANCE"})
    /\ UNCHANGED <<call, node, stale, orphaned, prop, initVars, clientVars, leaseVars>>

RestoreHint(now, p, next) ==
    /\ boot = now
    /\ boot' = next
    /\ active' = active \cup ({prop[p]} \ {""})
    /\ UNCHANGED <<mVRModeOn, mSustainedPerfModeOn, mEncoderModeOn, call, node, stale, orphaned,
                   prop, initVars, clientVars, leaseVars>>

RestoreAudio == RestoreHint("audio", "audio", "rendering")

\* The last read, after which mReady is stored.
RestoreRendering == RestoreHint("rendering", "rendering", "ready")

-----------------------------------------------------------------------------
(* The hint calls.                                                         *)

Do(h)     == <<"DoHint", h>>
End(h)    == <<"EndHint", h>>
Set(flag) == <<"Set", flag>>
Clear(flag) == <<"Clear", flag>>

\* Variant of SustainedPerformance for mutation: leaving it keeps the combined hint.
SustainedPerformance_KeepsCombined(on) ==
    IF on /\ ~mSustainedPerfModeOn
    THEN IF mVRModeOn THEN <<End("VR_MODE"), Do("VR_SUSTAINED_PERFORMANCE"), Set("Sustained")>>
         ELSE <<Do("SUSTAINED_PERFORMANCE"), Set("Sustained")>>
    ELSE IF ~on /\ mSustainedPerfModeOn
    THEN IF mVRModeOn THEN <<End("SUSTAINED_PERFORMANCE"), Do("VR_MODE"), Clear("Sustained")>>
         ELSE <<End("SUSTAINED_PERFORMANCE"), Clear("Sustained")>>
    ELSE <<>>

SustainedPerformance(on) ==
    IF on /\ ~mSustainedPerfModeOn
    THEN IF mVRModeOn THEN <<End("VR_MODE"), Do("VR_SUSTAINED_PERFORMANCE"), Set("Sustained")>>
         ELSE <<Do("SUSTAINED_PERFORMANCE"), Set("Sustained")>>
    ELSE IF ~on /\ mSustainedPerfModeOn
    THEN IF mVRModeOn THEN <<End("VR_SUSTAINED_PERFORMANCE"), End("SUSTAINED_PERFORMANCE"), Do("VR_MODE"),
                            Clear("Sustained")>>
         ELSE <<End("VR_SUSTAINED_PERFORMANCE"), End("SUSTAINED_PERFORMANCE"), Clear("Sustained")>>
    ELSE <<>>

VRMode(on) ==
    IF on /\ ~mVRModeOn
    THEN IF mSustainedPerfModeOn THEN <<End("SUSTAINED_PERFORMANCE"), Do("VR_SUSTAINED_PERFORMANCE"), Set("VR")>>
         ELSE <<Do("VR_MODE"), Set("VR")>>
    ELSE IF ~on /\ mVRModeOn
    THEN IF mSustainedPerfModeOn THEN <<End("VR_SUSTAINED_PERFORMANCE"), End("VR_MODE"),
                                       Do("SUSTAINED_PERFORMANCE"), Clear("VR")>>
         ELSE <<End("VR_SUSTAINED_PERFORMANCE"), End("VR_MODE"), Clear("VR")>>
    ELSE <<>>

VideoEncode(on) ==
    IF InMode THEN <<>>
    ELSE IF on THEN <<Do("VIDEO_ENCODE"), <<"SetState", "VIDEO_ENCODE">>, Set("Encoder")>>
    ELSE <<End("VIDEO_ENCODE"), <<"SetState", "">>, Clear("Encoder")>>

Switch(h, on) == IF on THEN <<Do(h)>> ELSE <<End(h)>>

\* LAUNCH and EXPENSIVE_RENDERING.
SwitchOutsideModes(h, on) == IF InMode THEN <<>> ELSE Switch(h, on)

\* CAMERA_*: negative data is invalid.
SwitchChecked(h, data) == IF data < 0 THEN <<>> ELSE Switch(h, data > 0)

Operations(h, data) ==
    CASE h = "SUSTAINED_PERFORMANCE" -> SustainedPerformance(data # 0)
      [] h = "VR_MODE"               -> VRMode(data # 0)
      [] h = "VIDEO_ENCODE"          -> VideoEncode(data # 0)
      [] h = "LAUNCH"                -> SwitchOutsideModes(h, data # 0)
      [] h = "EXPENSIVE_RENDERING"   -> SwitchOutsideModes(h, data > 0)
      [] h \in AudioHints            -> Switch(h, data # 0)
      [] OTHER                       -> SwitchChecked(h, data)

\* The service that sends a hint.
ClientOf(h) ==
    CASE h \in AudioHints -> "audio"
      [] h \in CameraHints \cup {"VIDEO_ENCODE"} -> "camera"
      [] OTHER -> "framework"

\* Before mReady every call returns at once.
PowerHint(h, data) ==
    /\ call = <<>>
    /\ ClientOf(h) \notin dead
    /\ call' = IF mReady THEN Operations(h, data) ELSE <<>>
    /\ canceled' = IF h = "VIDEO_ENCODE" THEN data = 0 ELSE canceled
    /\ UNCHANGED <<boot, mVRModeOn, mSustainedPerfModeOn, mEncoderModeOn, active, node, stale, orphaned,
                   prop, initVars, clientele, leaseVars>>

\* The call in progress performs its next operation.  SetProperty may fail,
\* which is only logged.
CallStep ==
    /\ call # <<>>
    /\ call' = Tail(call)
    /\ LET op == Head(call)[1]
           arg == Head(call)[2]
           Flag(name, now) == IF arg # name THEN now ELSE IF op = "Set" THEN TRUE
                              ELSE IF op = "Clear" THEN FALSE ELSE now
       IN  /\ active' = CASE op = "DoHint"  -> active \cup {arg}
                          [] op = "EndHint" -> active \ {arg}
                          [] OTHER          -> active
           /\ mVRModeOn' = Flag("VR", mVRModeOn)
           /\ mSustainedPerfModeOn' = Flag("Sustained", mSustainedPerfModeOn)
           /\ mEncoderModeOn' = Flag("Encoder", mEncoderModeOn)
           /\ \/ /\ op # "SetState"
                 /\ UNCHANGED <<prop, stale, initVars>>
              \/ /\ op = "SetState"
                 /\ \E failed \in BOOLEAN :
                      /\ prop' = IF failed THEN prop ELSE [prop EXCEPT !["state"] = arg]
                      /\ IF failed THEN UNCHANGED initVars ELSE PropertyChanged
                      /\ stale' = (failed \/ node["state"] # Target("state"))
    /\ UNCHANGED <<boot, node, orphaned, clientVars, leaseVars>>

\* Variant of InteractionHint for mutation: the modes do not stop it.
InteractionHint_InModes ==
    /\ call = <<>> /\ "framework" \notin dead /\ "INTERACTION" \in clientele
    /\ mReady
    /\ Take
    /\ UNCHANGED <<halVars, prop, initVars, clientVars>>

InteractionHint ==
    /\ call = <<>> /\ "framework" \notin dead /\ "INTERACTION" \in clientele
    /\ mReady /\ ~InMode
    /\ Take
    /\ UNCHANGED <<halVars, prop, initVars, clientVars>>

LeaseStep ==
    /\ Lapse \/ Disturb \/ Age
    /\ UNCHANGED <<halVars, prop, initVars, clientVars>>

-----------------------------------------------------------------------------
(* Crashes and the rules of the .rc file.                                  *)

\* A new process: whatever the old one had in memory is lost.
NewProcess ==
    /\ boot' = "wait"
    /\ mVRModeOn' = FALSE /\ mSustainedPerfModeOn' = FALSE /\ mEncoderModeOn' = FALSE
    /\ call' = <<>>
    /\ active' = {}
    /\ node' = [p \in Props |-> ""]
    /\ stale' = FALSE /\ orphaned' = FALSE
    /\ held' = FALSE /\ age' = 0 /\ disturbed' = FALSE

HalCrash == NewProcess /\ UNCHANGED <<prop, initVars, clientVars>>

\* init sees a service die and looks at its rule, before it starts the service again.
ServiceDies(s) ==
    /\ s \notin dead
    /\ dead' = dead \cup {s}
    /\ queued' = IF RuleApplies(s, prop) THEN queued \cup {s} ELSE queued
    /\ orphaned' = (orphaned \/ (s = "audio" /\ prop["audio"] = "AUDIO_LOW_LATENCY"))
    /\ UNCHANGED <<boot, mVRModeOn, mSustainedPerfModeOn, mEncoderModeOn, call, active, node, stale,
                   prop, restart, clientVars, leaseVars>>

\* Variant of Rule for mutation: the rules clear the properties and do not restart.
Rule_NoRestart(s) ==
    /\ s \in queued /\ ~restart
    /\ queued' = queued \ {s}
    /\ prop' = CASE s = "framework" -> [p \in Props |-> ""]
                 [] s = "camera"    -> [prop EXCEPT !["state"] = ""]
                 [] OTHER           -> [prop EXCEPT !["audio"] = ""]
    /\ UNCHANGED <<halVars, dead, restart, clientVars, leaseVars>>

\* A triggered rule runs up to its last command, whether or not the service and
\* the property still are what they were.
Rule(s) ==
    /\ s \in queued /\ ~restart
    /\ queued' = queued \ {s}
    /\ prop' = CASE s = "framework" -> [p \in Props |-> ""]
                 [] s = "camera"    -> [prop EXCEPT !["state"] = ""]
                 [] OTHER           -> [prop EXCEPT !["audio"] = ""]
    /\ restart' = TRUE
    /\ UNCHANGED <<halVars, dead, clientVars, leaseVars>>

RuleRestart ==
    /\ restart
    /\ restart' = FALSE
    /\ NewProcess
    /\ UNCHANGED <<prop, dead, queued, clientVars>>

\* init starts a service again: at once if it had been up for long, after some
\* seconds otherwise.
ServiceUp(s) ==
    /\ s \in dead
    /\ dead' = dead \ {s}
    /\ UNCHANGED <<halVars, prop, queued, restart, clientVars, leaseVars>>

-----------------------------------------------------------------------------
Boot == CreateHandlers \/ RestoreState \/ RestoreAudio \/ RestoreRendering

Hal == Boot \/ CallStep \/ \E p \in Props : NodeWrite(p)

Clients ==
    \/ \E h \in clientele \ {"INTERACTION"}, data \in Data : PowerHint(h, data)
    \/ InteractionHint

Surroundings ==
    \/ HintExpires
    \/ LeaseStep
    \/ HalCrash
    \/ RuleRestart
    \/ \E s \in {ClientOf(h) : h \in clientele} : ServiceDies(s)
    \/ \E s \in Services : Rule(s) \/ ServiceUp(s)

Next == Hal \/ Clients \/ Surroundings

Spec == Init /\ [][Next]_vars

\* The lease lapses (InteractionHandler's LeaseEnds), and init runs the audio rule
\* once it has triggered it, and the restart that ends a rule.
FairSpec ==
    /\ Spec
    /\ WF_vars(Age /\ LeaseStep)
    /\ WF_vars(Lapse /\ LeaseStep)
    /\ WF_vars(Rule("audio"))
    /\ WF_vars(RuleRestart)

-----------------------------------------------------------------------------
(* Properties.                                                             *)

\* The mode the two flags stand for.
ModeOf(vr, sustained) ==
    IF vr THEN IF sustained THEN {"VR_SUSTAINED_PERFORMANCE"} ELSE {"VR_MODE"}
    ELSE IF sustained THEN {"SUSTAINED_PERFORMANCE"} ELSE {}

ModeHint == ModeOf(mVRModeOn, mSustainedPerfModeOn)

\* Between calls exactly the hint of the mode the flags stand for is requested,
\* through every sequence of VR and sustained calls, restarts included: no mode
\* hint is left behind when one mode is left while the other stays.
ModeHintMatchesFlags == mReady /\ call = <<>> => active \cap ModeHints = ModeHint

\* A mode survives a restart: between calls, once the looper has written its
\* nodes and no CAMERA_STREAMING hides it, the state property names the mode
\* the flags stand for, which is what RestoreState will restore.  (Excepted is
\* a VIDEO_ENCODE call whose write failed or overtook the looper.)
ModePersisted ==
    mReady /\ call = <<>> /\ Settled /\ ~restart /\ ~stale /\ "CAMERA_STREAMING" \notin active /\ InMode
        => {prop["state"]} = ModeHint

\* A low-latency or expensive-rendering hint survives a restart: once the
\* looper has written its nodes, the property of a requested hint names it,
\* which is what the constructor will restore.  (The converse fails: a restored
\* hint ended before the looper ran leaves no change to write.)
SideHintsPersisted ==
    mReady /\ Settled /\ ~restart =>
        /\ "AUDIO_LOW_LATENCY" \in active => prop["audio"] = "AUDIO_LOW_LATENCY"
        /\ "EXPENSIVE_RENDERING" \in active => prop["rendering"] = "EXPENSIVE_RENDERING"

\* The low-latency hint of an audio HAL that dies when the property names the hint
\* does not outlive it, however soon the audio HAL is up again and whatever the
\* looper, the other rules and the clients do meanwhile: the power HAL is restarted.
\* (Excepted is a death before the looper has written the property.  init then looks
\* at the rule again only when it is written, and no longer if the audio HAL is up.)
AudioHintEndsWithClient == orphaned ~> "AUDIO_LOW_LATENCY" \notin active

\* A touch boost taken before a mode was entered runs out in it: it is not
\* renewed as long as the mode lasts.
NoBoostInMode == InMode ~> ~InMode \/ ~held

\* "Hint until canceled" (Power.cpp:144): once the client has canceled
\* VIDEO_ENCODE, and no call is in progress, the hint is no longer requested.
HintUntilCanceled ==
    mReady /\ call = <<>> /\ ~stale /\ canceled => "VIDEO_ENCODE" \notin active

\* "restart powerHAL when cameraHAL died" (line 18 of the .rc file): the death of the
\* camera HAL while its VIDEO_ENCODE hint is requested, between calls and with all
\* nodes written, triggers the rule that restarts the power HAL.
CameraDeathRestartsHal ==
    [][ServiceDies("camera") /\ "VIDEO_ENCODE" \in active /\ mReady /\ call = <<>> /\ Settled /\ ~restart /\ ~stale
         => "camera" \in queued']_vars

-----------------------------------------------------------------------------
(* The inductive invariant of PowerProofs.                                 *)

Hints == {"SUSTAINED_PERFORMANCE", "VR_MODE", "VIDEO_ENCODE", "LAUNCH", "EXPENSIVE_RENDERING"}
            \cup ModeHints \cup AudioHints \cup CameraHints

Operation ==
    {Do(h) : h \in Hints} \cup {End(h) : h \in Hints}
    \cup {Set(f) : f \in {"VR", "Sustained", "Encoder"}} \cup {Clear(f) : f \in {"VR", "Sustained", "Encoder"}}
    \cup {<<"SetState", "VIDEO_ENCODE">>, <<"SetState", "">>}

\* The operations the call in progress has still to perform.
Pending == {call[i] : i \in DOMAIN call}

\* What they leave of a flag.
After(flag, now) == (now \/ Set(flag) \in Pending) /\ Clear(flag) \notin Pending

(* In the middle of a call the hints and the flags disagree.  What holds   *)
(* throughout is that what is pending leads to the hint of the flags it    *)
(* leads to, in whatever order, since no hint is both requested and ended. *)
CallInv ==
    /\ mVRModeOn \in BOOLEAN /\ mSustainedPerfModeOn \in BOOLEAN
    /\ clientele \in Clienteles
    /\ call \in Seq(Operation)
    /\ call # <<>> => mReady
    /\ boot \in {"wait", "state"} => active = {} /\ ~InMode
    /\ \A h \in Hints : ~(Do(h) \in Pending /\ End(h) \in Pending)
    /\ \A f \in {"VR", "Sustained"} : ~(Set(f) \in Pending /\ Clear(f) \in Pending)
    /\ \A h \in ModeHints :
          h \in ModeOf(After("VR", mVRModeOn), After("Sustained", mSustainedPerfModeOn))
             <=> Do(h) \in Pending \/ (h \in active /\ End(h) \notin Pending)

\* VIDEO_ENCODE writes the state property only when there is no mode, and enters none.
EncodeInv ==
    \A value \in {"VIDEO_ENCODE", ""} : <<"SetState", value>> \in Pending =>
        active \cap ModeHints = {} /\ \A h \in ModeHints : Do(h) \notin Pending

Values == {"", "VIDEO_ENCODE", "CAMERA_STREAMING", "AUDIO_LOW_LATENCY", "EXPENSIVE_RENDERING"} \cup ModeHints

\* What a node has written its property still has, until a rule clears it and restarts the HAL.
PropInv ==
    /\ prop \in [Props -> Values] /\ node \in [Props -> Values]
    /\ prop["audio"] \in {"", "AUDIO_LOW_LATENCY"} /\ prop["rendering"] \in {"", "EXPENSIVE_RENDERING"}
    /\ ~restart => /\ \A p \in {"audio", "rendering"} : node[p] # "" => prop[p] = node[p]
                   /\ ~stale /\ node["state"] \in ModeHints => prop["state"] = node["state"]

IInv == CallInv /\ EncodeInv /\ PropInv
=============================================================================
