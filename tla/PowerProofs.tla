---------------------------- MODULE PowerProofs ----------------------------
(***************************************************************************)
(* Proofs about Power, for all sets of clients: the three safety           *)
(* invariants its run checks.  The inductive invariant is IInv of Power.   *)
(***************************************************************************)
EXTENDS Power, TLAPS

ModeVars == <<boot, mVRModeOn, mSustainedPerfModeOn, call, active, clientele>>

-----------------------------------------------------------------------------
(* The HintManager's nodes.                                                *)

\* A node's value is an active one, or empty when none of its values is active.
LEMMA FirstIsActive ==
    /\ Target("state") \in ModeHints \cup {"CAMERA_STREAMING", ""}
    /\ Target("state") # "" => Target("state") \in active
    /\ \A h \in ModeHints \cup {"CAMERA_STREAMING"} : h \in active => Target("state") # ""
<1>. DEFINE first == CHOOSE i \in DOMAIN MainStates :
                       MainStates[i] \in active /\ \A j \in 1..(i - 1) : MainStates[j] \notin active
<1>0. DOMAIN MainStates = 1..4
    BY SMTT(30) DEF MainStates
<1>1. Target("state") = IF \E i \in DOMAIN MainStates : MainStates[i] \in active THEN MainStates[first] ELSE ""
    BY SMTT(30) DEF Target, FirstActive
<1>2. ASSUME NEW k \in 1..4, MainStates[k] \in active
      PROVE  first \in 1..4 /\ MainStates[first] \in active
    <2>1. \E i \in DOMAIN MainStates :
             MainStates[i] \in active /\ \A j \in 1..(i - 1) : MainStates[j] \notin active
        <3>1. CASE MainStates[1] \in active
            BY SMTT(30), <1>0, <3>1
        <3>2. CASE MainStates[1] \notin active /\ MainStates[2] \in active
            BY SMTT(30), <1>0, <3>2
        <3>3. CASE MainStates[1] \notin active /\ MainStates[2] \notin active /\ MainStates[3] \in active
            BY SMTT(30), <1>0, <3>3
        <3>4. CASE /\ MainStates[1] \notin active /\ MainStates[2] \notin active /\ MainStates[3] \notin active
                   /\ MainStates[4] \in active
            BY SMTT(30), <1>0, <3>4
        <3>. QED  BY SMTT(30), <1>2, <3>1, <3>2, <3>3, <3>4
    <2>. QED  BY Zenon, <1>0, <2>1
<1>3. \A i \in 1..4 : MainStates[i] \in ModeHints \cup {"CAMERA_STREAMING"}
    <2>1. /\ MainStates[1] = "CAMERA_STREAMING" /\ MainStates[2] = "VR_SUSTAINED_PERFORMANCE"
          /\ MainStates[3] = "SUSTAINED_PERFORMANCE" /\ MainStates[4] = "VR_MODE"
        BY Zenon DEF MainStates
    <2>2. \A i \in 1..4 : i = 1 \/ i = 2 \/ i = 3 \/ i = 4
        BY SMTT(30)
    <2>3. {"CAMERA_STREAMING", "VR_SUSTAINED_PERFORMANCE", "SUSTAINED_PERFORMANCE", "VR_MODE"}
            = ModeHints \cup {"CAMERA_STREAMING"}
        BY Zenon DEF ModeHints
    <2>. QED  BY Zenon, <2>1, <2>2, <2>3
<1>4. \A h \in ModeHints \cup {"CAMERA_STREAMING"} : \E i \in 1..4 : MainStates[i] = h
    BY SMTT(30) DEF MainStates, ModeHints
<1>. HIDE DEF first
<1>5. CASE \E i \in 1..4 : MainStates[i] \in active
    <2>1. "" \notin ModeHints \cup {"CAMERA_STREAMING"}
        BY Zenon DEF ModeHints
    <2>. QED  BY Zenon, <1>0, <1>1, <1>2, <1>3, <1>5, <2>1
<1>6. CASE ~ \E i \in 1..4 : MainStates[i] \in active
    BY Zenon, <1>0, <1>1, <1>4, <1>6
<1>. QED  BY Zenon, <1>5, <1>6

\* The nodes with one value.
LEMMA SideTargets ==
    /\ Target("audio") = IF "AUDIO_LOW_LATENCY" \in active THEN "AUDIO_LOW_LATENCY" ELSE ""
    /\ Target("rendering") = IF "EXPENSIVE_RENDERING" \in active THEN "EXPENSIVE_RENDERING" ELSE ""
<1>1. ASSUME NEW h PROVE FirstActive(<<h>>) = IF h \in active THEN h ELSE ""
    <2>. DEFINE t == <<h>>
                first == CHOOSE i \in DOMAIN t : t[i] \in active /\ \A j \in 1..(i - 1) : t[j] \notin active
    <2>1. DOMAIN t = {1} /\ t[1] = h
        BY SMTT(30)
    <2>2. FirstActive(t) = IF \E i \in DOMAIN t : t[i] \in active THEN t[first] ELSE ""
        BY Zenon DEF FirstActive
    <2>3. h \in active => first = 1
        <3>. HIDE DEF t
        <3>. QED  BY SMTT(30), <2>1
    <2>. HIDE DEF t, first
    <2>4. FirstActive(t) = IF h \in active THEN h ELSE ""
        BY Zenon, <2>1, <2>2, <2>3
    <2>. QED  BY Zenon, <2>4 DEF t
<1>. QED  BY Zenon, <1>1 DEF Target

-----------------------------------------------------------------------------
(* A call in progress.                                                     *)

\* Performing the first operation leaves the others pending.
LEMMA PendingTail ==
    ASSUME call \in Seq(Operation), call # <<>>, call' = Tail(call)
    PROVE  /\ call' \in Seq(Operation)
           /\ Head(call) \in Operation
           /\ Pending = {Head(call)} \cup Pending'
<1>1. /\ Len(call) \in Nat /\ Len(call) > 0 /\ DOMAIN call = 1..Len(call)
      /\ call' \in Seq(Operation) /\ Head(call) = call[1] /\ call[1] \in Operation
      /\ DOMAIN call' = 1..(Len(call) - 1) /\ \A i \in DOMAIN call' : call'[i] = call[i + 1]
    BY SMTT(30)
<1>2. ASSUME NEW x \in Pending PROVE x \in {Head(call)} \cup Pending'
    <2>1. PICK i \in DOMAIN call : x = call[i]
        BY Zenon, <1>2 DEF Pending
    <2>2. CASE i = 1
        BY Zenon, <1>1, <2>1, <2>2
    <2>3. CASE i # 1
        <3>1. i - 1 \in DOMAIN call' /\ call'[i - 1] = x
            BY SMTT(30), <1>1, <2>1, <2>3
        <3>. QED  BY Zenon, <3>1 DEF Pending
    <2>. QED  BY Zenon, <2>2, <2>3
<1>3. Head(call) \in Pending
    BY SMTT(30), <1>1 DEF Pending
<1>4. ASSUME NEW x \in Pending' PROVE x \in Pending
    <2>1. PICK i \in DOMAIN call' : x = call'[i]
        BY Zenon, <1>4 DEF Pending
    <2>2. i + 1 \in DOMAIN call /\ call[i + 1] = x
        BY SMTT(30), <1>1, <2>1
    <2>. QED  BY Zenon, <2>2 DEF Pending
<1>. QED  BY Zenon, <1>1, <1>2, <1>3, <1>4

\* What an operation does to the hints and to the flags of the modes.
LEMMA OperationEffect ==
    ASSUME CallInv, CallStep
    PROVE  \/ \E h \in Hints : /\ Head(call) = Do(h) /\ active' = active \cup {h}
                               /\ UNCHANGED <<mVRModeOn, mSustainedPerfModeOn>>
           \/ \E h \in Hints : /\ Head(call) = End(h) /\ active' = active \ {h}
                               /\ UNCHANGED <<mVRModeOn, mSustainedPerfModeOn>>
           \/ /\ Head(call) = Set("VR") /\ mVRModeOn' = TRUE /\ UNCHANGED <<active, mSustainedPerfModeOn>>
           \/ /\ Head(call) = Clear("VR") /\ mVRModeOn' = FALSE /\ UNCHANGED <<active, mSustainedPerfModeOn>>
           \/ /\ Head(call) = Set("Sustained") /\ mSustainedPerfModeOn' = TRUE
              /\ UNCHANGED <<active, mVRModeOn>>
           \/ /\ Head(call) = Clear("Sustained") /\ mSustainedPerfModeOn' = FALSE
              /\ UNCHANGED <<active, mVRModeOn>>
           \/ /\ Head(call) = Set("Encoder") \/ Head(call) = Clear("Encoder")
                    \/ \E value : Head(call) = <<"SetState", value>>
              /\ UNCHANGED <<active, mVRModeOn, mSustainedPerfModeOn>>
<1>. DEFINE op == Head(call)[1]
            arg == Head(call)[2]
<1>1. /\ active' = CASE op = "DoHint"  -> active \cup {arg}
                     [] op = "EndHint" -> active \ {arg}
                     [] OTHER          -> active
      /\ mVRModeOn' = IF arg # "VR" THEN mVRModeOn ELSE IF op = "Set" THEN TRUE
                      ELSE IF op = "Clear" THEN FALSE ELSE mVRModeOn
      /\ mSustainedPerfModeOn' = IF arg # "Sustained" THEN mSustainedPerfModeOn ELSE IF op = "Set" THEN TRUE
                      ELSE IF op = "Clear" THEN FALSE ELSE mSustainedPerfModeOn
    BY Zenon DEF CallStep
<1>2. Head(call) \in Operation
    BY Zenon, PendingTail DEF CallInv, CallStep
<1>3. ASSUME NEW h \in Hints, Head(call) = Do(h)
      PROVE  active' = active \cup {h} /\ UNCHANGED <<mVRModeOn, mSustainedPerfModeOn>>
    <2>1. op = "DoHint" /\ arg = h /\ h # "VR" /\ h # "Sustained"
        BY SMTT(30), <1>3 DEF Do, Hints, ModeHints, AudioHints, CameraHints
    <2>. QED  BY Zenon, <1>1, <2>1
<1>4. ASSUME NEW h \in Hints, Head(call) = End(h)
      PROVE  active' = active \ {h} /\ UNCHANGED <<mVRModeOn, mSustainedPerfModeOn>>
    <2>1. op = "EndHint" /\ arg = h /\ h # "VR" /\ h # "Sustained"
        BY SMTT(30), <1>4 DEF End, Hints, ModeHints, AudioHints, CameraHints
    <2>. QED  BY Zenon, <1>1, <2>1
<1>5. ASSUME NEW f \in {"VR", "Sustained", "Encoder"}, Head(call) = Set(f)
      PROVE  /\ UNCHANGED active
             /\ mVRModeOn' = (IF f = "VR" THEN TRUE ELSE mVRModeOn)
             /\ mSustainedPerfModeOn' = (IF f = "Sustained" THEN TRUE ELSE mSustainedPerfModeOn)
    <2>1. op = "Set" /\ arg = f
        BY SMTT(30), <1>5 DEF Set
    <2>. QED  BY Zenon, <1>1, <2>1
<1>6. ASSUME NEW f \in {"VR", "Sustained", "Encoder"}, Head(call) = Clear(f)
      PROVE  /\ UNCHANGED active
             /\ mVRModeOn' = (IF f = "VR" THEN FALSE ELSE mVRModeOn)
             /\ mSustainedPerfModeOn' = (IF f = "Sustained" THEN FALSE ELSE mSustainedPerfModeOn)
    <2>1. op = "Clear" /\ arg = f
        BY SMTT(30), <1>6 DEF Clear
    <2>. QED  BY Zenon, <1>1, <2>1
<1>7. ASSUME NEW value, value # "VR", value # "Sustained", Head(call) = <<"SetState", value>>
      PROVE  UNCHANGED <<active, mVRModeOn, mSustainedPerfModeOn>>
    <2>1. op = "SetState" /\ arg = value
        BY SMTT(30), <1>7
    <2>. QED  BY Zenon, <1>1, <1>7, <2>1
<1>. HIDE DEF op, arg
<1>8. CASE \E h \in Hints : Head(call) = Do(h) \/ Head(call) = End(h)
    BY Zenon, <1>3, <1>4, <1>8
<1>9. CASE \E f \in {"VR", "Sustained", "Encoder"} : Head(call) = Set(f) \/ Head(call) = Clear(f)
    BY Zenon, <1>5, <1>6, <1>9
<1>. QED  BY Zenon, <1>2, <1>7, <1>8, <1>9 DEF Operation

\* Each operation keeps what the pending ones lead to.
LEMMA CallStepCallInv ==
    ASSUME CallInv, CallStep
    PROVE  CallInv'
<1>1. /\ call' \in Seq(Operation) /\ Head(call) \in Operation
      /\ Pending = {Head(call)} \cup Pending'
    BY Zenon, PendingTail DEF CallInv, CallStep
<1>2. boot = "ready" /\ UNCHANGED <<boot, clientele>>
    BY Zenon DEF CallInv, CallStep, mReady, clientVars
<1>3. mVRModeOn' \in BOOLEAN /\ mSustainedPerfModeOn' \in BOOLEAN
    BY Zenon, OperationEffect DEF CallInv
<1>4. /\ \A h \in Hints : ~(Do(h) \in Pending' /\ End(h) \in Pending')
      /\ \A f \in {"VR", "Sustained"} : ~(Set(f) \in Pending' /\ Clear(f) \in Pending')
    BY Zenon, <1>1 DEF CallInv
<1>. DEFINE Leads(h) == Do(h) \in Pending \/ (h \in active /\ End(h) \notin Pending)
            Kept == /\ After("VR", mVRModeOn)' <=> After("VR", mVRModeOn)
                    /\ After("Sustained", mSustainedPerfModeOn)' <=> After("Sustained", mSustainedPerfModeOn)
                    /\ \A h \in ModeHints : Leads(h)' <=> Leads(h)
<1>5. Kept
    <2>. USE <1>1
    <2>1. ASSUME NEW h \in Hints, Head(call) = Do(h), active' = active \cup {h},
                 UNCHANGED <<mVRModeOn, mSustainedPerfModeOn>>
          PROVE  Kept
        BY SMTT(30), <2>1 DEF CallInv, After, Set, Clear, Do, End
    <2>2. ASSUME NEW h \in Hints, Head(call) = End(h), active' = active \ {h},
                 UNCHANGED <<mVRModeOn, mSustainedPerfModeOn>>
          PROVE  Kept
        BY SMTT(30), <2>2 DEF CallInv, After, Set, Clear, Do, End
    <2>3. ASSUME NEW f \in {"VR", "Sustained"}, Head(call) = Set(f), UNCHANGED active,
                 mVRModeOn' = (IF f = "VR" THEN TRUE ELSE mVRModeOn),
                 mSustainedPerfModeOn' = (IF f = "Sustained" THEN TRUE ELSE mSustainedPerfModeOn)
          PROVE  Kept
        BY SMTT(30), <2>3 DEF CallInv, After, Set, Clear, Do, End
    <2>4. ASSUME NEW f \in {"VR", "Sustained"}, Head(call) = Clear(f), UNCHANGED active,
                 mVRModeOn' = (IF f = "VR" THEN FALSE ELSE mVRModeOn),
                 mSustainedPerfModeOn' = (IF f = "Sustained" THEN FALSE ELSE mSustainedPerfModeOn)
          PROVE  Kept
        BY SMTT(30), <2>4 DEF CallInv, After, Set, Clear, Do, End
    <2>5. ASSUME Head(call) = Set("Encoder") \/ Head(call) = Clear("Encoder"),
                 UNCHANGED <<active, mVRModeOn, mSustainedPerfModeOn>>
          PROVE  Kept
        BY SMTT(30), <2>5 DEF CallInv, After, Set, Clear, Do, End
    <2>6. ASSUME NEW value, Head(call) = <<"SetState", value>>,
                 UNCHANGED <<active, mVRModeOn, mSustainedPerfModeOn>>
          PROVE  Kept
        BY SMTT(30), <2>6 DEF CallInv, After, Set, Clear, Do, End
    <2>. HIDE DEF Kept
    <2>. QED  BY Zenon, <2>1, <2>2, <2>3, <2>4, <2>5, <2>6, OperationEffect
<1>6. ModeOf(After("VR", mVRModeOn), After("Sustained", mSustainedPerfModeOn))'
        = ModeOf(After("VR", mVRModeOn), After("Sustained", mSustainedPerfModeOn))
    BY Zenon, <1>5 DEF ModeOf
<1>. QED  BY Zenon, <1>1, <1>2, <1>3, <1>4, <1>5, <1>6 DEF CallInv, mReady

\* While VIDEO_ENCODE has the state property to write, no operation enters a mode.
LEMMA CallStepEncodeInv ==
    ASSUME CallInv, EncodeInv, CallStep
    PROVE  EncodeInv'
<1>1. Pending = {Head(call)} \cup Pending'
    BY Zenon, PendingTail DEF CallInv, CallStep
<1>. SUFFICES ASSUME NEW value \in {"VIDEO_ENCODE", ""}, <<"SetState", value>> \in Pending'
              PROVE  active' \cap ModeHints = {} /\ \A h \in ModeHints : Do(h) \notin Pending'
    BY Zenon DEF EncodeInv
<1>2. active \cap ModeHints = {} /\ \A h \in ModeHints : Do(h) \notin Pending
    BY Zenon, <1>1 DEF EncodeInv
<1>3. active' \cap ModeHints = {}
    BY Zenon, <1>1, <1>2, OperationEffect
<1>. QED  BY Zenon, <1>1, <1>2, <1>3

-----------------------------------------------------------------------------
(* A call that begins.                                                     *)

\* The elements of short sequences.
LEMMA Elements ==
    ASSUME NEW a, NEW b, NEW c, NEW d
    PROVE  /\ {<<>>[i] : i \in DOMAIN <<>>} = {}
           /\ {<<a>>[i] : i \in DOMAIN <<a>>} = {a}
           /\ {<<a, b>>[i] : i \in DOMAIN <<a, b>>} = {a, b}
           /\ {<<a, b, c>>[i] : i \in DOMAIN <<a, b, c>>} = {a, b, c}
           /\ {<<a, b, c, d>>[i] : i \in DOMAIN <<a, b, c, d>>} = {a, b, c, d}
BY SMTT(30)

\* What a call that begins has to lead to, given the operations P it consists of.
Leads(P) ==
    /\ \A h \in Hints : ~(Do(h) \in P /\ End(h) \in P)
    /\ \A f \in {"VR", "Sustained"} : ~(Set(f) \in P /\ Clear(f) \in P)
    /\ \A h \in ModeHints :
          h \in ModeOf((mVRModeOn \/ Set("VR") \in P) /\ Clear("VR") \notin P,
                      (mSustainedPerfModeOn \/ Set("Sustained") \in P) /\ Clear("Sustained") \notin P)
             <=> Do(h) \in P \/ (h \in ModeHint /\ End(h) \notin P)

\* Operations that leave the modes alone.
LEMMA LeadsNowhere ==
    ASSUME mVRModeOn \in BOOLEAN, mSustainedPerfModeOn \in BOOLEAN, NEW P,
           \A h \in ModeHints : Do(h) \notin P /\ End(h) \notin P,
           \A f \in {"VR", "Sustained"} : Set(f) \notin P /\ Clear(f) \notin P,
           \A h \in Hints : ~(Do(h) \in P /\ End(h) \in P)
    PROVE  Leads(P)
BY Zenon DEF Leads, ModeHint

\* SUSTAINED_PERFORMANCE and VR_MODE, whatever the two flags are.
LEMMA ModeCallsLead ==
    ASSUME mVRModeOn \in BOOLEAN, mSustainedPerfModeOn \in BOOLEAN, NEW on \in BOOLEAN, NEW c,
           c = SustainedPerformance(on) \/ c = VRMode(on)
    PROVE  /\ c \in Seq(Operation)
           /\ Leads({c[i] : i \in DOMAIN c})
           /\ \A value : <<"SetState", value>> \notin {c[i] : i \in DOMAIN c}
<1>. DEFINE P == {c[i] : i \in DOMAIN c}
            vr == (mVRModeOn \/ Set("VR") \in P) /\ Clear("VR") \notin P
            sustained == (mSustainedPerfModeOn \/ Set("Sustained") \in P) /\ Clear("Sustained") \notin P
<1>. USE DEF Do, End, Set, Clear
<1>0. /\ \A h \in ModeHints : Do(h) \in Operation /\ End(h) \in Operation
      /\ \A f \in {"VR", "Sustained"} : Set(f) \in Operation /\ Clear(f) \in Operation
    BY Zenon DEF Operation, Hints
<1>1. CASE c = <<>>
    <2>1. P = {}
        BY SMTT(30), <1>1, Elements
    <2>. QED  BY SMTT(30), <1>1, <2>1, LeadsNowhere
<1>2. CASE /\ ~mVRModeOn /\ ~mSustainedPerfModeOn
            /\ c = <<Do("SUSTAINED_PERFORMANCE"), Set("Sustained")>>
    <2>1. P = {Do("SUSTAINED_PERFORMANCE"), Set("Sustained")}
        BY SMTT(30), <1>2, Elements
    <2>2. ~vr /\ sustained
        BY Zenon, <1>2, <2>1
    <2>3. ModeHint = {} /\ ModeOf(vr, sustained) = {"SUSTAINED_PERFORMANCE"}
        <3>. HIDE DEF vr, sustained
        <3>. QED  BY Zenon, <1>2, <2>2 DEF ModeHint, ModeOf
    <2>4. \A h \in ModeHints : h \in {"SUSTAINED_PERFORMANCE"} <=> Do(h) \in P \/ (h \in {} /\ End(h) \notin P)
        BY Zenon, <2>1 DEF ModeHints
    <2>5. Leads(P)
        BY Zenon, <2>1, <2>3, <2>4 DEF Leads
    <2>6. c \in Seq(Operation)
        BY SMTT(30), <1>0, <1>2 DEF ModeHints
    <2>. QED  BY Zenon, <2>1, <2>5, <2>6
<1>3. CASE /\ ~mVRModeOn /\ ~mSustainedPerfModeOn
            /\ c = <<Do("VR_MODE"), Set("VR")>>
    <2>1. P = {Do("VR_MODE"), Set("VR")}
        BY SMTT(30), <1>3, Elements
    <2>2. vr /\ ~sustained
        BY Zenon, <1>3, <2>1
    <2>3. ModeHint = {} /\ ModeOf(vr, sustained) = {"VR_MODE"}
        <3>. HIDE DEF vr, sustained
        <3>. QED  BY Zenon, <1>3, <2>2 DEF ModeHint, ModeOf
    <2>4. \A h \in ModeHints : h \in {"VR_MODE"} <=> Do(h) \in P \/ (h \in {} /\ End(h) \notin P)
        BY Zenon, <2>1 DEF ModeHints
    <2>5. Leads(P)
        BY Zenon, <2>1, <2>3, <2>4 DEF Leads
    <2>6. c \in Seq(Operation)
        BY SMTT(30), <1>0, <1>3 DEF ModeHints
    <2>. QED  BY Zenon, <2>1, <2>5, <2>6
<1>4. CASE /\ mVRModeOn /\ ~mSustainedPerfModeOn
            /\ c = <<End("VR_MODE"), Do("VR_SUSTAINED_PERFORMANCE"), Set("Sustained")>>
    <2>1. P = {End("VR_MODE"), Do("VR_SUSTAINED_PERFORMANCE"), Set("Sustained")}
        BY SMTT(30), <1>4, Elements
    <2>2. vr /\ sustained
        BY Zenon, <1>4, <2>1
    <2>3. ModeHint = {"VR_MODE"} /\ ModeOf(vr, sustained) = {"VR_SUSTAINED_PERFORMANCE"}
        <3>. HIDE DEF vr, sustained
        <3>. QED  BY Zenon, <1>4, <2>2 DEF ModeHint, ModeOf
    <2>4. \A h \in ModeHints :
             h \in {"VR_SUSTAINED_PERFORMANCE"} <=> Do(h) \in P \/ (h \in {"VR_MODE"} /\ End(h) \notin P)
        BY Zenon, <2>1 DEF ModeHints
    <2>5. Leads(P)
        BY Zenon, <2>1, <2>3, <2>4 DEF Leads
    <2>6. c \in Seq(Operation)
        BY SMTT(30), <1>0, <1>4 DEF ModeHints
    <2>. QED  BY Zenon, <2>1, <2>5, <2>6
<1>5. CASE /\ mVRModeOn /\ ~mSustainedPerfModeOn
            /\ c = <<End("VR_SUSTAINED_PERFORMANCE"), End("VR_MODE"), Clear("VR")>>
    <2>1. P = {End("VR_SUSTAINED_PERFORMANCE"), End("VR_MODE"), Clear("VR")}
        BY SMTT(30), <1>5, Elements
    <2>2. ~vr /\ ~sustained
        BY Zenon, <1>5, <2>1
    <2>3. ModeHint = {"VR_MODE"} /\ ModeOf(vr, sustained) = {}
        <3>. HIDE DEF vr, sustained
        <3>. QED  BY Zenon, <1>5, <2>2 DEF ModeHint, ModeOf
    <2>4. \A h \in ModeHints : h \in {} <=> Do(h) \in P \/ (h \in {"VR_MODE"} /\ End(h) \notin P)
        BY Zenon, <2>1 DEF ModeHints
    <2>5. Leads(P)
        BY Zenon, <2>1, <2>3, <2>4 DEF Leads
    <2>6. c \in Seq(Operation)
        BY SMTT(30), <1>0, <1>5 DEF ModeHints
    <2>. QED  BY Zenon, <2>1, <2>5, <2>6
<1>6. CASE /\ ~mVRModeOn /\ mSustainedPerfModeOn
            /\ c = <<End("VR_SUSTAINED_PERFORMANCE"), End("SUSTAINED_PERFORMANCE"), Clear("Sustained")>>
    <2>1. P = {End("VR_SUSTAINED_PERFORMANCE"), End("SUSTAINED_PERFORMANCE"), Clear("Sustained")}
        BY SMTT(30), <1>6, Elements
    <2>2. ~vr /\ ~sustained
        BY Zenon, <1>6, <2>1
    <2>3. ModeHint = {"SUSTAINED_PERFORMANCE"} /\ ModeOf(vr, sustained) = {}
        <3>. HIDE DEF vr, sustained
        <3>. QED  BY Zenon, <1>6, <2>2 DEF ModeHint, ModeOf
    <2>4. \A h \in ModeHints : h \in {} <=> Do(h) \in P \/ (h \in {"SUSTAINED_PERFORMANCE"} /\ End(h) \notin P)
        BY Zenon, <2>1 DEF ModeHints
    <2>5. Leads(P)
        BY Zenon, <2>1, <2>3, <2>4 DEF Leads
    <2>6. c \in Seq(Operation)
        BY SMTT(30), <1>0, <1>6 DEF ModeHints
    <2>. QED  BY Zenon, <2>1, <2>5, <2>6
<1>7. CASE /\ ~mVRModeOn /\ mSustainedPerfModeOn
            /\ c = <<End("SUSTAINED_PERFORMANCE"), Do("VR_SUSTAINED_PERFORMANCE"), Set("VR")>>
    <2>1. P = {End("SUSTAINED_PERFORMANCE"), Do("VR_SUSTAINED_PERFORMANCE"), Set("VR")}
        BY SMTT(30), <1>7, Elements
    <2>2. vr /\ sustained
        BY Zenon, <1>7, <2>1
    <2>3. ModeHint = {"SUSTAINED_PERFORMANCE"} /\ ModeOf(vr, sustained) = {"VR_SUSTAINED_PERFORMANCE"}
        <3>. HIDE DEF vr, sustained
        <3>. QED  BY Zenon, <1>7, <2>2 DEF ModeHint, ModeOf
    <2>4. \A h \in ModeHints :
             h \in {"VR_SUSTAINED_PERFORMANCE"} <=> Do(h) \in P \/ (h \in {"SUSTAINED_PERFORMANCE"} /\ End(h) \notin P)
        BY Zenon, <2>1 DEF ModeHints
    <2>5. Leads(P)
        BY Zenon, <2>1, <2>3, <2>4 DEF Leads
    <2>6. c \in Seq(Operation)
        BY SMTT(30), <1>0, <1>7 DEF ModeHints
    <2>. QED  BY Zenon, <2>1, <2>5, <2>6
<1>8. CASE /\ mVRModeOn /\ mSustainedPerfModeOn
            /\ c = <<End("VR_SUSTAINED_PERFORMANCE"), End("SUSTAINED_PERFORMANCE"),
                      Do("VR_MODE"), Clear("Sustained")>>
    <2>1. P = {End("VR_SUSTAINED_PERFORMANCE"), End("SUSTAINED_PERFORMANCE"), Do("VR_MODE"), Clear("Sustained")}
        BY SMTT(30), <1>8, Elements
    <2>2. vr /\ ~sustained
        BY Zenon, <1>8, <2>1
    <2>3. ModeHint = {"VR_SUSTAINED_PERFORMANCE"} /\ ModeOf(vr, sustained) = {"VR_MODE"}
        <3>. HIDE DEF vr, sustained
        <3>. QED  BY Zenon, <1>8, <2>2 DEF ModeHint, ModeOf
    <2>4. \A h \in ModeHints :
             h \in {"VR_MODE"} <=> Do(h) \in P \/ (h \in {"VR_SUSTAINED_PERFORMANCE"} /\ End(h) \notin P)
        BY Zenon, <2>1 DEF ModeHints
    <2>5. Leads(P)
        BY Zenon, <2>1, <2>3, <2>4 DEF Leads
    <2>6. c \in Seq(Operation)
        BY SMTT(30), <1>0, <1>8 DEF ModeHints
    <2>. QED  BY Zenon, <2>1, <2>5, <2>6
<1>9. CASE /\ mVRModeOn /\ mSustainedPerfModeOn
            /\ c = <<End("VR_SUSTAINED_PERFORMANCE"), End("VR_MODE"), Do("SUSTAINED_PERFORMANCE"), Clear("VR")>>
    <2>1. P = {End("VR_SUSTAINED_PERFORMANCE"), End("VR_MODE"), Do("SUSTAINED_PERFORMANCE"), Clear("VR")}
        BY SMTT(30), <1>9, Elements
    <2>2. ~vr /\ sustained
        BY Zenon, <1>9, <2>1
    <2>3. ModeHint = {"VR_SUSTAINED_PERFORMANCE"} /\ ModeOf(vr, sustained) = {"SUSTAINED_PERFORMANCE"}
        <3>. HIDE DEF vr, sustained
        <3>. QED  BY Zenon, <1>9, <2>2 DEF ModeHint, ModeOf
    <2>4. \A h \in ModeHints :
             h \in {"SUSTAINED_PERFORMANCE"} <=> Do(h) \in P \/ (h \in {"VR_SUSTAINED_PERFORMANCE"} /\ End(h) \notin P)
        BY Zenon, <2>1 DEF ModeHints
    <2>5. Leads(P)
        BY Zenon, <2>1, <2>3, <2>4 DEF Leads
    <2>6. c \in Seq(Operation)
        BY SMTT(30), <1>0, <1>9 DEF ModeHints
    <2>. QED  BY Zenon, <2>1, <2>5, <2>6
<1>. HIDE DEF P, Do, End, Set, Clear
<1>10. CASE ~mVRModeOn /\ ~mSustainedPerfModeOn
    BY Zenon, <1>1, <1>2, <1>3, <1>10 DEF SustainedPerformance, VRMode
<1>11. CASE mVRModeOn /\ ~mSustainedPerfModeOn
    BY Zenon, <1>1, <1>4, <1>5, <1>11 DEF SustainedPerformance, VRMode
<1>12. CASE ~mVRModeOn /\ mSustainedPerfModeOn
    BY Zenon, <1>1, <1>6, <1>7, <1>12 DEF SustainedPerformance, VRMode
<1>13. CASE mVRModeOn /\ mSustainedPerfModeOn
    BY Zenon, <1>1, <1>8, <1>9, <1>13 DEF SustainedPerformance, VRMode
<1>. QED  BY Zenon, <1>10, <1>11, <1>12, <1>13

\* A call that leads to a mode's hint may begin between calls.
LEMMA CallBegins ==
    ASSUME CallInv, call = <<>>, mReady, call' \in Seq(Operation), Leads(Pending'),
           UNCHANGED <<boot, mVRModeOn, mSustainedPerfModeOn, active, clientele>>
    PROVE  CallInv'
<1>1. Pending = {}
    BY SMTT(30), Elements DEF Pending
<1>2. \A h \in ModeHints : h \in ModeHint <=> h \in active
    BY Zenon, <1>1 DEF CallInv, After, ModeHint
<1>3. \A h \in ModeHints :
          h \in ModeOf(After("VR", mVRModeOn)', After("Sustained", mSustainedPerfModeOn)')
             <=> Do(h) \in Pending' \/ (h \in active /\ End(h) \notin Pending')
    BY Zenon, <1>2 DEF Leads, After
<1>. QED  BY Zenon, <1>3 DEF CallInv, Leads, mReady, InMode

\* A single request or end of a hint that is no mode.
LEMMA SwitchLeads ==
    ASSUME mVRModeOn \in BOOLEAN, mSustainedPerfModeOn \in BOOLEAN,
           NEW h \in Hints \ ModeHints, NEW on \in BOOLEAN,
           NEW c, c = Switch(h, on)
    PROVE  /\ c \in Seq(Operation)
           /\ Leads({c[i] : i \in DOMAIN c})
           /\ \A value : <<"SetState", value>> \notin {c[i] : i \in DOMAIN c}
<1>. DEFINE P == {c[i] : i \in DOMAIN c}
<1>1. (c = <<Do(h)>> /\ P = {Do(h)}) \/ (c = <<End(h)>> /\ P = {End(h)})
    BY SMTT(30), Elements DEF Switch
<1>2. c \in Seq(Operation)
    <2>1. Do(h) \in Operation /\ End(h) \in Operation
        BY Zenon DEF Operation
    <2>2. <<Do(h)>> \in Seq(Operation) /\ <<End(h)>> \in Seq(Operation)
        BY SMTT(30), <2>1
    <2>. QED  BY Zenon, <1>1, <2>2
<1>3. /\ \A k \in ModeHints : Do(k) \notin P /\ End(k) \notin P
      /\ \A f \in {"VR", "Sustained"} : Set(f) \notin P /\ Clear(f) \notin P
      /\ \A k \in Hints : ~(Do(k) \in P /\ End(k) \in P)
      /\ \A value : <<"SetState", value>> \notin P
    BY Zenon, <1>1 DEF Do, End, Set, Clear
<1>. QED  BY Zenon, <1>2, <1>3, LeadsNowhere

\* VIDEO_ENCODE.
LEMMA EncodeLeads ==
    ASSUME mVRModeOn \in BOOLEAN, mSustainedPerfModeOn \in BOOLEAN, ~InMode, NEW on \in BOOLEAN,
           NEW c, c = VideoEncode(on)
    PROVE  /\ c \in Seq(Operation)
           /\ Leads({c[i] : i \in DOMAIN c})
           /\ \A h \in ModeHints : Do(h) \notin {c[i] : i \in DOMAIN c}
<1>. DEFINE P == {c[i] : i \in DOMAIN c}
            first == IF on THEN Do("VIDEO_ENCODE") ELSE End("VIDEO_ENCODE")
            second == IF on THEN <<"SetState", "VIDEO_ENCODE">> ELSE <<"SetState", "">>
            third == IF on THEN Set("Encoder") ELSE Clear("Encoder")
<1>1. c = <<first, second, third>>
    BY Zenon DEF VideoEncode
<1>2. first \in Operation /\ second \in Operation /\ third \in Operation
    BY Zenon DEF Operation, Hints
<1>3. second[1] = "SetState"
    BY Zenon
<1>4. /\ \A h \in ModeHints : Do(h) # first /\ End(h) # first /\ Do(h) # third /\ End(h) # third
      /\ \A h \in ModeHints : Do(h) # second /\ End(h) # second
      /\ \A f \in {"VR", "Sustained"} : Set(f) # first /\ Clear(f) # first /\ Set(f) # third /\ Clear(f) # third
      /\ \A f \in {"VR", "Sustained"} : Set(f) # second /\ Clear(f) # second
    BY Zenon, <1>3 DEF Do, End, Set, Clear, ModeHints
<1>5. \A h \in Hints : ~(Do(h) \in {first, second, third} /\ End(h) \in {first, second, third})
    BY Zenon, <1>3 DEF Do, End, Set, Clear
<1>. HIDE DEF first, second, third
<1>6. c \in Seq(Operation)
    BY SMTT(30), <1>1, <1>2
<1>7. P = {first, second, third}
    BY SMTT(30), <1>1, Elements
<1>. QED  BY Zenon, <1>4, <1>5, <1>6, <1>7, LeadsNowhere

\* Every call of a client keeps the two conjuncts about calls.
LEMMA PowerHintInv ==
    ASSUME CallInv, EncodeInv, NEW h \in clientele \ {"INTERACTION"}, NEW data \in Data, PowerHint(h, data)
    PROVE  CallInv' /\ EncodeInv'
<1>. DEFINE P == {call'[i] : i \in DOMAIN call'}
<1>1. call = <<>> /\ UNCHANGED <<boot, mVRModeOn, mSustainedPerfModeOn, active, clientele>>
    BY Zenon DEF PowerHint
<1>2. P = Pending'
    BY Zenon DEF Pending
<1>3. CASE ~mReady \/ call' = <<>>
    <2>1. call' = <<>>
        BY Zenon, <1>3 DEF PowerHint
    <2>2. Pending' = {} /\ Pending = {}
        BY SMTT(30), <1>1, <1>2, <2>1, Elements DEF Pending
    <2>. QED  BY Zenon, <1>1, <2>1, <2>2 DEF CallInv, EncodeInv, After, mReady, InMode
<1>4. CASE mReady /\ call' # <<>>
    <2>1. call' = Operations(h, data)
        BY Zenon, <1>4 DEF PowerHint
    <2>2. h \in {"SUSTAINED_PERFORMANCE", "VR_MODE", "VIDEO_ENCODE", "LAUNCH", "EXPENSIVE_RENDERING"}
                \cup AudioHints \cup CameraHints
        BY Zenon, HintAssumption DEF CallInv
    <2>3. \/ h \in {"SUSTAINED_PERFORMANCE", "VR_MODE"}
             /\ \E on \in BOOLEAN : call' = SustainedPerformance(on) \/ call' = VRMode(on)
          \/ ~InMode /\ \E on \in BOOLEAN : call' = VideoEncode(on)
          \/ h \in Hints \ ModeHints /\ \E on \in BOOLEAN : call' = Switch(h, on)
        <3>. DEFINE some == data # 0
                    more == data > 0
        <3>0. some \in BOOLEAN /\ more \in BOOLEAN
            BY SMTT(30)
        <3>1. CASE h \in {"SUSTAINED_PERFORMANCE", "VR_MODE"}
            <4>1. call' = SustainedPerformance(some) \/ call' = VRMode(some)
                BY Zenon, <2>1, <3>1 DEF Operations, AudioHints
            <4>. HIDE DEF some
            <4>. QED  BY Zenon, <3>0, <3>1, <4>1
        <3>2. CASE h = "VIDEO_ENCODE"
            <4>1. call' = VideoEncode(some)
                BY Zenon, <2>1, <3>2 DEF Operations, AudioHints
            <4>. HIDE DEF some
            <4>2. ~InMode
                BY Zenon, <1>4, <4>1 DEF VideoEncode
            <4>. QED  BY Zenon, <3>0, <4>1, <4>2
        <3>3. CASE h \in {"LAUNCH", "EXPENSIVE_RENDERING"} \cup AudioHints \cup CameraHints
            <4>1. h \in Hints \ ModeHints
                BY Zenon, <3>3 DEF Hints, ModeHints, AudioHints, CameraHints
            <4>2. \E on \in BOOLEAN : call' = Switch(h, on)
                <5>1. \/ call' = SwitchOutsideModes(h, some) \/ call' = SwitchOutsideModes(h, more)
                      \/ call' = Switch(h, some) \/ call' = SwitchChecked(h, data)
                    BY Zenon, <2>1, <3>3 DEF Operations, AudioHints, CameraHints
                <5>2. call' = SwitchChecked(h, data) => call' = Switch(h, more)
                    BY Zenon, <1>4 DEF SwitchChecked
                <5>. HIDE DEF some, more
                <5>. QED  BY Zenon, <1>4, <3>0, <5>1, <5>2 DEF SwitchOutsideModes
            <4>. QED  BY Zenon, <4>1, <4>2
        <3>. QED  BY Zenon, <2>2, <3>1, <3>2, <3>3
    <2>4. call' \in Seq(Operation) /\ Leads(P)
        <3>. mVRModeOn \in BOOLEAN /\ mSustainedPerfModeOn \in BOOLEAN
            BY Zenon DEF CallInv
        <3>1. ASSUME NEW on \in BOOLEAN, call' = SustainedPerformance(on) \/ call' = VRMode(on)
              PROVE  call' \in Seq(Operation) /\ Leads(P)
            BY Zenon, <3>1, ModeCallsLead
        <3>2. ASSUME ~InMode, NEW on \in BOOLEAN, call' = VideoEncode(on)
              PROVE  call' \in Seq(Operation) /\ Leads(P)
            BY SMTT(30), <3>2, EncodeLeads
        <3>3. ASSUME h \in Hints \ ModeHints, NEW on \in BOOLEAN, call' = Switch(h, on)
              PROVE  call' \in Seq(Operation) /\ Leads(P)
            BY SMTT(30), <3>3, SwitchLeads
        <3>. QED  BY Zenon, <2>3, <3>1, <3>2, <3>3
    <2>5. CallInv'
        BY Zenon, <1>1, <1>2, <1>4, <2>4, CallBegins
    <2>6. CASE ~InMode /\ \E on \in BOOLEAN : call' = VideoEncode(on)
        <3>1. \A k \in ModeHints : Do(k) \notin P
            BY Zenon, <2>6, EncodeLeads DEF CallInv
        <3>2. active \cap ModeHints = {}
            <4>1. Pending = {}
                BY SMTT(30), <1>1, Elements DEF Pending
            <4>. QED  BY Zenon, <2>6, <4>1 DEF CallInv, After, ModeOf, InMode
        <3>. QED  BY Zenon, <1>1, <1>2, <2>5, <3>1, <3>2 DEF EncodeInv
    <2>7. CASE \A value : <<"SetState", value>> \notin P
        BY Zenon, <1>2, <2>5, <2>7 DEF EncodeInv
    <2>. QED  BY Zenon, <2>3, <2>6, <2>7, ModeCallsLead, SwitchLeads DEF CallInv
<1>. QED  BY Zenon, <1>3, <1>4

-----------------------------------------------------------------------------
(* The inductive invariant.                                                *)

\* Steps that leave the calls alone.
LEMMA CallUnchanged ==
    ASSUME CallInv, EncodeInv, UNCHANGED ModeVars
    PROVE  CallInv' /\ EncodeInv'
BY ZenonT(60) DEF ModeVars, CallInv, EncodeInv, Pending, After, mReady, InMode

\* Steps between calls that leave the flags the mode that is requested.
LEMMA BetweenCalls ==
    ASSUME call' = <<>>, UNCHANGED clientele, CallInv,
           mVRModeOn' \in BOOLEAN, mSustainedPerfModeOn' \in BOOLEAN,
           boot' \in {"wait", "state"} => active' = {} /\ ~InMode',
           \A h \in ModeHints : h \in ModeHint' <=> h \in active'
    PROVE  CallInv' /\ EncodeInv'
<1>1. Pending' = {}
    BY SMTT(30), Elements DEF Pending
<1>2. ModeOf(After("VR", mVRModeOn), After("Sustained", mSustainedPerfModeOn))' = ModeHint'
    BY Zenon, <1>1 DEF After, ModeHint
<1>. QED  BY SMTT(30), <1>1, <1>2 DEF CallInv, EncodeInv

\* A new process has no mode.
LEMMA NewProcessInv ==
    ASSUME CallInv, NewProcess, UNCHANGED clientele
    PROVE  CallInv' /\ EncodeInv'
BY Zenon, BetweenCalls DEF NewProcess, ModeHint, ModeOf, InMode

\* The calls, the constructor and whatever may happen between their steps.
LEMMA CallInvStep ==
    ASSUME IInv, Next
    PROVE  CallInv' /\ EncodeInv'
<1>. CallInv /\ EncodeInv /\ PropInv
    BY Zenon DEF IInv
<1>0. ~mReady => call = <<>> /\ \A h \in ModeHints : h \in ModeHint <=> h \in active
    <2>1. ASSUME ~mReady PROVE call = <<>> /\ Pending = {}
        BY SMTT(30), <2>1, Elements DEF CallInv, Pending
    <2>. QED  BY Zenon, <2>1 DEF CallInv, After, ModeHint
<1>1. CASE CreateHandlers
    <2>1. /\ UNCHANGED <<mVRModeOn, mSustainedPerfModeOn, call, active, clientele>>
          /\ boot = "wait" /\ boot' = "state"
        BY Zenon, <1>1 DEF CreateHandlers, clientVars
    <2>2. call' = <<>> /\ \A h \in ModeHints : h \in ModeHint' <=> h \in active'
        BY Zenon, <1>0, <2>1 DEF mReady, ModeHint
    <2>3. active' = {} /\ ~InMode'
        BY Zenon, <2>1 DEF CallInv, InMode
    <2>. QED  BY Zenon, <2>1, <2>2, <2>3, BetweenCalls DEF CallInv
<1>2. CASE RestoreState
    <2>1. /\ call' = <<>> /\ boot' = "audio" /\ active = {} /\ UNCHANGED clientele
          /\ active' = active \cup ({prop["state"]} \cap (ModeHints \cup {"VIDEO_ENCODE"}))
        BY Zenon, <1>0, <1>2 DEF RestoreState, CallInv, clientVars, mReady
    <2>2. /\ mSustainedPerfModeOn' = (prop["state"] \in {"SUSTAINED_PERFORMANCE", "VR_SUSTAINED_PERFORMANCE"})
          /\ mVRModeOn' = (prop["state"] \in {"VR_MODE", "VR_SUSTAINED_PERFORMANCE"})
        BY Zenon, <1>2 DEF RestoreState
    <2>3. mVRModeOn' \in BOOLEAN /\ mSustainedPerfModeOn' \in BOOLEAN
        BY SMTT(30), <2>2
    <2>4. ASSUME NEW h \in ModeHints PROVE h \in ModeHint' <=> h = prop["state"]
        BY Zenon, <2>2 DEF ModeHint, ModeOf, ModeHints
    <2>5. ASSUME NEW h \in ModeHints PROVE h \in active' <=> h = prop["state"]
        BY Zenon, <2>1
    <2>. QED  BY Zenon, <2>1, <2>3, <2>4, <2>5, BetweenCalls
<1>3. CASE RestoreAudio \/ RestoreRendering
    <2>1. /\ call' = <<>> /\ boot' \in {"rendering", "ready"}
          /\ UNCHANGED <<clientele, mVRModeOn, mSustainedPerfModeOn>>
          /\ \/ active' = active \cup ({prop["audio"]} \ {""})
             \/ active' = active \cup ({prop["rendering"]} \ {""})
        BY Zenon, <1>0, <1>3 DEF RestoreAudio, RestoreRendering, RestoreHint, clientVars, mReady
    <2>2. \A h \in ModeHints : h \in active' <=> h \in active
        BY Zenon, <2>1 DEF PropInv, ModeHints
    <2>3. \A h \in ModeHints : h \in ModeHint' <=> h \in active'
        BY Zenon, <1>0, <1>3, <2>1, <2>2 DEF RestoreAudio, RestoreRendering, RestoreHint, mReady, ModeHint
    <2>. QED  BY Zenon, <2>1, <2>3, BetweenCalls DEF CallInv
<1>4. CASE CallStep
    BY Zenon, <1>4, CallStepCallInv, CallStepEncodeInv
<1>5. CASE \E p \in Props : NodeWrite(p)
    BY Zenon, <1>5, CallUnchanged DEF NodeWrite, ModeVars, clientVars
<1>6. CASE \E h \in clientele \ {"INTERACTION"}, data \in Data : PowerHint(h, data)
    BY Zenon, <1>6, PowerHintInv
<1>7. CASE InteractionHint \/ LeaseStep
    BY Zenon, <1>7, CallUnchanged DEF InteractionHint, LeaseStep, ModeVars, halVars, clientVars
<1>8. CASE HintExpires
    <2>1. PICK h \in TimedHints \cap active : active' = active \ {h}
        BY Zenon, <1>8 DEF HintExpires
    <2>2. UNCHANGED <<boot, mVRModeOn, mSustainedPerfModeOn, call, clientele>>
        BY Zenon, <1>8 DEF HintExpires, clientVars
    <2>3. \A k \in ModeHints : k \in active' <=> k \in active
        BY Zenon, <2>1 DEF TimedHints, CameraHints, ModeHints
    <2>. QED  BY ZenonT(60), <2>1, <2>2, <2>3 DEF CallInv, EncodeInv, Pending, After, mReady, InMode
<1>9. CASE HalCrash \/ RuleRestart
    BY Zenon, <1>9, NewProcessInv DEF HalCrash, RuleRestart, clientVars
<1>10. CASE \E s \in Services \cup {ClientOf(h) : h \in clientele} : ServiceDies(s) \/ Rule(s) \/ ServiceUp(s)
    BY Zenon, <1>10, CallUnchanged DEF ServiceDies, Rule, ServiceUp, ModeVars, halVars, clientVars
<1>. QED
    BY Zenon, <1>1, <1>2, <1>3, <1>4, <1>5, <1>6, <1>7, <1>8, <1>9, <1>10 DEF Next, Hal, Boot, Clients, Surroundings

\* The properties: written by the looper, by VIDEO_ENCODE, and cleared by init's rules.
LEMMA PropInvStep ==
    ASSUME IInv, Next
    PROVE  PropInv'
<1>. CallInv /\ EncodeInv /\ PropInv
    BY Zenon DEF IInv
<1>1. CASE UNCHANGED <<node, prop, restart, stale>>
    BY Zenon, <1>1 DEF PropInv
<1>2. CASE \E p \in Props : NodeWrite(p)
    <2>1. PICK p \in Props : NodeWrite(p)
        BY Zenon, <1>2
    <2>2. /\ node' = [node EXCEPT ![p] = Target(p)] /\ prop' = [prop EXCEPT ![p] = Target(p)]
          /\ stale' = (stale /\ p # "state") /\ UNCHANGED restart
        BY Zenon, <2>1 DEF NodeWrite, PropertyChanged
    <2>3. CASE p = "state"
        <3>1. Target(p) \in Values
            BY Zenon, <2>3, FirstIsActive DEF Values
        <3>. QED  BY Zenon, <2>2, <2>3, <3>1 DEF PropInv, Props
    <2>4. CASE p = "audio"
        <3>1. Target(p) \in {"", "AUDIO_LOW_LATENCY"} /\ Target(p) \in Values
            BY Zenon, <2>4, SideTargets DEF Values
        <3>. QED  BY Zenon, <2>2, <2>4, <3>1 DEF PropInv, Props
    <2>5. CASE p = "rendering"
        <3>1. Target(p) \in {"", "EXPENSIVE_RENDERING"} /\ Target(p) \in Values
            BY Zenon, <2>5, SideTargets DEF Values
        <3>. QED  BY Zenon, <2>2, <2>5, <3>1 DEF PropInv, Props
    <2>. QED  BY Zenon, <2>3, <2>4, <2>5 DEF Props
<1>3. CASE CallStep
    <2>1. CASE Head(call)[1] # "SetState"
        BY Zenon, <1>1, <1>3, <2>1 DEF CallStep, initVars
    <2>2. CASE Head(call)[1] = "SetState"
        <3>1. Head(call) \in Operation /\ Head(call) \in Pending
            BY Zenon, <1>3, PendingTail DEF CallStep, CallInv
        <3>2. Head(call) = <<"SetState", "VIDEO_ENCODE">> \/ Head(call) = <<"SetState", "">>
            <4>1. ASSUME NEW x
                  PROVE  /\ Do(x)[1] # "SetState" /\ End(x)[1] # "SetState"
                         /\ Set(x)[1] # "SetState" /\ Clear(x)[1] # "SetState"
                BY Zenon DEF Do, End, Set, Clear
            <4>. QED  BY Zenon, <2>2, <3>1, <4>1 DEF Operation
        <3>3. active \cap ModeHints = {}
            BY Zenon, <3>1, <3>2 DEF EncodeInv
        <3>4. Target("state") \notin ModeHints
            BY Zenon, <3>3, FirstIsActive DEF ModeHints
        <3>5. PICK failed \in BOOLEAN :
                 /\ prop' = IF failed THEN prop ELSE [prop EXCEPT !["state"] = Head(call)[2]]
                 /\ IF failed THEN UNCHANGED initVars ELSE PropertyChanged
                 /\ stale' = (failed \/ node["state"] # Target("state"))
            BY Zenon, <1>3, <2>2 DEF CallStep
        <3>6. UNCHANGED <<node, restart>>
            BY Zenon, <1>3, <3>5 DEF CallStep, PropertyChanged, initVars
        <3>7. Head(call)[2] \in Values
            <4>1. ASSUME NEW x, Head(call) = <<"SetState", x>> PROVE Head(call)[2] = x
                BY SMTT(30), <4>1
            <4>2. Head(call)[2] = "VIDEO_ENCODE" \/ Head(call)[2] = ""
                BY Zenon, <3>2, <4>1
            <4>. QED  BY Zenon, <4>2 DEF Values
        <3>8. /\ prop' \in [Props -> Values] /\ prop'["audio"] = prop["audio"]
              /\ prop'["rendering"] = prop["rendering"]
            BY Zenon, <3>5, <3>7 DEF PropInv, Props
        <3>9. ~(~stale' /\ node["state"] \in ModeHints)
            BY Zenon, <3>4, <3>5
        <3>. QED  BY Zenon, <3>6, <3>8, <3>9 DEF PropInv
    <2>. QED  BY Zenon, <2>1, <2>2
<1>4. CASE NewProcess /\ UNCHANGED prop
    BY Zenon, <1>4 DEF NewProcess, PropInv, Props, Values, ModeHints
<1>5. CASE \E s \in Services : Rule(s)
    <2>1. PICK s \in Services : Rule(s)
        BY Zenon, <1>5
    <2>2. restart' = TRUE /\ UNCHANGED node
        BY Zenon, <2>1 DEF Rule, halVars
    <2>3. prop' \in [Props -> Values] /\ \A p \in Props : prop'[p] \in {"", prop[p]}
        BY Zenon, <2>1 DEF Rule, Services, PropInv, Props, Values
    <2>. QED  BY Zenon, <2>2, <2>3 DEF PropInv, Props
<1>6. \/ UNCHANGED <<node, prop, restart, stale>> \/ (\E p \in Props : NodeWrite(p)) \/ CallStep
      \/ (NewProcess /\ UNCHANGED prop) \/ \E s \in Services : Rule(s)
    <2>1. ASSUME CreateHandlers \/ RestoreState \/ RestoreAudio \/ RestoreRendering \/ HintExpires
          PROVE  UNCHANGED <<node, prop, restart, stale>>
        BY Zenon, <2>1 DEF CreateHandlers, RestoreState, RestoreAudio, RestoreRendering, RestoreHint,
                    HintExpires, initVars
    <2>2. ASSUME \/ InteractionHint \/ LeaseStep
                 \/ \E h \in clientele \ {"INTERACTION"}, data \in Data : PowerHint(h, data)
          PROVE  UNCHANGED <<node, prop, restart, stale>>
        BY Zenon, <2>2 DEF InteractionHint, LeaseStep, PowerHint, halVars, initVars
    <2>3. ASSUME \E s \in Services \cup {ClientOf(h) : h \in clientele} : ServiceDies(s) \/ ServiceUp(s)
          PROVE  UNCHANGED <<node, prop, restart, stale>>
        BY Zenon, <2>3 DEF ServiceDies, ServiceUp, halVars
    <2>4. HalCrash \/ RuleRestart => NewProcess /\ UNCHANGED prop
        BY Zenon DEF HalCrash, RuleRestart
    <2>. QED  BY Zenon, <2>1, <2>2, <2>3, <2>4 DEF Next, Hal, Boot, Clients, Surroundings
<1>. QED  BY Zenon, <1>1, <1>2, <1>3, <1>4, <1>5, <1>6

\* The inductive invariant holds initially, and every step keeps it.
LEMMA Invariance == Spec => []IInv
<1>1. Init => IInv
    <2>. SUFFICES ASSUME Init PROVE IInv
        BY Zenon
    <2>1. /\ boot = "wait" /\ mVRModeOn = FALSE /\ mSustainedPerfModeOn = FALSE
          /\ call = <<>> /\ active = {} /\ clientele \in Clienteles
        BY Zenon DEF Init
    <2>2. Pending = {}
        BY SMTT(30), <2>1 DEF Pending
    <2>3. CallInv /\ EncodeInv
        <3>1. ~After("VR", mVRModeOn) /\ ~After("Sustained", mSustainedPerfModeOn) /\ ~InMode
            BY Zenon, <2>1, <2>2 DEF After, InMode
        <3>2. \A h \in ModeHints :
                 h \notin ModeOf(After("VR", mVRModeOn), After("Sustained", mSustainedPerfModeOn))
            BY Zenon, <3>1 DEF ModeOf
        <3>3. call \in Seq(Operation)
            BY SMTT(30), <2>1
        <3>. QED  BY Zenon, <2>1, <2>2, <3>1, <3>2, <3>3 DEF CallInv, EncodeInv
    <2>4. PropInv
        BY Zenon DEF Init, PropInv, Props, Values, ModeHints
    <2>. QED  BY Zenon, <2>3, <2>4 DEF IInv
<1>2. IInv /\ [Next]_vars => IInv'
    <2>1. ASSUME IInv, UNCHANGED vars PROVE IInv'
        <3>1. UNCHANGED ModeVars /\ UNCHANGED <<node, prop, restart, stale>>
            BY Zenon, <2>1 DEF vars, halVars, clientVars, initVars, ModeVars
        <3>2. CallInv' /\ EncodeInv'
            BY Zenon, <2>1, <3>1, CallUnchanged DEF IInv
        <3>3. PropInv'
            BY Zenon, <2>1, <3>1 DEF IInv, PropInv
        <3>. QED  BY Zenon, <3>2, <3>3 DEF IInv
    <2>. QED  BY Zenon, <2>1, CallInvStep, PropInvStep DEF IInv
<1>. QED  BY <1>1, <1>2, PTL DEF Spec

-----------------------------------------------------------------------------
(* The theorems.                                                           *)

\* Between calls the invariant says that the hint of the flags is the one requested.
LEMMA MatchesBetweenCalls ==
    ASSUME CallInv, call = <<>>
    PROVE  active \cap ModeHints = ModeHint
<1>1. Pending = {}
    BY SMTT(30), Elements DEF Pending
<1>2. \A h \in ModeHints : h \in ModeHint <=> h \in active
    BY Zenon, <1>1 DEF CallInv, After, ModeHint
<1>3. ModeHint \subseteq ModeHints
    BY Zenon DEF ModeHint, ModeOf, ModeHints
<1>. QED  BY Zenon, <1>2, <1>3

\* For all sets of clients: between calls exactly the hint of the mode the flags stand for
\* is requested, through every sequence of calls, crashes and restarts.
THEOREM ModeHintMatchesFlagsHolds == Spec => []ModeHintMatchesFlags
<1>1. IInv => ModeHintMatchesFlags
    BY Zenon, MatchesBetweenCalls DEF IInv, ModeHintMatchesFlags
<1>. QED  BY <1>1, Invariance, PTL

\* For all sets of clients: once the looper has run, the state property names the mode the
\* flags stand for, with the exceptions the property names.
THEOREM ModePersistedHolds == Spec => []ModePersisted
<1>1. ASSUME IInv PROVE ModePersisted
    <2>. SUFFICES ASSUME mReady, call = <<>>, Settled, ~restart, ~stale,
                         "CAMERA_STREAMING" \notin active, InMode
                  PROVE  {prop["state"]} = ModeHint
        BY Zenon DEF ModePersisted
    <2>1. active \cap ModeHints = ModeHint
        BY Zenon, <1>1, MatchesBetweenCalls DEF IInv
    <2>2. PICK mode \in ModeHints : ModeHint = {mode}
        BY Zenon, <1>1 DEF IInv, CallInv, InMode, ModeHint, ModeOf, ModeHints
    <2>3. Target("state") = mode
        <3>1. mode \in active
            BY Zenon, <2>1, <2>2
        <3>2. Target("state") # "" /\ Target("state") \in active
            BY Zenon, <3>1, FirstIsActive
        <3>3. Target("state") \in ModeHints \cup {"CAMERA_STREAMING"}
            BY Zenon, <3>2, FirstIsActive
        <3>. QED  BY Zenon, <2>1, <2>2, <3>2, <3>3
    <2>4. node["state"] = mode
        BY Zenon, <2>3 DEF Settled, Props
    <2>5. prop["state"] = mode
        BY Zenon, <1>1, <2>2, <2>4 DEF IInv, PropInv
    <2>. QED  BY Zenon, <2>2, <2>5
<1>. QED  BY <1>1, Invariance, PTL

\* For all sets of clients: once the looper has run, the property of a low-latency or
\* expensive-rendering hint that is requested names it.
THEOREM SideHintsPersistedHolds == Spec => []SideHintsPersisted
<1>1. ASSUME IInv, mReady, Settled, ~restart
      PROVE  /\ "AUDIO_LOW_LATENCY" \in active => prop["audio"] = "AUDIO_LOW_LATENCY"
             /\ "EXPENSIVE_RENDERING" \in active => prop["rendering"] = "EXPENSIVE_RENDERING"
    <2>1. node["audio"] = Target("audio") /\ node["rendering"] = Target("rendering")
        BY Zenon, <1>1 DEF Settled, Props
    <2>. QED  BY Zenon, <1>1, <2>1, SideTargets DEF IInv, PropInv
<1>2. IInv => SideHintsPersisted
    BY Zenon, <1>1 DEF SideHintsPersisted
<1>. QED  BY <1>2, Invariance, PTL
=============================================================================
