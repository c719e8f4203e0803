----------------------------- MODULE LightProofs -----------------------------
(* Proofs about Light, for all colours, timings and maximum values.        *)
EXTENDS Light, TLAPS

\* A brightness of 1..255 stays between 1 and the maximum of the panel, if
\* that has at least 64 levels; 0 stays 0.
THEOREM LcdRange ==
    ASSUME NEW value \in Byte, BacklightMax >= 64
    PROVE  /\ lcdBrightness(value) \in 0..BacklightMax
           /\ lcdBrightness(value) = 0 <=> value = 0
  <1> DEFINE x == value - 1
             num == x * BacklightMax + 127
  <1>1. CASE value = 0
    BY <1>1, LightAssumption, SMT DEF lcdBrightness
  <1>2. CASE value = 255
    BY <1>2, LightAssumption, SMT DEF lcdBrightness
  <1>3. CASE value \in 1..254
    <2>1. x \in 0..253 /\ BacklightMax \in Nat
      BY <1>3, LightAssumption, SMT
    <2>2. num \in Nat /\ num <= 253 * BacklightMax + 127
      <3>1. x * BacklightMax <= 253 * BacklightMax
        BY <2>1, SMT
      <3>2. QED
        BY <2>1, <3>1, SMT
    <2>3. num \div 255 \in 0..(BacklightMax - 1)
      <3> HIDE DEF num
      <3>1. num < 255 * BacklightMax
        BY <2>1, <2>2, SMT
      <3>2. QED
        BY <2>1, <2>2, <3>1, SMT
    <2>4. lcdBrightness(value) = num \div 255 + 1
      BY <1>3, LightAssumption, SMT DEF lcdBrightness, scaleBrightness, Byte
    <2>5. QED
      BY <2>1, <2>3, <2>4, <1>3, SMT
  <1>4. QED
    BY <1>1, <1>2, <1>3, SMT DEF Byte

\* A brighter request never makes the panel darker.
THEOREM ScaleMonotone ==
    ASSUME NEW v \in Nat, NEW w \in Nat, v <= w, NEW max \in Nat
    PROVE  scaleBrightness(v, max) <= scaleBrightness(w, max)
  <1>1. v * max <= w * max
    BY SMT
  <1>2. PICK a \in Nat, b \in Nat : a = v * max + 127 /\ b = w * max + 127 /\ a <= b
    BY <1>1, SMT
  <1>3. a \div 255 <= b \div 255
    BY <1>2, SMT
  <1>4. QED
    BY <1>2, <1>3, SMT DEF scaleBrightness

\* The weights of the channels add up to 256: grey keeps its value.
LEMMA RgbType == \A color \in Colors \cup {Off} : rgbToBrightness(color) \in Byte
  <1> TAKE color \in Colors \cup {Off}
  <1>1. color \in [LEDs -> Byte]
    BY LightAssumption DEF Off, Byte
  <1>2. PICK r \in Byte, g \in Byte, b \in Byte : color["red"] = r /\ color["green"] = g /\ color["blue"] = b
    BY <1>1 DEF LEDs
  <1>3. QED
    BY <1>2, SMT DEF rgbToBrightness, Byte

\* The inductive invariant for the backlight.
LcdInv ==
    /\ mLowPersistenceEnabled \in BOOLEAN
    /\ LcdInRange
    /\ PersistenceKnown

LEMMA LcdInit == Init => LcdInv
  <1> SUFFICES ASSUME Init PROVE LcdInv
    OBVIOUS
  <1>1. mLowPersistenceEnabled \in BOOLEAN
    BY Zenon DEF Init
  <1>2. LcdInRange
    BY LightAssumption, lcd = 0 DEF Init, LcdInRange
  <1>3. PersistenceKnown
    BY Zenon DEF Init, PersistenceKnown
  <1>4. QED
    BY <1>1, <1>2, <1>3 DEF LcdInv

LEMMA LcdStep == LcdInv /\ [Next]_vars => LcdInv'
  <1> SUFFICES ASSUME LcdInv, [Next]_vars PROVE LcdInv'
    OBVIOUS
  <1>1. CASE setLightBacklight
    <2>1. PICK color \in Colors \cup {Off}, lpEnabled \in BOOLEAN, failed \in Failures({"persist", "lcd"}) :
              SetBacklight(color, lpEnabled, failed)
      BY <1>1 DEF setLightBacklight
    <2> DEFINE changed == HasPersistenceFile /\ mLowPersistenceEnabled # lpEnabled
               value == IF changed /\ lpEnabled THEN LpBrightness ELSE rgbToBrightness(color)
    <2>2. value \in Byte
      BY LightAssumption, RgbType
    <2>3. LcdInRange'
      <3>1. lcd' = lcd \/ lcd' = lcdBrightness(value)
        BY <2>1 DEF SetBacklight
      <3>2. BacklightMax >= 64 => lcdBrightness(value) \in 0..BacklightMax
        BY <2>2, LcdRange
      <3>3. QED
        BY <3>1, <3>2 DEF LcdInv, LcdInRange
    <2>4. mLowPersistenceEnabled' \in BOOLEAN /\ PersistenceKnown'
      <3>1. CASE changed
        BY <2>1, <3>1 DEF SetBacklight, LcdInv, PersistenceKnown
      <3>2. CASE ~changed
        BY Zenon, <2>1, <3>2 DEF SetBacklight, LcdInv, PersistenceKnown
      <3>3. QED
        BY <3>1, <3>2
    <2>5. QED
      BY <2>3, <2>4 DEF LcdInv
  <1>2. CASE setLightBattery
    BY <1>2 DEF setLightBattery, lcdVars, LcdInv, LcdInRange, PersistenceKnown,
                setSpeakerLightLocked, StartBlinking, Steady
  <1>3. CASE setLightNotifications
    BY <1>3 DEF setLightNotifications, lcdVars, LcdInv, LcdInRange, PersistenceKnown,
                setSpeakerLightLocked, StartBlinking, Steady
  <1>4. CASE setLightButtons \/ NotSupported \/ UNCHANGED vars
    BY <1>4 DEF setLightButtons, NotSupported, vars, lcdVars, LcdInv, LcdInRange, PersistenceKnown
  <1>5. QED
    BY <1>1, <1>2, <1>3, <1>4 DEF Next, setLight

\* The backlight stays within the range of the panel.
THEOREM LcdCorrect == Spec => []LcdInRange
  <1>1. LcdInv => LcdInRange
    BY DEF LcdInv
  <1>2. QED
    BY <1>1, LcdInit, LcdStep, PTL DEF Spec

\* The panel is in the persistence mode that was last asked for.
THEOREM PersistenceCorrect == Spec => []PersistenceKnown
  <1>1. LcdInv => PersistenceKnown
    BY DEF LcdInv
  <1>2. QED
    BY <1>1, LcdInit, LcdStep, PTL DEF Spec

\* The inductive invariant for the RGB LED.
LedInv ==
    /\ sync_state \in {0, 1}
    /\ BlinkingIsKnown
    /\ ShowsPriority

LEMMA LedInit == Init => LedInv
  <1> SUFFICES ASSUME Init PROVE LedInv
    OBVIOUS
  <1>1. sync_state \in {0, 1} /\ BlinkingIsKnown
    BY DEF Init, BlinkingIsKnown
  <1>2. Shown(batteryState, notificationState).flash = FALSE
    BY DEF Init, Shown, Dark
  <1>3. Scaled(Shown(batteryState, notificationState).color) = Off
    <2>1. Shown(batteryState, notificationState).color = Off
      BY DEF Init, Shown, Dark
    <2>2. \A led \in LEDs : maxColor(Off)[led] \in Nat
      BY LightAssumption DEF maxColor, Off
    <2>3. \A led \in LEDs : scaleBrightness(Off[led], maxColor(Off)[led]) = 0
      BY <2>2, SMT DEF scaleBrightness, Off
    <2>4. Scaled(Off) = Off
      BY <2>3, Zenon DEF Scaled, Off
    <2>5. QED
      BY <2>1, <2>4
  <1>4. ShowsPriority
    BY <1>2, <1>3 DEF Init, ShowsPriority
  <1>5. QED
    BY <1>1, <1>4 DEF LedInv

\* A call that shows `state' leaves the LED as the invariant says.
LEMMA SpeakerStep ==
    ASSUME LedInv, NEW state, setSpeakerLightLocked(state),
           state = Shown(batteryState, notificationState)'
    PROVE  LedInv'
  <1>1. PICK failed \in Failures(Files(state)) :
            IF state.flash THEN StartBlinking(state, failed) ELSE Steady(state, failed)
    BY DEF setSpeakerLightLocked
  <1> DEFINE color == Scaled(state.color)
  <1>2. color = [led \in LEDs |-> color[led]]
    BY DEF Scaled
  <1> HIDE DEF color
  <1>3. CASE state.flash
    <2>1. StartBlinking(state, failed)
      BY <1>1, <1>3
    <2>2. sync_state' \in {0, 1} /\ BlinkingIsKnown'
      BY <2>1 DEF StartBlinking, LedInv, BlinkingIsKnown
    <2>3. ledStatus' = "SUCCESS" =>
             /\ sync_state' = 1
             /\ \A led \in LEDs : color[led] # 0 => blink'[led] = <<color[led], state.ms[1], state.ms[2]>>
      BY <2>1 DEF StartBlinking, Status, color
    <2>4. ShowsPriority'
      BY <1>3, <2>3 DEF ShowsPriority, color
    <2>5. QED
      BY <2>2, <2>4 DEF LedInv
  <1>4. CASE ~state.flash
    <2>1. Steady(state, failed)
      BY <1>1, <1>4
    <2>2. sync_state' \in {0, 1} /\ BlinkingIsKnown'
      BY <2>1 DEF Steady, LedInv, BlinkingIsKnown
    <2>3. "sync" \notin unreported' => sync_state' = 0
      BY <2>1 DEF Steady, LedInv, BlinkingIsKnown
    <2>4. ledStatus' = "SUCCESS" => brightness' = color
      <3>1. SUFFICES ASSUME ledStatus' = "SUCCESS" PROVE brightness' = color
        OBVIOUS
      <3>2. LEDs \cap failed = {}
        BY <2>1, <3>1 DEF Steady, Status
      <3>3. \A led \in LEDs : (Before(led) \cup {led}) \cap failed = {}
        BY <3>2 DEF Before, LEDs
      <3>4. brightness' = [led \in LEDs |-> color[led]]
        BY <2>1, <3>3 DEF Steady, color
      <3>5. QED
        BY <1>2, <3>4
    <2>5. ShowsPriority'
      BY <1>4, <2>3, <2>4 DEF ShowsPriority, color
    <2>6. QED
      BY <2>2, <2>5 DEF LedInv
  <1>5. QED
    BY <1>3, <1>4

LEMMA LedStep == LedInv /\ [Next]_vars => LedInv'
  <1> SUFFICES ASSUME LedInv, [Next]_vars PROVE LedInv'
    OBVIOUS
  <1>1. CASE setLightBattery
    BY <1>1, SpeakerStep DEF setLightBattery, Shown
  <1>2. CASE setLightNotifications
    BY <1>2, SpeakerStep DEF setLightNotifications, Shown
  <1>3. CASE UNCHANGED ledVars /\ ("sync" \notin unreported' => "sync" \notin unreported)
    BY <1>3 DEF ledVars, LedInv, BlinkingIsKnown, ShowsPriority, Shown, isLit
  <1>4. CASE setLightBacklight
    <2>1. UNCHANGED ledVars /\ ("sync" \notin unreported' => "sync" \notin unreported)
      BY <1>4 DEF setLightBacklight, SetBacklight
    <2>2. QED
      BY <1>3, <2>1
  <1>5. CASE setLightButtons \/ NotSupported \/ UNCHANGED vars
    <2>1. UNCHANGED ledVars /\ ("sync" \notin unreported' => "sync" \notin unreported)
      BY <1>5 DEF setLightButtons, NotSupported, vars
    <2>2. QED
      BY <1>3, <2>1
  <1>6. QED
    BY <1>1, <1>2, <1>4, <1>5 DEF Next, setLight

\* The RGB LED shows the battery state if that is lit, and the notification
\* otherwise.
THEOREM LedCorrect == Spec => []ShowsPriority
  <1>1. LedInv => ShowsPriority
    BY DEF LedInv
  <1>2. QED
    BY <1>1, LedInit, LedStep, PTL DEF Spec

\* The LEDs never blink unknown to the HAL.
THEOREM BlinkingCorrect == Spec => []BlinkingIsKnown
  <1>1. LedInv => BlinkingIsKnown
    BY DEF LedInv
  <1>2. QED
    BY <1>1, LedInit, LedStep, PTL DEF Spec
=============================================================================
