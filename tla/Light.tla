-------------------------------- MODULE Light --------------------------------
(***************************************************************************)
(* The lights HAL (hardware/lights/Light.cpp): the LCD backlight with its  *)
(* low-persistence mode, the RGB LED shared by battery and notifications,  *)
(* and the button light.  The service has one binder thread, so a call is  *)
(* one step; each write to a file in /sys may fail on its own.             *)
(***************************************************************************)
EXTENDS Integers

CONSTANTS
    Types,              \* the types of light clients set
    Colors,             \* colours a client asks for: functions from LEDs to 0..255
    Timings,            \* pairs flashOnMs, flashOffMs
    BacklightMax,       \* mBacklightMax, read at the start
    MaxSingle, MaxMix,  \* mMaxSingle and mMaxMix: functions from LEDs
    LpBrightness,       \* sys.display.low_persistence_mode_brightness
    HasPersistenceFile, HasButtonFile,
    WritesMayFail

LEDs == {"red", "green", "blue"}
Byte == 0..255

ASSUME LightAssumption ==
    /\ Types \subseteq {"BACKLIGHT", "BUTTONS", "BATTERY", "NOTIFICATIONS", "ATTENTION", "KEYBOARD"}
    /\ Colors \subseteq [LEDs -> Byte]
    /\ BacklightMax \in Nat \cup {-1} /\ LpBrightness \in Byte
    /\ MaxSingle \in [LEDs -> Nat] /\ MaxMix \in [LEDs -> Nat]
    /\ HasPersistenceFile \in BOOLEAN /\ HasButtonFile \in BOOLEAN /\ WritesMayFail \in BOOLEAN

Off == [led \in LEDs |-> 0]
LightStates == [color : Colors \cup {Off}, flash : BOOLEAN, ms : Timings]

VARIABLES
    mLowPersistenceEnabled, mIsBlinking, batteryState, notificationState,
    lcd, persist,       \* files: backlight brightness, msm_fb_persist_mode
    brightness,         \* brightness of each LED
    blink,              \* lut_pwm and the pauses of each LED
    sync_state,         \* 1 while the LEDs blink together
    button,
    status,             \* of the last call, and of the last one for the RGB LED:
    ledStatus,
    unreported          \* observer: a write failed and the call went on as if it had not

lcdVars == <<mLowPersistenceEnabled, lcd, persist>>
ledVars == <<mIsBlinking, batteryState, notificationState, brightness, blink, sync_state, ledStatus>>
vars == <<lcdVars, ledVars, button, status, unreported>>

Dark == [color |-> Off, flash |-> FALSE, ms |-> CHOOSE ms \in Timings : TRUE]

Init ==
    /\ mLowPersistenceEnabled = FALSE /\ mIsBlinking = FALSE
    /\ batteryState = Dark /\ notificationState = Dark
    /\ lcd = 0 /\ persist = 0
    /\ brightness = Off
    /\ blink = [led \in LEDs |-> <<0, 0, 0>>]
    /\ sync_state = 0
    /\ button = 0
    /\ status = "SUCCESS" /\ ledStatus = "SUCCESS"
    /\ unreported = {}

\* The sets of files whose writes fail in a call.
Failures(files) == IF WritesMayFail THEN SUBSET files ELSE {{}}

-----------------------------------------------------------------------------
(* Conversions.                                                            *)

isLit(state) == \E led \in LEDs : state.color[led] # 0

\* The mean of the channels, weighted in 256ths.
rgbToBrightness(color) ==
    (77 * color["red"] + 150 * color["green"] + 29 * color["blue"]) \div 256

scaleBrightness(value, maxBrightness) == (value * maxBrightness + 127) \div 255

\* Variant of lcdBrightness for mutation: the largest value is not special.
lcdBrightness_NoTop(value) ==
    IF value = 0 \/ BacklightMax <= 0 THEN value
    ELSE scaleBrightness(value - 1, BacklightMax) + 1

\* What is written to the LCD for a brightness of 0..255.
lcdBrightness(value) ==
    IF value = 0 \/ BacklightMax <= 0 THEN value
    ELSE IF value = 255 THEN BacklightMax
    ELSE scaleBrightness(value - 1, BacklightMax) + 1

\* One lit LED may be brighter than several.
maxColor(color) ==
    IF \E l1, l2 \in LEDs : l1 # l2 /\ color[l1] # 0 /\ color[l2] # 0 THEN MaxMix ELSE MaxSingle

Scaled(color) == [led \in LEDs |-> scaleBrightness(color[led], maxColor(color)[led])]

-----------------------------------------------------------------------------
(* setLight: one action per case.                                          *)

Status(ok) == IF ok THEN "SUCCESS" ELSE "UNKNOWN"

\* Variant of SetBacklight for mutation: the new mode is not noted.
SetBacklight_Forgets(color, lpEnabled, failed) ==
    LET changed == HasPersistenceFile /\ mLowPersistenceEnabled # lpEnabled
        written == changed => "persist" \notin failed
        value == IF changed /\ lpEnabled THEN LpBrightness ELSE rgbToBrightness(color)
    IN  /\ mLowPersistenceEnabled' = mLowPersistenceEnabled
        /\ persist' = IF changed /\ written THEN (IF lpEnabled THEN 1 ELSE 0) ELSE persist
        /\ lcd' = IF written /\ "lcd" \notin failed THEN lcdBrightness(value) ELSE lcd
        /\ status' = Status(/\ written /\ "lcd" \notin failed
                            /\ ~(lpEnabled /\ ~HasPersistenceFile))
        /\ unreported' = IF changed THEN (IF written THEN unreported \ {"persist"}
                                          ELSE unreported \cup {"persist"})
                         ELSE unreported
        /\ UNCHANGED <<ledVars, button>>

\* The mode is noted even when it could not be written; then the brightness
\* is not written either.
SetBacklight(color, lpEnabled, failed) ==
    LET changed == HasPersistenceFile /\ mLowPersistenceEnabled # lpEnabled
        written == changed => "persist" \notin failed
        value == IF changed /\ lpEnabled THEN LpBrightness ELSE rgbToBrightness(color)
    IN  /\ mLowPersistenceEnabled' = IF changed THEN lpEnabled ELSE mLowPersistenceEnabled
        /\ persist' = IF changed /\ written THEN (IF lpEnabled THEN 1 ELSE 0) ELSE persist
        /\ lcd' = IF written /\ "lcd" \notin failed THEN lcdBrightness(value) ELSE lcd
        /\ status' = Status(/\ written /\ "lcd" \notin failed
                            /\ ~(lpEnabled /\ ~HasPersistenceFile))
        /\ unreported' = IF changed THEN (IF written THEN unreported \ {"persist"}
                                          ELSE unreported \cup {"persist"})
                         ELSE unreported
        /\ UNCHANGED <<ledVars, button>>

setLightBacklight ==
    \E color \in Colors \cup {Off}, lpEnabled \in BOOLEAN, failed \in Failures({"persist", "lcd"}) :
        SetBacklight(color, lpEnabled, failed)

\* Variant of StartBlinking for mutation: the flag is not set.
StartBlinking_NoFlag(state, failed) ==
    LET color == Scaled(state.color)
        lit == {led \in LEDs : color[led] # 0}
    IN  /\ sync_state' = IF "sync" \in failed THEN sync_state ELSE 1
        /\ blink' = [led \in LEDs |-> IF led \in lit \ failed THEN <<color[led], state.ms[1], state.ms[2]>>
                                      ELSE blink[led]]
        /\ mIsBlinking' = mIsBlinking
        /\ ledStatus' = Status("sync" \notin failed /\ lit \cap failed = {} /\ "start" \notin failed)
        /\ UNCHANGED <<brightness, unreported>>

\* Blinking: every LED that is lit gets its values, then all of them start.
StartBlinking(state, failed) ==
    LET color == Scaled(state.color)
        lit == {led \in LEDs : color[led] # 0}
    IN  /\ sync_state' = IF "sync" \in failed THEN sync_state ELSE 1
        /\ blink' = [led \in LEDs |-> IF led \in lit \ failed THEN <<color[led], state.ms[1], state.ms[2]>>
                                      ELSE blink[led]]
        /\ mIsBlinking' = TRUE
        /\ ledStatus' = Status("sync" \notin failed /\ lit \cap failed = {} /\ "start" \notin failed)
        /\ UNCHANGED <<brightness, unreported>>

\* Steady light: the LEDs are written in this order until a write fails.
Before(led) == CASE led = "red" -> {} [] led = "green" -> {"red"} [] led = "blue" -> {"red", "green"}

\* Variant of Steady for mutation: blinking is not disabled.
Steady_KeepsBlinking(state, failed) ==
    /\ sync_state' = sync_state
    /\ mIsBlinking' = FALSE
    /\ brightness' = [led \in LEDs |-> IF (Before(led) \cup {led}) \cap failed = {}
                                       THEN Scaled(state.color)[led] ELSE brightness[led]]
    /\ ledStatus' = Status(LEDs \cap failed = {})
    /\ unreported' = IF mIsBlinking THEN (IF "sync" \in failed THEN unreported \cup {"sync"}
                                          ELSE unreported \ {"sync"})
                     ELSE unreported
    /\ UNCHANGED blink

Steady(state, failed) ==
    /\ sync_state' = IF mIsBlinking /\ "sync" \notin failed THEN 0 ELSE sync_state
    /\ mIsBlinking' = FALSE
    /\ brightness' = [led \in LEDs |-> IF (Before(led) \cup {led}) \cap failed = {}
                                       THEN Scaled(state.color)[led] ELSE brightness[led]]
    /\ ledStatus' = Status(LEDs \cap failed = {})
    /\ unreported' = IF mIsBlinking THEN (IF "sync" \in failed THEN unreported \cup {"sync"}
                                          ELSE unreported \ {"sync"})
                     ELSE unreported
    /\ UNCHANGED blink

\* The files a call for the RGB LED writes.
Files(state) ==
    IF state.flash THEN {"sync", "start"} \cup {led \in LEDs : Scaled(state.color)[led] # 0}
    ELSE LEDs \cup (IF mIsBlinking THEN {"sync"} ELSE {})

setSpeakerLightLocked(state) ==
    \E failed \in Failures(Files(state)) :
        /\ IF state.flash THEN StartBlinking(state, failed) ELSE Steady(state, failed)
        /\ status' = ledStatus'

\* The battery goes before the notifications.
Shown(battery, notification) == IF isLit(battery) THEN battery ELSE notification

setLightBattery ==
    /\ batteryState' \in LightStates
    /\ setSpeakerLightLocked(Shown(batteryState', notificationState))
    /\ UNCHANGED <<notificationState, lcdVars, button>>

\* NOTIFICATIONS and ATTENTION.
setLightNotifications ==
    /\ notificationState' \in LightStates
    /\ setSpeakerLightLocked(Shown(batteryState, notificationState'))
    /\ UNCHANGED <<batteryState, lcdVars, button>>

setLightButtons ==
    /\ \/ ~HasButtonFile /\ status' = "LIGHT_NOT_SUPPORTED" /\ UNCHANGED button
       \/ /\ HasButtonFile
          /\ \E color \in Colors \cup {Off}, failed \in Failures({"button"}) :
               /\ button' = IF failed = {} THEN color["blue"] ELSE button
               /\ status' = Status(failed = {})
    /\ UNCHANGED <<lcdVars, ledVars, unreported>>

\* KEYBOARD, BLUETOOTH, WIFI and unknown types.
NotSupported ==
    /\ status' = "LIGHT_NOT_SUPPORTED"
    /\ UNCHANGED <<lcdVars, ledVars, button, unreported>>

setLight(type) ==
    \/ type = "BACKLIGHT" /\ setLightBacklight
    \/ type = "BUTTONS" /\ setLightButtons
    \/ type = "BATTERY" /\ setLightBattery
    \/ type \in {"NOTIFICATIONS", "ATTENTION"} /\ setLightNotifications
    \/ type = "KEYBOARD" /\ NotSupported

Next == \E type \in Types : setLight(type)

Spec == Init /\ [][Next]_vars

-----------------------------------------------------------------------------
(* Properties.                                                             *)

\* After a call for the RGB LED that reports success, the LED shows the battery
\* state if that is lit and the notification otherwise: it blinks with the
\* values of every lit channel, or is steady in its colour.  Excepted is a
\* sync_state that could not be cleared, which Light.cpp:255 ignores.
ShowsPriority ==
    ledStatus = "SUCCESS" /\ "sync" \notin unreported =>
        LET state == Shown(batteryState, notificationState)
            color == Scaled(state.color)
        IN  IF state.flash
            THEN /\ sync_state = 1
                 /\ \A led \in LEDs : color[led] # 0 =>
                       blink[led] = <<color[led], state.ms[1], state.ms[2]>>
            ELSE sync_state = 0 /\ brightness = color

\* The flag says whether the LEDs may still blink: they never do without it,
\* whatever failed.  Excepted is the write whose failure Light.cpp:255 ignores.
BlinkingIsKnown == sync_state = 1 /\ "sync" \notin unreported => mIsBlinking

\* The persistence mode of the panel is the one last asked for, as long as the
\* write that changed it was done: a mode change is neither lost nor repeated.
PersistenceKnown ==
    "persist" \notin unreported => persist = (IF mLowPersistenceEnabled THEN 1 ELSE 0)

\* "make sure the min and max values are 1 and max_lcd_brightness"
\* (Light.cpp:208), for panels with at least 64 levels.
LcdInRange == BacklightMax >= 64 => lcd \in 0..BacklightMax
=============================================================================
