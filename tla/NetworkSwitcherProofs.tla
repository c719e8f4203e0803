------------------------ MODULE NetworkSwitcherProofs ------------------------
(* Proofs of the invariants of NetworkSwitcher, for any number of LTE      *)
(* modes, one SIM or two, and any combination of disturbances.             *)
EXTENDS NetworkSwitcher, TLAPS

USE DEF settings, networks, callbacks, messages, system, Networks

\* A subscription is the slot of its SIM, or -1.
LEMMA SubIDType == TypeOK => getSubID \in Slots \cup {-1}
  BY SwitcherAssumption DEF TypeOK, getSubID, getSimSlotIndex, isDualSim, Unset

\* The invariant holds when the phone is first booted.
LEMMA InitIInv == Init => IInv
  BY Zenon, SwitcherAssumption DEF Init, IInv, TypeOK, Continuation, SavedNetwork, ChoiceKept, Untouched,
                            Busy, Unset

\* Every step of the service, of the phone and of a disturbance preserves it.
LEMMA NextIInv == IInv /\ [Next]_vars => IInv'
  <1> SUFFICES ASSUME IInv, [Next]_vars PROVE IInv'
    OBVIOUS
  <1> USE SwitcherAssumption DEF IInv, TypeOK, Continuation, SavedNetwork, ChoiceKept, Untouched, Busy
  <1>1. CASE NSBootReceiver
    BY <1>1 DEF NSBootReceiver
  <1>2. CASE onCreate
    BY <1>2, SubIDType DEF onCreate, initProcess
  <1>3. CASE SubIdObserver
    BY <1>3, SubIDType DEF SubIdObserver, initProcess
  <1>4. CASE SlotObserver
    BY <1>4 DEF SlotObserver
  <1>5. CASE switchDown
    BY <1>5 DEF switchDown, stopSelf, isLTE
  <1>6. CASE UserUnlocked
    BY <1>6 DEF UserUnlocked
  <1>7. CASE AirplaneChange
    <2>1. TypeOK'
      <3>1. mSimServiceObserver' \in {"none", "plain", "airplane"}
        BY Zenon, <1>7 DEF AirplaneChange
      <3>2. airplaneMsg' \in BOOLEAN
        BY Zenon, <1>7 DEF AirplaneChange
      <3>3. QED
        BY <1>7, <3>1, <3>2 DEF AirplaneChange
    <2>2. Continuation'
      BY <1>7 DEF AirplaneChange
    <2>3. SavedNetwork'
      BY <1>7 DEF AirplaneChange
    <2>4. ChoiceKept'
      BY <1>7 DEF AirplaneChange
    <2>5. Untouched'
      BY <1>7 DEF AirplaneChange
    <2>6. QED
      BY <2>1, <2>2, <2>3, <2>4, <2>5
  <1>8. CASE SimServiceObserver
    <2>1. TypeOK'
      BY <1>8 DEF SimServiceObserver
    <2>2. Continuation'
      BY Zenon, <1>8 DEF SimServiceObserver
    <2>3. SavedNetwork'
      BY <1>8 DEF SimServiceObserver
    <2>4. ChoiceKept'
      BY <1>8 DEF SimServiceObserver
    <2>5. Untouched'
      BY <1>8 DEF SimServiceObserver
    <2>6. QED
      BY <2>1, <2>2, <2>3, <2>4, <2>5
  <1>9. CASE LowerRadio
    BY <1>9 DEF LowerRadio, setPreferredNetworkType, Refused
  <1>10. CASE LowerPut
    BY <1>10 DEF LowerPut, putPreferredNetwork
  <1>11. CASE AwaitUnlock
    <2>1. TypeOK'
      <3>1. excuse' \subseteq {"unlock", "airplane", "refuse", "user", "interrupted"}
        <4>1. excuse' = excuse \/ excuse' = excuse \cup {"unlock"}
          BY Zenon, <1>11 DEF AwaitUnlock
        <4>2. excuse \subseteq {"unlock", "airplane", "refuse", "user", "interrupted"}
          BY Zenon
        <4>3. QED
          BY ONLY Zenon, <4>1, <4>2
      <3>2. unlockRx' \in {"none", "first", "second"}
        BY Zenon, <1>11 DEF AwaitUnlock
      <3>3. QED
        BY <1>11, <3>1, <3>2 DEF AwaitUnlock
    <2>2. Continuation'
      BY <1>11 DEF AwaitUnlock
    <2>3. SavedNetwork'
      BY <1>11 DEF AwaitUnlock
    <2>4. ChoiceKept'
      BY <1>11 DEF AwaitUnlock
    <2>5. Untouched'
      BY <1>11 DEF AwaitUnlock
    <2>6. QED
      BY <2>1, <2>2, <2>3, <2>4, <2>5
  <1>12. CASE handleConnection
    BY <1>12 DEF handleConnection
  <1>13. CASE AirplaneRegister
    BY SMTT(30), <1>13 DEF AirplaneRegister
  <1>14. CASE RestoreRadio
    <2>1. TypeOK'
      <3>1. excuse' \subseteq {"unlock", "airplane", "refuse", "user", "interrupted"}
        <4>1. excuse' = excuse \/ excuse' = excuse \cup {"refuse"}
          BY Zenon, <1>14 DEF RestoreRadio, setPreferredNetworkType, Refused, stopSelf, getOriginalNetwork
        <4>2. excuse \subseteq {"unlock", "airplane", "refuse", "user", "interrupted"}
          BY Zenon
        <4>3. QED
          BY ONLY Zenon, <4>1, <4>2
      <3>2. radio' \in [Slots -> Networks] /\ newNetwork' \in Networks \cup {"none"}
        BY <1>14 DEF RestoreRadio, setPreferredNetworkType, Refused, stopSelf, getOriginalNetwork
      <3>3. QED
        BY <1>14, <3>1, <3>2 DEF RestoreRadio, setPreferredNetworkType, Refused, stopSelf, getOriginalNetwork
    <2>2. Continuation'
      BY <1>14 DEF RestoreRadio, setPreferredNetworkType, Refused, stopSelf, getOriginalNetwork
    <2>3. SavedNetwork'
      BY <1>14 DEF RestoreRadio, setPreferredNetworkType, Refused, stopSelf, getOriginalNetwork
    <2>4. ChoiceKept'
      BY <1>14 DEF RestoreRadio, setPreferredNetworkType, Refused, stopSelf, getOriginalNetwork
    <2>5. Untouched'
      BY <1>14 DEF RestoreRadio, setPreferredNetworkType, Refused, stopSelf, getOriginalNetwork
    <2>6. QED
      BY <2>1, <2>2, <2>3, <2>4, <2>5
  <1>15. CASE RestorePut
    BY <1>15 DEF RestorePut, putPreferredNetwork, stopSelf
  <1>16. CASE Unlock
    BY <1>16 DEF Unlock
  <1>17. CASE SimProgress
    BY <1>17 DEF SimProgress
  <1>18. CASE SignalChanges
    BY SMTT(30), <1>18 DEF SignalChanges
  <1>19. CASE AirplaneToggle
    <2>1. TypeOK'
      <3>1. airplane' \in BOOLEAN
        BY Zenon, <1>19 DEF AirplaneToggle
      <3>2. airplaneMsg' \in BOOLEAN
        BY Zenon, <1>19 DEF AirplaneToggle
      <3>3. signal' \in BOOLEAN
        BY Zenon, <1>19 DEF AirplaneToggle
      <3>4. QED
        BY <1>19, <3>1, <3>2, <3>3 DEF AirplaneToggle
    <2>2. Continuation'
      BY <1>19 DEF AirplaneToggle
    <2>3. SavedNetwork'
      BY <1>19 DEF AirplaneToggle
    <2>4. ChoiceKept'
      BY <1>19 DEF AirplaneToggle
    <2>5. Untouched'
      BY SMTT(30), <1>19 DEF AirplaneToggle
    <2>6. QED
      BY <2>1, <2>2, <2>3, <2>4, <2>5
  <1>20. CASE SettingsChange
    <2>1. TypeOK'
      BY <1>20 DEF SettingsChange, SlotClick, ServiceToggle, LowerNetworkClick
    <2>2. Continuation'
      BY <1>20 DEF SettingsChange, SlotClick, ServiceToggle, LowerNetworkClick
    <2>3. SavedNetwork'
      BY <1>20 DEF SettingsChange, SlotClick, ServiceToggle, LowerNetworkClick
    <2>4. ChoiceKept'
      BY <1>20 DEF SettingsChange, SlotClick, ServiceToggle, LowerNetworkClick
    <2>5. Untouched'
      BY SMTT(30), <1>20 DEF SettingsChange, SlotClick, ServiceToggle, LowerNetworkClick
    <2>6. QED
      BY <2>1, <2>2, <2>3, <2>4, <2>5
  <1>21. CASE Kill
    <2>1. TypeOK'
      BY Zenon, <1>21 DEF Kill, ProcessGone, Lowered
    <2>2. Continuation'
      BY <1>21 DEF Kill, ProcessGone, Lowered
    <2>3. SavedNetwork'
      BY <1>21 DEF Kill, ProcessGone, Lowered
    <2>4. ChoiceKept'
      BY <1>21 DEF Kill, ProcessGone, Lowered
    <2>5. Untouched'
      BY <1>21 DEF Kill, ProcessGone, Lowered
    <2>6. QED
      BY <2>1, <2>2, <2>3, <2>4, <2>5
  <1>22. CASE Reboot
    <2>1. TypeOK'
      BY Zenon, <1>22 DEF Reboot, ProcessGone, Lowered
    <2>2. Continuation'
      BY <1>22 DEF Reboot, ProcessGone, Lowered
    <2>3. SavedNetwork'
      BY <1>22 DEF Reboot, ProcessGone, Lowered
    <2>4. ChoiceKept'
      BY <1>22 DEF Reboot, ProcessGone, Lowered
    <2>5. Untouched'
      BY <1>22 DEF Reboot, ProcessGone, Lowered
    <2>6. QED
      BY <2>1, <2>2, <2>3, <2>4, <2>5
  <1>23. ASSUME NEW s \in Slots, NEW network \in Networks, UserChoice(s, network) PROVE IInv'
    <2>1. TypeOK'
      BY SMTT(30), <1>23 DEF UserChoice, Lowered
    <2>2. Continuation'
      BY SMTT(30), <1>23 DEF UserChoice, Lowered
    <2>3. SavedNetwork'
      BY SMTT(30), <1>23 DEF UserChoice, Lowered
    <2>4. ChoiceKept'
      BY SMTT(30), <1>23 DEF UserChoice, Lowered
    <2>5. Untouched'
      BY SMTT(30), <1>23 DEF UserChoice, Lowered
    <2>6. QED
      BY SMTT(30), <2>1, <2>2, <2>3, <2>4, <2>5
  <1>24. CASE UNCHANGED vars
    BY <1>24 DEF vars
  <1>25. QED
    BY Zenon, <1>1, <1>2, <1>3, <1>4, <1>5, <1>6, <1>7, <1>8, <1>9, <1>10, <1>11, <1>12, <1>13, <1>14, <1>15, <1>16, <1>17, <1>18, <1>19, <1>20, <1>21, <1>22, <1>23, <1>24 DEF Next, Service, Handler, Phone, Disturbance

\* The inductive invariant holds, for all networks, slots and disturbances.
THEOREM Invariance == Spec => []IInv
  BY InitIInv, NextIInv, PTL DEF Spec

\* Every variable keeps its type; in particular only LTE modes are ever saved
\* as the original network.
THEOREM TypeCorrect == Spec => []TypeOK
  <1>1. IInv => TypeOK
    BY DEF IInv
  <1>2. QED
    BY <1>1, Invariance, PTL

\* The network chosen by the user is never lost.
THEOREM ChoiceCorrect == Spec => []ChoiceNotLost
  <1>1. IInv => ChoiceNotLost
    BY Zenon DEF IInv, ChoiceKept, ChoiceNotLost
  <1>2. QED
    BY <1>1, Invariance, PTL

\* A service that has stopped has restored what it changed.
THEOREM StopsCorrect == Spec => []StopsRestored
  <1>1. IInv => StopsRestored
    BY DEF IInv, Untouched, Busy, StopsRestored, Lowered
  <1>2. QED
    BY <1>1, Invariance, PTL

\* The service waits for exactly one event at a time.
THEOREM ContinuationCorrect == Spec => []OneContinuation
  <1>1. IInv => OneContinuation
    BY DEF IInv, Continuation, Busy, OneContinuation, TypeOK
  <1>2. QED
    BY <1>1, Invariance, PTL
=============================================================================
