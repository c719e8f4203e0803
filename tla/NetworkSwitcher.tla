--------------------------- MODULE NetworkSwitcher ---------------------------
(***************************************************************************)
(* The network switcher of OpenCustomizationSelector (package NS): a       *)
(* service started at boot that lowers the preferred network of one SIM    *)
(* from LTE, and puts it back once the device is unlocked and the SIM has  *)
(* signal; and the settings of XperiaParts it reads.                       *)
(*                                                                         *)
(* Everything the service does runs on its main thread.  `main' is the     *)
(* handler that is running there, cut where another process can act in     *)
(* between; the other variables of the service are the callbacks it has    *)
(* registered.  A subscription is identified with the slot of its SIM.     *)
(***************************************************************************)
EXTENDS Integers

CONSTANTS
    Slots,          \* the SIM slots: {0}, or {0, 1} on a dual-SIM device
    LTE, Lower,     \* network modes with LTE, and the three that can be selected as the lower one
    DirectBoot,     \* isDirectBootEnabled: storage is file-encrypted
    Disturbances    \* what may happen meanwhile: see Disturbance

ASSUME SwitcherAssumption ==
    /\ Slots \in {{0}, {0, 1}}
    /\ LTE \cap Lower = {} /\ LTE # {} /\ "unset" \notin LTE
    /\ "WCDMA_PREF" \in Lower /\ Lower \subseteq {"WCDMA_PREF", "GSM_ONLY", "GSM_UMTS"}
    /\ DirectBoot \in BOOLEAN
    /\ Disturbances \subseteq {"kill", "reboot", "user", "airplane", "refuse", "settings"}

Networks == LTE \cup Lower

VARIABLES
    \* settings, which survive a reboot
    ns_service, ns_slot, ns_lowNet,
    pref,           \* Settings.Global PREFERRED_NETWORK_MODE<sub>
    orig,           \* Settings.System ns_preferred<sub>, "unset" at first
    airplane,
    \* the service
    service,        \* off, requested, running or stopped
    main,           \* the handler that is running
    newNetwork,     \* the argument of the changeNetwork it is in
    stage,          \* what switchDown still waits for
    subID,          \* the subscription it works on, -1 at first
    unlockRx,       \* the receiver of USER_UNLOCKED: first is mUnlockObserver
    mAirplaneModeObserver, mSimServiceObserver,
    \* the system
    radio,          \* the network mode the modem was told to use
    unlocked, unlockMsg,    \* unlockMsg: the receiver the broadcast is on its way to
    airplaneMsg,    \* a change of airplane mode is on its way to the observer
    sim, signal,
    \* observers
    chosen,         \* the network mode last chosen by the user
    excuse          \* why the network may stay lowered

settings == <<ns_service, ns_slot, ns_lowNet>>
networks == <<pref, orig, radio, chosen>>
callbacks == <<stage, subID, unlockRx, mAirplaneModeObserver, mSimServiceObserver>>
messages == <<unlockMsg, airplaneMsg>>
system == <<airplane, unlocked, sim, signal>>
vars == <<settings, networks, service, main, newNetwork, callbacks, messages, system, excuse>>

isLTE(network) == network \in LTE
getOriginalNetwork(sub) == IF orig[sub] = "unset" THEN "LTE_GSM_WCDMA" ELSE orig[sub]
Unset == -2         \* a slot preference that was never written
isDualSim == Slots # {0}
getSimSlotIndex(default) == IF ~isDualSim THEN 0 ELSE IF ns_slot = Unset THEN default ELSE ns_slot
isSIMLoaded == sim = "loaded"
hasSignal == signal

\* -1 also when the slot preference is the invalid one.
getSubID == IF sim = "none" THEN -1 ELSE getSimSlotIndex(0)

Lowered == \E s \in Slots : pref[s] # chosen[s] \/ radio[s] # chosen[s]

Init ==
    /\ ns_service = 1 /\ ns_slot \in {0, Unset} /\ ns_lowNet = "WCDMA_PREF"
    /\ pref \in [Slots -> Networks]
    /\ radio = pref /\ chosen = pref
    /\ orig = [s \in Slots |-> "unset"]
    /\ airplane \in (IF "airplane" \in Disturbances THEN BOOLEAN ELSE {FALSE})
    /\ service = "off" /\ main = "idle" /\ newNetwork = "none" /\ stage = "none" /\ subID = -1
    /\ unlockRx = "none" /\ unlockMsg = "none"
    /\ mAirplaneModeObserver = FALSE /\ airplaneMsg = FALSE
    /\ mSimServiceObserver = "none"
    /\ unlocked = FALSE /\ sim = "none" /\ signal = FALSE
    /\ excuse = {}

-----------------------------------------------------------------------------
(* Start of the service.                                                   *)

\* LOCKED_BOOT_COMPLETED.
NSBootReceiver ==
    /\ service = "off"
    /\ service' = IF ns_service = 1 /\ getSimSlotIndex(-1) # -1 THEN "requested" ELSE "stopped"
    /\ UNCHANGED <<settings, networks, main, newNetwork, callbacks, messages, system, excuse>>

\* The stage initProcess leads to.
initProcess == IF isSIMLoaded THEN "delayed" ELSE "slot"

onCreate ==
    /\ service = "requested"
    /\ service' = "running"
    /\ unlockRx' = "first"
    /\ subID' = getSubID
    /\ stage' = IF getSubID = -1 THEN "subId" ELSE initProcess
    /\ UNCHANGED <<settings, networks, main, newNetwork, mAirplaneModeObserver, mSimServiceObserver,
                   messages, system, excuse>>

\* The poll of SubIdObserver that finds a subscription.
SubIdObserver ==
    /\ main = "idle" /\ stage = "subId"
    /\ getSubID # -1
    /\ subID' = getSubID
    /\ stage' = initProcess
    /\ UNCHANGED <<settings, networks, service, main, newNetwork, unlockRx, mAirplaneModeObserver,
                   mSimServiceObserver, messages, system, excuse>>

\* The poll of SlotObserver that finds the SIM loaded.
SlotObserver ==
    /\ main = "idle" /\ stage = "slot"
    /\ isSIMLoaded
    /\ stage' = "delayed"
    /\ UNCHANGED <<settings, networks, service, main, newNetwork, subID, unlockRx, mAirplaneModeObserver,
                   mSimServiceObserver, messages, system, excuse>>

-----------------------------------------------------------------------------
(* Lowering the network.                                                   *)

\* The receivers the service has registered go with it.
stopSelf == service' = "stopped" /\ main' = "idle" /\ unlockRx' = "none"

\* Variant of switchDown for mutation: the subscriptions share the saved network.
switchDown_OneKey ==
    /\ main = "idle" /\ stage = "delayed"
    /\ stage' = "none"
    /\ \/ /\ isLTE(pref[subID])
          /\ orig' = [s \in Slots |-> pref[subID]]
          /\ main' = "lower"
          /\ UNCHANGED <<service, unlockRx>>
       \/ /\ ~isLTE(pref[subID])
          /\ stopSelf
          /\ UNCHANGED orig
    /\ UNCHANGED <<settings, newNetwork, pref, radio, chosen, subID, mAirplaneModeObserver,
                   mSimServiceObserver, messages, system, excuse>>

switchDown ==
    /\ main = "idle" /\ stage = "delayed"
    /\ stage' = "none"
    /\ \/ /\ isLTE(pref[subID])
          /\ orig' = [orig EXCEPT ![subID] = pref[subID]]       \* setOriginalNetwork
          /\ main' = "lower"
          /\ UNCHANGED <<service, unlockRx>>
       \/ /\ ~isLTE(pref[subID])
          /\ stopSelf
          /\ UNCHANGED orig
    /\ UNCHANGED <<settings, newNetwork, pref, radio, chosen, subID, mAirplaneModeObserver,
                   mSimServiceObserver, messages, system, excuse>>

\* The two halves of changeNetwork: the call into the modem, which may be
\* refused, and the setting.
setPreferredNetworkType(network) ==
    /\ radio' = [radio EXCEPT ![subID] = network]
    /\ newNetwork' = network
    /\ UNCHANGED <<pref, orig, chosen>>

putPreferredNetwork ==
    /\ pref' = [pref EXCEPT ![subID] = newNetwork]
    /\ newNetwork' = "none"
    /\ UNCHANGED <<radio, orig, chosen>>

Refused ==
    /\ "refuse" \in Disturbances
    /\ UNCHANGED <<networks, newNetwork>>

LowerRadio ==
    /\ main = "lower"
    /\ \/ setPreferredNetworkType(ns_lowNet) /\ main' = "lowerPut"
       \/ Refused /\ main' = "lowered"
    /\ UNCHANGED <<settings, service, callbacks, messages, system, excuse>>

LowerPut ==
    /\ main = "lowerPut"
    /\ putPreferredNetwork
    /\ main' = "lowered"
    /\ UNCHANGED <<settings, service, callbacks, messages, system, excuse>>

\* The rest of switchDown: wait for the unlock with a receiver of its own, or
\* go on to handleConnection.
AwaitUnlock ==
    /\ main = "lowered"
    /\ \/ /\ DirectBoot /\ unlockRx = "first"
          /\ unlockRx' = "second"
          /\ main' = "idle"
          /\ excuse' = IF unlocked THEN excuse \cup {"unlock"} ELSE excuse
       \/ /\ ~(DirectBoot /\ unlockRx = "first")
          /\ main' = "connection"
          /\ UNCHANGED <<unlockRx, excuse>>
    /\ UNCHANGED <<settings, newNetwork, networks, service, stage, subID, mAirplaneModeObserver,
                   mSimServiceObserver, messages, system>>

\* USER_UNLOCKED arrives; it is dropped if its receiver was unregistered.
UserUnlocked ==
    /\ main = "idle" /\ unlockMsg # "none"
    /\ unlockMsg' = "none"
    /\ unlockRx' = IF unlockRx = unlockMsg THEN "none" ELSE unlockRx
    /\ main' = IF unlockRx = unlockMsg /\ unlockMsg = "second" THEN "connection" ELSE "idle"
    /\ UNCHANGED <<settings, newNetwork, networks, service, stage, subID, mAirplaneModeObserver,
                   mSimServiceObserver, airplaneMsg, system, excuse>>

-----------------------------------------------------------------------------
(* Restoring the network.                                                  *)

\* Variant of handleConnection for mutation: nobody waits for the signal.
handleConnection_NoPoll ==
    /\ main = "connection"
    /\ \/ airplane /\ main' = "airplane" /\ UNCHANGED mSimServiceObserver
       \/ ~airplane /\ hasSignal /\ main' = "restore" /\ UNCHANGED mSimServiceObserver
       \/ ~airplane /\ ~hasSignal /\ main' = "idle" /\ UNCHANGED mSimServiceObserver
    /\ UNCHANGED <<settings, newNetwork, networks, service, stage, subID, unlockRx, mAirplaneModeObserver,
                   messages, system, excuse>>

handleConnection ==
    /\ main = "connection"
    /\ \/ airplane /\ main' = "airplane" /\ UNCHANGED mSimServiceObserver
       \/ ~airplane /\ hasSignal /\ main' = "restore" /\ UNCHANGED mSimServiceObserver
       \/ ~airplane /\ ~hasSignal /\ main' = "idle" /\ mSimServiceObserver' = "plain"
    /\ UNCHANGED <<settings, newNetwork, networks, service, stage, subID, unlockRx, mAirplaneModeObserver,
                   messages, system, excuse>>

\* AirplaneModeObserver.register, after airplane mode was found on.
AirplaneRegister ==
    /\ main = "airplane"
    /\ main' = "idle"
    /\ mAirplaneModeObserver' = TRUE
    /\ excuse' = IF airplane THEN excuse ELSE excuse \cup {"airplane"}
    /\ UNCHANGED <<settings, newNetwork, networks, service, stage, subID, unlockRx, mSimServiceObserver,
                   messages, system>>

\* AirplaneModeObserver.onChange and its listener.
AirplaneChange ==
    /\ main = "idle" /\ airplaneMsg
    /\ airplaneMsg' = FALSE
    /\ mSimServiceObserver' = IF ~mAirplaneModeObserver THEN mSimServiceObserver
                              ELSE IF airplane THEN "none"
                              ELSE IF mSimServiceObserver = "none" THEN "airplane"
                              ELSE mSimServiceObserver
    /\ UNCHANGED <<settings, networks, service, main, newNetwork, stage, subID, unlockRx,
                   mAirplaneModeObserver, unlockMsg, system, excuse>>

\* Variant of SimServiceObserver for mutation: the airplane observer stays registered.
SimServiceObserver_KeepsAirplane ==
    /\ main = "idle" /\ mSimServiceObserver # "none"
    /\ hasSignal
    /\ UNCHANGED mAirplaneModeObserver
    /\ mSimServiceObserver' = "none"
    /\ main' = "restore"
    /\ UNCHANGED <<settings, newNetwork, networks, service, stage, subID, unlockRx, messages, system, excuse>>

\* The poll of SimServiceObserver that finds signal.
SimServiceObserver ==
    /\ main = "idle" /\ mSimServiceObserver # "none"
    /\ hasSignal
    /\ mAirplaneModeObserver' = (mAirplaneModeObserver /\ mSimServiceObserver # "airplane")
    /\ mSimServiceObserver' = "none"
    /\ main' = "restore"
    /\ UNCHANGED <<settings, newNetwork, networks, service, stage, subID, unlockRx, messages, system, excuse>>

RestoreRadio ==
    /\ main = "restore"
    /\ \/ /\ setPreferredNetworkType(getOriginalNetwork(subID))
          /\ main' = "restorePut"
          /\ UNCHANGED <<service, unlockRx, excuse>>
       \/ /\ Refused
          /\ stopSelf
          /\ excuse' = excuse \cup {"refuse"}
    /\ UNCHANGED <<settings, stage, subID, mAirplaneModeObserver, mSimServiceObserver, messages, system>>

\* Variant of RestorePut for mutation: the setting is not written.
RestorePut_Skipped ==
    /\ main = "restorePut"
    /\ UNCHANGED <<networks, newNetwork>>
    /\ stopSelf
    /\ UNCHANGED <<settings, stage, subID, mAirplaneModeObserver, mSimServiceObserver, messages,
                   system, excuse>>

RestorePut ==
    /\ main = "restorePut"
    /\ putPreferredNetwork
    /\ stopSelf
    /\ UNCHANGED <<settings, stage, subID, mAirplaneModeObserver, mSimServiceObserver, messages,
                   system, excuse>>

-----------------------------------------------------------------------------
(* The system around the service.                                          *)

Unlock ==
    /\ ~unlocked
    /\ unlocked' = TRUE
    /\ unlockMsg' = unlockRx
    /\ UNCHANGED <<settings, networks, service, main, newNetwork, callbacks, airplaneMsg, airplane, sim,
                   signal, excuse>>

SimProgress ==
    /\ sim' = CASE sim = "none" -> "subscription" [] sim = "subscription" -> "loaded" [] OTHER -> sim
    /\ sim # "loaded"
    /\ UNCHANGED <<settings, networks, service, main, newNetwork, callbacks, messages, airplane, unlocked,
                   signal, excuse>>

SignalChanges ==
    /\ sim = "loaded" /\ ~airplane
    /\ signal' = ~signal
    /\ UNCHANGED <<settings, networks, service, main, newNetwork, callbacks, messages, airplane, unlocked,
                   sim, excuse>>

AirplaneToggle ==
    /\ "airplane" \in Disturbances
    /\ airplane' = ~airplane
    /\ signal' = FALSE
    /\ airplaneMsg' = mAirplaneModeObserver
    /\ UNCHANGED <<settings, networks, service, main, newNetwork, callbacks, unlockMsg, unlocked, sim, excuse>>

\* The user selects a network mode in the system's settings.
UserChoice(s, network) ==
    /\ "user" \in Disturbances
    /\ pref' = [pref EXCEPT ![s] = network]
    /\ radio' = [radio EXCEPT ![s] = network]
    /\ chosen' = [chosen EXCEPT ![s] = network]
    /\ excuse' = IF service = "running" /\ stage = "none" THEN excuse \cup {"user"}
                 ELSE IF Lowered' THEN excuse ELSE {}
    /\ UNCHANGED <<orig, settings, service, main, newNetwork, callbacks, messages, system>>

\* The preferences of XperiaParts.
SlotClick ==
    /\ isDualSim
    /\ ns_slot' = CASE ns_slot = 0 -> 1 [] ns_slot = 1 -> -1 [] OTHER -> 0
    /\ UNCHANGED <<ns_service, ns_lowNet>>

ServiceToggle == ns_service' = 1 - ns_service /\ UNCHANGED <<ns_slot, ns_lowNet>>

LowerNetworkClick ==
    /\ ns_lowNet' = CASE ns_lowNet = "WCDMA_PREF" -> "GSM_ONLY" [] ns_lowNet = "GSM_ONLY" -> "GSM_UMTS"
                      [] OTHER -> "WCDMA_PREF"
    /\ ns_lowNet' \in Lower
    /\ UNCHANGED <<ns_service, ns_slot>>

SettingsChange ==
    /\ "settings" \in Disturbances
    /\ SlotClick \/ ServiceToggle \/ LowerNetworkClick
    /\ UNCHANGED <<networks, service, main, newNetwork, callbacks, messages, system, excuse>>

\* What the service had in memory is gone.
ProcessGone ==
    /\ main' = "idle" /\ newNetwork' = "none" /\ stage' = "none" /\ subID' = -1
    /\ unlockRx' = "none" /\ unlockMsg' = "none"
    /\ mAirplaneModeObserver' = FALSE /\ airplaneMsg' = FALSE
    /\ mSimServiceObserver' = "none"
    /\ excuse' = IF Lowered THEN excuse \cup {"interrupted"} ELSE excuse

\* START_STICKY: the service is created again.
Kill ==
    /\ "kill" \in Disturbances
    /\ service = "running"
    /\ service' = "requested"
    /\ ProcessGone
    /\ UNCHANGED <<settings, networks, system>>

Reboot ==
    /\ "reboot" \in Disturbances
    /\ service' = "off"
    /\ ProcessGone
    /\ radio' = pref
    /\ unlocked' = FALSE /\ sim' = "none" /\ signal' = FALSE
    /\ UNCHANGED <<settings, pref, orig, chosen, airplane>>

-----------------------------------------------------------------------------
Handler == LowerRadio \/ LowerPut \/ AwaitUnlock \/ handleConnection \/ AirplaneRegister
              \/ RestoreRadio \/ RestorePut

Service == NSBootReceiver \/ onCreate \/ SubIdObserver \/ SlotObserver \/ switchDown
              \/ UserUnlocked \/ AirplaneChange \/ SimServiceObserver \/ Handler

Phone == Unlock \/ SimProgress \/ SignalChanges

Disturbance ==
    \/ AirplaneToggle
    \/ \E s \in Slots, network \in Networks : UserChoice(s, network)
    \/ SettingsChange
    \/ Kill
    \/ Reboot

Next == Service \/ Phone \/ Disturbance

Spec == Init /\ [][Next]_vars

\* The main looper runs every message and poll, and a SIM comes up.
Fairness ==
    /\ WF_vars(NSBootReceiver) /\ WF_vars(onCreate) /\ WF_vars(SubIdObserver)
    /\ WF_vars(SlotObserver) /\ WF_vars(switchDown) /\ WF_vars(UserUnlocked)
    /\ WF_vars(AirplaneChange) /\ WF_vars(SimServiceObserver) /\ WF_vars(Handler)
    /\ WF_vars(SimProgress)

FairSpec == Spec /\ Fairness

-----------------------------------------------------------------------------
(* Properties.                                                             *)

TypeOK ==
    /\ ns_service \in {0, 1} /\ ns_slot \in {Unset, -1, 0, 1} /\ ns_lowNet \in Lower
    /\ pref \in [Slots -> Networks] /\ radio \in [Slots -> Networks]
    /\ chosen \in [Slots -> Networks] /\ orig \in [Slots -> LTE \cup {"unset"}]
    /\ service \in {"off", "requested", "running", "stopped"}
    /\ main \in {"idle", "lower", "lowerPut", "lowered", "connection", "airplane", "restore", "restorePut"}
    /\ newNetwork \in Networks \cup {"none"}
    /\ stage \in {"none", "subId", "slot", "delayed"}
    /\ subID \in Slots \cup {-1}
    /\ unlockRx \in {"none", "first", "second"} /\ unlockMsg \in {"none", "first", "second"}
    /\ mSimServiceObserver \in {"none", "plain", "airplane"} /\ mAirplaneModeObserver \in BOOLEAN
    /\ airplane \in BOOLEAN /\ airplaneMsg \in BOOLEAN /\ unlocked \in BOOLEAN /\ signal \in BOOLEAN
    /\ sim \in {"none", "subscription", "loaded"}
    /\ excuse \subseteq {"unlock", "airplane", "refuse", "user", "interrupted"}

\* The network the user chose is never lost, whenever the process or the phone
\* goes down: it is the preferred network, or the one setOriginalNetwork
\* saved.  (Unless the user chose a network while the service had lowered it:
\* the restore overwrites that choice.)
ChoiceNotLost ==
    "user" \notin excuse => \A s \in Slots : pref[s] = chosen[s] \/ orig[s] = chosen[s]

\* A service that has stopped leaves the setting and the modem as the user
\* chose, unless the user interfered, the modem refused the restore, or the
\* process or the phone went down in between.
StopsRestored ==
    service = "stopped" /\ excuse \cap {"user", "refuse", "interrupted"} = {} => ~Lowered

\* The callbacks of the service are exclusive: it waits for one event at a time
\* and never restores twice.
OneContinuation ==
    service = "running" =>
        LET waits == {w \in {"main", "stage", "unlock", "airplane", "poll"} :
                        \/ w = "main" /\ main # "idle"
                        \/ w = "stage" /\ stage # "none"
                        \/ w = "unlock" /\ unlockRx = "second"
                        \/ w = "airplane" /\ mAirplaneModeObserver
                        \/ w = "poll" /\ mSimServiceObserver = "plain"}
        IN  \E w \in waits : waits = {w}

\* The strengthening that makes the invariants above inductive.  The service
\* is past switchDown:
Busy == service = "running" /\ stage = "none"

Continuation ==
    /\ main # "idle" => Busy /\ ~mAirplaneModeObserver /\ mSimServiceObserver = "none" /\ unlockRx # "second"
    /\ unlockRx = "second" => Busy /\ ~mAirplaneModeObserver /\ mSimServiceObserver = "none"
    /\ mAirplaneModeObserver => Busy /\ mSimServiceObserver # "plain"
    /\ mSimServiceObserver # "none" => Busy
    /\ mSimServiceObserver = "airplane" => mAirplaneModeObserver
    /\ stage # "none" => service = "running"
    /\ Busy => \/ main # "idle" \/ unlockRx = "second" \/ mAirplaneModeObserver
               \/ mSimServiceObserver = "plain"

\* what it has saved, and the argument of its changeNetwork;
SavedNetwork ==
    /\ stage \in {"slot", "delayed"} \/ Busy => subID \in Slots
    /\ Busy => orig[subID] \in LTE
    /\ main = "lowerPut" => newNetwork \in Lower
    /\ main = "restorePut" => newNetwork = orig[subID]

\* what the user chose, per subscription;
ChoiceKept ==
    "user" \notin excuse =>
        /\ \A s \in Slots : pref[s] = chosen[s] \/ (pref[s] \in Lower /\ orig[s] = chosen[s])
        /\ Busy => orig[subID] = chosen[subID]

\* and the subscriptions it has not touched.
Untouched ==
    excuse \cap {"user", "refuse", "interrupted"} = {} =>
        /\ \A s \in Slots : (Busy /\ s = subID) \/ (pref[s] = chosen[s] /\ radio[s] = chosen[s])
        /\ main = "restorePut" => radio[subID] = newNetwork

\* The inductive invariant.
IInv == TypeOK /\ Continuation /\ SavedNetwork /\ ChoiceKept /\ Untouched

\* Once the phone stays unlocked, out of airplane mode and in reach of a network.
Favourable == unlocked /\ ~airplane /\ signal

\* A lowered network is restored when the phone is unlocked and has service,
\* or else there is an excuse: these are the only ways to stay on the lower one.
RestoredOrExcused ==
    <>[]Favourable => (Lowered ~> ~Lowered \/ excuse # {})

\* "When the device is unlocked and the SIM has got service connection switch
\* back to the previous network and exit" (NetworkSwitcher.java:21-22).
UnlockRestores == <>[]Favourable => (Lowered ~> ~Lowered)
=============================================================================
