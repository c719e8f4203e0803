-------------------------- MODULE MCNetworkSwitcher --------------------------
(***************************************************************************)
(* Instances of NetworkSwitcher for TLC.  Changes of the preferences and   *)
(* changes the user makes elsewhere multiply: a behaviour has one of the   *)
(* two, chosen at the start, with every other disturbance; in the first    *)
(* case the two slots start with different LTE modes.                      *)
(***************************************************************************)
EXTENDS NetworkSwitcher

VARIABLE scope

MCLTE   == {"LTE_GSM_WCDMA", "LTE_ONLY"}
MCOneLTE == {"LTE_GSM_WCDMA"}
MCLower == {"WCDMA_PREF", "GSM_ONLY"}
MCChoices == LTE \cup {"WCDMA_PREF"}
MCOneLower == {"WCDMA_PREF"}

InScope ==
    /\ scope = "user" => UNCHANGED settings /\ \A s \in Slots : chosen'[s] \in MCChoices
    /\ scope = "settings" => /\ UNCHANGED <<chosen, airplane>>
                             /\ excuse' \cap {"user", "refuse"} = {}

MCInit == /\ Init
          /\ scope \in {"user", "settings"}
          /\ scope = "settings" => ~airplane
          /\ \A s \in Slots : chosen[s] \in MCChoices
          /\ scope = "settings" =>
                \A s \in Slots : chosen[s] # IF s = 0 THEN "LTE_GSM_WCDMA" ELSE "LTE_ONLY"
MCNext == Next /\ InScope /\ UNCHANGED scope
MCSpec == MCInit /\ [][MCNext]_<<vars, scope>> /\ Fairness
=============================================================================
