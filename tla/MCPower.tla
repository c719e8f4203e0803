------------------------------- MODULE MCPower -------------------------------
(* Instances of Power for TLC: which hints have clients.                   *)
EXTENDS Power

MCModes == {"SUSTAINED_PERFORMANCE", "VR_MODE", "VIDEO_ENCODE"}
MCCamera == {"VR_MODE", "CAMERA_STREAMING"}
MCAudio == {"VR_MODE", "AUDIO_LOW_LATENCY"}
MCRendering == {"VR_MODE", "EXPENSIVE_RENDERING"}
MCBoost == {"VR_MODE", "SUSTAINED_PERFORMANCE", "INTERACTION"}

MCClienteles == {MCModes, MCCamera, MCAudio, MCRendering, MCBoost}
MCEncoding == {MCModes \cup MCCamera}
=============================================================================
