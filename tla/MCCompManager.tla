--------------------------- MODULE MCCompManager ---------------------------
(* A small instance of CompManager for TLC: five pipes, one more than the  *)
(* threshold of safe-mode hardware, of which two are the splash screen's.  *)
EXTENDS CompManager

MCPipes == <<"VIG", "VIG", "DMA", "DMA", "DMA">>

Scope(states, attempts, frames, secure, events) ==
    [states |-> states, attempts |-> attempts, frames |-> frames, secure |-> secure, events |-> events]

\* Frames contend for pipes, and are tried twice.
MCPipesScope == {Scope({"On"}, 2, Configs, {FALSE}, FALSE)}

\* Displays are switched off and on.
MCPowerScope == {Scope({"Off", "On"}, 1, {<<FALSE>>}, {FALSE}, FALSE)}

\* They doze.
MCDozeScope == {Scope({"On", "DozeSuspend"}, 1, {<<FALSE>>}, {FALSE}, FALSE)}

\* The HDMI display's content turns secure and back.
MCSecureScope == {Scope({"On"}, 1, {<<FALSE>>}, BOOLEAN, FALSE)}

\* Idle timeouts and thermal events.
MCEventScope == {Scope({"On"}, 2, {<<FALSE>>}, {FALSE}, TRUE)}

MCScopes == MCPipesScope \cup MCPowerScope \cup MCDozeScope \cup MCSecureScope \cup MCEventScope
=============================================================================
