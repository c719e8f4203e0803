------------------------------- MODULE MCLight -------------------------------
(* An instance of Light for TLC.                                           *)
EXTENDS Light

Colour(r, g, b) == [led \in LEDs |-> CASE led = "red" -> r [] led = "green" -> g [] led = "blue" -> b]

MCColors  == {Colour(255, 0, 0), Colour(1, 255, 0)}
MCTimings == {<<500, 2000>>}
MCMaxSingle == Colour(255, 255, 255)
MCMaxMix    == Colour(255, 100, 60)

\* The LCD, the RGB LED and the other lights share nothing: a behaviour is
\* followed as long as it uses one of the three.
MCLcdUsed == lcdVars # <<FALSE, 0, 0>> \/ "persist" \in unreported
MCLedUsed == ledVars # <<FALSE, Dark, Dark, Off, [led \in LEDs |-> <<0, 0, 0>>], 0, "SUCCESS">>
MCOtherUsed == button # 0 \/ status = "LIGHT_NOT_SUPPORTED"

MCOnePart ==
    /\ ~(MCLcdUsed /\ MCLedUsed)
    /\ ~(MCOtherUsed /\ (MCLcdUsed \/ MCLedUsed))
=============================================================================
