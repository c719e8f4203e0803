---------------------------- MODULE MCHwcSession ----------------------------
(* A small instance of HwcSession for TLC: each behaviour takes one of a   *)
(* few budgets, so that each kind of encounter is explored on its own.     *)
EXTENDS HwcSession

Scope(frames, cables, virtuals, services, panels, deaths) ==
  [frames |-> frames, cable |-> cables, virtual |-> virtuals,
   calls |-> services, panel |-> panels, deaths |-> deaths]

MCBudgets == { Scope(2, 3, 0, 0, 0, 0),   \* plugging around the first frame
               Scope(1, 2, 1, 0, 0, 0),   \* plugging and a virtual display
               Scope(1, 0, 0, 2, 1, 0),   \* services between frames
               Scope(1, 1, 0, 1, 0, 0),   \* services on the external display
               Scope(1, 2, 0, 0, 0, 1),   \* SurfaceFlinger dies around plugging
               Scope(0, 0, 1, 1, 0, 1) }  \* SurfaceFlinger dies around a service

=============================================================================
