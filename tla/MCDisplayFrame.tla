--------------------------- MODULE MCDisplayFrame ---------------------------
(***************************************************************************)
(* DisplayFrame on a primary panel with two layers and an external display *)
(* with one.  The kinds of disturbance a frame meets (secure buffers,      *)
(* paused updates, power modes, client layers, ioctls that fail, shutdown) *)
(* multiply; a behaviour meets those of one scope, chosen at the start.  A *)
(* display with no layer in the scope stays off unless the scope names it. *)
(* Where that is still too much, the scope is "short": Depth steps.        *)
(***************************************************************************)
EXTENDS DisplayFrame

CONSTANTS a, b, c,
          Scopes,  \* sets of layers and disturbances that are met together
          Depth    \* the number of steps in a short scope

VARIABLES scope, left

OwnerDef == [l \in Layers |-> IF l = c THEN "external" ELSE "primary"]

(* One scope's part of a step. *)
InScope ==
    /\ \A d \in Displays :
         /\ d \notin scope /\ (\A l \in scope \cap Layers : Owner[l] # d) =>
               disp'[d] = disp[d] /\ base'[d] = base[d] /\ sf'.at[d] = sf.at[d]
         /\ disp'[d].layer_set \subseteq scope
         /\ "shutdown" \notin scope => ~disp'[d].shutdown
         /\ "doze" \notin scope => base'[d].state \in {"Off", "On"}
         /\ "power" \notin scope /\ base'[d].state = "Off" => base[d].state = "Off"
         /\ "pause" \notin scope => ~disp'[d].paused
         /\ "faults" \notin scope =>
              /\ hw'[d].content # "unflushed"
              /\ disp'[d].flush /\ LayersOf(d) # {} => disp'[d].bypass
              /\ disp[d].flush_on_error /\ ~disp'[d].flush_on_error =>
                   disp[d].flush \/ base'[d].state = "Off"
    /\ \A l \in Layers :
         /\ "secure" \notin scope => ~layer'[l].secure
         /\ "client" \notin scope => "Client" \notin {layer'[l].dev, layer'[l].req}
         /\ "change" \notin scope /\ layer'[l].geometry => layer[l].geometry
         /\ "change" \notin scope /\ layer'[l].needs_validate =>
               layer[l].needs_validate \/ layer[l].secure # layer'[l].secure
                                      \/ l \in scope \ UNION {disp[d].layer_set : d \in Displays}

MCInit == Init /\ scope \in Scopes /\ left = Depth
MCNext == /\ left > 0
          /\ Next /\ InScope
          /\ left' = IF "short" \in scope THEN left - 1 ELSE left
          /\ UNCHANGED scope
MCSpec == MCInit /\ [][MCNext]_<<vars, scope, left>>

=============================================================================
