--------------------------- MODULE SettingsRegister ---------------------------
(***************************************************************************)
(* What settings.Store promises: a register of two halves, the shares and  *)
(* the faces settings.  A write changes one half at one instant, and the   *)
(* register survives restarts.  The promise holds as long as no two writes *)
(* meet; after that nothing is promised.                                   *)
(***************************************************************************)
CONSTANTS Lists, Profiles, Empty

VARIABLES value,  \* the settings a restart would find
          met     \* two writes were under way at once

RegisterInit == value = Empty /\ met = FALSE

Put ==
  /\ ~ met
  /\ \/ \E l \in Lists : value' = [value EXCEPT !.shares = l]
     \/ \E f \in Profiles : value' = [value EXCEPT !.faces = f]
  /\ UNCHANGED met

Meet == met' = TRUE /\ UNCHANGED value

Anything == met /\ met' /\ value' \in [shares : Lists, faces : Profiles]

RegisterSpec == RegisterInit /\ [][Put \/ Meet \/ Anything]_<<value, met>>
=============================================================================
