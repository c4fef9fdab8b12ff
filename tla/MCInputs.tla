------------------------------ MODULE MCInputs ------------------------------
(***************************************************************************)
(* Inputs and outputs with two databases: at first one of them has any     *)
(* settings, and every output of the other rings for both inputs.          *)
(***************************************************************************)
EXTENDS Inputs

AnyPath == CHOOSE p \in Paths : TRUE

MCInit == Init /\ \A p \in Paths \ {AnyPath}, o \in Outputs : settings[p][o] = "AlarmByFire"

MCSpec == MCInit /\ [][Next]_vars /\ Fairness

=============================================================================
