------------------------- MODULE CheckpointRegister -------------------------
(***************************************************************************)
(* What a job may rely on from its durable checkpoint store: a register    *)
(* that holds a whole checkpoint or nothing.  A power loss may bring back  *)
(* a value that a save or delete replaced but no sync has settled yet.     *)
(***************************************************************************)
CONSTANTS Values, None

VARIABLES value,      \* what a load returns
          replaced    \* what a power loss may bring back

registerVars == <<value, replaced>>

RegisterInit == value \in Values \cup {None} /\ replaced = {}

Replace == \E c \in Values \cup {None} : value' = c /\ replaced' = replaced \cup {value}
Settle == replaced' = {} /\ UNCHANGED value
PowerLoss == value' \in replaced \cup {value} /\ replaced' = {}

RegisterSpec == RegisterInit /\ [][Replace \/ Settle \/ PowerLoss]_registerVars
=============================================================================
