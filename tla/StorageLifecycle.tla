--------------------------- MODULE StorageLifecycle ---------------------------
(***************************************************************************)
(* What the secure storage promises the rest of the system, without TPM,   *)
(* LUKS or files: it is set up at most once, an interrupted setup is never *)
(* begun again, data are stored only after the setup is complete and on    *)
(* the medium, and stay.                                                   *)
(***************************************************************************)
VARIABLES
    phase,      \* "fresh", "begun" or "ready"
    access,     \* "closed" or "open"
    contents    \* "none" or "stored"

lvars == <<phase, access, contents>>

Init == phase = "fresh" /\ access = "closed" /\ contents = "none"

\* The first boot has done something that it cannot take back.
Begin == phase = "fresh" /\ phase' = "begun" /\ UNCHANGED <<access, contents>>

Finish == phase = "begun" /\ phase' = "ready" /\ UNCHANGED <<access, contents>>

Open == phase # "fresh" /\ access' = "open" /\ UNCHANGED <<phase, contents>>

Store ==
    /\ phase = "ready" /\ access = "open"
    /\ contents' = "stored"
    /\ UNCHANGED <<phase, access>>

\* The device goes off.  The last writes of a setup may still reach the medium.
Close ==
    /\ access' = "closed"
    /\ phase' = phase \/ (phase = "begun" /\ phase' = "ready")
    /\ UNCHANGED contents

Next == Begin \/ Finish \/ Open \/ Store \/ Close

Spec == Init /\ [][Next]_lvars
==============================================================================
