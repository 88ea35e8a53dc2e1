--------------------------- MODULE MCSecureStorage ---------------------------
(* Instances of SecureStorage for TLC. *)
EXTENDS SecureStorage

AllFaults == {"init", "extend", "mountblob", "access", "primary", "create", "evict",
              "fopen", "fwrite", "unseal", "format", "token", "open", "mkfs", "umount",
              "rootfs", "mount", "switch"}

FaultsButUmount == AllFaults \ {"umount"}

AllPoints == Points \ {"off"}

\* Everything may go wrong; everything but umount(); only what is outside the window; nothing.
MixedEnvironments ==
    {[faults |-> AllFaults, cuts |-> AllPoints],
     [faults |-> FaultsButUmount, cuts |-> AllPoints],
     [faults |-> SafeFaults, cuts |-> SafePoints],
     [faults |-> {}, cuts |-> {}]}

OnlyPowerCuts == {[faults |-> {}, cuts |-> AllPoints]}

OnlyCreateFails == {[faults |-> {"create"}, cuts |-> {}]}
==============================================================================
