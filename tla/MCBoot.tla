------------------------------- MODULE MCBoot --------------------------------
(* Instances of Boot for TLC. *)
EXTENDS Boot

AllFaults == {"sysfiles", "discover", "clock", "interrupt", "read", "tpm", "create", "dm", "mountroot",
              "mountstorage", "selinuxfs", "policy", "mode", "cleanup", "remove", "switch", "init",
              "sh"}

\* A working clock, no interruptions, a TPM block that is not killed, and a shell wherever
\* there are files.
FaultsButWaiting == AllFaults \ {"clock", "interrupt", "create", "sh"}

MixedFaults == {AllFaults, FaultsButWaiting, {}}

\* Each option with and without the others.
MixedArgs == {Options, Options \ {"root"}, {"root", "selinux"}, {"enforcing", "storage"}, {}}
==============================================================================
