---------------------------- MODULE MCVolumeSetup ----------------------------
(* Instances of VolumeSetup for TLC. *)
EXTENDS VolumeSetup

AllFaults == {"addkey", "mlock", "getkey", "calloc", "fork", "dup2", "execve", "tool", "mkdir",
              "mount"}

\* Any combination of failures.
AnyFaults == SUBSET AllFaults
==============================================================================
