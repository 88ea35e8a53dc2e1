------------------------------ MODULE MCDevice -------------------------------
(* Instances of Device for TLC. *)
EXTENDS Device

\* What the two modules make of one environment.  To Boot a mismatch of the PCRs is one of
\* the failures of the TPM block; to SecureStorage metadata that the rootfs contradicts are one
\* of the failures of its mount.
NothingFails == [storage |-> [faults |-> {"rootfs", "switch"}, cuts |-> {}], boot |-> {"tpm"}]
StorageFails ==
    [storage |-> [faults |-> {"extend", "create", "evict", "fwrite", "unseal", "format", "mkfs",
                              "rootfs", "mount", "switch"},
                  cuts |-> Points \ {"off"}],
     boot |-> {"tpm", "create", "mountstorage", "discover", "mountroot", "remove", "switch", "init",
              "selinuxfs", "mode"}]

MCCases == {NothingFails, StorageFails}
MCEnvironments == {c.storage : c \in MCCases}
MCFaultSets == {c.boot : c \in MCCases}

Plain == [fs |-> "ext4", mode |-> "rw", crypt |-> {}]
Verity == [fs |-> "squashfs", mode |-> "ro", crypt |-> {"verity"}]

Writable == [fs |-> "squashfs", mode |-> "rw", crypt |-> {}]

\* A good partition, one that asks for dm-verity, one that cannot be mounted as it asks, and
\* one that is not signed.
MCParts == {[sig |-> "valid", form |-> "parsable", meta |-> Plain],
            [sig |-> "valid", form |-> "parsable", meta |-> Verity],
            [sig |-> "valid", form |-> "parsable", meta |-> Writable],
            [sig |-> "invalid", form |-> "parsable", meta |-> Plain]}

MCArgs == {{"root", "storage"}, {"root", "storage", "selinux", "enforcing"}}
==============================================================================
