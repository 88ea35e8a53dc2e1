------------------------------- MODULE Device --------------------------------
(***************************************************************************)
(* The boot sequence of Boot with the TPM block of SecureStorage in it,    *)
(* over the whole life of a device: main() of src/src/cominit.c, started   *)
(* again after every power cut.  A step of Device is a step of main() that *)
(* both modules know, or a step that only one of them knows.               *)
(*                                                                         *)
(* The variables of SecureStorage keep their names, pc included; point is  *)
(* the program counter of Boot.                                            *)
(***************************************************************************)
EXTENDS SecureStorage, Naturals

CONSTANTS Tries, Args, FaultSets, NoMeta,
    Cases,      \* which operations fail: a member of Environments and one of FaultSets
    Parts,      \* the rootfs partitions
    FirstNodes  \* the device nodes that can be there when the kernel starts cominit

VARIABLES faults, point, args, part, node, failCount, waited, devicePath, meta, dm, mounts,
          newroot, policies, enforce, files, root

\* To Boot the TPM block is one step, and the storage is open when it can be mounted.
opened == IF point # "tpm" /\ Mountable THEN "open" ELSE "closed"

B == INSTANCE Boot WITH pc <- point, storage <- opened

ASSUME DeviceAssumption ==
    /\ Tries \in Nat
    /\ Args \subseteq SUBSET B!Options
    /\ NoMeta \notin B!Meta
    /\ \A c \in Cases : c.storage \in Environments /\ c.boot \in FaultSets
    /\ Parts \subseteq B!Partition
    /\ FirstNodes \subseteq B!Nodes

bootVars == <<faults, point, args, part, node, failCount, waited, devicePath, meta, dm, mounts,
              newroot, policies, enforce, files, root>>

deviceVars == <<vars, bootVars>>

-----------------------------------------------------------------------------
\* What a start of the kernel sets up.
Started ==
    /\ point = "sysfiles"
    /\ node \in FirstNodes
    /\ failCount = 0 /\ waited = 0
    /\ devicePath = "none" /\ meta = NoMeta /\ dm = "none"
    /\ mounts = {} /\ newroot = <<"none", "ro">>
    /\ policies = {} /\ enforce = "permissive"
    /\ files = {"initramfs", "rootfs", "storage"} /\ root = "initramfs"

DeviceInit ==
    /\ Init
    /\ Started
    /\ args \in Args /\ part \in Parts
    /\ \E c \in Cases : env = c.storage /\ faults = c.boot

\* The rootfs is looked for and its metadata are verified; the TPM block follows only then.
Verified == PowerOn /\ B!cominitLoadVerifyMetadata /\ point' = "tpm"
NotVerified == UNCHANGED vars /\ B!cominitLoadVerifyMetadata /\ point' = "rescue"

TpmStep ==
    \/ cominitInitTpm \/ cominitTpmExtendPCR \/ cominitTpmSetupBlob \/ cominitTpmSeal
    \/ cominitTpmSavePrimaryHandle \/ cominitTpmSaveBlob \/ cominitTpmUnsealBlob
    \/ cominitSecurememoryCreateLuksVolume \/ cominitCryptsetupAddToken
    \/ cominitCryptsetupOpenLuksVolume \/ cominitTpmFormatSecureStorage
    \/ cominitTpmUnmountBlob

\* PID 1 can be killed in the TPM block, by a write from a NULL pointer.
InTpmBlock ==
    /\ point = "tpm"
    /\ TpmStep
    /\ \/ pc' # "panic" /\ UNCHANGED bootVars
       \/ pc' = "panic" /\ point' = "panic" /\ B!TpmBlock

\* Whatever has become of the storage, main() goes on.
LeaveTpmBlock == pc = "rootfs" /\ UNCHANGED vars /\ point' = "dm" /\ B!TpmBlock

SetupDmDevice == UNCHANGED vars /\ B!cominitSetupDmDevice /\ point' = "mountroot"
RootfsMounted ==
    cominitSetupRootfs /\ pc' = "mount" /\ B!cominitSetupRootfs /\ point' = "storage"
RootfsFails ==
    /\ cominitSetupRootfs /\ pc' = "rescue"
    /\ \/ B!cominitSetupDmDevice /\ point' = "rescue"
       \/ B!cominitSetupRootfs /\ point' = "rescue"

MountSecureStorage ==
    /\ cominitTpmMountSecureStorage
    /\ B!cominitTpmMountSecureStorage
    /\ "storage" \in active' <=> "storage" \in mounts'

\* Data go with the files of the volume, if it is mounted.
FreeInitramfs ==
    /\ UNCHANGED <<env, handle, diskBlob, crypt, cryptPass, pc, pcrs, blob, active, blobState,
                   outBlob, tpmState, keyring>>
    /\ B!cominitNftwRemove
    /\ data' = IF "storage" \in files' THEN data ELSE "none"

SwitchRoot == UNCHANGED vars /\ B!cominitSwitchIntoRootfs /\ point' = "exec"
StartInit == SwitchIntoRootfs /\ pc' = "running" /\ B!ExecInit /\ point' = "init"
SwitchFails ==
    /\ SwitchIntoRootfs /\ pc' = "rescue"
    /\ \/ B!cominitSwitchIntoRootfs /\ point' = "rescue"
       \/ B!ExecInit /\ point' = "rescue"

\* The steps of main() that have nothing to do with the storage.
BootStep ==
    /\ UNCHANGED vars
    /\ \/ B!cominitSetupSysfiles \/ B!cominitDiscoverRootfs \/ B!cominitMicroSleep
       \/ B!cominitSetupSysSelinuxfiles
       \/ B!cominitLoadSelinuxPolicy("initrd") \/ B!cominitLoadSelinuxPolicy("rootfs")
       \/ B!cominitSetSelinuxMode \/ B!cominitCleanupSysfiles \/ B!ExecShell

main ==
    \/ BootStep \/ Verified \/ NotVerified \/ InTpmBlock \/ LeaveTpmBlock \/ SetupDmDevice
    \/ RootfsMounted \/ RootfsFails \/ MountSecureStorage \/ FreeInitramfs \/ SwitchRoot
    \/ StartInit \/ SwitchFails

-----------------------------------------------------------------------------
(* Environment *)

DeviceAppears == UNCHANGED vars /\ B!DeviceAppears

StorageInUse == (Writeback \/ UserWrite) /\ UNCHANGED bootVars

Stopped ==
    \/ PowerCut
    \/ point \in B!Final /\ Shutdown
    \/ pc = "off" /\ (CutPoints # {} \/ point \in B!Final) /\ UNCHANGED vars

\* The power goes off, and on again.
Restart ==
    /\ Stopped
    /\ point' = "sysfiles"
    /\ node' \in FirstNodes
    /\ failCount' = 0 /\ waited' = 0
    /\ devicePath' = "none" /\ meta' = NoMeta /\ dm' = "none"
    /\ mounts' = {} /\ newroot' = <<"none", "ro">>
    /\ policies' = {} /\ enforce' = "permissive"
    /\ files' = {"initramfs", "rootfs", "storage"} /\ root' = "initramfs"
    /\ UNCHANGED <<faults, args, part>>

DeviceNext == main \/ DeviceAppears \/ StorageInUse \/ Restart

DeviceSpec == DeviceInit /\ [][DeviceNext]_deviceVars

\* cominit is the only user process, and the device is started again.  Nothing makes a disk
\* appear.
UsedDevice == DeviceSpec /\ WF_deviceVars(main) /\ WF_deviceVars(Restart)

-----------------------------------------------------------------------------
(* Properties *)

\* Nothing is extended, sealed, unsealed or formatted before this boot has verified the
\* signature of the rootfs: main() reaches the TPM block only past the retry loop and
\* cominitLoadVerifyMetadata(), also in the boots after a power cut (cominit.c:257, 285).
TpmOnlyAfterVerification ==
    [][pc # "off" /\ (handle' # handle \/ blob' # blob \/ crypt' # crypt \/ pcrs' # pcrs
                        \/ keyring' \notin {keyring, NoPass}) =>
        part.sig = "valid" /\ meta = part.meta /\ "crypt" \notin meta.crypt]_deviceVars

\* The rootfs finds the storage mounted only if it is the signed one, runs as its metadata
\* say, and was started with the PCR values the passphrase was sealed with (cominit.c:257,
\* 302, 333).
StorageOnlyForSignedRootfs ==
    pc = "running" /\ "storage" \in mounts =>
        /\ root = "rootfs" /\ B!RunsSignedRootfs /\ point = "init"
        /\ blob \in SealedBlob /\ blob.policy = Policy /\ blob.pass = cryptPass

\* The inductive invariant: the TPM block, with which SecureStorage's part of a boot begins,
\* comes after the verification, the deletion stays in the initramfs, and both modules mean
\* the same by a mounted storage and by a running rootfs (cominit.c:244-285, 333,
\* minsetup.c:191-212).
DeviceInv ==
    /\ point \in {"sysfiles", "discover", "sleep", "metadata"} => pc = "off"
    /\ pc # "off" => part.sig = "valid" /\ meta = part.meta /\ "crypt" \notin meta.crypt
    /\ "storage" \in files /\ root \in {"initramfs", "rootfs"}
    /\ "storage" \in mounts => "storage" \in active
    /\ pc = "running" => point = "init"
    /\ faults \in FaultSets /\ args \in Args /\ part \in Parts

\* Whatever main() does around it, to the secure storage a device behaves as SecureStorage
\* says: the steps of Boot, failures and restarts included, touch nothing of it (cominit.c:241,
\* 285, 324-337, minsetup.c:191).
KeepsSecureStorage == Spec

\* Whatever the secure storage does, main() behaves as Boot says, from one start of the kernel
\* to the next: the TPM block, whose steps Boot does not see, is one of its steps
\* (cominit.c:241-402).
KeepsBoot == B!Init /\ [][B!Next \/ B!Init']_(B!vars)

\* What the rootfs has stored survives all later boots, also the deletion of the initramfs
\* below which the volume is mounted (minsetup.c:191, tpm.c:345, 674).
DataSurvivesBoots == [][data = "stored" => data' = "stored"]_deviceVars

\* A device with a rootfs that can be booted gets its secure storage in its first complete
\* boot, if no operation fails (cominit.c:257, 302, tpm.c:733-745).
StorageGetsReady ==
    /\ CutPoints = {} /\ Faults \subseteq {"rootfs", "switch"} /\ handle = "free"
    /\ faults = {"tpm"} /\ B!Bootable /\ {"root", "storage"} \subseteq args
    /\ node = "partition"
    => <>[]Ready
==============================================================================
