-------------------------------- MODULE Boot ---------------------------------
(***************************************************************************)
(* One boot with cominit as PID 1 of the initramfs: main() of              *)
(* src/src/cominit.c with what it calls in src/src/minsetup.c,             *)
(* src/src/dmctl.c and src/src/meta.c.  The rootfs device may show up      *)
(* late, and every system call may fail.  The TPM block, which main() runs *)
(* between the verification and the mount of the rootfs and whose failures *)
(* it ignores, is the subject of SecureStorage; here it leaves the secure  *)
(* storage open or closed.                                                 *)
(***************************************************************************)
EXTENDS Naturals

CONSTANTS
    Tries,          \* COMINIT_ROOT_WAIT_TRIES
    Args,           \* the option sets main() may be started with
    FaultSets,      \* the sets of operations that may fail, one of which applies to a boot
    NoMeta          \* rfsMeta before it has been filled

\* Features of cominitCryptOpt_t that a metadata string can name together; {} is `plain'.
CryptOpts ==
    {{}, {"verity"}, {"integrity"}, {"crypt"}, {"crypt", "integrity"}, {"crypt", "verity"}}

\* The options of argCtx that matter here; "root" is a device node for the rootfs, "storage"
\* stands for cominit.blob, cominit.pcrSeal and a volume together,
\* cominitTpmSecureStorageEnabled().
Options == {"root", "selinux", "enforcing", "storage"}

\* What the metadata says of the rootfs.
Meta == [fs : {"squashfs", "ext4"}, mode : {"ro", "rw"}, crypt : CryptOpts]

ASSUME BootAssumption ==
    /\ Tries \in Nat
    /\ Args \subseteq SUBSET Options
    /\ NoMeta \notin Meta

VARIABLES
    faults,     \* the operations that may fail in this boot
    pc,         \* what cominit does next
    args,       \* argCtx
    part,       \* the rootfs partition: its signature, its metadata and its form
    node,       \* the device nodes that are there: none, the disk's, the partition's too
    failCount,  \* failed attempts to find the rootfs
    waited,     \* intervals that cominit has really slept
    devicePath, \* rfsMeta.devicePath
    meta,       \* the other fields of rfsMeta
    dm,         \* the device-mapper device "rootfs"
    mounts,     \* mounted system file systems, and the secure storage
    newroot,    \* device and mode of the mount at /newroot
    storage,    \* the secure storage: "closed" or "open"
    policies,   \* SELinux policies the kernel has loaded
    enforce,    \* the SELinux mode
    files,      \* file systems whose files are still there
    root        \* the root directory of the process

vars == <<faults, pc, args, part, node, failCount, waited, devicePath, meta, dm, mounts,
          newroot, storage, policies, enforce, files, root>>

\* Variables that the later phases of main() leave alone.
search == <<faults, args, part, failCount, waited>>
selinux == <<policies, enforce>>

Partition ==
    [sig : {"valid", "invalid"}, form : {"parsable", "malformed"}, meta : Meta]

Nodes == {"absent", "disk", "partition"}
DmStates == {"none", "created", "loaded", "active"}
Final == {"init", "shell", "panic"}
Points == Final \cup
    {"sysfiles", "discover", "sleep", "metadata", "tpm", "dm", "mountroot", "storage",
     "selinux", "initrd", "rootfs", "mode", "cleanup", "free", "switch", "exec", "rescue"}

-----------------------------------------------------------------------------
Init ==
    /\ faults \in FaultSets
    /\ pc = "sysfiles"
    /\ args \in Args
    /\ part \in Partition
    /\ node \in Nodes
    /\ failCount = 0 /\ waited = 0
    /\ devicePath = "none"
    /\ meta = NoMeta
    /\ dm = "none"
    /\ mounts = {}
    /\ newroot = <<"none", "ro">>
    /\ storage = "closed"
    /\ policies = {} /\ enforce = "permissive"
    /\ files = {"initramfs", "rootfs", "storage"}
    /\ root = "initramfs"

\* Devtmpfs and procfs; a failure can come before or after the first of the two.
cominitSetupSysfiles ==
    /\ pc = "sysfiles"
    /\ \/ pc' = "discover" /\ mounts' = {"/dev", "/proc"}
       \/ /\ "sysfiles" \in faults
          /\ pc' = "rescue" /\ mounts' \in {{}, {"/dev"}}
    /\ UNCHANGED <<search, node, devicePath, meta, dm, newroot, storage, selinux, files, root>>

\* Mutant: an attempt that fails is not counted.
CountFailure_Dropped == UNCHANGED failCount

\* failCount++
CountFailure == failCount' = failCount + 1

\* Mutant: the last attempt is dropped.
MayRetry_OffByOne == failCount + 1 < Tries

MayRetry == failCount < Tries

\* With a device node from the command line, the node has to be there.  Without, the search
\* in the partition tables (Automount) needs the disk and never looks for the node.
Discovered == node = "partition" \/ (node = "disk" /\ "root" \notin args)

\* cominitDiscoverRootfs() and the retry loop around it.  An attempt may fail although the
\* node is there: stat() or the reading of the partition table fails.
cominitDiscoverRootfs ==
    /\ pc = "discover"
    /\ \/ /\ Discovered
          /\ devicePath' = "partition"
          /\ pc' = "metadata"
          /\ UNCHANGED failCount
       \/ /\ ~Discovered \/ "discover" \in faults
          /\ MayRetry
          /\ CountFailure
          /\ pc' = "sleep"
          /\ UNCHANGED devicePath
       \/ /\ ~Discovered \/ "discover" \in faults
          /\ ~MayRetry
          /\ pc' = "rescue"
          /\ UNCHANGED <<failCount, devicePath>>
    /\ UNCHANGED <<faults, args, part, waited, node, meta, dm, mounts, newroot, storage, selinux,
                   files, root>>

\* clock_nanosleep() returns EINTR as its value, not through errno, so the loop around it
\* ends at an interruption.  If there is no clock the function returns at once; its result
\* is not looked at.
cominitMicroSleep ==
    /\ pc = "sleep"
    /\ \/ waited' = waited + 1
       \/ {"clock", "interrupt"} \cap faults # {} /\ UNCHANGED waited
    /\ pc' = "discover"
    /\ UNCHANGED <<faults, args, part, failCount, node, devicePath, meta, dm, mounts, newroot,
                   storage, selinux, files, root>>

\* The kernel has found the disk, or read its partition table: the partitions get their
\* nodes after the disk has.
DeviceAppears ==
    /\ \/ node = "absent" /\ node' = "disk"
       \/ node = "disk" /\ node' = "partition"
    /\ UNCHANGED <<pc, search, devicePath, meta, dm, mounts, newroot, storage, selinux,
                   files, root>>

-----------------------------------------------------------------------------
(* Metadata *)

\* Mutant: the signature is not looked at.
cominitCryptoVerifySignature_Unchecked(p) == TRUE

cominitCryptoVerifySignature(p) == p.sig = "valid"

cominitParseMetadata(p) == p.form = "parsable"

\* Mutant: every device-mapper feature is refused, not only dm-crypt.
Supported_PlainOnly(m) == m.crypt = {}

\* main() refuses dm-crypt.
Supported(m) == "crypt" \notin m.crypt

\* Open and read the partition, check the signature, parse.  A malformed string can fill
\* some fields before the parser gives up, but main() does not use them then.
cominitLoadVerifyMetadata ==
    /\ pc = "metadata"
    /\ \/ /\ node = "partition"
          /\ cominitCryptoVerifySignature(part) /\ cominitParseMetadata(part)
          /\ meta' = part.meta
          /\ pc' = IF Supported(part.meta) THEN "tpm" ELSE "rescue"
       \/ /\ \/ node # "partition"
             \/ ~cominitCryptoVerifySignature(part)
             \/ ~cominitParseMetadata(part)
             \/ "read" \in faults
          /\ pc' = "rescue"
          /\ UNCHANGED meta
    /\ UNCHANGED <<search, node, devicePath, dm, mounts, newroot, storage, selinux, files, root>>

\* No failure that the TPM block reports stops the boot.  Only a failed Esys_Create(), which
\* it does not notice, can: cominitTpmSaveBlob() writes from NULL then, and may be killed.
TpmBlock ==
    /\ pc = "tpm"
    /\ \/ storage' = "open" /\ "storage" \in args /\ pc' = "dm"
       \/ /\ storage' = "closed" /\ pc' = "dm"
          /\ "storage" \notin args \/ "tpm" \in faults
       \/ /\ storage' = "closed" /\ pc' = "panic"
          /\ "storage" \in args /\ "create" \in faults
    /\ UNCHANGED <<search, node, devicePath, meta, dm, mounts, newroot, selinux, files, root>>

-----------------------------------------------------------------------------
(* Mounting the rootfs *)

\* Mutant: dm-verity on a writable rootfs is not refused.
Refused_VerityIgnored(m) == m.mode = "rw" /\ m.fs = "squashfs"

\* Squashfs and dm-verity are read-only.
Refused(m) == m.mode = "rw" /\ (m.fs = "squashfs" \/ m.crypt = {"verity"})

\* The path of the new device replaces the path of the partition.
DmPath == "dm"

\* First part of cominitSetupRootfs(), and cominitSetupDmDevice(): create the device, load
\* its table, start it, make its node.  What has been set up stays when a later step fails.
cominitSetupDmDevice ==
    /\ pc = "dm"
    /\ \/ /\ ~Refused(meta) /\ meta.crypt = {}
          /\ pc' = "mountroot"
          /\ UNCHANGED <<dm, devicePath>>
       \/ /\ ~Refused(meta) /\ meta.crypt # {}
          /\ dm' = "active"
          /\ devicePath' = DmPath
          /\ pc' = "mountroot"
       \/ /\ ~Refused(meta) /\ meta.crypt # {} /\ "dm" \in faults
          /\ dm' \in DmStates
          /\ devicePath' = IF dm' = "active" THEN DmPath ELSE devicePath
          /\ pc' = "rescue"
       \/ /\ Refused(meta)
          /\ pc' = "rescue"
          /\ UNCHANGED <<dm, devicePath>>
    /\ UNCHANGED <<search, node, meta, mounts, newroot, storage, selinux, files, root>>

\* Second part of cominitSetupRootfs().
cominitSetupRootfs ==
    /\ pc = "mountroot"
    /\ \/ /\ newroot' = <<devicePath, meta.mode>>
          /\ pc' = "storage"
       \/ /\ "mountroot" \in faults
          /\ pc' = "rescue"
          /\ UNCHANGED newroot
    /\ UNCHANGED <<search, node, devicePath, meta, dm, mounts, storage, selinux, files, root>>

\* main() only logs a failure.
cominitTpmMountSecureStorage ==
    /\ pc = "storage"
    /\ \/ "storage" \in args /\ storage = "open" /\ mounts' = mounts \cup {"storage"}
       \/ /\ "storage" \notin args \/ storage = "closed" \/ "mountstorage" \in faults
          /\ UNCHANGED mounts
    /\ pc' = "selinux"
    /\ UNCHANGED <<search, node, devicePath, meta, dm, newroot, storage, selinux, files, root>>

-----------------------------------------------------------------------------
(* SELinux *)

cominitSetupSysSelinuxfiles ==
    /\ pc = "selinux"
    /\ \/ "selinux" \in args /\ mounts' = mounts \cup {"selinuxfs"} /\ pc' = "initrd"
       \/ /\ "selinux" \notin args \/ "selinuxfs" \in faults
          /\ pc' = "cleanup"
          /\ UNCHANGED mounts
    /\ UNCHANGED <<search, node, devicePath, meta, dm, newroot, storage, selinux, files, root>>

\* Mutant: the first policy is taken for enough.
AfterPolicy_First(p) == IF "enforcing" \in args THEN "mode" ELSE "cleanup"

\* The policy of the initramfs, then that of the rootfs, then the mode.
AfterPolicy(p) ==
    IF p = "initrd" THEN "rootfs" ELSE IF "enforcing" \in args THEN "mode" ELSE "cleanup"

\* main() only logs a failure.
cominitLoadSelinuxPolicy(p) ==
    /\ pc = p
    /\ \/ policies' = policies \cup {p}
       \/ "policy" \in faults /\ UNCHANGED policies
    /\ pc' = AfterPolicy(p)
    /\ UNCHANGED <<search, node, devicePath, meta, dm, mounts, newroot, storage, enforce,
                   files, root>>

\* The mode is set whether or not a policy has been loaded.
cominitSetSelinuxMode ==
    /\ pc = "mode"
    /\ \/ enforce' = "enforcing"
       \/ "mode" \in faults /\ UNCHANGED enforce
    /\ pc' = "cleanup"
    /\ UNCHANGED <<search, node, devicePath, meta, dm, mounts, newroot, storage, policies,
                   files, root>>

-----------------------------------------------------------------------------
(* Leaving the initramfs *)

\* cominitCleanupSelinuxfiles() and cominitCleanupSysfiles(): /proc stays mounted.  Failures
\* are only logged.
cominitCleanupSysfiles ==
    /\ pc = "cleanup"
    /\ \E busy \in SUBSET {"/dev", "selinuxfs"} :
          /\ busy # {} => "cleanup" \in faults
          /\ mounts' = mounts \ ({"/dev", "selinuxfs"} \ busy)
    /\ pc' = "free"
    /\ UNCHANGED <<search, node, devicePath, meta, dm, newroot, storage, selinux, files, root>>

\* Mutant: nftw() without FTW_MOUNT.
Removed_AllMounts == {"initramfs", "rootfs"} \cup (mounts \cap {"storage"})

\* nftw() with FTW_MOUNT stays in the file system of "/".
Removed == {root}

\* A walk that fails, or files that cannot be removed, are only logged; "initramfs" stays in
\* files if /bin/sh is among them.
cominitNftwRemove ==
    /\ pc = "free"
    /\ \/ files' = files \ Removed
       \/ "remove" \in faults /\ UNCHANGED files
    /\ pc' = "switch"
    /\ UNCHANGED <<search, node, devicePath, meta, dm, mounts, newroot, storage, selinux, root>>

\* Up to chroot() the process keeps the old root directory.
RootAfterFailure == "initramfs"

\* chdir(), mount(MS_MOVE), chroot(), chdir().  The last one can only fail in the new root.
cominitSwitchIntoRootfs ==
    /\ pc = "switch"
    /\ \/ root' = "rootfs" /\ pc' = "exec"
       \/ /\ "switch" \in faults
          /\ root' \in {RootAfterFailure, "rootfs"} /\ pc' = "rescue"
    /\ UNCHANGED <<search, node, devicePath, meta, dm, mounts, newroot, storage, selinux, files>>

\* execve("/sbin/init")
ExecInit ==
    /\ pc = "exec"
    /\ \/ pc' = "init" /\ root \in files
       \/ pc' = "rescue" /\ (root \notin files \/ "init" \in faults)
    /\ UNCHANGED <<search, node, devicePath, meta, dm, mounts, newroot, storage, selinux,
                   files, root>>

\* execve("/bin/sh"), in whatever root the process has; otherwise PID 1 returns.
ExecShell ==
    /\ pc = "rescue"
    /\ \/ pc' = "shell" /\ root \in files
       \/ pc' = "panic" /\ (root \notin files \/ "sh" \in faults)
    /\ UNCHANGED <<search, node, devicePath, meta, dm, mounts, newroot, storage, selinux,
                   files, root>>

-----------------------------------------------------------------------------
main ==
    \/ cominitSetupSysfiles \/ cominitDiscoverRootfs \/ cominitMicroSleep
    \/ cominitLoadVerifyMetadata \/ TpmBlock \/ cominitSetupDmDevice \/ cominitSetupRootfs
    \/ cominitTpmMountSecureStorage \/ cominitSetupSysSelinuxfiles
    \/ cominitLoadSelinuxPolicy("initrd") \/ cominitLoadSelinuxPolicy("rootfs")
    \/ cominitSetSelinuxMode \/ cominitCleanupSysfiles \/ cominitNftwRemove
    \/ cominitSwitchIntoRootfs \/ ExecInit \/ ExecShell

\* cominit has been replaced by another program, or the kernel has panicked.
Gone == pc \in Final /\ UNCHANGED vars

Next == main \/ DeviceAppears \/ Gone

\* cominit is the only user process: it runs whenever it can, and the tools of the TPM block
\* return (VolumeSetup says when luksOpen does not).  Nothing makes a device appear.
Spec == Init /\ [][Next]_vars
FairSpec == Spec /\ WF_vars(main)

-----------------------------------------------------------------------------
(* Properties *)

\* What main() and the kernel can hold: the root of the process is the initramfs or the
\* rootfs, never a root switch half done (cominit.c:241-402, minsetup.c:187-212).
TypeOK ==
    /\ faults \in FaultSets
    /\ pc \in Points
    /\ args \in SUBSET Options
    /\ part \in Partition
    /\ node \in Nodes
    /\ failCount \in Nat /\ waited \in Nat
    /\ devicePath \in {"none", "partition", "dm"}
    /\ meta \in Meta \cup {NoMeta}
    /\ dm \in DmStates
    /\ mounts \subseteq {"/dev", "/proc", "selinuxfs", "storage"}
    /\ newroot \in {"none", "partition", "dm"} \X {"ro", "rw"}
    /\ storage \in {"closed", "open"}
    /\ policies \subseteq {"initrd", "rootfs"}
    /\ enforce \in {"permissive", "enforcing"}
    /\ files \subseteq {"initramfs", "rootfs", "storage"}
    /\ root \in {"initramfs", "rootfs"}

\* Whatever program runs from the rootfs, be it init or the rescue shell, the rootfs was
\* mounted from what its signed metadata asks for: through a started device-mapper device
\* if it names one, and writable only if it says so and the format allows it
\* (cominit.c:257, 326, minsetup.c:136-153, dmctl.c:96-107).
RunsSignedRootfs ==
    pc \in Final /\ root = "rootfs" =>
        /\ part.sig = "valid" /\ meta = part.meta
        /\ newroot[1] = (IF meta.crypt = {} THEN "partition" ELSE "dm")
        /\ newroot[1] = "dm" => dm = "active"
        /\ newroot[2] = meta.mode
        /\ newroot[2] = "rw" => meta.fs # "squashfs" /\ "verity" \notin meta.crypt

\* Freeing the initramfs deletes nothing of the rootfs and nothing of the secure storage,
\* both of which are mounted below the directory that is deleted (minsetup.c:191).
OnlyInitramfsFreed == {"rootfs", "storage"} \subseteq files

\* A working /bin/sh is missed only when switching the root failed after the initramfs had
\* been freed, unless the TPM block was killed (cominit.c:392-401, minsetup.c:191-210).
PanicOnlyWithoutShell ==
    pc = "panic" /\ {"sh", "create"} \cap faults = {} =>
        root = "initramfs" /\ "initramfs" \notin files /\ newroot[1] # "none"

\* cominit gives up looking for the rootfs only after it has slept all the intervals, if no
\* sleep is cut short (cominit.c:245-254).
GivesUpLate ==
    pc \in Final /\ devicePath = "none" /\ mounts = {"/dev", "/proc"}
        /\ {"clock", "interrupt"} \cap faults = {} => waited = Tries

\* Every boot ends in the rootfs init, in a rescue shell or in a panic, whether or not the
\* rootfs device ever appears (cominit.c:244-254).
BootEnds == <>(pc \in Final)

\* What the metadata has to be for the rootfs to be mountable.
Bootable ==
    /\ part.sig = "valid" /\ part.form = "parsable"
    /\ "crypt" \notin part.meta.crypt
    /\ part.meta.mode = "rw" => part.meta.fs # "squashfs" /\ "verity" \notin part.meta.crypt

\* If nothing fails, a device that appears before the last attempt is booted from; the
\* attempt that follows an appearance during a sleep still counts (cominit.c:245-254).
BootsIfInTime ==
    faults = {} /\ Bootable /\ node = "partition" /\ pc \in {"sysfiles", "discover", "sleep"}
        ~> pc = "init"

\* What the arguments ask of SELinux.
AskedPolicies == IF "selinux" \in args THEN {"initrd", "rootfs"} ELSE {}
AskedMode == IF {"selinux", "enforcing"} \subseteq args THEN "enforcing" ELSE "permissive"

\* If nothing fails, the rootfs init starts with the policies loaded and the mode set that
\* the arguments ask for, and with the secure storage mounted (cominit.c:332-366).
SetUpAsAsked ==
    pc = "init" /\ faults = {} =>
        /\ policies = AskedPolicies
        /\ enforce = AskedMode
        /\ "storage" \in mounts <=> "storage" \in args
        /\ mounts \subseteq {"/proc", "storage"}

-----------------------------------------------------------------------------
(* The inductive invariant: how far main() has come determines what it has established. *)

AfterVerify == {"tpm", "dm", "mountroot", "storage", "selinux", "initrd", "rootfs", "mode",
                "cleanup", "free", "switch", "exec"}
AfterDm == AfterVerify \ {"tpm", "dm"}
AfterMount == AfterDm \ {"mountroot"}
BeforeFree == Points \ ({"switch", "exec", "rescue"} \cup Final)

\* devicePath and dm belong to the metadata.
PathInv ==
    /\ part.sig = "valid" /\ meta = part.meta
    /\ devicePath = (IF meta.crypt = {} THEN "partition" ELSE "dm")
    /\ devicePath = "dm" => dm = "active"
    /\ meta.mode = "rw" => meta.fs # "squashfs" /\ meta.crypt # {"verity"}

\* The inductive invariant: how far main() has come says what has been verified, mapped,
\* mounted and deleted (cominit.c:256-390, minsetup.c:130-203).
BootInv ==
    /\ TypeOK
    /\ pc \in {"metadata", "tpm", "dm"} => devicePath = "partition"
    /\ pc \in AfterVerify =>
        part.sig = "valid" /\ meta = part.meta /\ "crypt" \notin meta.crypt
    /\ pc \in AfterDm => PathInv
    /\ pc \in AfterMount => newroot = <<devicePath, meta.mode>>
    /\ root = "rootfs" => PathInv /\ newroot = <<devicePath, meta.mode>>
                            /\ "crypt" \notin meta.crypt
    /\ pc \in BeforeFree \cup {"switch"} => root = "initramfs"
    /\ pc \in BeforeFree => "initramfs" \in files
    /\ pc \in {"exec", "init"} => root = "rootfs"
    /\ "initramfs" \notin files => newroot[1] # "none"
    /\ {"rootfs", "storage"} \subseteq files
    /\ pc = "panic" /\ {"sh", "create"} \cap faults = {} => root \notin files

\* The retry loop: as many intervals slept as attempts failed, if no sleep is cut short.
RetryInv ==
    /\ failCount <= Tries
    /\ pc = "sleep" => failCount > 0
    /\ pc \in {"sysfiles", "discover", "sleep"} => devicePath = "none"
    /\ pc = "sysfiles" => mounts = {} /\ failCount = 0
    /\ {"clock", "interrupt"} \cap faults = {} =>
        failCount = IF pc = "sleep" THEN waited + 1 ELSE waited
    /\ pc \in {"discover", "sleep"} => mounts = {"/dev", "/proc"}
    /\ pc \notin {"sysfiles", "discover", "sleep", "rescue"} \cup Final => devicePath # "none"
    /\ pc \in {"rescue"} \cup Final /\ devicePath = "none" /\ mounts = {"/dev", "/proc"} =>
        failCount = Tries

\* What has been set up so far in a boot in which nothing fails.
AfterTpm == {"dm", "mountroot"} \cup AfterMount \cup {"init"}
AfterPolicies == {"mode", "cleanup", "free", "switch", "exec", "init"}

SetUpInv ==
    faults = {} =>
        /\ pc \in AfterTpm => (storage = "open" <=> "storage" \in args)
        /\ pc \in AfterTpm \ {"dm", "mountroot", "storage"} =>
            ("storage" \in mounts <=> "storage" \in args)
        /\ pc \in (Points \ (AfterTpm \cup {"shell", "panic", "rescue"}))
            \cup {"dm", "mountroot", "storage"} => "storage" \notin mounts
        /\ pc \in {"initrd", "rootfs", "mode"} => "selinux" \in args
        /\ pc = "mode" => "enforcing" \in args
        /\ pc \in Points \ (AfterPolicies \cup {"rootfs", "rescue", "shell", "panic"}) =>
            policies = {}
        /\ pc = "rootfs" => policies = {"initrd"}
        /\ pc \in AfterPolicies => policies = AskedPolicies
        /\ pc \in AfterPolicies \ {"mode"} => enforce = AskedMode
        /\ pc \in Points \ ((AfterPolicies \ {"mode"}) \cup {"rescue", "shell", "panic"}) =>
            enforce = "permissive"
        /\ pc \in {"free", "switch", "exec", "init"} => mounts \subseteq {"/proc", "storage"}

-----------------------------------------------------------------------------
(* Progress *)

\* How many steps of main() can follow each point of it, the retries left out.
Ahead ==
    [p \in Points |->
        CASE p \in Final -> 0 [] p = "rescue" -> 1 [] p = "exec" -> 2 [] p = "switch" -> 3
          [] p = "free" -> 4 [] p = "cleanup" -> 5 [] p = "mode" -> 6 [] p = "rootfs" -> 7
          [] p = "initrd" -> 8 [] p = "selinux" -> 9 [] p = "storage" -> 10
          [] p = "mountroot" -> 11 [] p = "dm" -> 12 [] p = "tpm" -> 13
          [] p = "metadata" -> 14 [] p = "discover" -> 15 [] p \in {"sleep", "sysfiles"} -> 16]

\* A retry takes two steps, the sleep and the attempt.
StepsLeft == Ahead[pc] + 2 * (Tries - failCount)

\* No boot takes more steps than the number of tries allows, whatever fails and whenever the
\* device appears: each step of main() brings it closer to its end, and nothing else sets it
\* back (cominit.c:244-254).
EndsInTime ==
    /\ [](StepsLeft \in 0 .. 16 + 2 * Tries)
    /\ [][IF main THEN StepsLeft' < StepsLeft ELSE StepsLeft' = StepsLeft]_vars

-----------------------------------------------------------------------------
(* Statements of the documentation that the code does not keep *)

\* README.md:76-78, cominit "will try to exec into a rescue shell. This will be either
\* `[initramfs]/bin/sh` if the error occured before switching the root or
\* `[rootfs]/bin/sh` if it occured after": if both are there, one of them is started.
RescueShellStarts == pc # "panic"

\* README.md:99, "If the rootfs is not immediately available or accessible, cominit will wait
\* a pre-set interval and try again for a pre-set number of times": the boot is not given up
\* for a missing device node before all attempts have been made.
WaitsForRootfs ==
    pc = "shell" /\ faults = {} /\ node # "partition" => failCount = Tries
==============================================================================
