---------------------------- MODULE SecureStorage ----------------------------
(***************************************************************************)
(* The secure storage of cominit over the whole life of a device: every    *)
(* boot seals or unseals a passphrase with the TPM and creates or opens a  *)
(* LUKS volume with it, and the power may go away between any two steps.   *)
(*                                                                         *)
(* Persistent state: the TPM's persistent key handle, the blob file on the *)
(* blob partition and the LUKS partition.  Volatile state: the PCRs, the   *)
(* page cache's view of the blob partition, the kernel keyring, the        *)
(* device-mapper device and cominit's own control state.                   *)
(*                                                                         *)
(* Code: src/src/tpm.c, the TPM block of main() in src/src/cominit.c,      *)
(* src/src/securememory.c and src/src/cryptsetup.c.                        *)
(***************************************************************************)
CONSTANTS
    Pcr,            \* PCR indices of the SHA-256 bank
    Measurement,    \* what firmware, loader and kernel can have measured into a PCR
    PcrExtend,      \* cominit.pcrExtend: an index, or NoPcr
    PcrSeal,        \* cominit.pcrSeal: the indices the policy is built on
    BlobDevice,     \* whether cominit.blob names a device node
    CryptDevice,    \* whether a device node for the volume was given or found
    InitialHandles, \* what the persistent handle can hold when the device ships
    Environments,   \* what may happen to a device: the operations that may fail on it, and
                    \* the program points at which its power may be cut
    Pass,           \* the passphrases there are: at least as many as can be in use, plus one
    NoPass,         \* no passphrase
    NoPcr           \* cominit.pcrExtend absent or invalid

ASSUME ConfigAssumption ==
    /\ NoPcr \notin Pcr
    /\ PcrExtend \in Pcr \cup {NoPcr}
    /\ PcrSeal \subseteq Pcr
    /\ BlobDevice \in BOOLEAN
    /\ CryptDevice \in BOOLEAN
    /\ InitialHandles \subseteq {"free", "foreign"}
    /\ NoPass \notin Pass

VARIABLES
    env,            \* the environment of this device
    handle,         \* the object behind TPM2_PERSISTENT_FIRST
    diskBlob,       \* sealed.blob as it is on the medium
    crypt,          \* how far the partition devNodeCrypt is set up
    cryptPass,      \* the passphrase of its LUKS key slot
    data,           \* observer: whether the rootfs has stored data in the volume
    pc,             \* what cominit does next
    pcrs,           \* the PCR bank
    blob,           \* sealed.blob as a reader of the mounted partition sees it
    active,         \* what is mounted or mapped: "blob", "mapper", "storage"
    blobState,      \* cominitBlobState_t of cominitTpmProtectData()
    outBlob,        \* what outPublic and outPrivate point to
    tpmState,       \* cominitTpmState_t of cominitTpmProtectData()
    keyring         \* the user key "secureStorage"

vars == <<env, handle, diskBlob, crypt, cryptPass, data, pc, pcrs, blob, active, blobState,
          outBlob, tpmState, keyring>>

volume == <<crypt, cryptPass, data>>

Faults == env.faults
CutPoints == env.cuts

-----------------------------------------------------------------------------
(* Values *)

\* A PCR holds what was measured before cominit and, perhaps, cominit's own extension.
PcrValue == [base : Measurement, last : {"loader", "cominit"}]
UnextendedPcr == [base : Measurement, last : {"loader"}]

\* The policy digest over the selected PCRs.
Policy == [i \in PcrSeal |-> pcrs[i]]

Absent == [file |-> "absent"]   \* no sealed.blob
Short  == [file |-> "short"]    \* a sealed.blob that cominitTpmLoadBlob() cannot read in full
SealedBlob == [file : {"sealed"}, pass : Pass, policy : [PcrSeal -> PcrValue]]
Blob == {Absent, Short} \cup SealedBlob
NullBlob == [file |-> "null"]   \* outPublic and outPrivate are NULL

\* The volume: untouched, with a damaged header, formatted, with the keyring token, and with
\* a file system.
CryptStates == {"raw", "broken", "luks", "token", "fs"}

BlobStates == {"BlobNotFound", "BlobIsEmpty", "BlobExists"}
TpmStates == {"TpmFailure", "TpmPolicyFailure", "Unsealed", "Sealed"}

\* Steps of the path that only a boot with an empty blob partition takes.
FirstBootSteps == {"seal", "evict", "save", "format", "token", "mkfs"}
FinalPoints == {"running", "rescue", "panic"}
Points == FirstBootSteps \cup FinalPoints \cup
          {"off", "init", "extend", "setup", "unseal", "open", "unmount", "rootfs", "mount", "switch"}

-----------------------------------------------------------------------------
(* Configuration *)

cominitTpmExtendEnabled == PcrExtend # NoPcr

cominitTpmSecureStorageEnabled == BlobDevice /\ PcrSeal # {} /\ CryptDevice

cominitUseTpm == cominitTpmExtendEnabled \/ cominitTpmSecureStorageEnabled

-----------------------------------------------------------------------------
Init ==
    /\ env \in Environments
    /\ handle \in InitialHandles
    /\ diskBlob = Absent
    /\ crypt = "raw"
    /\ cryptPass = NoPass
    /\ data = "none"
    /\ pc = "off"
    /\ pcrs \in [Pcr -> UnextendedPcr]
    /\ blob = diskBlob
    /\ active = {}
    /\ blobState = "BlobNotFound"
    /\ outBlob = NullBlob
    /\ tpmState = "TpmFailure"
    /\ keyring = NoPass

\* The kernel has started cominit and the rootfs metadata has been verified.
PowerOn ==
    /\ pc = "off"
    /\ pcrs' \in [Pcr -> UnextendedPcr]
    /\ pc' = IF cominitUseTpm THEN "init" ELSE "rootfs"
    /\ UNCHANGED <<env, handle, diskBlob, volume, blob, active, blobState, outBlob, tpmState,
                   keyring>>

\* On failure main() skips the whole TPM block.
cominitInitTpm ==
    /\ pc = "init"
    /\ \/ pc' = "extend"
       \/ "init" \in Faults /\ pc' = "rootfs"
    /\ UNCHANGED <<env, handle, diskBlob, volume, pcrs, blob, active, blobState, outBlob,
                   tpmState, keyring>>

\* main() only logs a failed extension and goes on.
cominitTpmExtendPCR ==
    /\ pc = "extend"
    /\ \/ /\ cominitTpmExtendEnabled
          /\ pcrs' = [pcrs EXCEPT ![PcrExtend] = [base |-> @.base, last |-> "cominit"]]
       \/ /\ ~cominitTpmExtendEnabled \/ "extend" \in Faults
          /\ UNCHANGED pcrs
    /\ pc' = IF cominitTpmSecureStorageEnabled THEN "setup" ELSE "rootfs"
    /\ UNCHANGED <<env, handle, diskBlob, volume, blob, active, blobState, outBlob, tpmState,
                   keyring>>

-----------------------------------------------------------------------------
(* cominitTpmProtectData() *)

\* A step of cominitTpmProtectData() fails: only the unmount is left to do.
Fail(state) == pc' = "unmount" /\ tpmState' = state

\* Mount the partition; whether sealed.blob exists decides whether this is the first boot.
cominitTpmSetupBlob ==
    /\ pc = "setup"
    /\ \/ /\ active' = active \cup {"blob"}
          /\ blobState' = IF blob = Absent THEN "BlobIsEmpty" ELSE "BlobExists"
          /\ pc' = IF blob = Absent THEN "seal" ELSE "unseal"
          /\ UNCHANGED tpmState
       \/ /\ "mountblob" \in Faults
          /\ Fail("TpmFailure")
          /\ UNCHANGED <<active, blobState>>
       \/ /\ "access" \in Faults
          /\ Fail("TpmFailure")
          /\ active' = active \cup {"blob"}
          /\ UNCHANGED blobState
    /\ UNCHANGED <<env, handle, diskBlob, volume, pcrs, blob, outBlob, keyring>>

\* A new passphrase is a random one: none that is still written down anywhere.
PassInUse ==
    {cryptPass} \cup {b.pass : b \in {blob, diskBlob} \cap SealedBlob}

\* Mutant: the primary key is made persistent before the policy is built.
SealFails_AfterEvict == Fail("TpmFailure") /\ handle' = "ours" /\ UNCHANGED outBlob

\* No primary key, no trial session or no policy digest.
SealFails == Fail("TpmFailure") /\ UNCHANGED <<handle, outBlob>>

\* Create the primary key and the policy, then a sealed object with a new passphrase.  The
\* result of cominitSecurememoryEsysCreate() is overwritten by the next call's, so its
\* failure leaves the out pointers NULL and goes unnoticed.
cominitTpmSeal ==
    /\ pc = "seal"
    /\ \/ /\ \E p \in Pass \ PassInUse :
                outBlob' = [file |-> "sealed", pass |-> p, policy |-> Policy]
          /\ pc' = "evict"
          /\ UNCHANGED <<handle, tpmState>>
       \/ /\ "create" \in Faults
          /\ outBlob' = NullBlob
          /\ pc' = "evict"
          /\ UNCHANGED <<handle, tpmState>>
       \/ /\ "primary" \in Faults
          /\ SealFails
    /\ UNCHANGED <<env, diskBlob, volume, pcrs, blob, active, blobState, keyring>>

\* Mutant: an object that is already at the handle is evicted first.
EvictAccepted_Replacing == TRUE

\* Esys_EvictControl() refuses a handle that is already defined.
EvictAccepted == handle = "free"

\* When Esys_EvictControl() reports a failure the TPM may still have carried it out.
cominitTpmSavePrimaryHandle ==
    /\ pc = "evict"
    /\ \/ /\ EvictAccepted
          /\ handle' = "ours"
          /\ pc' = "save"
          /\ UNCHANGED <<outBlob, tpmState>>
       \/ /\ ~EvictAccepted
          /\ Fail("TpmFailure")
          /\ outBlob' = NullBlob
          /\ UNCHANGED handle
       \/ /\ EvictAccepted /\ "evict" \in Faults
          /\ Fail("TpmFailure")
          /\ outBlob' = NullBlob
          /\ handle' \in {handle, "ours"}
    /\ UNCHANGED <<env, diskBlob, volume, pcrs, blob, active, blobState, keyring>>

\* What the two fwrite() calls, whose results are not checked, leave in the file.
WrittenFile(out) ==
    IF out = NullBlob THEN {Short}
    ELSE {out} \cup {b \in {Short} : "fwrite" \in Faults}

\* Only fopen() is checked; the file is not synced.  fwrite() from NULL is undefined: the
\* process is killed, or nothing is written.
cominitTpmSaveBlob ==
    /\ pc = "save"
    /\ \/ /\ blob' \in WrittenFile(outBlob)
          /\ pc' = "unseal" /\ tpmState' = "Sealed"
       \/ /\ outBlob = NullBlob
          /\ blob' = Short
          /\ pc' = "panic"
          /\ UNCHANGED tpmState
       \/ /\ "fopen" \in Faults
          /\ Fail("TpmFailure")
          /\ UNCHANGED blob
    /\ outBlob' = NullBlob
    /\ UNCHANGED <<env, handle, diskBlob, volume, pcrs, active, blobState, keyring>>

\* Mutant: the object is unsealed without a policy session.
PolicyHolds_NoSession(b) == TRUE

\* PolicyPCR over the selected PCRs yields the digest the object was created with.
PolicyHolds(b) == b.policy = Policy

isFirstBoot == blobState = "BlobIsEmpty"

\* Mutant: every boot sets the volume up.
SetupSecureStorageStep_AlwaysFirst == "format"

\* Mutant: no boot sets the volume up.
SetupSecureStorageStep_NeverFirst == "open"

\* Where cominitTpmSetupSecureStorage() starts.
SetupSecureStorageStep == IF isFirstBoot THEN "format" ELSE "open"

\* Load the persistent key and the blob, and let the TPM unseal under the current PCRs: a
\* key other than the parent, or a short file, is a failure; other PCRs a policy failure.
\* The passphrase goes to the user keyring.
cominitTpmUnsealBlob ==
    /\ pc = "unseal"
    /\ \/ /\ handle = "ours" /\ blob \in SealedBlob
          /\ PolicyHolds(blob)
          /\ keyring' = blob.pass
          /\ tpmState' = "Unsealed"
          /\ pc' = SetupSecureStorageStep
       \/ /\ handle = "ours" /\ blob \in SealedBlob
          /\ ~PolicyHolds(blob)
          /\ Fail("TpmPolicyFailure")
          /\ UNCHANGED keyring
       \/ /\ handle # "ours" \/ blob \notin SealedBlob \/ "unseal" \in Faults
          /\ Fail("TpmFailure")
          /\ UNCHANGED keyring
    /\ UNCHANGED <<env, handle, diskBlob, volume, pcrs, blob, active, blobState, outBlob>>

\* The tools run as child processes.  A tool that is reported to have failed may have done
\* its work all the same: its exit status was lost, or it failed at the very end.

\* luksFormat with the passphrase read back from the keyring.  When it fails the partition
\* may be untouched, its header half written, or the volume made.
cominitSecurememoryCreateLuksVolume ==
    /\ pc = "format"
    /\ \/ /\ crypt' = "luks" /\ cryptPass' = keyring
          /\ data' = "none"
          /\ pc' = "token"
          /\ UNCHANGED tpmState
       \/ /\ "format" \in Faults
          /\ Fail("TpmFailure")
          /\ \/ crypt' = "broken" /\ cryptPass' = NoPass /\ data' = "none"
             \/ crypt' = "luks" /\ cryptPass' = keyring /\ data' = "none"
             \/ UNCHANGED <<crypt, cryptPass, data>>
    /\ UNCHANGED <<env, handle, diskBlob, pcrs, blob, active, blobState, outBlob, keyring>>

\* Mutant: the token is added to a key slot other than the passphrase's.
WithToken_WrongSlot == "luks"

\* The token tells luksOpen to look for the passphrase of slot 0 in the keyring.
WithToken == "token"

cominitCryptsetupAddToken ==
    /\ pc = "token"
    /\ \/ /\ crypt' = WithToken
          /\ pc' = "open"
          /\ UNCHANGED tpmState
       \/ /\ "token" \in Faults
          /\ Fail("TpmFailure")
          /\ crypt' \in {crypt, WithToken}
    /\ UNCHANGED <<env, handle, diskBlob, cryptPass, data, pcrs, blob, active, blobState,
                   outBlob, keyring>>

\* What luksOpen needs to open the volume without asking for a passphrase.  Where it asks, it
\* is taken to fail in the end; that it may wait at its prompt is in VolumeSetup.
Openable == crypt \in {"token", "fs"} /\ keyring = cryptPass

cominitCryptsetupOpenLuksVolume ==
    /\ pc = "open"
    /\ \/ /\ Openable
          /\ active' = active \cup {"mapper"}
          /\ pc' = IF isFirstBoot THEN "mkfs" ELSE "unmount"
          /\ UNCHANGED tpmState
       \/ /\ ~Openable \/ "open" \in Faults
          /\ Fail("TpmFailure")
          /\ UNCHANGED active
       \/ /\ Openable /\ "open" \in Faults
          /\ Fail("TpmFailure")
          /\ active' = active \cup {"mapper"}
    /\ UNCHANGED <<env, handle, diskBlob, volume, pcrs, blob, blobState, outBlob, keyring>>

cominitTpmFormatSecureStorage ==
    /\ pc = "mkfs"
    /\ \/ /\ crypt' = "fs"
          /\ pc' = "unmount"
          /\ UNCHANGED tpmState
       \/ /\ "mkfs" \in Faults
          /\ crypt' \in {"token", "fs"}
          /\ Fail("TpmFailure")
    /\ data' = "none"
    /\ UNCHANGED <<env, handle, diskBlob, cryptPass, pcrs, blob, active, blobState, outBlob,
                   keyring>>

\* Mutant: a lazy umount2(), which returns while the file system is still alive.
umount_Lazy == UNCHANGED <<diskBlob, active>>

\* umount() of the last mount writes the file system back.
umount == diskBlob' = blob /\ active' = active \ {"blob"}

\* The result of umount() is ignored.
cominitTpmUnmountBlob ==
    /\ pc = "unmount"
    /\ \/ umount
       \/ "blob" \in active /\ "umount" \in Faults /\ UNCHANGED <<diskBlob, active>>
    /\ pc' = "rootfs"
    /\ UNCHANGED <<env, handle, volume, pcrs, blob, blobState, outBlob, tpmState, keyring>>

-----------------------------------------------------------------------------
(* The rest of the boot *)

cominitSetupRootfs ==
    /\ pc = "rootfs"
    /\ \/ pc' = "mount"
       \/ "rootfs" \in Faults /\ pc' = "rescue"
    /\ UNCHANGED <<env, handle, diskBlob, volume, pcrs, blob, active, blobState, outBlob,
                   tpmState, keyring>>

Mountable == cominitTpmSecureStorageEnabled /\ "mapper" \in active /\ crypt = "fs"

\* Tried whenever secure storage is configured, whatever cominitTpmProtectData() returned;
\* main() only logs a failure.
cominitTpmMountSecureStorage ==
    /\ pc = "mount"
    /\ \/ /\ Mountable
          /\ active' = active \cup {"storage"}
       \/ /\ ~Mountable \/ "mount" \in Faults
          /\ UNCHANGED active
    /\ pc' = "switch"
    /\ UNCHANGED <<env, handle, diskBlob, volume, pcrs, blob, blobState, outBlob, tpmState,
                   keyring>>

\* The rest of main(): the rootfs runs, or the rescue shell, with the volume as it is.
SwitchIntoRootfs ==
    /\ pc = "switch"
    /\ \/ pc' = "running"
       \/ "switch" \in Faults /\ pc' = "rescue"
    /\ UNCHANGED <<env, handle, diskBlob, volume, pcrs, blob, active, blobState, outBlob,
                   tpmState, keyring>>

-----------------------------------------------------------------------------
(* Environment *)

\* Contents of the file that writing `to' over `from' can leave on the medium.
Between(from, to) ==
    {from, to} \cup (IF from = Absent /\ to # Absent THEN {Short} ELSE {})

\* The kernel writes dirty pages of the blob partition back when it likes.
Writeback ==
    /\ "blob" \in active /\ diskBlob # blob
    /\ diskBlob' \in Between(diskBlob, blob)
    /\ UNCHANGED <<env, handle, volume, pc, pcrs, blob, active, blobState, outBlob, tpmState,
                   keyring>>

UserWrite ==
    /\ pc = "running" /\ "storage" \in active
    /\ data' = "stored"
    /\ UNCHANGED <<env, handle, diskBlob, crypt, cryptPass, pc, pcrs, blob, active, blobState,
                   outBlob, tpmState, keyring>>

\* Volatile state is gone; the next boot sees what the medium has.
LoseVolatile(image) ==
    /\ pc' = "off"
    /\ diskBlob' = image
    /\ blob' = image
    /\ active' = {}
    /\ blobState' = "BlobNotFound"
    /\ outBlob' = NullBlob
    /\ tpmState' = "TpmFailure"
    /\ keyring' = NoPass
    /\ UNCHANGED <<env, handle, pcrs>>

\* A sudden loss of power, or the reset that follows a kernel panic.  It can also interrupt
\* the writing of the file or of the LUKS header.
PowerCut ==
    /\ pc \in CutPoints \cup {"panic"}
    /\ \E image \in Between(diskBlob, blob) \cup {b \in {Short} : pc = "save"} :
          LoseVolatile(image)
    /\ \/ UNCHANGED <<crypt, cryptPass, data>>
       \/ /\ pc = "format"
          /\ crypt' = "broken" /\ cryptPass' = NoPass /\ data' = "none"

\* The rootfs, or the user of the rescue shell, shuts the device down in order.
Shutdown ==
    /\ pc \in {"running", "rescue"}
    /\ LoseVolatile(blob)
    /\ UNCHANGED <<crypt, cryptPass, data>>

cominitStep ==
    \/ cominitInitTpm \/ cominitTpmExtendPCR \/ cominitTpmSetupBlob \/ cominitTpmSeal
    \/ cominitTpmSavePrimaryHandle \/ cominitTpmSaveBlob \/ cominitTpmUnsealBlob
    \/ cominitSecurememoryCreateLuksVolume \/ cominitCryptsetupAddToken
    \/ cominitCryptsetupOpenLuksVolume \/ cominitTpmFormatSecureStorage
    \/ cominitTpmUnmountBlob \/ cominitSetupRootfs \/ cominitTpmMountSecureStorage
    \/ SwitchIntoRootfs

Next == cominitStep \/ PowerOn \/ Writeback \/ UserWrite \/ PowerCut \/ Shutdown

Spec == Init /\ [][Next]_vars

\* cominit is the only user process of the initramfs: it runs whenever it can.  That luksOpen
\* returns matters only to a volume that it cannot open.
FairSpec == Spec /\ WF_vars(cominitStep)

\* The device is also used: it is shut down and started again.
UsedSpec == FairSpec /\ WF_vars(PowerOn) /\ WF_vars(Shutdown)

-----------------------------------------------------------------------------
(* Properties *)

\* What the TPM, the partitions, the keyring and the locals of cominitTpmProtectData() can
\* hold: a file is absent, a whole blob or a cut one (tpm.c:115-175, 726-766).
TypeOK ==
    /\ env \in Environments
    /\ handle \in {"free", "foreign", "ours"}
    /\ diskBlob \in Blob
    /\ crypt \in CryptStates
    /\ cryptPass \in Pass \cup {NoPass}
    /\ data \in {"none", "stored"}
    /\ pc \in Points
    /\ pcrs \in [Pcr -> PcrValue]
    /\ blob \in Blob
    /\ active \subseteq {"blob", "mapper", "storage"}
    /\ blobState \in BlobStates
    /\ outBlob \in SealedBlob \cup {NullBlob}
    /\ tpmState \in TpmStates
    /\ keyring \in Pass \cup {NoPass}

\* Nothing of the setup has been done yet: the next boot is a first boot and can complete.
Fresh == handle = "free" /\ diskBlob = Absent /\ crypt = "raw"

\* The setup is complete and on the medium: every boot with the right PCRs opens the volume.
Ready ==
    handle = "ours" /\ diskBlob \in SealedBlob /\ crypt = "fs" /\ cryptPass = diskBlob.pass

\* No boot, crash or failure ever destroys data in the volume: the partition is formatted
\* and the file system made only before there is any (tpm.c:345, the isFirstBoot branch).
DataSurvives == [][data = "stored" => data' = "stored"]_vars

\* Once the setup is complete, no later boot, fault or power cut undoes any part of it:
\* not the persistent key, not the blob, not the volume (tpm.c:746, the BlobExists branch).
ReadyIsStable == [][Ready => Ready']_vars

\* Whenever a sealed blob and a LUKS volume exist, the one unseals to the passphrase of the
\* other, even though each seal makes a new passphrase (tpm.c:733-745).
BlobFitsVolume ==
    crypt \in {"luks", "token", "fs"} /\ blob \in SealedBlob => blob.pass = cryptPass

\* The volume is open, or mounted, only in a boot whose PCRs have the values recorded when
\* its passphrase was sealed (securememory.c:70-89, README "Secure Storage").
OpenOnlyIfTrusted ==
    "mapper" \in active \/ "storage" \in active =>
        blob \in SealedBlob /\ blob.policy = Policy /\ blob.pass = cryptPass

\* Data in the volume can be read again in a later boot: its passphrase is on the medium
\* before the rootfs can write, although the file is never synced (tpm.c:163-172, 763).
DataRecoverable == "umount" \notin Faults /\ data = "stored" => Ready

\* cominitTpmProtectData() has returned Unsealed only if the volume is open (tpm.h:72).
UnsealedMeansOpen ==
    pc \in {"rootfs", "mount"} /\ tpmState = "Unsealed" => "mapper" \in active

\* Nothing fails, the power is never cut, and the device shipped with the handle free.
Undisturbed == Faults = {} /\ CutPoints = {} /\ handle # "foreign"

\* A boot in which the PCRs have the values of the sealing boot ends with the volume mounted,
\* if nothing fails in it or failed before (README "Secure Storage").
TrustedBootMounts ==
    Undisturbed /\ pc = "running" /\ cominitTpmSecureStorageEnabled /\ blob \in SealedBlob
        /\ blob.policy = Policy => "storage" \in active

\* A device that is started again and again gets its secure storage, if nothing fails: the
\* first boot gets from cominitTpmSetupBlob() to mkfs without a second one (tpm.c:733-745).
EventuallyReady == Undisturbed /\ cominitTpmSecureStorageEnabled => <>[]Ready

\* Where a power cut or a failure does no lasting harm: before the key is made persistent
\* and after the blob partition is unmounted.
SafePoints == {"init", "extend", "setup", "seal", "evict", "rootfs", "mount", "switch",
               "running", "rescue"}
SafeFaults == {"init", "extend", "mountblob", "access", "primary", "rootfs", "mount", "switch"}
OutsideWindow ==
    Faults \subseteq SafeFaults /\ CutPoints \subseteq SafePoints /\ handle # "foreign"

\* Switched off, the device is either as it shipped or set up for good: a boot that ends
\* early, before the key is made persistent or after the blob partition is unmounted,
\* leaves nothing half done (tpm.c:307, 394, 763).
NeverHalfDone == OutsideWindow /\ pc = "off" => Fresh \/ Ready

-----------------------------------------------------------------------------
(* The inductive invariant behind the safety properties.  Its heart: the persistent handle *)
(* is taken at most once, before anything is written, so a boot that got past              *)
(* cominitTpmSavePrimaryHandle() found everything blank, and no later boot gets there.     *)

BeforeUnseal == {"off", "init", "extend", "setup", "seal", "evict", "save", "unseal"}
AfterUnmount == {"rootfs", "mount", "switch", "running", "rescue"}

\* The medium lags behind the page cache, and only while the partition is mounted.
MediumInv ==
    /\ diskBlob # blob => "blob" \in active /\ diskBlob \in {Absent, Short} /\ blob # Absent
    /\ pc \in {"off", "init", "extend", "setup"} => active = {}
    /\ pc \in {"seal", "evict", "save"} => "blob" \in active /\ blob = Absent
    /\ "umount" \notin Faults /\ pc \in AfterUnmount => "blob" \notin active

\* Nothing is written before the handle is taken, nor read back that was not sealed here.
HandleInv ==
    /\ handle # "ours" =>
        crypt = "raw" /\ blob = Absent /\ pc \notin {"save", "unseal"}
    /\ outBlob # NullBlob => pc \in {"evict", "save"} /\ outBlob.policy = Policy

\* The volume is only set up by the boot that took the handle, and belongs to the blob.
VolumeInv ==
    /\ pc \in FirstBootSteps => isFirstBoot
    /\ pc \in {"save", "format", "panic"} \/ (pc = "unseal" /\ isFirstBoot) => crypt = "raw"
    /\ pc = "token" => crypt = "luks" /\ cryptPass = keyring
    /\ pc \in {"open", "mkfs"} /\ isFirstBoot => crypt = "token"
    /\ data = "stored" => crypt = "fs"
    /\ BlobFitsVolume

\* The keyring holds the blob's passphrase, released under the current PCRs, and only it
\* opens the volume.
KeyInv ==
    /\ pc \in {"format", "token", "open", "mkfs"} => keyring # NoPass
    /\ keyring # NoPass =>
        /\ pc \notin BeforeUnseal
        /\ blob \in SealedBlob /\ blob.pass = keyring /\ blob.policy = Policy
    /\ "mapper" \in active => Openable /\ keyring # NoPass
    /\ "mapper" \in active => pc \notin {"format", "token", "open"}
    /\ pc = "mkfs" => "mapper" \in active
    /\ "storage" \in active => "mapper" \in active /\ crypt = "fs"
                               /\ pc \in {"switch"} \cup FinalPoints
    /\ pc \in {"off", "init", "extend"} => tpmState # "Unsealed"
    /\ pc \in {"unmount", "rootfs", "mount"} /\ tpmState = "Unsealed" => "mapper" \in active

\* The conjunction is what every step of cominit, of the kernel and of the power preserves.
SetupInv == TypeOK /\ MediumInv /\ HandleInv /\ VolumeInv /\ KeyInv /\ DataRecoverable

-----------------------------------------------------------------------------
(* Refinement of StorageLifecycle *)

phase == IF Ready THEN "ready" ELSE IF handle = "ours" THEN "begun" ELSE "fresh"
access == IF "mapper" \in active THEN "open" ELSE "closed"

UmountWorks == "umount" \notin Faults

Lifecycle == INSTANCE StorageLifecycle WITH contents <- data

\* The boots of a device, with all their failures and power cuts, keep the contract of
\* StorageLifecycle, if umount() of the blob partition does not fail (tpm.c:726-766).
KeepsLifecycle ==
    /\ Lifecycle!Init
    /\ [][UmountWorks => [Lifecycle!Next]_(Lifecycle!lvars)]_vars

-----------------------------------------------------------------------------
(* The window in which a power cut leaves the setup half done *)

\* With power cuts and failures only there, every boot leaves the window between the two
\* with the setup complete.
WindowInv == OutsideWindow =>
    /\ pc \in SafePoints \cup {"off"} => Fresh \/ Ready
    /\ pc = "save" => outBlob \in SealedBlob
    /\ pc \in {"unseal", "format", "token", "open", "mkfs"} =>
        /\ handle = "ours" /\ blob \in SealedBlob
        /\ ~isFirstBoot => Ready
        /\ pc = "unseal" /\ isFirstBoot => blob.policy = Policy
    /\ pc = "evict" => outBlob \in SealedBlob
    /\ pc = "unmount" => Fresh \/ Ready
        \/ (handle = "ours" /\ blob \in SealedBlob /\ crypt = "fs" /\ "blob" \in active)
    /\ pc # "panic"

\* Where nothing fails, a boot that unsealed has opened the volume by the time it is to be
\* mounted.
TrustedInv == Undisturbed /\ cominitTpmSecureStorageEnabled =>
    /\ pc \in {"unmount", "rootfs", "mount"} /\ blob \in SealedBlob /\ blob.policy = Policy =>
        crypt = "fs" /\ "mapper" \in active
    /\ pc = "evict" => blob = Absent /\ handle = "free"
    /\ pc = "switch" /\ blob \in SealedBlob /\ blob.policy = Policy => "storage" \in active
    /\ TrustedBootMounts

-----------------------------------------------------------------------------
(* Statements of the documentation that the code does not keep *)

\* measured-boot.md:34, "The detection is done by detecting if blob partition is empty or
\* already populated": with an empty partition the next boot can do the first-boot work, which
\* starts by making a key persistent; a populated one belongs to a device that is set up.
EmptyMeansFirstBoot ==
    pc = "off" => IF diskBlob = Absent THEN handle # "ours" ELSE Ready

\* tpm.c:223, "EXIT_SUCCESS on success, EXIT_FAILURE otherwise" of cominitTpmSeal(): when
\* it has succeeded the out parameters hold the sealed blob.
SealReturnsBlob == pc = "save" => outBlob # NullBlob
==============================================================================
