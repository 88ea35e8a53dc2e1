---------------------------- MODULE Device_proofs ----------------------------
(* Proofs about the composition: what holds of the parts holds of the device. *)
EXTENDS Device, SecureStorage_proofs

\* What is proved of Boot, about the variables that Device puts for those of Boot.
P == INSTANCE Boot_proofs WITH pc <- point, storage <- opened

\* A device that is switched on for the first time.
LEMMA DeviceInitInv == DeviceInit => DeviceInv
  BY DeviceAssumption, SMTT(20) DEF DeviceInit, Init, Started, DeviceInv

\* Every step keeps the invariant.
LEMMA DeviceStep == DeviceInv /\ [DeviceNext]_deviceVars => DeviceInv'
  <1> SUFFICES ASSUME DeviceInv, [DeviceNext]_deviceVars PROVE DeviceInv'
    OBVIOUS
  <1> USE DEF DeviceInv
  <1>1. CASE BootStep
    <2> USE <1>1 DEF BootStep, vars, B!search, B!selinux
    <2>1. CASE B!cominitSetupSysfiles BY <2>1 DEF B!cominitSetupSysfiles
    <2>2. CASE B!cominitDiscoverRootfs BY <2>2 DEF B!cominitDiscoverRootfs
    <2>3. CASE B!cominitMicroSleep BY <2>3 DEF B!cominitMicroSleep
    <2>4. CASE B!cominitSetupSysSelinuxfiles BY <2>4 DEF B!cominitSetupSysSelinuxfiles
    <2>5. CASE B!cominitLoadSelinuxPolicy("initrd") BY <2>5 DEF B!cominitLoadSelinuxPolicy, B!AfterPolicy
    <2>6. CASE B!cominitLoadSelinuxPolicy("rootfs") BY <2>6 DEF B!cominitLoadSelinuxPolicy, B!AfterPolicy
    <2>7. CASE B!cominitSetSelinuxMode BY <2>7 DEF B!cominitSetSelinuxMode
    <2>8. CASE B!cominitCleanupSysfiles BY <2>8 DEF B!cominitCleanupSysfiles
    <2>9. CASE B!ExecShell BY <2>9 DEF B!ExecShell
    <2> QED BY <2>1, <2>2, <2>3, <2>4, <2>5, <2>6, <2>7, <2>8, <2>9
  <1>2. CASE Verified
    BY <1>2 DEF Verified, PowerOn, B!cominitLoadVerifyMetadata, B!cominitCryptoVerifySignature,
                B!Supported, B!search
  <1>3. CASE NotVerified
    BY <1>3 DEF NotVerified, vars, B!cominitLoadVerifyMetadata, B!search
  <1>4. CASE InTpmBlock
    <2>1. /\ pc # "off" /\ pc' # "running"
          /\ "storage" \in active => "storage" \in active'
      BY <1>4, ZenonT(30) DEF InTpmBlock, TpmStep, cominitInitTpm, cominitTpmExtendPCR,
         cominitTpmSetupBlob, cominitTpmSeal, cominitTpmSavePrimaryHandle, cominitTpmSaveBlob,
         cominitTpmUnsealBlob, cominitSecurememoryCreateLuksVolume, cominitCryptsetupAddToken,
         cominitCryptsetupOpenLuksVolume, cominitTpmFormatSecureStorage, cominitTpmUnmountBlob,
         Fail, SealFails, SetupSecureStorageStep, umount
    <2>2. point = "tpm" /\ point' \in {"tpm", "panic"}
      BY <1>4 DEF InTpmBlock, bootVars
    <2>3. UNCHANGED <<faults, args, part, meta, mounts, files, root>>
      BY <1>4 DEF InTpmBlock, bootVars, B!TpmBlock, B!search
    <2> QED
      BY <2>1, <2>2, <2>3
  <1>5. CASE LeaveTpmBlock BY <1>5 DEF LeaveTpmBlock, vars, B!TpmBlock, B!search
  <1>6. CASE SetupDmDevice
    BY <1>6 DEF SetupDmDevice, vars, B!cominitSetupDmDevice, B!search
  <1>7. CASE RootfsMounted
    BY <1>7 DEF RootfsMounted, cominitSetupRootfs, B!cominitSetupRootfs, B!search
  <1>8. CASE RootfsFails
    BY <1>8 DEF RootfsFails, cominitSetupRootfs, B!cominitSetupRootfs, B!cominitSetupDmDevice, B!search
  <1>9. CASE MountSecureStorage
    BY <1>9 DEF MountSecureStorage, cominitTpmMountSecureStorage, B!cominitTpmMountSecureStorage, B!search
  <1>10. CASE FreeInitramfs
    BY <1>10 DEF FreeInitramfs, B!cominitNftwRemove, B!Removed, B!search
  <1>11. CASE SwitchRoot
    BY <1>11 DEF SwitchRoot, vars, B!cominitSwitchIntoRootfs, B!RootAfterFailure, B!search
  <1>12. CASE StartInit
    BY <1>12 DEF StartInit, SwitchIntoRootfs, B!ExecInit, B!search
  <1>13. CASE SwitchFails
    BY <1>13 DEF SwitchFails, SwitchIntoRootfs, B!cominitSwitchIntoRootfs, B!RootAfterFailure,
                 B!ExecInit, B!search
  <1>14. CASE DeviceAppears
    BY <1>14 DEF DeviceAppears, vars, B!DeviceAppears, B!search
  <1>15. CASE StorageInUse
    BY <1>15 DEF StorageInUse, Writeback, UserWrite, bootVars
  <1>16. CASE Restart
    BY <1>16 DEF Restart, Stopped, PowerCut, Shutdown, LoseVolatile, vars
  <1>17. CASE UNCHANGED deviceVars
    BY <1>17 DEF deviceVars, vars, bootVars
  <1> QED
    BY <1>1, <1>2, <1>3, <1>4, <1>5, <1>6, <1>7, <1>8, <1>9, <1>10, <1>11, <1>12, <1>13,
       <1>14, <1>15, <1>16, <1>17 DEF DeviceNext, main

\* The order of verification and TPM block, for every configuration and every failure.
THEOREM DeviceInvariant == DeviceSpec => []DeviceInv
  BY DeviceInitInv, DeviceStep, PTL DEF DeviceSpec

\* A step of the device is one of the secure storage, or leaves it as it is.
LEMMA StorageStep == DeviceInv /\ [DeviceNext]_deviceVars => [Next]_vars
  <1> SUFFICES ASSUME DeviceInv, [DeviceNext]_deviceVars PROVE [Next]_vars
    OBVIOUS
  <1>1. CASE FreeInitramfs
    BY <1>1 DEF DeviceInv, FreeInitramfs, B!cominitNftwRemove, B!Removed, vars
  <1>2. CASE Verified BY <1>2 DEF Verified, Next
  <1>3. CASE InTpmBlock BY <1>3 DEF InTpmBlock, TpmStep, Next, cominitStep
  <1>4. CASE RootfsMounted \/ RootfsFails
    BY <1>4 DEF RootfsMounted, RootfsFails, Next, cominitStep
  <1>5. CASE MountSecureStorage BY <1>5 DEF MountSecureStorage, Next, cominitStep
  <1>6. CASE StartInit \/ SwitchFails BY <1>6 DEF StartInit, SwitchFails, Next, cominitStep
  <1>7. CASE StorageInUse BY <1>7 DEF StorageInUse, Next
  <1>8. CASE Restart BY <1>8 DEF Restart, Stopped, Next
  <1>9. CASE BootStep \/ NotVerified \/ LeaveTpmBlock \/ SetupDmDevice \/ SwitchRoot \/ DeviceAppears
    BY <1>9 DEF BootStep, NotVerified, LeaveTpmBlock, SetupDmDevice, SwitchRoot, DeviceAppears
  <1>10. CASE UNCHANGED deviceVars BY <1>10 DEF deviceVars
  <1> QED
    BY <1>1, <1>2, <1>3, <1>4, <1>5, <1>6, <1>7, <1>8, <1>9, <1>10 DEF DeviceNext, main

\* The device implements SecureStorage, so that all that is proved of SecureStorage holds in
\* the boots of Boot, with a rootfs that appears late, is refused or fails to start.
THEOREM StorageKept == DeviceSpec => KeepsSecureStorage
  <1>1. DeviceInit => Init
    BY DEF DeviceInit
  <1> QED
    BY <1>1, DeviceInvariant, StorageStep, PTL DEF DeviceSpec, KeepsSecureStorage, Spec

\* Nothing of the secure storage is touched before the rootfs has been verified.
THEOREM VerifiedFirst == DeviceSpec => TpmOnlyAfterVerification
  <1>1. DeviceInv /\ [DeviceNext]_deviceVars =>
          [pc # "off" /\ (handle' # handle \/ blob' # blob \/ crypt' # crypt \/ pcrs' # pcrs
                            \/ keyring' \notin {keyring, NoPass}) =>
            part.sig = "valid" /\ meta = part.meta /\ "crypt" \notin meta.crypt]_deviceVars
    BY DEF DeviceInv
  <1> QED
    BY <1>1, DeviceInvariant, PTL DEF DeviceSpec, TpmOnlyAfterVerification

\* What the rootfs has stored survives all boots of the device.
THEOREM DeviceKeepsData == DeviceSpec => DataSurvivesBoots
  <1>1. SetupInv /\ [Next]_vars => [data = "stored" => data' = "stored"]_deviceVars
    BY DataStep
  <1>2. Spec => []SetupInv
    BY SetupInvariant
  <1> QED
    BY <1>1, <1>2, StorageKept, PTL DEF KeepsSecureStorage, Spec, DataSurvivesBoots

-----------------------------------------------------------------------------
(* The boots of a device *)

\* Boot and the module of its proofs are instantiated alike.
LEMMA SameBoot ==
    /\ B!Init <=> P!Init
    /\ B!Next <=> P!Next
    /\ B!vars = P!vars
  <1>1. B!Init <=> P!Init
    BY DEF B!Init, P!Init, B!Partition, P!Partition, B!Nodes, P!Nodes, B!Meta, P!Meta,
           B!CryptOpts, P!CryptOpts
  <1>2. B!vars = P!vars
    BY DEF B!vars, P!vars
  <1>3. B!Next <=> P!Next
    BY ZenonT(30) DEF B!Next, P!Next, B!main, P!main, B!Gone, P!Gone, B!Final, P!Final, B!vars, P!vars,
           B!search, P!search, B!selinux, P!selinux,
           B!cominitSetupSysfiles, P!cominitSetupSysfiles,
           B!cominitDiscoverRootfs, P!cominitDiscoverRootfs, B!Discovered, P!Discovered,
           B!MayRetry, P!MayRetry, B!CountFailure, P!CountFailure,
           B!cominitMicroSleep, P!cominitMicroSleep, B!DeviceAppears, P!DeviceAppears,
           B!cominitLoadVerifyMetadata, P!cominitLoadVerifyMetadata,
           B!cominitCryptoVerifySignature, P!cominitCryptoVerifySignature,
           B!cominitParseMetadata, P!cominitParseMetadata, B!Supported, P!Supported,
           B!TpmBlock, P!TpmBlock, B!Refused, P!Refused, B!DmPath, P!DmPath,
           B!DmStates, P!DmStates, B!cominitSetupDmDevice, P!cominitSetupDmDevice,
           B!cominitSetupRootfs, P!cominitSetupRootfs,
           B!cominitTpmMountSecureStorage, P!cominitTpmMountSecureStorage,
           B!cominitSetupSysSelinuxfiles, P!cominitSetupSysSelinuxfiles,
           B!cominitLoadSelinuxPolicy, P!cominitLoadSelinuxPolicy, B!AfterPolicy, P!AfterPolicy,
           B!cominitSetSelinuxMode, P!cominitSetSelinuxMode,
           B!cominitCleanupSysfiles, P!cominitCleanupSysfiles, B!Removed, P!Removed,
           B!cominitNftwRemove, P!cominitNftwRemove, B!RootAfterFailure, P!RootAfterFailure,
           B!cominitSwitchIntoRootfs, P!cominitSwitchIntoRootfs,
           B!ExecInit, P!ExecInit, B!ExecShell, P!ExecShell
  <1> QED
    BY <1>1, <1>2, <1>3

\* The constants of a device are constants of Boot.
LEMMA BootConstants == P!BootAssumption
  BY DeviceAssumption DEF P!BootAssumption, B!Options, P!Options, B!Meta, P!Meta,
     B!CryptOpts, P!CryptOpts

\* A step of the device is a step of the boot, the start of another one, or leaves the boot
\* where it is.
LEMMA BootStepOrRestart ==
    DeviceInv /\ DeviceInv' /\ SetupInv /\ [DeviceNext]_deviceVars => [B!Next \/ B!Init']_(B!vars)
  <1> SUFFICES ASSUME DeviceInv, DeviceInv', SetupInv, [DeviceNext]_deviceVars
               PROVE  B!Next \/ B!Init' \/ UNCHANGED B!vars
    OBVIOUS
  <1>1. CASE BootStep
    BY <1>1 DEF BootStep, B!Next, B!main
  <1>2. CASE Verified \/ NotVerified
    BY <1>2 DEF Verified, NotVerified, B!Next, B!main
  <1>3. CASE InTpmBlock
    <2>1. CASE B!TpmBlock
      BY <2>1 DEF B!Next, B!main
    <2>2. CASE UNCHANGED bootVars
      <3>1. opened = "closed" /\ opened' = "closed"
        BY <1>3, <2>2 DEF InTpmBlock, opened, bootVars
      <3> QED
        BY <2>2, <3>1 DEF B!vars, bootVars
    <2> QED
      BY <1>3, <2>1, <2>2 DEF InTpmBlock
  <1>4. CASE LeaveTpmBlock
    BY <1>4 DEF LeaveTpmBlock, B!Next, B!main
  <1>5. CASE SetupDmDevice \/ RootfsMounted \/ RootfsFails
    BY <1>5 DEF SetupDmDevice, RootfsMounted, RootfsFails, B!Next, B!main
  <1>6. CASE MountSecureStorage \/ FreeInitramfs \/ SwitchRoot
    BY <1>6 DEF MountSecureStorage, FreeInitramfs, SwitchRoot, B!Next, B!main
  <1>7. CASE StartInit \/ SwitchFails
    BY <1>7 DEF StartInit, SwitchFails, B!Next, B!main
  <1>8. CASE DeviceAppears
    BY <1>8 DEF DeviceAppears, B!Next
  <1>9. CASE StorageInUse
    <2>1. UNCHANGED <<crypt, active>>
      BY <1>9 DEF StorageInUse, Writeback, UserWrite, volume
    <2> QED
      BY <1>9, <2>1 DEF StorageInUse, opened, Mountable, bootVars, B!vars
  <1>10. CASE Restart
    <2>1. active' = {}
      <3>1. CASE PowerCut \/ Shutdown
        BY <3>1 DEF PowerCut, Shutdown, LoseVolatile
      <3>2. CASE pc = "off" /\ UNCHANGED vars
        BY <3>2 DEF SetupInv, MediumInv, vars
      <3> QED
        BY <1>10, <3>1, <3>2 DEF Restart, Stopped
    <2>2. opened' = "closed"
      BY <2>1 DEF opened, Mountable
    <2>3. faults' \in FaultSets /\ args' \in Args /\ part' \in B!Partition
      BY DeviceAssumption DEF DeviceInv
    <2>4. node' \in B!Nodes
      BY <1>10, DeviceAssumption DEF Restart
    <2> QED
      BY <1>10, <2>2, <2>3, <2>4 DEF Restart, B!Init
  <1>11. CASE UNCHANGED deviceVars
    BY <1>11 DEF deviceVars, bootVars, B!vars, opened, Mountable, vars
  <1> QED
    BY <1>1, <1>2, <1>3, <1>4, <1>5, <1>6, <1>7, <1>8, <1>9, <1>10, <1>11, ZenonT(30)
       DEF DeviceNext, main

\* All that the proofs about the secure storage rest on holds in the boots of the device.
LEMMA DeviceSetup == DeviceSpec => []SetupInv
  BY StorageKept, SetupInvariant, PTL DEF KeepsSecureStorage

\* The device implements Boot, one boot after the other: what the TPM block does to the storage
\* is one step of main(), and no failure in it shows elsewhere.
THEOREM BootKept == DeviceSpec => KeepsBoot
  <1>1. DeviceInit => B!Init
    <2> SUFFICES ASSUME DeviceInit PROVE B!Init
      OBVIOUS
    <2>1. opened = "closed"
      BY DEF DeviceInit, Init, opened, Mountable
    <2>2. faults \in FaultSets /\ part \in B!Partition /\ node \in B!Nodes
      BY DeviceAssumption DEF DeviceInit, Started
    <2> QED
      BY <2>1, <2>2 DEF DeviceInit, Started, B!Init
  <1> QED
    BY <1>1, DeviceInvariant, DeviceSetup, BootStepOrRestart, PTL DEF DeviceSpec, KeepsBoot

\* What main() establishes in a boot holds in every boot of a device.
LEMMA BootsKeepInv == KeepsBoot => [](P!BootInv /\ P!RetryInv)
  <1>1. P!Init => P!BootInv /\ P!RetryInv
    BY P!InitInv, BootConstants
  <1>2. P!BootInv /\ [P!Next]_(P!vars) => P!BootInv'
    BY P!BootStep, BootConstants
  <1>3. P!BootInv /\ P!RetryInv /\ [P!Next]_(P!vars) => P!RetryInv'
    BY P!RetryStep, BootConstants DEF P!BootInv
  <1>4. [B!Next \/ B!Init']_(B!vars) => [P!Next]_(P!vars) \/ P!Init'
    <2>1. B!Init' <=> P!Init'
      BY SameBoot, PTL
    <2>2. (B!vars)' = (P!vars)'
      BY DEF B!vars, P!vars
    <2> QED
      BY <2>1, <2>2, SameBoot
  <1>5. KeepsBoot => P!Init /\ [][B!Next \/ B!Init']_(B!vars)
    BY SameBoot DEF KeepsBoot
  <1> QED
    BY <1>1, <1>2, <1>3, <1>4, <1>5, PTL

\* The rootfs has the storage only if it is the signed rootfs, and only with the PCR values of
\* the sealing: for every configuration, whatever fails and wherever the power is cut.
THEOREM StorageForSigned == DeviceSpec => []StorageOnlyForSignedRootfs
  <1>1. DeviceInv /\ SetupInv /\ P!BootInv => StorageOnlyForSignedRootfs
    <2> SUFFICES ASSUME DeviceInv, SetupInv, P!BootInv, pc = "running", "storage" \in mounts
                 PROVE  /\ root = "rootfs" /\ B!RunsSignedRootfs /\ point = "init"
                        /\ blob \in SealedBlob /\ blob.policy = Policy /\ blob.pass = cryptPass
      BY DEF StorageOnlyForSignedRootfs
    <2>1. point = "init" /\ "storage" \in active
      BY DEF DeviceInv
    <2>2. root = "rootfs" /\ B!RunsSignedRootfs
      BY <2>1 DEF P!BootInv, B!RunsSignedRootfs, P!PathInv, P!TypeOK, P!Partition, P!Meta,
                  P!CryptOpts, B!Final
    <2>3. blob \in SealedBlob /\ blob.policy = Policy /\ blob.pass = cryptPass
      BY <2>1 DEF SetupInv, KeyInv, Openable
    <2> QED
      BY <2>1, <2>2, <2>3
  <1> QED
    BY <1>1, DeviceInvariant, DeviceSetup, BootKept, BootsKeepInv, PTL

\* What is proved of one boot holds of every boot of a device: a program of the rootfs runs from
\* the rootfs that is signed, only a failed switch of the root or a killed TPM block leaves no
\* shell, and cominit gives up looking for the rootfs only after all intervals.
THEOREM EveryBoot ==
    DeviceSpec => [](B!RunsSignedRootfs /\ B!PanicOnlyWithoutShell /\ B!GivesUpLate)
  <1>1. P!BootInv => B!RunsSignedRootfs
    BY DEF P!BootInv, B!RunsSignedRootfs, P!PathInv, P!TypeOK, P!Partition, P!Meta, P!CryptOpts,
           B!Final
  <1>2. P!BootInv => B!PanicOnlyWithoutShell
    BY DEF P!BootInv, B!PanicOnlyWithoutShell, P!TypeOK
  <1>3. P!RetryInv => B!GivesUpLate
    BY DEF P!RetryInv, B!GivesUpLate, P!Final, B!Final
  <1> QED
    BY <1>1, <1>2, <1>3, BootKept, BootsKeepInv, PTL
==============================================================================
