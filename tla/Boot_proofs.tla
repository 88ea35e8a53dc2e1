------------------------------ MODULE Boot_proofs -----------------------------
(* What main() guarantees, for any number of tries, any arguments and any set of failures. *)
EXTENDS Boot, TLAPS

\* main() starts with nothing established.
LEMMA InitInv == Init => BootInv /\ RetryInv
  BY BootAssumption, SMTT(20) DEF Init, BootInv, RetryInv, TypeOK, Points, Final, Nodes, DmStates, AfterVerify,
     AfterDm, AfterMount, BeforeFree

\* Each step of main() keeps its variables in their types.
LEMMA TypeStep == BootInv /\ [Next]_vars => TypeOK'
  <1> SUFFICES ASSUME TypeOK, [Next]_vars, pc \in AfterVerify => meta = part.meta PROVE TypeOK'
    BY DEF BootInv
  <1> USE BootAssumption DEF TypeOK, Partition, Points, Final, Nodes, DmStates, search, selinux
  <1>1. CASE cominitSetupSysfiles
    BY <1>1 DEF cominitSetupSysfiles
  <1>2. CASE cominitDiscoverRootfs
    BY <1>2 DEF cominitDiscoverRootfs, Discovered, MayRetry, CountFailure
  <1>3. CASE cominitMicroSleep
    BY <1>3 DEF cominitMicroSleep
  <1>4. CASE DeviceAppears
    BY <1>4 DEF DeviceAppears
  <1>5. CASE cominitLoadVerifyMetadata
    BY <1>5 DEF cominitLoadVerifyMetadata, cominitCryptoVerifySignature, Supported
  <1>6. CASE TpmBlock
    BY <1>6 DEF TpmBlock
  <1>7. CASE cominitSetupDmDevice
    BY <1>7 DEF cominitSetupDmDevice, Refused, DmPath
  <1>8. CASE cominitSetupRootfs
    BY <1>8 DEF cominitSetupRootfs, AfterVerify, Meta
  <1>9. CASE cominitTpmMountSecureStorage
    <2>1. mounts' \subseteq {"/dev", "/proc", "selinuxfs", "storage"}
      BY <1>9, ZenonT(30) DEF cominitTpmMountSecureStorage
    <2> QED
      BY <1>9, <2>1 DEF cominitTpmMountSecureStorage
  <1>10. CASE cominitSetupSysSelinuxfiles
    <2>1. mounts' \subseteq {"/dev", "/proc", "selinuxfs", "storage"}
      BY <1>10, ZenonT(30) DEF cominitSetupSysSelinuxfiles
    <2> QED
      BY <1>10, <2>1 DEF cominitSetupSysSelinuxfiles
  <1>11. CASE cominitLoadSelinuxPolicy("initrd")
    <2>1. policies' \subseteq {"initrd", "rootfs"}
      BY <1>11, ZenonT(30) DEF cominitLoadSelinuxPolicy
    <2> QED
      BY <1>11, <2>1 DEF cominitLoadSelinuxPolicy, AfterPolicy
  <1>12. CASE cominitLoadSelinuxPolicy("rootfs")
    <2>1. policies' \subseteq {"initrd", "rootfs"}
      BY <1>12, ZenonT(30) DEF cominitLoadSelinuxPolicy
    <2> QED
      BY <1>12, <2>1 DEF cominitLoadSelinuxPolicy, AfterPolicy
  <1>13. CASE cominitSetSelinuxMode
    BY <1>13 DEF cominitSetSelinuxMode
  <1>14. CASE cominitCleanupSysfiles
    BY <1>14 DEF cominitCleanupSysfiles
  <1>15. CASE cominitNftwRemove
    <2>1. files' \subseteq {"initramfs", "rootfs", "storage"}
      BY <1>15, ZenonT(30) DEF cominitNftwRemove
    <2> QED
      BY <1>15, <2>1 DEF cominitNftwRemove
  <1>16. CASE cominitSwitchIntoRootfs
    BY <1>16 DEF cominitSwitchIntoRootfs, RootAfterFailure
  <1>17. CASE ExecInit
    BY <1>17 DEF ExecInit
  <1>18. CASE ExecShell
    BY <1>18 DEF ExecShell
  <1>19. CASE Gone
    BY <1>19 DEF Gone, vars
  <1>20. CASE UNCHANGED vars
    BY <1>20 DEF vars
  <1> QED
    BY <1>1, <1>2, <1>3, <1>4, <1>5, <1>6, <1>7, <1>8, <1>9, <1>10, <1>11,
       <1>12, <1>13, <1>14, <1>15, <1>16, <1>17, <1>18, <1>19, <1>20 DEF Next, main

\* Each step establishes what the next ones rely on.
LEMMA BootStep == BootInv /\ [Next]_vars => BootInv'
  <1> SUFFICES ASSUME BootInv, [Next]_vars PROVE BootInv'
    OBVIOUS
  <1>0. TypeOK'
    BY TypeStep
  <1> USE <1>0 DEF BootInv, TypeOK, PathInv, Partition, Meta, CryptOpts, Points, Final,
      Nodes, DmStates, AfterVerify, AfterDm, AfterMount, BeforeFree, search, selinux
  <1>1. CASE cominitSetupSysfiles
    BY <1>1 DEF cominitSetupSysfiles
  <1>2. CASE cominitDiscoverRootfs
    BY <1>2 DEF cominitDiscoverRootfs, Discovered, MayRetry, CountFailure
  <1>3. CASE cominitMicroSleep
    BY <1>3 DEF cominitMicroSleep
  <1>4. CASE DeviceAppears
    BY <1>4, SMTT(20) DEF DeviceAppears
  <1>5. CASE cominitLoadVerifyMetadata
    BY <1>5 DEF cominitLoadVerifyMetadata, cominitCryptoVerifySignature, Supported
  <1>6. CASE TpmBlock
    BY <1>6 DEF TpmBlock
  <1>7. CASE cominitSetupDmDevice
    BY <1>7 DEF cominitSetupDmDevice, Refused, DmPath
  <1>8. CASE cominitSetupRootfs
    BY <1>8 DEF cominitSetupRootfs
  <1>9. CASE cominitTpmMountSecureStorage
    BY <1>9 DEF cominitTpmMountSecureStorage
  <1>10. CASE cominitSetupSysSelinuxfiles
    BY <1>10 DEF cominitSetupSysSelinuxfiles
  <1>11. CASE cominitLoadSelinuxPolicy("initrd")
    BY <1>11 DEF cominitLoadSelinuxPolicy, AfterPolicy
  <1>12. CASE cominitLoadSelinuxPolicy("rootfs")
    BY <1>12 DEF cominitLoadSelinuxPolicy, AfterPolicy
  <1>13. CASE cominitSetSelinuxMode
    BY <1>13 DEF cominitSetSelinuxMode
  <1>14. CASE cominitCleanupSysfiles
    BY <1>14 DEF cominitCleanupSysfiles
  <1>15. CASE cominitNftwRemove
    BY <1>15 DEF cominitNftwRemove, Removed
  <1>16. CASE cominitSwitchIntoRootfs
    BY <1>16 DEF cominitSwitchIntoRootfs, RootAfterFailure
  <1>17. CASE ExecInit
    BY <1>17 DEF ExecInit
  <1>18. CASE ExecShell
    BY <1>18, SMTT(20) DEF ExecShell
  <1>19. CASE Gone
    BY <1>19, SMTT(20) DEF Gone, vars
  <1>20. CASE UNCHANGED vars
    BY <1>20, SMTT(20) DEF vars
  <1> QED
    BY <1>1, <1>2, <1>3, <1>4, <1>5, <1>6, <1>7, <1>8, <1>9, <1>10, <1>11, ZenonT(30),
       <1>12, <1>13, <1>14, <1>15, <1>16, <1>17, <1>18, <1>19, <1>20 DEF Next, main

\* The retry loop counts its failures and its sleeps alike.
LEMMA RetryStep == TypeOK /\ RetryInv /\ [Next]_vars => RetryInv'
  <1> SUFFICES ASSUME TypeOK, RetryInv, [Next]_vars PROVE RetryInv'
    OBVIOUS
  <1> USE BootAssumption DEF RetryInv, TypeOK, Points, Final, Nodes, DmStates, search, selinux
  <1>1. CASE cominitSetupSysfiles
    BY <1>1 DEF cominitSetupSysfiles
  <1>2. CASE cominitDiscoverRootfs
    BY <1>2 DEF cominitDiscoverRootfs, Discovered, MayRetry, CountFailure
  <1>3. CASE cominitMicroSleep
    BY <1>3 DEF cominitMicroSleep
  <1>4. CASE DeviceAppears
    BY <1>4 DEF DeviceAppears
  <1>5. CASE cominitLoadVerifyMetadata
    BY <1>5 DEF cominitLoadVerifyMetadata, cominitCryptoVerifySignature, Supported
  <1>6. CASE TpmBlock
    BY <1>6 DEF TpmBlock
  <1>7. CASE cominitSetupDmDevice
    BY <1>7 DEF cominitSetupDmDevice, Refused, DmPath
  <1>8. CASE cominitSetupRootfs
    BY <1>8 DEF cominitSetupRootfs
  <1>9. CASE cominitTpmMountSecureStorage
    BY <1>9 DEF cominitTpmMountSecureStorage
  <1>10. CASE cominitSetupSysSelinuxfiles
    BY <1>10 DEF cominitSetupSysSelinuxfiles
  <1>11. CASE cominitLoadSelinuxPolicy("initrd")
    BY <1>11 DEF cominitLoadSelinuxPolicy, AfterPolicy
  <1>12. CASE cominitLoadSelinuxPolicy("rootfs")
    BY <1>12 DEF cominitLoadSelinuxPolicy, AfterPolicy
  <1>13. CASE cominitSetSelinuxMode
    BY <1>13 DEF cominitSetSelinuxMode
  <1>14. CASE cominitCleanupSysfiles
    BY <1>14 DEF cominitCleanupSysfiles
  <1>15. CASE cominitNftwRemove
    BY <1>15 DEF cominitNftwRemove, Removed
  <1>16. CASE cominitSwitchIntoRootfs
    BY <1>16 DEF cominitSwitchIntoRootfs, RootAfterFailure
  <1>17. CASE ExecInit
    BY <1>17 DEF ExecInit
  <1>18. CASE ExecShell
    BY <1>18 DEF ExecShell
  <1>19. CASE Gone
    BY <1>19 DEF Gone, vars
  <1>20. CASE UNCHANGED vars
    BY <1>20, SMTT(20) DEF vars
  <1> QED
    BY <1>1, <1>2, <1>3, <1>4, <1>5, <1>6, <1>7, <1>8, <1>9, <1>10, <1>11, ZenonT(30),
       <1>12, <1>13, <1>14, <1>15, <1>16, <1>17, <1>18, <1>19, <1>20 DEF Next, main

\* Without failures, each step of the setup does what the arguments ask for.
LEMMA SetUpStep == TypeOK /\ SetUpInv /\ [Next]_vars => SetUpInv'
  <1> SUFFICES ASSUME TypeOK, SetUpInv, [Next]_vars, faults = {} PROVE SetUpInv'
    BY ZenonT(30) DEF SetUpInv, Next, main, search, vars, cominitSetupSysfiles, cominitDiscoverRootfs, cominitMicroSleep, cominitLoadVerifyMetadata, TpmBlock, cominitSetupDmDevice,
       cominitSetupRootfs, cominitTpmMountSecureStorage, cominitSetupSysSelinuxfiles, cominitLoadSelinuxPolicy,
       cominitSetSelinuxMode, cominitCleanupSysfiles, cominitNftwRemove, cominitSwitchIntoRootfs, ExecInit, ExecShell, DeviceAppears, Gone
  <1> USE DEF SetUpInv, TypeOK, Points, Final, Nodes, DmStates, search, selinux, AfterTpm,
      AfterPolicies, AskedPolicies, AskedMode, AfterMount, AfterDm, AfterVerify
  <1>1. CASE cominitSetupSysfiles
    BY <1>1 DEF cominitSetupSysfiles
  <1>2. CASE cominitDiscoverRootfs
    BY <1>2 DEF cominitDiscoverRootfs, Discovered, MayRetry, CountFailure
  <1>3. CASE cominitMicroSleep
    BY <1>3 DEF cominitMicroSleep
  <1>4. CASE DeviceAppears
    BY <1>4 DEF DeviceAppears
  <1>5. CASE cominitLoadVerifyMetadata
    BY <1>5 DEF cominitLoadVerifyMetadata, cominitCryptoVerifySignature, Supported
  <1>6. CASE TpmBlock
    BY <1>6 DEF TpmBlock
  <1>7. CASE cominitSetupDmDevice
    BY <1>7 DEF cominitSetupDmDevice, Refused, DmPath
  <1>8. CASE cominitSetupRootfs
    BY <1>8 DEF cominitSetupRootfs
  <1>9. CASE cominitTpmMountSecureStorage
    <2>1. pc = "storage" /\ pc' = "selinux"
      BY <1>9 DEF cominitTpmMountSecureStorage
    <2>2. "storage" \in mounts' <=> "storage" \in args
      BY <1>9 DEF cominitTpmMountSecureStorage
    <2>3. UNCHANGED <<faults, args, storage, policies, enforce>>
      BY <1>9 DEF cominitTpmMountSecureStorage
    <2> QED
      BY <2>1, <2>2, <2>3
  <1>10. CASE cominitSetupSysSelinuxfiles
    BY <1>10 DEF cominitSetupSysSelinuxfiles
  <1>11. CASE cominitLoadSelinuxPolicy("initrd")
    BY <1>11, ZenonT(30) DEF cominitLoadSelinuxPolicy, AfterPolicy
  <1>12. CASE cominitLoadSelinuxPolicy("rootfs")
    BY <1>12 DEF cominitLoadSelinuxPolicy, AfterPolicy
  <1>13. CASE cominitSetSelinuxMode
    BY <1>13 DEF cominitSetSelinuxMode
  <1>14. CASE cominitCleanupSysfiles
    BY <1>14 DEF cominitCleanupSysfiles
  <1>15. CASE cominitNftwRemove
    BY <1>15 DEF cominitNftwRemove, Removed
  <1>16. CASE cominitSwitchIntoRootfs
    BY <1>16 DEF cominitSwitchIntoRootfs, RootAfterFailure
  <1>17. CASE ExecInit
    BY <1>17 DEF ExecInit
  <1>18. CASE ExecShell
    BY <1>18 DEF ExecShell
  <1>19. CASE Gone
    BY <1>19 DEF Gone, vars
  <1>20. CASE UNCHANGED vars
    BY <1>20 DEF vars
  <1> QED
    BY <1>1, <1>2, <1>3, <1>4, <1>5, <1>6, <1>7, <1>8, <1>9, <1>10, <1>11, ZenonT(30),
       <1>12, <1>13, <1>14, <1>15, <1>16, <1>17, <1>18, <1>19, <1>20 DEF Next, main

-----------------------------------------------------------------------------
\* Both invariants hold in every boot.
THEOREM BootInvariant == Spec => [](BootInv /\ RetryInv)
  <1>1. BootInv => TypeOK
    BY DEF BootInv
  <1> QED
    BY <1>1, InitInv, BootStep, RetryStep, PTL DEF Spec

\* The variables of main() have their types in every boot.
THEOREM TypeCorrect == Spec => []TypeOK
  <1>1. BootInv => TypeOK
    BY DEF BootInv
  <1> QED
    BY <1>1, BootInvariant, PTL

\* Whatever fails, a program of the rootfs runs only from a rootfs mounted as its signed
\* metadata asks.
THEOREM SignedRootfs == Spec => []RunsSignedRootfs
  <1>1. BootInv => RunsSignedRootfs
    BY DEF BootInv, RunsSignedRootfs, PathInv, TypeOK, Partition, Meta, CryptOpts, Final
  <1> QED
    BY <1>1, BootInvariant, PTL

\* Nothing but the initramfs is ever deleted.
THEOREM InitramfsFreed == Spec => []OnlyInitramfsFreed
  <1>1. BootInv => OnlyInitramfsFreed
    BY DEF BootInv, OnlyInitramfsFreed
  <1> QED
    BY <1>1, BootInvariant, PTL

\* Only a failed switch of the root, after the initramfs is gone, leaves no shell to run.
THEOREM PanicAfterFreeing == Spec => []PanicOnlyWithoutShell
  <1>1. BootInv => PanicOnlyWithoutShell
    BY DEF BootInv, PanicOnlyWithoutShell, TypeOK
  <1> QED
    BY <1>1, BootInvariant, PTL

\* For every number of tries, all intervals have been slept when cominit gives up.
THEOREM AllIntervalsSlept == Spec => []GivesUpLate
  <1>1. RetryInv => GivesUpLate
    BY DEF RetryInv, GivesUpLate, Final
  <1> QED
    BY <1>1, BootInvariant, PTL

\* Without failures the rootfs init starts with what the arguments ask for.
THEOREM AskedIsSetUp == Spec => []SetUpAsAsked
  <1>1. Init => SetUpInv
    BY DEF Init, SetUpInv, Points, Final, AfterTpm, AfterPolicies, AfterMount, AfterDm, AfterVerify
  <1>2. SetUpInv => SetUpAsAsked
    BY DEF SetUpInv, SetUpAsAsked, AfterTpm, AfterPolicies
  <1> QED
    BY <1>1, <1>2, SetUpStep, TypeCorrect, PTL DEF Spec

\* How far each point of main() is from its end.
LEMMA AheadValues ==
    /\ \A p \in Points : Ahead[p] \in 0 .. 16
    /\ Ahead["init"] = 0 /\ Ahead["shell"] = 0 /\ Ahead["panic"] = 0 /\ Ahead["rescue"] = 1
    /\ Ahead["exec"] = 2 /\ Ahead["switch"] = 3 /\ Ahead["free"] = 4 /\ Ahead["cleanup"] = 5
    /\ Ahead["mode"] = 6 /\ Ahead["rootfs"] = 7 /\ Ahead["initrd"] = 8 /\ Ahead["selinux"] = 9
    /\ Ahead["storage"] = 10 /\ Ahead["mountroot"] = 11 /\ Ahead["dm"] = 12 /\ Ahead["tpm"] = 13
    /\ Ahead["metadata"] = 14 /\ Ahead["discover"] = 15
    /\ Ahead["sleep"] = 16 /\ Ahead["sysfiles"] = 16
  BY SMTT(30) DEF Ahead, Points, Final

\* Each step of main() leaves fewer steps to come, and a device that appears takes none away.
LEMMA StepsCount ==
    BootInv /\ RetryInv /\ [Next]_vars =>
        [IF main THEN StepsLeft' < StepsLeft ELSE StepsLeft' = StepsLeft]_vars
  <1> SUFFICES ASSUME failCount \in Nat, failCount <= Tries, pc \in Points, Next
               PROVE  IF main THEN StepsLeft' < StepsLeft ELSE StepsLeft' = StepsLeft
    BY DEF BootInv, RetryInv, TypeOK
  <1> USE AheadValues, BootAssumption DEF StepsLeft, search
  <1>1. ASSUME cominitSetupSysfiles PROVE StepsLeft' < StepsLeft
    BY <1>1 DEF cominitSetupSysfiles
  <1>2. ASSUME cominitDiscoverRootfs PROVE StepsLeft' < StepsLeft
    BY <1>2 DEF cominitDiscoverRootfs, MayRetry, CountFailure
  <1>3. ASSUME cominitMicroSleep PROVE StepsLeft' < StepsLeft
    BY <1>3 DEF cominitMicroSleep
  <1>4. ASSUME cominitLoadVerifyMetadata PROVE StepsLeft' < StepsLeft
    BY <1>4 DEF cominitLoadVerifyMetadata
  <1>5. ASSUME TpmBlock PROVE StepsLeft' < StepsLeft
    BY <1>5 DEF TpmBlock
  <1>6. ASSUME cominitSetupDmDevice PROVE StepsLeft' < StepsLeft
    BY <1>6 DEF cominitSetupDmDevice
  <1>7. ASSUME cominitSetupRootfs PROVE StepsLeft' < StepsLeft
    BY <1>7 DEF cominitSetupRootfs
  <1>8. ASSUME cominitTpmMountSecureStorage PROVE StepsLeft' < StepsLeft
    BY <1>8 DEF cominitTpmMountSecureStorage
  <1>9. ASSUME cominitSetupSysSelinuxfiles PROVE StepsLeft' < StepsLeft
    BY <1>9 DEF cominitSetupSysSelinuxfiles
  <1>10. ASSUME cominitLoadSelinuxPolicy("initrd") PROVE StepsLeft' < StepsLeft
    BY <1>10 DEF cominitLoadSelinuxPolicy, AfterPolicy
  <1>11. ASSUME cominitLoadSelinuxPolicy("rootfs") PROVE StepsLeft' < StepsLeft
    BY <1>11 DEF cominitLoadSelinuxPolicy, AfterPolicy
  <1>12. ASSUME cominitSetSelinuxMode PROVE StepsLeft' < StepsLeft
    BY <1>12 DEF cominitSetSelinuxMode
  <1>13. ASSUME cominitCleanupSysfiles PROVE StepsLeft' < StepsLeft
    BY <1>13 DEF cominitCleanupSysfiles
  <1>14. ASSUME cominitNftwRemove PROVE StepsLeft' < StepsLeft
    BY <1>14 DEF cominitNftwRemove
  <1>15. ASSUME cominitSwitchIntoRootfs PROVE StepsLeft' < StepsLeft
    BY <1>15 DEF cominitSwitchIntoRootfs
  <1>16. ASSUME ExecInit PROVE StepsLeft' < StepsLeft
    BY <1>16 DEF ExecInit
  <1>17. ASSUME ExecShell PROVE StepsLeft' < StepsLeft
    BY <1>17 DEF ExecShell
  <1>18. main => StepsLeft' < StepsLeft
    BY <1>1, <1>2, <1>3, <1>4, <1>5, <1>6, <1>7, <1>8, <1>9, <1>10, <1>11, <1>12, <1>13, <1>14, <1>15, <1>16, <1>17, Zenon DEF main
  <1>19. DeviceAppears \/ Gone => StepsLeft' = StepsLeft
    BY DEF DeviceAppears, Gone, vars
  <1> QED
    BY <1>18, <1>19, Zenon DEF Next

\* Every boot comes to its end after a number of steps that the number of tries bounds,
\* whatever fails and whether or not the rootfs device ever appears.
THEOREM BootIsBounded == Spec => EndsInTime
  <1>1. BootInv /\ RetryInv => StepsLeft \in 0 .. 16 + 2 * Tries
    <2> SUFFICES ASSUME pc \in Points, failCount \in Nat, failCount <= Tries
                 PROVE  StepsLeft \in 0 .. 16 + 2 * Tries
      BY DEF BootInv, RetryInv, TypeOK
    <2>1. Ahead[pc] \in 0 .. 16
      BY AheadValues
    <2> QED
      BY <2>1, BootAssumption DEF StepsLeft
  <1> QED
    BY <1>1, BootInvariant, StepsCount, PTL DEF Spec, EndsInTime
==============================================================================
