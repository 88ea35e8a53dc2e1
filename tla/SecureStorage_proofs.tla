------------------------- MODULE SecureStorage_proofs -------------------------
(* Proofs of the safety properties of SecureStorage, for every configuration. *)
EXTENDS SecureStorage, TLAPS

\* The invariant holds for a device as it ships.
LEMMA InitInv == Init => SetupInv
  BY ConfigAssumption
  DEF Init, SetupInv, TypeOK, MediumInv, HandleInv, VolumeInv, KeyInv, BlobFitsVolume,
      DataRecoverable, Points, FirstBootSteps, FinalPoints, AfterUnmount, BeforeUnseal,
      Absent, Short, NullBlob, Blob, SealedBlob, PcrValue, UnextendedPcr, TpmStates, BlobStates,
      CryptStates

\* Every step keeps the variables in their types.
LEMMA TypeStep == TypeOK /\ [Next]_vars => TypeOK'
  <1> SUFFICES ASSUME TypeOK, [Next]_vars PROVE TypeOK'
    OBVIOUS
  <1> USE ConfigAssumption DEF TypeOK, Points, FirstBootSteps, FinalPoints, TpmStates, volume
  <1>1. CASE cominitInitTpm BY <1>1 DEF cominitInitTpm
  <1>2. CASE cominitTpmExtendPCR
    BY <1>2 DEF cominitTpmExtendPCR, PcrValue, cominitTpmExtendEnabled
  <1>3. CASE cominitTpmSetupBlob
    <2>1. active' \subseteq {"blob", "mapper", "storage"}
      BY <1>3, Zenon DEF cominitTpmSetupBlob
    <2> QED
      BY <1>3, <2>1 DEF cominitTpmSetupBlob, Fail, BlobStates
  <1>4. CASE cominitTpmSeal
     BY <1>4 DEF cominitTpmSeal, Fail, SealFails, TpmStates, SealedBlob, Policy, PcrValue
  <1>5. CASE cominitTpmSavePrimaryHandle
     BY <1>5 DEF cominitTpmSavePrimaryHandle, Fail, EvictAccepted
  <1>6. CASE cominitTpmSaveBlob
     BY <1>6 DEF cominitTpmSaveBlob, Fail, WrittenFile, Blob
  <1>7. CASE cominitTpmUnsealBlob
     BY <1>7 DEF cominitTpmUnsealBlob, Fail, SetupSecureStorageStep, SealedBlob
  <1>8. CASE cominitSecurememoryCreateLuksVolume
     BY <1>8 DEF cominitSecurememoryCreateLuksVolume, Fail, CryptStates
  <1>9. CASE cominitCryptsetupAddToken
     BY <1>9 DEF cominitCryptsetupAddToken, Fail, WithToken, CryptStates
  <1>10. CASE cominitCryptsetupOpenLuksVolume
    <2>1. active' \subseteq {"blob", "mapper", "storage"}
      BY <1>10, Zenon DEF cominitCryptsetupOpenLuksVolume
    <2> QED
      BY <1>10, <2>1 DEF cominitCryptsetupOpenLuksVolume, Fail
  <1>11. CASE cominitTpmFormatSecureStorage
     BY <1>11 DEF cominitTpmFormatSecureStorage, Fail, CryptStates
  <1>12. CASE cominitTpmUnmountBlob
    <2>1. active' \subseteq {"blob", "mapper", "storage"}
      BY <1>12, Zenon DEF cominitTpmUnmountBlob, umount
    <2> QED
      BY <1>12, <2>1 DEF cominitTpmUnmountBlob, umount
  <1>13. CASE cominitSetupRootfs BY <1>13 DEF cominitSetupRootfs
  <1>14. CASE cominitTpmMountSecureStorage
    <2>1. active' \subseteq {"blob", "mapper", "storage"}
      BY <1>14, Zenon DEF cominitTpmMountSecureStorage
    <2> QED
      BY <1>14, <2>1 DEF cominitTpmMountSecureStorage
  <1>15. CASE PowerOn BY <1>15 DEF PowerOn, PcrValue, UnextendedPcr
  <1>16. CASE Writeback BY <1>16 DEF Writeback, Between, Blob
  <1>17. CASE UserWrite BY <1>17 DEF UserWrite
  <1>18. CASE PowerCut BY <1>18 DEF PowerCut, LoseVolatile, Between, Blob, BlobStates, CryptStates
  <1>19. CASE Shutdown BY <1>19 DEF Shutdown, LoseVolatile, BlobStates
  <1>20. CASE SwitchIntoRootfs
    BY <1>20 DEF SwitchIntoRootfs
  <1>21. CASE UNCHANGED vars BY <1>21, SMTT(20) DEF vars
  <1> QED
    BY <1>1, <1>2, <1>3, <1>4, <1>5, <1>6, <1>7, <1>8, <1>9, <1>10, <1>11, <1>12, <1>13,
       <1>14, <1>15, <1>16, <1>17, <1>18, <1>19, <1>20, <1>21, Zenon
    DEF Next, cominitStep

\* A device keeps its environment, and a handle that somebody else has taken stays taken.
LEMMA EnvStep ==
  [Next]_vars => /\ Faults' = Faults /\ CutPoints' = CutPoints
                 /\ handle = "foreign" => handle' = "foreign"
  BY DEF Next, cominitStep, vars, Faults, CutPoints, EvictAccepted, SealFails, Fail,
     cominitInitTpm, cominitTpmExtendPCR, cominitTpmSetupBlob,
     cominitTpmSeal, cominitTpmSavePrimaryHandle, cominitTpmSaveBlob, cominitTpmUnsealBlob,
     cominitSecurememoryCreateLuksVolume, cominitCryptsetupAddToken,
     cominitCryptsetupOpenLuksVolume, cominitTpmFormatSecureStorage, cominitTpmUnmountBlob,
     cominitSetupRootfs, cominitTpmMountSecureStorage, SwitchIntoRootfs, PowerOn, Writeback,
     UserWrite, PowerCut, Shutdown, LoseVolatile

\* Every step preserves the inductive invariant.
LEMMA SetupStep == SetupInv /\ [Next]_vars => SetupInv'
  <1> SUFFICES ASSUME SetupInv, [Next]_vars PROVE SetupInv'
    OBVIOUS
  <1>0. TypeOK' /\ Faults' = Faults
    BY TypeStep, EnvStep DEF SetupInv
  <1> USE <1>0 DEF SetupInv, MediumInv, HandleInv, VolumeInv, KeyInv,
      BlobFitsVolume, DataRecoverable, Ready, Openable, isFirstBoot, FirstBootSteps,
      FinalPoints, AfterUnmount, BeforeUnseal, volume,
      Absent, Short, NullBlob, SealedBlob, Policy
  <1>1. CASE cominitInitTpm
    BY <1>1 DEF cominitInitTpm
  <1>2. CASE cominitTpmExtendPCR
    BY <1>2 DEF cominitTpmExtendPCR
  <1>3. CASE cominitTpmSetupBlob
    BY <1>3 DEF cominitTpmSetupBlob, Fail
  <1>4. CASE cominitTpmSeal
    BY <1>4 DEF cominitTpmSeal, Fail, SealFails
  <1>5. CASE cominitTpmSavePrimaryHandle
    BY <1>5 DEF cominitTpmSavePrimaryHandle, Fail, EvictAccepted
  <1>6. CASE cominitTpmSaveBlob
    BY <1>6 DEF cominitTpmSaveBlob, Fail, WrittenFile
  <1>7. CASE cominitTpmUnsealBlob
    BY <1>7, ConfigAssumption DEF cominitTpmUnsealBlob, Fail, SetupSecureStorageStep, PolicyHolds
  <1>8. CASE cominitSecurememoryCreateLuksVolume
    BY <1>8 DEF cominitSecurememoryCreateLuksVolume, Fail
  <1>9. CASE cominitCryptsetupAddToken
    BY <1>9 DEF cominitCryptsetupAddToken, Fail, WithToken
  <1>10. CASE cominitCryptsetupOpenLuksVolume
    BY <1>10 DEF cominitCryptsetupOpenLuksVolume, Fail
  <1>11. CASE cominitTpmFormatSecureStorage
    BY <1>11 DEF cominitTpmFormatSecureStorage, Fail
  <1>12. CASE cominitTpmUnmountBlob
    BY <1>12 DEF cominitTpmUnmountBlob, umount
  <1>13. CASE cominitSetupRootfs
    BY <1>13 DEF cominitSetupRootfs
  <1>14. CASE cominitTpmMountSecureStorage
    BY <1>14 DEF cominitTpmMountSecureStorage, Mountable
  <1>15. CASE PowerOn
    BY <1>15 DEF PowerOn
  <1>16. CASE Writeback
    BY <1>16 DEF Writeback, Between
  <1>17. CASE UserWrite
    BY <1>17 DEF UserWrite
  <1>18. CASE PowerCut
    BY <1>18 DEF PowerCut, LoseVolatile, Between
  <1>19. CASE Shutdown
    BY <1>19 DEF Shutdown, LoseVolatile
  <1>20. CASE SwitchIntoRootfs
    BY <1>20 DEF SwitchIntoRootfs
  <1>21. CASE UNCHANGED vars
    BY <1>21 DEF vars
  <1> QED
    BY <1>1, <1>2, <1>3, <1>4, <1>5, <1>6, <1>7, <1>8, <1>9, <1>10, <1>11,
       <1>12, <1>13, <1>14, <1>15, <1>16, <1>17, <1>18, <1>19, <1>20, <1>21, Zenon
    DEF Next, cominitStep
-----------------------------------------------------------------------------
\* The inductive invariant holds in every configuration, whatever fails and wherever the
\* power is cut.
THEOREM SetupInvariant == Spec => []SetupInv
  BY InitInv, SetupStep, PTL DEF Spec

\* The variables of every reachable state have their types.
THEOREM TypeCorrect == Spec => []TypeOK
  <1>1. SetupInv => TypeOK
    BY DEF SetupInv
  <1> QED
    BY <1>1, SetupInvariant, PTL

\* The LUKS volume is open only under the PCR values its passphrase was sealed with: the
\* guarantee of cominitTpmUnsealBlob() and of the policy session, over all boots.
THEOREM TrustedOpening == Spec => []OpenOnlyIfTrusted
  <1>1. SetupInv => OpenOnlyIfTrusted
    BY DEF SetupInv, OpenOnlyIfTrusted, KeyInv, Openable
  <1> QED
    BY <1>1, SetupInvariant, PTL

\* The sealed blob and the LUKS volume always belong together.
THEOREM BlobAndVolumeAgree == Spec => []BlobFitsVolume
  <1>1. SetupInv => BlobFitsVolume
    BY DEF SetupInv, VolumeInv
  <1> QED
    BY <1>1, SetupInvariant, PTL

\* cominitTpmProtectData() reports Unsealed only with the volume open.
THEOREM UnsealedIsOpen == Spec => []UnsealedMeansOpen
  <1>1. SetupInv => UnsealedMeansOpen
    BY DEF SetupInv, KeyInv, UnsealedMeansOpen
  <1> QED
    BY <1>1, SetupInvariant, PTL

\* If umount() of the blob partition does not fail, the passphrase of a volume with data is
\* on the medium.
THEOREM DataIsRecoverable == Spec => []DataRecoverable
  <1>1. SetupInv => DataRecoverable
    BY DEF SetupInv
  <1> QED
    BY <1>1, SetupInvariant, PTL

\* A step can destroy data only by formatting, and formatting finds the volume blank.
LEMMA DataStep == SetupInv /\ [Next]_vars /\ data = "stored" => data' = "stored"
  <1> SUFFICES ASSUME SetupInv, [Next]_vars, data = "stored" PROVE data' = "stored"
    OBVIOUS
  <1> USE DEF SetupInv, VolumeInv, isFirstBoot, FirstBootSteps, volume
  <1>1. CASE cominitInitTpm
    BY <1>1 DEF cominitInitTpm
  <1>2. CASE cominitTpmExtendPCR
    BY <1>2 DEF cominitTpmExtendPCR
  <1>3. CASE cominitTpmSetupBlob
    BY <1>3 DEF cominitTpmSetupBlob, Fail
  <1>4. CASE cominitTpmSeal
    BY <1>4 DEF cominitTpmSeal, Fail, SealFails
  <1>5. CASE cominitTpmSavePrimaryHandle
    BY <1>5 DEF cominitTpmSavePrimaryHandle, Fail, EvictAccepted
  <1>6. CASE cominitTpmSaveBlob
    BY <1>6 DEF cominitTpmSaveBlob, Fail, WrittenFile
  <1>7. CASE cominitTpmUnsealBlob
    BY <1>7 DEF cominitTpmUnsealBlob, Fail, SetupSecureStorageStep, PolicyHolds
  <1>8. CASE cominitSecurememoryCreateLuksVolume
    BY <1>8 DEF cominitSecurememoryCreateLuksVolume, Fail
  <1>9. CASE cominitCryptsetupAddToken
    BY <1>9 DEF cominitCryptsetupAddToken, Fail, WithToken
  <1>10. CASE cominitCryptsetupOpenLuksVolume
    BY <1>10 DEF cominitCryptsetupOpenLuksVolume, Fail
  <1>11. CASE cominitTpmFormatSecureStorage
    BY <1>11 DEF cominitTpmFormatSecureStorage, Fail
  <1>12. CASE cominitTpmUnmountBlob
    BY <1>12 DEF cominitTpmUnmountBlob, umount
  <1>13. CASE cominitSetupRootfs
    BY <1>13 DEF cominitSetupRootfs
  <1>14. CASE cominitTpmMountSecureStorage
    BY <1>14 DEF cominitTpmMountSecureStorage, Mountable
  <1>15. CASE PowerOn
    BY <1>15 DEF PowerOn
  <1>16. CASE Writeback
    BY <1>16 DEF Writeback, Between
  <1>17. CASE UserWrite
    BY <1>17 DEF UserWrite
  <1>18. CASE PowerCut
    BY <1>18 DEF PowerCut, LoseVolatile, Between
  <1>19. CASE Shutdown
    BY <1>19 DEF Shutdown, LoseVolatile
  <1>20. CASE SwitchIntoRootfs
    BY <1>20 DEF SwitchIntoRootfs
  <1>21. CASE UNCHANGED vars
    BY <1>21 DEF vars
  <1> QED
    BY <1>1, <1>2, <1>3, <1>4, <1>5, <1>6, <1>7, <1>8, <1>9, <1>10,
       <1>11, <1>12, <1>13, <1>14, <1>15, <1>16, <1>17, <1>18, <1>19, <1>20, <1>21, Zenon
    DEF Next, cominitStep

\* No boot, power cut or failure destroys stored data.
THEOREM DataIsKept == Spec => DataSurvives
  BY SetupInvariant, DataStep, PTL DEF Spec, DataSurvives

\* A complete setup is not disturbed: the handle is taken, so no boot gets past
\* cominitTpmSavePrimaryHandle(), and the medium already has the file.
LEMMA ReadyStep == SetupInv /\ [Next]_vars /\ Ready => Ready'
  <1> SUFFICES ASSUME SetupInv, [Next]_vars, Ready PROVE Ready'
    OBVIOUS
  <1> USE DEF SetupInv, TypeOK, MediumInv, HandleInv, VolumeInv, KeyInv, BlobFitsVolume, Openable,
      isFirstBoot, Points, FirstBootSteps, FinalPoints, TpmStates, BlobStates, CryptStates,
      volume, Absent, Short, Blob, SealedBlob, Ready
  <1>1. CASE cominitInitTpm
    BY <1>1 DEF cominitInitTpm
  <1>2. CASE cominitTpmExtendPCR
    BY <1>2 DEF cominitTpmExtendPCR
  <1>3. CASE cominitTpmSetupBlob
    BY <1>3 DEF cominitTpmSetupBlob, Fail
  <1>4. CASE cominitTpmSeal
    BY <1>4 DEF cominitTpmSeal, Fail, SealFails
  <1>5. CASE cominitTpmSavePrimaryHandle
    BY <1>5 DEF cominitTpmSavePrimaryHandle, Fail, EvictAccepted
  <1>6. CASE cominitTpmSaveBlob
    BY <1>6 DEF cominitTpmSaveBlob, Fail, WrittenFile
  <1>7. CASE cominitTpmUnsealBlob
    BY <1>7 DEF cominitTpmUnsealBlob, Fail, SetupSecureStorageStep, PolicyHolds
  <1>8. CASE cominitSecurememoryCreateLuksVolume
    BY <1>8 DEF cominitSecurememoryCreateLuksVolume, Fail
  <1>9. CASE cominitCryptsetupAddToken
    BY <1>9 DEF cominitCryptsetupAddToken, Fail, WithToken
  <1>10. CASE cominitCryptsetupOpenLuksVolume
    BY <1>10 DEF cominitCryptsetupOpenLuksVolume, Fail
  <1>11. CASE cominitTpmFormatSecureStorage
    BY <1>11 DEF cominitTpmFormatSecureStorage, Fail
  <1>12. CASE cominitTpmUnmountBlob
    BY <1>12 DEF cominitTpmUnmountBlob, umount
  <1>13. CASE cominitSetupRootfs
    BY <1>13 DEF cominitSetupRootfs
  <1>14. CASE cominitTpmMountSecureStorage
    BY <1>14 DEF cominitTpmMountSecureStorage, Mountable
  <1>15. CASE PowerOn
    BY <1>15 DEF PowerOn
  <1>16. CASE Writeback
    BY <1>16 DEF Writeback, Between
  <1>17. CASE UserWrite
    BY <1>17 DEF UserWrite
  <1>18. CASE PowerCut
    BY <1>18 DEF PowerCut, LoseVolatile, Between
  <1>19. CASE Shutdown
    BY <1>19 DEF Shutdown, LoseVolatile
  <1>20. CASE SwitchIntoRootfs
    BY <1>20 DEF SwitchIntoRootfs
  <1>21. CASE UNCHANGED vars
    BY <1>21 DEF vars
  <1> QED
    BY <1>1, <1>2, <1>3, <1>4, <1>5, <1>6, <1>7, <1>8, <1>9, <1>10,
       <1>11, <1>12, <1>13, <1>14, <1>15, <1>16, <1>17, <1>18, <1>19, <1>20, <1>21, Zenon
    DEF Next, cominitStep

\* Once complete, the setup stays complete.
THEOREM SetupIsStable == Spec => ReadyIsStable
  BY SetupInvariant, ReadyStep, PTL DEF Spec, ReadyIsStable

\* A device that is as it shipped, or set up, has nothing waiting to be written back.
LEMMA SettledIsWritten == SetupInv /\ (Fresh \/ Ready) => diskBlob = blob
  <1>1. Fresh /\ SetupInv => blob = Absent
    BY DEF Fresh, SetupInv, HandleInv
  <1>2. Ready /\ SetupInv => diskBlob \notin {Absent, Short}
    BY DEF Ready, SealedBlob, Absent, Short
  <1> QED
    BY <1>1, <1>2 DEF SetupInv, MediumInv, Fresh

\* Outside the window the volume can be opened whenever cominit gets as far as opening it.
LEMMA OpenWorks == SetupInv /\ WindowInv /\ OutsideWindow /\ pc = "open" => Openable
  <1> SUFFICES ASSUME SetupInv, WindowInv, OutsideWindow, pc = "open" PROVE Openable
    OBVIOUS
  <1>1. blob \in SealedBlob /\ (~isFirstBoot => crypt = "fs")
    BY DEF WindowInv, Ready
  <1>2. crypt \in {"token", "fs"}
    BY <1>1 DEF SetupInv, VolumeInv
  <1>3. keyring # NoPass /\ keyring = blob.pass
    BY DEF SetupInv, KeyInv
  <1>4. blob.pass = cryptPass
    BY <1>1, <1>2 DEF SetupInv, VolumeInv, BlobFitsVolume
  <1> QED
    BY <1>2, <1>3, <1>4 DEF Openable

\* Outside the window every step keeps the device fresh or set up.
LEMMA WindowStep == SetupInv /\ WindowInv /\ [Next]_vars => WindowInv'
  <1> SUFFICES ASSUME SetupInv, WindowInv, [Next]_vars, OutsideWindow PROVE WindowInv'
    BY EnvStep DEF WindowInv, OutsideWindow
  <1> DEFINE Settled == Fresh \/ Ready
             Kept == UNCHANGED <<handle, diskBlob, crypt, cryptPass>>
             Quiet == SafePoints \cup {"off"}
  <1>a. Settled' /\ pc' \in (Quiet \ {"evict"}) \cup {"unmount"} => WindowInv'
    BY DEF WindowInv, SafePoints
  <1>b. Settled /\ Kept => Settled'
    BY DEF Fresh, Ready
  <1>c. pc \in Quiet => Settled
    BY DEF WindowInv
  <1>d. pc \in Quiet /\ Kept /\ pc' \in (Quiet \ {"evict"}) \cup {"unmount"} => WindowInv'
    BY <1>a, <1>b, <1>c
  <1>e. \A f \in Faults : f \in SafeFaults
    BY DEF OutsideWindow
  <1>1. CASE cominitInitTpm
    BY <1>1, <1>d DEF cominitInitTpm, volume, SafePoints
  <1>2. CASE cominitTpmExtendPCR
    BY <1>2, <1>d DEF cominitTpmExtendPCR, volume, SafePoints
  <1>3. CASE cominitTpmSetupBlob
    <2>1. pc = "setup" /\ Kept /\ blob' = blob
      BY <1>3 DEF cominitTpmSetupBlob, volume
    <2>2. CASE pc' \in {"seal", "unmount"}
      BY <2>1, <2>2, <1>d DEF SafePoints
    <2>3. CASE pc' = "unseal"
      <3>1. blob # Absent /\ blobState' = "BlobExists"
        BY <2>3, <1>3 DEF cominitTpmSetupBlob, Fail
      <3>2. Settled
        BY <2>1, <1>c DEF SafePoints
      <3>3. Ready
        BY <3>1, <3>2, SettledIsWritten DEF Fresh
      <3>4. Ready' /\ handle' = "ours" /\ blob' \in SealedBlob /\ ~isFirstBoot'
        BY <3>1, <3>3, <2>1, SettledIsWritten DEF Ready, isFirstBoot
      <3> QED
        BY <2>3, <3>4 DEF WindowInv, SafePoints
    <2> QED
      BY <1>3, <2>2, <2>3 DEF cominitTpmSetupBlob, Fail
  <1>4. CASE cominitTpmSeal
    <2>1. pc = "seal" /\ Kept
      BY <1>4 DEF cominitTpmSeal, SealFails, volume
    <2>2. CASE pc' = "unmount"
      BY <2>1, <2>2, <1>d DEF SafePoints
    <2>3. CASE pc' = "evict"
      <3>1. outBlob' # NullBlob
        BY <2>3, <1>4, <1>e DEF cominitTpmSeal, SealFails, Fail, SafeFaults, NullBlob
      <3>2. outBlob' \in SealedBlob
        BY <3>1, TypeStep DEF SetupInv, TypeOK
      <3>3. Settled'
        BY <2>1, <1>b, <1>c DEF SafePoints
      <3> QED
        BY <2>3, <3>2, <3>3 DEF WindowInv, SafePoints
    <2> QED
      BY <1>4, <2>2, <2>3 DEF cominitTpmSeal, SealFails, Fail
  <1>5. CASE cominitTpmSavePrimaryHandle
    <2>1. pc = "evict" /\ outBlob \in SealedBlob
      BY <1>5 DEF cominitTpmSavePrimaryHandle, WindowInv
    <2>2. CASE pc' = "save"
      <3>1. outBlob' = outBlob
        BY <1>5, <2>2 DEF cominitTpmSavePrimaryHandle, Fail
      <3> QED
        BY <2>1, <2>2, <3>1 DEF WindowInv, SafePoints
    <2>3. CASE pc' = "unmount"
      <3>1. Kept
        BY <1>5, <2>3, <1>e DEF cominitTpmSavePrimaryHandle, volume, SafeFaults
      <3> QED
        BY <2>1, <2>3, <3>1, <1>d DEF SafePoints
    <2> QED
      BY <1>5, <2>2, <2>3 DEF cominitTpmSavePrimaryHandle, Fail
  <1>6. CASE cominitTpmSaveBlob
    <2>1. pc = "save" /\ outBlob \in SealedBlob /\ outBlob # NullBlob
      BY <1>6 DEF cominitTpmSaveBlob, WindowInv, SealedBlob, NullBlob
    <2>2. pc' = "unseal" /\ blob' = outBlob /\ UNCHANGED <<handle, blobState, pcrs>>
      BY <1>6, <2>1, <1>e DEF cominitTpmSaveBlob, WrittenFile, Fail, SafeFaults
    <2>3. isFirstBoot' /\ handle' = "ours"
      BY <2>1, <2>2 DEF SetupInv, VolumeInv, HandleInv, FirstBootSteps, isFirstBoot
    <2>4. blob'.policy = Policy'
      BY <2>1, <2>2 DEF SetupInv, HandleInv, Policy
    <2> QED
      BY <2>1, <2>2, <2>3, <2>4 DEF WindowInv, SafePoints
  <1>7. CASE cominitTpmUnsealBlob
    <2>1. /\ pc = "unseal" /\ handle = "ours" /\ blob \in SealedBlob
          /\ ~isFirstBoot => Ready
          /\ isFirstBoot => PolicyHolds(blob)
      BY <1>7 DEF cominitTpmUnsealBlob, WindowInv, PolicyHolds
    <2>2. Kept /\ UNCHANGED <<blob, blobState>>
      BY <1>7 DEF cominitTpmUnsealBlob, volume
    <2>3. \/ pc' \in {"format", "open"}
          \/ pc' = "unmount" /\ ~isFirstBoot
      BY <1>7, <2>1, <1>e DEF cominitTpmUnsealBlob, SetupSecureStorageStep, Fail, SafeFaults
    <2>4. ~isFirstBoot => Ready'
      BY <2>1, <2>2 DEF Ready
    <2> QED
      BY <2>1, <2>2, <2>3, <2>4, <1>a DEF WindowInv, SafePoints, isFirstBoot
  <1>8. CASE cominitSecurememoryCreateLuksVolume
    <2>1. /\ pc = "format" /\ pc' = "token" /\ UNCHANGED <<handle, blob, blobState>>
      BY <1>8, <1>e DEF cominitSecurememoryCreateLuksVolume, SafeFaults
    <2>2. handle = "ours" /\ blob \in SealedBlob /\ isFirstBoot
      BY <2>1 DEF WindowInv, SetupInv, VolumeInv, FirstBootSteps
    <2> QED
      BY <2>1, <2>2 DEF WindowInv, SafePoints, isFirstBoot
  <1>9. CASE cominitCryptsetupAddToken
    <2>1. /\ pc = "token" /\ pc' = "open" /\ UNCHANGED <<handle, blob, blobState>>
      BY <1>9, <1>e DEF cominitCryptsetupAddToken, SafeFaults
    <2>2. handle = "ours" /\ blob \in SealedBlob /\ isFirstBoot
      BY <2>1 DEF WindowInv, SetupInv, VolumeInv, FirstBootSteps
    <2> QED
      BY <2>1, <2>2 DEF WindowInv, SafePoints, isFirstBoot
  <1>10. CASE cominitCryptsetupOpenLuksVolume
    <2>1. pc = "open" /\ Kept /\ UNCHANGED <<blob, blobState>>
      BY <1>10 DEF cominitCryptsetupOpenLuksVolume, volume
    <2>2. pc' = IF isFirstBoot THEN "mkfs" ELSE "unmount"
      BY <1>10, <2>1, <1>e, OpenWorks DEF cominitCryptsetupOpenLuksVolume, SafeFaults
    <2>3. handle = "ours" /\ blob \in SealedBlob /\ (~isFirstBoot => Ready)
      BY <2>1 DEF WindowInv
    <2> QED
      BY <2>1, <2>2, <2>3, <1>a, <1>b DEF WindowInv, SafePoints, isFirstBoot
  <1>11. CASE cominitTpmFormatSecureStorage
    <2>1. /\ pc = "mkfs" /\ pc' = "unmount" /\ crypt' = "fs"
          /\ UNCHANGED <<handle, diskBlob, cryptPass, blob, active>>
      BY <1>11, <1>e DEF cominitTpmFormatSecureStorage, SafeFaults
    <2>2. handle = "ours" /\ blob \in SealedBlob /\ crypt = "token"
      BY <2>1 DEF WindowInv, SetupInv, VolumeInv, FirstBootSteps
    <2>3. blob.pass = cryptPass
      BY <2>2 DEF SetupInv, VolumeInv, BlobFitsVolume
    <2>4. "blob" \in active \/ diskBlob = blob
      BY DEF SetupInv, MediumInv
    <2> QED
      BY <2>1, <2>2, <2>3, <2>4 DEF WindowInv, SafePoints, Ready
  <1>12. CASE cominitTpmUnmountBlob
    <2>1. /\ pc = "unmount" /\ pc' = "rootfs" /\ diskBlob' = blob
          /\ UNCHANGED <<handle, crypt, cryptPass>>
      BY <1>12, <1>e DEF cominitTpmUnmountBlob, umount, volume, SafeFaults
    <2>2. CASE Settled
      BY <2>1, <2>2, <1>a, <1>b, SettledIsWritten DEF SafePoints
    <2>3. CASE handle = "ours" /\ blob \in SealedBlob /\ crypt = "fs"
      <3>1. blob.pass = cryptPass
        BY <2>3 DEF SetupInv, VolumeInv, BlobFitsVolume
      <3> QED
        BY <2>1, <2>3, <3>1, <1>a DEF Ready, SafePoints
    <2> QED
      BY <2>1, <2>2, <2>3 DEF WindowInv
  <1>13. CASE cominitSetupRootfs
    BY <1>13, <1>d DEF cominitSetupRootfs, volume, SafePoints
  <1>14. CASE cominitTpmMountSecureStorage
    BY <1>14, <1>d DEF cominitTpmMountSecureStorage, volume, SafePoints
  <1>15. CASE PowerOn
    BY <1>15, <1>d DEF PowerOn, volume, SafePoints
  <1>16. CASE Writeback
    <2>1. ~Settled /\ UNCHANGED <<handle, crypt, pc, pcrs, blob, active, blobState, outBlob>>
      BY <1>16, SettledIsWritten DEF Writeback, volume
    <2>2. Policy' = Policy /\ isFirstBoot' = isFirstBoot
      BY <2>1 DEF Policy, isFirstBoot
    <2> QED
      BY <2>1, <2>2 DEF WindowInv
  <1>17. CASE UserWrite
    BY <1>17, <1>d DEF UserWrite, SafePoints
  <1>18. CASE PowerCut
    <2>1. pc \in SafePoints
      BY <1>18 DEF PowerCut, OutsideWindow, WindowInv
    <2>2. Settled /\ diskBlob = blob /\ pc \notin {"save", "format"}
      BY <2>1, <1>c, SettledIsWritten DEF SafePoints
    <2>3. pc' = "off" /\ Kept
      BY <1>18, <2>2 DEF PowerCut, LoseVolatile, Between
    <2> QED
      BY <2>1, <2>3, <1>d DEF SafePoints
  <1>19. CASE Shutdown
    <2>1. pc \in {"running", "rescue"}
      BY <1>19 DEF Shutdown
    <2>2. diskBlob = blob
      BY <2>1, <1>c, SettledIsWritten DEF SafePoints
    <2>3. pc' = "off" /\ Kept
      BY <1>19, <2>2 DEF Shutdown, LoseVolatile
    <2> QED
      BY <2>1, <2>3, <1>d DEF SafePoints
  <1>20. CASE SwitchIntoRootfs
    BY <1>20, <1>d DEF SwitchIntoRootfs, volume, SafePoints
  <1>21. CASE UNCHANGED vars
    BY <1>21 DEF vars, WindowInv, Fresh, Ready, Policy, isFirstBoot
  <1> QED
    BY <1>1, <1>2, <1>3, <1>4, <1>5, <1>6, <1>7, <1>8, <1>9, <1>10,
       <1>11, <1>12, <1>13, <1>14, <1>15, <1>16, <1>17, <1>18, <1>19, <1>20, <1>21, Zenon
    DEF Next, cominitStep

\* If power cuts and failures only happen before the key is made persistent or after the
\* blob partition is unmounted, a device that is off is as it shipped or completely set up.
THEOREM NoHalfDoneSetup == Spec => []NeverHalfDone
  <1>1. Init => WindowInv
    BY ConfigAssumption DEF Init, WindowInv, OutsideWindow, Fresh
  <1>2. WindowInv => NeverHalfDone
    BY DEF WindowInv, NeverHalfDone, SafePoints
  <1> QED
    BY <1>1, <1>2, WindowStep, SetupInvariant, PTL DEF Spec

\* Where nothing fails, every step brings a trusted boot closer to the mounted volume.
LEMMA TrustedStep == SetupInv /\ WindowInv /\ TrustedInv /\ [Next]_vars => TrustedInv'
  <1> SUFFICES ASSUME SetupInv, WindowInv, TrustedInv, [Next]_vars, Undisturbed,
                      cominitTpmSecureStorageEnabled
               PROVE  TrustedInv'
    BY EnvStep DEF TrustedInv, Undisturbed, cominitTpmSecureStorageEnabled
  <1> DEFINE Trusted == blob \in SealedBlob /\ blob.policy = Policy
             Closing == {"unmount", "rootfs", "mount"}
  <1>0. OutsideWindow /\ Faults = {} /\ CutPoints = {}
    BY DEF OutsideWindow, Undisturbed
  <1>a. pc' \notin Closing \cup {"evict", "switch", "running"} => TrustedInv'
    BY DEF TrustedInv, TrustedBootMounts
  <1>b. pc' \in Closing /\ (Trusted' => crypt' = "fs" /\ "mapper" \in active') => TrustedInv'
    BY DEF TrustedInv, TrustedBootMounts
  <1>c. pc' \in {"switch", "running"} /\ (Trusted' => "storage" \in active') => TrustedInv'
    BY DEF TrustedInv, TrustedBootMounts
  <1>d. UNCHANGED <<blob, pcrs>> => Trusted' = Trusted
    BY DEF Policy
  <1>e. pc \in Closing /\ Trusted => crypt = "fs" /\ "mapper" \in active
    BY DEF TrustedInv
  <1>f. pc \in {"switch", "running"} /\ Trusted => "storage" \in active
    BY DEF TrustedInv, TrustedBootMounts
  <1>1. CASE cominitInitTpm
    BY <1>1, <1>0, <1>a DEF cominitInitTpm
  <1>2. CASE cominitTpmExtendPCR
    BY <1>2, <1>a DEF cominitTpmExtendPCR
  <1>3. CASE cominitTpmSetupBlob
    BY <1>3, <1>0, <1>a DEF cominitTpmSetupBlob
  <1>4. CASE cominitTpmSeal
    <2>1. pc = "seal" /\ pc' = "evict" /\ UNCHANGED <<blob, handle>>
      BY <1>4, <1>0 DEF cominitTpmSeal
    <2>2. blob = Absent
      BY <2>1 DEF SetupInv, MediumInv
    <2>3. Fresh \/ Ready
      BY <2>1, <1>0 DEF WindowInv, SafePoints
    <2>4. ~Ready
      BY <2>2, <2>3, SettledIsWritten DEF Ready, SealedBlob, Absent
    <2> QED
      BY <2>1, <2>2, <2>3, <2>4 DEF TrustedInv, TrustedBootMounts, Fresh
  <1>5. CASE cominitTpmSavePrimaryHandle
    <2>1. handle = "free"
      BY <1>5 DEF cominitTpmSavePrimaryHandle, TrustedInv
    <2> QED
      BY <1>5, <2>1, <1>0, <1>a DEF cominitTpmSavePrimaryHandle, EvictAccepted
  <1>6. CASE cominitTpmSaveBlob
    BY <1>6, <1>0, <1>a DEF cominitTpmSaveBlob
  <1>7. CASE cominitTpmUnsealBlob
    <2>1. handle = "ours" /\ blob \in SealedBlob /\ UNCHANGED <<blob, pcrs>>
      BY <1>7, <1>0 DEF cominitTpmUnsealBlob, WindowInv
    <2>2. \/ pc' \in {"format", "open"}
          \/ pc' = "unmount" /\ ~Trusted
      BY <1>7, <2>1, <1>0 DEF cominitTpmUnsealBlob, SetupSecureStorageStep, Fail, PolicyHolds
    <2> QED
      BY <2>1, <2>2, <1>a, <1>b, <1>d
  <1>8. CASE cominitSecurememoryCreateLuksVolume
    BY <1>8, <1>0, <1>a DEF cominitSecurememoryCreateLuksVolume
  <1>9. CASE cominitCryptsetupAddToken
    BY <1>9, <1>0, <1>a DEF cominitCryptsetupAddToken
  <1>10. CASE cominitCryptsetupOpenLuksVolume
    <2>1. /\ pc = "open" /\ pc' = IF isFirstBoot THEN "mkfs" ELSE "unmount"
          /\ "mapper" \in active' /\ crypt' = crypt
      BY <1>10, <1>0, OpenWorks DEF cominitCryptsetupOpenLuksVolume, volume
    <2>2. ~isFirstBoot => crypt = "fs"
      BY <2>1, <1>0 DEF WindowInv, Ready
    <2> QED
      BY <2>1, <2>2, <1>a, <1>b
  <1>11. CASE cominitTpmFormatSecureStorage
    <2>1. pc = "mkfs" /\ pc' = "unmount" /\ crypt' = "fs" /\ active' = active
      BY <1>11, <1>0 DEF cominitTpmFormatSecureStorage
    <2>2. "mapper" \in active
      BY <2>1 DEF SetupInv, KeyInv
    <2> QED
      BY <2>1, <2>2, <1>b
  <1>12. CASE cominitTpmUnmountBlob
    <2>1. /\ pc = "unmount" /\ pc' = "rootfs" /\ UNCHANGED <<crypt, blob, pcrs>>
          /\ "mapper" \in active' <=> "mapper" \in active
      BY <1>12 DEF cominitTpmUnmountBlob, umount, volume
    <2> QED
      BY <2>1, <1>b, <1>d, <1>e
  <1>13. CASE cominitSetupRootfs
    <2>1. pc = "rootfs" /\ pc' = "mount" /\ UNCHANGED <<crypt, blob, pcrs, active>>
      BY <1>13, <1>0 DEF cominitSetupRootfs, volume
    <2> QED
      BY <2>1, <1>b, <1>d, <1>e
  <1>14. CASE cominitTpmMountSecureStorage
    <2>1. /\ pc = "mount" /\ pc' = "switch" /\ UNCHANGED <<blob, pcrs>>
          /\ Mountable => "storage" \in active'
      BY <1>14, <1>0 DEF cominitTpmMountSecureStorage
    <2>2. Trusted => Mountable
      BY <2>1, <1>e DEF Mountable
    <2> QED
      BY <2>1, <2>2, <1>c, <1>d
  <1>15. CASE PowerOn
    BY <1>15, <1>a DEF PowerOn, cominitUseTpm
  <1>16. CASE Writeback
    <2>1. UNCHANGED <<handle, crypt, pc, pcrs, blob, active>>
      BY <1>16 DEF Writeback, volume
    <2> QED
      BY <2>1 DEF TrustedInv, TrustedBootMounts, Policy
  <1>17. CASE UserWrite
    <2>1. UNCHANGED <<handle, crypt, pc, pcrs, blob, active>>
      BY <1>17 DEF UserWrite
    <2> QED
      BY <2>1 DEF TrustedInv, TrustedBootMounts, Policy
  <1>18. CASE PowerCut
    BY <1>18, <1>a DEF PowerCut, LoseVolatile
  <1>19. CASE Shutdown
    BY <1>19, <1>a DEF Shutdown, LoseVolatile
  <1>20. CASE SwitchIntoRootfs
    <2>1. pc = "switch" /\ pc' = "running" /\ UNCHANGED <<blob, pcrs, active>>
      BY <1>20, <1>0 DEF SwitchIntoRootfs
    <2> QED
      BY <2>1, <1>c, <1>d, <1>f
  <1>21. CASE UNCHANGED vars
    BY <1>21 DEF vars, TrustedInv, TrustedBootMounts, Policy
  <1> QED
    BY <1>1, <1>2, <1>3, <1>4, <1>5, <1>6, <1>7, <1>8, <1>9, <1>10,
       <1>11, <1>12, <1>13, <1>14, <1>15, <1>16, <1>17, <1>18, <1>19, <1>20, <1>21, Zenon
    DEF Next, cominitStep

\* In a boot with the PCR values of the sealing boot the volume ends up mounted, on every
\* device on which nothing fails.
THEOREM TrustedBootsMount == Spec => []TrustedBootMounts
  <1>1. Init => WindowInv /\ TrustedInv
    BY ConfigAssumption DEF Init, WindowInv, OutsideWindow, Fresh, TrustedInv, TrustedBootMounts
  <1>2. TrustedInv => TrustedBootMounts
    BY DEF TrustedInv, TrustedBootMounts
  <1> QED
    BY <1>1, <1>2, WindowStep, TrustedStep, SetupInvariant, PTL DEF Spec
-----------------------------------------------------------------------------
\* A step that keeps the handle and what is complete can only complete the setup.
LEMMA PhaseKept ==
  handle' = handle /\ (Ready => Ready') =>
    phase' = phase \/ (phase = "begun" /\ phase' = "ready")
  <1> SUFFICES ASSUME handle' = handle, Ready => Ready'
               PROVE  phase' = phase \/ (phase = "begun" /\ phase' = "ready")
    OBVIOUS
  <1>1. Ready' => handle' = "ours"
    BY DEF Ready
  <1> QED
    BY <1>1 DEF phase

\* A step of the boot, of the kernel or of the power is a step of the contract, or none.
LEMMA LifecycleStep ==
  SetupInv /\ [Next]_vars => (UmountWorks => [Lifecycle!Next]_(Lifecycle!lvars))
  <1> SUFFICES ASSUME SetupInv, [Next]_vars, UmountWorks PROVE [Lifecycle!Next]_(Lifecycle!lvars)
    OBVIOUS
  <1> DEFINE Quiet == /\ UNCHANGED <<handle, diskBlob, crypt, cryptPass, data>>
                      /\ "mapper" \in active' <=> "mapper" \in active
  <1>a. Quiet => UNCHANGED Lifecycle!lvars
    BY DEF Lifecycle!lvars, phase, access, Ready
  <1>b. handle' = handle => phase' = phase \/ (phase = "begun" /\ phase' = "ready")
    BY ReadyStep, PhaseKept
  <1>c. active' = active => access' = access
    BY DEF access
  <1>d. crypt # "fs" => ~Ready /\ data = "none"
    BY DEF Ready, SetupInv, TypeOK, VolumeInv
  <1>e. crypt' # "fs" => ~Ready'
    BY DEF Ready
  <1>1. CASE cominitInitTpm
    BY <1>1, <1>a DEF cominitInitTpm, volume
  <1>2. CASE cominitTpmExtendPCR
    BY <1>2, <1>a DEF cominitTpmExtendPCR, volume
  <1>3. CASE cominitTpmSetupBlob
    BY <1>3, <1>a DEF cominitTpmSetupBlob, volume
  <1>4. CASE cominitTpmSeal
    BY <1>4, <1>a DEF cominitTpmSeal, SealFails, volume
  <1>5. CASE cominitTpmSavePrimaryHandle
    <2>1. /\ UNCHANGED <<diskBlob, crypt, cryptPass, data, active>>
          /\ handle' = handle \/ (handle = "free" /\ handle' = "ours")
      BY <1>5 DEF cominitTpmSavePrimaryHandle, EvictAccepted, volume
    <2>2. CASE handle' = handle
      BY <2>1, <2>2, <1>a
    <2>3. CASE handle = "free" /\ handle' = "ours"
      <3>1. crypt = "raw"
        BY <2>3 DEF SetupInv, HandleInv
      <3>2. phase = "fresh" /\ phase' = "begun"
        BY <3>1, <2>1, <2>3, <1>d, <1>e DEF phase
      <3> QED
        BY <3>2, <2>1, <1>c DEF Lifecycle!Next, Lifecycle!Begin
    <2> QED
      BY <2>1, <2>2, <2>3
  <1>6. CASE cominitTpmSaveBlob
    BY <1>6, <1>a DEF cominitTpmSaveBlob, volume
  <1>7. CASE cominitTpmUnsealBlob
    BY <1>7, <1>a DEF cominitTpmUnsealBlob, volume
  <1>8. CASE cominitSecurememoryCreateLuksVolume
    <2>1. crypt = "raw"
      BY <1>8 DEF cominitSecurememoryCreateLuksVolume, SetupInv, VolumeInv
    <2>2. /\ crypt' \in {"raw", "broken", "luks"} /\ (data' = data \/ data' = "none")
          /\ UNCHANGED <<handle, active>>
      BY <2>1, <1>8 DEF cominitSecurememoryCreateLuksVolume
    <2> QED
      BY <2>1, <2>2, <1>c, <1>d, <1>e DEF phase, Lifecycle!lvars
  <1>9. CASE cominitCryptsetupAddToken
    <2>1. crypt = "luks"
      BY <1>9 DEF cominitCryptsetupAddToken, SetupInv, VolumeInv
    <2>2. crypt' \in {"luks", "token"} /\ UNCHANGED <<handle, data, active>>
      BY <2>1, <1>9 DEF cominitCryptsetupAddToken, WithToken
    <2> QED
      BY <2>1, <2>2, <1>c, <1>d, <1>e DEF phase, Lifecycle!lvars
  <1>10. CASE cominitCryptsetupOpenLuksVolume
    <2>1. /\ UNCHANGED <<handle, diskBlob, crypt, cryptPass, data>>
          /\ active' = active \/ (Openable /\ active' = active \cup {"mapper"})
      BY <1>10 DEF cominitCryptsetupOpenLuksVolume, volume
    <2>2. CASE active' = active
      BY <2>1, <2>2, <1>a
    <2>3. CASE Openable /\ active' = active \cup {"mapper"}
      <3>1. handle = "ours"
        BY <2>3 DEF Openable, SetupInv, HandleInv
      <3>2. phase # "fresh" /\ phase' = phase
        BY <3>1, <2>1 DEF phase, Ready
      <3>3. access' = "open"
        BY <2>3 DEF access
      <3> QED
        BY <3>2, <3>3, <2>1 DEF Lifecycle!Next, Lifecycle!Open
    <2> QED
      BY <2>1, <2>2, <2>3
  <1>11. CASE cominitTpmFormatSecureStorage
    <2>1. crypt = "token"
      BY <1>11 DEF cominitTpmFormatSecureStorage, SetupInv, VolumeInv, FirstBootSteps
    <2>2. data' = "none" /\ UNCHANGED <<handle, active>>
      BY <1>11 DEF cominitTpmFormatSecureStorage
    <2>3. UNCHANGED data /\ UNCHANGED access
      BY <2>1, <2>2, <1>c, <1>d
    <2> QED
      BY <2>2, <2>3, <1>b DEF Lifecycle!Next, Lifecycle!Finish, Lifecycle!lvars
  <1>12. CASE cominitTpmUnmountBlob
    <2>1. UNCHANGED <<handle, data>> /\ ("mapper" \in active' <=> "mapper" \in active)
      BY <1>12 DEF cominitTpmUnmountBlob, umount, volume
    <2>2. UNCHANGED access
      BY <2>1 DEF access
    <2> QED
      BY <2>1, <2>2, <1>b DEF Lifecycle!Next, Lifecycle!Finish, Lifecycle!lvars
  <1>13. CASE cominitSetupRootfs
    BY <1>13, <1>a DEF cominitSetupRootfs, volume
  <1>14. CASE cominitTpmMountSecureStorage
    BY <1>14, <1>a DEF cominitTpmMountSecureStorage, volume
  <1>15. CASE PowerOn
    BY <1>15, <1>a DEF PowerOn, volume
  <1>16. CASE Writeback
    <2>1. UNCHANGED <<handle, data, active>>
      BY <1>16 DEF Writeback, volume
    <2> QED
      BY <2>1, <1>b, <1>c DEF Lifecycle!Next, Lifecycle!Finish, Lifecycle!lvars
  <1>17. CASE UserWrite
    <2>1. /\ UNCHANGED <<handle, diskBlob, crypt, cryptPass, active>> /\ data' = "stored"
          /\ "storage" \in active
      BY <1>17 DEF UserWrite
    <2>2. SetupInv' /\ UmountWorks'
      BY SetupStep, EnvStep DEF UmountWorks
    <2>3. Ready'
      BY <2>1, <2>2 DEF SetupInv, DataRecoverable, UmountWorks
    <2>4. phase = "ready" /\ phase' = "ready"
      BY <2>1, <2>3 DEF phase, Ready
    <2>5. access = "open" /\ UNCHANGED access
      BY <2>1, <1>c DEF access, SetupInv, KeyInv
    <2> QED
      BY <2>1, <2>4, <2>5 DEF Lifecycle!Next, Lifecycle!Store
  <1>18. CASE PowerCut
    <2>1. UNCHANGED handle /\ active' = {}
      BY <1>18 DEF PowerCut, LoseVolatile
    <2>2. data' = data \/ (pc = "format" /\ data' = "none")
      BY <1>18 DEF PowerCut
    <2>3. pc = "format" => data = "none"
      BY <1>d DEF SetupInv, VolumeInv
    <2> QED
      BY <2>1, <2>2, <2>3, <1>b DEF Lifecycle!Next, Lifecycle!Close, access
  <1>19. CASE Shutdown
    <2>1. UNCHANGED <<handle, data>> /\ active' = {}
      BY <1>19 DEF Shutdown, LoseVolatile
    <2> QED
      BY <2>1, <1>b DEF Lifecycle!Next, Lifecycle!Close, access
  <1>20. CASE SwitchIntoRootfs
    BY <1>20, <1>a DEF SwitchIntoRootfs, volume
  <1>21. CASE UNCHANGED vars
    BY <1>21, <1>a DEF vars
  <1> QED
    BY <1>1, <1>2, <1>3, <1>4, <1>5, <1>6, <1>7, <1>8, <1>9, <1>10,
       <1>11, <1>12, <1>13, <1>14, <1>15, <1>16, <1>17, <1>18, <1>19, <1>20, <1>21, Zenon
    DEF Next, cominitStep

\* If umount() of the blob partition does not fail, the secure storage is set up at most
\* once, holds data only when its passphrase is on the medium, and keeps them.
THEOREM LifecycleRefined == Spec => KeepsLifecycle
  <1>1. Init => Lifecycle!Init
    BY ConfigAssumption DEF Init, Lifecycle!Init, phase, access, Ready
  <1> QED
    BY <1>1, LifecycleStep, SetupInvariant, PTL DEF Spec, KeepsLifecycle
==============================================================================
