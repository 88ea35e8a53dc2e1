# A TLA+ verification of cominit

cominit runs as PID 1 of an initramfs.  It reads the kernel command line, finds the rootfs,
verifies its signed metadata, mounts it (through dm-verity or dm-integrity if the metadata ask
for it), opens an encrypted "secure storage" with a passphrase that the TPM releases, and
executes the init of the rootfs.  If something fatal happens it executes a rescue shell.

Four things make this hard to test.  The secure storage is set up once, by steps in the TPM, in a
file and on a partition, and the power may go away between any two of them; what later boots make
of the remains is never exercised by a unit test.  `main()` is a long sequence of calls each of
which may fail, some fatally and some not.  Disks turn up while cominit looks for them.  And the
volume is set up by child processes that are not always waited for.

## The parts of the system

| Part | Source | Module | Status |
|---|---|---|---|
| TPM: PCR extension, sealing, unsealing; LUKS volume | `tpm.c`, `securememory.c`, `cryptsetup.c` | `SecureStorage`, `VolumeSetup` | every step that changes the TPM, a partition, the keyring or a key buffer; not the TPM sessions |
| Boot sequence, retry loop, SELinux | `cominit.c` | `Boot` | from the first mount to the last `execve()` |
| System file systems, rootfs mount, root switch | `minsetup.c` | `Boot` | all functions |
| Device mapper | `dmctl.c` | `Boot` | one action, with the states a failure can leave |
| Boot sequence and secure storage together | `cominit.c` | `Device` | any number of boots |
| Rootfs metadata | `meta.c`, `common.c` | `Metadata` | reader, parser, both table generators |
| Signature, hashes, passphrases | `crypto.c` | `Metadata`, `Boot`, `SecureStorage` | verdicts and what they are about, freshness of passphrases |
| Keyring | `keyring.c` | `Metadata`, `VolumeSetup` | the key `secureStorage`, the development keys and keys that are there already |
| Child processes | `subprocess.c` | `VolumeSetup` | parent, pipe and children |
| Partition discovery | `automount.c` | `Automount` | both searches |
| Arguments | `cominit.c`, `tpm.c`, `output.c` | `CliArgs` | the loop, the parsers and the use of their results |
| Log output | `output.c` | `CliArgs` | the level filter; not the text |

## Modules

**`SecureStorage`** is the life of a device: any number of boots, each of which may be cut off.
Persistent state is what survives a loss of power: the object behind the TPM's persistent
handle (`handle`), `sealed.blob` on the medium (`diskBlob`), and the LUKS partition (`crypt`,
`cryptPass`).  `data` is an observer: whether the rootfs has stored anything in the volume.
Volatile state is the PCR bank, the page cache's view of the blob file (`blob`), what is mounted
or mapped (`active`), the keyring, and the local variables of `cominitTpmProtectData()`
(`blobState`, `outBlob`, `tpmState`) with its program counter `pc`.  There is an action for every
call that changes one of these, named after the function.

`env` is chosen once: the operations that may fail (`Faults`) and the program points at which the
power may be cut (`CutPoints`).  A failing operation has all the outcomes it can have: a half
written LUKS header, a short file, a key that the TPM has made persistent although the answer was
lost, a tool that did its work and then reported failure.  The kernel may write dirty pages of the
blob partition back at any time (`Writeback`).  `PcrValue`s are abstract: what was measured before
cominit, and whether cominit's extension follows.  A passphrase is a member of `Pass` not written
down anywhere else.

**`StorageLifecycle`** is the contract in three variables and no mechanism: the storage is
`fresh`, `begun` or `ready`, is never set up twice, and holds data only when it is ready, and the
data stay.  `SecureStorage!KeepsLifecycle` states the refinement.

**`Boot`** is one run of `main()`.  The disk, and later the node of the rootfs partition, may be
absent at first and appear at any time (`DeviceAppears`) or never.  The partition has an arbitrary
signature verdict, form and metadata.  `part` is the partition, `meta` and `devicePath` are the
fields of `rfsMeta`; `mounts`, `newroot`, `dm`, `policies`, `enforce` are kernel state that cominit
sets; `files` records which file systems still have their files, because
`cominitSwitchIntoRootfs()` deletes the initramfs before it leaves it.  The TPM block is a single
action here (`TpmBlock`), which leaves the storage open or closed.  After an `Esys_Create()` whose
failure is not noticed it may also be killed by a write from a NULL pointer, and that is a panic.

**`Device`** puts `SecureStorage` in the place of that action.  It extends `SecureStorage`,
instantiates `Boot` with `point` for its program counter, and joins the steps both know: leaving
the TPM block, mounting the rootfs and the storage, switching the root.  All other steps belong to
one of them and leave the other alone.  A power cut ends `main()`, and `Restart` begins it anew.

**`VolumeSetup`** is the part of one boot between the unsealing and the mounted volume as
concurrent processes: cominit, the pipe of `cominitSubprocessSpawnAndWrite()`, and a child for
each of `luksFormat`, the token, `luksOpen` and `mkfs.ext4`.  `writers` and `readers` are the open
ends of the pipe, `kid` the state of each child, `buffer` the key buffer and `freed` what was in the
memory that has been freed.  A child that cominit does not wait for runs on.  A later boot may find
the volume at any stage of its setup, since the setup may have been cut off.  `luksOpen` is started
without a passphrase: on a LUKS volume that no token opens it asks for one at the console, and may
wait there for ever (`Prompting`).

**`Metadata`** is `cominitLoadVerifyMetadata()`: the development keys, the size of the partition
with its wrapping subtraction, the read loop with the reads `read()` may return, the split of the
region into text and signature, the parser with the fields it has set when it fails, and the two
generators of device-mapper tables with their buffers.  Text is a sequence of words, a key a
sequence of bytes that is really converted to hexadecimal digits.  A boot begins with (`hsm`) or
without (`open`) the development keys, the two builds, and with whatever keys others have put into
the keyring (`Keyrings`); a key that is longer than its buffer ends in `overrun`.  A file system type
that is too long for its field is cut off (`Beginning`), a number that is too large for 64 bits is
`ULLONG_MAX`, and products wrap around.

**`Automount`** is the GPT search for the rootfs, with its retry loop, and then for the storage.
`readdir()` returns the devices in any order, and those that turn up during the scan or not.  A
disk is what is found at each offset; header fields are arbitrary, offsets are computed modulo
`Word`, GUIDs have the byte order of the disk and are reordered.

**`CliArgs`** is the loop over `argv`, followed by what the values are used for: the selection
bits of the PCR policy, whether the TPM is used, and which messages are printed.

The `MC` modules name the sets that the `.cfg` files use; `_proofs` modules hold the theorems.

## What TLC checks

Definitions whose names end in a suffix after an underscore (`umount_Lazy`,
`MayRetry_OffByOne`) are variants of the definition before the underscore with a plausible
mistake in it.  They are used by no specification; for each property there is one with which
TLC reports it violated.

| Run | Instance | What it shows |
|---|---|---|
| storage | everything may fail and be cut off; everything but `umount()`; only what is outside the critical window; nothing | no sequence of failures destroys data, and the storage is set up once and completely (`DataSurvives`, `KeepsLifecycle`); the passphrase reaches the medium before data can be stored, if `umount()` works (`DataRecoverable`); the volume opens only under the PCR values it was sealed with (`OpenOnlyIfTrusted`); blob and volume belong together (`BlobFitsVolume`); where the critical window is (`NeverHalfDone`); an undisturbed device gets its storage and mounts it in every trusted boot (`EventuallyReady`, `TrustedBootMounts`) |
| boot | everything may fail; everything but clock and shell; nothing; five sets of arguments | only a rootfs with valid metadata is entered, mounted as they say (`RunsSignedRootfs`); when cominit gives up (`GivesUpLate`) and the only way into a panic (`PanicOnlyWithoutShell`); what the arguments ask for is done (`SetUpAsAsked`); every boot ends, and a late device is still booted (`BootEnds`, `BootsIfInTime`) |
| device | nothing fails; failures and power cuts in both modules | the steps of `main()`, the deletion of the initramfs included, leave the storage to `SecureStorage` (`KeepsSecureStorage`); the TPM is used only after the verification of the same boot (`TpmOnlyAfterVerification`); the storage is open only to the signed rootfs (`StorageOnlyForSignedRootfs`); a device with a bootable rootfs gets its storage (`StorageGetsReady`) |
| volumesetup | every combination of failures; first boots, and later ones that find the volume raw, broken, formatted, with a token or complete | the volume is formatted with the key or not at all (`FormattedWithKey`); tools run one at a time (`OneToolAtATime`), those of a first boot each on what the one before has finished, while a later boot runs only `luksOpen`, on whatever is there (`ToolsInSequence`); what is mounted is complete (`MountedIsComplete`); freed memory has no key, unless `mlock()` failed, and then the keyring has none (`KeyBuffersCleared`); nobody waits for ever but a `luksOpen` at its prompt (`SetupEnds`) |
| metadata | good, bad, unsigned and cut off metadata, key files of several sizes, three keyrings, both builds | what is accepted is signed, also after short reads (`AcceptedIsSigned`); the table has the signed parameters and the keys of the keyring, and the size is exact wherever 64 bits hold it (`MappedAsSigned`); the keys that cominit has enrolled, and the options, fit their buffers (`EnrolledKeysFit`, `OptionsFitBuffer`); the end of the partition is read, and no other part (`ReadsTail`); loading ends if the device stays (`LoadEnds`) |
| automount | six pairs of disks, a link, a name that is too long | the node returned is the first partition of its type, and a rootfs whose name was cut off is not used (`FoundIsFirst`); the storage is on the disk of the rootfs (`StorageBesideRootfs`); what is not found was not there (`MissingIsAbsent`); the search ends (`SearchEnds`) |
| cliargs | every command line of up to three arguments out of 30, and more with the storage | the last `pcrExtend` and `pcrSeal` count, whether acceptable or not (`ExtendsAsGiven`, `PolicyIsAsked`); no message above the level asked for is printed, or above INFO if the value is no level (`PrintsAsAsked`) |

`metadata`, `automount` and `cliargs` also check a type invariant.  All type invariants are proved.
The inductive invariants, and the properties named only under "What is proved" (`KeepsBoot`,
`NoCircularWait` and those about progress among them), hold in these instances too and are left to
the proofs.

The remaining runs each show a sentence of the documentation that the code does not keep; TLC
prints the behaviour.

| Run | Sentence | What the code does |
|---|---|---|
| storage_detection | `measured-boot.md:34`, first boot is detected by an empty blob partition | after a power cut during the setup the partition says nothing about the TPM and the volume; neither state is ever left |
| storage_create | `tpm.c:223`, `cominitTpmSeal()` returns success on success | line 304 tests `rc` instead of `result`; a failed creation is a success with NULL pointers |
| boot_rescue | `README.md:76-78`, rescue shell on any fatal error | the initramfs and its shell are deleted before the steps that can still fail |
| boot_gpt | `README.md:99`, wait and try again if the rootfs is not accessible | the search finds the partition in the table of the disk before its node exists; opening the node is outside the loop |
| metadata_short | `meta.c:63`, an exact amount of bytes is read | the buffer is not advanced after a short read.  Block devices do not return short reads in practice, and the signature check then fails (`AcceptedIsSigned`) |

Others can be read off the models without a run:

* Failing to unseal does not stop the boot (`secure-boot.md:126-128`; `cominit.c:304` logs and goes on).
* An interrupted sleep is not resumed (`cominit.c:421`): `clock_nanosleep()` returns `EINTR` and not
  -1.  `GivesUpLate` therefore excludes interruptions.
* A failed PCR extension is only logged, so that the passphrase of a first boot may be sealed to the
  value without it (`measured-boot.md:16-18` describes the extended value).
* A failed signature check ends in the rescue shell, which `README.md:76` asks for on any fatal
  error and `secure-boot.md:128-129` excludes.
* An empty `pcrExtend=` is PCR 0 (`tpm.c:624`); `README.md:217` asks for a valid index, and
  `ExtendsAsGiven` excludes it.  The index is read in any base, those of `pcrSeal` in base 10.
* `TPM2_PT_PCR_COUNT` (`tpm.c:625`, `648`) is a property tag and larger than any number of PCRs;
  `PolicyIsAsked` is stated for registers that exist.
* A log level of 2^32 and above is truncated before it is compared (`output.c:62`); `PrintsAsAsked`
  excludes it.  After an empty one nothing is printed, where `README.md:281-283` names a default.
  Messages before the end of the arguments are printed with the default level.
* The size of the device and the number of options are computed in 64 bits without a test
  (`meta.c:316`, `363`, `438`); `MappedAsSigned` says nothing of those that do not fit.
* The length of a key in the keyring is that of the key, not of the buffer (`meta.c:410-415`); the
  key files are tested when cominit enrols them, keys of others never.
* A later boot that finds a volume without a token waits at the prompt of `luksOpen`
  (`cryptsetup.c:42-56`), and not for the retry loop or the rescue shell.
* The test for a large offset of a GPT entry (`automount.c:195`) compares with `UINT64_MAX` after the
  wrap-around and never holds.  The entry at the wrapped offset is read.
* A size of -1 passes `keySize <= 0` (`securememory.c:119-121`); `luksFormat` is started, the write
  of the huge buffer fails, and the child is not waited for.  It sees the end of its input and stops.
* If `mlock()` fails, the buffer with the passphrase is freed as it is (`securememory.c:78-98`).
* `cominitTpmMountSecureStorage()` may return 1, where `main()` tests for -1 (`cominit.c:333`); and
  `cominitMkdir()` reads a `stat` buffer that is not filled (`tpm.c:102-103`).

### Bounds

`SecureStorage` and `Device` are finite for any number of boots, so there is no bound on their
number.  Two measurements are enough to have a matching and a mismatching policy, in the extended
and (in `storage`) in another register.  Two passphrases are enough because a seal is only ever
completed with a free handle, hence once: there is one passphrase in use and one that would be new.
`Device` has one PCR and one try; the parts are checked with more in their own runs.
`Tries` is 1 or 2 where the code has 10; the loop treats all attempts but the first and the last
alike, and `AllIntervalsSlept` is proved for every number.  `VolumeSetup` has no bound but the pipe
size and the width of `size_t`, of which only the order matters.  `Metadata` has a region of 7
cells, tables of 16 words, keys of 2 bytes and 4-bit products: texts, tables, keys and products
below, at and above each limit occur.  `Automount` has two disks with up to four entries, offsets
modulo 64, one table whose offset wraps, and one retry.  In `CliArgs` 40 stands for the PCR limit
and 64 for 2^32; both are above the values they are compared with, as in the code.

### Fairness

All modules assume weak fairness of cominit's own steps: cominit is the only user process in the
initramfs, and each call returns.  `VolumeSetup` adds that the children are scheduled too, each by
itself, except a `luksOpen` at its prompt, which needs somebody at the console; `SecureStorage`,
`Boot` and `Device` take it to return with a failure.  Nothing makes a device appear or disappear or the power go away.  `UsedSpec` and
`UsedDevice` add that a device is started again, since "in the end" is about several boots.
`CliArgs` has no liveness property: its loop is over a finite array.

Deadlock is checked in `SecureStorage` and `Device`, which never stop, and in `Boot`, which stutters
in its final states only; the other modules end in a final state.

## What is proved

TLAPS checks the following for every value of the constants that satisfies the assumption named
in each module: `ConfigAssumption` (the configuration names existing PCRs, the handle ships free or
taken by somebody else), `BootAssumption` (options are options, the number of tries is a natural
number), `DeviceAssumption` (the same for the device, whose failures are failures of its parts),
`SizeAssumption` and `KeyAssumption` (a key is not empty and fits the pipe, and -1 as a
`size_t` does not), `MetadataAssumption` (sizes are sizes, a signature fits the region, which is 4 KiB
and far from half of the 64-bit range, and the size of a partition, which the kernel reports in 64
bits, fits into them),
`AutomountAssumption` (every device has a kind and contents, a disk is smaller than the range of
offsets), `ArgsAssumption` (numbers are natural numbers, and an empty one counts as 0).

`SecureStorage_proofs`:

* `SetupInvariant`: `SetupInv` is inductive.  Its heart is that the persistent handle is taken at
  most once and before anything is written.  A boot that gets past
  `cominitTpmSavePrimaryHandle()` therefore found blob and volume blank, and no later boot gets
  there (`HandleInv`, `VolumeInv`).  `MediumInv` says how the medium may lag behind the page cache,
  `KeyInv` that the keyring holds the blob's passphrase and only under the PCR values it was sealed
  with.  None of the properties below is inductive without them.
* `TrustedOpening`, `BlobAndVolumeAgree`, `UnsealedIsOpen`, `TypeCorrect`: consequences of it.
* `DataIsKept`, `SetupIsStable` (a complete setup stays complete, also if `umount()` fails): the action
  properties, from the same invariant.
* `DataIsRecoverable`, `LifecycleRefined`: for devices whose `umount()` works.  The code ignores its
  result, and the condition is needed.
* `NoHalfDoneSetup`, from `WindowInv`, for failures and power cuts outside the window;
  `TrustedBootsMount`, from `TrustedInv`, for devices in which nothing fails.

`Boot_proofs`: `BootInvariant` (`BootInv` and `RetryInv`: how far `main()` has come determines what
it has established), `SignedRootfs`, `InitramfsFreed` (nothing but the initramfs is deleted),
`PanicAfterFreeing`, `AllIntervalsSlept`, `AskedIsSetUp` (from `SetUpInv`), `TypeCorrect`.
`BootIsBounded` (`EndsInTime`): a boot takes at most 16 + 2 * `Tries` steps, counted by `StepsLeft`,
which every step of `main()` lowers and nothing raises.

`Device_proofs`: `DeviceInvariant` (the storage's part of a boot begins after the verification),
`StorageKept` (every step of the device is a step of `SecureStorage` or leaves it alone, so the
theorems above hold for the device), `VerifiedFirst`, `DeviceKeepsData`.  `BootKept` is the refinement
in the other direction (`KeepsBoot`): every step is one of `Boot`, a start of it, or leaves it alone.
It needs the invariants of the storage too: that nothing is mapped while the power is off makes a
restart a start of `Boot`.  With it the theorems about one boot hold in every boot (`EveryBoot`), and
`StorageForSigned` joins both halves: a rootfs has the storage only if `Boot` has mounted it as signed
and `SecureStorage` has opened the volume under the sealed PCR values.  `DeviceInv` says in addition
that both mean the same by a mounted storage and by a running rootfs.

`VolumeSetup_proofs`: `SetupInvariant`, whose parts say that a child that is there is the one
cominit waits for or a `luksFormat` that gets no passphrase (`ChildrenInv`), that only a buffer with
the key has a size that can be written (`BufferInv`), and that the volume is what the finished tools
have made of it, beginning with what the boot has found (`VolumeInv`).  From it `OnlyTheKey`, `OneTool`, `Sequence`,
`OnlyCompleteIsMounted`, `BuffersAreCleared`.  `NobodyIsStuck`, with `PipeInv` (who still has the write
end of the pipe), excludes that cominit and the child wait for each other; `SetupBounded` bounds the
steps of all processes together, in any order.  A tool at its prompt takes no step.

`Metadata_proofs`: `LoadInvariant` (from the verification on, the buffer is not written any more,
and the fields come from it; the keys that cominit has enrolled are those of its files and have
passed the size test, whatever else the keyring held before), and from it
`OnlySignedAccepted`, `KeysFit`, `OptionsFit`.  `TypeCorrect` and `TailIsRead` rest on `ReadInv`: the
read loop begins at the offset that the wrapping subtraction has computed, which is the end of the
partition less the region or is refused.  That cells joined by `FlattenSeq` are words is an induction
over a sequence; it is done with a least counterexample (`LeastNumber`, `FlattenType`), since the
induction rules of the library cannot be used.

`MetadataTables_proofs`: `MapsWhatIsSigned`.  `TableInv` says that the generators work on the table of a
text whose signature is valid, that the loop has processed a beginning of its options, each with
the key of its file, and that the options left are the rest of the table; `HexDecodes` that the
digits written for a key are those of its bytes, and `ProductIsExact` and `SuccessorIsExact` that
nothing is lost where the result fits.  `EveryStepAdvances` (`LoadAdvances`): each step gets to
a later point or shortens its loop.  For the read loop this needs `EndInv`: it ends exactly where the
partition ends, also with short reads, so that no `read()` meets the end of a device that is there.

`Automount_proofs`: `SearchInvariant`.  Entries before the current one do not match (`EntryInv`),
disks the scan is past have no such partition (`PassedInv`), the disk that is remembered is that of
the rootfs (`PlaceInv`).  From it `FirstIsFound`, `StorageIsBeside`, `NothingIsMissed`, `TypeCorrect`.
`EveryStepAdvances` (`SearchAdvances`): each step gets to a later stage (three for each try), past a
name, or on with a disk.  A device that turns up makes one scan longer and starts no attempt.

`CliArgs_proofs`: `ArgsInvariant`: each variable is a function of the last argument of its kind that
has been read, and the selection of the PCRs converted so far.  From it `NodesFollow` (the last
acceptable device node of each kind counts), `ExtendFollows`, `PolicyFollows`, `OutputFollows`,
`TypeCorrect`, for command lines of any length.

Every safety property that a run checks is proved.  Only model-checked are the liveness properties
(`BootEnds`, `BootsIfInTime`, `EventuallyReady`, `StorageGetsReady`, `SetupEnds`, `LoadEnds`,
`SearchEnds`): that a step is possible (`ENABLED`) and that it is taken (fairness) are out of the
prover's reach.  For `BootEnds`, `SetupEnds`, `LoadEnds` and `SearchEnds` the theorems about progress
prove the other half, that there are only so many steps to take; that one can be taken before the
end is what TLC adds.

## What is not modelled

* TPM sessions, contexts and loaded objects, whose failures are those of the operation they serve;
  the locking of memory pages but for a failing `mlock()`; `tpmCtx`, which is not initialised when
  `cominitInitTpm()` fails early (`cominit.c:286`, `320`).
* What is typed at the prompt of `luksOpen`, and how often it asks.
* Cryptography: a signature is valid or not for the bytes it is about, the TPM compares policies,
  LUKS passphrases.
* The characters of text: tokens, device names and numbers are abstract values with the lengths
  and forms the code tells apart.
* The file descriptor of a key file that could not be read is not closed (`keyring.c:108-114`);
  nothing else opens enough files to notice.
* The computation of the wake time in `cominitMicroSleep()`: the clock plus a constant interval.
* The text of messages and of the version, and where messages are written.
* A child that is not waited for, in parallel with the steps after the mount of the storage: it has
  no passphrase and only ends, which `VolumeSetup` shows.
