------------------------------ MODULE Automount ------------------------------
(***************************************************************************)
(* How main() finds the rootfs and the secure storage by the type GUIDs of *)
(* GPT partitions: src/src/automount.c with its callers in                 *)
(* src/src/cominit.c, cominitDiscoverRootfs() with the loop around it and  *)
(* the search for the volume after it.  Devices turn up in /dev while      *)
(* cominit goes through the directory.                                     *)
(*                                                                         *)
(* A GUID is the sequence of its 16 Bytes, either in the order they have   *)
(* on the disk or in the order of the text.  A disk is the GUID found at   *)
(* each offset, and the fields of its GPT header.                          *)
(***************************************************************************)
EXTENDS Naturals, Sequences

CONSTANTS
    Devices,        \* names in /dev
    Kind,           \* for each name: "disk", "blacklisted", "link" or "char"
    LongNames,      \* names that leave no room for a partition number in devicePath
    DigitNames,     \* names that end with a digit
    Layouts,        \* the contents the disks may have: a family of functions of the names
    RootfsGuid,     \* COMINIT_ROOTFS_GUID_TYPE
    StorageGuid,    \* COMINIT_SECURE_STORAGE_GUID_TYPE
    MinEntrySize,   \* GPT_HEADER_DEFAULT_ENTRY_SIZE
    Word,           \* 2^64
    Tries,          \* COMINIT_ROOT_WAIT_TRIES
    FaultSets       \* the sets of operations that may fail, one of which applies

\* What hdr->signature of a GPT header is
GptSignature == "EFI PART"

Guid == [1 .. 16 -> 0 .. 255]
ZeroGuid == [i \in 1 .. 16 |-> 0]

\* A whole disk as the kernel shows it: its size is the number of offsets.
Disk == [signature : {GptSignature, "none"}, blockSize : Nat, partitionEntriesLba : Nat,
         partitionEntrySize : Nat, partitionEntryCount : Nat, guidAt : Seq(Guid)]

ASSUME AutomountAssumption ==
    /\ Kind \in [Devices -> {"disk", "blacklisted", "link", "char"}]
    /\ LongNames \subseteq Devices /\ DigitNames \subseteq Devices
    /\ \A l \in DOMAIN Layouts : Layouts[l] \in [Devices -> Disk]
    /\ \A l \in DOMAIN Layouts : \A d \in Devices : Len(Layouts[l][d].guidAt) < Word
    /\ RootfsGuid \in Guid /\ StorageGuid \in Guid /\ RootfsGuid # StorageGuid
    /\ ZeroGuid \notin {RootfsGuid, StorageGuid}
    /\ MinEntrySize \in Nat \ {0} /\ Word \in Nat /\ Tries \in Nat
    /\ "none" \notin Devices

VARIABLES
    faults,         \* the operations that may fail
    layout,         \* what is on the devices, see disk
    present,        \* names that are in /dev
    rootArg,        \* whether the command line names the rootfs
    pc,             \* what is done next
    want,           \* the partition that is looked for: "rootfs" or "storage"
    atStart,        \* names that were in /dev at opendir()
    unread,         \* names that readdir() has not returned yet
    probe,          \* diskToProbe.diskName, or gptDiskRoot.diskName when only that is searched
    entryIndex,     \* the loop variable of cominitAutomountFindPartitionOnDisk()
    failCount,      \* failed attempts
    gptDiskRoot,    \* gptDiskRoot.diskName
    rootNode,       \* rfsMeta.devicePath
    cryptNode       \* argCtx.devNodeCrypt

scan == <<atStart, unread>>
results == <<gptDiskRoot, rootNode, cryptNode>>
input == <<faults, layout, present, rootArg>>
vars == <<input, pc, want, scan, probe, entryIndex, failCount, results>>

Final == {"done", "rescue"}
Points == Final \cup
    {"discover", "readdir", "gpt", "table", "entry", "found", "missing", "storage"}

disk == Layouts[layout]

\* No node, and a name that snprintf() has cut off.
NoNode == <<"none", "", 0>>
CutNode == <<"none", "cut", 0>>

-----------------------------------------------------------------------------
Init ==
    /\ faults \in FaultSets
    /\ layout \in DOMAIN Layouts
    /\ present \in SUBSET Devices
    /\ rootArg \in {"given", "absent"}
    /\ pc = IF rootArg = "given" THEN "storage" ELSE "discover"
    /\ want = "rootfs"
    /\ atStart = {} /\ unread = {}
    /\ probe = "none" /\ entryIndex = 0 /\ failCount = 0
    /\ gptDiskRoot = "none" /\ rootNode = NoNode /\ cryptNode = NoNode

\* Whether the search goes through /dev or is confined to gptDiskRoot.
Scanning == want = "rootfs" \/ gptDiskRoot = "none"

\* The kernel adds a device.  readdir() may or may not return it to a scan under way.
DeviceAppears ==
    \E d \in Devices \ present :
        /\ present' = present \cup {d}
        /\ \/ UNCHANGED unread
           \/ pc \in {"readdir", "gpt", "table", "entry"} /\ Scanning /\ unread' = unread \cup {d}
        /\ UNCHANGED <<faults, layout, rootArg, pc, want, atStart, probe, entryIndex, failCount,
                       results>>

\* cominitAutomountFindPartition() up to its loop.
opendir ==
    /\ \/ /\ unread' = present /\ atStart' = present
          /\ pc' = "readdir"
       \/ /\ "opendir" \in faults
          /\ pc' = "missing"
          /\ UNCHANGED scan
    /\ UNCHANGED <<input, probe, entryIndex, failCount, results>>

cominitDiscoverRootfs ==
    /\ pc = "discover"
    /\ want' = "rootfs"
    /\ opendir

\* Mutant: symbolic links are followed.
Probed_Links(d) == Kind[d] \in {"disk", "link"}

\* Names that begin with a dot or are blacklisted, symbolic links, and what is not a block
\* device are passed over.
Probed(d) == Kind[d] = "disk"

\* Mutant: the scan stops at the first device that is not probed.
NextName_StopAtOther(d) ==
    IF Probed(d) THEN probe' = d /\ pc' = "gpt" ELSE pc' = "missing" /\ UNCHANGED probe

\* Go to the next name, or probe this one.
NextName(d) ==
    IF Probed(d) THEN probe' = d /\ pc' = "gpt" ELSE pc' = "readdir" /\ UNCHANGED probe

\* The head of the loop of cominitAutomountFindPartition(); lstat() may fail.
readdir ==
    /\ pc = "readdir"
    /\ \/ \E d \in unread :
            /\ unread' = unread \ {d}
            /\ \/ NextName(d)
               \/ "lstat" \in faults /\ pc' = "readdir" /\ UNCHANGED probe
       \/ /\ unread = {}
          /\ pc' = "missing"
          /\ UNCHANGED <<unread, probe>>
    /\ UNCHANGED <<input, want, atStart, entryIndex, failCount, results>>

\* FAILURE of one disk: the next one, or the end if there is only this one.
NextDisk == pc' = IF Scanning THEN "readdir" ELSE "missing"

\* open(), ioctl() and pread() of the header, and its signature.
cominitAutomountFindGpt ==
    /\ pc = "gpt"
    /\ \/ disk[probe].signature = GptSignature /\ pc' = "table"
       \/ (disk[probe].signature # GptSignature \/ "gpt" \in faults) /\ pc' = "readdir"
    /\ UNCHANGED <<input, want, scan, probe, entryIndex, failCount, results>>

EntrySizeValid(d) ==
    d.partitionEntrySize >= MinEntrySize /\ d.partitionEntrySize <= Len(d.guidAt)

\* cominitAutomountFindPartitionOnDisk() up to its loop: open(), the size of the disk, the
\* entry size and malloc().
OpenTable ==
    /\ pc = "table"
    /\ \/ EntrySizeValid(disk[probe]) /\ pc' = "entry" /\ entryIndex' = 0
       \/ (~EntrySizeValid(disk[probe]) \/ "table" \in faults) /\ NextDisk /\ UNCHANGED entryIndex
    /\ UNCHANGED <<input, want, scan, probe, failCount, results>>

\* entryOffsetBytes, in 64 bits.
EntryOffset(d, i) ==
    (((d.partitionEntriesLba * d.blockSize) % Word) + i * d.partitionEntrySize) % Word

\* The offset is not behind the disk and pread() delivers a whole entry.
EntryReadable(d, i) == EntryOffset(d, i) + d.partitionEntrySize <= Len(d.guidAt)

\* Mutant: the Bytes are taken in the order they have on the disk.
FormatGuid_AsStored(raw) == raw

\* cominitAutomountFormatGuid(): the first three fields are little-endian.
FormatGuid(raw) ==
    <<raw[4], raw[3], raw[2], raw[1], raw[6], raw[5], raw[8], raw[7]>> \o SubSeq(raw, 9, 16)

WantedGuid == IF want = "rootfs" THEN RootfsGuid ELSE StorageGuid

\* strcasecmp() of the texts; an entry that is all zero is not in use.
TypeMatches(raw) == raw # ZeroGuid /\ FormatGuid(raw) = WantedGuid

\* The cell of the disk where entry i begins.
EntryAt(d, i) == d.guidAt[EntryOffset(d, i) + 1]

\* One round of the loop over the partition entries.
ReadEntry ==
    /\ pc = "entry"
    /\ LET d == disk[probe]
       IN  \/ /\ entryIndex < d.partitionEntryCount
              /\ EntryReadable(d, entryIndex)
              /\ IF TypeMatches(EntryAt(d, entryIndex))
                 THEN pc' = "found" /\ UNCHANGED entryIndex
                 ELSE pc' = "entry" /\ entryIndex' = entryIndex + 1
           \/ /\ \/ entryIndex >= d.partitionEntryCount
                 \/ ~EntryReadable(d, entryIndex)
                 \/ "pread" \in faults
              /\ NextDisk
              /\ UNCHANGED entryIndex
    /\ UNCHANGED <<input, want, scan, probe, failCount, results>>

\* Mutant: the index is counted from zero.
BuildPartitionNode_FromZero(d, i) == <<d, IF d \in DigitNames THEN "p" ELSE "", i - 1>>

\* cominitAutomountBuildPartitionNode(): `sda' has `sda1', `mmcblk0' has `mmcblk0p1'.
BuildPartitionNode(d, i) == <<d, IF d \in DigitNames THEN "p" ELSE "", i>>

\* The copy of diskToProbe to the caller's structure, which for the volume is not looked at
\* again.
Remember ==
    gptDiskRoot' = IF want = "rootfs" /\ probe \notin LongNames THEN probe ELSE gptDiskRoot

\* An entry matches.  A name that does not fit leaves its beginning in the caller's buffer,
\* and the search goes on.
PartitionFound ==
    LET node == IF probe \in LongNames THEN CutNode ELSE BuildPartitionNode(probe, entryIndex + 1)
    IN  /\ pc = "found"
        /\ rootNode' = IF want = "rootfs" THEN node ELSE rootNode
        /\ cryptNode' = IF want = "storage" THEN node ELSE cryptNode
        /\ Remember
        /\ IF probe \in LongNames
           THEN NextDisk
           ELSE pc' = IF want = "rootfs" THEN "storage" ELSE "done"
        /\ UNCHANGED <<input, want, scan, probe, entryIndex, failCount>>

\* Mutant: one attempt more.
MayRetry_OneMore == failCount <= Tries

MayRetry == failCount < Tries

\* Mutant: an attempt that fails is not counted.
CountFailure_Dropped == UNCHANGED failCount

CountFailure == failCount' = failCount + 1

\* FAILURE: main() waits and tries again for the rootfs, and goes on without the volume.
NotFound ==
    /\ pc = "missing"
    /\ \/ want = "storage" /\ pc' = "done" /\ UNCHANGED failCount
       \/ want = "rootfs" /\ MayRetry /\ CountFailure /\ pc' = "discover"
       \/ want = "rootfs" /\ ~MayRetry /\ pc' = "rescue" /\ UNCHANGED failCount
    /\ UNCHANGED <<input, want, scan, probe, entryIndex, results>>

\* Mutant: the volume is always looked for on all disks.
ConfinedToRootDisk_Never == FALSE

\* gptDiskRoot.diskName is set only if the rootfs was found through the GPT.
ConfinedToRootDisk == gptDiskRoot # "none"

\* main() after the rootfs has been verified, if the command line does not name the volume.
FindStorage ==
    /\ pc = "storage"
    /\ want' = "storage"
    /\ IF ConfinedToRootDisk
       THEN /\ probe' = gptDiskRoot
            /\ pc' = "table"
            /\ UNCHANGED <<input, scan, entryIndex, failCount, results>>
       ELSE opendir

cominitStep ==
    \/ cominitDiscoverRootfs \/ readdir \/ cominitAutomountFindGpt \/ OpenTable \/ ReadEntry
    \/ PartitionFound \/ NotFound \/ FindStorage

Next == cominitStep \/ DeviceAppears

Spec == Init /\ [][Next]_vars

\* cominit runs alone, every call returns, and readdir() comes to an end.
FairSpec == Spec /\ WF_vars(cominitStep)

-----------------------------------------------------------------------------
(* Every variable has its type. *)
TypeOK ==
    /\ faults \in FaultSets /\ layout \in DOMAIN Layouts /\ present \subseteq Devices
    /\ rootArg \in {"given", "absent"} /\ pc \in Points /\ want \in {"rootfs", "storage"}
    /\ atStart \subseteq present /\ unread \subseteq present
    /\ probe \in present \cup {"none"} /\ entryIndex \in Nat /\ failCount \in 0 .. Tries
    /\ gptDiskRoot \in present \cup {"none"}
    /\ {rootNode, cryptNode} \subseteq (Devices \cup {"none"}) \X {"", "p", "cut"} \X Nat

\* The order in which the Bytes of a GUID are stored, as UEFI defines it.
Stored(g) ==
    [i \in 1 .. 16 |-> CASE i \in 1 .. 4 -> g[5 - i] [] i \in 5 .. 6 -> g[11 - i]
                         [] i \in 7 .. 8 -> g[15 - i] [] i \in 9 .. 16 -> g[i]]

\* The table lies on the disk as a whole, and its entries in exact arithmetic.
TableStart(d) == d.partitionEntriesLba * d.blockSize
TableOnDisk(d) ==
    TableStart(d) + d.partitionEntryCount * d.partitionEntrySize <= Len(d.guidAt)
HasType(d, i, g) == d.guidAt[TableStart(d) + i * d.partitionEntrySize + 1] = Stored(g)

\* The node is that of the first partition with this type on one of the disks.
IsFirstOfType(node, g) ==
    \E d \in present : \E i \in 0 .. disk[d].partitionEntryCount - 1 :
        /\ Kind[d] = "disk" /\ disk[d].signature = GptSignature
        /\ node = <<d, IF d \in DigitNames THEN "p" ELSE "", i + 1>>
        /\ TableOnDisk(disk[d]) =>
              HasType(disk[d], i, g) /\ \A j \in 0 .. i - 1 : ~HasType(disk[d], j, g)

(***************************************************************************)
(* Whatever the order of /dev, the devices that turn up and the disks that *)
(* are passed over, the rootfs and the volume that are found are the first *)
(* partitions of their types on a disk with a GPT.  The 64-bit offsets are *)
(* those of the entries wherever the table lies on the disk; nothing is    *)
(* said of a table that does not.  A rootfs whose name was cut off is none *)
(* that main() goes on with (automount.c:147, cominit.c:245); the cut name *)
(* of a volume stays in devNodeCrypt (cominit.c:279).                      *)
(***************************************************************************)
FoundIsFirst ==
    /\ rootNode \notin {NoNode, CutNode} => IsFirstOfType(rootNode, RootfsGuid)
    /\ cryptNode \notin {NoNode, CutNode} => IsFirstOfType(cryptNode, StorageGuid)
    /\ rootArg = "absent" /\ (pc = "storage" \/ want = "storage") => rootNode[1] # "none"

(***************************************************************************)
(* If the rootfs was found through the GPT, the volume is on the same      *)
(* disk: gptDiskRoot describes the disk of the rootfs and no other that    *)
(* was probed before, in this attempt or in an earlier one.                *)
(***************************************************************************)
StorageBesideRootfs ==
    pc = "done" /\ rootArg = "absent" /\ cryptNode \notin {NoNode, CutNode} =>
        cryptNode[1] = rootNode[1]

\* This disk has no partition that could be found.
Lacks(d) ==
    /\ Kind[d] = "disk" /\ disk[d].signature = GptSignature /\ d \notin LongNames
    /\ EntrySizeValid(disk[d]) /\ TableOnDisk(disk[d])
    => \A i \in 0 .. disk[d].partitionEntryCount - 1 : ~HasType(disk[d], i, WantedGuid)

(***************************************************************************)
(* A search that fails has missed nothing: no disk that was there when it  *)
(* began has a partition of the type that was looked for, or the name of   *)
(* the node is too long.                                                   *)
(***************************************************************************)
MissingIsAbsent ==
    pc = "missing" /\ faults = {} => \A d \in IF Scanning THEN atStart ELSE {gptDiskRoot} : Lacks(d)

\* What is probed, and the disk of the rootfs, are disks with a GPT.
ProbeInv ==
    /\ layout \in DOMAIN Layouts /\ present \subseteq Devices
    /\ unread \subseteq present /\ atStart \subseteq present
    /\ want \in {"rootfs", "storage"} /\ entryIndex \in Nat
    /\ pc \in {"gpt", "table", "entry", "found"} => probe \in present /\ Kind[probe] = "disk"
    /\ pc \in {"table", "entry", "found"} => disk[probe].signature = GptSignature
    /\ gptDiskRoot # "none" =>
          /\ gptDiskRoot \in present /\ Kind[gptDiskRoot] = "disk"
          /\ disk[gptDiskRoot].signature = GptSignature

\* The entries before entryIndex do not match.
EntryInv ==
    LET d == disk[probe]
    IN  /\ pc \in {"entry", "found"} =>
              /\ EntrySizeValid(d)
              /\ \A j \in 0 .. entryIndex - 1 : EntryReadable(d, j) => ~TypeMatches(EntryAt(d, j))
        /\ pc = "found" =>
              /\ entryIndex < d.partitionEntryCount /\ EntryReadable(d, entryIndex)
              /\ TypeMatches(EntryAt(d, entryIndex))

\* gptDiskRoot is the disk of the rootfs, and then nothing else is searched for the volume.
PlaceInv ==
    /\ want = "rootfs" /\ pc # "storage" => gptDiskRoot = "none"
    /\ pc \in {"discover", "storage"} => want = "rootfs"
    /\ rootArg = "absent" /\ (want = "storage" \/ pc = "storage") =>
          gptDiskRoot # "none" /\ rootNode[1] = gptDiskRoot
    /\ want = "storage" /\ gptDiskRoot # "none" =>
          /\ pc \in {"table", "entry", "found", "missing", "done"}
          /\ pc \in {"table", "entry", "found"} => probe = gptDiskRoot
    /\ rootArg = "absent" /\ cryptNode \notin {NoNode, CutNode} =>
          want = "storage" /\ cryptNode[1] = gptDiskRoot

\* The disks that readdir() has returned, but for the one that is being probed.
Behind == {d \in atStart : d \notin unread /\ ~(pc \in {"gpt", "table", "entry", "found"} /\ d = probe)}

\* Without failures, no disk that the scan is past has a partition to be found.
PassedInv ==
    faults = {} =>
        /\ Scanning /\ pc \in {"readdir", "gpt", "table", "entry", "found", "missing"} =>
              \A d \in Behind : Lacks(d)
        /\ Scanning /\ pc = "missing" => unread = {}
        /\ ~Scanning /\ pc = "missing" => Lacks(gptDiskRoot)

(***************************************************************************)
(* The inductive invariant: where a search under way has come to decides   *)
(* what it has seen, also in later attempts and with new devices.          *)
(***************************************************************************)
SearchInv == ProbeInv /\ EntryInv /\ PlaceInv /\ PassedInv /\ FoundIsFirst

(***************************************************************************)
(* The search for both partitions comes to an end, with the rootfs or in   *)
(* the rescue shell, also while devices turn up.                           *)
(***************************************************************************)
SearchEnds == <>(pc \in Final)

\* The stages of both searches, the greatest first: for each attempt its beginning, its scan
\* and its failure, then the same for the volume.
Stage ==
    LET attempts == 3 * (Tries - failCount)
    IN  CASE pc \in Final -> 0
          [] want = "storage" /\ pc = "missing" -> 1
          [] want = "storage" /\ pc \in Points \ (Final \cup {"missing"}) -> 2
          [] want = "rootfs" /\ pc = "storage" -> 3
          [] want = "rootfs" /\ pc = "missing" -> 4 + attempts
          [] want = "rootfs" /\ pc \in {"readdir", "gpt", "table", "entry", "found"} -> 5 + attempts
          [] want = "rootfs" /\ pc = "discover" -> 6 + attempts

\* The points of the scan in the order in which it comes to them with each disk.
Ahead ==
    [p \in Points |->
        CASE p = "gpt" -> 4 [] p = "table" -> 3 [] p = "entry" -> 2 [] p = "found" -> 1
          [] OTHER -> 0]

(***************************************************************************)
(* Every step of the search gets on: to a later stage, of which there are  *)
(* at most three for each try, past a name in /dev, or with a disk, by one *)
(* of its entries.  Only new devices make a scan longer, and never another *)
(* attempt.                                                                *)
(***************************************************************************)
SearchAdvances ==
    /\ [](Stage \in 0 .. 6 + 3 * Tries)
    /\ [][Stage' <= Stage]_vars
    /\ [][cominitStep /\ Stage' = Stage =>
            \/ unread' # unread /\ unread' \subseteq unread
            \/ unread' = unread /\ Ahead[pc'] < Ahead[pc]
            \/ /\ pc = "entry" /\ UNCHANGED <<unread, pc, probe>>
               /\ entryIndex' = entryIndex + 1 /\ entryIndex' <= disk[probe].partitionEntryCount]_vars
==============================================================================
