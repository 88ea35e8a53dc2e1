-------------------------- MODULE Automount_proofs ---------------------------
(* Proofs of the safety properties of Automount, for all disks, names and orders of /dev. *)
EXTENDS Automount, SequenceTheorems, TLAPS

\* A number below the modulus is its own remainder.
LEMMA SmallMod ==
  ASSUME NEW a \in Nat, NEW w \in Nat, a < w
  PROVE  a % w = a
  OBVIOUS

\* Putting the Bytes of a stored GUID in order is the inverse of storing it.
LEMMA FormatOfBytes ==
  ASSUME NEW Byte, NEW raw \in [1 .. 16 -> Byte], NEW g \in [1 .. 16 -> Byte]
  PROVE  FormatGuid(raw) = g <=> raw = Stored(g)
  <1> DEFINE first == <<raw[4], raw[3], raw[2], raw[1], raw[6], raw[5], raw[8], raw[7]>>
             last == SubSeq(raw, 9, 16)
  <1>0. \A i \in 1 .. 16 : raw[i] \in Byte /\ g[i] \in Byte
    OBVIOUS
  <1>1. first \in Seq(Byte) /\ Len(first) = 8
    BY <1>0
  <1>2. last \in Seq(Byte) /\ Len(last) = 8 /\ \A i \in 1 .. 8 : last[i] = raw[i + 8]
    <2>1. \A i \in 9 .. 16 : raw[i] \in Byte
      BY <1>0
    <2> QED
      BY <2>1, SubSeqProperties
  <1>3. /\ FormatGuid(raw) \in Seq(Byte) /\ Len(FormatGuid(raw)) = 16
        /\ \A i \in 1 .. 8 : FormatGuid(raw)[i] = first[i]
        /\ \A i \in 9 .. 16 : FormatGuid(raw)[i] = last[i - 8]
    <2> HIDE DEF first, last
    <2>1. FormatGuid(raw) = first \o last
      BY DEF FormatGuid, first, last
    <2>2. /\ first \o last \in Seq(Byte) /\ Len(first \o last) = Len(first) + Len(last)
          /\ \A i \in 1 .. Len(first) + Len(last) :
                (first \o last)[i] = IF i <= Len(first) THEN first[i] ELSE last[i - Len(first)]
      BY <1>1, <1>2, ConcatProperties, ZenonT(30)
    <2> QED
      BY <1>1, <1>2, <2>1, <2>2
  <1>4. FormatGuid(raw) \in [1 .. 16 -> Byte]
    BY <1>3
  <1>5. /\ first[1] = raw[4] /\ first[2] = raw[3] /\ first[3] = raw[2] /\ first[4] = raw[1]
        /\ first[5] = raw[6] /\ first[6] = raw[5] /\ first[7] = raw[8] /\ first[8] = raw[7]
    OBVIOUS
  <1>6. FormatGuid(raw) = g <=> \A i \in 1 .. 16 : FormatGuid(raw)[i] = g[i]
    BY <1>4
  <1>7. Stored(g) \in [1 .. 16 -> Byte]
    BY <1>0 DEF Stored
  <1>8. raw = Stored(g) <=> \A i \in 1 .. 16 : raw[i] = Stored(g)[i]
    BY <1>7
  <1>9. /\ Stored(g)[1] = g[4] /\ Stored(g)[2] = g[3] /\ Stored(g)[3] = g[2] /\ Stored(g)[4] = g[1]
        /\ Stored(g)[5] = g[6] /\ Stored(g)[6] = g[5] /\ Stored(g)[7] = g[8] /\ Stored(g)[8] = g[7]
        /\ \A i \in 9 .. 16 : Stored(g)[i] = g[i]
    BY DEF Stored
  <1>10. \A i \in 9 .. 16 : FormatGuid(raw)[i] = raw[i]
    BY <1>2, <1>3
  <1>11. /\ FormatGuid(raw)[1] = raw[4] /\ FormatGuid(raw)[2] = raw[3]
         /\ FormatGuid(raw)[3] = raw[2] /\ FormatGuid(raw)[4] = raw[1]
         /\ FormatGuid(raw)[5] = raw[6] /\ FormatGuid(raw)[6] = raw[5]
         /\ FormatGuid(raw)[7] = raw[8] /\ FormatGuid(raw)[8] = raw[7]
    <2> HIDE DEF first, last
    <2> QED BY <1>3, <1>5
  <1> DEFINE f == FormatGuid(raw)
             s == Stored(g)
  <1> HIDE DEF first, last, f, s
  <1>12. ASSUME \A i \in 1 .. 16 : f[i] = g[i], NEW i \in 1 .. 16 PROVE raw[i] = s[i]
    BY <1>9, <1>10, <1>11, <1>12 DEF f, s
  <1>13. ASSUME \A i \in 1 .. 16 : raw[i] = s[i], NEW i \in 1 .. 16 PROVE f[i] = g[i]
    BY <1>9, <1>10, <1>11, <1>13 DEF f, s
  <1> QED
    BY <1>6, <1>8, <1>12, <1>13 DEF f, s

\* The same for Bytes.
LEMMA FormatIsInverse ==
  ASSUME NEW raw \in Guid, NEW g \in Guid
  PROVE  FormatGuid(raw) = g <=> raw = Stored(g)
  <1> DEFINE Byte == 0 .. 255
  <1>1. raw \in [1 .. 16 -> Byte] /\ g \in [1 .. 16 -> Byte]
    BY ZenonT(30) DEF Guid
  <1> HIDE DEF Byte
  <1> QED
    BY <1>1, FormatOfBytes, SMTT(20)

\* Entries before the last end before the table does.
LEMMA EntryEnds ==
  ASSUME NEW size \in Nat, NEW count \in Nat, NEW i \in 0 .. count - 1
  PROVE  i * size + size <= count * size /\ i * size \in Nat /\ count * size \in Nat
  <1>1. i + 1 <= count /\ i \in Nat
    OBVIOUS
  <1>2. (i + 1) * size <= count * size
    BY <1>1
  <1>3. (i + 1) * size = i * size + size
    BY <1>1
  <1> QED
    BY <1>1, <1>2, <1>3

\* On a table that lies on the disk, nothing wraps around.
LEMMA ExactOffset ==
  ASSUME NEW d \in Disk, Len(d.guidAt) < Word, TableOnDisk(d), EntrySizeValid(d),
         NEW i \in 0 .. d.partitionEntryCount - 1
  PROVE  /\ EntryOffset(d, i) = TableStart(d) + i * d.partitionEntrySize
         /\ EntryReadable(d, i)
         /\ EntryOffset(d, i) + 1 \in 1 .. Len(d.guidAt)
  <1> DEFINE start == d.partitionEntriesLba * d.blockSize
             size == d.partitionEntrySize
             count == d.partitionEntryCount
             n == Len(d.guidAt)
  <1>1. /\ d.partitionEntriesLba \in Nat /\ d.blockSize \in Nat
        /\ size \in Nat /\ count \in Nat /\ d.guidAt \in Seq(Guid)
    BY DEF Disk
  <1>2. start \in Nat /\ n \in Nat
    BY <1>1
  <1>3. i * size + size <= count * size /\ i * size \in Nat /\ count * size \in Nat
    BY <1>1, EntryEnds, ZenonT(30)
  <1>4. start + count * size <= n /\ n < Word /\ size >= MinEntrySize
    BY DEF TableOnDisk, TableStart, EntrySizeValid
  <1>5. MinEntrySize \in Nat \ {0} /\ Word \in Nat
    BY AutomountAssumption
  <1>6. start + i * size + size <= n /\ 1 <= size
    <2> HIDE DEF start, size, count, n
    <2> QED BY <1>1, <1>2, <1>3, <1>4, <1>5
  <1>7. ((start % Word) + i * size) % Word = start + i * size
    <2> DEFINE p == i * size
    <2>1. p \in Nat /\ start + p + size <= n
      BY <1>3, <1>6
    <2> HIDE DEF start, p, n, size
    <2>2. start < Word /\ start + p < Word /\ start + p \in Nat
      BY <1>1, <1>2, <1>4, <1>5, <2>1
    <2>3. start % Word = start /\ (start + p) % Word = start + p
      BY <1>2, <1>5, <2>2, SmallMod
    <2> QED
      BY <2>3 DEF p
  <1>8. EntryOffset(d, i) = start + i * size
    BY <1>7 DEF EntryOffset
  <1> QED
    <2> DEFINE p == i * size
    <2>1. p \in Nat /\ EntryOffset(d, i) = start + p /\ start + p + size <= n /\ 1 <= size
      BY <1>3, <1>6, <1>8
    <2>2. EntryOffset(d, i) = TableStart(d) + p
      BY <2>1 DEF TableStart
    <2>3. EntryOffset(d, i) + size <= n /\ EntryOffset(d, i) + 1 \in 1 .. n
      <3> HIDE DEF start, size, p, n
      <3> QED BY <1>1, <1>2, <2>1
    <2> QED
      BY <2>2, <2>3 DEF EntryReadable

\* What cominit compares is whether the entry has the type.
LEMMA MatchIsType ==
  ASSUME NEW d \in Disk, Len(d.guidAt) < Word, TableOnDisk(d), EntrySizeValid(d),
         NEW i \in 0 .. d.partitionEntryCount - 1
  PROVE  TypeMatches(EntryAt(d, i)) <=> HasType(d, i, WantedGuid)
  <1> DEFINE raw == EntryAt(d, i)
  <1>1. raw \in Guid
    <2>1. d.guidAt \in Seq(Guid)
      BY DEF Disk
    <2> QED
      BY <2>1, ExactOffset, ElementOfSeq DEF EntryAt
  <1>2. raw = d.guidAt[TableStart(d) + i * d.partitionEntrySize + 1]
    BY ExactOffset DEF EntryAt
  <1>3. WantedGuid \in Guid /\ WantedGuid # ZeroGuid
    BY AutomountAssumption DEF WantedGuid
  <1>4. ZeroGuid # Stored(WantedGuid)
    <2>1. ASSUME ZeroGuid = Stored(WantedGuid) PROVE WantedGuid = ZeroGuid
      <3>1. ZeroGuid \in Guid
        BY DEF ZeroGuid, Guid
      <3>2. FormatGuid(ZeroGuid) = WantedGuid /\ FormatGuid(ZeroGuid) = ZeroGuid
        <4>1. FormatGuid(ZeroGuid) = WantedGuid
          BY <1>3, <2>1, <3>1, FormatIsInverse
        <4>2. ZeroGuid = Stored(ZeroGuid)
          BY DEF ZeroGuid, Stored
        <4> QED
          BY <3>1, <4>1, <4>2, FormatIsInverse
      <3> QED
        BY <3>2
    <2> QED
      BY <1>3, <2>1
  <1> HIDE DEF raw
  <1>5. FormatGuid(raw) = WantedGuid <=> raw = Stored(WantedGuid)
    BY <1>1, <1>3, FormatIsInverse
  <1> QED
    BY <1>2, <1>4, <1>5 DEF TypeMatches, HasType, raw
-----------------------------------------------------------------------------
\* The disks of a layout are disks.
LEMMA DiskType ==
  ASSUME ProbeInv, NEW d \in Devices
  PROVE  disk[d] \in Disk /\ Len(disk[d].guidAt) < Word
  BY AutomountAssumption DEF ProbeInv, disk

\* The entry that matches is the first one with the type.
LEMMA FoundIsType ==
  ASSUME ProbeInv, EntryInv, pc = "found"
  PROVE  /\ entryIndex \in 0 .. disk[probe].partitionEntryCount - 1
         /\ TableOnDisk(disk[probe]) =>
               /\ HasType(disk[probe], entryIndex, WantedGuid)
               /\ \A j \in 0 .. entryIndex - 1 : ~HasType(disk[probe], j, WantedGuid)
  <1> DEFINE d == disk[probe]
  <1>1. d \in Disk /\ Len(d.guidAt) < Word
    BY DiskType DEF ProbeInv
  <1>2. /\ EntrySizeValid(d) /\ entryIndex \in Nat /\ entryIndex < d.partitionEntryCount
        /\ TypeMatches(EntryAt(d, entryIndex))
        /\ \A j \in 0 .. entryIndex - 1 : EntryReadable(d, j) => ~TypeMatches(EntryAt(d, j))
    BY DEF EntryInv, ProbeInv
  <1>3. d.partitionEntryCount \in Nat
    BY <1>1 DEF Disk
  <1> HIDE DEF d
  <1>4. entryIndex \in 0 .. d.partitionEntryCount - 1
    BY <1>2, <1>3
  <1>5. ASSUME TableOnDisk(d) PROVE HasType(d, entryIndex, WantedGuid)
    BY <1>1, <1>2, <1>4, <1>5, MatchIsType
  <1>6. ASSUME TableOnDisk(d), NEW j \in 0 .. entryIndex - 1 PROVE ~HasType(d, j, WantedGuid)
    <2>1. j \in 0 .. d.partitionEntryCount - 1
      BY <1>2, <1>3
    <2>2. EntryReadable(d, j) /\ (TypeMatches(EntryAt(d, j)) <=> HasType(d, j, WantedGuid))
      BY <1>1, <1>2, <1>6, <2>1, MatchIsType, ExactOffset
    <2> QED
      BY <1>2, <2>2
  <1> QED
    BY <1>4, <1>5, <1>6 DEF d

\* A table that has been read to its end has no entry of the type.
LEMMA EndOfTable ==
  ASSUME ProbeInv, EntryInv, pc = "entry",
         \/ entryIndex >= disk[probe].partitionEntryCount
         \/ ~EntryReadable(disk[probe], entryIndex)
  PROVE  Lacks(probe)
  <1> DEFINE d == disk[probe]
  <1>1. d \in Disk /\ Len(d.guidAt) < Word
    BY DiskType DEF ProbeInv
  <1>2. /\ EntrySizeValid(d) /\ entryIndex \in Nat
        /\ \A j \in 0 .. entryIndex - 1 : EntryReadable(d, j) => ~TypeMatches(EntryAt(d, j))
    BY DEF EntryInv, ProbeInv
  <1>3. d.partitionEntryCount \in Nat
    BY <1>1 DEF Disk
  <1>a. entryIndex >= d.partitionEntryCount \/ ~EntryReadable(d, entryIndex)
    OBVIOUS
  <1> HIDE DEF d
  <1>4. ASSUME TableOnDisk(d), NEW j \in 0 .. d.partitionEntryCount - 1
        PROVE  ~HasType(d, j, WantedGuid)
    <2>1. entryIndex >= d.partitionEntryCount
      <3>1. CASE entryIndex < d.partitionEntryCount
        <4>1. entryIndex \in 0 .. d.partitionEntryCount - 1
          BY <1>2, <1>3, <3>1
        <4> QED
          BY <1>1, <1>2, <1>4, <1>a, <1>3, <3>1, <4>1, ExactOffset
      <3> QED
        BY <1>2, <1>3, <3>1
    <2>2. j \in 0 .. entryIndex - 1
      BY <1>2, <1>3, <2>1
    <2>3. EntryReadable(d, j) /\ (TypeMatches(EntryAt(d, j)) <=> HasType(d, j, WantedGuid))
      BY <1>1, <1>2, <1>4, MatchIsType, ExactOffset
    <2> QED
      BY <1>2, <2>2, <2>3
  <1> QED
    BY <1>4 DEF d, Lacks

\* The contents of the disks stay, and so does what follows from them.
LEMMA Constant ==
  ASSUME [Next]_vars
  PROVE  disk' = disk /\ UNCHANGED <<faults, layout, rootArg>> /\ present \subseteq present'
  BY SMTT(20) DEF Next, vars, input, disk, cominitStep, cominitDiscoverRootfs, readdir, opendir,
         cominitAutomountFindGpt, OpenTable, ReadEntry, PartitionFound, NotFound, FindStorage,
         DeviceAppears

\* Every step probes only disks with a GPT.
LEMMA ProbeStep == SearchInv /\ [Next]_vars => ProbeInv'
  <1> SUFFICES ASSUME SearchInv, [Next]_vars PROVE ProbeInv'
    OBVIOUS
  <1>0. disk' = disk /\ UNCHANGED <<faults, layout, rootArg>> /\ present \subseteq present'
    BY Constant
  <1>a. ProbeInv /\ PlaceInv
    BY DEF SearchInv
  <1>b. 0 \in Nat /\ entryIndex \in Nat /\ entryIndex + 1 \in Nat
    BY <1>a DEF ProbeInv
  <1> USE <1>0, <1>a DEF ProbeInv, PlaceInv, input, scan, results, Scanning
  <1>1. CASE DeviceAppears BY <1>1 DEF DeviceAppears
  <1>2. CASE cominitDiscoverRootfs BY <1>2 DEF cominitDiscoverRootfs, opendir
  <1>3. CASE readdir BY <1>3 DEF readdir, NextName, Probed
  <1>4. CASE cominitAutomountFindGpt BY <1>4 DEF cominitAutomountFindGpt
  <1>5. CASE OpenTable
    <2>1. /\ pc = "table" /\ pc' \in {"entry", "readdir", "missing"}
          /\ UNCHANGED <<present, want, scan, probe, gptDiskRoot>>
      BY <1>5 DEF OpenTable, NextDisk
    <2>2. entryIndex' \in Nat
      BY <1>5, <1>b, Zenon DEF OpenTable
    <2> QED BY <2>1, <2>2
  <1>6. CASE ReadEntry
    <2>1. entryIndex' \in Nat
      BY <1>6, <1>b, Zenon DEF ReadEntry
    <2>2. /\ pc = "entry" /\ pc' \in {"found", "entry", "readdir", "missing"}
          /\ UNCHANGED <<present, want, scan, probe, gptDiskRoot>>
      BY <1>6 DEF ReadEntry, NextDisk
    <2> QED BY <2>1, <2>2
  <1>7. CASE PartitionFound BY <1>7, ZenonT(30) DEF PartitionFound, NextDisk, Remember, BuildPartitionNode
  <1>8. CASE NotFound BY <1>8 DEF NotFound, MayRetry, CountFailure
  <1>9. CASE FindStorage BY <1>9 DEF FindStorage, opendir, ConfinedToRootDisk
  <1>10. CASE UNCHANGED vars BY <1>10, SMTT(20) DEF vars
  <1> QED
    BY <1>1, <1>2, <1>3, <1>4, <1>5, <1>6, <1>7, <1>8, <1>9, <1>10 DEF Next, cominitStep

\* Every step keeps the volume beside the rootfs.
LEMMA PlaceStep == SearchInv /\ [Next]_vars => PlaceInv'
  <1> SUFFICES ASSUME SearchInv, [Next]_vars PROVE PlaceInv'
    OBVIOUS
  <1>0. disk' = disk /\ UNCHANGED <<faults, layout, rootArg>> /\ present \subseteq present'
    BY Constant
  <1>a. ProbeInv /\ PlaceInv
    BY DEF SearchInv
  <1> USE <1>0, <1>a DEF ProbeInv, PlaceInv, input, scan, results, Scanning, NoNode, CutNode
  <1>1. CASE DeviceAppears BY <1>1, ZenonT(30) DEF DeviceAppears
  <1>2. CASE cominitDiscoverRootfs BY <1>2, ZenonT(30) DEF cominitDiscoverRootfs, opendir
  <1>3. CASE readdir BY <1>3, ZenonT(30) DEF readdir, NextName, Probed
  <1>4. CASE cominitAutomountFindGpt BY <1>4, ZenonT(30) DEF cominitAutomountFindGpt
  <1>5. CASE OpenTable BY <1>5, ZenonT(30) DEF OpenTable, NextDisk
  <1>6. CASE ReadEntry BY <1>6, ZenonT(30) DEF ReadEntry, NextDisk
  <1>7. CASE PartitionFound
    <2> DEFINE node == IF probe \in LongNames THEN CutNode ELSE BuildPartitionNode(probe, entryIndex + 1)
    <2> HIDE DEF node
    <2>1. /\ pc = "found"
          /\ rootNode' = IF want = "rootfs" THEN node ELSE rootNode
          /\ cryptNode' = IF want = "storage" THEN node ELSE cryptNode
          /\ gptDiskRoot' = IF want = "rootfs" /\ probe \notin LongNames THEN probe ELSE gptDiskRoot
          /\ pc' = IF probe \in LongNames
                   THEN IF want = "rootfs" \/ gptDiskRoot = "none" THEN "readdir" ELSE "missing"
                   ELSE IF want = "rootfs" THEN "storage" ELSE "done"
          /\ UNCHANGED <<want, probe>>
      BY <1>7, ZenonT(30) DEF PartitionFound, NextDisk, Remember, node
    <2>2. IF probe \in LongNames THEN node = CutNode ELSE node[1] = probe
      BY ZenonT(30) DEF BuildPartitionNode, node
    <2>3. probe \in present /\ probe # "none"
      BY <2>1, AutomountAssumption, ZenonT(30)
    <2> HIDE DEF NoNode, CutNode
    <2>4. CASE want = "rootfs" BY <2>1, <2>2, <2>3, <2>4
    <2>5. CASE want = "storage" BY <2>1, <2>2, <2>3, <2>5
    <2> QED BY <2>4, <2>5
  <1>8. CASE NotFound BY <1>8, ZenonT(30) DEF NotFound, MayRetry, CountFailure
  <1>9. CASE FindStorage BY <1>9, ZenonT(30) DEF FindStorage, opendir, ConfinedToRootDisk
  <1>10. CASE UNCHANGED vars BY <1>10, ZenonT(30) DEF vars
  <1> QED
    BY <1>1, <1>2, <1>3, <1>4, <1>5, <1>6, <1>7, <1>8, <1>9, <1>10, ZenonT(30) DEF Next, cominitStep

\* Every step knows the entries behind it.
LEMMA EntryStep == SearchInv /\ [Next]_vars => EntryInv'
  <1> SUFFICES ASSUME SearchInv, [Next]_vars PROVE EntryInv'
    OBVIOUS
  <1>0. disk' = disk /\ UNCHANGED <<faults, layout, rootArg>> /\ present \subseteq present'
    BY Constant
  <1>a. ProbeInv /\ EntryInv
    BY DEF SearchInv
  <1>b. 0 \in Nat /\ entryIndex \in Nat /\ entryIndex + 1 \in Nat
    BY <1>a DEF ProbeInv
  <1> USE <1>0, <1>a DEF ProbeInv, EntryInv, input, scan, results
  <1>1. CASE DeviceAppears
    <2>1. \A raw : TypeMatches(raw)' <=> TypeMatches(raw)
      BY <1>1 DEF DeviceAppears, TypeMatches, WantedGuid
    <2> QED BY <1>1, <2>1 DEF DeviceAppears
  <1>2. CASE cominitDiscoverRootfs BY <1>2 DEF cominitDiscoverRootfs, opendir
  <1>3. CASE readdir BY <1>3 DEF readdir, NextName, Probed
  <1>4. CASE cominitAutomountFindGpt BY <1>4 DEF cominitAutomountFindGpt
  <1>5. CASE OpenTable
    <2>1. \/ EntrySizeValid(disk[probe]) /\ pc' = "entry" /\ entryIndex' = 0
          \/ pc' \in {"readdir", "missing"}
      BY <1>5 DEF OpenTable, NextDisk
    <2>2. UNCHANGED probe
      BY <1>5 DEF OpenTable
    <2>3. \A j \in 0 .. 0 - 1 : FALSE
      OBVIOUS
    <2> QED BY <2>1, <2>2, <2>3, SMTT(20)
  <1>6. CASE ReadEntry
    <2> DEFINE d == disk[probe]
    <2>1. \/ /\ entryIndex < d.partitionEntryCount /\ EntryReadable(d, entryIndex)
             /\ TypeMatches(EntryAt(d, entryIndex))
             /\ pc' = "found" /\ entryIndex' = entryIndex
          \/ /\ ~TypeMatches(EntryAt(d, entryIndex))
             /\ pc' = "entry" /\ entryIndex' = entryIndex + 1
          \/ pc' \in {"readdir", "missing"}
      BY <1>6 DEF ReadEntry, NextDisk
    <2>2. pc = "entry" /\ UNCHANGED <<probe, want>> /\ disk'[probe'] = d
      BY <1>6 DEF ReadEntry
    <2>3. \A j \in 0 .. entryIndex : j \in 0 .. entryIndex - 1 \/ j = entryIndex
      BY <1>b
    <2>4. \A raw : TypeMatches(raw)' <=> TypeMatches(raw)
      BY <2>2 DEF TypeMatches, WantedGuid
    <2>5. (entryIndex + 1) - 1 = entryIndex
      BY <1>b
    <2>6. EntrySizeValid(d) /\ \A j \in 0 .. entryIndex - 1 : EntryReadable(d, j) => ~TypeMatches(EntryAt(d, j))
      BY <2>2
    <2> HIDE DEF d
    <2>7. pc' \in {"entry", "found"} =>
            \A j \in 0 .. entryIndex' - 1 : EntryReadable(d, j) => ~TypeMatches(EntryAt(d, j))
      BY <2>1, <2>3, <2>5, <2>6, SMTT(20)
    <2> QED BY <2>1, <2>2, <2>4, <2>6, <2>7
  <1>7. CASE PartitionFound BY <1>7, ZenonT(30) DEF PartitionFound, NextDisk, Remember, BuildPartitionNode
  <1>8. CASE NotFound BY <1>8 DEF NotFound, MayRetry, CountFailure
  <1>9. CASE FindStorage BY <1>9 DEF FindStorage, opendir, ConfinedToRootDisk
  <1>10. CASE UNCHANGED vars
    <2>1. \A raw : TypeMatches(raw)' <=> TypeMatches(raw)
      BY <1>10, SMTT(20) DEF vars, TypeMatches, WantedGuid
    <2> QED BY <1>10, <2>1, SMTT(20) DEF vars
  <1> QED
    BY <1>1, <1>2, <1>3, <1>4, <1>5, <1>6, <1>7, <1>8, <1>9, <1>10, ZenonT(30) DEF Next, cominitStep

\* Every step passes only disks without the partition.
LEMMA PassedStep == SearchInv /\ [Next]_vars => PassedInv'
  <1> SUFFICES ASSUME SearchInv, [Next]_vars PROVE PassedInv'
    OBVIOUS
  <1>0. disk' = disk /\ UNCHANGED <<faults, layout, rootArg>> /\ present \subseteq present'
    BY Constant
  <1>a. ProbeInv /\ EntryInv /\ PlaceInv /\ PassedInv
    BY DEF SearchInv
  <1>c. want' = want => \A d : Lacks(d)' <=> Lacks(d)
    BY <1>0 DEF Lacks, WantedGuid
  <1>d. want \in {"rootfs", "storage"}
    BY <1>a DEF ProbeInv
  <1> USE <1>0, <1>a DEF PlaceInv, PassedInv, input, scan, results, Scanning
  <1>1. CASE DeviceAppears
    <2>1. /\ UNCHANGED <<pc, want, atStart, probe, gptDiskRoot>>
          /\ unread \subseteq unread'
          /\ pc = "missing" => unread' = unread
      BY <1>1 DEF DeviceAppears
    <2>2. Behind' \subseteq Behind
      BY <2>1 DEF Behind
    <2> QED BY <1>c, <2>1, <2>2
  <1>2. CASE cominitDiscoverRootfs
    <2>1. \/ pc' = "readdir" /\ unread' = atStart'
          \/ faults # {}
      BY <1>2 DEF cominitDiscoverRootfs, opendir
    <2>2. faults = {} => Behind' = {}
      BY <2>1 DEF Behind
    <2> QED BY <2>1, <2>2
  <1>3. CASE readdir
    <2>1. UNCHANGED <<want, atStart, gptDiskRoot>> /\ pc = "readdir" /\ Scanning
      BY <1>3, <1>d DEF readdir
    <2>2. CASE unread = {} /\ pc' = "missing" /\ UNCHANGED <<unread, probe>>
      <3>1. Behind' = Behind
        BY <2>1, <2>2 DEF Behind
      <3> QED BY <1>c, <2>1, <2>2, <3>1
    <2>3. ASSUME NEW d \in unread, unread' = unread \ {d}, faults = {},
                 IF Probed(d) THEN probe' = d /\ pc' = "gpt" ELSE pc' = "readdir" /\ UNCHANGED probe
          PROVE  PassedInv'
      <3>1. \A e \in Behind' : e \in Behind \/ (e = d /\ ~Probed(d))
        BY <2>1, <2>3 DEF Behind
      <3>2. ~Probed(d) => Lacks(d)
        BY DEF Probed, Lacks
      <3> QED BY <1>c, <2>1, <2>3, <3>1, <3>2
    <2> QED BY <1>3, <2>2, <2>3 DEF readdir, NextName
  <1>4. CASE cominitAutomountFindGpt
    <2>1. UNCHANGED <<want, atStart, unread, probe, gptDiskRoot>> /\ pc = "gpt" /\ Scanning
      BY <1>4, <1>d DEF cominitAutomountFindGpt
    <2>2. \/ pc' = "table"
          \/ faults # {}
          \/ pc' = "readdir" /\ disk[probe].signature # GptSignature
      BY <1>4 DEF cominitAutomountFindGpt
    <2>3. \A e \in Behind' : e \in Behind \/ (e = probe /\ pc' # "table")
      BY <2>1, Zenon DEF Behind
    <2>4. disk[probe].signature # GptSignature => Lacks(probe)
      BY DEF Lacks
    <2> QED BY <1>c, <2>1, <2>2, <2>3, <2>4
  <1>5. CASE OpenTable
    <2>1. /\ UNCHANGED <<want, atStart, unread, probe, gptDiskRoot>> /\ pc = "table"
          /\ \/ pc' = "entry"
             \/ faults # {}
             \/ (pc' = IF Scanning THEN "readdir" ELSE "missing") /\ ~EntrySizeValid(disk[probe])
      BY <1>5 DEF OpenTable, NextDisk
    <2>2. \A e \in Behind' : e \in Behind \/ (e = probe /\ pc' # "entry")
      BY <2>1 DEF Behind
    <2>3. ~EntrySizeValid(disk[probe]) => Lacks(probe)
      BY DEF Lacks
    <2> QED BY <1>c, <1>d, <2>1, <2>2, <2>3
  <1>6. CASE ReadEntry
    <2>1. /\ UNCHANGED <<want, atStart, unread, probe, gptDiskRoot>> /\ pc = "entry"
          /\ \/ pc' \in {"entry", "found"}
             \/ faults # {}
             \/ /\ pc' = IF Scanning THEN "readdir" ELSE "missing"
                /\ \/ entryIndex >= disk[probe].partitionEntryCount
                   \/ ~EntryReadable(disk[probe], entryIndex)
      BY <1>6, SMTT(20) DEF ReadEntry, NextDisk
    <2>2. \A e \in Behind' : e \in Behind \/ (e = probe /\ pc' \notin {"entry", "found"})
      BY <2>1 DEF Behind
    <2>3. faults = {} /\ pc' \notin {"entry", "found"} => Lacks(probe)
      BY <2>1, EndOfTable
    <2> QED BY <1>c, <1>d, <2>1, <2>2, <2>3
  <1>7. CASE PartitionFound
    <2>1. /\ UNCHANGED <<want, atStart, unread, probe>> /\ pc = "found"
          /\ \/ pc' \in {"storage", "done"}
             \/ /\ probe \in LongNames /\ gptDiskRoot' = gptDiskRoot
                /\ pc' = IF Scanning THEN "readdir" ELSE "missing"
      BY <1>7 DEF PartitionFound, NextDisk, Remember
    <2>2. \A e \in Behind' : e \in Behind \/ e = probe
      BY <2>1, SMTT(20) DEF Behind
    <2>3. probe \in LongNames => Lacks(probe)
      BY DEF Lacks
    <2> QED BY <1>c, <1>d, <2>1, <2>2, <2>3, SMTT(20)
  <1>8. CASE NotFound
    <2>1. pc' \in {"done", "discover", "rescue"}
      BY <1>8 DEF NotFound
    <2> QED BY <2>1
  <1>9. CASE FindStorage
    <2>1. \/ pc' = "table" /\ want' = "storage" /\ gptDiskRoot' # "none"
          \/ pc' = "readdir" /\ unread' = atStart'
          \/ faults # {}
      BY <1>9 DEF FindStorage, opendir, ConfinedToRootDisk
    <2>2. pc' = "readdir" /\ unread' = atStart' => Behind' = {}
      BY DEF Behind
    <2> QED BY <2>1, <2>2
  <1>10. CASE UNCHANGED vars
    <2>1. Behind' = Behind
      BY <1>10, SMTT(20) DEF vars, Behind
    <2> QED BY <1>10, <1>c, <2>1 DEF vars
  <1> QED
    BY <1>1, <1>2, <1>3, <1>4, <1>5, <1>6, <1>7, <1>8, <1>9, <1>10 DEF Next, cominitStep

\* A disk that has come into /dev stays, and what was found first stays first.
LEMMA FirstStays ==
  ASSUME [Next]_vars, NEW n, NEW g, IsFirstOfType(n, g)
  PROVE  IsFirstOfType(n, g)'
  BY Constant, ZenonT(30) DEF IsFirstOfType

\* Every step finds the first partition of a type.
LEMMA FirstStep == SearchInv /\ [Next]_vars => FoundIsFirst'
  <1> SUFFICES ASSUME SearchInv, [Next]_vars PROVE FoundIsFirst'
    OBVIOUS
  <1>0. (rootArg = "absent" /\ (pc = "storage" \/ want = "storage") => rootNode[1] # "none")'
    BY PlaceStep, ZenonT(30) DEF PlaceInv
  <1>1. CASE PartitionFound
    <2> DEFINE i == entryIndex
               n == BuildPartitionNode(probe, i + 1)
    <2>1. ProbeInv /\ EntryInv /\ pc = "found" /\ FoundIsFirst
      BY <1>1 DEF SearchInv, PartitionFound
    <2>2. probe \in present /\ Kind[probe] = "disk" /\ disk[probe].signature = GptSignature
      BY <2>1 DEF ProbeInv
    <2>3. n = <<probe, IF probe \in DigitNames THEN "p" ELSE "", i + 1>>
      BY DEF BuildPartitionNode
    <2>4. IsFirstOfType(n, WantedGuid)
      <3> HIDE DEF n
      <3>1. i \in 0 .. disk[probe].partitionEntryCount - 1
        BY <2>1, FoundIsType
      <3>2. TableOnDisk(disk[probe]) =>
              /\ HasType(disk[probe], i, WantedGuid)
              /\ \A j \in 0 .. i - 1 : ~HasType(disk[probe], j, WantedGuid)
        BY <2>1, FoundIsType
      <3> HIDE DEF i
      <3> QED
        BY <2>2, <2>3, <3>1, <3>2, Zenon DEF IsFirstOfType
    <2>5. IsFirstOfType(n, WantedGuid)'
      <3>1. WantedGuid' = WantedGuid
        BY <1>1 DEF PartitionFound, WantedGuid
      <3>2. n' = n
        BY <1>1, ZenonT(30) DEF PartitionFound, BuildPartitionNode
      <3> HIDE DEF n
      <3> QED
        BY <2>2, <2>3, <2>4, <3>1, <3>2, Constant, ZenonT(30) DEF IsFirstOfType
    <2> QED
      BY <1>0, <1>1, <2>1, <2>5, FirstStays DEF PartitionFound, FoundIsFirst, WantedGuid
  <1>2. CASE UNCHANGED <<rootNode, cryptNode>>
    BY <1>0, <1>2, FirstStays, ZenonT(30) DEF SearchInv, FoundIsFirst, NoNode, CutNode
  <1>3. PartitionFound \/ UNCHANGED <<rootNode, cryptNode>>
    BY DEF Next, vars, results, cominitStep, cominitDiscoverRootfs, readdir, opendir,
           cominitAutomountFindGpt, OpenTable, ReadEntry, NotFound, FindStorage, DeviceAppears
  <1> QED
    BY <1>1, <1>2, <1>3

\* Nothing has been searched.
LEMMA InitInv == Init => SearchInv
  <1> SUFFICES ASSUME Init PROVE SearchInv
    OBVIOUS
  <1>1. ProbeInv BY DEF Init, ProbeInv
  <1>2. EntryInv BY DEF Init, EntryInv
  <1>3. PlaceInv BY DEF Init, PlaceInv
  <1>4. PassedInv BY DEF Init, PassedInv
  <1>5. FoundIsFirst BY DEF Init, FoundIsFirst
  <1> QED
    BY <1>1, <1>2, <1>3, <1>4, <1>5 DEF SearchInv

\* The invariant holds for any disks, in any order, that come at any time.
THEOREM SearchInvariant == Spec => []SearchInv
  <1>1. SearchInv /\ [Next]_vars => SearchInv'
    BY ProbeStep, PlaceStep, EntryStep, PassedStep, FirstStep DEF SearchInv
  <1> QED
    BY <1>1, InitInv, PTL DEF Spec

\* The partitions that are found are the first of their types.
THEOREM FirstIsFound == Spec => []FoundIsFirst
  <1>1. SearchInv => FoundIsFirst
    BY DEF SearchInv
  <1> QED
    BY <1>1, SearchInvariant, PTL

\* The volume is on the disk of the rootfs.
THEOREM StorageIsBeside == Spec => []StorageBesideRootfs
  <1>1. SearchInv => StorageBesideRootfs
    BY DEF SearchInv, PlaceInv, StorageBesideRootfs
  <1> QED
    BY <1>1, SearchInvariant, PTL

\* A partition that is not found is not there.
THEOREM NothingIsMissed == Spec => []MissingIsAbsent
  <1>1. SearchInv => MissingIsAbsent
    <2> SUFFICES ASSUME SearchInv, pc = "missing", faults = {},
                        NEW d \in IF Scanning THEN atStart ELSE {gptDiskRoot}
                 PROVE  Lacks(d)
      BY DEF MissingIsAbsent
    <2>1. CASE Scanning
      <3>1. d \in Behind
        BY <2>1 DEF SearchInv, PassedInv, Behind
      <3> QED
        BY <2>1, <3>1 DEF SearchInv, PassedInv
    <2>2. CASE ~Scanning
      BY <2>2 DEF SearchInv, PassedInv
    <2> QED
      BY <2>1, <2>2
  <1> QED
    BY <1>1, SearchInvariant, PTL

\* Every step keeps the types.
LEMMA TypeStep == SearchInv /\ TypeOK /\ [Next]_vars => TypeOK'
  <1> SUFFICES ASSUME SearchInv, TypeOK, [Next]_vars PROVE TypeOK'
    OBVIOUS
  <1> DEFINE Node == (Devices \cup {"none"}) \X {"", "p", "cut"} \X Nat
             Devs == /\ present' \subseteq Devices /\ atStart' \subseteq present'
                     /\ unread' \subseteq present' /\ entryIndex' \in Nat
                     /\ want' \in {"rootfs", "storage"}
  <1>a. UNCHANGED <<faults, layout, rootArg>> /\ present \subseteq present'
    BY Constant
  <1>b. Devs
    BY ProbeStep DEF ProbeInv
  <1>c. UNCHANGED <<rootNode, cryptNode>> => {rootNode, cryptNode}' \subseteq Node
    BY DEF TypeOK
  <1> HIDE DEF Node, Devs
  <1>d. ASSUME pc' \in Points, probe' \in present' \cup {"none"}, failCount' \in 0 .. Tries,
               gptDiskRoot' \in present' \cup {"none"}, {rootNode, cryptNode}' \subseteq Node
        PROVE  TypeOK'
    BY <1>a, <1>b, <1>d DEF TypeOK, Node, Devs
  <1>e. UNCHANGED <<probe, failCount, gptDiskRoot>> =>
          /\ probe' \in present' \cup {"none"} /\ failCount' \in 0 .. Tries
          /\ gptDiskRoot' \in present' \cup {"none"}
    BY <1>a DEF TypeOK
  <1>1. CASE cominitDiscoverRootfs
    BY <1>1, <1>c, <1>d, <1>e DEF cominitDiscoverRootfs, opendir, results, Points
  <1>2. CASE readdir
    <2>1. pc' \in Points /\ UNCHANGED <<failCount, results>>
      BY <1>2 DEF readdir, NextName, Points
    <2>2. probe' \in present' \cup {"none"}
      BY <1>2, <1>a DEF readdir, NextName, TypeOK
    <2> QED
      BY <1>a, <1>c, <1>d, <2>1, <2>2 DEF results, TypeOK
  <1>3. CASE cominitAutomountFindGpt
    BY <1>3, <1>c, <1>d, <1>e DEF cominitAutomountFindGpt, results, Points
  <1>4. CASE OpenTable
    BY <1>4, <1>c, <1>d, <1>e DEF OpenTable, NextDisk, results, Points
  <1>5. CASE ReadEntry
    BY <1>5, <1>c, <1>d, <1>e DEF ReadEntry, NextDisk, results, Points
  <1>6. CASE PartitionFound
    <2>1. pc = "found" /\ UNCHANGED <<probe, failCount>> /\ pc' \in Points
      BY <1>6 DEF PartitionFound, NextDisk, Points, Final
    <2>2. probe \in present /\ probe \in Devices /\ entryIndex \in Nat
      BY <2>1 DEF SearchInv, ProbeInv
    <2>3. {rootNode, cryptNode}' \subseteq Node
      <3> DEFINE node == IF probe \in LongNames THEN CutNode
                         ELSE BuildPartitionNode(probe, entryIndex + 1)
      <3>1. CutNode \in Node
        BY DEF CutNode, Node
      <3>2. BuildPartitionNode(probe, entryIndex + 1) \in Node
        <4>1. entryIndex + 1 \in Nat
          BY <2>2
        <4> QED
          BY <2>2, <4>1, ZenonT(30) DEF BuildPartitionNode, Node
      <3>3. node \in Node
        BY <3>1, <3>2
      <3>4. rootNode \in Node /\ cryptNode \in Node
        BY DEF TypeOK, Node
      <3>5. /\ rootNode' = IF want = "rootfs" THEN node ELSE rootNode
            /\ cryptNode' = IF want = "storage" THEN node ELSE cryptNode
        BY <1>6 DEF PartitionFound
      <3> QED
        BY <3>3, <3>4, <3>5
    <2>4. gptDiskRoot' \in present' \cup {"none"}
      BY <1>6, <1>a, <2>2 DEF PartitionFound, Remember, TypeOK
    <2> QED
      BY <1>a, <1>d, <2>1, <2>3, <2>4 DEF TypeOK
  <1>7. CASE NotFound
    <2>1. pc' \in Points /\ UNCHANGED <<probe, results>>
      BY <1>7 DEF NotFound, Points, Final
    <2>2. failCount' \in 0 .. Tries
      <3>1. failCount \in 0 .. Tries /\ Tries \in Nat
        BY AutomountAssumption, Zenon DEF TypeOK
      <3> QED
        BY <1>7, <3>1 DEF NotFound, MayRetry, CountFailure
    <2> QED
      BY <1>a, <1>c, <1>d, <2>1, <2>2 DEF results, TypeOK
  <1>8. CASE FindStorage
    <2>1. pc' \in Points /\ UNCHANGED <<failCount, results>>
      BY <1>8 DEF FindStorage, opendir, Points
    <2>2. probe' \in present' \cup {"none"}
      BY <1>8, <1>a DEF FindStorage, opendir, TypeOK
    <2> QED
      BY <1>a, <1>c, <1>d, <2>1, <2>2 DEF results, TypeOK
  <1>9. CASE DeviceAppears
    BY <1>9, <1>c, <1>d, <1>e DEF DeviceAppears, results, TypeOK
  <1>10. CASE UNCHANGED vars
    BY <1>10, <1>c, <1>d, <1>e DEF vars, results, TypeOK
  <1> QED
    BY <1>1, <1>2, <1>3, <1>4, <1>5, <1>6, <1>7, <1>8, <1>9, <1>10 DEF Next, cominitStep

\* The variables have their types: what is probed and remembered is in /dev, and main() does
\* not try more often than it is told (cominit.c:244-250).
THEOREM TypeCorrect == Spec => []TypeOK
  <1>1. Init => TypeOK
    <2> SUFFICES ASSUME Init PROVE TypeOK
      OBVIOUS
    <2>1. NoNode \in (Devices \cup {"none"}) \X {"", "p", "cut"} \X Nat
      BY DEF NoNode
    <2>2. pc \in Points /\ failCount \in 0 .. Tries
      BY AutomountAssumption DEF Init, Points
    <2> QED
      BY <2>1, <2>2 DEF Init, TypeOK
  <1> QED
    BY <1>1, SearchInvariant, TypeStep, PTL DEF Spec

\* The stages are numbered from the last one, and there are three for each try.
LEMMA StageValue ==
  ASSUME pc \in Points, want \in {"rootfs", "storage"}, failCount \in 0 .. Tries, Tries \in Nat,
         pc \in {"discover", "storage"} => want = "rootfs"
  PROVE  Stage \in 0 .. 6 + 3 * Tries
  BY SMTT(30) DEF Stage, Points, Final

\* Where a disk is in the order of the points.
LEMMA AheadValues ==
    /\ Ahead["gpt"] = 4 /\ Ahead["table"] = 3 /\ Ahead["entry"] = 2 /\ Ahead["found"] = 1
    /\ Ahead["readdir"] = 0
  BY SMTT(30) DEF Ahead, Points, Final

\* What the order of the stages needs to know of a state.
Placed ==
    /\ pc \in Points /\ want \in {"rootfs", "storage"} /\ failCount \in 0 .. Tries
    /\ pc \in {"discover", "storage"} => want = "rootfs"
    /\ entryIndex \in Nat

\* It follows from the invariants.
LEMMA IsPlaced == TypeOK /\ SearchInv => Placed
  BY Zenon DEF TypeOK, SearchInv, PlaceInv, Placed

\* No step goes back to an earlier stage, and within a stage each one of cominit gets on.
LEMMA StepAdvances ==
  ASSUME Placed, Placed', Next, layout \in DOMAIN Layouts,
         pc = "entry" => disk[probe].partitionEntryCount \in Nat
  PROVE  /\ Stage' <= Stage
         /\ cominitStep /\ Stage' = Stage =>
              \/ unread' # unread /\ unread' \subseteq unread
              \/ unread' = unread /\ Ahead[pc'] < Ahead[pc]
              \/ /\ pc = "entry" /\ UNCHANGED <<unread, pc, probe>>
                 /\ entryIndex' = entryIndex + 1
                 /\ entryIndex' <= disk[probe].partitionEntryCount
  <1> DEFINE Scan == {"readdir", "gpt", "table", "entry", "found"}
             Gets == \/ unread' # unread /\ unread' \subseteq unread
                     \/ unread' = unread /\ Ahead[pc'] < Ahead[pc]
                     \/ /\ pc = "entry" /\ UNCHANGED <<unread, pc, probe>>
                        /\ entryIndex' = entryIndex + 1
                        /\ entryIndex' <= disk[probe].partitionEntryCount
  <1>a. Tries \in Nat
    BY AutomountAssumption
  <1>b. ASSUME pc \in Scan, pc' \in Scan, UNCHANGED <<want, failCount>> PROVE Stage' = Stage
    BY <1>a, <1>b, SMTT(30) DEF Placed, Stage, Points, Final
  <1>c. ASSUME pc \in Scan, pc' = "missing", UNCHANGED <<want, failCount>> PROVE Stage' < Stage
    BY <1>a, <1>c, SMTT(30) DEF Placed, Stage, Points, Final
  <1>d. Stage \in Nat /\ Stage' \in Nat
    BY <1>a, SMTT(30) DEF Placed, Stage, Points, Final
  <1> SUFFICES Stage' <= Stage /\ (cominitStep /\ Stage' = Stage => Gets)
    BY Zenon
  <1>e. Stage' < Stage \/ (Stage' = Stage /\ Gets) => Stage' <= Stage /\ (Stage' = Stage => Gets)
    BY <1>d
  <1> HIDE DEF Gets
  <1>1. CASE cominitDiscoverRootfs
    <2>1. /\ pc = "discover" /\ pc' \in {"readdir", "missing"} /\ want = "rootfs" /\ want' = "rootfs"
          /\ UNCHANGED failCount
      BY <1>1 DEF cominitDiscoverRootfs, opendir, Placed
    <2>2. Stage' < Stage
      BY <1>a, <2>1, SMTT(30) DEF Placed, Stage, Points, Final
    <2> QED
      BY <1>e, <2>2
  <1>2. CASE readdir
    <2>1. pc = "readdir" /\ UNCHANGED <<want, failCount>>
      BY <1>2 DEF readdir
    <2>2. CASE unread = {}
      <3>1. pc' = "missing"
        BY <1>2, <2>2 DEF readdir
      <3> QED
        BY <1>c, <1>e, <2>1, <3>1
    <2>3. CASE unread # {}
      <3>1. \E d \in unread : unread' = unread \ {d}
        BY <1>2, <2>3 DEF readdir
      <3>2. pc' \in Scan
        BY <1>2, <2>3 DEF readdir, NextName
      <3>3. Gets
        BY <3>1 DEF Gets
      <3> QED
        BY <1>b, <1>e, <2>1, <3>2, <3>3
    <2> QED
      BY <2>2, <2>3
  <1>3. CASE cominitAutomountFindGpt
    <2>1. pc = "gpt" /\ pc' \in {"table", "readdir"} /\ UNCHANGED <<want, failCount, unread>>
      BY <1>3 DEF cominitAutomountFindGpt, scan
    <2>2. Gets
      BY <2>1, AheadValues DEF Gets
    <2> QED
      BY <1>b, <1>e, <2>1, <2>2
  <1>4. CASE OpenTable
    <2>1. /\ pc = "table" /\ pc' \in {"entry", "readdir", "missing"}
          /\ UNCHANGED <<want, failCount, unread>>
      BY <1>4 DEF OpenTable, NextDisk, scan
    <2>2. CASE pc' = "missing"
      BY <1>c, <1>e, <2>1, <2>2
    <2>3. CASE pc' # "missing"
      <3>1. Gets
        BY <2>1, <2>3, AheadValues DEF Gets
      <3> QED
        BY <1>b, <1>e, <2>1, <2>3, <3>1
    <2> QED
      BY <2>2, <2>3
  <1>5. CASE ReadEntry
    <2>1. /\ pc = "entry" /\ pc' \in {"found", "entry", "readdir", "missing"}
          /\ UNCHANGED <<want, failCount, unread, probe>>
          /\ pc' = "entry" => entryIndex < disk[probe].partitionEntryCount /\ entryIndex' = entryIndex + 1
      BY <1>5 DEF ReadEntry, NextDisk, scan
    <2>2. CASE pc' = "missing"
      BY <1>c, <1>e, <2>1, <2>2
    <2>3. CASE pc' = "entry"
      <3>1. entryIndex' <= disk[probe].partitionEntryCount
        BY <2>1, <2>3 DEF Placed
      <3>2. Gets
        BY <2>1, <2>3, <3>1 DEF Gets
      <3> QED
        BY <1>b, <1>e, <2>1, <2>3, <3>2
    <2>4. CASE pc' \in {"found", "readdir"}
      <3>1. Gets
        BY <2>1, <2>4, AheadValues DEF Gets
      <3> QED
        BY <1>b, <1>e, <2>1, <2>4, <3>1
    <2> QED
      BY <2>1, <2>2, <2>3, <2>4
  <1>6. CASE PartitionFound
    <2>1. /\ pc = "found" /\ UNCHANGED <<want, failCount, unread>>
          /\ pc' \in {"readdir", "missing", "storage", "done"}
      BY <1>6 DEF PartitionFound, NextDisk, scan
    <2>2. CASE pc' = "missing"
      BY <1>c, <1>e, <2>1, <2>2
    <2>3. CASE pc' = "readdir"
      <3>1. Gets
        BY <2>1, <2>3, AheadValues DEF Gets
      <3> QED
        BY <1>b, <1>e, <2>1, <2>3, <3>1
    <2>4. CASE pc' \in {"storage", "done"}
      <3>1. Stage' < Stage
        BY <1>a, <2>1, <2>4, SMTT(30) DEF Placed, Stage, Points, Final
      <3> QED
        BY <1>e, <3>1
    <2> QED
      BY <2>1, <2>2, <2>3, <2>4
  <1>7. CASE NotFound
    <2>1. /\ pc = "missing" /\ want' = want
          /\ \/ pc' \in Final
             \/ want = "rootfs" /\ failCount' = failCount + 1 /\ pc' = "discover"
      BY <1>7 DEF NotFound, CountFailure, Final
    <2>2. Stage' < Stage
      BY <1>a, <2>1, SMTT(30) DEF Placed, Stage, Points, Final
    <2> QED
      BY <1>e, <2>2
  <1>8. CASE FindStorage
    <2>1. pc = "storage" /\ want' = "storage" /\ pc' \in {"table", "readdir", "missing"}
      BY <1>8 DEF FindStorage, opendir
    <2>2. Stage' < Stage
      BY <1>a, <2>1, SMTT(30) DEF Placed, Stage, Points, Final
    <2> QED
      BY <1>e, <2>2
  <1>9. CASE DeviceAppears
    <2>1. UNCHANGED <<pc, want, failCount>>
      BY <1>9 DEF DeviceAppears
    <2>2. Stage' = Stage
      BY <2>1 DEF Stage
    <2>3. ~cominitStep
      BY <1>9 DEF DeviceAppears, cominitStep, cominitDiscoverRootfs, opendir, readdir,
         cominitAutomountFindGpt, OpenTable, ReadEntry, PartitionFound, NotFound, FindStorage, input
    <2> QED
      BY <1>d, <2>2, <2>3
  <1> QED
    BY <1>1, <1>2, <1>3, <1>4, <1>5, <1>6, <1>7, <1>8, <1>9, Zenon DEF Next, cominitStep

\* The search gets on with every step, for any number of disks, entries and tries, although
\* devices turn up during the scan: no attempt is repeated without being counted, no name is
\* read twice in one scan, no entry twice on one disk.
THEOREM EveryStepAdvances == Spec => SearchAdvances
  <1>1. TypeOK /\ SearchInv => Placed /\ Stage \in 0 .. 6 + 3 * Tries
    <2> SUFFICES ASSUME TypeOK, SearchInv PROVE Placed /\ Stage \in 0 .. 6 + 3 * Tries
      OBVIOUS
    <2>1. Placed
      BY IsPlaced
    <2> QED
      BY <2>1, StageValue, AutomountAssumption DEF Placed
  <1>2. ASSUME TypeOK, SearchInv, Placed, Placed', Next
        PROVE  /\ Stage' <= Stage
               /\ cominitStep /\ Stage' = Stage =>
                    \/ unread' # unread /\ unread' \subseteq unread
                    \/ unread' = unread /\ Ahead[pc'] < Ahead[pc]
                    \/ /\ pc = "entry" /\ UNCHANGED <<unread, pc, probe>>
                       /\ entryIndex' = entryIndex + 1
                       /\ entryIndex' <= disk[probe].partitionEntryCount
    <2>1. layout \in DOMAIN Layouts
      BY <1>2, Zenon DEF SearchInv, ProbeInv
    <2>2. pc = "entry" => disk[probe].partitionEntryCount \in Nat
      <3>1. pc = "entry" => probe \in Devices
        BY <1>2, Zenon DEF SearchInv, ProbeInv
      <3>2. ProbeInv
        BY <1>2, Zenon DEF SearchInv
      <3> QED
        BY <3>1, <3>2, DiskType DEF Disk
    <2> QED
      BY <1>2, <2>1, <2>2, StepAdvances, Zenon
  <1>3. TypeOK /\ SearchInv /\ Placed /\ Placed' /\ [Next]_vars =>
          /\ [Stage' <= Stage]_vars
          /\ [cominitStep /\ Stage' = Stage =>
                \/ unread' # unread /\ unread' \subseteq unread
                \/ unread' = unread /\ Ahead[pc'] < Ahead[pc]
                \/ /\ pc = "entry" /\ UNCHANGED <<unread, pc, probe>>
                   /\ entryIndex' = entryIndex + 1
                   /\ entryIndex' <= disk[probe].partitionEntryCount]_vars
    BY <1>2, Zenon
  <1> QED
    BY <1>1, <1>3, SearchInvariant, TypeCorrect, PTL DEF Spec, SearchAdvances
==============================================================================
