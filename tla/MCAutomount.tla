----------------------------- MODULE MCAutomount -----------------------------
(* Instances of Automount for TLC. *)
EXTENDS Automount

SomeDevices == {"sda", "mmcblk0", "cut-off", "link"}
SomeKinds == [d \in SomeDevices |-> IF d = "link" THEN "link" ELSE "disk"]

\* b921b045-1df0-41c3-af44-4c6f280d3fae and CA7D7CCB-63ED-4C53-861C-1742536059CC
Rootfs == <<185, 33, 176, 69, 29, 240, 65, 195, 175, 68, 76, 111, 40, 13, 63, 174>>
Storage == <<202, 125, 124, 203, 99, 237, 76, 83, 134, 28, 23, 66, 83, 96, 89, 204>>
OtherGuid == [i \in 1 .. 16 |-> i]

\* A disk with blocks of two offsets, the table behind the header at offset two, entries that
\* fill two offsets each, and `after' behind the table.
Gpt(entries, lba, entrySize, count, after) ==
    [signature |-> GptSignature, blockSize |-> 2, partitionEntriesLba |-> lba,
     partitionEntrySize |-> entrySize, partitionEntryCount |-> count,
     guidAt |-> [i \in 1 .. 4 + 2 * Len(entries) + after |->
                   IF i > 4 /\ i <= 4 + 2 * Len(entries) /\ i % 2 = 1
                   THEN entries[(i - 3) \div 2] ELSE ZeroGuid]]

R == Stored(Rootfs)
S == Stored(Storage)
Both == Gpt(<<OtherGuid, ZeroGuid, R, S>>, 2, 2, 4, 1)
Twice == Gpt(<<S, R, R>>, 2, 2, 3, 0)
OnlyStorage == Gpt(<<S>>, 2, 2, 1, 3)
OnlyRootfs == Gpt(<<OtherGuid, R>>, 2, 2, 2, 0)
NoGpt == [Both EXCEPT !.signature = "none"]
SmallEntries == Gpt(<<R>>, 2, 1, 2, 0)
LongTable == Gpt(<<OtherGuid>>, 2, 2, 9, 1)
FarTable == Gpt(<<R>>, 34, 2, 1, 0)     \* 34 * 2 wraps to the offset of block 2

Content ==
    [Both |-> Both, Twice |-> Twice, OnlyStorage |-> OnlyStorage, OnlyRootfs |-> OnlyRootfs,
     NoGpt |-> NoGpt, SmallEntries |-> SmallEntries, LongTable |-> LongTable, FarTable |-> FarTable]
Pairs ==
    {<<"Both", "Twice">>, <<"OnlyStorage", "OnlyRootfs">>, <<"NoGpt", "Both">>,
     <<"SmallEntries", "OnlyStorage">>, <<"LongTable", "OnlyRootfs">>, <<"FarTable", "OnlyStorage">>}
SomeLayouts ==
    [p \in Pairs |->
        [d \in SomeDevices |-> CASE d = "sda" -> Content[p[1]] [] d = "mmcblk0" -> Content[p[2]]
                                 [] OTHER -> Both]]

AllFaults == {"opendir", "lstat", "gpt", "table", "pread"}
MixedFaults == {{}, AllFaults}
==============================================================================
