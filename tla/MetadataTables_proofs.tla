----------------------- MODULE MetadataTables_proofs ------------------------
(***************************************************************************)
(* Proofs about the loops of Metadata: each of their rounds gets on, and   *)
(* the generators of the device-mapper tables write what has been signed,  *)
(* with the keys of the keyring, for every table, every key and every size *)
(* of the buffers.                                                         *)
(***************************************************************************)
EXTENDS Metadata_proofs

\* The read loop stays inside the partition.
LEMMA EndStep == TypeOK /\ ReadInv /\ EndInv /\ [Next]_vars => EndInv'
  <1> SUFFICES ASSUME TypeOK, ReadInv, EndInv, [Next]_vars, pc' = "read", part' # <<>>
               PROVE  offset' = Len(part') - len'
    BY DEF EndInv
  <1>1. CASE Seek
    <2>1. /\ pc = "seek" /\ offset >= 0 /\ len' = MetaSize /\ UNCHANGED <<part, offset>>
      BY <1>1 DEF Seek, SeekTo, Fails
    <2>2. offset = MetadataOffset(Len(part))
      BY <2>1 DEF ReadInv
    <2>3. offset = Len(part) - MetaSize
      BY <2>1, <2>2, PartType, OffsetIsTail
    <2> QED
      BY <2>1, <2>3
  <1>2. CASE cominitBinReadall
    <2>1. PICK n \in ReadResults : offset' = offset + n /\ len' = len - n
      BY <1>2 DEF cominitBinReadall, Fails
    <2>2. pc = "read" /\ UNCHANGED part
      BY <1>2 DEF cominitBinReadall, Fails
    <2>3. n \in Int /\ offset \in Int /\ len \in Int /\ Len(part) \in Int
      BY <2>2, ReadResult, PartType, Sizes DEF TypeOK
    <2>4. offset = Len(part) - len
      BY <2>2 DEF EndInv
    <2> QED
      BY <2>1, <2>2, <2>3, <2>4
  <1>3. CASE UNCHANGED vars
    BY <1>3 DEF vars, reader, EndInv
  <1>4. ~cominitKeyringInitFakeHsm /\ ~OpenPartition /\ ~cominitCommonGetPartSize
    BY DEF cominitKeyringInitFakeHsm, OpenPartition, cominitCommonGetPartSize, Fails
  <1>5. ~VerifyMetadata /\ ~cominitGenVerityDmTbl /\ ~cominitGenIntegrityDmTbl
    BY DEF VerifyMetadata, cominitGenVerityDmTbl, cominitGenIntegrityDmTbl, Fails
  <1>6. ~cominitParseMetadata
    BY DEF cominitParseMetadata, FieldsOf, TableFor
  <1>7. ~ProcessOption /\ ~WriteIntegrityTable /\ ~DeviceGone
    BY DEF ProcessOption, WriteIntegrityTable, DeviceGone
  <1> QED
    BY <1>1, <1>2, <1>3, <1>4, <1>5, <1>6, <1>7, ZenonT(30) DEF Next, cominitStep

\* The order of the points.
LEMMA AheadValues ==
    /\ Ahead["done"] = 0 /\ Ahead["failed"] = 0 /\ Ahead["overrun"] = 0 /\ Ahead["option"] = 1 /\ Ahead["verity"] = 2
    /\ Ahead["integrity"] = 2 /\ Ahead["parse"] = 3 /\ Ahead["verify"] = 4 /\ Ahead["read"] = 5
    /\ Ahead["seek"] = 6 /\ Ahead["size"] = 7 /\ Ahead["open"] = 8 /\ Ahead["hsm"] = 9
  BY SMTT(30) DEF Ahead, Points, Final

\* Each step gets on, to a later point or in its loop.
LEMMA StepAdvances ==
  ASSUME TypeOK, ReadInv, EndInv, cominitStep
  PROVE  \/ Ahead[pc'] < Ahead[pc]
         \/ pc' = pc /\ LoopLeft' \in 0 .. LoopLeft - 1
         \/ pc = "read" /\ part = <<>>
  <1>0. pc \in Points /\ added \in 0 .. Len(KeyDescs) /\ Len(KeyDescs) \in Nat /\ len \in Nat
        /\ opts \in Seq(Words)
    BY Sizes DEF TypeOK
  <1>1. CASE cominitKeyringInitFakeHsm
    <2>1. CASE pc' = "hsm"
      <3>1. pc = "hsm" /\ added < Len(KeyDescs) /\ added' = added + 1
        BY <1>1, <2>1 DEF cominitKeyringInitFakeHsm
      <3>2. LoopLeft = Len(KeyDescs) - added /\ LoopLeft' = Len(KeyDescs) - added'
        BY <2>1, <3>1 DEF LoopLeft
      <3> QED
        BY <1>0, <2>1, <3>1, <3>2
    <2>2. CASE pc' # "hsm"
      BY <1>1, <2>2, AheadValues DEF cominitKeyringInitFakeHsm
    <2> QED
      BY <2>1, <2>2
  <1>2. CASE OpenPartition
    BY <1>2, AheadValues DEF OpenPartition, Fails
  <1>3. CASE cominitCommonGetPartSize
    BY <1>3, AheadValues DEF cominitCommonGetPartSize, Fails
  <1>4. CASE Seek
    BY <1>4, AheadValues DEF Seek, SeekTo, Fails
  <1>5. CASE cominitBinReadall
    <2>1. CASE pc' = "read" /\ part # <<>>
      <3>1. PICK n \in ReadResults : offset' = offset + n /\ len' = len - n
        BY <1>5, <2>1 DEF cominitBinReadall, Fails
      <3>2. pc = "read" /\ len > 0
        BY <1>5, <2>1 DEF cominitBinReadall, Fails
      <3>3. offset = Len(part) - len /\ offset \in Nat /\ Len(part) \in Nat
        BY <2>1, <3>2, PartType DEF EndInv, ReadInv
      <3>4. Available = len
        BY <1>0, <3>2, <3>3 DEF Available
      <3>5. n \in 1 .. len
        BY <1>0, <3>2, <3>4 DEF ReadResults
      <3>6. LoopLeft = len /\ LoopLeft' = len'
        BY <2>1, <3>2 DEF LoopLeft
      <3> QED
        BY <1>0, <2>1, <3>1, <3>2, <3>5, <3>6
    <2>2. CASE pc' = "read" /\ part = <<>>
      BY <1>5, <2>2 DEF cominitBinReadall
    <2>3. CASE pc' # "read"
      BY <1>5, <2>3, AheadValues DEF cominitBinReadall, Fails
    <2> QED
      BY <2>1, <2>2, <2>3
  <1>6. CASE VerifyMetadata
    BY <1>6, AheadValues DEF VerifyMetadata, Fails
  <1>7. CASE cominitParseMetadata
    <2>1. pc = "parse" /\ pc' \in {"failed", "verity", "integrity", "done"}
      BY <1>7 DEF cominitParseMetadata, FieldsOf, TableFor
    <2> QED
      BY <2>1, AheadValues
  <1>8. CASE cominitGenVerityDmTbl
    <2>1. pc = "verity" /\ pc' \in Final
      BY <1>8 DEF cominitGenVerityDmTbl, Final
    <2> QED
      BY <2>1, AheadValues DEF Final
  <1>9. CASE cominitGenIntegrityDmTbl
    <2>1. pc = "integrity" /\ pc' \in {"option", "failed"}
      BY <1>9, ZenonT(30) DEF cominitGenIntegrityDmTbl
    <2> QED
      BY <2>1, AheadValues
  <1>10. CASE ProcessOption
    <2>1. pc = "option" /\ opts # <<>>
          /\ (pc' \in {"failed", "overrun"} \/ (pc' = "option" /\ opts' = Tail(opts)))
      BY <1>10, ZenonT(30) DEF ProcessOption
    <2>2. CASE pc' \in {"failed", "overrun"}
      BY <2>1, <2>2, AheadValues
    <2>3. CASE pc' = "option"
      <3>1. LoopLeft = Len(opts) /\ LoopLeft' = Len(opts')
        BY <2>1, <2>3 DEF LoopLeft
      <3>2. Len(opts) \in Nat /\ Len(opts') = Len(opts) - 1 /\ Len(opts) > 0
        BY <1>0, <2>1, <2>3
      <3> QED
        BY <2>1, <2>3, <3>1, <3>2
    <2> QED
      BY <2>1, <2>2, <2>3
  <1>11. CASE WriteIntegrityTable
    <2>1. pc = "option" /\ pc' \in Final
      BY <1>11 DEF WriteIntegrityTable, Final
    <2> QED
      BY <2>1, AheadValues DEF Final
  <1> QED
    BY <1>1, <1>2, <1>3, <1>4, <1>5, <1>6, <1>7, <1>8, <1>9, <1>10, <1>11, ZenonT(30) DEF cominitStep

\* Loading gets on with every step, for partitions, key files and tables of any size: only the
\* read() of a device that is gone is repeated without end.
THEOREM EveryStepAdvances == Spec => LoadAdvances
  <1>1. Init => EndInv
    BY ZenonT(30) DEF Init, EndInv
  <1>2. TypeOK /\ ReadInv /\ EndInv =>
          [cominitStep =>
              \/ Ahead[pc'] < Ahead[pc]
              \/ pc' = pc /\ LoopLeft' \in 0 .. LoopLeft - 1
              \/ pc = "read" /\ part = <<>>]_vars
    BY StepAdvances, Zenon
  <1> QED
    BY <1>1, <1>2, EndStep, ReadInvariant, PTL DEF Spec, LoadAdvances

\* A Byte has two digits.
LEMMA TwoDigits ==
  ASSUME NEW x \in 0 .. 255
  PROVE  x \div 16 \in Nat /\ x % 16 \in Nat /\ 16 * (x \div 16) + (x % 16) = x
  OBVIOUS

\* A key has the digits of all its Bytes, in their order: cominitBytesToHex() loses nothing.
LEMMA HexDecodes ==
  ASSUME NEW b \in Seq(0 .. 255)
  PROVE  /\ cominitBytesToHex(b) \in Seq(Nat)
         /\ Decoded(cominitBytesToHex(b)) = b
  <1> DEFINE n == 2 * Len(b)
             f == cominitBytesToHex(b)
  <1>0. \A k \in 1 .. Len(b) : b[k] \in 0 .. 255
    BY ElementOfSeq, ZenonT(30)
  <1>a. n \in Nat /\ Len(b) \in Nat
    OBVIOUS
  <1>1. n \in Nat /\ Len(b) \in Nat /\ \A k \in 1 .. Len(b) : b[k] \in 0 .. 255
    BY <1>0, <1>a, ZenonT(30)
  <1>2. ASSUME NEW i \in 1 .. n
        PROVE  f[i] = (IF i % 2 = 1 THEN b[(i + 1) \div 2] \div 16 ELSE b[(i + 1) \div 2] % 16)
    BY <1>1 DEF cominitBytesToHex
  <1>3. ASSUME NEW i \in 1 .. n PROVE f[i] \in Nat
    <2>1. (i + 1) \div 2 \in 1 .. Len(b)
      BY <1>1
    <2>2. b[(i + 1) \div 2] \in 0 .. 255
      BY <1>1, <2>1
    <2>3. b[(i + 1) \div 2] \div 16 \in Nat /\ b[(i + 1) \div 2] % 16 \in Nat
      BY <2>2, TwoDigits, ZenonT(30)
    <2> HIDE DEF f
    <2> QED
      BY <1>2, <2>3
  <1>4. f \in [1 .. n -> Nat]
    <2>1. f = [i \in 1 .. n |-> f[i]]
      BY DEF cominitBytesToHex
    <2> HIDE DEF f, n
    <2> QED
      BY <1>3, <2>1
  <1>5. f \in Seq(Nat) /\ Len(f) = n
    <2> HIDE DEF f, n
    <2> QED BY <1>1, <1>4
  <1>6. ASSUME NEW k \in 1 .. Len(b) PROVE 16 * f[2 * k - 1] + f[2 * k] = b[k]
    <2>1. /\ 2 * k - 1 \in 1 .. n /\ (2 * k - 1) % 2 = 1 /\ (2 * k - 1 + 1) \div 2 = k
          /\ 2 * k \in 1 .. n /\ (2 * k) % 2 = 0 /\ (2 * k + 1) \div 2 = k
      BY <1>1
    <2>2. f[2 * k - 1] = b[k] \div 16 /\ f[2 * k] = b[k] % 16
      BY <1>2, <2>1
    <2>3. b[k] \in 0 .. 255
      BY <1>1
    <2>4. 16 * (b[k] \div 16) + (b[k] % 16) = b[k]
      BY <2>3, TwoDigits, ZenonT(30)
    <2> HIDE DEF f
    <2> QED
      BY <2>2, <2>4
  <1>7. Decoded(f) = [k \in 1 .. Len(b) |-> b[k]]
    <2>1. Len(f) \div 2 = Len(b)
      BY <1>1, <1>5
    <2> HIDE DEF f
    <2> QED
      BY <1>6, <2>1 DEF Decoded
  <1>8. b = [k \in 1 .. Len(b) |-> b[k]]
    OBVIOUS
  <1> QED
    BY <1>5, <1>7, <1>8

\* An option keeps its name, and gets the key with its description behind it.
LEMMA ProcessedAsAsked ==
  ASSUME LoadInv, NEW o \in Words, KeyAvailable(o)
  PROVE  /\ Processed(o) \in [word : Words, digits : Seq(Nat)]
         /\ Processed(o).word = o
         /\ Decoded(Processed(o).digits) =
               IF o \in DOMAIN KeyOf THEN PayloadOf(KeyOf[o]) ELSE <<>>
  <1>1. CASE o \in DOMAIN KeyOf
    <2>1. KeyFor(o) \in Seq(0 .. 255)
      BY <1>1, KeyLength
    <2>2. KeyFor(o) = PayloadOf(KeyOf[o])
      BY <1>1 DEF KeyAvailable, KeyFor, PayloadOf, LoadInv
    <2> QED
      BY <1>1, <2>1, <2>2, HexDecodes DEF Processed, Keyed
  <1>2. CASE o \notin DOMAIN KeyOf
    <2>1. Decoded(<<>>) = <<>>
      BY DEF Decoded
    <2> QED
      BY <1>2, <2>1 DEF Processed, Plain
  <1> QED
    BY <1>1, <1>2

\* strsep() takes the next word, and leaves a shorter end of the table.
LEMMA NextWord ==
  ASSUME NEW S, NEW t \in Seq(S), NEW r \in Seq(S), r # <<>>, Len(r) <= Len(t),
         r = SubSeq(t, Len(t) - Len(r) + 1, Len(t))
  PROVE  /\ Head(r) = t[Len(t) - Len(r) + 1] /\ Head(r) \in S
         /\ Tail(r) \in Seq(S) /\ Len(Tail(r)) = Len(r) - 1
         /\ Tail(r) = SubSeq(t, Len(t) - Len(Tail(r)) + 1, Len(t))
  <1> DEFINE m == Len(t) - Len(r) + 1
  <1>1. m \in 1 .. Len(t) /\ Len(t) \in m .. Len(t)
    OBVIOUS
  <1>2. Head(r) = t[m] /\ Tail(r) = SubSeq(t, m + 1, Len(t))
    BY <1>1, HeadTailOfSubSeq, Zenon
  <1>3. Head(r) \in S /\ Tail(r) \in Seq(S) /\ Len(Tail(r)) = Len(r) - 1
    BY HeadTailProperties, Zenon
  <1>4. m + 1 = Len(t) - Len(Tail(r)) + 1
    BY <1>3
  <1> QED
    BY <1>2, <1>3, <1>4, Zenon

\* A round of the loop puts the next option behind the ones before.
LEMMA OptionStep ==
  ASSUME LoadInv, TypeOK, TableInv, ProcessOption, pc' = "option"
  PROVE  LET t == dmTblVerintStr
         IN  /\ Len(opts') <= Len(t) - 3
             /\ opts' = SubSeq(t, Len(t) - Len(opts') + 1, Len(t))
             /\ OptionsProcessed(Len(t) - 3 - Len(opts))'
  <1> DEFINE t == dmTblVerintStr
             o == Head(opts)
             n == Len(t) - 3 - Len(opts)
  <1>1. /\ pc = "option" /\ opts # <<>> /\ opts' = Tail(opts) /\ KeyAvailable(o)
        /\ procAddOpts' = Append(procAddOpts, Processed(o))
        /\ UNCHANGED <<dmTblVerintStr, keyring>>
    BY DEF ProcessOption, keys
  <1>2. /\ Len(t) >= 4 /\ Len(opts) <= Len(t) - 3
        /\ opts = SubSeq(t, Len(t) - Len(opts) + 1, Len(t))
        /\ OptionsProcessed(n)
    BY <1>1 DEF TableInv
  <1>3. t \in Seq(Words) /\ opts \in Seq(Words)
    BY DEF TypeOK
  <1>4. Len(t) \in Nat /\ Len(opts) \in Nat /\ Len(opts) > 0 /\ n \in Nat
    BY <1>1, <1>2, <1>3
  <1>5. /\ o = t[Len(t) - Len(opts) + 1] /\ o \in Words
        /\ Len(opts') = Len(opts) - 1
        /\ opts' = SubSeq(t, Len(t) - Len(opts') + 1, Len(t))
    <2>1. Len(opts) <= Len(t)
      BY <1>2, <1>4
    <2> QED
      BY <1>1, <1>2, <1>3, <2>1, NextWord, ZenonT(30)
  <1>6. n + 1 + 3 = Len(t) - Len(opts) + 1 /\ n + 1 = Len(t) - 3 - Len(opts')
        /\ Len(opts') <= Len(t) - 3
    BY <1>2, <1>4, <1>5
  <1> HIDE DEF n, o
  <1>7. Processed(o) \in TableWord
    BY <1>1, <1>5, ProcessedAsAsked DEF TableWord
  <1>8. procAddOpts \in Seq(TableWord) /\ Len(procAddOpts) = n
    BY <1>2 DEF OptionsProcessed
  <1>9. /\ procAddOpts' \in Seq(TableWord) /\ Len(procAddOpts') = n + 1
        /\ procAddOpts'[n + 1] = Processed(o)
        /\ \A i \in 1 .. n : procAddOpts'[i] = procAddOpts[i]
    <2>1. procAddOpts' = Append(procAddOpts, Processed(o))
      BY <1>1, Zenon
    <2> QED
      BY <1>4, <1>7, <1>8, <2>1, SMTT(20)
  <1>10. ASSUME NEW i \in 1 .. n + 1
         PROVE  KeyAvailable(t[i + 3]) /\ procAddOpts'[i] = Processed(t[i + 3])
    <2>1. CASE i = n + 1
      BY <1>1, <1>5, <1>6, <1>9, <2>1
    <2>2. CASE i \in 1 .. n
      BY <1>2, <1>9, <2>2 DEF OptionsProcessed
    <2> QED
      BY <1>4, <2>1, <2>2
  <1>11. OptionsProcessed(Len(t) - 3 - Len(opts))'
    <2>1. t' = t /\ keyring' = keyring
      BY <1>1
    <2>2. ASSUME NEW i \in 1 .. n + 1
          PROVE  KeyAvailable(t[i + 3])' /\ procAddOpts'[i] = Processed(t[i + 3])'
      <3>1. KeyAvailable(t[i + 3])'
        BY <1>10, <2>1 DEF KeyAvailable, KeyFor
      <3>2. Processed(t[i + 3])' = Processed(t[i + 3])
        BY <2>1 DEF Processed, KeyFor
      <3> QED
        BY <1>10, <3>1, <3>2
    <2>3. (Len(t) - 3 - Len(opts))' = n + 1
      BY <1>6, <2>1
    <2> QED
      BY <1>9, <2>2, <2>3, Zenon DEF OptionsProcessed
  <1> QED
    BY <1>1, <1>5, <1>6, <1>11, Zenon

\* The parser hands the table of the signed text to the generator for its type.
LEMMA ParsedTable ==
  ASSUME LoadInv, cominitParseMetadata, pc' # "failed"
  PROVE  TableOfSigned' /\ pc' = TableFor(crypt') /\ dmTableVerint' = <<>>
  <1> DEFINE text == SubSeq(buf, 1, metaLen)
             h == HeaderOf(text)
             s == <<SignedData(buf, metaLen), Signature(buf, metaLen)>>
             begun == VersionFits(h) /\ HasTables(text)
             sawMode == begun /\ Len(h) >= 2 /\ Len(h) >= 3 /\ h[3] \in {"ro", "rw"}
             sawAll == sawMode /\ Len(h) >= 4 /\ h[4] \in DOMAIN CryptOf
             accepted == sawAll /\ CryptOf[h[4]] # {"verity", "integrity"}
  <1>1. FieldsOf(text, h)
    BY ZenonT(30) DEF cominitParseMetadata
  <1>2. /\ crypt' = IF sawAll THEN CryptOf[h[4]] ELSE crypt
        /\ dmTableVerint' = IF accepted THEN <<>> ELSE dmTableVerint
        /\ dmTblVerintStr' = IF begun THEN VerintTableOf(text) ELSE <<>>
        /\ pc' = IF accepted THEN TableFor(CryptOf[h[4]]) ELSE "failed"
    BY <1>1, Zenon DEF FieldsOf
  <1>3. /\ WellFormed(h) /\ crypt' = CryptOf[h[4]] /\ dmTblVerintStr' = VerintTableOf(text)
        /\ dmTableVerint' = <<>> /\ pc' = TableFor(crypt')
    BY <1>2 DEF WellFormed
  <1>4. metaLen \in Nat
    BY metaLenInRange DEF LoadInv
  <1>5. s \in Signed
    BY DEF cominitParseMetadata, LoadInv, SignatureHolds
  <1>6. s[1] = SignedData(buf, metaLen)
    OBVIOUS
  <1>7. Front(s[1]) = text
    BY <1>4, <1>6, TextIsSigned, SMTT(20)
  <1> HIDE DEF s, text, h
  <1>8. h = HeaderOf(Front(s[1])) /\ VerintTableOf(text) = VerintTableOf(Front(s[1]))
    BY <1>7, Zenon DEF h
  <1>9. TableOfSigned'
    BY <1>3, <1>5, <1>8, ZenonT(30) DEF TableOfSigned
  <1> QED
    BY <1>3, <1>9

\* The types have a generator each.
LEMMA TableForType ==
  ASSUME NEW c
  PROVE  /\ TableFor(c) = "verity" => c = {"verity"}
         /\ TableFor(c) = "integrity" => c = {"integrity"}
         /\ TableFor(c) = "done" => c \notin {{"verity"}, {"integrity"}}
         /\ TableFor(c) \in {"verity", "integrity", "done"}
  <1>1. {"verity"} # {"integrity"}
    OBVIOUS
  <1>2. CASE c = {"verity"}
    BY <1>1, <1>2 DEF TableFor
  <1>3. CASE c = {"integrity"}
    BY <1>1, <1>3 DEF TableFor
  <1>4. CASE c \notin {{"verity"}, {"integrity"}}
    BY <1>4 DEF TableFor
  <1> QED
    BY <1>2, <1>3, <1>4

\* At the start there is no table.
LEMMA TableInit == Init => TableInv
  <1> SUFFICES ASSUME Init PROVE TableInv
    OBVIOUS
  <1>1. pc \in {"hsm", "open"}
    BY Zenon DEF Init
  <1> QED
    BY <1>1, SMTT(20) DEF TableInv

\* Every step keeps the invariant of the generators.
LEMMA TableStep == LoadInv /\ TypeOK /\ TableInv /\ [Next]_vars => TableInv'
  <1> SUFFICES ASSUME LoadInv, TypeOK, TableInv, [Next]_vars PROVE TableInv'
    OBVIOUS
  <1>b. ASSUME pc' \notin {"verity", "integrity", "option", "done"} PROVE TableInv'
    BY <1>b DEF TableInv
  <1>c. UNCHANGED <<crypt, dmTblVerintStr>> /\ TableOfSigned => TableOfSigned'
    BY DEF TableOfSigned
  <1>d. {"verity"} # {"integrity"}
    OBVIOUS
  <1>1. CASE cominitKeyringInitFakeHsm
    <2>1. pc' \in {"hsm", "open", "failed"}
      BY <1>1 DEF cominitKeyringInitFakeHsm
    <2> QED
      BY <1>b, <2>1
  <1>2. CASE OpenPartition
    <2>1. pc' \notin {"verity", "integrity", "option", "done"}
      BY <1>2 DEF OpenPartition, Fails
    <2> QED
      BY <1>b, <2>1
  <1>3. CASE cominitCommonGetPartSize
    <2>1. pc' \notin {"verity", "integrity", "option", "done"}
      BY <1>3 DEF cominitCommonGetPartSize, Fails
    <2> QED
      BY <1>b, <2>1
  <1>4. CASE Seek
    <2>1. pc' \notin {"verity", "integrity", "option", "done"}
      BY <1>4, ZenonT(30) DEF Seek, SeekTo, Fails
    <2> QED
      BY <1>b, <2>1
  <1>5. CASE cominitBinReadall
    <2>1. pc' \notin {"verity", "integrity", "option", "done"}
      BY <1>5 DEF cominitBinReadall, Fails
    <2> QED
      BY <1>b, <2>1
  <1>6. CASE VerifyMetadata
    <2>1. pc' \notin {"verity", "integrity", "option", "done"}
      BY <1>6 DEF VerifyMetadata, Fails
    <2> QED
      BY <1>b, <2>1
  <1>7. CASE cominitParseMetadata
    <2>2. CASE pc' = "failed"
      BY <1>b, <2>2
    <2>3. CASE pc' # "failed"
      <3>1. TableOfSigned' /\ pc' = TableFor(crypt') /\ dmTableVerint' = <<>>
        BY <1>7, <2>3, ParsedTable
      <3>2. /\ pc' \in {"verity", "integrity", "done"}
            /\ pc' = "verity" => crypt' = {"verity"}
            /\ pc' = "integrity" => crypt' = {"integrity"}
            /\ pc' = "done" => crypt' \notin {{"verity"}, {"integrity"}}
        BY <3>1, TableForType
      <3> QED
        BY <3>1, <3>2, ZenonT(30) DEF TableInv
    <2> QED
      BY <2>2, <2>3
  <1>8. CASE cominitGenVerityDmTbl
    <2> DEFINE t == dmTblVerintStr
    <2>1. /\ pc = "verity" /\ pc' \in {"done", "failed"}
          /\ UNCHANGED <<crypt, dmTblVerintStr>>
      BY <1>8 DEF cominitGenVerityDmTbl, keys, options
    <2>2. CASE pc' = "failed"
      BY <1>b, <2>1, <2>2
    <2>3. CASE pc' = "done"
      <3>1. TableOfSigned /\ crypt = {"verity"}
        BY <2>1 DEF TableInv
      <3>2. Len(t) >= 6 /\ Fits(Len(t) + 2) /\ Len(t) \in Nat
        BY <1>8, <2>3 DEF cominitGenVerityDmTbl, TypeOK
      <3>3. dmTableVerint' = VerityTable(t)
        BY <1>8, <3>2 DEF cominitGenVerityDmTbl, Written, Fits
      <3>4. dmVerintDataSizeBytes' = Product(t[2], t[4])
        BY <1>8, <3>2 DEF cominitGenVerityDmTbl
      <3>5. VerityTable(t)' = VerityTable(t) /\ Product(t[2], t[4])' = Product(t[2], t[4])
        BY <2>1
      <3> QED
        BY <1>c, <1>d, <2>1, <2>3, <3>1, <3>2, <3>3, <3>4, <3>5, ZenonT(30) DEF TableInv
    <2> QED
      BY <2>1, <2>2, <2>3
  <1>9. CASE cominitGenIntegrityDmTbl
    <2> DEFINE t == dmTblVerintStr
    <2>1. /\ pc = "integrity" /\ pc' \in {"option", "failed"}
          /\ UNCHANGED <<crypt, dmTblVerintStr>>
      BY <1>9 DEF cominitGenIntegrityDmTbl, keys
    <2>2. CASE pc' = "failed"
      BY <1>b, <2>1, <2>2
    <2>3. CASE pc' = "option"
      <3>1. TableOfSigned /\ crypt = {"integrity"}
        BY <2>1 DEF TableInv
      <3>2. /\ Len(t) >= 4 /\ opts' = SubSeq(t, 4, Len(t)) /\ procAddOpts' = <<>>
            /\ t \in Seq(Words) /\ Len(t) \in Nat
        BY <1>9, <2>3 DEF cominitGenIntegrityDmTbl, TypeOK
      <3>3. dmVerintDataSizeBytes' = Product(t[1], t[2])
        BY <1>9, <3>2 DEF cominitGenIntegrityDmTbl
      <3>4. Len(opts') = Len(t) - 3
        BY <3>2
      <3>5. opts' = SubSeq(t, Len(t) - Len(opts') + 1, Len(t)) /\ Len(opts') <= Len(t) - 3
        BY <3>2, <3>4
      <3>6. OptionsProcessed(Len(t) - 3 - Len(opts))'
        BY <2>1, <3>2, <3>4 DEF OptionsProcessed
      <3>7. Product(t[1], t[2])' = Product(t[1], t[2])
        BY <2>1
      <3> QED
        BY <1>c, <1>d, <2>1, <2>3, <3>1, <3>2, <3>3, <3>5, <3>6, <3>7, ZenonT(30) DEF TableInv
    <2> QED
      BY <2>1, <2>2, <2>3
  <1>10. CASE ProcessOption
    <2> DEFINE t == dmTblVerintStr
    <2>1. /\ pc = "option" /\ pc' \in {"option", "failed", "overrun"}
          /\ UNCHANGED <<crypt, dmTblVerintStr, dmVerintDataSizeBytes>>
      BY <1>10, ZenonT(30) DEF ProcessOption, fields
    <2>2. CASE pc' \in {"failed", "overrun"}
      BY <1>b, <2>1, <2>2
    <2>3. CASE pc' = "option"
      <3>1. /\ TableOfSigned /\ crypt = {"integrity"} /\ Len(t) >= 4
            /\ dmVerintDataSizeBytes = Product(t[1], t[2])
        BY <2>1 DEF TableInv
      <3>2. /\ Len(opts') <= Len(t) - 3
            /\ opts' = SubSeq(t, Len(t) - Len(opts') + 1, Len(t))
            /\ OptionsProcessed(Len(t) - 3 - Len(opts))'
        BY <1>10, <2>3, OptionStep
      <3>3. Product(t[1], t[2])' = Product(t[1], t[2])
        BY <2>1
      <3> QED
        BY <1>c, <1>d, <2>1, <2>3, <3>1, <3>2, <3>3, ZenonT(30) DEF TableInv
    <2> QED
      BY <2>1, <2>2, <2>3
  <1>11. CASE WriteIntegrityTable
    <2> DEFINE t == dmTblVerintStr
    <2>1. /\ pc = "option" /\ pc' \in {"done", "failed"} /\ opts = <<>>
          /\ UNCHANGED <<crypt, dmTblVerintStr, dmVerintDataSizeBytes, procAddOpts, keyring>>
      BY <1>11 DEF WriteIntegrityTable, keys, options
    <2>2. CASE pc' = "failed"
      BY <1>b, <2>1, <2>2
    <2>3. CASE pc' = "done"
      <3>1. /\ TableOfSigned /\ crypt = {"integrity"} /\ Len(t) >= 4
            /\ dmVerintDataSizeBytes = Product(t[1], t[2])
            /\ OptionsProcessed(Len(t) - 3 - Len(opts))
        BY <2>1 DEF TableInv
      <3>2. dmTableVerint' = IntegrityHead(t) \o procAddOpts
        BY <1>11, <2>3 DEF WriteIntegrityTable, Written, Fits
      <3>3. Len(t) - 3 - Len(opts) = Len(t) - 3
        BY <2>1 DEF TypeOK
      <3>4. OptionsProcessed(Len(t) - 3)'
        BY <2>1, <3>1, <3>3, ZenonT(30) DEF OptionsProcessed, KeyAvailable, Processed, KeyFor
      <3>5. /\ Product(t[1], t[2])' = Product(t[1], t[2])
            /\ IntegrityHead(t)' = IntegrityHead(t)
        BY <2>1
      <3> QED
        BY <1>c, <1>d, <2>1, <2>3, <3>1, <3>2, <3>4, <3>5, ZenonT(30) DEF TableInv
    <2> QED
      BY <2>1, <2>2, <2>3
  <1>12. CASE DeviceGone
    BY <1>12, <1>b DEF DeviceGone
  <1>13. CASE UNCHANGED vars
    BY <1>13, ZenonT(30) DEF vars, keys, fields, options, TableInv, TableOfSigned, OptionsProcessed, KeyAvailable,
                 Processed, KeyFor
  <1> QED
    BY <1>1, <1>2, <1>3, <1>4, <1>5, <1>6, <1>7, <1>8, <1>9, <1>10, <1>11, <1>12, <1>13
    DEF Next, cominitStep

\* Reading, verifying and generating, together.
LEMMA TableInvariant == Spec => [](LoadInv /\ TypeOK /\ TableInv)
  BY TableInit, LoadInvariant, ReadInvariant, TableStep, PTL DEF Spec

\* A product that fits into 64 bits is the product of what the words say, also if one of them
\* is too large for strtoull(): the other is zero then.
LEMMA ProductIsExact ==
  ASSUME NEW a, NEW b, ValueOf(a) * ValueOf(b) < Word
  PROVE  Product(a, b) = ValueOf(a) * ValueOf(b)
  <1>1. /\ Word \in Nat /\ ValueOf(a) \in Nat /\ ValueOf(b) \in Nat
        /\ strtoull(a) = (IF ValueOf(a) < Word THEN ValueOf(a) ELSE Word - 1)
        /\ strtoull(b) = (IF ValueOf(b) < Word THEN ValueOf(b) ELSE Word - 1)
        /\ 0 < Word
    BY MetadataAssumption DEF ValueOf, strtoull
  <1> DEFINE x == ValueOf(a)
             y == ValueOf(b)
  <1> HIDE DEF x, y
  <1>2. x \in Nat /\ y \in Nat /\ x * y < Word
    BY <1>1 DEF x, y
  <1>3. ASSUME NEW m \in Nat, NEW n \in Nat, m # 0, n # 0 PROVE n <= m * n /\ m <= m * n
    BY <1>3, Z3
  <1>4. CASE x = 0 \/ y = 0
    BY <1>1, <1>4 DEF x, y, Product
  <1>5. CASE x # 0 /\ y # 0
    <2>1. x < Word /\ y < Word
      BY <1>1, <1>2, <1>3, <1>5
    <2>2. Product(a, b) = (x * y) % Word
      BY <1>1, <2>1 DEF x, y, Product
    <2>3. \A n \in Nat : n < Word => n % Word = n
      BY <1>1
    <2>4. x * y \in Nat
      BY <1>2
    <2> QED
      BY <1>2, <2>2, <2>3, <2>4 DEF x, y
  <1> QED
    BY <1>4, <1>5

\* The number of options, with the block size, if it fits into 64 bits.
LEMMA SuccessorIsExact ==
  ASSUME NEW a, ValueOf(a) + 1 < Word
  PROVE  (strtoull(a) + 1) % Word = ValueOf(a) + 1
  <1>1. Word \in Nat /\ ValueOf(a) \in Nat
    BY MetadataAssumption DEF ValueOf
  <1>2. strtoull(a) = ValueOf(a)
    BY <1>1, MetadataAssumption DEF ValueOf, strtoull
  <1> QED
    BY <1>1, <1>2

\* The table of dm-integrity: a head of six words, and the options behind it.
LEMMA IntegrityMapped ==
  ASSUME LoadInv, TypeOK, TableInv, pc = "done", crypt = {"integrity"}
  PROVE  LET t == dmTblVerintStr
         IN  /\ Len(t) >= 4
             /\ ValueOf(t[1]) * ValueOf(t[2]) < Word =>
                   dmVerintDataSizeBytes = ValueOf(t[1]) * ValueOf(t[2])
             /\ Len(dmTableVerint) = Len(t) + 3
             /\ ValueOf(t[3]) + 1 < Word => dmTableVerint[5].digits = <<ValueOf(t[3]) + 1>>
             /\ \A i \in 4 .. Len(t) :
                   /\ dmTableVerint[i + 3].word = t[i]
                   /\ Decoded(dmTableVerint[i + 3].digits) =
                         IF t[i] \in DOMAIN KeyOf THEN PayloadOf(KeyOf[t[i]]) ELSE <<>>
  <1> DEFINE t == dmTblVerintStr
             head == IntegrityHead(t)
             p == procAddOpts
  <1>1. /\ Len(t) >= 4 /\ dmTableVerint = head \o p
        /\ dmVerintDataSizeBytes = Product(t[1], t[2])
        /\ OptionsProcessed(Len(t) - 3)
    BY DEF TableInv
  <1>2. t \in Seq(Words) /\ Len(t) \in Nat
    BY DEF TypeOK
  <1>3. /\ p \in Seq(TableWord) /\ Len(p) = Len(t) - 3
        /\ \A i \in 1 .. Len(t) - 3 : KeyAvailable(t[i + 3]) /\ p[i] = Processed(t[i + 3])
    BY <1>1 DEF OptionsProcessed
  <1> DEFINE S == {head[i] : i \in 1 .. 6} \cup TableWord
  <1>4. head \in Seq(S) /\ Len(head) = 6 /\ head[5].digits = <<(strtoull(t[3]) + 1) % Word>>
    BY DEF IntegrityHead, Keyed
  <1>5. p \in Seq(S)
    BY <1>3
  <1> HIDE DEF head, S, p, t
  <1>6. /\ Len(head \o p) = Len(t) + 3 /\ (head \o p)[5] = head[5]
        /\ \A i \in 1 .. Len(t) - 3 : (head \o p)[i + 6] = p[i]
    <2> DEFINE d == head \o p
    <2>1. /\ Len(d) = Len(head) + Len(p)
          /\ \A i \in 1 .. Len(head) + Len(p) :
                d[i] = IF i <= Len(head) THEN head[i] ELSE p[i - Len(head)]
      BY <1>4, <1>5, ConcatProperties, ZenonT(30)
    <2> HIDE DEF d
    <2>2. ASSUME NEW i \in 1 .. Len(t) - 3 PROVE d[i + 6] = p[i]
      <3>1. i + 6 \in 1 .. Len(head) + Len(p) /\ ~(i + 6 <= Len(head)) /\ (i + 6) - Len(head) = i
        BY <1>2, <1>3, <1>4
      <3> QED
        BY <2>1, <3>1, ZenonT(30)
    <2>3. Len(d) = Len(t) + 3 /\ d[5] = head[5]
      <3>1. Len(head) + Len(p) = Len(t) + 3 /\ 5 \in 1 .. Len(head) + Len(p) /\ 5 <= Len(head)
        BY <1>2, <1>3, <1>4
      <3> QED
        BY <2>1, <3>1, ZenonT(30)
    <2> QED
      BY <2>2, <2>3 DEF d
  <1>7. ASSUME NEW i \in 4 .. Len(t)
        PROVE  /\ dmTableVerint[i + 3].word = t[i]
               /\ Decoded(dmTableVerint[i + 3].digits) =
                     IF t[i] \in DOMAIN KeyOf THEN PayloadOf(KeyOf[t[i]]) ELSE <<>>
    <2>1. i - 3 \in 1 .. Len(t) - 3 /\ (i - 3) + 6 = i + 3 /\ (i - 3) + 3 = i /\ t[i] \in Words
      BY <1>2
    <2>2. (head \o p)[i + 3] = p[i - 3] /\ KeyAvailable(t[i]) /\ p[i - 3] = Processed(t[i])
      BY <1>3, <1>6, <2>1, ZenonT(30)
    <2>3. dmTableVerint[i + 3] = Processed(t[i])
      BY <1>1, <2>2, Zenon
    <2> QED
      BY <2>1, <2>2, <2>3, ProcessedAsAsked, ZenonT(30)
  <1>8. dmTableVerint[5].digits = <<(strtoull(t[3]) + 1) % Word>> /\ Len(dmTableVerint) = Len(t) + 3
    BY <1>1, <1>4, <1>6, ZenonT(30)
  <1>9. ValueOf(t[1]) * ValueOf(t[2]) < Word =>
          dmVerintDataSizeBytes = ValueOf(t[1]) * ValueOf(t[2])
    BY <1>1, ProductIsExact, Zenon
  <1>10. ValueOf(t[3]) + 1 < Word => dmTableVerint[5].digits = <<ValueOf(t[3]) + 1>>
    BY <1>8, SuccessorIsExact, Zenon
  <1> QED
    BY <1>1, <1>7, <1>8, <1>9, <1>10, ZenonT(30) DEF t

\* At the end the invariant says what is mapped.
LEMMA Mapped == LoadInv /\ TypeOK /\ TableInv => MappedAsSigned
  <1> SUFFICES ASSUME LoadInv, TypeOK, TableInv, pc = "done"
               PROVE  MappedAsSigned
    BY ZenonT(30) DEF MappedAsSigned
  <1>1. PICK s \in Signed : LET h == HeaderOf(Front(s[1]))
                            IN  /\ WellFormed(h) /\ crypt = CryptOf[h[4]]
                                /\ dmTblVerintStr = VerintTableOf(Front(s[1]))
    BY ZenonT(30) DEF TableInv, TableOfSigned
  <1> DEFINE t == VerintTableOf(Front(s[1]))
  <1>2. t = dmTblVerintStr
    BY <1>1, Zenon
  <1>3. crypt = {"verity"} =>
          /\ Len(t) >= 6
          /\ dmTableVerint = VerityTable(t)
          /\ ValueOf(t[2]) * ValueOf(t[4]) < Word =>
                dmVerintDataSizeBytes = ValueOf(t[2]) * ValueOf(t[4])
    <2> HIDE DEF t
    <2>1. crypt = {"verity"} =>
            Len(t) >= 6 /\ dmTableVerint = VerityTable(t) /\ dmVerintDataSizeBytes = Product(t[2], t[4])
      BY <1>2 DEF TableInv
    <2> QED
      BY <2>1, ProductIsExact, Zenon
  <1>4. crypt \notin {{"verity"}, {"integrity"}} => dmTableVerint = <<>>
    BY DEF TableInv
  <1> QED
    BY <1>1, <1>2, <1>3, <1>4, IntegrityMapped, ZenonT(30) DEF MappedAsSigned

\* For every table, every key and every size of the buffers: what is mapped is what has been
\* signed, with a size that is the one asked for whenever 64 bits can hold it.
THEOREM MapsWhatIsSigned == Spec => []MappedAsSigned
  BY TableInvariant, Mapped, PTL
==============================================================================
