------------------------------ MODULE Metadata -------------------------------
(***************************************************************************)
(* Loading the metadata of the rootfs: cominitLoadVerifyMetadata() of      *)
(* src/src/meta.c with its read loop, the signature check, the parser and  *)
(* the two generators of device-mapper tables.  A build with the fake HSM  *)
(* puts keys into the keyring before (src/src/keyring.c); otherwise they   *)
(* have to be there already.                                               *)
(*                                                                         *)
(* The unit of length is a cell: a run of words separated by spaces, a     *)
(* separator Byte or a signature.  A cell is a sequence of words; a word   *)
(* has length one where the size of a table matters.                       *)
(***************************************************************************)
EXTENDS Integers, Sequences, SequencesExt

CONSTANTS
    MetaSize,       \* COMINIT_PART_META_DATA_SIZE
    SigLen,         \* COMINIT_PART_META_SIG_LENGTH
    TableMax,       \* COMINIT_DM_TABLE_SIZE_MAX
    PayloadMax,     \* COMINIT_KEYRING_PAYLOAD_MAX_SIZE
    Word,           \* 2^64
    Partitions,     \* what may be on the rootfs partition, sequences of cells
    Signed,         \* the pairs of a text with its NUL and a signature that verify
    KeyDescs,       \* COMINIT_FAKE_HSM_KEY_DESCS
    KeyFiles,       \* what may be in the files of these keys
    Keyrings,       \* what may be in the user keyring when cominit starts
    KeyOf,          \* the key description in each option that refers to a key
    Numeral,        \* the value of each word that is a number
    Beginning,      \* the first COMINIT_FSTYPE_STR_MAX_LEN - 1 characters of each longer word
    FaultSets       \* the sets of operations that may fail, one of which applies

\* One Byte, 0xFF or 0x00, that separates strings.
FF == <<"0xFF">>
NUL == <<"0x00">>

\* What a cell consists of; a separator is one word.
Words == STRING \cup {"0xFF", "0x00"}

\* What each word for the crypt type selects.
CryptOf ==
    [w \in {"plain", "verity", "integrity", "crypt", "crypt-integrity", "crypt-verity"} |->
        CASE w = "plain" -> {}
          [] w = "crypt-integrity" -> {"crypt", "integrity"}
          [] w = "crypt-verity" -> {"crypt", "verity"}
          [] OTHER -> {w}]

ASSUME MetadataAssumption ==
    /\ {MetaSize, SigLen, TableMax, PayloadMax, Word} \subseteq Nat
    /\ SigLen + 2 <= MetaSize /\ 2 * MetaSize <= Word /\ 0 < TableMax
    /\ Partitions \subseteq Seq(Seq(Words)) /\ \A p \in Partitions : Len(p) < Word
    /\ KeyDescs \in Seq(STRING)
    /\ \A f \in KeyFiles \cup Keyrings :
        DOMAIN f \subseteq STRING /\ \A k \in DOMAIN f : f[k] \in Seq(0 .. 255)
    /\ \A o \in DOMAIN KeyOf : KeyOf[o] \in STRING
    /\ \A w \in DOMAIN Numeral : Numeral[w] \in Nat
    /\ \A w \in DOMAIN Beginning : Beginning[w] \in STRING

VARIABLES
    faults,         \* the operations that may fail
    pc,             \* what is done next
    keyFiles,       \* contents of the key files in the initramfs
    keyring,        \* the user keyring, description to payload
    added,          \* number of descriptions already processed
    part,           \* the partition; <<>> once it is gone
    offset,         \* position of the file descriptor
    len,            \* cells that are still to be read
    buf,            \* metabuf
    fsType, ro, crypt, dmVerintDataSizeBytes, dmTableVerint,    \* fields of rfsMeta
    dmTblVerintStr, \* words of the first device-mapper table
    opts,           \* words of addOpts that strtok_r() has not returned yet
    procAddOpts,    \* the processed options
    used            \* procOpt - procAddOpts

fields == <<fsType, ro, crypt, dmVerintDataSizeBytes, dmTableVerint>>
keys == <<keyFiles, keyring, added>>
reader == <<part, offset, len, buf>>
options == <<dmTblVerintStr, opts, procAddOpts, used>>
vars == <<faults, pc, keys, reader, fields, options>>

\* snprintf() of a word without and with the digits of a key or a number behind it.
Plain(w) == [word |-> w, digits |-> <<>>]
Keyed(w, digits) == [word |-> w, digits |-> digits]

\* Return 0, return -1, and a read and a write outside the buffers of a key: the source does
\* not determine what happens from there on.
Final == {"done", "failed", "overrun"}
Points == Final \cup
    {"hsm", "open", "size", "seek", "read", "verify", "parse", "verity", "integrity", "option"}

-----------------------------------------------------------------------------
\* Built with or without COMINIT_FAKE_HSM; in production an HSM has enrolled the keys.
Init ==
    /\ faults \in FaultSets
    /\ pc \in {"hsm", "open"}
    /\ keyFiles \in KeyFiles
    /\ keyring \in Keyrings /\ added = 0
    /\ part \in Partitions
    /\ offset = 0 /\ len = 0
    /\ buf = [i \in 1 .. MetaSize |-> NUL]
    /\ fsType = "" /\ ro = "rw" /\ crypt = {}
    /\ dmVerintDataSizeBytes = 0 /\ dmTableVerint = <<>>
    /\ dmTblVerintStr = <<>> /\ opts = <<>> /\ procAddOpts = <<>> /\ used = 0

Fails ==
    /\ pc' = "failed"
    /\ UNCHANGED <<faults, keys, reader, fields, options>>

\* Mutant: no test of the size of a key file.
KeyFileAccepted_AnySize(d) == d \in DOMAIN keyFiles /\ Len(keyFiles[d]) > 0

\* stat(), the limit on the size, and fread(), which reads one item of that size: an empty
\* file is an error.
KeyFileAccepted(d) ==
    d \in DOMAIN keyFiles /\ Len(keyFiles[d]) > 0 /\ Len(keyFiles[d]) <= PayloadMax

\* add_key(): a key with the same description gets the new payload.
WithKey(d) ==
    [e \in DOMAIN keyring \cup {d} |-> IF e = d THEN keyFiles[d] ELSE keyring[e]]

\* One key description in cominitKeyringInitFakeHsm().  At the first that fails it returns,
\* and main() goes on.
cominitKeyringInitFakeHsm ==
    /\ pc = "hsm"
    /\ \/ /\ added < Len(KeyDescs)
          /\ KeyFileAccepted(KeyDescs[added + 1])
          /\ keyring' = WithKey(KeyDescs[added + 1])
          /\ added' = added + 1
          /\ pc' = "hsm"
       \/ /\ \/ added = Len(KeyDescs)
             \/ added < Len(KeyDescs) /\ ~KeyFileAccepted(KeyDescs[added + 1])
             \/ "add_key" \in faults
          /\ pc' = "open"
          /\ UNCHANGED <<keyring, added>>
    /\ UNCHANGED <<faults, keyFiles, reader, fields, options>>

\* open(), ioctl() and lseek() fail or succeed; what they find is in part.
OpenPartition ==
    /\ pc = "open"
    /\ \/ pc' = "size" /\ UNCHANGED <<faults, keys, reader, fields, options>>
       \/ "open" \in faults /\ Fails

\* Mutant: the region is taken to begin one cell later.
MetadataOffset_Late(partSize) == partSize - MetaSize + 1

\* Mutant: the region is taken to begin one cell earlier.
MetadataOffset_Early(partSize) == partSize - MetaSize - 1

\* partSize - COMINIT_PART_META_DATA_SIZE is unsigned and wraps around for a partition that
\* is too small; the conversion to off_t makes it negative again.
MetadataOffset(partSize) ==
    LET wrapped == (partSize - MetaSize) % Word
    IN  IF 2 * wrapped < Word THEN wrapped ELSE wrapped - Word

\* cominitCommonGetPartSize()
cominitCommonGetPartSize ==
    /\ pc = "size"
    /\ \/ /\ pc' = "seek"
          /\ offset' = MetadataOffset(Len(part))
          /\ UNCHANGED <<faults, keys, part, len, buf, fields, options>>
       \/ "size" \in faults /\ Fails

\* Mutant: an offset before the beginning is taken for the beginning.
SeekTo_Clamped ==
    /\ pc' = "read"
    /\ offset' = IF offset < 0 THEN 0 ELSE offset

\* A negative offset is refused.
SeekTo ==
    /\ offset >= 0
    /\ pc' = "read"
    /\ UNCHANGED offset

\* The first half of cominitBinReadall().
Seek ==
    /\ pc = "seek"
    /\ \/ SeekTo /\ len' = MetaSize /\ UNCHANGED <<faults, keys, part, buf, fields, options>>
       \/ (offset < 0 \/ "seek" \in faults) /\ Fails

\* The cells that read() can deliver: none at the end of the device.
Available == IF Len(part) <= offset THEN 0 ELSE Len(part) - offset

\* The results of read() other than -1.  A short read is possible whenever several pages are
\* involved.
ReadResults ==
    LET most == IF Available < len THEN Available ELSE len
    IN  IF most > 0 /\ "short" \in faults THEN 1 .. most ELSE {most}

\* The loop of cominitBinReadall().  Every read() begins at the start of buf.  One that
\* delivers nothing leaves everything as it is and is repeated.
cominitBinReadall ==
    /\ pc = "read"
    /\ \/ /\ len > 0
          /\ \E n \in ReadResults :
                /\ buf' = [i \in 1 .. MetaSize |-> IF i <= n THEN part[offset + i] ELSE buf[i]]
                /\ offset' = offset + n
                /\ len' = len - n
          /\ pc' = "read"
          /\ UNCHANGED <<faults, keys, part, fields, options>>
       \/ len > 0 /\ "read" \in faults /\ Fails
       \/ /\ len = 0
          /\ pc' = "verify"
          /\ UNCHANGED <<faults, keys, reader, fields, options>>

\* The number of cells of s before the first c, or all of them.
strcspn(s, c) ==
    (CHOOSE i \in 1 .. Len(s) + 1 :
        /\ i = Len(s) + 1 \/ s[i] = c
        /\ \A j \in 1 .. i - 1 : s[j] # c) - 1

metaLen == strcspn(buf, NUL)

\* The data that the signature covers, and where the signature is.
SignedData(b, n) == SubSeq(b, 1, n + 1)
Signature(b, n) == SubSeq(b, n + 2, n + 1 + SigLen)

\* Mutant: an error of the signature check is logged only.
SignatureHolds_Ignored == TRUE

\* cominitCryptoVerifySignature(): the key is usable and the signature is one of this text.
SignatureHolds == <<SignedData(buf, metaLen), Signature(buf, metaLen)>> \in Signed

\* A text without NUL has all of metabuf for its length.
RoomForSignature == metaLen < MetaSize - SigLen - 1

\* After close(): the text must leave room for its signature, and the signature must hold.
VerifyMetadata ==
    /\ pc = "verify"
    /\ \/ /\ RoomForSignature
          /\ SignatureHolds
          /\ pc' = "parse"
          /\ UNCHANGED <<faults, keys, reader, fields, options>>
       \/ /\ \/ ~RoomForSignature
             \/ RoomForSignature /\ ~SignatureHolds
             \/ "crypto" \in faults
          /\ Fails

\* The parts of a text: the header, the first device-mapper table and the rest, each followed
\* by 0xFF but the last.
AfterHeader(t) == SubSeq(t, strcspn(t, FF) + 2, Len(t))
HasTables(t) == strcspn(t, FF) < Len(t) /\ strcspn(AfterHeader(t), FF) < Len(AfterHeader(t))
HeaderOf(t) == FlattenSeq(SubSeq(t, 1, strcspn(t, FF)))
VerintTableOf(t) == FlattenSeq(SubSeq(AfterHeader(t), 1, strcspn(AfterHeader(t), FF)))

\* strncmp() compares as many characters as COMINIT_PART_META_DATA_VERSION has.
VersionFits(h) == h # <<>> /\ h[1] \in {"1", "1.5"}

\* The table that is generated next, if any.
TableFor(c) ==
    CASE c = {"verity"} -> "verity" [] c = {"integrity"} -> "integrity" [] OTHER -> "done"

\* strncpy() into meta->fsType, and the NUL at its end: a longer word is cut.
strncpyFsType(w) == IF w \in DOMAIN Beginning THEN Beginning[w] ELSE w

\* The fields after the parser has gone through the header h.  Each is set when its word has
\* been read, so a text that ends early leaves the earlier ones changed.
FieldsOf(text, h) ==
    LET begun == VersionFits(h) /\ HasTables(text)
        sawFs == begun /\ Len(h) >= 2
        sawMode == sawFs /\ Len(h) >= 3 /\ h[3] \in {"ro", "rw"}
        sawAll == sawMode /\ Len(h) >= 4 /\ h[4] \in DOMAIN CryptOf
        accepted == sawAll /\ CryptOf[h[4]] # {"verity", "integrity"}
    IN  /\ fsType' = IF sawFs THEN strncpyFsType(h[2]) ELSE fsType
        /\ ro' = IF sawMode THEN h[3] ELSE ro
        /\ crypt' = IF sawAll THEN CryptOf[h[4]] ELSE crypt
        /\ dmTableVerint' = IF accepted THEN <<>> ELSE dmTableVerint
        /\ dmTblVerintStr' = IF begun THEN VerintTableOf(text) ELSE <<>>
        /\ pc' = IF accepted THEN TableFor(CryptOf[h[4]]) ELSE "failed"

\* cominitParseMetadata() up to the device-mapper tables.
cominitParseMetadata ==
    /\ pc = "parse"
    /\ \E text \in {SubSeq(buf, 1, metaLen)} : \E h \in {HeaderOf(text)} : FieldsOf(text, h)
    /\ UNCHANGED <<faults, keys, reader, dmVerintDataSizeBytes, opts, procAddOpts, used>>

\* strtoull() of a word: zero if it is not a number, the greatest number if it is too large.
strtoull(w) ==
    CASE w \notin DOMAIN Numeral -> 0
      [] w \in DOMAIN Numeral /\ Numeral[w] < Word -> Numeral[w]
      [] w \in DOMAIN Numeral /\ Numeral[w] >= Word -> Word - 1

\* Mutant: the number of blocks is left out.
Product_OneBlock(a, b) == strtoull(a)

\* Mutant: the size is kept in a wider type than the field has.
Product_Wide(a, b) == strtoull(a) * strtoull(b)

Product(a, b) == (strtoull(a) * strtoull(b)) % Word

\* The beginning of each table, with meta->devicePath and for dm-integrity the number of
\* options and the block size.
VerityTable(t) ==
    [i \in 1 .. Len(t) + 2 |-> CASE i = 1 -> Plain(t[1]) [] i \in {2, 3} -> Plain("dev")
                                 [] i > 3 -> Plain(t[i - 2])]
IntegrityHead(t) ==
    <<Plain("dev"), Plain("0"), Plain("-"), Plain("J"),
      Keyed("options", <<(strtoull(t[3]) + 1) % Word>>), Plain(t[2])>>

\* Mutant: the last cell of the table, which holds its NUL, is used too.
Fits_OffByOne(n) == n <= TableMax

\* snprintf() has not cut anything off.
Fits(n) == n < TableMax

\* What snprintf() may leave in a table when it writes t, which has n characters.
Written(t, n) ==
    IF n < TableMax THEN {t} ELSE {SubSeq(t, 1, k) : k \in 0 .. Len(t) - 1}

\* cominitGenVerityDmTbl(): the words are the version, the size of data blocks, the size of
\* hash blocks, the number of data blocks, the first hash block, the algorithm and the rest.
cominitGenVerityDmTbl ==
    LET t == dmTblVerintStr
        written == Len(t) >= 2
        fits == written /\ Fits(Len(t) + 2)
    IN  /\ pc = "verity"
        /\ dmTableVerint' \in IF written THEN Written(VerityTable(t), Len(t) + 2) ELSE {dmTableVerint}
        /\ dmVerintDataSizeBytes' =
              CASE fits /\ Len(t) >= 4 -> Product(t[2], t[4])
                [] fits /\ Len(t) < 4 -> strtoull(t[2])
                [] ~fits -> dmVerintDataSizeBytes
        /\ pc' = IF fits /\ Len(t) >= 6 THEN "done" ELSE "failed"
        /\ UNCHANGED <<faults, keys, reader, fsType, ro, crypt, options>>

\* cominitGenIntegrityDmTbl() up to its loop: the number of blocks, their size, the number
\* of options and at least one option.
cominitGenIntegrityDmTbl ==
    LET t == dmTblVerintStr
    IN  /\ pc = "integrity"
        /\ dmVerintDataSizeBytes' =
              CASE Len(t) >= 2 -> Product(t[1], t[2])
                [] Len(t) = 1 -> strtoull(t[1])
                [] Len(t) = 0 -> dmVerintDataSizeBytes
        /\ IF Len(t) >= 4
            THEN /\ opts' = SubSeq(t, 4, Len(t)) /\ procAddOpts' = <<>> /\ used' = 0
                 /\ pc' = "option"
            ELSE pc' = "failed" /\ UNCHANGED <<opts, procAddOpts, used>>
        /\ UNCHANGED <<faults, keys, reader, fsType, ro, crypt, dmTableVerint, dmTblVerintStr>>

\* Mutant: the halves of a Byte in the wrong order.
cominitBytesToHex_Swapped(b) ==
    [i \in 1 .. 2 * Len(b) |-> IF i % 2 = 0 THEN b[(i + 1) \div 2] \div 16 ELSE b[(i + 1) \div 2] % 16]

\* Two hexadecimal digits for every Byte.
cominitBytesToHex(b) ==
    [i \in 1 .. 2 * Len(b) |-> IF i % 2 = 1 THEN b[(i + 1) \div 2] \div 16 ELSE b[(i + 1) \div 2] % 16]

\* What cominitKeyringGetKey() finds under the description that an option has.
KeyFor(o) == IF KeyOf[o] \in DOMAIN keyring THEN keyring[KeyOf[o]] ELSE <<>>

\* The option as it goes into the table.
Processed(o) ==
    IF o \in DOMAIN KeyOf THEN Keyed(o, cominitBytesToHex(KeyFor(o))) ELSE Plain(o)

\* keyLen >= 1 for an option that refers to a key.
KeyAvailable(o) == o \in DOMAIN KeyOf => Len(KeyFor(o)) >= 1

\* Mutant: the space is compared with what the table has in all.
RoomFor_Total(n) == n < TableMax

\* ret < n for the characters that are left.
RoomFor(n) == n < TableMax - used

\* keyBytes and keyHex have room for the key.
KeyFits(o) == o \in DOMAIN KeyOf => Len(KeyFor(o)) <= PayloadMax

\* One round of the loop over the options.  cominitKeyringGetKey() returns the length the
\* kernel reports, which is the length of the key, whatever the size of the buffer; a longer
\* key is not noticed.
ProcessOption ==
    /\ pc = "option" /\ opts # <<>>
    /\ LET o == Head(opts)
           n == 1 + Len(Processed(o).digits)
       IN  \/ /\ KeyAvailable(o) /\ KeyFits(o) /\ RoomFor(n)
              /\ procAddOpts' = Append(procAddOpts, Processed(o))
              /\ used' = used + n
              /\ opts' = Tail(opts)
              /\ pc' = "option"
           \/ /\ \/ ~KeyAvailable(o)
                 \/ KeyFits(o) /\ ~RoomFor(n)
                 \/ o \in DOMAIN KeyOf /\ "keyctl" \in faults
              /\ pc' = "failed"
              /\ UNCHANGED <<opts, procAddOpts, used>>
           \/ /\ ~KeyFits(o)
              /\ pc' = "overrun"
              /\ UNCHANGED <<opts, procAddOpts, used>>
    /\ UNCHANGED <<faults, keys, reader, fields, dmTblVerintStr>>

\* After the loop: the table is written and its length tested.
WriteIntegrityTable ==
    /\ pc = "option" /\ opts = <<>>
    /\ LET head == IntegrityHead(dmTblVerintStr)
       IN  /\ dmTableVerint' \in Written(head \o procAddOpts, Len(head) + used)
           /\ pc' = IF Fits(Len(head) + used) THEN "done" ELSE "failed"
    /\ UNCHANGED <<faults, keys, reader, fsType, ro, crypt, dmVerintDataSizeBytes, options>>

\* A device that is taken away has no capacity any more: read() finds its end at once.
DeviceGone ==
    /\ pc = "read" /\ part # <<>> /\ "gone" \in faults
    /\ part' = <<>>
    /\ UNCHANGED <<faults, pc, keys, offset, len, buf, fields, options>>

cominitStep ==
    \/ cominitKeyringInitFakeHsm \/ OpenPartition \/ cominitCommonGetPartSize \/ Seek
    \/ cominitBinReadall \/ VerifyMetadata \/ cominitParseMetadata \/ cominitGenVerityDmTbl
    \/ cominitGenIntegrityDmTbl \/ ProcessOption \/ WriteIntegrityTable

Next == cominitStep \/ DeviceGone

Spec == Init /\ [][Next]_vars

\* cominit runs alone and every call returns.
FairSpec == Spec /\ WF_vars(cominitStep)

-----------------------------------------------------------------------------
(* Every variable has its type. *)
TypeOK ==
    /\ faults \in FaultSets /\ pc \in Points
    /\ added \in 0 .. Len(KeyDescs)
    /\ offset \in Int /\ len \in 0 .. MetaSize
    /\ buf \in [1 .. MetaSize -> Seq(Words)]
    /\ ro \in {"ro", "rw"} /\ crypt \subseteq {"verity", "integrity", "crypt"}
    /\ dmVerintDataSizeBytes \in 0 .. Word - 1
    /\ dmTblVerintStr \in Seq(Words) /\ opts \in Seq(Words)
    /\ used \in Nat

\* A header that says everything.
WellFormed(h) == Len(h) >= 4 /\ h[3] \in {"ro", "rw"} /\ h[4] \in DOMAIN CryptOf

\* The fields are those of a text with a valid signature.
ParsedFromSigned ==
    \E s \in Signed :
        LET h == HeaderOf(Front(s[1]))
        IN  WellFormed(h) /\ fsType = strncpyFsType(h[2]) /\ ro = h[3] /\ crypt = CryptOf[h[4]]

(***************************************************************************)
(* When cominitLoadVerifyMetadata() returns 0, the fields of rfsMeta are   *)
(* those of one text whose signature verifies, however the Bytes came into *)
(* metabuf and although the parser sets the fields one by one.  Only the   *)
(* type of the file system is cut, to what its field holds.                *)
(***************************************************************************)
AcceptedIsSigned == pc = "done" => ParsedFromSigned

\* The Bytes that a string of hexadecimal digits stands for.
Decoded(hex) == [i \in 1 .. Len(hex) \div 2 |-> 16 * hex[2 * i - 1] + hex[2 * i]]

\* The number that a word of the text says, of any size.
ValueOf(w) == IF w \in DOMAIN Numeral THEN Numeral[w] ELSE 0

\* The descriptions of the keys that cominit itself has enrolled, and the key that the text
\* means by a description.
Enrolled == {KeyDescs[i] : i \in 1 .. added}
PayloadOf(d) == IF d \in Enrolled THEN keyFiles[d] ELSE keyring[d]

(***************************************************************************)
(* The device-mapper table and the size of the device are those the signed *)
(* text asks for: complete, with the options in their order, and with each *)
(* key of the keyring where the text has only its name.  A `plain' rootfs  *)
(* has no table, and neither have the types with `crypt'.  The size is the *)
(* product of the two numbers of the text, if it fits into 64 bits: nobody *)
(* tests it, a larger one wraps around (meta.c:302, 316, 355, 363), and so *)
(* does the number of options (meta.c:371, 438).                           *)
(***************************************************************************)
MappedAsSigned ==
    pc = "done" =>
        \E s \in Signed :
            LET h == HeaderOf(Front(s[1]))
                t == VerintTableOf(Front(s[1]))
            IN  /\ WellFormed(h) /\ crypt = CryptOf[h[4]]
                /\ crypt = {"verity"} =>
                        /\ Len(t) >= 6
                        /\ dmTableVerint = VerityTable(t)
                        /\ ValueOf(t[2]) * ValueOf(t[4]) < Word =>
                              dmVerintDataSizeBytes = ValueOf(t[2]) * ValueOf(t[4])
                /\ crypt = {"integrity"} =>
                        /\ Len(t) >= 4
                        /\ ValueOf(t[1]) * ValueOf(t[2]) < Word =>
                              dmVerintDataSizeBytes = ValueOf(t[1]) * ValueOf(t[2])
                        /\ Len(dmTableVerint) = Len(t) + 3
                        /\ ValueOf(t[3]) + 1 < Word => dmTableVerint[5].digits = <<ValueOf(t[3]) + 1>>
                        /\ \A i \in 4 .. Len(t) :
                              /\ dmTableVerint[i + 3].word = t[i]
                              /\ Decoded(dmTableVerint[i + 3].digits) =
                                    IF t[i] \in DOMAIN KeyOf THEN PayloadOf(KeyOf[t[i]]) ELSE <<>>
                /\ crypt \notin {{"verity"}, {"integrity"}} => dmTableVerint = <<>>

(***************************************************************************)
(* A key that cominit has enrolled itself never exceeds the buffers that   *)
(* cominitGenIntegrityDmTbl() has for a key, also where a longer one with  *)
(* its description was there before (keyring.c:103-120).  The length of a  *)
(* key that comes from elsewhere is not tested: COMINIT_KEYRING_PAYLOAD_-  *)
(* MAX_SIZE is an assumption on who enrols it (meta.c:410-415).            *)
(***************************************************************************)
EnrolledKeysFit == pc = "overrun" => KeyOf[Head(opts)] \notin Enrolled

(***************************************************************************)
(* The processed options stay inside procAddOpts, with their NUL; else the *)
(* room that is left would be negative and snprintf() would take it for a  *)
(* very large one.                                                         *)
(***************************************************************************)
OptionsFitBuffer == pc = "option" => used < TableMax

(***************************************************************************)
(* The inductive invariant: from the verdict on, metabuf holds a text with *)
(* its signature, and what has been parsed is of such a text; the keys     *)
(* that cominit has enrolled are those of its files and fit, the others    *)
(* may have any length.                                                    *)
(***************************************************************************)
LoadInv ==
    /\ buf = [i \in 1 .. MetaSize |-> buf[i]]
    /\ pc = "parse" => RoomForSignature /\ SignatureHolds
    /\ pc \in {"verity", "integrity", "option", "done"} => ParsedFromSigned
    /\ keyFiles \in KeyFiles /\ added \in Nat
    /\ \A d \in DOMAIN keyring : keyring[d] \in Seq(0 .. 255)
    /\ \A d \in Enrolled :
        d \in DOMAIN keyring /\ keyring[d] = keyFiles[d] /\ Len(keyring[d]) <= PayloadMax
    /\ EnrolledKeysFit
    /\ used \in Nat /\ OptionsFitBuffer

\* metabuf holds the end of the partition.
RegionRead == part # <<>> => buf = SubSeq(part, Len(part) - MetaSize + 1, Len(part))

(***************************************************************************)
(* Whatever the size of the partition, what is verified is the region at   *)
(* its end, if read() delivers it in one piece.                            *)
(***************************************************************************)
ReadsTail == pc = "verify" /\ "short" \notin faults => RegionRead

(***************************************************************************)
(* The inductive invariant of the read loop: it begins where the region    *)
(* begins, never before the partition, and one read() that is not short    *)
(* is all of it.                                                           *)
(***************************************************************************)
ReadInv ==
    /\ part \in Partitions \cup {<<>>}
    /\ pc = "seek" => offset = MetadataOffset(Len(part))
    /\ pc = "read" => offset \in Nat
    /\ "short" \notin faults /\ part # <<>> =>
        /\ pc = "read" /\ len > 0 => offset = Len(part) - MetaSize /\ len = MetaSize
        /\ (pc = "read" /\ len = 0) \/ pc = "verify" => RegionRead

(***************************************************************************)
(* The inductive invariant of the generators: they work on the table of a  *)
(* text with a valid signature; the loop has processed a beginning of its  *)
(* options, and each of them with the key in the keyring.                  *)
(***************************************************************************)
TableOfSigned ==
    \E s \in Signed :
        LET h == HeaderOf(Front(s[1]))
        IN  /\ WellFormed(h) /\ crypt = CryptOf[h[4]]
            /\ dmTblVerintStr = VerintTableOf(Front(s[1]))

TableWord == [word : Words, digits : Seq(Nat)]

OptionsProcessed(n) ==
    /\ procAddOpts \in Seq(TableWord) /\ Len(procAddOpts) = n
    /\ \A i \in 1 .. n : LET o == dmTblVerintStr[i + 3]
                         IN  KeyAvailable(o) /\ procAddOpts[i] = Processed(o)

TableInv ==
    /\ pc \in {"verity", "integrity", "option", "done"} =>
        /\ TableOfSigned
        /\ pc = "verity" => crypt = {"verity"}
        /\ pc \in {"integrity", "option"} => crypt = {"integrity"}
    /\ LET t == dmTblVerintStr
       IN  /\ pc = "option" =>
                 /\ Len(t) >= 4
                 /\ dmVerintDataSizeBytes = Product(t[1], t[2])
                 /\ Len(opts) <= Len(t) - 3
                 /\ opts = SubSeq(t, Len(t) - Len(opts) + 1, Len(t))
                 /\ OptionsProcessed(Len(t) - 3 - Len(opts))
           /\ pc = "done" /\ crypt = {"verity"} =>
                 /\ Len(t) >= 6
                 /\ dmTableVerint = VerityTable(t)
                 /\ dmVerintDataSizeBytes = Product(t[2], t[4])
           /\ pc = "done" /\ crypt = {"integrity"} =>
                 /\ Len(t) >= 4
                 /\ dmTableVerint = IntegrityHead(t) \o procAddOpts
                 /\ dmVerintDataSizeBytes = Product(t[1], t[2])
                 /\ OptionsProcessed(Len(t) - 3)
           /\ pc = "done" /\ crypt \notin {{"verity"}, {"integrity"}} => dmTableVerint = <<>>

(***************************************************************************)
(* The comment on cominitBinReadall(), src/src/meta.c:63: `Read an exact   *)
(* amount of Bytes from a file descriptor at an offset.'                   *)
(***************************************************************************)
ReadsExactly == pc = "verify" => RegionRead

(***************************************************************************)
(* Loading ends with a verdict, also after short reads and failures, as    *)
(* long as the device is there and the keys fit: only a read() at the end  *)
(* of the device delivers nothing, and would be repeated for ever.         *)
(***************************************************************************)
LoadEnds == (pc = "open") ~> (pc \in Final \/ part = <<>>)

\* The points of cominitLoadVerifyMetadata() in the order in which it comes to them, and what
\* is left of the loop it is in: descriptions, cells or options.
Ahead ==
    [p \in Points |->
        CASE p \in Final -> 0 [] p = "option" -> 1 [] p \in {"verity", "integrity"} -> 2
          [] p = "parse" -> 3 [] p = "verify" -> 4 [] p = "read" -> 5 [] p = "seek" -> 6
          [] p = "size" -> 7 [] p = "open" -> 8 [] p = "hsm" -> 9]
LoopLeft ==
    CASE pc = "hsm" -> Len(KeyDescs) - added [] pc = "read" -> len [] pc = "option" -> Len(opts)
      [] OTHER -> 0

\* The read loop ends where the partition ends, however the reads are split.
EndInv == pc = "read" /\ part # <<>> => offset = Len(part) - len

(***************************************************************************)
(* Every step gets on: to a later point, or in the loop it is in.  No loop *)
(* goes round without doing something, but for the one read() that cannot: *)
(* of a device that is gone.                                               *)
(***************************************************************************)
LoadAdvances ==
    [][cominitStep =>
        \/ Ahead[pc'] < Ahead[pc]
        \/ pc' = pc /\ LoopLeft' \in 0 .. LoopLeft - 1
        \/ pc = "read" /\ part = <<>>]_vars
==============================================================================
