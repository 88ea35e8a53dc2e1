--------------------------- MODULE Metadata_proofs ---------------------------
(* Proofs of the safety properties of Metadata, for every partition, table size and key. *)
EXTENDS Metadata, SequenceTheorems, WellFoundedInduction, TLAPS

\* A set of natural numbers that is not empty has a least element.
LEMMA LeastNumber ==
  ASSUME NEW T \in SUBSET Nat, T # {}
  PROVE  \E x \in T : \A y \in T : x <= y
  <1>1. PICK x \in T : \A y \in T : ~(<<y, x>> \in OpToRel(<, Nat))
    BY NatLessThanWellFounded, WFMin, ZenonT(30)
  <1>2. ASSUME NEW y \in T PROVE x <= y
    <2>1. ~(y < x)
      BY <1>1, Zenon DEF OpToRel
    <2> QED
      BY <2>1
  <1> QED
    BY <1>2

\* strcspn() returns a length of a beginning of s.
LEMMA strcspnInRange ==
  ASSUME NEW S, NEW s \in Seq(S), NEW c
  PROVE  strcspn(s, c) \in 0 .. Len(s)
  <1> DEFINE T == {i \in 1 .. Len(s) + 1 : i = Len(s) + 1 \/ s[i] = c}
  <1>1. T \in SUBSET Nat /\ Len(s) + 1 \in T
    OBVIOUS
  <1>2. PICK x \in T : \A y \in T : x <= y
    BY <1>1, LeastNumber, ZenonT(30)
  <1> DEFINE First(i) == (i = Len(s) + 1 \/ s[i] = c) /\ \A j \in 1 .. i - 1 : s[j] # c
             k == CHOOSE i \in 1 .. Len(s) + 1 : First(i)
  <1>3. \E i \in 1 .. Len(s) + 1 : First(i)
    BY <1>2
  <1>4. k \in 1 .. Len(s) + 1
    <2> HIDE DEF First
    <2> QED BY <1>3
  <1> QED
    BY <1>4 DEF strcspn

\* Joining the strings of a sequence gives a string.
LEMMA FlattenType ==
  ASSUME NEW S, NEW s \in Seq(Seq(S))
  PROVE  FlattenSeq(s) \in Seq(S)
  <1> DEFINE N == Len(s)
             Body(g, i) == IF i = 1 THEN s[i] ELSE g[i - 1] \o s[i]
             IsJoin(g, n) == g \in [1 .. n -> Seq(S)] /\ \A i \in 1 .. n : g[i] = Body(g, i)
             f == CHOOSE g : g = [i \in 1 .. N |-> Body(g, i)]
  <1>1. N \in Nat /\ \A i \in 1 .. N : s[i] \in Seq(S)
    OBVIOUS
  <1>2. \A n \in 0 .. N : \E g : IsJoin(g, n)
    <2> DEFINE T == {n \in 0 .. N : ~\E g : IsJoin(g, n)}
    <2> SUFFICES ASSUME T # {} PROVE FALSE
      BY Zenon
    <2>1. T \in SUBSET Nat
      BY <1>1
    <2>2. PICK n \in T : \A m \in T : n <= m
      BY <2>1, LeastNumber, Zenon
    <2>3. n # 0
      <3> SUFFICES ASSUME n = 0 PROVE FALSE
        OBVIOUS
      <3>1. IsJoin(<<>>, 0)
        OBVIOUS
      <3> QED
        BY <2>2, <3>1, ZenonT(30)
    <2>4. n - 1 \in 0 .. N /\ n \in 1 .. N /\ ~(n <= n - 1)
      BY <1>1, <2>3
    <2>5. PICK g : IsJoin(g, n - 1)
      <3> HIDE DEF IsJoin
      <3> QED BY <2>2, <2>4, ZenonT(30)
    <2> DEFINE x == IF n = 1 THEN s[n] ELSE g[n - 1] \o s[n]
               e == [i \in 1 .. n |-> IF i = n THEN x ELSE g[i]]
    <2>6. x \in Seq(S)
      BY <1>1, <2>4, <2>5
    <2>7. e \in [1 .. n -> Seq(S)]
      <3> HIDE DEF x
      <3> QED BY <2>4, <2>5, <2>6
    <2>8. ASSUME NEW i \in 1 .. n PROVE e[i] = Body(e, i)
      <3>1. CASE i = n
        BY <2>4, <3>1
      <3>2. CASE i # n
        <4>1. i \in 1 .. n - 1 /\ i - 1 # n /\ (i # 1 => i - 1 \in 1 .. n)
          BY <2>4, <3>2
        <4>2. e[i] = g[i] /\ (i # 1 => e[i - 1] = g[i - 1])
          BY <4>1
        <4> HIDE DEF e
        <4> QED
          BY <2>5, <4>1, <4>2, ZenonT(30)
      <3> QED
        BY <3>1, <3>2
    <2> QED
      BY <2>2, <2>7, <2>8, ZenonT(30)
  <1>3. PICK g : IsJoin(g, N)
    <2> HIDE DEF IsJoin
    <2> QED BY <1>1, <1>2
  <1>4. g = [i \in 1 .. N |-> Body(g, i)]
    BY <1>3, ZenonT(30)
  <1>5. f = [i \in 1 .. N |-> Body(f, i)]
    <2> HIDE DEF Body
    <2> QED BY <1>4, ZenonT(30)
  <1>6. \A i \in 1 .. N : f[i] = Body(f, i)
    <2> HIDE DEF f
    <2> QED BY <1>5, ZenonT(30)
  <1>7. \A i \in 1 .. N : f[i] \in Seq(S)
    <2> HIDE DEF f
    <2> DEFINE T == {i \in 1 .. N : f[i] \notin Seq(S)}
    <2> SUFFICES ASSUME T # {} PROVE FALSE
      OBVIOUS
    <2>1. T \in SUBSET Nat
      BY <1>1
    <2>2. PICK n \in T : \A m \in T : n <= m
      BY <2>1, LeastNumber, Zenon
    <2>3. n # 1
      BY <1>1, <1>6, <2>2, ZenonT(30)
    <2>4. n - 1 \in 1 .. N /\ ~(n <= n - 1) /\ n \in 1 .. N
      BY <1>1, <2>3
    <2>5. f[n - 1] \in Seq(S)
      BY <2>2, <2>4
    <2>6. f[n] = f[n - 1] \o s[n]
      BY <1>6, <2>3, <2>4, ZenonT(30)
    <2>7. f[n] \in Seq(S)
      <3>1. s[n] \in Seq(S)
        BY <1>1, <2>4, Zenon
      <3>2. f[n - 1] \o s[n] \in Seq(S)
        BY <2>5, <3>1, ConcatProperties, Zenon
      <3> QED
        BY <2>6, <3>2, Zenon
    <2> QED
      BY <2>2, <2>7
  <1>8. CASE N = 0
    BY <1>8 DEF FlattenSeq
  <1>9. CASE N # 0
    <2>1. N \in 1 .. N
      BY <1>1, <1>9
    <2>2. FlattenSeq(s) = f[N]
      BY <1>9 DEF FlattenSeq
    <2> HIDE DEF f
    <2> QED
      BY <1>7, <2>1, <2>2
  <1> QED
    BY <1>8, <1>9

\* The text is what the signature covers without its NUL.
LEMMA TextIsSigned ==
  ASSUME NEW b, NEW n \in Nat
  PROVE  Front(SignedData(b, n)) = SubSeq(b, 1, n)
  <1> DEFINE S == {b[i] : i \in 1 .. n + 1}
             d == SubSeq(b, 1, n + 1)
  <1>1. /\ d \in Seq(S) /\ Len(d) = n + 1
        /\ \A i \in 1 .. n + 1 : d[i] = b[i]
    BY SubSeqProperties
  <1>2. /\ SubSeq(b, 1, n) \in Seq(S) /\ Len(SubSeq(b, 1, n)) = n
        /\ \A i \in 1 .. n : SubSeq(b, 1, n)[i] = b[i]
    BY SubSeqProperties
  <1>3. /\ SubSeq(d, 1, n) \in Seq(S) /\ Len(SubSeq(d, 1, n)) = n
        /\ \A i \in 1 .. n : SubSeq(d, 1, n)[i] = d[i]
    BY <1>1, SubSeqProperties
  <1>4. SubSeq(d, 1, n) = SubSeq(b, 1, n)
    BY <1>1, <1>2, <1>3, SeqEqual, SMTT(20)
  <1> QED
    BY <1>1, <1>4 DEF Front, SignedData

\* The text in metabuf has a length.
LEMMA metaLenInRange ==
  ASSUME buf = [i \in 1 .. MetaSize |-> buf[i]]
  PROVE  metaLen \in 0 .. MetaSize
  <1> DEFINE S == {buf[i] : i \in 1 .. MetaSize}
  <1>1. buf \in Seq(S) /\ Len(buf) = MetaSize
    <2>1. MetaSize \in Nat
      BY MetadataAssumption
    <2>2. \A i \in 1 .. MetaSize : buf[i] \in S
      OBVIOUS
    <2>3. buf \in [1 .. MetaSize -> S]
      BY <2>2
    <2> HIDE DEF S
    <2> QED
      BY <2>1, <2>3
  <1> QED
    BY <1>1, strcspnInRange, ZenonT(30) DEF metaLen

\* Two digits for a Byte.
LEMMA HexLength ==
  ASSUME NEW b \in Seq(0 .. 255)
  PROVE  Len(cominitBytesToHex(b)) = 2 * Len(b)
  <1> DEFINE n == 2 * Len(b)
             f == [i \in 1 .. n |-> IF i % 2 = 1 THEN b[(i + 1) \div 2] \div 16 ELSE b[(i + 1) \div 2] % 16]
             S == {f[i] : i \in 1 .. n}
  <1>1. n \in Nat
    OBVIOUS
  <1>2. f \in [1 .. n -> S]
    OBVIOUS
  <1>3. Len(f) = n
    <2> HIDE DEF n, f, S
    <2> QED BY <1>1, <1>2
  <1> QED
    BY <1>3 DEF cominitBytesToHex

\* What the keyring holds for an option, and its digits, have a length.
LEMMA KeyLength ==
  ASSUME LoadInv, NEW o \in DOMAIN KeyOf
  PROVE  KeyFor(o) \in Seq(0 .. 255)
  BY DEF LoadInv, KeyFor

\* An option takes up some room.
LEMMA OptionLength ==
  ASSUME LoadInv, NEW o
  PROVE  Len(Processed(o).digits) \in Nat
  <1>1. CASE o \in DOMAIN KeyOf
    <2>1. Len(cominitBytesToHex(KeyFor(o))) \in Nat
      BY <1>1, KeyLength, HexLength
    <2> QED
      BY <1>1, <2>1 DEF Processed, Keyed
  <1>2. CASE o \notin DOMAIN KeyOf
    BY <1>2 DEF Processed, Plain
  <1> QED
    BY <1>1, <1>2

-----------------------------------------------------------------------------
\* Nothing has been read.
LEMMA InitInv == Init => LoadInv
  <1> SUFFICES ASSUME Init PROVE LoadInv
    OBVIOUS
  <1>1. keyring \in Keyrings /\ keyFiles \in KeyFiles /\ added = 0 /\ used = 0
        /\ pc \in {"hsm", "open"}
    BY Zenon DEF Init
  <1>2. buf = [i \in 1 .. MetaSize |-> buf[i]]
    BY ZenonT(30) DEF Init
  <1>3. \A d \in DOMAIN keyring : keyring[d] \in Seq(0 .. 255)
    BY <1>1, MetadataAssumption
  <1>4. Enrolled = {}
    BY <1>1 DEF Enrolled
  <1>5. EnrolledKeysFit
    BY <1>1 DEF EnrolledKeysFit
  <1> QED
    BY <1>1, <1>2, <1>3, <1>4, <1>5 DEF LoadInv, OptionsFitBuffer

\* A key that is added is the one of its file, and fits the buffers.
LEMMA KeyAdded ==
  ASSUME LoadInv, NEW d, KeyFileAccepted(d), keyring' = WithKey(d), UNCHANGED keyFiles,
         d = KeyDescs[added + 1], added' = added + 1
  PROVE  /\ \A e \in DOMAIN keyring' : keyring'[e] \in Seq(0 .. 255)
         /\ \A e \in Enrolled' :
               e \in DOMAIN keyring' /\ keyring'[e] = keyFiles'[e] /\ Len(keyring'[e]) <= PayloadMax
  <1>1. keyFiles[d] \in Seq(0 .. 255) /\ Len(keyFiles[d]) <= PayloadMax
    BY MetadataAssumption DEF LoadInv, KeyFileAccepted
  <1>2. /\ DOMAIN keyring' = DOMAIN keyring \cup {d}
        /\ \A e \in DOMAIN keyring' : keyring'[e] = IF e = d THEN keyFiles[d] ELSE keyring[e]
    BY DEF WithKey
  <1>3. \A e \in Enrolled' : e = d \/ e \in Enrolled
    BY DEF Enrolled, LoadInv
  <1>4. \A e \in DOMAIN keyring' : keyring'[e] \in Seq(0 .. 255)
    BY <1>1, <1>2 DEF LoadInv
  <1>5. ASSUME NEW e \in Enrolled'
        PROVE  e \in DOMAIN keyring' /\ keyring'[e] = keyFiles[e] /\ Len(keyring'[e]) <= PayloadMax
    <2>1. CASE e = d
      BY <1>1, <1>2, <2>1
    <2>2. CASE e # d
      <3>1. e \in DOMAIN keyring /\ keyring[e] = keyFiles[e] /\ Len(keyring[e]) <= PayloadMax
        BY <1>3, <1>5, <2>2 DEF LoadInv
      <3> QED
        BY <1>2, <2>2, <3>1
    <2> QED
      BY <2>1, <2>2
  <1> QED
    BY <1>4, <1>5, Zenon

\* Every step keeps the invariant.
LEMMA LoadStep == LoadInv /\ [Next]_vars => LoadInv'
  <1> SUFFICES ASSUME LoadInv, [Next]_vars PROVE LoadInv'
    OBVIOUS
  <1> USE DEF fields, keys, reader, options, Fails, OptionsFitBuffer
  <1>0. UNCHANGED <<buf, pc>> => (RoomForSignature' <=> RoomForSignature) /\ (SignatureHolds' <=> SignatureHolds)
    BY DEF RoomForSignature, SignatureHolds, metaLen
  <1>a. UNCHANGED <<fsType, ro, crypt>> => (ParsedFromSigned' <=> ParsedFromSigned)
    BY DEF ParsedFromSigned
  <1>b. added' = added => Enrolled' = Enrolled
    BY DEF Enrolled
  <1>c. pc' # "overrun" => EnrolledKeysFit'
    BY DEF EnrolledKeysFit
  <1> USE <1>0, <1>a, <1>b, <1>c
  <1>1. CASE cominitKeyringInitFakeHsm
    <2>1. /\ \A d \in DOMAIN keyring' : keyring'[d] \in Seq(0 .. 255)
          /\ \A d \in Enrolled' :
                d \in DOMAIN keyring' /\ keyring'[d] = keyFiles'[d] /\ Len(keyring'[d]) <= PayloadMax
      <3>1. CASE UNCHANGED <<keyring, added>>
        BY <1>1, <3>1 DEF cominitKeyringInitFakeHsm, LoadInv
      <3>2. CASE KeyFileAccepted(KeyDescs[added + 1]) /\ keyring' = WithKey(KeyDescs[added + 1])
                 /\ added' = added + 1
        BY <1>1, <3>2, KeyAdded DEF cominitKeyringInitFakeHsm
      <3> QED
        BY <1>1, <3>1, <3>2 DEF cominitKeyringInitFakeHsm
    <2> QED
      BY <1>1, <2>1 DEF cominitKeyringInitFakeHsm, LoadInv
  <1>2. CASE OpenPartition BY <1>2, ZenonT(30) DEF OpenPartition, LoadInv
  <1>3. CASE cominitCommonGetPartSize BY <1>3, ZenonT(30) DEF cominitCommonGetPartSize, LoadInv
  <1>4. CASE Seek BY <1>4, ZenonT(30) DEF Seek, SeekTo, LoadInv
  <1>5. CASE cominitBinReadall
    <2>1. buf' = [i \in 1 .. MetaSize |-> buf'[i]]
      BY <1>5, ZenonT(30) DEF cominitBinReadall, LoadInv
    <2> QED
      BY <1>5, <2>1 DEF cominitBinReadall, LoadInv
  <1>6. CASE VerifyMetadata
    <2>1. pc' = "parse" => RoomForSignature' /\ SignatureHolds'
      BY <1>6 DEF VerifyMetadata, RoomForSignature, SignatureHolds, metaLen
    <2> QED
      BY <1>6, <2>1, ZenonT(30) DEF VerifyMetadata, LoadInv
  <1>7. CASE cominitParseMetadata
    <2>1. metaLen \in Nat
      BY metaLenInRange DEF LoadInv
    <2>2. <<SignedData(buf, metaLen), Signature(buf, metaLen)>> \in Signed
      BY <1>7 DEF cominitParseMetadata, LoadInv, SignatureHolds
    <2>3. Front(SignedData(buf, metaLen)) = SubSeq(buf, 1, metaLen)
      BY <2>1, TextIsSigned, SMTT(20)
    <2> DEFINE h == HeaderOf(SubSeq(buf, 1, metaLen))
    <2>4. pc' # "failed" => /\ WellFormed(h)
                            /\ fsType' = strncpyFsType(h[2]) /\ ro' = h[3] /\ crypt' = CryptOf[h[4]]
      <3> DEFINE text == SubSeq(buf, 1, metaLen)
                 sawFs == VersionFits(h) /\ HasTables(text) /\ Len(h) >= 2
                 sawMode == sawFs /\ Len(h) >= 3 /\ h[3] \in {"ro", "rw"}
                 sawAll == sawMode /\ Len(h) >= 4 /\ h[4] \in DOMAIN CryptOf
                 accepted == sawAll /\ CryptOf[h[4]] # {"verity", "integrity"}
      <3>0. FieldsOf(text, h)
        BY <1>7, ZenonT(30) DEF cominitParseMetadata
      <3>1. /\ fsType' = IF sawFs THEN strncpyFsType(h[2]) ELSE fsType
            /\ ro' = IF sawMode THEN h[3] ELSE ro
            /\ crypt' = IF sawAll THEN CryptOf[h[4]] ELSE crypt
            /\ pc' = IF accepted THEN TableFor(CryptOf[h[4]]) ELSE "failed"
        BY <3>0, Zenon DEF FieldsOf
      <3> QED
        BY <3>1 DEF WellFormed
    <2>5. pc' # "failed" => ParsedFromSigned'
      <3> HIDE DEF h
      <3> SUFFICES ASSUME pc' # "failed" PROVE ParsedFromSigned'
        OBVIOUS
      <3>1. <<SignedData(buf, metaLen), Signature(buf, metaLen)>>[1] = SignedData(buf, metaLen)
        OBVIOUS
      <3>2. HeaderOf(Front(<<SignedData(buf, metaLen), Signature(buf, metaLen)>>[1])) = h
        BY <2>3, <3>1, ZenonT(30) DEF h
      <3> QED
        BY <2>2, <2>4, <3>2 DEF ParsedFromSigned
    <2>6. pc' \in {"failed", "verity", "integrity", "done"}
      BY <1>7 DEF cominitParseMetadata, FieldsOf, TableFor
    <2> QED
      BY <1>7, <2>5, <2>6 DEF cominitParseMetadata, LoadInv
  <1>8. CASE cominitGenVerityDmTbl BY <1>8 DEF cominitGenVerityDmTbl, LoadInv
  <1>9. CASE cominitGenIntegrityDmTbl
    BY <1>9, MetadataAssumption, SMTT(20) DEF cominitGenIntegrityDmTbl, LoadInv
  <1>10. CASE ProcessOption
    <2> DEFINE o == Head(opts)
               n == 1 + Len(Processed(o).digits)
    <2>1. n \in Nat
      BY OptionLength
    <2>2. pc' = "overrun" => KeyOf[Head(opts')] \notin Enrolled'
      BY <1>10 DEF ProcessOption, KeyFits, KeyFor, LoadInv
    <2>3. \/ RoomFor(n) /\ used' = used + n
          \/ pc' \in {"failed", "overrun"} /\ used' = used
      BY <1>10 DEF ProcessOption
    <2>4. used' \in Nat /\ (pc' = "option" => used' < TableMax)
      <3> HIDE DEF n
      <3> QED BY <2>1, <2>3, MetadataAssumption, SMTT(20) DEF RoomFor, LoadInv
    <2>5. EnrolledKeysFit'
      BY <2>2 DEF EnrolledKeysFit
    <2> QED
      BY <1>10, <2>4, <2>5, SMTT(20) DEF ProcessOption, LoadInv
  <1>11. CASE WriteIntegrityTable BY <1>11 DEF WriteIntegrityTable, LoadInv
  <1>12. CASE DeviceGone BY <1>12, SMTT(20) DEF DeviceGone, LoadInv
  <1>13. CASE UNCHANGED vars
    <2>1. EnrolledKeysFit'
      BY <1>13 DEF vars, LoadInv, EnrolledKeysFit
    <2> QED
      BY <1>13, <2>1 DEF vars, LoadInv
  <1> QED
    BY <1>1, <1>2, <1>3, <1>4, <1>5, <1>6, <1>7, <1>8, <1>9, <1>10, <1>11, <1>12, <1>13, SMTT(20)
    DEF Next, cominitStep

\* The invariant holds for every content of the partition, of the key files and of the keyring
\* that cominit finds.
THEOREM LoadInvariant == Spec => []LoadInv
  BY InitInv, LoadStep, PTL DEF Spec

\* Only what a valid signature covers is accepted, although metabuf may hold anything after
\* short reads.
THEOREM OnlySignedAccepted == Spec => []AcceptedIsSigned
  <1>1. LoadInv => AcceptedIsSigned
    BY SMTT(20) DEF LoadInv, AcceptedIsSigned
  <1> QED
    BY <1>1, LoadInvariant, PTL

\* A key that overruns its buffer is none of those that cominit has enrolled.
THEOREM KeysFit == Spec => []EnrolledKeysFit
  <1>1. LoadInv => EnrolledKeysFit
    BY DEF LoadInv
  <1> QED
    BY <1>1, LoadInvariant, PTL

\* The options of dm-integrity never leave their buffer.
THEOREM OptionsFit == Spec => []OptionsFitBuffer
  <1>1. LoadInv => OptionsFitBuffer
    BY DEF LoadInv
  <1> QED
    BY <1>1, LoadInvariant, PTL

-----------------------------------------------------------------------------
(* Types, and what the read loop delivers *)

\* The parts of a text are strings.
LEMMA PartsType ==
  ASSUME NEW t \in Seq(Seq(Words))
  PROVE  HeaderOf(t) \in Seq(Words) /\ VerintTableOf(t) \in Seq(Words)
  <1>1. strcspn(t, FF) \in 0 .. Len(t)
    BY strcspnInRange
  <1>2. SubSeq(t, 1, strcspn(t, FF)) \in Seq(Seq(Words))
    BY <1>1
  <1>3. AfterHeader(t) \in Seq(Seq(Words))
    BY <1>1 DEF AfterHeader
  <1>4. strcspn(AfterHeader(t), FF) \in 0 .. Len(AfterHeader(t))
    BY <1>3, strcspnInRange
  <1>5. SubSeq(AfterHeader(t), 1, strcspn(AfterHeader(t), FF)) \in Seq(Seq(Words))
    BY <1>3, <1>4
  <1> QED
    BY <1>2, <1>5, FlattenType, ZenonT(30) DEF HeaderOf, VerintTableOf

\* What a word for the crypt type selects.
LEMMA CryptType ==
  ASSUME NEW w \in DOMAIN CryptOf
  PROVE  CryptOf[w] \subseteq {"verity", "integrity", "crypt"}
  BY DEF CryptOf

\* strtoull() and the product of two of its results fit into 64 bits.
LEMMA ProductType ==
  ASSUME NEW a, NEW b
  PROVE  strtoull(a) \in 0 .. Word - 1 /\ Product(a, b) \in 0 .. Word - 1
  <1>1. \A w : strtoull(w) \in 0 .. Word - 1
    BY MetadataAssumption DEF strtoull
  <1>2. \A n \in Nat : n % Word \in 0 .. Word - 1
    BY MetadataAssumption
  <1>3. strtoull(a) * strtoull(b) \in Nat
    BY <1>1, MetadataAssumption
  <1> QED
    BY <1>1, <1>2, <1>3 DEF Product

\* The region of a partition begins where it should, or before the partition.
LEMMA OffsetIsTail ==
  ASSUME NEW n \in Nat, n < Word
  PROVE  /\ MetadataOffset(n) \in Int
         /\ MetadataOffset(n) >= 0 => MetadataOffset(n) = n - MetaSize
  <1>1. MetaSize \in Nat /\ Word \in Nat /\ 2 * MetaSize <= Word /\ 0 < MetaSize
    BY MetadataAssumption
  <1>2. CASE n >= MetaSize
    <2>1. (n - MetaSize) % Word = n - MetaSize
      BY <1>1, <1>2
    <2> QED
      BY <1>1, <1>2, <2>1 DEF MetadataOffset
  <1>3. CASE n < MetaSize
    <2>1. (n - MetaSize) % Word = n - MetaSize + Word
      BY <1>1, <1>3
    <2> QED
      BY <1>1, <1>3, <2>1 DEF MetadataOffset
  <1> QED
    BY <1>1, <1>2, <1>3

\* The sizes are numbers, a region has at least two cells, and twice its size fits into 64 bits.
LEMMA Sizes ==
    /\ MetaSize \in Nat /\ 2 <= MetaSize
    /\ Word \in Nat /\ 2 * MetaSize <= Word
    /\ Len(KeyDescs) \in Nat
  BY MetadataAssumption

\* Also a partition that is gone is a sequence of cells.
LEMMA PartType ==
  ASSUME ReadInv
  PROVE  part \in Seq(Seq(Words)) /\ Len(part) \in Nat /\ Len(part) < Word
  <1>1. CASE part \in Partitions
    BY <1>1, MetadataAssumption
  <1>2. CASE part = <<>>
    BY <1>2, Sizes
  <1> QED
    BY <1>1, <1>2 DEF ReadInv

\* A sequence of one element.
LEMMA OneElement ==
  ASSUME NEW S, NEW w \in S
  PROVE  <<w>> \in Seq(S)
  OBVIOUS

\* The words of a table from the fourth on, the options.
LEMMA FromFourth ==
  ASSUME NEW S, NEW t \in Seq(S), Len(t) >= 4
  PROVE  SubSeq(t, 4, Len(t)) \in Seq(S)
  OBVIOUS

\* Nothing has been read.
LEMMA TypeInit == Init => TypeOK /\ ReadInv
  <1> SUFFICES ASSUME Init PROVE TypeOK /\ ReadInv
    OBVIOUS
  <1>1. NUL \in Seq(Words)
    <2>1. "0x00" \in Words
      BY DEF Words
    <2> QED
      BY <2>1, OneElement, ZenonT(30) DEF NUL
  <1>2. buf \in [1 .. MetaSize -> Seq(Words)]
    BY <1>1, ZenonT(30) DEF Init
  <1>3. pc \in {"hsm", "open"} /\ faults \in FaultSets /\ added = 0 /\ offset = 0 /\ len = 0 /\ ro = "rw"
        /\ crypt = {} /\ dmVerintDataSizeBytes = 0 /\ dmTblVerintStr = <<>> /\ opts = <<>>
        /\ used = 0 /\ part \in Partitions
    BY ZenonT(30) DEF Init
  <1>4. TypeOK
    BY <1>2, <1>3, Sizes DEF TypeOK, Points, Final
  <1>5. ReadInv
    BY <1>3 DEF ReadInv
  <1> QED
    BY <1>4, <1>5

\* What a read() delivers is inside the partition and inside the region.
LEMMA ReadResult ==
  ASSUME TypeOK, ReadInv, pc = "read", NEW n \in ReadResults
  PROVE  /\ n \in 0 .. len
         /\ \A i \in 1 .. n : part[offset + i] \in Seq(Words)
         /\ "short" \notin faults /\ Len(part) = offset + len => n = len
  <1>1. part \in Seq(Seq(Words)) /\ Len(part) \in Nat
    BY PartType
  <1>2. offset \in Nat /\ len \in Nat
    BY Sizes DEF ReadInv, TypeOK
  <1>3. Available \in Nat /\ (0 < Available => Available = Len(part) - offset)
        /\ (Available = 0 => Len(part) <= offset)
    BY <1>1, <1>2 DEF Available
  <1>4. n \in 0 .. len /\ n \in 0 .. Available
        /\ ("short" \notin faults => n = IF Available < len THEN Available ELSE len)
    BY <1>2, <1>3 DEF ReadResults
  <1>5. \A i \in 1 .. n : offset + i \in 1 .. Len(part)
    BY <1>1, <1>2, <1>3, <1>4
  <1> QED
    BY <1>1, <1>2, <1>3, <1>4, <1>5

\* Every step keeps the variables in their types.
LEMMA TypeStep == TypeOK /\ ReadInv /\ LoadInv /\ [Next]_vars => TypeOK'
  <1> SUFFICES ASSUME TypeOK, ReadInv, LoadInv, [Next]_vars PROVE TypeOK'
    OBVIOUS
  <1>a. used' \in Nat
    BY LoadStep DEF LoadInv
  <1>b. ASSUME UNCHANGED <<faults, added, offset, len, buf, ro, crypt, dmVerintDataSizeBytes,
                           dmTblVerintStr, opts>>,
               pc' \in Points
        PROVE  TypeOK'
    BY <1>a, <1>b DEF TypeOK
  <1>c. Fails => TypeOK'
    BY <1>b DEF Fails, keys, reader, fields, options, Points, Final
  <1>d. dmTblVerintStr \in Seq(Words) /\ opts \in Seq(Words)
    BY DEF TypeOK
  <1> DEFINE t == dmTblVerintStr
  <1>1. CASE cominitKeyringInitFakeHsm
    <2>1. added' \in 0 .. Len(KeyDescs) /\ pc' \in Points
      BY <1>1, Sizes DEF cominitKeyringInitFakeHsm, TypeOK, Points
    <2> QED
      BY <1>1, <1>a, <2>1 DEF cominitKeyringInitFakeHsm, TypeOK, reader, fields, options
  <1>2. CASE OpenPartition
    BY <1>2, <1>b, <1>c DEF OpenPartition, keys, reader, fields, options, Points
  <1>3. CASE cominitCommonGetPartSize
    <2>1. MetadataOffset(Len(part)) \in Int
      BY PartType, OffsetIsTail
    <2>2. CASE ~Fails
      <3>1. pc' = "seek" /\ offset' = MetadataOffset(Len(part))
        BY <1>3, <2>2, ZenonT(30) DEF cominitCommonGetPartSize
      <3>2. UNCHANGED <<faults, added, len, buf, ro, crypt, dmVerintDataSizeBytes,
                        dmTblVerintStr, opts>>
        BY <1>3, <2>2, ZenonT(30) DEF cominitCommonGetPartSize, keys, fields, options
      <3> QED
        BY <1>a, <2>1, <3>1, <3>2 DEF TypeOK, Points
    <2> QED
      BY <1>c, <2>2
  <1>4. CASE Seek
    <2>1. CASE ~Fails
      <3>1. pc' = "read" /\ len' = MetaSize /\ offset' = offset
        BY <1>4, <2>1, ZenonT(30) DEF Seek, SeekTo
      <3>2. UNCHANGED <<faults, added, buf, ro, crypt, dmVerintDataSizeBytes, dmTblVerintStr, opts>>
        BY <1>4, <2>1, ZenonT(30) DEF Seek, keys, fields, options
      <3> QED
        BY <1>a, <3>1, <3>2, Sizes DEF TypeOK, Points
    <2> QED
      BY <1>c, <2>1
  <1>5. CASE cominitBinReadall
    <2>1. CASE pc' = "read"
      <3>1. PICK n \in ReadResults :
              /\ buf' = [i \in 1 .. MetaSize |-> IF i <= n THEN part[offset + i] ELSE buf[i]]
              /\ offset' = offset + n
              /\ len' = len - n
        BY <1>5, <2>1 DEF cominitBinReadall, Fails
      <3>2. n \in 0 .. len /\ \A i \in 1 .. n : part[offset + i] \in Seq(Words)
        BY <1>5, ReadResult DEF cominitBinReadall
      <3>3. buf' \in [1 .. MetaSize -> Seq(Words)]
        <4>1. n \in Nat
          BY <3>2, Sizes DEF TypeOK
        <4>2. ASSUME NEW i \in 1 .. MetaSize
              PROVE  (IF i <= n THEN part[offset + i] ELSE buf[i]) \in Seq(Words)
          BY <3>2, <4>1, Sizes DEF TypeOK
        <4> QED
          BY <3>1, <4>2
      <3>4. offset' \in Int /\ len' \in 0 .. MetaSize
        BY <3>1, <3>2, Sizes DEF TypeOK
      <3>5. UNCHANGED <<faults, keys, fields, options>>
        BY <1>5, <2>1 DEF cominitBinReadall, Fails
      <3> QED
        BY <1>a, <2>1, <3>3, <3>4, <3>5 DEF TypeOK, keys, fields, options, Points
    <2>2. CASE pc' # "read"
      BY <1>5, <1>b, <1>c, <2>2 DEF cominitBinReadall, keys, reader, fields, options, Points
    <2> QED
      BY <2>1, <2>2
  <1>6. CASE VerifyMetadata
    BY <1>6, <1>b, <1>c DEF VerifyMetadata, keys, reader, fields, options, Points
  <1>7. CASE cominitParseMetadata
    <2> DEFINE text == SubSeq(buf, 1, metaLen)
               h == HeaderOf(text)
    <2>1. metaLen \in 0 .. MetaSize
      BY metaLenInRange DEF LoadInv
    <2>2. text \in Seq(Seq(Words))
      <3>1. buf \in Seq(Seq(Words)) /\ Len(buf) = MetaSize
        BY Sizes DEF TypeOK
      <3> QED
        BY <2>1, <3>1, Sizes
    <2>3. VerintTableOf(text) \in Seq(Words)
      BY <2>2, PartsType, ZenonT(30)
    <2>4. FieldsOf(text, h)
      BY <1>7, ZenonT(30) DEF cominitParseMetadata
    <2>5. dmTblVerintStr' = VerintTableOf(text) \/ dmTblVerintStr' = <<>>
      <3> HIDE DEF text, h
      <3> QED BY <2>4, ZenonT(30) DEF FieldsOf
    <2>6. ro' \in {"ro", "rw"} /\ pc' \in Points
      <3> HIDE DEF text, h
      <3> QED BY <2>4 DEF FieldsOf, TableFor, TypeOK, Points, Final
    <2>7. crypt' = crypt \/ \E w \in DOMAIN CryptOf : crypt' = CryptOf[w]
      <3> HIDE DEF text, h
      <3> QED BY <2>4, ZenonT(30) DEF FieldsOf
    <2>8. crypt' \subseteq {"verity", "integrity", "crypt"}
      BY <2>7, CryptType, ZenonT(30) DEF TypeOK
    <2>9. dmTblVerintStr' \in Seq(Words)
      <3> HIDE DEF text
      <3>1. <<>> \in Seq(Words)
        OBVIOUS
      <3> QED BY <2>3, <2>5, <3>1, ZenonT(30)
    <2> QED
      BY <1>7, <1>a, <2>6, <2>8, <2>9 DEF cominitParseMetadata, TypeOK, keys, reader
  <1>8. CASE cominitGenVerityDmTbl
    <2>1. /\ Product(t[2], t[4]) \in 0 .. Word - 1 /\ strtoull(t[2]) \in 0 .. Word - 1
          /\ dmVerintDataSizeBytes \in 0 .. Word - 1
      BY ProductType DEF TypeOK
    <2>2. dmVerintDataSizeBytes' \in 0 .. Word - 1
      BY <1>8, <1>d, <2>1 DEF cominitGenVerityDmTbl
    <2>3. pc' \in Points
      BY <1>8 DEF cominitGenVerityDmTbl, Points, Final
    <2> QED
      BY <1>8, <1>a, <2>2, <2>3 DEF cominitGenVerityDmTbl, TypeOK, keys, reader, options
  <1>9. CASE cominitGenIntegrityDmTbl
    <2>1. /\ Product(t[1], t[2]) \in 0 .. Word - 1 /\ strtoull(t[1]) \in 0 .. Word - 1
          /\ dmVerintDataSizeBytes \in 0 .. Word - 1
      BY ProductType DEF TypeOK
    <2>2. Len(t) \in Nat
      BY <1>d
    <2>3. dmVerintDataSizeBytes' =
              CASE Len(t) >= 2 -> Product(t[1], t[2])
                [] Len(t) = 1 -> strtoull(t[1])
                [] Len(t) = 0 -> dmVerintDataSizeBytes
      BY <1>9, ZenonT(30) DEF cominitGenIntegrityDmTbl
    <2>4. dmVerintDataSizeBytes' \in 0 .. Word - 1
      <3> DEFINE S == 0 .. Word - 1
                 p == Product(t[1], t[2])
                 q == strtoull(t[1])
                 n == Len(t)
      <3> HIDE DEF S, p, q, n
      <3>1. n \in Nat /\ p \in S /\ q \in S /\ dmVerintDataSizeBytes \in S
        BY <2>1, <2>2 DEF S, p, q, n
      <3>2. dmVerintDataSizeBytes' = CASE n >= 2 -> p [] n = 1 -> q [] n = 0 -> dmVerintDataSizeBytes
        BY <2>3, Zenon DEF p, q, n
      <3>3. dmVerintDataSizeBytes' \in S
        BY <3>1, <3>2
      <3> QED
        BY <3>3 DEF S
    <2>5. \/ Len(t) >= 4 /\ opts' = SubSeq(t, 4, Len(t)) /\ pc' = "option"
          \/ opts' = opts /\ pc' = "failed"
      BY <1>9, ZenonT(30) DEF cominitGenIntegrityDmTbl
    <2>6. opts' \in Seq(Words)
      BY <1>d, <2>5, FromFourth, ZenonT(30)
    <2>7. UNCHANGED <<faults, keys, reader, ro, crypt, dmTblVerintStr>>
      BY <1>9, ZenonT(30) DEF cominitGenIntegrityDmTbl
    <2> QED
      BY <1>a, <2>4, <2>5, <2>6, <2>7 DEF TypeOK, keys, reader, Points, Final
  <1>10. CASE ProcessOption
    <2>1. (opts' = Tail(opts) /\ opts # <<>>) \/ opts' = opts
      BY <1>10, ZenonT(30) DEF ProcessOption
    <2>2. opts' \in Seq(Words)
      BY <1>d, <2>1
    <2>3. pc' \in Points
      BY <1>10 DEF ProcessOption, Points, Final
    <2> QED
      BY <1>10, <1>a, <2>2, <2>3 DEF ProcessOption, TypeOK, keys, reader, fields
  <1>11. CASE WriteIntegrityTable
    BY <1>11, <1>b DEF WriteIntegrityTable, keys, reader, options, Points, Final
  <1>12. CASE DeviceGone
    BY <1>12, <1>b DEF DeviceGone, keys, fields, options, TypeOK
  <1>13. CASE UNCHANGED vars
    BY <1>13, <1>b DEF vars, keys, reader, fields, options, TypeOK
  <1> QED
    BY <1>1, <1>2, <1>3, <1>4, <1>5, <1>6, <1>7, <1>8, <1>9, <1>10, <1>11, <1>12, <1>13, ZenonT(30)
    DEF Next, cominitStep

\* Each step of the read loop leaves it at the beginning of the region or with all of it.
LEMMA ReadStep == TypeOK /\ ReadInv /\ [Next]_vars => ReadInv'
  <1> SUFFICES ASSUME TypeOK, ReadInv, [Next]_vars PROVE ReadInv'
    OBVIOUS
  <1>a. ASSUME UNCHANGED part, pc' \notin {"seek", "read", "verify"} PROVE ReadInv'
    BY <1>a DEF ReadInv
  <1>b. Fails => ReadInv'
    BY <1>a DEF Fails, reader
  <1>1. CASE cominitKeyringInitFakeHsm
    BY <1>1, <1>a DEF cominitKeyringInitFakeHsm, reader
  <1>2. CASE OpenPartition
    BY <1>2, <1>a, <1>b DEF OpenPartition, reader
  <1>3. CASE cominitCommonGetPartSize
    <2>1. CASE ~Fails
      BY <1>3, <2>1 DEF cominitCommonGetPartSize, ReadInv
    <2> QED
      BY <1>b, <2>1
  <1>4. CASE Seek
    <2>1. CASE ~Fails
      <3>1. /\ pc = "seek" /\ pc' = "read" /\ offset >= 0 /\ len' = MetaSize
            /\ UNCHANGED <<faults, part, offset, buf>>
        BY <1>4, <2>1 DEF Seek, SeekTo
      <3>2. offset = MetadataOffset(Len(part)) /\ offset \in Int
        BY <3>1 DEF ReadInv, TypeOK
      <3>3. offset = Len(part) - MetaSize
        BY <3>1, <3>2, PartType, OffsetIsTail
      <3> QED
        BY <3>1, <3>2, <3>3, Sizes DEF ReadInv
    <2> QED
      BY <1>b, <2>1
  <1>5. CASE cominitBinReadall
    <2>1. CASE pc' = "read"
      <3>1. PICK n \in ReadResults :
              /\ buf' = [i \in 1 .. MetaSize |-> IF i <= n THEN part[offset + i] ELSE buf[i]]
              /\ offset' = offset + n
              /\ len' = len - n
        BY <1>5, <2>1 DEF cominitBinReadall, Fails
      <3>2. pc = "read" /\ len > 0 /\ UNCHANGED <<faults, part>>
        BY <1>5, <2>1, <3>1 DEF cominitBinReadall, Fails
      <3>3. n \in 0 .. len /\ ("short" \notin faults /\ Len(part) = offset + len => n = len)
        BY <3>2, ReadResult
      <3>4. offset \in Nat /\ len \in Nat
        BY <3>2, Sizes DEF ReadInv, TypeOK
      <3>5. offset' \in Nat
        BY <3>1, <3>3, <3>4
      <3>6. ASSUME "short" \notin faults, part # <<>> PROVE len' = 0 /\ RegionRead'
        <4>1. offset = Len(part) - MetaSize /\ len = MetaSize
          BY <3>2, <3>6 DEF ReadInv
        <4>2. n = MetaSize /\ len' = 0
          <5>1. Len(part) = offset + len
            BY <4>1, PartType, Sizes
          <5> QED
            BY <3>1, <3>3, <3>6, <4>1, <5>1, Sizes
        <4>3. buf' = [i \in 1 .. MetaSize |-> part[offset + i]]
          BY <3>1, <4>2, Sizes
        <4>4. buf' = SubSeq(part, Len(part) - MetaSize + 1, Len(part))
          BY <3>4, <4>1, <4>3, PartType, Sizes
        <4> QED
          BY <3>2, <4>2, <4>4 DEF RegionRead
      <3> QED
        BY <2>1, <3>2, <3>5, <3>6 DEF ReadInv
    <2>2. CASE pc' # "read" /\ ~Fails
      <3>1. pc = "read" /\ len = 0 /\ pc' = "verify" /\ UNCHANGED <<faults, part, offset, len, buf>>
        BY <1>5, <2>2 DEF cominitBinReadall, reader
      <3>2. RegionRead' <=> RegionRead
        BY <3>1 DEF RegionRead
      <3> QED
        BY <3>1, <3>2 DEF ReadInv
    <2> QED
      BY <1>b, <2>1, <2>2
  <1>6. CASE VerifyMetadata
    BY <1>6, <1>a, <1>b DEF VerifyMetadata, reader
  <1>7. CASE cominitParseMetadata
    <2>1. pc' \in {"failed", "verity", "integrity", "done"}
      BY <1>7 DEF cominitParseMetadata, FieldsOf, TableFor
    <2> QED
      BY <1>7, <1>a, <2>1 DEF cominitParseMetadata, reader
  <1>8. CASE cominitGenVerityDmTbl
    BY <1>8, <1>a DEF cominitGenVerityDmTbl, reader
  <1>9. CASE cominitGenIntegrityDmTbl
    BY <1>9, <1>a DEF cominitGenIntegrityDmTbl, reader
  <1>10. CASE ProcessOption
    BY <1>10, <1>a DEF ProcessOption, reader
  <1>11. CASE WriteIntegrityTable
    BY <1>11, <1>a DEF WriteIntegrityTable, reader
  <1>12. CASE DeviceGone
    BY <1>12 DEF DeviceGone, ReadInv
  <1>13. CASE UNCHANGED vars
    <2>1. RegionRead' <=> RegionRead
      BY <1>13 DEF RegionRead, vars, reader
    <2> QED
      BY <1>13, <2>1 DEF vars, reader, ReadInv
  <1> QED
    BY <1>1, <1>2, <1>3, <1>4, <1>5, <1>6, <1>7, <1>8, <1>9, <1>10, <1>11, <1>12, <1>13, ZenonT(30)
    DEF Next, cominitStep

\* Types and reading, in every run of cominitLoadVerifyMetadata().
LEMMA ReadInvariant == Spec => [](TypeOK /\ ReadInv)
  BY TypeInit, LoadInvariant, TypeStep, ReadStep, PTL DEF Spec

\* The variables have their types: every buffer holds strings, and the size of the device fits
\* into 64 bits.
THEOREM TypeCorrect == Spec => []TypeOK
  BY ReadInvariant, PTL

\* For every size of partition and region: what is verified is the end of the partition, if no
\* read() is short.
THEOREM TailIsRead == Spec => []ReadsTail
  <1>1. ReadInv => ReadsTail
    BY DEF ReadInv, ReadsTail, RegionRead
  <1> QED
    BY <1>1, ReadInvariant, PTL
==============================================================================
