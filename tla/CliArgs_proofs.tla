---------------------------- MODULE CliArgs_proofs ---------------------------
(***************************************************************************)
(* Proofs about CliArgs, for command lines of any length: what the loop of *)
(* main() makes of the arguments it has read, by induction on them.        *)
(***************************************************************************)
EXTENDS CliArgs, TLAPS

\* A number that fits into a type is not changed by it.
LEMMA SmallRemainder ==
  ASSUME NEW a \in Nat, NEW w \in Nat, a < w
  PROVE  a % w = a
  OBVIOUS

\* A number greater than all of a set is the last of the set with it.
LEMMA LastOfMore ==
  ASSUME NEW S \in SUBSET Nat, NEW n \in Nat, \A j \in S : j < n
  PROVE  Last(S \cup {n}) = n
  <1>1. \A j \in S \cup {n} : j <= n
    OBVIOUS
  <1>2. \A k \in S \cup {n} : (\A j \in S \cup {n} : j <= k) => k = n
    OBVIOUS
  <1> QED
    BY <1>1, <1>2, ZenonT(30) DEF Last

\* Every argument is read once, and changes what was read under its own key only.
LEMMA ReadMore ==
  ASSUME argv \in Argvs, i \in 1 .. Len(argv) + 1, argv' = argv, NEW key, Argument(key)
  PROVE  /\ Read(key)' = Read(key) \cup {i} /\ i \notin Read(key)
         /\ Last(Read(key)') = i
         /\ \A other : other # key => Read(other)' = Read(other)
         /\ \A other : Read(other) \subseteq 1 .. i - 1
         /\ i \in 1 .. Len(argv) /\ i' \in 1 .. Len(argv)' + 1 /\ argv[i].key = key
  <1>1. /\ Len(argv) \in Nat /\ i \in Nat \ {0} /\ i <= Len(argv) /\ i' = i + 1
        /\ argv[i].key = key
    BY ArgsAssumption DEF Argument
  <1>2. 1 .. i' - 1 = (1 .. i - 1) \cup {i}
    BY <1>1
  <1>3. Read(key)' = Read(key) \cup {i} /\ \A other : other # key => Read(other)' = Read(other)
    BY <1>1, <1>2 DEF Read
  <1>4. \A other : Read(other) \subseteq 1 .. i - 1
    BY DEF Read
  <1>5. Last(Read(key) \cup {i}) = i
    <2>1. Read(key) \in SUBSET Nat /\ \A j \in Read(key) : j < i
      BY <1>1, <1>4
    <2> QED
      BY <1>1, <2>1, LastOfMore, ZenonT(30)
  <1> QED
    BY <1>1, <1>3, <1>4, <1>5

\* Steps after the arguments leave everything that was read as it is.
LEMMA ReadSame ==
  ASSUME UNCHANGED <<argv, i>>
  PROVE  /\ \A key : Read(key)' = Read(key)
         /\ \A key : LastNode(key)' = LastNode(key)
  <1>1. \A key : Read(key)' = Read(key)
    BY DEF Read
  <1> QED
    BY <1>1, ZenonT(30) DEF LastNode

\* The last node after an argument with this key, and after one with another.
LEMMA NodeMore ==
  ASSUME argv \in Argvs, i \in 1 .. Len(argv) + 1, argv' = argv, NEW key, Argument(key)
  PROVE  /\ LastNode(key)' = ParseDeviceNode(LastNode(key), argv[i].dev)
         /\ \A other : other # key => LastNode(other)' = LastNode(other)
  <1> DEFINE good == {k \in Read(key) : argv[k].dev \in DeviceNodes}
  <1>1. /\ Read(key)' = Read(key) \cup {i} /\ i \in Nat
        /\ \A other : Read(other) \subseteq 1 .. i - 1
        /\ \A other : other # key => Read(other)' = Read(other)
    BY ReadMore, ArgsAssumption
  <1>2. CASE argv[i].dev \in DeviceNodes
    <2>1. good' = good \cup {i}
      BY <1>1, <1>2
    <2>2. Last(good \cup {i}) = i
      <3>1. good \in SUBSET Nat /\ \A j \in good : j < i
        BY <1>1
      <3> HIDE DEF good
      <3> QED
        BY <1>1, <3>1, LastOfMore, ZenonT(30)
    <2> QED
      BY <1>1, <1>2, <2>1, <2>2, ZenonT(30) DEF LastNode, ParseDeviceNode
  <1>3. CASE argv[i].dev \notin DeviceNodes
    <2>1. good' = good
      BY <1>1, <1>3
    <2> QED
      BY <1>1, <1>3, <2>1, ZenonT(30) DEF LastNode, ParseDeviceNode
  <1>4. \A other : other # key => LastNode(other)' = LastNode(other)
    BY <1>1, ZenonT(30) DEF LastNode
  <1> QED
    BY <1>2, <1>3, <1>4

\* Numbers are numbers, also in the last argument of a key.
LEMMA LastIsTyped ==
  ASSUME ArgsInv
  PROVE  /\ Read("logLevel") # {} => argv[Last(Read("logLevel"))].num.val \in Nat
         /\ Read("logLevel") # {} /\ argv[Last(Read("logLevel"))].num.form = "empty" =>
               argv[Last(Read("logLevel"))].num.val = 0
         /\ Read("pcrSeal") # {} => argv[Last(Read("pcrSeal"))].list \in Seq(Nat)
         /\ pcrSeal \in Seq(Nat)
  <1>1. \A key \in Keys : Read(key) # {} =>
            Last(Read(key)) \in 1 .. Len(argv) /\ argv[Last(Read(key))].key = key
    <2>1. Len(argv) \in Nat /\ i \in 1 .. Len(argv) + 1
      BY ArgsAssumption DEF ArgsInv
    <2>2. \A key : \A k \in Read(key) : k \in 1 .. Len(argv) /\ argv[k].key = key
      BY <2>1 DEF Read
    <2> QED
      BY <2>2 DEF ArgsInv
  <1>2. /\ Read("logLevel") # {} => argv[Last(Read("logLevel"))].num.val \in Nat
        /\ Read("logLevel") # {} /\ argv[Last(Read("logLevel"))].num.form = "empty" =>
              argv[Last(Read("logLevel"))].num.val = 0
        /\ Read("pcrSeal") # {} => argv[Last(Read("pcrSeal"))].list \in Seq(Nat)
    BY <1>1, ArgsAssumption, ZenonT(30) DEF ArgsInv, Keys
  <1>3. pcrSeal \in Seq(Nat)
    BY <1>2 DEF ArgsInv, ParsePcrIndexes
  <1> QED
    BY <1>2, <1>3

\* The last of every key stays one of its arguments.
LEMMA LastMore ==
  ASSUME ArgsInv, argv' = argv, NEW key \in Keys, Argument(key)
  PROVE  \A k \in Keys : Read(k)' # {} => Last(Read(k)') \in Read(k)'
  <1>1. /\ Read(key)' = Read(key) \cup {i} /\ Last(Read(key)') = i
        /\ \A other : other # key => Read(other)' = Read(other)
    BY ReadMore DEF ArgsInv
  <1>2. Last(Read(key)') \in Read(key)'
    BY <1>1
  <1>3. \A k \in Keys : k # key => (Read(k)' # {} => Last(Read(k)') \in Read(k)')
    BY <1>1 DEF ArgsInv
  <1> QED
    BY <1>2, <1>3

\* What an argument with this key leaves alone.
LEMMA OthersKept ==
  ASSUME ArgsInv, argv' = argv, NEW key \in Keys, Argument(key)
  PROVE  /\ argv' \in Argvs /\ i' \in 1 .. Len(argv)' + 1
         /\ pc = "args" /\ next = 1 /\ printed = {}
         /\ \A k \in Keys : Read(k)' # {} => Last(Read(k)') \in Read(k)'
         /\ \A other : other # key => Read(other)' = Read(other)
         /\ \A other : other # key => LastNode(other)' = LastNode(other)
         /\ LastNode(key)' = ParseDeviceNode(LastNode(key), argv[i].dev)
         /\ Read(key)' # {} /\ Last(Read(key)') = i
  <1>1. pc = "args" /\ next = 1 /\ printed = {}
    BY DEF ArgsInv, Argument
  <1>2. argv \in Argvs /\ i \in 1 .. Len(argv) + 1
    BY DEF ArgsInv
  <1> QED
    BY <1>1, <1>2, ReadMore, NodeMore, LastMore

\* Every step keeps the invariant: an argument becomes the last of its key, and the other
\* steps read no arguments.
LEMMA ArgsStep == ArgsInv /\ [Next]_vars => ArgsInv'
  <1> SUFFICES ASSUME ArgsInv, [Next]_vars
               PROVE  ArgsInv'
    OBVIOUS
  <1> USE DEF vars, nodes, pcrs, output, selection
  <1>0. Len(pcrSeal) \in Nat
    BY LastIsTyped
  <1>1. CASE PrintAndExit
    <2>1. CASE Argument("-V")
      <3>1. argv' = argv /\ "-V" \in Keys
        BY <1>1 DEF PrintAndExit, Keys
      <3> QED
        BY <1>0, <1>1, <2>1, <3>1, OthersKept, ZenonT(30)
           DEF PrintAndExit, ArgsInv, NodesAsGiven, ParsePcrIndex, ParsePcrIndexes,
             ParseLogLevel, Converted, PcrBit, cominitTpmSecureStorageEnabled, Visible
    <2>2. CASE Argument("-h")
      <3>1. argv' = argv /\ "-h" \in Keys
        BY <1>1 DEF PrintAndExit, Keys
      <3> QED
        BY <1>0, <1>1, <2>2, <3>1, OthersKept, ZenonT(30)
           DEF PrintAndExit, ArgsInv, NodesAsGiven, ParsePcrIndex, ParsePcrIndexes,
             ParseLogLevel, Converted, PcrBit, cominitTpmSecureStorageEnabled, Visible
    <2> QED
      BY <1>1, <2>1, <2>2, SMTT(20) DEF PrintAndExit
  <1>2. CASE RootArgument
    <2>1. Argument("root") /\ argv' = argv /\ "root" \in Keys
      BY <1>2 DEF RootArgument, Keys
    <2> QED
      BY <1>0, <1>2, <2>1, OthersKept, ZenonT(30)
         DEF RootArgument, ArgsInv, NodesAsGiven, ParsePcrIndex, ParsePcrIndexes,
             ParseLogLevel, Converted, PcrBit, cominitTpmSecureStorageEnabled, Visible
  <1>3. CASE BlobArgument
    <2>1. Argument("blob") /\ argv' = argv /\ "blob" \in Keys
      BY <1>3 DEF BlobArgument, Keys
    <2> QED
      BY <1>0, <1>3, <2>1, OthersKept, ZenonT(30)
         DEF BlobArgument, ArgsInv, NodesAsGiven, ParsePcrIndex, ParsePcrIndexes,
             ParseLogLevel, Converted, PcrBit, cominitTpmSecureStorageEnabled, Visible
  <1>4. CASE CryptArgument
    <2>1. Argument("crypt") /\ argv' = argv /\ "crypt" \in Keys
      BY <1>4 DEF CryptArgument, Keys
    <2> QED
      BY <1>0, <1>4, <2>1, OthersKept, ZenonT(30)
         DEF CryptArgument, ArgsInv, NodesAsGiven, ParsePcrIndex, ParsePcrIndexes,
             ParseLogLevel, Converted, PcrBit, cominitTpmSecureStorageEnabled, Visible
  <1>5. CASE SelinuxArgument
    <2>1. CASE Argument("selinux")
      <3>1. argv' = argv /\ "selinux" \in Keys
        BY <1>5 DEF SelinuxArgument, Keys
      <3>2. options' = options \cup {"selinux"}
        BY <1>5, <2>1 DEF SelinuxArgument, Argument
      <3>3. options' = {o \in {"selinux", "enforcing"} : Read(o)' # {}}
        BY <2>1, <3>1, <3>2, OthersKept, ZenonT(30) DEF ArgsInv, NodesAsGiven
      <3>4. UNCHANGED <<argv, pc, build, nodes, pcrs, level, output, selection>>
        BY <1>5 DEF SelinuxArgument
      <3>5. NodesAsGiven'
        <4>1. \A k \in {"root", "blob", "crypt"} : LastNode(k)' = LastNode(k)
          BY <2>1, <3>1, OthersKept, SMTT(20)
        <4> QED
          BY <3>3, <3>4, <4>1, ZenonT(30) DEF ArgsInv, NodesAsGiven
      <3> QED
        BY <1>0, <2>1, <3>1, <3>4, <3>5, OthersKept, ZenonT(30)
           DEF ArgsInv, ParsePcrIndex, ParsePcrIndexes,
           ParseLogLevel, Converted, PcrBit, cominitTpmSecureStorageEnabled, Visible
    <2>2. CASE Argument("enforcing")
      <3>1. argv' = argv /\ "enforcing" \in Keys
        BY <1>5 DEF SelinuxArgument, Keys
      <3>2. options' = options \cup {"enforcing"}
        BY <1>5, <2>2 DEF SelinuxArgument, Argument
      <3>3. options' = {o \in {"selinux", "enforcing"} : Read(o)' # {}}
        BY <2>2, <3>1, <3>2, OthersKept, ZenonT(30) DEF ArgsInv, NodesAsGiven
      <3>4. UNCHANGED <<argv, pc, build, nodes, pcrs, level, output, selection>>
        BY <1>5 DEF SelinuxArgument
      <3>5. NodesAsGiven'
        <4>1. \A k \in {"root", "blob", "crypt"} : LastNode(k)' = LastNode(k)
          BY <2>2, <3>1, OthersKept, SMTT(20)
        <4> QED
          BY <3>3, <3>4, <4>1, ZenonT(30) DEF ArgsInv, NodesAsGiven
      <3> QED
        BY <1>0, <2>2, <3>1, <3>4, <3>5, OthersKept, ZenonT(30)
           DEF ArgsInv, ParsePcrIndex, ParsePcrIndexes,
           ParseLogLevel, Converted, PcrBit, cominitTpmSecureStorageEnabled, Visible
    <2> QED
      BY <1>5, <2>1, <2>2 DEF SelinuxArgument
  <1>6. CASE OtherArgument
    <2>1. Argument("other") /\ argv' = argv /\ "other" \in Keys
      BY <1>6 DEF OtherArgument, Keys
    <2> QED
      BY <1>0, <1>6, <2>1, OthersKept, ZenonT(30)
         DEF OtherArgument, ArgsInv, NodesAsGiven, ParsePcrIndex, ParsePcrIndexes,
             ParseLogLevel, Converted, PcrBit, cominitTpmSecureStorageEnabled, Visible
  <1>7. CASE LogLevelArgument
    <2>1. Argument("logLevel") /\ argv' = argv /\ "logLevel" \in Keys
      BY <1>7 DEF LogLevelArgument, Keys
    <2> QED
      BY <1>0, <1>7, <2>1, OthersKept, ZenonT(30)
         DEF LogLevelArgument, ArgsInv, NodesAsGiven, ParsePcrIndex, ParsePcrIndexes,
             ParseLogLevel, Converted, PcrBit, cominitTpmSecureStorageEnabled, Visible
  <1>8. CASE PcrExtendArgument
    <2>1. Argument("pcrExtend") /\ argv' = argv /\ "pcrExtend" \in Keys
      BY <1>8 DEF PcrExtendArgument, Keys
    <2> QED
      BY <1>0, <1>8, <2>1, OthersKept, ZenonT(30)
         DEF PcrExtendArgument, ArgsInv, NodesAsGiven, ParsePcrIndex, ParsePcrIndexes,
             ParseLogLevel, Converted, PcrBit, cominitTpmSecureStorageEnabled, Visible
  <1>9. CASE PcrSealArgument
    <2>1. Argument("pcrSeal") /\ argv' = argv /\ "pcrSeal" \in Keys
      BY <1>9 DEF PcrSealArgument, Keys
    <2>2. next = 1 /\ UNCHANGED <<next, pcrSelect>> /\ pcrSelect = {}
      BY <1>9, <2>1, OthersKept DEF PcrSealArgument, ArgsInv
    <2>3. argv[i].list \in Seq(Nat)
      BY <2>1, ReadMore, ArgsAssumption DEF ArgsInv
    <2>4. pcrSeal' = ParsePcrIndexes(argv[i].list) /\ Len(pcrSeal)' \in Nat
      <3>1. pcrSeal' = ParsePcrIndexes(argv[i].list)
        BY <1>9 DEF PcrSealArgument
      <3>2. \A list \in Seq(Nat) : ParsePcrIndexes(list) \in Seq(Nat)
        BY DEF ParsePcrIndexes
      <3>3. pcrSeal' \in Seq(Nat)
        BY <2>3, <3>1, <3>2
      <3> QED
        BY <3>1, <3>3
    <2>5. next' \in 1 .. Len(pcrSeal)' + 1 /\ pcrSelect' = {PcrBit(pcrSeal[k])' : k \in 1 .. next' - 1}
      BY <2>2, <2>4, SMTT(20)
    <2> QED
      BY <1>9, <2>1, <2>2, <2>4, <2>5, OthersKept, ZenonT(30)
         DEF PcrSealArgument, ArgsInv, NodesAsGiven, ParsePcrIndex, ParsePcrIndexes,
             ParseLogLevel, Converted, PcrBit, cominitTpmSecureStorageEnabled, Visible
  <1>10. CASE SetVisibleLogLevel
    <2>1. UNCHANGED <<argv, i>>
      BY <1>10, SMTT(20) DEF SetVisibleLogLevel
    <2> QED
      BY <1>0, <1>10, <2>1, ReadSame, ZenonT(30)
         DEF SetVisibleLogLevel, ArgsInv, NodesAsGiven, ParsePcrIndex, ParsePcrIndexes,
             ParseLogLevel, Converted, PcrBit, cominitTpmSecureStorageEnabled, Visible
  <1>11. CASE FindCrypt
    <2>1. UNCHANGED <<argv, i>>
      BY <1>11, ZenonT(30) DEF FindCrypt
    <2> QED
      BY <1>0, <1>11, <2>1, ReadSame, ZenonT(30)
         DEF FindCrypt, ArgsInv, NodesAsGiven, ParsePcrIndex, ParsePcrIndexes,
             ParseLogLevel, Converted, PcrBit, cominitTpmSecureStorageEnabled, Visible
  <1>12. CASE UseTpm
    <2>1. UNCHANGED <<argv, i>>
      BY <1>12 DEF UseTpm
    <2> QED
      BY <1>0, <1>12, <2>1, ReadSame, ZenonT(30)
         DEF UseTpm, ArgsInv, NodesAsGiven, ParsePcrIndex, ParsePcrIndexes,
             ParseLogLevel, Converted, PcrBit, cominitTpmSecureStorageEnabled, Visible
  <1>13. CASE cominitTpmSelectPcr
    <2>1. UNCHANGED <<argv, i, build, nodes, options, pcrs, level, output>> /\ pc = "select"
      BY <1>13 DEF cominitTpmSelectPcr
    <2>2. next \in Nat \ {0} /\ pcrSelect = {PcrBit(pcrSeal[k]) : k \in 1 .. next - 1}
      BY <1>0, SMTT(20) DEF ArgsInv
    <2>3. CASE next <= Len(pcrSeal)
      <3>1. pc' = "select" /\ next' = next + 1 /\ pcrSelect' = pcrSelect \cup {PcrBit(pcrSeal[next])}
        BY <1>13, <2>3 DEF cominitTpmSelectPcr
      <3>2. 1 .. next' - 1 = (1 .. next - 1) \cup {next}
        BY <2>2, <3>1
      <3> HIDE DEF PcrBit
      <3>3. pcrSelect' = {PcrBit(pcrSeal[k]) : k \in 1 .. next' - 1}
        BY <2>2, <3>1, <3>2
      <3>4. pcrSelect' = {PcrBit(pcrSeal[k])' : k \in 1 .. next' - 1}
        <4>1. pcrSeal' = pcrSeal
          BY <2>1
        <4> QED
          BY <3>3, <4>1 DEF PcrBit
      <3>5. next' \in 1 .. Len(pcrSeal)' + 1
        BY <1>0, <2>1, <2>2, <2>3, <3>1, SMTT(20)
      <3> QED
        BY <2>1, <3>1, <3>4, <3>5, ReadSame, ZenonT(30)
           DEF ArgsInv, NodesAsGiven, ParsePcrIndex, ParsePcrIndexes,
               ParseLogLevel, Converted, cominitTpmSecureStorageEnabled, Visible
    <2>4. CASE ~(next <= Len(pcrSeal))
      <3>1. pc' = "run" /\ UNCHANGED <<next, pcrSelect>>
        BY <1>13, <2>4 DEF cominitTpmSelectPcr
      <3>2. next = Len(pcrSeal) + 1
        BY <1>0, <2>4, SMTT(20) DEF ArgsInv
      <3> QED
        BY <2>1, <3>1, <3>2, ReadSame, ZenonT(30)
           DEF ArgsInv, NodesAsGiven, ParsePcrIndex, ParsePcrIndexes, ParseLogLevel,
               Converted, PcrBit, cominitTpmSecureStorageEnabled, Visible
    <2> QED
      BY <2>3, <2>4
  <1>14. CASE cominitOutputLogFunc
    <2>1. UNCHANGED <<argv, i>>
      BY <1>14 DEF cominitOutputLogFunc
    <2> QED
      BY <1>0, <1>14, <2>1, ReadSame, ZenonT(30)
         DEF cominitOutputLogFunc, ArgsInv, NodesAsGiven, ParsePcrIndex, ParsePcrIndexes,
             ParseLogLevel, Converted, PcrBit, cominitTpmSecureStorageEnabled, Visible
  <1>15. CASE UNCHANGED vars
    <2>1. UNCHANGED <<argv, i>>
      BY <1>15
    <2> QED
      BY <1>0, <1>15, <2>1, ReadSame, ZenonT(30)
         DEF ArgsInv, NodesAsGiven, ParsePcrIndex, ParsePcrIndexes,
             ParseLogLevel, Converted, PcrBit, cominitTpmSecureStorageEnabled, Visible
  <1> QED
    BY <1>1, <1>2, <1>3, <1>4, <1>5, <1>6, <1>7, <1>8, <1>9, <1>10, <1>11, <1>12, <1>13, <1>14,
       <1>15 DEF Next

\* The options follow the arguments, for command lines of any length.
THEOREM ArgsInvariant == Spec => []ArgsInv
  <1>1. Init => ArgsInv
    <2> SUFFICES ASSUME Init
                 PROVE  ArgsInv
      OBVIOUS
    <2>0. i = 1 /\ argv \in Argvs
      BY ZenonT(30) DEF Init
    <2>1. \A key : Read(key) = {}
      <3>1. 1 .. i - 1 = {}
        BY <2>0
      <3> QED
        BY <3>1 DEF Read
    <2>2. \A key : LastNode(key) = ""
      BY <2>1, ZenonT(30) DEF LastNode
    <2>3. argv \in Argvs /\ i \in 1 .. Len(argv) + 1
      BY <2>0, ArgsAssumption
    <2>4. pcrSeal = <<>> /\ next = 1 /\ Len(pcrSeal) = 0 /\ pcrSelect = {}
      BY ZenonT(30) DEF Init
    <2>5. pcrSelect = {PcrBit(pcrSeal[k]) : k \in 1 .. next - 1} /\ next \in 1 .. Len(pcrSeal) + 1
      BY <2>4
    <2> QED
      BY <2>1, <2>2, <2>3, <2>4, <2>5, ZenonT(30)
         DEF Init, ArgsInv, NodesAsGiven, cominitTpmSecureStorageEnabled
  <1> QED
    BY <1>1, ArgsStep, PTL DEF Spec

\* Device nodes and SELinux options are those that were given last (cominit.c:160-218).
THEOREM NodesFollow == Spec => []NodesAsGiven
  <1>1. ArgsInv => NodesAsGiven
    BY DEF ArgsInv
  <1> QED
    BY <1>1, ArgsInvariant, PTL

\* The PCR that is extended is the one that was given last, unless the last value is empty
\* (tpm.c:615-633).
THEOREM ExtendFollows == Spec => []ExtendsAsGiven
  <1>1. ArgsInv => ExtendsAsGiven
    BY Zenon DEF ArgsInv, ExtendsAsGiven, ParsePcrIndex, Converted
  <1> QED
    BY <1>1, ArgsInvariant, PTL

\* The policy covers exactly the PCRs of the last list (tpm.c:207-214, 635-667).
THEOREM PolicyFollows == Spec => []PolicyIsAsked
  <1>1. ArgsInv => PolicyIsAsked
    <2> SUFFICES ASSUME ArgsInv, pc = "run", cominitTpmSecureStorageEnabled
                 PROVE  PolicyIsAsked
      BY DEF PolicyIsAsked
    <2> DEFINE list == argv[Last(Read("pcrSeal"))].list
               asked == {list[k] : k \in 1 .. Len(list)}
    <2>1. pcrSeal # <<>> /\ pcrSeal \in Seq(Nat)
      BY LastIsTyped, ZenonT(30) DEF cominitTpmSecureStorageEnabled
    <2>2. pcrSeal = list /\ \A k \in 1 .. Len(list) : list[k] < PcrCount
      BY <2>1 DEF ArgsInv, ParsePcrIndexes
    <2>3. pcrSelect = {PcrBit(n) : n \in asked} /\ asked \subseteq Nat
      <3>1. next = Len(list) + 1 /\ Len(list) \in Nat
        BY <2>1, <2>2 DEF ArgsInv
      <3>2. pcrSelect = {PcrBit(list[k]) : k \in 1 .. Len(list)}
        BY <2>2, <3>1 DEF ArgsInv
      <3> QED
        BY <2>1, <2>2, <3>2
    <2>4. \A n \in asked : n < PcrCount
      BY <2>2
    <2>5. ASSUME asked \subseteq Registers
          PROVE  SelectedRegisters = asked /\ \A b \in pcrSelect : b[1] < SelectBytes
      <3> HIDE DEF asked
      <3>1. \A n, r \in Nat : n \div 8 = r \div 8 /\ n % 8 = r % 8 => n = r
        OBVIOUS
      <3>2. Registers \subseteq Nat /\ \A r \in Registers : r \div 8 < SelectBytes
        BY ArgsAssumption
      <3>3. SelectedRegisters = asked
        BY <2>3, <2>5, <3>1, <3>2, ZenonT(30) DEF SelectedRegisters, PcrBit
      <3>4. \A b \in pcrSelect : b[1] < SelectBytes
        <4>1. \A n \in asked : PcrBit(n)[1] < SelectBytes
          BY <2>5, <3>2 DEF PcrBit
        <4> HIDE DEF PcrBit
        <4> QED
          BY <2>3, <4>1, Zenon
      <3> QED
        BY <3>3, <3>4
    <2> QED
      BY <2>4, <2>5 DEF PolicyIsAsked
  <1> QED
    BY <1>1, ArgsInvariant, PTL

\* Only messages up to the level that was given last are printed, as long as the value is
\* below 2^32, and sensitive ones only by a build for them (output.c:45-88).
THEOREM OutputFollows == Spec => []PrintsAsAsked
  <1>1. ArgsInv => PrintsAsAsked
    <2> SUFFICES ASSUME ArgsInv, pc = "run"
                 PROVE  PrintsAsAsked
      BY DEF ArgsInv, PrintsAsAsked
    <2> DEFINE given == Read("logLevel")
               num == argv[Last(given)].num
               wanted == IF given # {} /\ num.form = "number" /\ num.val \in LogLevels
                         THEN num.val ELSE Info
    <2>1. given # {} => num.val \in Nat /\ (num.form = "empty" => num.val = 0)
      BY LastIsTyped
    <2>2. ASSUME given = {} \/ num.val < Bits32
          PROVE  visibleLevel \in LogLevels /\ wanted \in LogLevels /\ visibleLevel <= wanted
      <3>1. visibleLevel = IF level = Invalid THEN Info ELSE level
        BY DEF ArgsInv
      <3>2. CASE given = {}
        BY <3>1, <3>2 DEF ArgsInv, Info, LogLevels
      <3>3. CASE given # {}
        <4>1. num.val % Bits32 = num.val
          <5>1. num.val \in Nat /\ num.val < Bits32 /\ Bits32 \in Nat
            BY <2>1, <2>2, <3>3, ArgsAssumption
          <5> HIDE DEF num
          <5> QED
            BY <5>1, SmallRemainder
        <4>2. level = ParseLogLevel(num)
          BY <3>3 DEF ArgsInv
        <4> HIDE DEF num
        <4> QED
          BY <2>1, <3>1, <3>3, <4>1, <4>2
             DEF ParseLogLevel, Converted, Info, Invalid, LevelCount, LogLevels
      <3> QED
        BY <3>2, <3>3
    <2>3. printed \subseteq {l \in 1 .. 5 : l <= visibleLevel /\ (l >= 5 => build = "sensitive")}
      BY DEF ArgsInv, Visible, LevelCount, Sensitive
    <2> QED
      BY <2>2, <2>3 DEF PrintsAsAsked, LogLevels, Sensitive
  <1> QED
    BY <1>1, ArgsInvariant, PTL

\* What the parsers return is in range, whatever was given.
LEMMA ParsedInRange ==
  ASSUME ArgsInv
  PROVE  /\ argv \in Argvs /\ i \in 1 .. Len(argv) + 1
         /\ options \subseteq {"selinux", "enforcing"}
         /\ \A n \in {pcrIndex[k] : k \in DOMAIN pcrIndex} : n < PcrCount
         /\ Len(pcrSeal) <= PcrCount /\ \A k \in DOMAIN pcrSeal : pcrSeal[k] < PcrCount
         /\ level \in LogLevels \cup {Invalid}
         /\ printed \subseteq LogLevels
  <1>1. argv \in Argvs /\ i \in 1 .. Len(argv) + 1 /\ options \subseteq {"selinux", "enforcing"}
    BY Zenon DEF ArgsInv, NodesAsGiven
  <1>2. \A n \in {pcrIndex[k] : k \in DOMAIN pcrIndex} : n < PcrCount
    <2> DEFINE num == argv[Last(Read("pcrExtend"))].num
    <2>1. pcrIndex = <<>> \/ (num.val < PcrCount /\ pcrIndex = <<num.val>>)
      BY Zenon DEF ArgsInv, ParsePcrIndex
    <2> HIDE DEF num
    <2> QED
      BY <2>1
  <1>3. Len(pcrSeal) <= PcrCount /\ \A k \in DOMAIN pcrSeal : pcrSeal[k] < PcrCount
    <2>1. pcrSeal = <<>> \/ \E list \in Seq(Nat) : pcrSeal = ParsePcrIndexes(list)
      BY LastIsTyped DEF ArgsInv
    <2>2. PcrCount \in Nat
      BY ArgsAssumption
    <2> QED
      BY <2>1, <2>2 DEF ParsePcrIndexes
  <1>4. level \in LogLevels \cup {Invalid}
    <2>1. level = Invalid \/ \E num : num.val \in Nat /\ level = ParseLogLevel(num)
      BY LastIsTyped DEF ArgsInv
    <2>2. Bits32 \in Nat /\ 0 < Bits32
      BY ArgsAssumption DEF LevelCount
    <2>3. \A v \in Nat : v % Bits32 \in Nat
      BY <2>2
    <2> QED
      BY <2>1, <2>3 DEF ParseLogLevel, LogLevels, LevelCount, Invalid
  <1>5. printed \subseteq LogLevels
    BY DEF ArgsInv, Visible, LogLevels, LevelCount
  <1> QED
    BY <1>1, <1>2, <1>3, <1>4, <1>5, Zenon

\* The variables have their types: no index, count or level is out of the range that the
\* arrays and the messages have room for (tpm.c:615-667, output.c:45-88).
THEOREM TypeCorrect == Spec => []TypeOK
  <1> DEFINE Node == DeviceNodes \cup {"", "/dev/gpt"}
             Point == {"args", "exit", "crypt", "tpm", "select", "run"}
             Rest == /\ pc \in Point
                     /\ devNodeRootFs \in Node /\ devNodeBlob \in Node /\ devNodeCrypt \in Node
                     /\ visibleLevel \in LogLevels
  <1>1. Init => Rest
    <2>1. Info \in LogLevels
      BY DEF Info, LogLevels
    <2> QED
      BY <2>1, Zenon DEF Init
  <1>2. ArgsInv /\ Rest /\ [Next]_vars => Rest'
    <2> SUFFICES ASSUME ArgsInv, Rest, [Next]_vars PROVE Rest'
      BY Zenon
    <2>1. "" \in Node /\ "/dev/gpt" \in Node /\ \A d \in DeviceNodes : d \in Node
      BY Zenon
    <2> HIDE DEF Node
    <2>2. visibleLevel' \in LogLevels
      <3>1. CASE visibleLevel' = visibleLevel
        BY <3>1, Zenon
      <3>2. CASE visibleLevel' = IF level = Invalid THEN Info ELSE level
        BY <3>2, ParsedInRange DEF Info, LogLevels
      <3> QED
        BY <3>1, <3>2, ZenonT(30)
           DEF Next, vars, output, PrintAndExit, RootArgument, BlobArgument, CryptArgument,
               SelinuxArgument, OtherArgument, LogLevelArgument, PcrExtendArgument,
               PcrSealArgument, SetVisibleLogLevel, FindCrypt, UseTpm, cominitTpmSelectPcr,
               cominitOutputLogFunc
    <2>3. pc' \in Point
      BY ZenonT(30)
         DEF Next, vars, PrintAndExit, RootArgument, BlobArgument, CryptArgument,
             SelinuxArgument, OtherArgument, LogLevelArgument, PcrExtendArgument,
             PcrSealArgument, SetVisibleLogLevel, FindCrypt, UseTpm, cominitTpmSelectPcr,
             cominitOutputLogFunc
    <2>4. devNodeRootFs' \in Node /\ devNodeBlob' \in Node /\ devNodeCrypt' \in Node
      <3>1. CASE RootArgument \/ BlobArgument \/ CryptArgument
        BY <2>1, <3>1, ZenonT(30) DEF RootArgument, BlobArgument, CryptArgument, ParseDeviceNode
      <3>2. CASE FindCrypt
        BY <2>1, <3>2, ZenonT(30) DEF FindCrypt
      <3>3. CASE UNCHANGED nodes
        BY <3>3, Zenon DEF nodes
      <3> QED
        BY <3>1, <3>2, <3>3, ZenonT(30)
           DEF Next, vars, PrintAndExit, SelinuxArgument, OtherArgument, LogLevelArgument,
               PcrExtendArgument, PcrSealArgument, SetVisibleLogLevel, UseTpm,
               cominitTpmSelectPcr, cominitOutputLogFunc
    <2> QED
      BY <2>2, <2>3, <2>4, Zenon
  <1>3. ArgsInv /\ Rest => TypeOK
    <2> SUFFICES ASSUME ArgsInv, Rest PROVE TypeOK
      BY Zenon
    <2>1. {devNodeRootFs, devNodeBlob, devNodeCrypt} \subseteq Node
      BY Zenon
    <2> QED
      BY <2>1, ParsedInRange, ZenonT(30) DEF TypeOK
  <1> QED
    BY <1>1, <1>2, <1>3, ArgsInvariant, PTL DEF Spec
==============================================================================
