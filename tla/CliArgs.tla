------------------------------- MODULE CliArgs -------------------------------
(***************************************************************************)
(* The command line of cominit: the loop over argv in main() of            *)
(* src/src/cominit.c, the parsers it calls in src/src/tpm.c and            *)
(* src/src/output.c, and what becomes of the values: the PCR selection of  *)
(* the policy, the options that switch the TPM on, the level of messages.  *)
(*                                                                         *)
(* An argument is a record with its key, without `cominit.', and its value *)
(* under `dev' for a device node, `num' for a number and `list' for a PCR  *)
(* list.  A number has the value strtoul() returns and a form: "number",   *)
(* "empty" (no characters at all), "junk" (characters are left) or         *)
(* "range" (errno is set).  A list is the sequence of its runs of digits.  *)
(***************************************************************************)
EXTENDS Integers, Sequences, FiniteSets

CONSTANTS
    Argvs,          \* the command lines
    DeviceNodes,    \* values that begin with /dev/ and are short enough
    PcrCount,       \* TPM2_PT_PCR_COUNT, also the size of pcrSeal
    Registers,      \* PCRs that the TPM has
    SelectBytes,    \* size of pcrSelect
    Bits32          \* 2^32

\* cominitLogLevelE_t
LogLevels == 0 .. 5
Info == 3
Sensitive == 5
LevelCount == 6
Invalid == 7

ASSUME ArgsAssumption ==
    /\ \A a \in Argvs : Len(a) \in Nat /\ \A k \in 1 .. Len(a) :
          /\ a[k].key \in {"logLevel", "pcrExtend"} =>
                a[k].num.val \in Nat /\ (a[k].num.form = "empty" => a[k].num.val = 0)
          /\ a[k].key = "pcrSeal" => a[k].list \in Seq(Nat)
    /\ {PcrCount, SelectBytes, Bits32} \subseteq Nat /\ LevelCount < Bits32
    /\ Registers \subseteq 0 .. 8 * SelectBytes - 1

VARIABLES
    argv, i, pc,
    build,          \* with or without COMINIT_ENABLE_SENSITIVE_LOGGING
    devNodeRootFs, devNodeBlob, devNodeCrypt,
    options,        \* enableSelinux, enableEnforceMode
    pcrIndex,       \* << >> unless pcrSet
    pcrSeal,        \* the first pcrSealCount elements of the array
    level,          \* argCtx.visibleLogLevel
    visibleLevel,   \* cominitLogContext.visibleLevel
    printed,        \* levels of the messages printed since the level was set
    next,           \* loop variable of cominitTpmSelectPcr()
    pcrSelect       \* the bits set in the PCR selection, <<byte, bit>>

nodes == <<devNodeRootFs, devNodeBlob, devNodeCrypt>>
pcrs == <<pcrIndex, pcrSeal>>
output == <<visibleLevel, printed>>
selection == <<next, pcrSelect>>
vars == <<argv, i, pc, build, nodes, options, pcrs, level, output, selection>>

Keys == {"-V", "-h", "root", "logLevel", "selinux", "enforcing", "pcrExtend", "blob", "pcrSeal",
         "crypt", "other"}

-----------------------------------------------------------------------------
Init ==
    /\ argv \in Argvs
    /\ i = 1 /\ pc = "args"
    /\ build \in {"sensitive", "plain"}
    /\ devNodeRootFs = "" /\ devNodeBlob = "" /\ devNodeCrypt = ""
    /\ options = {}
    /\ pcrIndex = <<>> /\ pcrSeal = <<>>
    /\ level = Invalid /\ visibleLevel = Info
    /\ printed = {}
    /\ next = 1 /\ pcrSelect = {}

\* The next argument has this key.
Argument(key) ==
    /\ pc = "args" /\ i <= Len(argv)
    /\ argv[i].key = key
    /\ i' = i + 1

\* main() returns at once, which the kernel answers with a panic.
PrintAndExit ==
    /\ Argument("-V") \/ Argument("-h")
    /\ pc' = "exit"
    /\ UNCHANGED <<argv, build, nodes, options, pcrs, level, output, selection>>

\* cominitParseDeviceNode(): a value that is refused leaves the earlier one.
ParseDeviceNode(old, value) == IF value \in DeviceNodes THEN value ELSE old

RootArgument ==
    /\ Argument("root")
    /\ devNodeRootFs' = ParseDeviceNode(devNodeRootFs, argv[i].dev)
    /\ UNCHANGED <<argv, pc, build, devNodeBlob, devNodeCrypt, options, pcrs, level, output, selection>>

BlobArgument ==
    /\ Argument("blob")
    /\ devNodeBlob' = ParseDeviceNode(devNodeBlob, argv[i].dev)
    /\ UNCHANGED <<argv, pc, build, devNodeRootFs, devNodeCrypt, options, pcrs, level, output, selection>>

CryptArgument ==
    /\ Argument("crypt")
    /\ devNodeCrypt' = ParseDeviceNode(devNodeCrypt, argv[i].dev)
    /\ UNCHANGED <<argv, pc, build, devNodeRootFs, devNodeBlob, options, pcrs, level, output, selection>>

SelinuxArgument ==
    /\ \/ Argument("selinux") /\ options' = options \cup {"selinux"}
       \/ Argument("enforcing") /\ options' = options \cup {"enforcing"}
    /\ UNCHANGED <<argv, pc, build, nodes, pcrs, level, output, selection>>

OtherArgument ==
    /\ Argument("other")
    /\ UNCHANGED <<argv, pc, build, nodes, options, pcrs, level, output, selection>>

\* !errno && *end == '\0': strtoul() takes an empty string for zero.
Converted(num) == num.form \in {"number", "empty"}

\* Mutant: a level that is refused leaves the earlier one.
ParseLogLevel_Keeping(num) ==
    IF Converted(num) /\ num.val % Bits32 < LevelCount THEN num.val % Bits32 ELSE level

\* cominitOutputParseLogLevel(): the value is kept in an unsigned int before it is compared.
ParseLogLevel(num) ==
    IF Converted(num) /\ num.val % Bits32 < LevelCount THEN num.val % Bits32 ELSE Invalid

LogLevelArgument ==
    /\ Argument("logLevel")
    /\ level' = ParseLogLevel(argv[i].num)
    /\ UNCHANGED <<argv, pc, build, nodes, options, pcrs, output, selection>>

\* Mutant: pcrSet is not cleared first.
ParsePcrIndex_Keeping(num) ==
    IF Converted(num) /\ num.val < PcrCount THEN <<num.val>> ELSE pcrIndex

\* Mutant: the number of PCRs is taken for an index.
ParsePcrIndex_OffByOne(num) == IF Converted(num) /\ num.val <= PcrCount THEN <<num.val>> ELSE <<>>

\* cominitTpmParsePcrIndex()
ParsePcrIndex(num) == IF Converted(num) /\ num.val < PcrCount THEN <<num.val>> ELSE <<>>

PcrExtendArgument ==
    /\ Argument("pcrExtend")
    /\ pcrIndex' = ParsePcrIndex(argv[i].num)
    /\ UNCHANGED <<argv, pc, build, nodes, options, pcrSeal, level, output, selection>>

\* Mutant: an index that is refused is passed over.
ParsePcrIndexes_Lenient(list) == SelectSeq(list, LAMBDA n : n < PcrCount)

\* cominitTpmParsePcrIndexes(): any characters but digits separate indexes.  One that is out
\* of range, and one more than the array has room for, make the count zero.
ParsePcrIndexes(list) ==
    IF Len(list) <= PcrCount /\ \A k \in 1 .. Len(list) : list[k] < PcrCount THEN list ELSE <<>>

PcrSealArgument ==
    /\ Argument("pcrSeal")
    /\ pcrSeal' = ParsePcrIndexes(argv[i].list)
    /\ UNCHANGED <<argv, pc, build, nodes, options, pcrIndex, level, output, selection>>

\* cominitOutputSetVisibleLogLevel(), after setsid() and umask().
SetVisibleLogLevel ==
    /\ pc = "args" /\ i > Len(argv)
    /\ visibleLevel' = IF level = Invalid THEN Info ELSE level
    /\ pc' = "crypt"
    /\ UNCHANGED <<argv, i, build, nodes, options, pcrs, level, printed, selection>>

\* Without a node from the command line main() looks for one in the partition tables.
FindCrypt ==
    /\ pc = "crypt"
    /\ devNodeCrypt' \in IF devNodeCrypt = "" THEN {"", "/dev/gpt"} ELSE {devNodeCrypt}
    /\ pc' = "tpm"
    /\ UNCHANGED <<argv, i, build, devNodeRootFs, devNodeBlob, options, pcrs, level, output, selection>>

cominitTpmSecureStorageEnabled == devNodeBlob # "" /\ pcrSeal # <<>> /\ devNodeCrypt # ""

\* The policy is built only if the storage is used.
UseTpm ==
    /\ pc = "tpm"
    /\ pc' = IF cominitTpmSecureStorageEnabled THEN "select" ELSE "run"
    /\ UNCHANGED <<argv, i, build, nodes, options, pcrs, level, output, selection>>

\* Mutant: the bits of a byte are counted from one.
PcrBit_FromOne(n) == <<n \div 8, (n + 1) % 8>>

PcrBit(n) == <<n \div 8, n % 8>>

\* The loop of cominitTpmSelectPcr().
cominitTpmSelectPcr ==
    /\ pc = "select"
    /\ IF next <= Len(pcrSeal)
       THEN /\ pcrSelect' = pcrSelect \cup {PcrBit(pcrSeal[next])}
            /\ next' = next + 1
            /\ pc' = "select"
       ELSE pc' = "run" /\ UNCHANGED selection
    /\ UNCHANGED <<argv, i, build, nodes, options, pcrs, level, output>>

\* Mutant: the level SENSITIVE is guarded by the visible level only.
Visible_Unguarded(l) == l \in 1 .. LevelCount - 1 /\ l <= visibleLevel

\* The early returns of cominitOutputLogFunc().
Visible(l) ==
    l \in 1 .. LevelCount - 1 /\ l <= visibleLevel /\ (l >= Sensitive => build = "sensitive")

\* A message of any level from any part of the program.
cominitOutputLogFunc ==
    /\ pc = "run"
    /\ \E l \in 0 .. LevelCount : printed' = printed \cup (IF Visible(l) THEN {l} ELSE {})
    /\ UNCHANGED <<argv, i, pc, build, nodes, options, pcrs, level, visibleLevel, selection>>

Next ==
    \/ PrintAndExit \/ RootArgument \/ BlobArgument \/ CryptArgument \/ SelinuxArgument
    \/ OtherArgument \/ LogLevelArgument \/ PcrExtendArgument \/ PcrSealArgument
    \/ SetVisibleLogLevel \/ FindCrypt \/ UseTpm \/ cominitTpmSelectPcr \/ cominitOutputLogFunc

Spec == Init /\ [][Next]_vars

-----------------------------------------------------------------------------
(* Every variable has its type. *)
TypeOK ==
    /\ argv \in Argvs /\ i \in 1 .. Len(argv) + 1
    /\ pc \in {"args", "exit", "crypt", "tpm", "select", "run"}
    /\ {devNodeRootFs, devNodeBlob, devNodeCrypt} \subseteq DeviceNodes \cup {"", "/dev/gpt"}
    /\ options \subseteq {"selinux", "enforcing"}
    /\ \A n \in {pcrIndex[k] : k \in DOMAIN pcrIndex} : n < PcrCount
    /\ Len(pcrSeal) <= PcrCount /\ \A k \in DOMAIN pcrSeal : pcrSeal[k] < PcrCount
    /\ level \in LogLevels \cup {Invalid} /\ visibleLevel \in LogLevels
    /\ printed \subseteq LogLevels

\* The arguments with this key that main() has read, and the last of them.
Read(key) == {k \in 1 .. i - 1 : argv[k].key = key}
Last(S) == CHOOSE k \in S : \A j \in S : j <= k

\* The last value that names a device node, or the empty string.
LastNode(key) ==
    LET good == {k \in Read(key) : argv[k].dev \in DeviceNodes}
    IN  IF good = {} THEN "" ELSE argv[Last(good)].dev

(***************************************************************************)
(* Whatever else the command line contains, and in any order, a device     *)
(* node is the last usable one that was given for its purpose, and the     *)
(* SELinux options are on if they were given.                              *)
(***************************************************************************)
NodesAsGiven ==
    /\ devNodeRootFs = LastNode("root") /\ devNodeBlob = LastNode("blob")
    /\ devNodeCrypt # LastNode("crypt") => LastNode("crypt") = "" /\ pc \notin {"args", "crypt"}
    /\ options = {o \in {"selinux", "enforcing"} : Read(o) # {}}

(***************************************************************************)
(* If the last `pcrExtend' has a value at all, the PCR that cominit sets   *)
(* out to extend is the number that is its whole value, below the limit of *)
(* the parser; any other value leaves none, also when an earlier one named *)
(* a PCR.  An empty value is not covered: README.md:217 asks for a valid   *)
(* index, and cominitTpmParsePcrIndex() takes it for PCR 0 (tpm.c:622-627).*)
(***************************************************************************)
ExtendsAsGiven ==
    LET given == Read("pcrExtend")
        num == argv[Last(given)].num
    IN  /\ given = {} => pcrIndex = <<>>
        /\ given # {} /\ num.form # "empty" =>
              pcrIndex = IF num.form = "number" /\ num.val < PcrCount THEN <<num.val>> ELSE <<>>

\* The registers that a TPM takes from a selection, byte by byte.
SelectedRegisters == {r \in Registers : <<r \div 8, r % 8>> \in pcrSelect}

(***************************************************************************)
(* The policy that the passphrase is sealed with is over exactly the PCRs  *)
(* of the last `pcrSeal', each once however often it is listed, as long as *)
(* that lists only PCRs that the TPM has; and the write of a bit stays     *)
(* inside pcrSelect.  A list with an index that is refused makes no policy *)
(* at all, and does not leave that of an earlier list.                     *)
(***************************************************************************)
PolicyIsAsked ==
    pc = "run" /\ cominitTpmSecureStorageEnabled =>
        LET list == argv[Last(Read("pcrSeal"))].list
            asked == {list[k] : k \in 1 .. Len(list)}
        IN  /\ \A n \in asked : n < PcrCount
            /\ asked \subseteq Registers =>
                  /\ SelectedRegisters = asked
                  /\ \A b \in pcrSelect : b[1] < SelectBytes

(***************************************************************************)
(* After startup no message above the level of the last `logLevel' is      *)
(* printed, or above INFO if that is not a level (README.md:281-283), and  *)
(* SENSITIVE ones only by a build for them.  It is an upper bound: after   *)
(* an empty value, which is not a level, the code prints nothing at all.   *)
(* Values of 2^32 and above are not covered: output.c:62 keeps only their  *)
(* lower half, which may be a level above INFO.                            *)
(***************************************************************************)
PrintsAsAsked ==
    LET given == Read("logLevel")
        num == argv[Last(given)].num
        wanted == IF given # {} /\ num.form = "number" /\ num.val \in LogLevels
                  THEN num.val ELSE Info
        allowed == IF build = "sensitive" THEN LogLevels ELSE LogLevels \ {Sensitive}
    IN  given = {} \/ num.val < Bits32 => printed \subseteq {l \in allowed : l <= wanted}

(***************************************************************************)
(* The inductive invariant: what the options are after any number of       *)
(* arguments, in any order, and how far the selection and the messages     *)
(* have followed them.                                                     *)
(***************************************************************************)
ArgsInv ==
    /\ argv \in Argvs /\ i \in 1 .. Len(argv) + 1
    /\ \A key \in Keys : Read(key) # {} => Last(Read(key)) \in Read(key)
    /\ NodesAsGiven
    /\ pcrIndex = IF Read("pcrExtend") = {} THEN <<>> ELSE ParsePcrIndex(argv[Last(Read("pcrExtend"))].num)
    /\ pcrSeal = IF Read("pcrSeal") = {} THEN <<>> ELSE ParsePcrIndexes(argv[Last(Read("pcrSeal"))].list)
    /\ level = IF Read("logLevel") = {} THEN Invalid ELSE ParseLogLevel(argv[Last(Read("logLevel"))].num)
    /\ pcrSelect = {PcrBit(pcrSeal[k]) : k \in 1 .. next - 1}
    /\ next \in 1 .. Len(pcrSeal) + 1 /\ (pc \notin {"select", "run"} => next = 1)
    /\ pc = "run" /\ cominitTpmSecureStorageEnabled => next = Len(pcrSeal) + 1
    /\ pc \notin {"args", "exit"} => visibleLevel = IF level = Invalid THEN Info ELSE level
    /\ printed \subseteq {l \in 0 .. LevelCount : Visible(l)} /\ (pc # "run" => printed = {})
==============================================================================
