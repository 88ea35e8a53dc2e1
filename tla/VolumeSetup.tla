---------------------------- MODULE VolumeSetup ------------------------------
(***************************************************************************)
(* The way of the passphrase from the TPM into the LUKS volume: out of the *)
(* unsealed buffer into the keyring, back into a buffer, through a pipe to *)
(* luksFormat; then the tools that add the token, open the volume and make *)
(* its file system, and the mount.  cominit and the tools are processes    *)
(* that run concurrently.  SecureStorage takes each tool for one step; the *)
(* properties below are what it may take for granted then.                 *)
(*                                                                         *)
(* Code: src/src/subprocess.c, src/src/securememory.c, src/src/keyring.c,  *)
(* src/src/cryptsetup.c, and tpm.c from cominitTpmSetupSecureStorage() to  *)
(* cominitTpmMountSecureStorage().                                         *)
(***************************************************************************)
EXTENDS Integers

CONSTANTS
    FaultSets,      \* the sets of operations that may fail, one of which applies to a boot
    Key,            \* the passphrase that the TPM has unsealed
    Zero,           \* a buffer full of zeroes
    NoKey,          \* no passphrase
    KeySize,        \* COMINIT_PASSPHRASE_SIZE
    SizeMod,        \* the number of values of a size_t
    PipeBuf         \* what a pipe takes in one piece; more than that is not in memory either

ASSUME SizeAssumption ==
    /\ KeySize \in Nat /\ PipeBuf \in Nat /\ SizeMod \in Nat
    /\ 0 < KeySize /\ KeySize <= PipeBuf /\ PipeBuf < SizeMod - 1

ASSUME KeyAssumption == Key # Zero /\ Key # NoKey /\ Zero # NoKey

VARIABLES
    faults,     \* the operations that may fail in this boot
    boot,       \* "first" or "later": isFirstBoot
    pc,         \* what cominit does next
    tool,       \* the tool it runs, or "none"
    kid,        \* the state of the child process of each tool
    buffer,     \* keyBuffer of cominitSecurememoryCreateLuksVolume()
    dataSize,   \* the size that cominitSubprocessSpawnAndWrite() is called with
    writers,    \* who has the pipe open for writing
    readers,    \* who has it open for reading
    pipeData,   \* what is in the pipe
    input,      \* what luksFormat has read from its stdin
    freed,      \* what cominit has left in memory that it freed
    keyring,    \* the user key "secureStorage"
    crypt,      \* how far the partition is set up
    cryptPass,  \* the passphrase of its LUKS key slot
    active      \* "mapper" and "storage", when they are mapped and mounted

vars == <<faults, boot, pc, tool, kid, buffer, dataSize, writers, readers, pipeData, input, freed,
          keyring, crypt, cryptPass, active>>

config == <<faults, boot>>
pipe == <<writers, readers, pipeData>>
volume == <<crypt, cryptPass>>

Tools == {"luksFormat", "token", "luksOpen", "mkfs"}
Contents == {Key, Zero, NoKey}

\* A child before execve(), reading its stdin, at work, and with its exit status.
Alive == {"forked", "exec", "reading", "working"}
Exited == {"ok", "failed"}
KidStates == Alive \cup Exited \cup {"none", "reaped"}

Points == {"unseal", "getkey", "spawn", "write", "close", "badclose", "wait", "mount", "done"}

-----------------------------------------------------------------------------
\* cominitTpmProtectData() has got as far as Esys_Unseal(), in the boot that sealed the
\* passphrase or in a later one.  The first boot may have been interrupted, or one of its tools
\* may have failed: a later one finds the volume at any stage.
Init ==
    /\ faults \in FaultSets
    /\ \/ boot = "first" /\ crypt = "raw"
       \/ boot = "later" /\ crypt \in {"raw", "broken", "luks", "token", "fs"}
    /\ cryptPass = IF crypt \in {"raw", "broken"} THEN NoKey ELSE Key
    /\ pc = "unseal" /\ tool = "none"
    /\ kid = [t \in Tools |-> "none"]
    /\ buffer = NoKey /\ dataSize = 0
    /\ writers = {} /\ readers = {} /\ pipeData = NoKey /\ input = NoKey
    /\ freed = {}
    /\ keyring = NoKey
    /\ active = {}

\* The next tool is run.  Without one, main() goes on to the mount of the volume.
RunNext(t) == tool' = t /\ pc' = IF t = "none" THEN "mount" ELSE "spawn"

\* Mutant: the compiler drops the writes to memory that is freed next.
cominitSecurememoryZeroOut_Elided(buf) == buf

cominitSecurememoryZeroOut(buf) == Zero

\* The unsealed buffer is locked, its passphrase added to the keyring, and then zeroed and
\* freed; if it cannot be locked it is freed as it is.
cominitSecurememoryEsysUnseal ==
    /\ pc = "unseal"
    /\ \/ /\ keyring' = Key
          /\ freed' = freed \cup {cominitSecurememoryZeroOut(Key)}
          /\ \/ boot = "first" /\ pc' = "getkey" /\ UNCHANGED tool
             \/ boot = "later" /\ RunNext("luksOpen")
       \/ /\ "addkey" \in faults
          /\ freed' = freed \cup {cominitSecurememoryZeroOut(Key)}
          /\ RunNext("none")
          /\ UNCHANGED keyring
       \/ /\ "mlock" \in faults
          /\ freed' = freed \cup {Key}
          /\ RunNext("none")
          /\ UNCHANGED keyring
    /\ UNCHANGED <<config, kid, buffer, dataSize, pipe, input, volume, active>>

-----------------------------------------------------------------------------
(* cominitSecurememoryCreateLuksVolume(), up to the child process *)

\* Mutant: a size that does not fit is cut to that of the buffer.
SizeT_Clamped(n) == IF n < 0 THEN KeySize ELSE n

\* The conversion of the ssize_t that cominitKeyringGetKey() returns.
SizeT(n) == n % SizeMod

\* The new buffer is zeroed, and locked.  cominitKeyringGetKey() fills it, or returns -1 and
\* leaves it alone; -1 is not less than 0 as a size_t, and so the tool is started then too.
cominitKeyringGetKey ==
    /\ pc = "getkey"
    /\ \/ /\ keyring = Key
          /\ buffer' = keyring /\ dataSize' = SizeT(KeySize)
          /\ RunNext("luksFormat")
          /\ UNCHANGED freed
       \/ /\ "getkey" \in faults
          /\ buffer' = Zero /\ dataSize' = SizeT(-1)
          /\ RunNext("luksFormat")
          /\ UNCHANGED freed
       \/ /\ "calloc" \in faults
          /\ RunNext("none")
          /\ UNCHANGED <<buffer, dataSize, freed>>
       \/ /\ "mlock" \in faults
          /\ freed' = freed \cup {Zero}
          /\ RunNext("none")
          /\ UNCHANGED <<buffer, dataSize>>
    /\ UNCHANGED <<config, kid, pipe, input, keyring, volume, active>>

-----------------------------------------------------------------------------
(* cominitSubprocessSpawnAndWrite() and cominitSubprocessSpawn() *)

\* What cominitTpmSetupSecureStorage() runs after tool t has succeeded.
NextTool(t) ==
    CASE t = "luksFormat" -> "token"
      [] t = "token" -> "luksOpen"
      [] t = "luksOpen" -> IF boot = "first" THEN "mkfs" ELSE "none"
      [] t = "mkfs" -> "none"

\* The function returns.  After a failure nothing more is done to the volume.  The buffer of
\* luksFormat is zeroed and freed in either case.
Return(next) ==
    /\ RunNext(next)
    /\ \/ /\ tool = "luksFormat"
          /\ freed' = freed \cup {cominitSecurememoryZeroOut(buffer)}
          /\ buffer' = NoKey
       \/ /\ tool # "luksFormat"
          /\ UNCHANGED <<freed, buffer>>

\* Mutant: the parent does not wait for a tool without input.
AfterFork_Detached == RunNext(NextTool(tool))

AfterFork == pc' = "wait" /\ UNCHANGED tool

\* pipe(), for luksFormat, and fork(), after which both have both ends.
fork ==
    /\ pc = "spawn"
    /\ \/ /\ tool = "luksFormat"
          /\ kid' = [kid EXCEPT ![tool] = "forked"]
          /\ writers' = {"cominit", "child"} /\ readers' = {"cominit", "child"}
          /\ pc' = "write"
          /\ UNCHANGED <<tool, buffer, freed>>
       \/ /\ tool # "luksFormat"
          /\ kid' = [kid EXCEPT ![tool] = "forked"]
          /\ AfterFork
          /\ UNCHANGED <<writers, readers, buffer, freed>>
       \/ /\ "fork" \in faults
          /\ Return("none")
          /\ UNCHANGED <<kid, writers, readers>>
    /\ UNCHANGED <<config, dataSize, pipeData, input, keyring, volume, active>>

\* The read end is closed and the passphrase written: refused if the size is not that of
\* memory (EFAULT), or if the child has gone (EPIPE; SIGPIPE does not kill PID 1).
write ==
    /\ pc = "write"
    /\ readers' = readers \ {"cominit"}
    /\ \/ /\ dataSize <= PipeBuf /\ "child" \in readers
          /\ pipeData' = buffer
          /\ pc' = "close"
       \/ /\ dataSize > PipeBuf \/ "child" \notin readers
          /\ pc' = "badclose"
          /\ UNCHANGED pipeData
    /\ UNCHANGED <<config, tool, kid, buffer, dataSize, writers, input, freed, keyring, volume,
                   active>>

\* The write end is closed.  The child is waited for only if the write succeeded.
close ==
    /\ writers' = writers \ {"cominit"}
    /\ \/ pc = "close" /\ pc' = "wait" /\ UNCHANGED <<tool, freed, buffer>>
       \/ pc = "badclose" /\ Return("none")
    /\ UNCHANGED <<config, kid, dataSize, readers, pipeData, input, keyring, volume, active>>

\* Mutant: the exit status is not looked at.
Succeeded_Unchecked(status) == TRUE

\* WIFEXITED(status) && WEXITSTATUS(status) == 0
Succeeded(status) == status = "ok"

waitpid ==
    /\ pc = "wait"
    /\ kid[tool] \in Exited
    /\ kid' = [kid EXCEPT ![tool] = "reaped"]
    /\ Return(IF Succeeded(kid[tool]) THEN NextTool(tool) ELSE "none")
    /\ UNCHANGED <<config, dataSize, pipe, input, keyring, volume, active>>

-----------------------------------------------------------------------------
(* The child processes *)

\* An exit closes what the child still has open.
Exit(t, status) ==
    /\ kid' = [kid EXCEPT ![t] = status]
    /\ IF t = "luksFormat"
       THEN readers' = readers \ {"child"} /\ writers' = writers \ {"child"}
       ELSE UNCHANGED <<readers, writers>>

\* Mutant: the child keeps the write end of its own stdin.
ChildEnds_Kept(ends) == ends

\* close(pipefd[1])
ChildEnds(ends) == ends \ {"child"}

\* Between fork() and execve(): the write end is closed, the read end becomes stdin.
dup2(t) ==
    /\ kid[t] = "forked"
    /\ \/ /\ kid' = [kid EXCEPT ![t] = "exec"]
          /\ IF t = "luksFormat" THEN writers' = ChildEnds(writers) ELSE UNCHANGED writers
          /\ UNCHANGED readers
       \/ /\ "dup2" \in faults /\ t = "luksFormat"
          /\ Exit(t, "failed")
    /\ UNCHANGED <<config, pc, tool, buffer, dataSize, pipeData, input, freed, keyring, volume,
                   active>>

execve(t) ==
    /\ kid[t] = "exec"
    /\ \/ /\ kid' = [kid EXCEPT ![t] = IF t = "luksFormat" THEN "reading" ELSE "working"]
          /\ UNCHANGED <<readers, writers>>
       \/ /\ "execve" \in faults
          /\ Exit(t, "failed")
    /\ UNCHANGED <<config, pc, tool, buffer, dataSize, pipeData, input, freed, keyring, volume,
                   active>>

\* luksFormat --key-file - reads up to the end of its stdin, which comes when nobody has the
\* pipe open for writing any more.
readStdin ==
    /\ kid["luksFormat"] = "reading"
    /\ \/ /\ pipeData # NoKey
          /\ input' = pipeData /\ pipeData' = NoKey
          /\ UNCHANGED kid
       \/ /\ pipeData = NoKey /\ writers = {}
          /\ kid' = [kid EXCEPT !["luksFormat"] = "working"]
          /\ UNCHANGED <<input, pipeData>>
    /\ UNCHANGED <<config, pc, tool, buffer, dataSize, writers, readers, freed, keyring, volume,
                   active>>

\* luksFormat refuses an empty passphrase.  If it fails, the header may be damaged or whole.
luksFormat ==
    /\ kid["luksFormat"] = "working"
    /\ \/ /\ input # NoKey
          /\ crypt' = "luks" /\ cryptPass' = input
          /\ Exit("luksFormat", "ok")
       \/ /\ input # NoKey /\ "tool" \in faults
          /\ \/ crypt' = "broken" /\ cryptPass' = NoKey
             \/ crypt' = "luks" /\ cryptPass' = input
             \/ UNCHANGED volume
          /\ Exit("luksFormat", "failed")
       \/ /\ input = NoKey
          /\ UNCHANGED volume
          /\ Exit("luksFormat", "failed")
    /\ UNCHANGED <<config, pc, tool, buffer, dataSize, pipeData, input, freed, keyring, active>>

\* What a tool without input needs, and what it leaves behind.
Possible(t) ==
    CASE t = "token" -> crypt \in {"luks", "token", "fs"}
      [] t = "luksOpen" -> crypt \in {"token", "fs"} /\ keyring = cryptPass
      [] t = "mkfs" -> "mapper" \in active
Made(t) == CASE t = "token" -> "token" [] t = "luksOpen" -> crypt [] t = "mkfs" -> "fs"
Mapped(t) == IF t = "luksOpen" THEN active \cup {"mapper"} ELSE active

\* A tool that fails may have done its work.
ToolWorks(t) ==
    /\ kid[t] = "working"
    /\ \/ /\ Possible(t)
          /\ crypt' = Made(t) /\ active' = Mapped(t)
          /\ kid' = [kid EXCEPT ![t] = "ok"]
       \/ /\ Possible(t) /\ "tool" \in faults
          /\ crypt' = Made(t) /\ active' = Mapped(t)
          /\ kid' = [kid EXCEPT ![t] = "failed"]
       \/ /\ ~Possible(t) \/ "tool" \in faults
          /\ kid' = [kid EXCEPT ![t] = "failed"]
          /\ UNCHANGED <<crypt, active>>
    /\ UNCHANGED <<config, pc, tool, buffer, dataSize, pipe, input, freed, keyring, cryptPass>>

-----------------------------------------------------------------------------
(* cominitTpmMountSecureStorage(), called by main() whatever has become of the setup *)

\* If a directory cannot be made, stat() fails too and the buffer that S_ISDIR() looks at is
\* uninitialised: the function reports a failure or a success.
cominitMkdir(made) == IF made THEN {"EXIT_SUCCESS"} ELSE {"EXIT_SUCCESS", "EXIT_FAILURE"}

\* mount(2) needs the directory, the mapped device and its file system.
Mountable(made) == made /\ "mapper" \in active /\ crypt = "fs"

cominitTpmMountSecureStorage ==
    /\ pc = "mount"
    /\ \E made \in {TRUE} \cup {d \in {FALSE} : "mkdir" \in faults} :
       \E result \in cominitMkdir(made) :
          \/ result = "EXIT_SUCCESS" /\ Mountable(made) /\ active' = active \cup {"storage"}
          \/ /\ result = "EXIT_FAILURE" \/ ~Mountable(made) \/ "mount" \in faults
             /\ UNCHANGED active
    /\ pc' = "done"
    /\ UNCHANGED <<config, tool, kid, buffer, dataSize, pipe, input, freed, keyring, volume>>

-----------------------------------------------------------------------------
cominit ==
    \/ cominitSecurememoryEsysUnseal \/ cominitKeyringGetKey
    \/ fork \/ write \/ close \/ waitpid
    \/ cominitTpmMountSecureStorage

child(t) ==
    \/ dup2(t) \/ execve(t)
    \/ t = "luksFormat" /\ (readStdin \/ luksFormat)
    \/ t # "luksFormat" /\ ToolWorks(t)

\* cominit goes on to the rootfs and the tools have ended.
Finished == pc = "done" /\ (\A t \in Tools : kid[t] \notin Alive)

Next == cominit \/ (\E t \in Tools : child(t))

Spec == Init /\ [][Next]_vars

\* cryptsetup luksOpen, given neither a key file nor --token-only, asks on the console for the
\* passphrase of a LUKS volume that no token opens.
Prompting(t) ==
    /\ t = "luksOpen" /\ kid[t] = "working"
    /\ crypt \in {"luks", "token", "fs"}
    /\ ~Possible(t) \/ "tool" \in faults

\* The kernel schedules cominit and every child; nobody has to answer a prompt.
FairSpec ==
    Spec /\ WF_vars(cominit) /\ \A t \in Tools : WF_vars(child(t) /\ ~Prompting(t))

-----------------------------------------------------------------------------
(* Properties *)

\* What the processes, the pipe and the volume can hold: sizes are those of a size_t, also
\* after a failure that is reported as -1 (securememory.c:119-120).
TypeOK ==
    /\ faults \in FaultSets /\ boot \in {"first", "later"}
    /\ pc \in Points /\ tool \in Tools \cup {"none"}
    /\ kid \in [Tools -> KidStates]
    /\ buffer \in Contents /\ pipeData \in Contents /\ input \in Contents
    /\ keyring \in Contents /\ cryptPass \in Contents
    /\ dataSize \in 0 .. SizeMod - 1
    /\ writers \subseteq {"cominit", "child"} /\ readers \subseteq {"cominit", "child"}
    /\ freed \subseteq Contents
    /\ crypt \in {"raw", "broken", "luks", "token", "fs"}
    /\ active \subseteq {"mapper", "storage"}

\* The volume gets the passphrase that was sealed or none: a passphrase that could not be
\* read from the keyring, whose size wraps to the largest size_t, never becomes the zeroes
\* of an unfilled buffer (securememory.c:119-124, subprocess.c:48-51).
FormattedWithKey == cryptPass \in {Key, NoKey}

\* Two tools never work at the same time, and none works when cominit mounts the volume,
\* although a child is not waited for after a failed write (subprocess.c:50, tpm.c:346-363).
OneToolAtATime ==
    /\ \A t, u \in Tools : kid[t] \in Alive /\ kid[u] \in Alive => t = u
    /\ "storage" \in active => \A t \in Tools : kid[t] \notin Alive

\* The boot that sets the volume up starts a tool only on what the one before it has finished:
\* a tool that fails, whose work may be partly done, stops the setup.  A later boot opens what
\* it finds, at whatever stage the first has left it, and runs nothing that could change it
\* (tpm.c:345-370, subprocess.c:54-60, 87-93).
ToolsInSequence ==
    /\ kid["token"] # "none" => crypt \in {"luks", "token", "fs"} /\ cryptPass = Key
    /\ kid["luksOpen"] # "none" =>
        keyring = Key /\ (boot = "first" => crypt \in {"token", "fs"})
    /\ kid["mkfs"] # "none" => "mapper" \in active
    /\ boot = "later" => \A t \in Tools \ {"luksOpen"} : kid[t] = "none"

\* What is mounted is a finished volume with the sealed passphrase, also when a directory is
\* reported made that is not (tpm.c:102-107, 669-681).
MountedIsComplete ==
    "storage" \in active =>
        crypt = "fs" /\ cryptPass = Key /\ (boot = "first" => kid["mkfs"] = "reaped")

\* The passphrase is in no memory that cominit has freed, with one exception: a buffer that
\* could not be locked is freed as it is, and then the passphrase is not in the keyring and
\* the volume stays closed (securememory.c:78-98, 125, 138).
KeyBuffersCleared == Key \in freed => "mlock" \in faults /\ keyring = NoKey

\* The boot gets past the setup and no child is left behind, or luksOpen waits at its prompt
\* and cominit for it: no tool waits for the end of an input that cominit, waiting for the
\* tool, would have to close (subprocess.c:36, 49, 87; cryptsetup.c:48-52).
SetupEnds == <>[](Finished \/ \E t \in Tools : Prompting(t))

-----------------------------------------------------------------------------
(* The inductive invariant: how far cominit has come says which child there can be, and  *)
(* how far the children have come says what they have left.                              *)

\* A child that is not reaped is the one that cominit is about to wait for, or luksFormat
\* after a failed write, which gets no passphrase.
ChildrenInv ==
    /\ \A t \in Tools : kid[t] \in Alive \cup Exited =>
        \/ pc = "wait" /\ tool = t
        \/ t = "luksFormat" /\ tool = t /\ pc \in {"write", "close", "badclose"}
        \/ t = "luksFormat" /\ pc \in {"mount", "done"} /\ input = NoKey /\ pipeData = NoKey
    /\ pc \in {"write", "close", "badclose"} => tool = "luksFormat"
    /\ pc \in {"write", "badclose"} => input = NoKey /\ pipeData = NoKey
    /\ pc \in {"spawn", "wait"} => tool \in Tools
    /\ pc \in {"write", "close", "badclose", "wait"} => kid[tool] \in Alive \cup Exited
    /\ pc \in {"unseal", "getkey"} => \A t \in Tools : kid[t] = "none"
    /\ pc = "spawn" => kid[tool] = "none"
    /\ boot = "later" => kid["luksFormat"] = "none" /\ kid["token"] = "none" /\ pc # "getkey"
    /\ kid["luksFormat"] = "none" => input = NoKey /\ pipeData = NoKey
    /\ kid["token"] # "none" => kid["luksFormat"] = "reaped"
    /\ boot = "first" /\ kid["luksOpen"] # "none" => kid["token"] = "reaped"
    /\ kid["mkfs"] # "none" => kid["luksOpen"] = "reaped" /\ boot = "first"
    /\ tool = "luksFormat" => boot = "first" /\ kid["token"] = "none"
    /\ tool = "token" => kid["luksFormat"] = "reaped" /\ kid["luksOpen"] = "none"
    /\ tool = "luksOpen" => kid["mkfs"] = "none" /\ (boot = "first" => kid["token"] = "reaped")
    /\ tool = "mkfs" => kid["luksOpen"] = "reaped" /\ boot = "first"

\* Only a buffer that the passphrase has filled has a size that can be written.
BufferInv ==
    /\ tool = "luksFormat" /\ pc \in {"spawn", "write"} /\ dataSize <= PipeBuf => buffer = Key
    /\ pipeData # Zero /\ input # Zero /\ keyring # Zero /\ cryptPass # Zero
    /\ pc \in {"getkey", "spawn", "write", "close", "badclose", "wait"} => keyring = Key
    /\ (\E t \in Tools : kid[t] # "none") => keyring = Key
    /\ pc = "unseal" => freed = {} /\ keyring = NoKey

\* The volume is what the tools that have ended have made of it.
VolumeInv ==
    /\ boot = "first" /\ kid["luksFormat"] \notin Exited \cup {"reaped"} => crypt = "raw"
    /\ cryptPass = IF crypt \in {"raw", "broken"} THEN NoKey ELSE Key
    /\ boot = "first" /\ crypt = "fs" => kid["mkfs"] \in Exited \cup {"reaped"}
    /\ kid["luksFormat"] = "ok" \/ tool = "token" => crypt \in {"luks", "token"}
    /\ kid["token"] # "none" => crypt \in {"luks", "token", "fs"}
    /\ boot = "first" /\ (kid["token"] = "ok" \/ tool \in {"luksOpen", "mkfs"} \/ kid["luksOpen"] # "none")
        => crypt \in {"token", "fs"}
    /\ kid["luksOpen"] = "ok" \/ tool = "mkfs" \/ kid["mkfs"] # "none" => "mapper" \in active
    /\ "mapper" \in active => kid["luksOpen"] # "none"
    /\ "storage" \in active => pc = "done" /\ "mapper" \in active /\ crypt = "fs"

\* The inductive invariant: a child that is there is the one cominit waits for, or luksFormat
\* without a passphrase; the volume is what the tools that have ended have made of it
\* (subprocess.c:46-60, tpm.c:342-375).
SetupInv ==
    TypeOK /\ ChildrenInv /\ BufferInv /\ VolumeInv /\ KeyBuffersCleared

-----------------------------------------------------------------------------
(* Progress *)

\* cominit waits only for a child that is there, and luksFormat waits for input only while
\* cominit has still to write it or to close the pipe: nobody waits for a process that waits
\* for it (subprocess.c:36, 46-54).
NoCircularWait ==
    /\ pc = "wait" => kid[tool] \in Alive \cup Exited
    /\ kid["luksFormat"] = "reading" /\ pipeData = NoKey /\ pc \notin {"write", "close", "badclose"} =>
        writers = {}

\* Its inductive invariant: cominit has the write end open up to its close(), and the child
\* up to its own.
PipeInv ==
    /\ writers \subseteq {"cominit", "child"}
    /\ "cominit" \in writers => pc \in {"write", "close", "badclose"}
    /\ "child" \in writers => kid["luksFormat"] = "forked"

\* How far cominit is from its end with one tool, how many tools may follow, and how far a
\* child is from its exit.
CominitAhead ==
    [p \in Points |->
        CASE p = "done" -> 0 [] p = "mount" -> 1 [] p = "wait" -> 2 [] p \in {"close", "badclose"} -> 3
          [] p = "write" -> 5 [] p = "spawn" -> 6 [] p = "getkey" -> 27 [] p = "unseal" -> 28]
ToolsAhead ==
    [t \in Tools \cup {"none"} |->
        CASE t = "luksFormat" -> 4 [] t = "token" -> 3 [] t = "luksOpen" -> 2 [] t = "mkfs" -> 1
          [] t = "none" -> 0]
ChildAhead ==
    [k \in KidStates |->
        CASE k = "none" -> 5 [] k = "forked" -> 4 [] k = "exec" -> 3 [] k = "reading" -> 2
          [] k = "working" -> 1 [] k \in Exited \cup {"reaped"} -> 0]

KidsAhead ==
    ChildAhead[kid["luksFormat"]] + ChildAhead[kid["token"]] + ChildAhead[kid["luksOpen"]]
        + ChildAhead[kid["mkfs"]]

StepsLeft ==
    CominitAhead[pc] + 5 * ToolsAhead[tool] + KidsAhead + (IF pipeData = NoKey THEN 0 ELSE 1)

\* The setup takes a bounded number of steps, in whatever order cominit and its children run
\* and whatever fails: nothing is retried, and no child is started twice.  A tool at a prompt
\* takes no step (tpm.c:342-375, subprocess.c:21-93).
SetupIsBounded ==
    /\ [](StepsLeft \in 0 .. 48)
    /\ [][StepsLeft' < StepsLeft]_vars
==============================================================================
