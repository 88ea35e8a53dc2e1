------------------------- MODULE VolumeSetup_proofs --------------------------
(* Proofs of the safety properties of VolumeSetup, for every size of a size_t and of a pipe. *)
EXTENDS VolumeSetup, TLAPS

\* The passphrase size is a size that a pipe takes; -1, as a size_t, is not.
LEMMA Sizes ==
  /\ SizeT(KeySize) = KeySize /\ SizeT(KeySize) \in 0 .. SizeMod - 1
  /\ SizeT(-1) \in 0 .. SizeMod - 1 /\ ~(SizeT(-1) <= PipeBuf)
  <1>1. KeySize % SizeMod = KeySize
    BY SizeAssumption
  <1>2. (-1) % SizeMod = SizeMod - 1
    BY SizeAssumption
  <1> QED
    BY <1>1, <1>2, SizeAssumption DEF SizeT

\* The invariant holds when cominit has come to Esys_Unseal().
LEMMA InitInv == Init => SetupInv
  <1> SUFFICES ASSUME Init PROVE SetupInv
    OBVIOUS
  <1> USE SizeAssumption, KeyAssumption DEF Init
  <1>1. TypeOK BY DEF TypeOK, Points, Tools, Contents, KidStates
  <1>2. ChildrenInv BY DEF ChildrenInv, Tools, Alive, Exited
  <1>3. BufferInv BY DEF BufferInv, Tools
  <1>4. VolumeInv BY DEF VolumeInv, Tools, Exited
  <1> QED
    BY <1>1, <1>2, <1>3, <1>4 DEF SetupInv, KeyBuffersCleared

\* A child that changes its state changes it to one of the states.
LEMMA KidType ==
  ASSUME NEW t \in Tools, NEW s \in KidStates, kid \in [Tools -> KidStates],
         kid' = [kid EXCEPT ![t] = s]
  PROVE  kid' \in [Tools -> KidStates]
  BY SMTT(20)

\* Every step keeps the variables in their types.
LEMMA TypeStep == SetupInv /\ [Next]_vars => TypeOK'
  <1> SUFFICES ASSUME SetupInv, [Next]_vars PROVE TypeOK'
    OBVIOUS
  <1>0. TypeOK /\ ChildrenInv
    BY DEF SetupInv
  <1> USE <1>0, SizeAssumption, KeyAssumption
      DEF TypeOK, Points, Tools, Contents, config, pipe, volume, RunNext, Return
  <1>1. CASE cominitSecurememoryEsysUnseal
    BY <1>1 DEF cominitSecurememoryEsysUnseal, cominitSecurememoryZeroOut
  <1>2. CASE cominitKeyringGetKey BY <1>2, Sizes DEF cominitKeyringGetKey
  <1>3. CASE fork
    <2>1. kid' \in [Tools -> KidStates]
      BY <1>3, KidType DEF fork, KidStates, Alive, ChildrenInv
    <2>2. freed' \subseteq Contents
      BY <1>3 DEF fork, cominitSecurememoryZeroOut
    <2>3. writers' \subseteq {"cominit", "child"} /\ readers' \subseteq {"cominit", "child"}
      BY <1>3, ZenonT(30) DEF fork
    <2>4. pc' \in Points /\ tool' \in Tools \cup {"none"} /\ buffer' \in Contents
      BY <1>3 DEF fork, AfterFork
    <2> QED
      BY <1>3, <2>1, <2>2, <2>3, <2>4 DEF fork
  <1>4. CASE write BY <1>4 DEF write
  <1>5. CASE close BY <1>5 DEF close, cominitSecurememoryZeroOut
  <1>6. CASE waitpid
    <2>1. NextTool(tool) \in Tools \cup {"none"}
      BY <1>6 DEF waitpid, NextTool, ChildrenInv
    <2>2. kid' \in [Tools -> KidStates]
      BY <1>6, KidType DEF waitpid, KidStates, ChildrenInv
    <2>3. freed' \subseteq Contents
      BY <1>6 DEF waitpid, cominitSecurememoryZeroOut
    <2> QED
      BY <1>6, <2>1, <2>2, <2>3 DEF waitpid, cominitSecurememoryZeroOut
  <1>7. CASE cominitTpmMountSecureStorage
    <2>1. active' = active \/ active' = active \cup {"storage"}
      BY <1>7 DEF cominitTpmMountSecureStorage
    <2>2. active' \subseteq {"mapper", "storage"}
      BY <2>1, ZenonT(30)
    <2> QED
      BY <1>7, <2>2 DEF cominitTpmMountSecureStorage
  <1>8. ASSUME NEW t \in Tools, dup2(t) PROVE TypeOK'
    <2>1. kid' \in [Tools -> KidStates]
      BY <1>8, KidType DEF dup2, Exit, KidStates, Alive, Exited
    <2>2. writers' \subseteq writers /\ readers' \subseteq readers
      BY <1>8 DEF dup2, Exit, ChildEnds
    <2> QED
      BY <1>8, <2>1, <2>2 DEF dup2
  <1>9. ASSUME NEW t \in Tools, execve(t) PROVE TypeOK'
    <2>1. kid' \in [Tools -> KidStates]
      BY <1>9, KidType DEF execve, Exit, KidStates, Alive, Exited
    <2>2. writers' \subseteq writers /\ readers' \subseteq readers
      BY <1>9 DEF execve, Exit
    <2> QED
      BY <1>9, <2>1, <2>2 DEF execve
  <1>10. CASE readStdin BY <1>10, KidType DEF readStdin, KidStates, Alive
  <1>11. CASE luksFormat
    <2>1. kid' \in [Tools -> KidStates]
      BY <1>11, KidType DEF luksFormat, Exit, KidStates, Alive, Exited
    <2>2. writers' \subseteq writers /\ readers' \subseteq readers
      BY <1>11 DEF luksFormat, Exit
    <2> QED
      BY <1>11, <2>1, <2>2 DEF luksFormat
  <1>12. ASSUME NEW t \in Tools, t # "luksFormat", ToolWorks(t) PROVE TypeOK'
    <2>1. kid' \in [Tools -> KidStates]
      BY <1>12, KidType DEF ToolWorks, KidStates, Exited
    <2>2. Made(t) \in {"token", "fs", crypt} /\ Mapped(t) \subseteq {"mapper", "storage"}
      BY <1>12 DEF Made, Mapped
    <2>3. crypt' \in {"raw", "broken", "luks", "token", "fs"}
      BY <1>12, <2>2 DEF ToolWorks
    <2>4. active' \subseteq {"mapper", "storage"}
      BY <1>12, <2>2, ZenonT(30) DEF ToolWorks
    <2> QED
      BY <1>12, <2>1, <2>3, <2>4 DEF ToolWorks
  <1>13. CASE UNCHANGED vars BY <1>13 DEF vars
  <1> QED
    BY <1>1, <1>2, <1>3, <1>4, <1>5, <1>6, <1>7, <1>8, <1>9, <1>10, <1>11, <1>12, <1>13
    DEF Next, cominit, child

\* A step of cominit or of a child keeps the bookkeeping of the children.
LEMMA ChildrenStep == SetupInv /\ [Next]_vars => ChildrenInv'
  <1> SUFFICES ASSUME SetupInv, [Next]_vars PROVE ChildrenInv'
    OBVIOUS
  <1>0. TypeOK /\ TypeOK' /\ ChildrenInv /\ BufferInv /\ VolumeInv /\ KeyBuffersCleared
    BY TypeStep, SMTT(20) DEF SetupInv
  <1> USE <1>0, SizeAssumption, KeyAssumption
      DEF ChildrenInv, TypeOK, Tools, Contents, KidStates, Alive, Exited,
          config, pipe, volume, RunNext, Return
  <1>1. CASE cominitSecurememoryEsysUnseal
    BY <1>1 DEF cominitSecurememoryEsysUnseal, cominitSecurememoryZeroOut
  <1>2. CASE cominitKeyringGetKey
    BY <1>2, Sizes DEF cominitKeyringGetKey
  <1>3. CASE fork
    BY <1>3 DEF fork, AfterFork, cominitSecurememoryZeroOut
  <1>4. CASE write
    <2>1. /\ pc' = "close" \/ (pc' = "badclose" /\ pipeData' = pipeData)
          /\ UNCHANGED <<boot, tool, kid, input>>
      BY <1>4 DEF write
    <2> QED
      BY <1>4, <2>1 DEF write
  <1>5. CASE close
    <2>1. /\ \/ pc = "close" /\ pc' = "wait" /\ tool' = tool
             \/ pc = "badclose" /\ pc' = "mount" /\ tool' = "none"
          /\ UNCHANGED <<boot, kid, input, pipeData>>
      BY <1>5 DEF close
    <2> QED
      BY <2>1
  <1>6. CASE waitpid
    BY <1>6 DEF waitpid, NextTool, Succeeded, cominitSecurememoryZeroOut
  <1>7. CASE cominitTpmMountSecureStorage
    BY <1>7 DEF cominitTpmMountSecureStorage, Mountable, cominitMkdir
  <1>8. ASSUME NEW t \in Tools, dup2(t) PROVE ChildrenInv'
    BY <1>8 DEF dup2, Exit, ChildEnds
  <1>9. ASSUME NEW t \in Tools, execve(t) PROVE ChildrenInv'
    BY <1>9 DEF execve, Exit
  <1>10. CASE readStdin
    BY <1>10 DEF readStdin
  <1>11. CASE luksFormat
    BY <1>11 DEF luksFormat, Exit
  <1>12. ASSUME NEW t \in Tools, t # "luksFormat", ToolWorks(t) PROVE ChildrenInv'
    <2>1. /\ kid[t] = "working" /\ \E r \in {"ok", "failed"} : kid' = [kid EXCEPT ![t] = r]
          /\ UNCHANGED <<boot, pc, tool, input, pipeData>>
      BY <1>12 DEF ToolWorks
    <2>2. kid'[t] \in {"ok", "failed"} /\ \A u \in Tools \ {t} : kid'[u] = kid[u]
      BY <1>12, <2>1
    <2> QED
      BY <1>12, <2>1, <2>2
  <1>13. CASE UNCHANGED vars
    BY <1>13, SMTT(20) DEF vars
  <1> QED
    BY <1>1, <1>2, <1>3, <1>4, <1>5, <1>6, <1>7, <1>8, <1>9, <1>10, <1>11, <1>12, <1>13, ZenonT(30)
    DEF Next, cominit, child

\* No step puts anything but the passphrase where the passphrase goes.
LEMMA BufferStep == SetupInv /\ [Next]_vars => BufferInv'
  <1> SUFFICES ASSUME SetupInv, [Next]_vars PROVE BufferInv'
    OBVIOUS
  <1>0. TypeOK /\ TypeOK' /\ ChildrenInv /\ BufferInv /\ VolumeInv /\ KeyBuffersCleared
    BY TypeStep, Zenon DEF SetupInv
  <1> USE <1>0, SizeAssumption, KeyAssumption
      DEF ChildrenInv, BufferInv, TypeOK, Tools, Contents, KidStates, Alive, Exited,
          config, pipe, volume, RunNext, Return
  <1>1. CASE cominitSecurememoryEsysUnseal
    BY <1>1 DEF cominitSecurememoryEsysUnseal, cominitSecurememoryZeroOut
  <1>2. CASE cominitKeyringGetKey
    BY <1>2, Sizes DEF cominitKeyringGetKey
  <1>3. CASE fork
    BY <1>3 DEF fork, AfterFork, cominitSecurememoryZeroOut
  <1>4. CASE write
    BY <1>4 DEF write
  <1>5. CASE close
    BY <1>5 DEF close, cominitSecurememoryZeroOut
  <1>6. CASE waitpid
    BY <1>6 DEF waitpid, NextTool, Succeeded, cominitSecurememoryZeroOut
  <1>7. CASE cominitTpmMountSecureStorage
    BY <1>7 DEF cominitTpmMountSecureStorage, Mountable, cominitMkdir
  <1>8. ASSUME NEW t \in Tools, dup2(t) PROVE BufferInv'
    BY <1>8 DEF dup2, Exit, ChildEnds
  <1>9. ASSUME NEW t \in Tools, execve(t) PROVE BufferInv'
    BY <1>9 DEF execve, Exit
  <1>10. CASE readStdin
    BY <1>10 DEF readStdin
  <1>11. CASE luksFormat
    BY <1>11 DEF luksFormat, Exit
  <1>12. ASSUME NEW t \in Tools, t # "luksFormat", ToolWorks(t) PROVE BufferInv'
    BY <1>12 DEF ToolWorks, Made, Mapped, Possible
  <1>13. CASE UNCHANGED vars
    BY <1>13, SMTT(20) DEF vars
  <1> QED
    BY <1>1, <1>2, <1>3, <1>4, <1>5, <1>6, <1>7, <1>8, <1>9, <1>10, <1>11, <1>12, <1>13, SMTT(20)
    DEF Next, cominit, child

\* Every tool finds the volume as the tool before it has left it.
LEMMA VolumeStep == SetupInv /\ [Next]_vars => VolumeInv'
  <1> SUFFICES ASSUME SetupInv, [Next]_vars PROVE VolumeInv'
    OBVIOUS
  <1>0. TypeOK /\ TypeOK' /\ ChildrenInv /\ BufferInv /\ VolumeInv /\ KeyBuffersCleared
    BY TypeStep, Zenon DEF SetupInv
  <1> USE <1>0, SizeAssumption, KeyAssumption
      DEF ChildrenInv, BufferInv, VolumeInv, TypeOK, Tools, Contents, KidStates, Alive, Exited,
          config, pipe, volume, RunNext, Return
  <1>1. CASE cominitSecurememoryEsysUnseal
    BY <1>1, SMTT(20) DEF cominitSecurememoryEsysUnseal, cominitSecurememoryZeroOut
  <1>2. CASE cominitKeyringGetKey
    BY <1>2, Sizes, SMTT(20) DEF cominitKeyringGetKey
  <1>3. CASE fork
    BY <1>3 DEF fork, AfterFork, cominitSecurememoryZeroOut
  <1>4. CASE write
    BY <1>4, SMTT(20) DEF write
  <1>5. CASE close
    BY <1>5 DEF close, cominitSecurememoryZeroOut
  <1>6. CASE waitpid
    BY <1>6, SMTT(20) DEF waitpid, NextTool, Succeeded, cominitSecurememoryZeroOut
  <1>7. CASE cominitTpmMountSecureStorage
    BY <1>7, SMTT(20) DEF cominitTpmMountSecureStorage, Mountable, cominitMkdir
  <1>8. ASSUME NEW t \in Tools, dup2(t) PROVE VolumeInv'
    BY <1>8, SMTT(20) DEF dup2, Exit, ChildEnds
  <1>9. ASSUME NEW t \in Tools, execve(t) PROVE VolumeInv'
    BY <1>9, SMTT(20) DEF execve, Exit
  <1>10. CASE readStdin
    BY <1>10, SMTT(20) DEF readStdin
  <1>11. CASE luksFormat
    BY <1>11 DEF luksFormat, Exit
  <1>12. ASSUME NEW t \in Tools, t # "luksFormat", ToolWorks(t) PROVE VolumeInv'
    BY <1>12, ZenonT(30) DEF ToolWorks, Made, Mapped, Possible
  <1>13. CASE UNCHANGED vars
    BY <1>13 DEF vars
  <1> QED
    BY <1>1, <1>2, <1>3, <1>4, <1>5, <1>6, <1>7, <1>8, <1>9, <1>10, <1>11, <1>12, <1>13, ZenonT(30)
    DEF Next, cominit, child

\* A buffer that was locked is zeroed before it is freed.
LEMMA ClearedStep == SetupInv /\ [Next]_vars => KeyBuffersCleared'
  <1> SUFFICES ASSUME SetupInv, [Next]_vars PROVE KeyBuffersCleared'
    OBVIOUS
  <1>0. TypeOK /\ TypeOK' /\ ChildrenInv /\ BufferInv /\ VolumeInv /\ KeyBuffersCleared
    BY TypeStep, Zenon DEF SetupInv
  <1> USE <1>0, SizeAssumption, KeyAssumption
      DEF KeyBuffersCleared, BufferInv, TypeOK, Tools, Contents, KidStates, Alive, Exited,
          config, pipe, volume, RunNext, Return
  <1>1. CASE cominitSecurememoryEsysUnseal
    BY <1>1 DEF cominitSecurememoryEsysUnseal, cominitSecurememoryZeroOut
  <1>2. CASE cominitKeyringGetKey
    BY <1>2, Sizes DEF cominitKeyringGetKey
  <1>3. CASE fork
    BY <1>3 DEF fork, AfterFork, cominitSecurememoryZeroOut
  <1>4. CASE write
    BY <1>4 DEF write
  <1>5. CASE close
    BY <1>5 DEF close, cominitSecurememoryZeroOut
  <1>6. CASE waitpid
    BY <1>6 DEF waitpid, NextTool, Succeeded, cominitSecurememoryZeroOut
  <1>7. CASE cominitTpmMountSecureStorage
    BY <1>7 DEF cominitTpmMountSecureStorage, Mountable, cominitMkdir
  <1>8. ASSUME NEW t \in Tools, dup2(t) PROVE KeyBuffersCleared'
    BY <1>8 DEF dup2, Exit, ChildEnds
  <1>9. ASSUME NEW t \in Tools, execve(t) PROVE KeyBuffersCleared'
    BY <1>9 DEF execve, Exit
  <1>10. CASE readStdin
    BY <1>10 DEF readStdin
  <1>11. CASE luksFormat
    BY <1>11 DEF luksFormat, Exit
  <1>12. ASSUME NEW t \in Tools, t # "luksFormat", ToolWorks(t) PROVE KeyBuffersCleared'
    BY <1>12 DEF ToolWorks, Made, Mapped, Possible
  <1>13. CASE UNCHANGED vars
    BY <1>13 DEF vars
  <1> QED
    BY <1>1, <1>2, <1>3, <1>4, <1>5, <1>6, <1>7, <1>8, <1>9, <1>10, <1>11, <1>12, <1>13
    DEF Next, cominit, child

-----------------------------------------------------------------------------
\* The inductive invariant holds for every size of a size_t and of a pipe, whatever fails.
THEOREM SetupInvariant == Spec => []SetupInv
  <1>1. SetupInv /\ [Next]_vars => SetupInv'
    BY TypeStep, ChildrenStep, BufferStep, VolumeStep, ClearedStep DEF SetupInv
  <1> QED
    BY <1>1, InitInv, PTL DEF Spec

\* luksFormat gets the sealed passphrase or none, although a size of -1 is not noticed.
THEOREM OnlyTheKey == Spec => []FormattedWithKey
  <1>1. SetupInv => FormattedWithKey
    BY KeyAssumption DEF SetupInv, TypeOK, Contents, BufferInv, FormattedWithKey
  <1> QED
    BY <1>1, SetupInvariant, PTL

\* The tools run one after the other, and the mount after them, although a child is not
\* waited for when its passphrase could not be written.
THEOREM OneTool == Spec => []OneToolAtATime
  <1>1. SetupInv => OneToolAtATime
    BY KeyAssumption, SMTT(20) DEF SetupInv, TypeOK, ChildrenInv, VolumeInv, OneToolAtATime, Tools, Alive, Exited, KidStates
  <1> QED
    BY <1>1, SetupInvariant, PTL

\* In the first boot every tool starts from what the tool before it has finished; in a later
\* one only luksOpen runs, whatever volume it finds.
THEOREM Sequence == Spec => []ToolsInSequence
  <1>1. SetupInv => ToolsInSequence
    BY KeyAssumption DEF SetupInv, TypeOK, ChildrenInv, BufferInv, VolumeInv, ToolsInSequence, Tools
  <1> QED
    BY <1>1, SetupInvariant, PTL

\* What cominitTpmMountSecureStorage() mounts has been formatted with the sealed passphrase
\* by tools that have all ended.
THEOREM OnlyCompleteIsMounted == Spec => []MountedIsComplete
  <1>1. SetupInv => MountedIsComplete
    BY KeyAssumption DEF SetupInv, TypeOK, ChildrenInv, VolumeInv, MountedIsComplete, Tools, Alive, Exited, KidStates
  <1> QED
    BY <1>1, SetupInvariant, PTL

\* The passphrase is in no memory that has been freed, unless that memory could not be locked;
\* the passphrase is then of no use to the boot.
THEOREM BuffersAreCleared == Spec => []KeyBuffersCleared
  <1>1. SetupInv => KeyBuffersCleared
    BY KeyAssumption DEF SetupInv
  <1> QED
    BY <1>1, SetupInvariant, PTL

\* Who can have the write end of the pipe open.
LEMMA PipeStep == SetupInv /\ PipeInv /\ [Next]_vars => PipeInv'
  <1> SUFFICES ASSUME SetupInv, PipeInv, [Next]_vars PROVE PipeInv'
    OBVIOUS
  <1>0. kid \in [Tools -> KidStates] /\ (pc = "spawn" => tool \in Tools)
    BY DEF SetupInv, TypeOK, ChildrenInv
  <1> USE <1>0 DEF PipeInv, Tools, config, pipe, volume, RunNext, Return
  <1>1. CASE cominitSecurememoryEsysUnseal BY <1>1 DEF cominitSecurememoryEsysUnseal
  <1>2. CASE cominitKeyringGetKey BY <1>2 DEF cominitKeyringGetKey
  <1>3. CASE fork
    <2>1. CASE tool = "luksFormat" BY <1>3, <2>1, ZenonT(30) DEF fork
    <2>2. CASE tool # "luksFormat" BY <1>3, <2>2, ZenonT(30) DEF fork, AfterFork
    <2> QED BY <2>1, <2>2
  <1>4. CASE write BY <1>4 DEF write
  <1>5. CASE close BY <1>5 DEF close
  <1>6. CASE waitpid
    <2>1. kid["luksFormat"] = "forked" => kid'["luksFormat"] = "forked"
      BY <1>6 DEF waitpid, Exited
    <2> QED BY <1>6, <2>1 DEF waitpid
  <1>7. CASE cominitTpmMountSecureStorage BY <1>7 DEF cominitTpmMountSecureStorage
  <1>8. ASSUME NEW t \in Tools, dup2(t) PROVE PipeInv'
    BY <1>8, ZenonT(30) DEF dup2, Exit, ChildEnds
  <1>9. ASSUME NEW t \in Tools, execve(t) PROVE PipeInv'
    BY <1>9, ZenonT(30) DEF execve, Exit
  <1>10. CASE readStdin BY <1>10 DEF readStdin
  <1>11. CASE luksFormat BY <1>11, ZenonT(30) DEF luksFormat, Exit
  <1>12. ASSUME NEW t \in Tools, ToolWorks(t) PROVE PipeInv'
    BY <1>12 DEF ToolWorks
  <1>13. CASE UNCHANGED vars BY <1>13 DEF vars
  <1> QED
    BY <1>1, <1>2, <1>3, <1>4, <1>5, <1>6, <1>7, <1>8, <1>9, <1>10, <1>11, <1>12, <1>13, Zenon
       DEF Next, cominit, child

\* No process waits for one that waits for it: cominit's child is there, and the end of its
\* input comes.
THEOREM NobodyIsStuck == Spec => []NoCircularWait
  <1>1. Init => PipeInv
    BY DEF Init, PipeInv
  <1>2. SetupInv /\ PipeInv => NoCircularWait
    BY DEF SetupInv, ChildrenInv, PipeInv, NoCircularWait
  <1> QED
    BY <1>1, <1>2, PipeStep, SetupInvariant, PTL DEF Spec

\* How far each point of cominit, each tool and each state of a child is from the end.
LEMMA CominitWeights ==
    /\ \A p \in Points : CominitAhead[p] \in 0 .. 28
    /\ CominitAhead["done"] = 0 /\ CominitAhead["mount"] = 1 /\ CominitAhead["wait"] = 2
    /\ CominitAhead["close"] = 3 /\ CominitAhead["badclose"] = 3 /\ CominitAhead["write"] = 5
    /\ CominitAhead["spawn"] = 6 /\ CominitAhead["getkey"] = 27 /\ CominitAhead["unseal"] = 28
  BY SMTT(30) DEF CominitAhead, Points

LEMMA ToolWeights ==
    /\ \A t \in Tools \cup {"none"} : ToolsAhead[t] \in 0 .. 4
    /\ ToolsAhead["luksFormat"] = 4 /\ ToolsAhead["token"] = 3 /\ ToolsAhead["luksOpen"] = 2
    /\ ToolsAhead["mkfs"] = 1 /\ ToolsAhead["none"] = 0
  BY SMTT(30) DEF ToolsAhead, Tools

LEMMA ChildWeights ==
    /\ \A k \in KidStates : ChildAhead[k] \in 0 .. 5
    /\ ChildAhead["none"] = 5 /\ ChildAhead["forked"] = 4 /\ ChildAhead["exec"] = 3
    /\ ChildAhead["reading"] = 2 /\ ChildAhead["working"] = 1
    /\ ChildAhead["ok"] = 0 /\ ChildAhead["failed"] = 0 /\ ChildAhead["reaped"] = 0
  BY SMTT(30) DEF ChildAhead, KidStates, Alive, Exited

\* A step of one child changes the distance by what it changes for that child.
LEMMA KidMoves ==
  ASSUME NEW t \in Tools, NEW s \in KidStates, kid \in [Tools -> KidStates],
         kid' = [kid EXCEPT ![t] = s]
  PROVE  /\ KidsAhead \in 0 .. 20
         /\ KidsAhead' = KidsAhead + ChildAhead[s] - ChildAhead[kid[t]]
  <1>1. \A u \in Tools : ChildAhead[kid[u]] \in 0 .. 5
    BY ChildWeights
  <1>2. ChildAhead[s] \in 0 .. 5
    BY ChildWeights
  <1>3. \A u \in Tools : kid'[u] = IF u = t THEN s ELSE kid[u]
    OBVIOUS
  <1> HIDE DEF ChildAhead
  <1> QED
    BY <1>1, <1>2, <1>3, SMTT(20) DEF KidsAhead, Tools

\* Each step of cominit and of a child brings the end closer.
LEMMA StepsCount == SetupInv /\ [Next]_vars => [StepsLeft' < StepsLeft]_vars
  <1> SUFFICES ASSUME SetupInv, Next PROVE StepsLeft' < StepsLeft
    OBVIOUS
  <1>0. /\ kid \in [Tools -> KidStates] /\ pc \in Points /\ tool \in Tools \cup {"none"}
        /\ pc \in {"spawn", "wait"} => tool \in Tools
        /\ pc = "spawn" => kid[tool] = "none"
        /\ pc \in {"write", "badclose"} => tool = "luksFormat" /\ pipeData = NoKey
    BY DEF SetupInv, TypeOK, ChildrenInv
  <1>a. KidsAhead \in 0 .. 20
    BY <1>0, ChildWeights DEF KidsAhead, Tools
  <1>b. CominitAhead[pc] \in 0 .. 28 /\ ToolsAhead[tool] \in 0 .. 4
    BY <1>0, CominitWeights, ToolWeights
  <1>c. kid' = kid => KidsAhead' = KidsAhead
    BY DEF KidsAhead
  <1> USE <1>a, <1>b, CominitWeights, ToolWeights, ChildWeights
      DEF StepsLeft, config, pipe, volume, RunNext, Return
  <1>1. CASE cominitSecurememoryEsysUnseal
    BY <1>1, <1>c DEF cominitSecurememoryEsysUnseal
  <1>2. CASE cominitKeyringGetKey
    BY <1>2, <1>c DEF cominitKeyringGetKey
  <1>3. CASE fork
    <2>1. ASSUME kid' = [kid EXCEPT ![tool] = "forked"] PROVE KidsAhead' = KidsAhead - 1
      <3>1. tool \in Tools /\ kid[tool] = "none" /\ "forked" \in KidStates
        BY <1>0, <1>3 DEF fork, KidStates, Alive
      <3>2. KidsAhead' = KidsAhead + ChildAhead["forked"] - ChildAhead[kid[tool]]
        BY <1>0, <2>1, <3>1, KidMoves, Zenon
      <3> QED
        BY <3>1, <3>2
    <2> QED
      BY <1>0, <1>3, <1>c, <2>1 DEF fork, AfterFork
  <1>4. CASE write
    BY <1>0, <1>4, <1>c DEF write
  <1>5. CASE close
    BY <1>5, <1>c DEF close
  <1>6. CASE waitpid
    <2>1. tool \in Tools /\ kid' = [kid EXCEPT ![tool] = "reaped"] /\ kid[tool] \in Exited
      BY <1>0, <1>6 DEF waitpid
    <2>2. KidsAhead' = KidsAhead
      <3>1. "reaped" \in KidStates
        BY DEF KidStates
      <3>2. KidsAhead' = KidsAhead + ChildAhead["reaped"] - ChildAhead[kid[tool]]
        BY <1>0, <2>1, <3>1, KidMoves, Zenon
      <3> QED
        BY <2>1, <3>2 DEF Exited
    <2>3. /\ NextTool(tool) \in Tools \cup {"none"}
          /\ ToolsAhead[NextTool(tool)] < ToolsAhead[tool]
      BY <2>1 DEF NextTool, Tools
    <2> QED
      BY <1>6, <2>1, <2>2, <2>3 DEF waitpid
  <1>7. CASE cominitTpmMountSecureStorage
    BY <1>7, <1>c DEF cominitTpmMountSecureStorage
  <1>8. ASSUME NEW t \in Tools, NEW s \in KidStates, kid' = [kid EXCEPT ![t] = s],
               ChildAhead[s] < ChildAhead[kid[t]], UNCHANGED <<pc, tool, pipeData>>
        PROVE  StepsLeft' < StepsLeft
    <2>1. ChildAhead[s] \in 0 .. 5 /\ ChildAhead[kid[t]] \in 0 .. 5
      BY <1>0
    <2>2. KidsAhead' = KidsAhead + ChildAhead[s] - ChildAhead[kid[t]]
      BY <1>0, <1>8, KidMoves, Zenon
    <2>3. KidsAhead' < KidsAhead /\ KidsAhead' \in Int
      BY <1>8, <2>1, <2>2
    <2>4. CominitAhead[pc'] = CominitAhead[pc] /\ ToolsAhead[tool'] = ToolsAhead[tool]
      BY <1>8
    <2> QED
      BY <1>8, <2>3, <2>4
  <1>9. ASSUME NEW t \in Tools, dup2(t) PROVE StepsLeft' < StepsLeft
    BY <1>8, <1>9 DEF dup2, Exit, KidStates, Alive, Exited
  <1>10. ASSUME NEW t \in Tools, execve(t) PROVE StepsLeft' < StepsLeft
    BY <1>8, <1>10 DEF execve, Exit, KidStates, Alive, Exited
  <1>11. CASE readStdin
    <2>1. CASE pipeData # NoKey
      BY <1>11, <1>c, <2>1 DEF readStdin
    <2>2. CASE pipeData = NoKey
      BY <1>8, <1>11, <2>2 DEF readStdin, KidStates, Alive, Tools
    <2> QED
      BY <2>1, <2>2
  <1>12. CASE luksFormat
    BY <1>8, <1>12 DEF luksFormat, Exit, KidStates, Exited, Tools
  <1>13. ASSUME NEW t \in Tools, ToolWorks(t) PROVE StepsLeft' < StepsLeft
    BY <1>8, <1>13 DEF ToolWorks, KidStates, Exited
  <1> QED
    BY <1>1, <1>2, <1>3, <1>4, <1>5, <1>6, <1>7, <1>9, <1>10, <1>11, <1>12, <1>13, Zenon
       DEF Next, cominit, child

\* Cominit and its children come to their end after a bounded number of steps, in whatever
\* order they are scheduled.
THEOREM SetupBounded == Spec => SetupIsBounded
  <1>1. Init => StepsLeft = 48
    <2> SUFFICES ASSUME Init PROVE StepsLeft = 48
      OBVIOUS
    <2>1. \A t \in Tools : kid[t] = "none"
      BY DEF Init
    <2>2. KidsAhead = 20
      BY <2>1, ChildWeights DEF KidsAhead, Tools
    <2> QED
      BY <2>2, CominitWeights, ToolWeights DEF Init, StepsLeft
  <1>2. SetupInv => StepsLeft \in Nat
    <2> SUFFICES ASSUME TypeOK PROVE StepsLeft \in Nat
      BY DEF SetupInv
    <2>1. KidsAhead \in Nat
      BY ChildWeights DEF TypeOK, KidsAhead, Tools
    <2>2. CominitAhead[pc] \in Nat /\ ToolsAhead[tool] \in Nat
      BY CominitWeights, ToolWeights DEF TypeOK
    <2> QED
      BY <2>1, <2>2 DEF StepsLeft
  <1>3. /\ StepsLeft \in Nat /\ (StepsLeft \in Nat)' /\ StepsLeft \in 0 .. 48
        /\ [StepsLeft' < StepsLeft]_vars
        => (StepsLeft \in 0 .. 48)'
    <2>1. vars' = vars => StepsLeft' = StepsLeft
      BY DEF vars, StepsLeft, KidsAhead
    <2> QED
      BY <2>1
  <1>4. StepsLeft = 48 => StepsLeft \in 0 .. 48
    OBVIOUS
  <1> QED
    BY <1>1, <1>2, <1>3, <1>4, StepsCount, SetupInvariant, PTL DEF Spec, SetupIsBounded
==============================================================================
