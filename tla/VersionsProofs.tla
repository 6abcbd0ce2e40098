--------------------------- MODULE VersionsProofs ---------------------------
(***************************************************************************)
(* No quote version is signed twice, for any number of processes, runs,    *)
(* kills and power losses.                                                 *)
(*                                                                         *)
(* The argument: every signed version lies before both the file and what   *)
(* survives a power loss (UsedIsDurable).  A process that holds the lock   *)
(* agrees with the file, so that the version it takes is the file's and    *)
(* has not been used; it signs only after the successor is durable.  The   *)
(* lock keeps all others idle meanwhile.                                   *)
(***************************************************************************)
EXTENDS Versions, TLAPS

\* The labels at which a process has read the configuration and may go on.
Active == {"prepare", "save", "rename", "syncdir", "sign", "receipt", "wait"}
\* ... has taken a version and not used it yet,
Taken == {"save", "rename", "syncdir", "sign"}
\* ... and has not yet put the new configuration in its place.
Saving == {"save", "rename"}

\* What a process knows at its label.
ProcAgrees(p) ==
  /\ pc[p] # "idle" => lock = p
  /\ pc[p] \in Active \union {"read"} => loc[p].left >= 1
  /\ pc[p] \in Active => loc[p].mem \in NextVersions
  /\ pc[p] \in Active \ Saving => loc[p].mem = file
  /\ pc[p] \in Taken => loc[p].ver \in Frames /\ used[loc[p].ver] = 0
  /\ pc[p] \in Saving => loc[p].ver = file
  /\ pc[p] \in Taken => /\ loc[p].mem.major = loc[p].ver.major
                        /\ loc[p].mem.minor = loc[p].ver.minor + 1
  /\ pc[p] = "sign" => Before(loc[p].ver, disk)

\* The durable version is never ahead of the file.
DiskAgrees == synced /\ ~ Before(file, disk)

VersionInv ==
  /\ TypeOK
  /\ DiskAgrees
  /\ UsedIsDurable
  /\ VersionUsedOnce
  /\ \A p \in Procs : ProcAgrees(p)

-----------------------------------------------------------------------------
\* A configuration that was read is not a torn one.
LEMMA TornIsNoVersion == Torn \notin NextVersions
BY VersionsAssumption DEF Torn, NextVersions

\* A version that is not exhausted goes unchanged through the conversion of
\* prepareNextQuote.
LEMMA FrameOf ==
  ASSUME NEW v \in NextVersions, v.minor <= MaxMinor
  PROVE  ToFrame(v) = v /\ v \in Frames
<1>1. v.minor \in 0 .. MaxMinor
  BY VersionsAssumption DEF NextVersions
<1>2. v.minor % (MaxMinor + 1) = v.minor
  BY <1>1, VersionsAssumption
<1> QED
  BY <1>1, <1>2 DEF ToFrame, NextVersions, Frames

\* VersionInv holds before the first run.
LEMMA VersionsInit == Init => VersionInv
<1> SUFFICES ASSUME Init PROVE VersionInv
  OBVIOUS
<1>1. TypeOK
  BY VersionsAssumption DEF Init, TypeOK, NextVersions, Labels, Locals, NoLocals
<1>2. DiskAgrees /\ UsedIsDurable /\ VersionUsedOnce
  BY VersionsAssumption DEF Init, DiskAgrees, Before, UsedIsDurable, VersionUsedOnce
<1>3. \A p \in Procs : ProcAgrees(p)
  BY DEF Init, ProcAgrees, Active, Taken, Saving
<1> QED
  BY <1>1, <1>2, <1>3 DEF VersionInv

\* While a process is not idle, every other one is.
LEMMA OthersIdle ==
  ASSUME VersionInv, NEW p \in Procs, pc[p] # "idle", NEW q \in Procs, q # p
  PROVE  pc[q] = "idle"
BY DEF VersionInv, ProcAgrees

\* A process that has nothing in memory knows nothing.
LEMMA IdleAgrees ==
  ASSUME NEW q \in Procs, pc'[q] = "idle"
  PROVE  ProcAgrees(q)'
BY DEF ProcAgrees, Active, Taken, Saving

\* What is used stays behind a file and a disk that only advance.
LEMMA StillDurable ==
  ASSUME VersionInv, UNCHANGED used,
         file' \in NextVersions, disk' \in NextVersions,
         ~ Before(file', disk), ~ Before(disk', disk)
  PROVE  UsedIsDurable' /\ VersionUsedOnce'
BY DEF VersionInv, TypeOK, UsedIsDurable, VersionUsedOnce, Before, NextVersions, Frames

-----------------------------------------------------------------------------
\* Taking the lock and reading the configuration.
LEMMA LockStep ==
  ASSUME VersionInv, NEW p \in Procs, Lock(p)
  PROVE  VersionInv'
<1> USE DEF Lock, Goto
<1>0. PICK mode \in Modes, count \in 1 .. MaxCount :
        loc' = [loc EXCEPT ![p] = [NoLocals EXCEPT !.mode = mode, !.left = count]]
  OBVIOUS
<1>a. [NoLocals EXCEPT !.mode = mode, !.left = count] \in Locals
  <2>1. NoLocals \in Locals
    BY VersionsAssumption DEF Locals, NoLocals
  <2>2. mode \in Modes \union {"load"} /\ count \in 0 .. MaxCount
    BY VersionsAssumption
  <2> QED
    BY <2>1, <2>2 DEF Locals
<1>1. TypeOK'
  BY <1>0, <1>a DEF VersionInv, TypeOK, reservation, Labels
<1>2. DiskAgrees' /\ UsedIsDurable' /\ VersionUsedOnce'
  BY DEF VersionInv, reservation, DiskAgrees, UsedIsDurable, VersionUsedOnce
<1>3. ProcAgrees(p)'
  BY <1>0 DEF VersionInv, TypeOK, ProcAgrees, Active, Taken, Saving, NoLocals
<1>4. ASSUME NEW q \in Procs, q # p PROVE ProcAgrees(q)'
  BY <1>4, IdleAgrees, ProcsAssumption DEF VersionInv, TypeOK, ProcAgrees
<1> QED
  BY <1>1, <1>2, <1>3, <1>4 DEF VersionInv

\* readConfig: memory agrees with the file, or the run ends.
LEMMA ReadStep ==
  ASSUME VersionInv, NEW p \in Procs, ReadConfig(p)
  PROVE  VersionInv'
<1> USE DEF ReadConfig, Goto
<1>1. TypeOK'
  BY DEF VersionInv, TypeOK, reservation, Labels, Locals
<1>2. DiskAgrees' /\ UsedIsDurable' /\ VersionUsedOnce'
  BY DEF VersionInv, reservation, DiskAgrees, UsedIsDurable, VersionUsedOnce
<1>3. ProcAgrees(p)'
  <2>1. /\ pc'[p] \in {"prepare", "unlock"} /\ lock' = p
        /\ loc'[p].mem = file /\ loc'[p].left = loc[p].left /\ file' = file
    BY DEF VersionInv, TypeOK, ProcAgrees, reservation, Locals
  <2> QED
    BY <2>1 DEF VersionInv, TypeOK, ProcAgrees, Active, Taken, Saving
<1>4. ASSUME NEW q \in Procs, q # p PROVE ProcAgrees(q)'
  BY <1>4, OthersIdle, IdleAgrees DEF VersionInv, TypeOK
<1> QED
  BY <1>1, <1>2, <1>3, <1>4 DEF VersionInv

\* A step that changes nothing but the label: an error return, the private
\* temporary file, a receipt.
LEMMA QuietStep ==
  ASSUME VersionInv, NEW p \in Procs, NEW label \in Labels, pc[p] # "idle",
         Goto(p, label), UNCHANGED << lock, reservation, pending, used, loc >>,
         \/ label = "unlock"
         \/ pc[p] = "save" /\ label = "rename"
         \/ pc[p] = "receipt" /\ label = "wait"
  PROVE  VersionInv'
<1> USE DEF Goto
<1>1. TypeOK'
  BY DEF VersionInv, TypeOK, reservation
<1>2. DiskAgrees' /\ UsedIsDurable' /\ VersionUsedOnce'
  BY DEF VersionInv, reservation, DiskAgrees, UsedIsDurable, VersionUsedOnce
<1>3. ProcAgrees(p)'
  BY DEF VersionInv, TypeOK, ProcAgrees, reservation, Active, Taken, Saving
<1>4. ASSUME NEW q \in Procs, q # p PROVE ProcAgrees(q)'
  BY <1>4, OthersIdle, IdleAgrees DEF VersionInv, TypeOK
<1> QED
  BY <1>1, <1>2, <1>3, <1>4 DEF VersionInv

\* reserveVersion, up to the save: the version taken is the one of the file, and
\* no frame has it.
LEMMA ReserveStep ==
  ASSUME VersionInv, NEW p \in Procs, Reserve(p)
  PROVE  VersionInv'
<1> USE DEF Reserve
<1>1. CASE loc[p].mem.minor > MaxMinor
  BY <1>1, QuietStep DEF Labels
<1>2. CASE ~ (loc[p].mem.minor > MaxMinor)
  <2> DEFINE m == loc[p].mem
             n == [m EXCEPT !.minor = @ + 1]
  <2>1. m \in NextVersions /\ m = file /\ m.minor <= MaxMinor /\ m \in Frames /\ ToFrame(m) = m
    BY <1>2, FrameOf, VersionsAssumption
    DEF VersionInv, ProcAgrees, Active, Saving, NextVersions
  <2>2. n \in NextVersions /\ n.major = m.major /\ n.minor = m.minor + 1
    BY <2>1, VersionsAssumption DEF NextVersions
  <2>3. /\ loc' = [loc EXCEPT ![p] = [loc[p] EXCEPT !.mem = n, !.ver = m]]
        /\ pc' = [pc EXCEPT ![p] = "save"]
    BY <1>2, <2>1 DEF Goto, VersionInv, TypeOK, Locals
  <2>4. TypeOK'
    BY <2>1, <2>2, <2>3 DEF VersionInv, TypeOK, reservation, Labels, Locals
  <2>5. DiskAgrees' /\ UsedIsDurable' /\ VersionUsedOnce'
    BY DEF VersionInv, reservation, DiskAgrees, UsedIsDurable, VersionUsedOnce
  <2>6. used[m] = 0
    <3>1. ~ Before(m, m)
      BY <2>1 DEF Before, NextVersions
    <3>2. used[m] \in Nat
      BY <2>1 DEF VersionInv, TypeOK
    <3>3. ~ (used[m] > 0)
      BY <2>1, <3>1 DEF VersionInv, UsedIsDurable
    <3> QED
      BY <3>2, <3>3
  <2>7. /\ pc'[p] = "save" /\ loc'[p].mem = n /\ loc'[p].ver = m
        /\ loc'[p].left = loc[p].left /\ lock' = lock /\ file' = file /\ used' = used
    BY <2>3 DEF VersionInv, TypeOK, reservation, Locals
  <2>8. ProcAgrees(p)'
    BY <2>1, <2>2, <2>6, <2>7
    DEF VersionInv, ProcAgrees, Active, Taken, Saving
  <2>9. ASSUME NEW q \in Procs, q # p PROVE ProcAgrees(q)'
    BY <2>3, <2>9, OthersIdle, IdleAgrees DEF VersionInv, TypeOK
  <2> QED
    BY <2>4, <2>5, <2>8, <2>9 DEF VersionInv
<1> QED
  BY <1>1, <1>2

\* The rename in atomicJSON advances the file and leaves the disk behind.
LEMMA RenameStep ==
  ASSUME VersionInv, NEW p \in Procs, Rename(p)
  PROVE  VersionInv'
<1> USE DEF Rename, Goto
<1>1. /\ loc[p].mem \in NextVersions /\ loc[p].ver = file /\ Before(file, loc[p].mem)
      /\ ~ Before(loc[p].mem, disk)
  BY DEF VersionInv, TypeOK, DiskAgrees, ProcAgrees, Active, Taken, Saving, Before,
         NextVersions, Frames
<1>2. TypeOK'
  BY <1>1 DEF VersionInv, TypeOK, Labels
<1>3. DiskAgrees' /\ UsedIsDurable' /\ VersionUsedOnce'
  BY <1>1, <1>2, StillDurable DEF VersionInv, TypeOK, DiskAgrees, Before, NextVersions
<1>4. ProcAgrees(p)'
  BY <1>1 DEF VersionInv, TypeOK, ProcAgrees, Active, Taken, Saving
<1>5. ASSUME NEW q \in Procs, q # p PROVE ProcAgrees(q)'
  BY <1>5, OthersIdle, IdleAgrees DEF VersionInv, TypeOK
<1> QED
  BY <1>2, <1>3, <1>4, <1>5 DEF VersionInv

\* The directory is synced: from here on the version is behind the disk.
LEMMA SyncStep ==
  ASSUME VersionInv, NEW p \in Procs, SyncDirectory(p)
  PROVE  VersionInv'
<1> USE DEF SyncDirectory, Goto
<1>1. disk' = file /\ ~ Before(file, disk) /\ ~ Before(file, file)
  BY DEF VersionInv, TypeOK, DiskAgrees, Before, NextVersions
<1>2. TypeOK'
  BY <1>1 DEF VersionInv, TypeOK, Labels
<1>3. DiskAgrees' /\ UsedIsDurable' /\ VersionUsedOnce'
  BY <1>1, <1>2, StillDurable DEF VersionInv, TypeOK, DiskAgrees
<1>4. Before(loc[p].ver, file)
  BY DEF VersionInv, TypeOK, ProcAgrees, Active, Taken, Saving, Before, NextVersions, Frames
<1>5. ProcAgrees(p)'
  BY <1>1, <1>4 DEF VersionInv, TypeOK, ProcAgrees, Active, Taken, Saving
<1>6. ASSUME NEW q \in Procs, q # p PROVE ProcAgrees(q)'
  BY <1>6, OthersIdle, IdleAgrees DEF VersionInv, TypeOK
<1> QED
  BY <1>2, <1>3, <1>5, <1>6 DEF VersionInv

\* A failed save takes the version back in memory only.
LEMMA SaveFailsStep ==
  ASSUME VersionInv, NEW p \in Procs, SaveFails(p)
  PROVE  VersionInv'
<1> USE DEF SaveFails, Goto
<1> DEFINE n == [loc[p].mem EXCEPT !.minor = @ - 1]
<1>1. n \in NextVersions
  BY VersionsAssumption DEF VersionInv, ProcAgrees, Active, Taken, NextVersions, Frames
<1>2. loc' = [loc EXCEPT ![p] = [loc[p] EXCEPT !.mem = n]]
  BY DEF VersionInv, TypeOK, Locals
<1>3. TypeOK'
  BY <1>1, <1>2 DEF VersionInv, TypeOK, reservation, Labels, Locals
<1>4. DiskAgrees' /\ UsedIsDurable' /\ VersionUsedOnce'
  BY DEF VersionInv, reservation, DiskAgrees, UsedIsDurable, VersionUsedOnce
<1>5. ProcAgrees(p)'
  BY DEF VersionInv, TypeOK, ProcAgrees, Active, Taken, Saving
<1>6. ASSUME NEW q \in Procs, q # p PROVE ProcAgrees(q)'
  BY <1>6, OthersIdle, IdleAgrees DEF VersionInv, TypeOK
<1> QED
  BY <1>3, <1>4, <1>5, <1>6 DEF VersionInv

\* Signing counts a version that is not used and already behind the disk.
LEMMA SignStep ==
  ASSUME VersionInv, NEW p \in Procs, pc[p] = "sign",
         Sign(p), UNCHANGED << lock, reservation >>, TypeOK',
         NEW label \in {"wait", "receipt", "unlock"}, Goto(p, label),
         loc'[p].mem = loc[p].mem, loc'[p].left = loc[p].left
  PROVE  VersionInv'
<1> USE DEF Sign, Goto
<1>1. /\ loc[p].ver \in Frames /\ used[loc[p].ver] = 0 /\ loc[p].mem = file
      /\ Before(loc[p].ver, disk) /\ Before(loc[p].ver, file)
  BY DEF VersionInv, TypeOK, ProcAgrees, Active, Taken, Saving, Before, NextVersions, Frames
<1>2. \A v \in Frames : used'[v] = IF v = loc[p].ver THEN 1 ELSE used[v]
  BY <1>1 DEF VersionInv, TypeOK
<1>3. DiskAgrees' /\ UsedIsDurable' /\ VersionUsedOnce'
  BY <1>1, <1>2 DEF VersionInv, reservation, DiskAgrees, UsedIsDurable, VersionUsedOnce, Before
<1>4. ProcAgrees(p)'
  BY <1>1 DEF VersionInv, TypeOK, ProcAgrees, reservation, Active, Taken, Saving
<1>5. ASSUME NEW q \in Procs, q # p PROVE ProcAgrees(q)'
  BY <1>5, OthersIdle, IdleAgrees DEF VersionInv, TypeOK
<1> QED
  BY <1>3, <1>4, <1>5 DEF VersionInv

\* Publish over the stream.
LEMMA PublishStep ==
  ASSUME VersionInv, NEW p \in Procs, Publish(p)
  PROVE  VersionInv'
<1> USE DEF Publish
<1>1. loc[p].ver \in Frames
  BY DEF VersionInv, ProcAgrees, Taken
<1>2. TypeOK'
  BY <1>1 DEF VersionInv, TypeOK, reservation, Labels, Sign, Goto
<1> QED
  BY <1>2, SignStep

\* transact, with and without NoSend.
LEMMA TransactStep ==
  ASSUME VersionInv, NEW p \in Procs, SignOnly(p) \/ Transact(p)
  PROVE  VersionInv'
<1> USE DEF SignOnly, Transact
<1>1. loc[p].ver \in Frames /\ pc[p] = "sign" /\ Sign(p) /\ loc[p] \in Locals
  BY DEF VersionInv, TypeOK, ProcAgrees, Taken
<1>2. Nonce(p) \in 0 .. MaxNonce /\ Nonce(p) + 1 \in 0 .. MaxNonce
  BY <1>1, VersionsAssumption DEF VersionInv, TypeOK, Nonce, Locals, NoNonce
<1>3. /\ loc'[p] \in Locals /\ loc'[p].mem = loc[p].mem /\ loc'[p].left = loc[p].left
      /\ loc' = [loc EXCEPT ![p] = loc'[p]]
  BY <1>1, <1>2 DEF VersionInv, TypeOK, Locals
<1>4. PICK label \in {"wait", "receipt", "unlock"} : Goto(p, label)
  OBVIOUS
<1>5. TypeOK'
  <2>1. pending' \in 0 .. MaxNonce
    BY <1>2 DEF VersionInv, TypeOK
  <2>2. used' \in [Frames -> Nat]
    BY <1>1 DEF VersionInv, TypeOK, Sign
  <2> QED
    BY <2>1, <2>2, <1>3, <1>4 DEF VersionInv, TypeOK, reservation, Labels, Goto
<1> QED
  BY <1>1, <1>3, <1>4, <1>5, SignStep

\* The loops of publish and submitOnChain go on to the next frame.
LEMMA ContinueStep ==
  ASSUME VersionInv, NEW p \in Procs, Continue(p)
  PROVE  VersionInv'
<1> USE DEF Continue, Goto
<1>1. /\ loc'[p] = [loc[p] EXCEPT !.left = @ - 1] /\ loc[p] \in Locals /\ loc[p].left >= 1
      /\ loc' = [loc EXCEPT ![p] = loc'[p]]
  BY DEF VersionInv, TypeOK, ProcAgrees, Active
<1>2. loc'[p] \in Locals /\ loc'[p].mem = loc[p].mem /\ loc'[p].left = loc[p].left - 1
  BY <1>1, VersionsAssumption DEF Locals
<1>3. TypeOK'
  BY <1>1, <1>2 DEF VersionInv, TypeOK, reservation, Labels
<1>4. DiskAgrees' /\ UsedIsDurable' /\ VersionUsedOnce'
  BY DEF VersionInv, reservation, DiskAgrees, UsedIsDurable, VersionUsedOnce
<1>5. ProcAgrees(p)'
  <2>1. pc'[p] \in {"prepare", "unlock"} /\ (pc'[p] = "prepare" => loc'[p].left >= 1)
    BY <1>1, <1>2 DEF VersionInv, TypeOK, Locals
  <2> QED
    BY <1>2, <2>1 DEF VersionInv, ProcAgrees, reservation, Active, Taken, Saving
<1>6. ASSUME NEW q \in Procs, q # p PROVE ProcAgrees(q)'
  BY <1>6, OthersIdle, IdleAgrees DEF VersionInv, TypeOK
<1> QED
  BY <1>3, <1>4, <1>5, <1>6 DEF VersionInv

\* A run ends by itself or is killed: all processes are idle then.
LEMMA LeaveStep ==
  ASSUME VersionInv, NEW p \in Procs, Unlock(p) \/ Kill(p)
  PROVE  VersionInv'
<1> USE DEF Unlock, Kill, Goto
<1>1. pc[p] # "idle" /\ pc' = [pc EXCEPT ![p] = "idle"]
  BY DEF VersionInv, TypeOK, Labels
<1>2. NoLocals \in Locals
  BY VersionsAssumption DEF Locals, NoLocals
<1>3. TypeOK'
  BY <1>1, <1>2 DEF VersionInv, TypeOK, reservation, Labels
<1>4. DiskAgrees' /\ UsedIsDurable' /\ VersionUsedOnce'
  BY DEF VersionInv, reservation, DiskAgrees, UsedIsDurable, VersionUsedOnce
<1>5. ASSUME NEW q \in Procs PROVE pc'[q] = "idle"
  BY <1>1, OthersIdle DEF VersionInv, TypeOK
<1> QED
  BY <1>3, <1>4, <1>5, IdleAgrees DEF VersionInv

\* A power loss may undo a rename, but only one whose version was not signed.
LEMMA PowerLossStep ==
  ASSUME VersionInv, PowerLoss
  PROVE  VersionInv'
<1> USE DEF PowerLoss
<1>1. file' \in {file, disk} /\ disk' = file' /\ synced'
  BY DEF VersionInv, DiskAgrees
<1>2. NoLocals \in Locals
  BY VersionsAssumption DEF Locals, NoLocals
<1>3. TypeOK'
  BY <1>1, <1>2 DEF VersionInv, TypeOK, Labels
<1>4. ~ Before(file', disk) /\ ~ Before(file', file')
  BY <1>1 DEF VersionInv, TypeOK, DiskAgrees, Before, NextVersions
<1>5. DiskAgrees' /\ UsedIsDurable' /\ VersionUsedOnce'
  BY <1>1, <1>3, <1>4, StillDurable DEF TypeOK, DiskAgrees
<1> QED
  BY <1>3, <1>5, IdleAgrees DEF VersionInv

\* The operator acts while all processes are idle.
LEMMA OperatorStep ==
  ASSUME VersionInv, RemoveStaleLock \/ SelectMajor
  PROVE  VersionInv'
<1>1. lock \notin Procs /\ lock' = Free
  BY ProcsAssumption DEF RemoveStaleLock, SelectMajor
<1>2. \A p \in Procs : pc'[p] = "idle"
  BY <1>1 DEF VersionInv, ProcAgrees, RemoveStaleLock, SelectMajor
<1>3. CASE RemoveStaleLock
  <2>1. TypeOK' /\ DiskAgrees' /\ UsedIsDurable' /\ VersionUsedOnce'
    BY <1>3 DEF VersionInv, RemoveStaleLock, TypeOK, reservation, DiskAgrees,
                UsedIsDurable, VersionUsedOnce
  <2> QED
    BY <2>1, <1>2, IdleAgrees DEF VersionInv
<1>4. CASE SelectMajor
  <2>1. /\ file' \in NextVersions /\ disk' = file' /\ synced'
        /\ file'.major = file.major + 1 /\ file'.minor = 0
    BY <1>4, VersionsAssumption DEF SelectMajor, VersionInv, TypeOK, NextVersions
  <2>2. TypeOK'
    BY <1>4, <2>1 DEF SelectMajor, VersionInv, TypeOK
  <2>3. ~ Before(file', disk) /\ ~ Before(file', file')
    BY <2>1 DEF VersionInv, TypeOK, DiskAgrees, Before, NextVersions
  <2>4. DiskAgrees' /\ UsedIsDurable' /\ VersionUsedOnce'
    BY <1>4, <2>1, <2>2, <2>3, StillDurable DEF SelectMajor, TypeOK, DiskAgrees
  <2> QED
    BY <2>2, <2>4, <1>2, IdleAgrees DEF VersionInv
<1> QED
  BY <1>3, <1>4

\* Every step preserves VersionInv.
LEMMA VersionsStep == VersionInv /\ [Next]_vars => VersionInv'
<1> SUFFICES ASSUME VersionInv, [Next]_vars PROVE VersionInv'
  OBVIOUS
<1>1. ASSUME NEW p \in Procs, Lock(p) \/ Step(p) \/ Receipt(p) \/ Kill(p)
      PROVE  VersionInv'
  <2>1. CASE Fail(p) \/ SaveTemporary(p) \/ Receipt(p)
    BY <2>1, QuietStep DEF Fail, SaveTemporary, Receipt, Labels
  <2> QED
    BY <1>1, <2>1, LockStep, ReadStep, ReserveStep, RenameStep, SyncStep, SaveFailsStep,
       PublishStep, TransactStep, ContinueStep, LeaveStep DEF Step
<1>2. CASE PowerLoss \/ RemoveStaleLock \/ SelectMajor
  BY <1>2, PowerLossStep, OperatorStep
<1>3. CASE UNCHANGED vars
  BY <1>3 DEF vars, reservation, VersionInv, TypeOK, DiskAgrees, UsedIsDurable,
              VersionUsedOnce, ProcAgrees
<1> QED
  BY <1>1, <1>2, <1>3 DEF Next

-----------------------------------------------------------------------------
\* VersionInv is an invariant of the processes, the machine and the operator.
THEOREM VersionsInvariance == Spec => []VersionInv
BY VersionsInit, VersionsStep, PTL DEF Spec

\* The type invariant, with the width of a minor version and a configuration that
\* no power loss tears.
THEOREM VersionsTyping == Spec => []TypeOK
<1>1. VersionInv => TypeOK
  BY DEF VersionInv
<1> QED
  BY <1>1, VersionsInvariance, PTL

\* No version is signed twice, through any number of kills and power losses.
THEOREM SignedOnce == Spec => []VersionUsedOnce
<1>1. VersionInv => VersionUsedOnce
  BY DEF VersionInv
<1> QED
  BY <1>1, VersionsInvariance, PTL

\* At most one process is past lockConfig, and the lock file is its own.
THEOREM Exclusion == Spec => []OneHolder
<1>1. VersionInv => OneHolder
  BY DEF VersionInv, ProcAgrees, OneHolder
<1> QED
  BY <1>1, VersionsInvariance, PTL

\* Whatever was signed is behind the version that survives a power loss.
THEOREM DurableUse == Spec => []UsedIsDurable
<1>1. VersionInv => UsedIsDurable
  BY DEF VersionInv
<1> QED
  BY <1>1, VersionsInvariance, PTL

-----------------------------------------------------------------------------
(* The nonces of one run *)

\* What a run knows of the nonces that it signed with: the node counted those it
\* broadcast, opts.Nonce has moved beyond those it kept, and a run that only loads
\* the configuration signs nothing.
NonceAgrees(p) ==
  pc[p] \in Active \union {"read"} =>
    /\ loc[p].mode = "load" => pc[p] = "read"
    /\ loc[p].mode = "onchain" =>
         loc[p].nonce = NoNonce /\ \A n \in loc[p].nonces : n < pending
    /\ loc[p].mode = "nosend" =>
         IF loc[p].nonce = NoNonce THEN loc[p].nonces = {}
         ELSE \A n \in loc[p].nonces : n < loc[p].nonce

NonceInv == \A p \in Procs : NonceAgrees(p)

\* A nonce that a run is about to use is above all those it has used.
LEMMA NonceIsNew ==
  ASSUME VersionInv, NEW p \in Procs, NonceAgrees(p), pc[p] = "sign",
         loc[p].mode # "stream"
  PROVE  /\ Nonce(p) \in 0 .. MaxNonce
         /\ \A n \in loc[p].nonces : n < Nonce(p)
<1>1. loc[p] \in Locals /\ pending \in 0 .. MaxNonce
  BY DEF VersionInv, TypeOK
<1>2. loc[p].mode \in {"onchain", "nosend"}
  BY <1>1, VersionsAssumption DEF NonceAgrees, Active, Locals
<1> QED
  BY <1>1, <1>2 DEF NonceAgrees, Active, Locals, Nonce, NoNonce

\* Signing moves the bound beyond the nonce it used.
LEMMA NonceSigned ==
  ASSUME VersionInv, NEW p \in Procs, NonceAgrees(p), SignOnly(p) \/ Transact(p)
  PROVE  NonceAgrees(p)'
<1>1. loc[p] \in Locals /\ pc[p] = "sign" /\ loc[p].mode # "stream"
  BY DEF VersionInv, TypeOK, SignOnly, Transact
<1>2. Nonce(p) \in 0 .. MaxNonce /\ \A n \in loc[p].nonces : n \in Nat /\ n < Nonce(p)
  BY <1>1, NonceIsNew DEF Locals
<1>3. CASE SignOnly(p)
  <2>1. /\ loc'[p].mode = "nosend" /\ loc'[p].nonce = Nonce(p) + 1
        /\ loc'[p].nonces = loc[p].nonces \union {Nonce(p)}
    BY <1>1, <1>3 DEF SignOnly, VersionInv, TypeOK, Locals
  <2> QED
    BY <1>2, <2>1 DEF NonceAgrees, NoNonce
<1>4. CASE Transact(p)
  <2>1. /\ loc'[p].mode = "onchain" /\ loc'[p].nonce = loc[p].nonce
        /\ loc'[p].nonces = loc[p].nonces \union {Nonce(p)}
        /\ loc[p].nonce = NoNonce /\ pc'[p] \in {"receipt", "unlock"}
        /\ pc'[p] = "receipt" => pending' = Nonce(p) + 1
    BY <1>1, <1>4 DEF Transact, VersionInv, TypeOK, Locals, NonceAgrees, Active, Goto
  <2> QED
    BY <1>2, <2>1 DEF NonceAgrees, Active
<1> QED
  BY <1>3, <1>4

\* No other step of a run touches its nonces.
LEMMA NonceKept ==
  ASSUME VersionInv, NEW p \in Procs, NonceAgrees(p),
         \/ ReadConfig(p) \/ Unlock(p) \/ Fail(p) \/ Reserve(p) \/ SaveTemporary(p)
         \/ Rename(p) \/ SyncDirectory(p) \/ SaveFails(p) \/ Publish(p) \/ Continue(p)
         \/ Receipt(p) \/ Kill(p)
  PROVE  NonceAgrees(p)'
<1>0. loc \in [Procs -> Locals] /\ loc[p] \in Locals /\ pc \in [Procs -> Labels]
  BY DEF VersionInv, TypeOK
<1>1. CASE Unlock(p) \/ Kill(p) \/ SaveFails(p) \/ Fail(p)
  <2>1. pc'[p] \in {"idle", "unlock"}
    BY <1>0, <1>1 DEF Unlock, Kill, SaveFails, Fail, Goto
  <2> QED
    BY <2>1 DEF NonceAgrees, Active
<1>2. CASE ReadConfig(p)
  <2>1. /\ loc'[p].mode = loc[p].mode /\ loc'[p].nonce = loc[p].nonce
        /\ loc'[p].nonces = loc[p].nonces /\ pending' = pending
        /\ loc[p].mode = "load" => pc'[p] = "unlock"
        /\ pc[p] = "read"
    BY <1>0, <1>2 DEF ReadConfig, Goto, Locals
  <2> QED
    BY <2>1 DEF NonceAgrees, Active
<1>3. CASE \/ Reserve(p) \/ SaveTemporary(p) \/ Rename(p) \/ SyncDirectory(p)
           \/ Publish(p) \/ Continue(p) \/ Receipt(p)
  <2>1. pending' = pending /\ pc[p] \in Active
    BY <1>3
    DEF Reserve, SaveTemporary, Rename, SyncDirectory, Publish, Continue, Receipt, Active
  <2>2. /\ loc'[p].mode = loc[p].mode /\ loc'[p].nonce = loc[p].nonce
        /\ loc'[p].nonces = loc[p].nonces
    <3>1. CASE UNCHANGED loc
      BY <3>1
    <3>2. CASE Continue(p)
      BY <1>0, <3>2 DEF Continue, Locals
    <3>3. CASE Reserve(p) /\ ~ UNCHANGED loc
      <4> DEFINE n == [loc[p].mem EXCEPT !.minor = @ + 1]
                 v == ToFrame(loc[p].mem)
      <4>1. loc' = [loc EXCEPT ![p] = [loc[p] EXCEPT !.mem = n, !.ver = v]]
        BY <1>0, <3>3 DEF Reserve, Locals
      <4> HIDE DEF n, v
      <4> QED
        BY <1>0, <4>1 DEF Locals
    <3> QED
      BY <1>3, <3>1, <3>2, <3>3
      DEF SaveTemporary, Rename, SyncDirectory, Publish, Receipt
  <2>3. loc[p].mode # "load"
    BY <2>1 DEF NonceAgrees, Active
  <2> QED
    BY <2>1, <2>2, <2>3 DEF NonceAgrees
<1> QED
  BY <1>1, <1>2, <1>3

\* A step of one process finds the others idle and leaves them so.
LEMMA NonceStep ==
  ASSUME VersionInv, NonceInv, [Next]_vars
  PROVE  NonceInv'
<1>0. loc \in [Procs -> Locals] /\ pc \in [Procs -> Labels]
  BY DEF VersionInv, TypeOK
<1>1. ASSUME NEW p \in Procs, Lock(p) \/ Step(p) \/ Receipt(p) \/ Kill(p)
      PROVE  NonceInv'
  <2>1. NonceAgrees(p)'
    <3>1. CASE Lock(p)
      <4>1. PICK mode \in Modes, count \in 1 .. MaxCount :
              loc' = [loc EXCEPT ![p] = [NoLocals EXCEPT !.mode = mode, !.left = count]]
        BY <3>1 DEF Lock
      <4>2. loc'[p].nonce = NoNonce /\ loc'[p].nonces = {} /\ pc'[p] = "read"
        BY <1>0, <3>1, <4>1 DEF Lock, Goto, NoLocals
      <4> QED
        BY <4>2 DEF NonceAgrees
    <3> QED
      BY <1>1, <3>1, NonceSigned, NonceKept DEF Step, NonceInv
  <2>2. ASSUME NEW q \in Procs, q # p PROVE NonceAgrees(q)'
    <3>1. pc'[q] = pc[q]
      BY <1>0, <1>1, <2>2
      DEF Lock, Step, ReadConfig, Unlock, Fail, Reserve, SaveTemporary, Rename,
          SyncDirectory, SaveFails, Publish, SignOnly, Transact, Continue, Receipt, Kill,
          Goto
    <3>2. pc[q] = "idle"
      <4>1. CASE pc[p] # "idle"
        BY <2>2, <4>1, OthersIdle
      <4>2. CASE pc[p] = "idle"
        <5>1. Lock(p)
          BY <1>1, <4>2
          DEF Step, ReadConfig, Unlock, Fail, Reserve, SaveTemporary, Rename,
              SyncDirectory, SaveFails, Publish, SignOnly, Transact, Continue, Receipt,
              Kill
        <5> QED
          BY <5>1, ProcsAssumption DEF Lock, VersionInv, ProcAgrees
      <4> QED
        BY <4>1, <4>2
    <3> QED
      BY <3>1, <3>2 DEF NonceAgrees, Active
  <2> QED
    BY <2>1, <2>2 DEF NonceInv
<1>2. CASE PowerLoss
  BY <1>2 DEF PowerLoss, NonceInv, NonceAgrees, Active
<1>3. CASE RemoveStaleLock \/ SelectMajor \/ UNCHANGED vars
  BY <1>3 DEF RemoveStaleLock, SelectMajor, vars, NonceInv, NonceAgrees
<1> QED
  BY <1>1, <1>2, <1>3 DEF Next

\* NonceInv is an invariant, given VersionInv.
LEMMA NonceInvariance == Spec => []NonceInv
<1>1. Init => NonceInv
  BY DEF Init, NonceInv, NonceAgrees, Active
<1> QED
  BY <1>1, NonceStep, VersionsInvariance, PTL DEF Spec

\* Every transaction that a run signs has a nonce of its own, whether the node
\* counts it or submitOnChain does, for any number of frames and runs.
THEOREM OwnNonces == Spec => NoncesDistinct
<1> DEFINE New == \A p \in Procs : pc[p] = "sign" /\ used' # used /\ loc[p].mode # "stream"
                                     => Nonce(p) \notin loc[p].nonces
<1>1. VersionInv /\ NonceInv => New
  <2> SUFFICES ASSUME VersionInv, NonceInv, NEW p \in Procs, pc[p] = "sign",
                      loc[p].mode # "stream"
               PROVE  Nonce(p) \notin loc[p].nonces
    OBVIOUS
  <2>1. Nonce(p) \in 0 .. MaxNonce /\ \A n \in loc[p].nonces : n < Nonce(p)
    BY NonceIsNew DEF NonceInv
  <2> QED
    BY <2>1
<1>2. NoncesDistinct <=> [][New]_vars
  BY DEF NoncesDistinct
<1> HIDE DEF New
<1> QED
  BY <1>1, <1>2, VersionsInvariance, NonceInvariance, PTL

=============================================================================
