------------------------------ MODULE Versions ------------------------------
(***************************************************************************)
(* Quote versions of the maker example (src/examples/maker): processes     *)
(* that share one configuration file, lock it, reserve the next version in *)
(* it and only then sign, publish over the stream or submit on chain.      *)
(* Processes are killed and the machine loses power at any step.           *)
(*                                                                         *)
(* The file is its directory entry: file is what a process reads now, disk *)
(* what is certain to be there after a power loss.  A rename is seen at    *)
(* once and is durable only when the directory is synced.  Of the content  *)
(* only next_version matters; Torn is a file whose data was lost.          *)
(***************************************************************************)
EXTENDS Integers

CONSTANTS
  Procs,         \* processes that run the example with the same -config
  Modes,         \* of the flags: "load" only, "stream", "onchain", "nosend"
  MaxMinor,      \* 255: the largest minor version of a frame
  MaxCount,      \* bound: frames of one run, the flag -count
  MaxMajor,      \* bound: major versions that the operator selects
  MaxRuns,       \* bound: runs of one process
  MaxCrashes,    \* bound: kills and power losses
  MaxNonce       \* bound: transactions of the gas payer

ASSUME VersionsAssumption ==
  /\ Modes \subseteq {"load", "stream", "onchain", "nosend"}
  /\ MaxMinor \in Nat /\ MaxMajor \in Nat /\ MaxCount \in Nat \ {0}
  /\ MaxRuns \in Nat /\ MaxCrashes \in Nat /\ MaxNonce \in Nat

Free == "free"
Stale == "stale"
ASSUME ProcsAssumption == Procs \intersect {Free, Stale} = {}

VARIABLES
  lock,      \* the .lock file: absent, or made by a living or a dead process
  file,      \* next_version, as the path shows it
  disk,      \* next_version, as it survives a power loss
  synced,    \* the data of file is on disk
  pc,
  loc,       \* the memory of each process, see Locals
  pending,   \* the node's pending nonce of the gas payer
  used,      \* history: how many frames were signed with a version
  runs, crashes

reservation == << file, disk, synced >>
bounds == << runs, crashes >>
vars == << lock, reservation, pc, loc, pending, used, bounds >>

\* config.NextVersion.Minor is wide enough for MaxMinor + 1, "exhausted".
NextVersions == [ major: 0 .. MaxMajor, minor: 0 .. MaxMinor + 1 ]
Frames == [ major: 0 .. MaxMajor, minor: 0 .. MaxMinor ]
Torn == [ major |-> -1, minor |-> -1 ]
NoNonce == -1

Locals ==
  [ mode: Modes \union {"load"},               \* the flags of this run
    left: 0 .. MaxCount,                        \* frames still to send
    mem: NextVersions \union {Torn},            \* cfg.NextVersion
    ver: Frames \union {Torn},                  \* the version of this quote
    nonce: (0 .. MaxNonce) \union {NoNonce},    \* opts.Nonce
    nonces: SUBSET (0 .. MaxNonce) ]            \* history: nonces signed with
NoLocals ==
  [ mode |-> "load", left |-> 0, mem |-> Torn, ver |-> Torn, nonce |-> NoNonce,
    nonces |-> {} ]

Before(v, w) == v.major < w.major \/ (v.major = w.major /\ v.minor < w.minor)

\* The conversion uint8(minor) of prepareNextQuote.
ToFrame(v) == [v EXCEPT !.minor = @ % (MaxMinor + 1)]

Init ==
  /\ lock = Free
  /\ file = [ major |-> 0, minor |-> 0 ] /\ disk = file /\ synced = TRUE
  /\ pc = [p \in Procs |-> "idle"]
  /\ loc = [p \in Procs |-> NoLocals]
  /\ pending = 0
  /\ used = [v \in Frames |-> 0]
  /\ runs = [p \in Procs |-> 0] /\ crashes = 0

Goto(p, label) == pc' = [pc EXCEPT ![p] = label]

-----------------------------------------------------------------------------
(* main and lockConfig *)

\* O_EXCL: without the lock, the run ends before it has done anything.
Lock(p) ==
  /\ pc[p] = "idle" /\ runs[p] < MaxRuns
  /\ lock = Free
  /\ lock' = p
  /\ \E mode \in Modes, count \in 1 .. MaxCount :
       loc' = [loc EXCEPT ![p] = [NoLocals EXCEPT !.mode = mode, !.left = count]]
  /\ runs' = [runs EXCEPT ![p] = @ + 1]
  /\ Goto(p, "read")
  /\ UNCHANGED << reservation, pending, used, crashes >>

ReadConfig(p) ==
  /\ pc[p] = "read"
  /\ loc' = [loc EXCEPT ![p].mem = file]
  /\ Goto(p, IF file = Torn \/ loc[p].mode = "load"
                \/ file.minor + loc[p].left > MaxMinor + 1
             THEN "unlock" ELSE "prepare")
  /\ UNCHANGED << lock, reservation, pending, used, bounds >>

\* The deferred unlock removes the file whoever made it.
Unlock(p) ==
  /\ pc[p] = "unlock"
  /\ lock' = Free
  /\ loc' = [loc EXCEPT ![p] = NoLocals]
  /\ Goto(p, "idle")
  /\ UNCHANGED << reservation, pending, used, bounds >>

\* Fault: the receipt is awaited without the context.
FailExceptReceipt(p) ==
  /\ pc[p] \in {"read", "prepare", "sign", "wait"}
  /\ Goto(p, "unlock")
  /\ UNCHANGED << lock, reservation, loc, pending, used, bounds >>

\* Every other error or cancellation ends the run: invalid settings, RPC
\* failures, a timestamp outside the lifecycle, signing, the total timeout.
Fail(p) ==
  /\ pc[p] \in {"read", "prepare", "sign", "receipt", "wait"}
  /\ Goto(p, "unlock")
  /\ UNCHANGED << lock, reservation, loc, pending, used, bounds >>

-----------------------------------------------------------------------------
(* prepareNextQuote, reserveVersion and atomicJSON *)

Reserve(p) ==
  /\ pc[p] = "prepare"
  /\ IF loc[p].mem.minor > MaxMinor
     THEN Goto(p, "unlock") /\ UNCHANGED loc
     ELSE /\ loc' = [loc EXCEPT ![p].mem.minor = @ + 1,
                                ![p].ver = ToFrame(loc[p].mem)]
          /\ Goto(p, "save")
  /\ UNCHANGED << lock, reservation, pending, used, bounds >>

\* The private temporary file is written and synced; nobody sees it.
SaveTemporary(p) ==
  /\ pc[p] = "save"
  /\ Goto(p, "rename")
  /\ UNCHANGED << lock, reservation, loc, pending, used, bounds >>

Rename(p) ==
  /\ pc[p] = "rename"
  /\ file' = loc[p].mem /\ synced' = TRUE
  /\ Goto(p, "syncdir")
  /\ UNCHANGED << lock, disk, loc, pending, used, bounds >>

\* Fault: the directory is not synced.
SyncDirectorySkipped(p) ==
  /\ pc[p] = "syncdir"
  /\ Goto(p, "sign")
  /\ UNCHANGED << lock, reservation, loc, pending, used, bounds >>

SyncDirectory(p) ==
  /\ pc[p] = "syncdir"
  /\ disk' = IF synced THEN file ELSE Torn
  /\ Goto(p, "sign")
  /\ UNCHANGED << lock, file, synced, loc, pending, used, bounds >>

\* The version in memory is taken back; after a rename the file keeps it.
SaveFails(p) ==
  /\ pc[p] \in {"save", "rename", "syncdir"}
  /\ loc' = [loc EXCEPT ![p].mem.minor = @ - 1]
  /\ Goto(p, "unlock")
  /\ UNCHANGED << lock, reservation, pending, used, bounds >>

-----------------------------------------------------------------------------
(* publish, submitOnChain, transact and WaitReceipt *)

Sign(p) == used' = [used EXCEPT ![loc[p].ver] = @ + 1]

\* One attempt: an error of any outcome ends the run.
Publish(p) ==
  /\ pc[p] = "sign" /\ loc[p].mode = "stream"
  /\ Sign(p)
  /\ \E label \in {"wait", "unlock"} : Goto(p, label)
  /\ UNCHANGED << lock, reservation, loc, pending, bounds >>

\* opts.Nonce, or the pending nonce that bind asks the node for.
Nonce(p) == IF loc[p].nonce = NoNonce THEN pending ELSE loc[p].nonce

\* Fault: the next transaction asks the node for its nonce again.
SignOnlySameNonce(p) ==
  /\ pc[p] = "sign" /\ loc[p].mode = "nosend" /\ Nonce(p) < MaxNonce
  /\ Sign(p)
  /\ loc' = [loc EXCEPT ![p].nonces = @ \union {Nonce(p)}]
  /\ Goto(p, "wait")
  /\ UNCHANGED << lock, reservation, pending, bounds >>

\* NoSend: transact returns after signing, and the loop sets the next nonce.
SignOnly(p) ==
  /\ pc[p] = "sign" /\ loc[p].mode = "nosend" /\ Nonce(p) < MaxNonce
  /\ Sign(p)
  /\ loc' = [loc EXCEPT ![p].nonces = @ \union {Nonce(p)}, ![p].nonce = Nonce(p) + 1]
  /\ Goto(p, "wait")
  /\ UNCHANGED << lock, reservation, pending, bounds >>

\* A broadcast that fails may still have reached the node.
Transact(p) ==
  /\ pc[p] = "sign" /\ loc[p].mode = "onchain" /\ Nonce(p) < MaxNonce
  /\ Sign(p)
  /\ loc' = [loc EXCEPT ![p].nonces = @ \union {Nonce(p)}]
  /\ \/ pending' = Nonce(p) + 1 /\ Goto(p, "receipt")
     \/ pending' \in {pending, Nonce(p) + 1} /\ Goto(p, "unlock")
  /\ UNCHANGED << lock, reservation, bounds >>

\* The receipt is there and successful; a failed one is an error like others.
Receipt(p) ==
  /\ pc[p] = "receipt"
  /\ Goto(p, "wait")
  /\ UNCHANGED << lock, reservation, loc, pending, used, bounds >>

\* The interval or the final observation ends: the next frame, or the end.
Continue(p) ==
  /\ pc[p] = "wait"
  /\ loc' = [loc EXCEPT ![p].left = @ - 1]
  /\ Goto(p, IF loc[p].left > 1 THEN "prepare" ELSE "unlock")
  /\ UNCHANGED << lock, reservation, pending, used, bounds >>

-----------------------------------------------------------------------------
(* The operator and the machine *)

\* The process dies without running its deferred calls.
Kill(p) ==
  /\ pc[p] # "idle" /\ crashes < MaxCrashes
  /\ crashes' = crashes + 1
  /\ lock' = IF lock = p THEN Stale ELSE lock
  /\ loc' = [loc EXCEPT ![p] = NoLocals]
  /\ Goto(p, "idle")
  /\ UNCHANGED << reservation, pending, used, runs >>

\* Neither the making nor the removal of the lock file is synced.
PowerLoss ==
  /\ crashes < MaxCrashes
  /\ crashes' = crashes + 1
  /\ pc' = [p \in Procs |-> "idle"]
  /\ loc' = [p \in Procs |-> NoLocals]
  /\ file' \in {disk, IF synced THEN file ELSE Torn}
  /\ disk' = file' /\ synced' = TRUE
  /\ lock' \in {Free, Stale}
  /\ UNCHANGED << pending, used, runs >>

\* A stale .lock is removed by hand, once its process is known to be dead.
RemoveStaleLock ==
  /\ lock = Stale
  /\ lock' = Free
  /\ UNCHANGED << reservation, pc, loc, pending, used, bounds >>

\* "select the next major explicitly": edited by hand while nobody runs.
SelectMajor ==
  /\ lock = Free /\ file.major < MaxMajor
  /\ file' = [ major |-> file.major + 1, minor |-> 0 ]
  /\ disk' = file' /\ synced' = TRUE
  /\ UNCHANGED << lock, pc, loc, pending, used, bounds >>

-----------------------------------------------------------------------------
Step(p) ==
  \/ ReadConfig(p) \/ Unlock(p) \/ Fail(p)
  \/ Reserve(p) \/ SaveTemporary(p) \/ Rename(p) \/ SyncDirectory(p) \/ SaveFails(p)
  \/ Publish(p) \/ SignOnly(p) \/ Transact(p) \/ Continue(p)

Next ==
  \/ \E p \in Procs : Lock(p) \/ Step(p) \/ Receipt(p) \/ Kill(p)
  \/ PowerLoss \/ RemoveStaleLock \/ SelectMajor

Spec == Init /\ [][Next]_vars

\* A living process goes on: every wait of it ends with the total timeout.  That
\* the chain ever includes a transaction is not assumed.
FairSpec == Spec /\ \A p \in Procs : WF_vars(Step(p))

-----------------------------------------------------------------------------
(* Properties *)

Labels ==
  { "idle", "read", "prepare", "save", "rename", "syncdir", "sign", "receipt",
    "wait", "unlock" }

\* Every variable stays in its type: a minor version never exceeds its width,
\* and no power loss leaves an unreadable configuration behind.
TypeOK ==
  /\ lock \in Procs \union {Free, Stale}
  /\ file \in NextVersions /\ disk \in NextVersions /\ synced \in BOOLEAN
  /\ pc \in [Procs -> Labels]
  /\ loc \in [Procs -> Locals]
  /\ pending \in 0 .. MaxNonce
  /\ used \in [Frames -> Nat]

\* No two frames are ever signed with one version, through kills, power losses,
\* failed saves and stale locks (reserveVersion: "saves the next version before
\* a network write is allowed").
VersionUsedOnce == \A v \in Frames : used[v] <= 1

\* One process at a time is between taking the lock and removing it, so that no
\* process overwrites the reservation of another (lockConfig).
OneHolder ==
  \A p, q \in Procs : pc[p] # "idle" /\ pc[q] # "idle" => p = q /\ lock = p

\* A version that was put on a frame is behind the one that survives a power loss.
UsedIsDurable == \A v \in Frames : used[v] > 0 => Before(v, disk) /\ Before(v, file)

\* Each transaction that a run signs has a nonce of its own, although the node's
\* pending nonce does not move without a broadcast (submitOnChain).
NoncesDistinct ==
  [][\A p \in Procs : pc[p] = "sign" /\ used' # used /\ loc[p].mode # "stream"
                         => Nonce(p) \notin loc[p].nonces]_vars

\* A run ends and gives up the lock, or its process was killed: a transaction
\* whose receipt never comes does not hold the configuration for ever.
LockReleased == \A p \in Procs : (lock = p) ~> (lock # p)

=============================================================================
