------------------------------ MODULE DeviceStore ------------------------------
(***************************************************************************)
(* The repository of paired devices (device_store.go) and the device       *)
(* service that calls it (device.go), over the files of DeviceFiles and    *)
(* the registry of ConnectionRegistry. One store operation runs at a time, *)
(* under storeMu, and is cut into steps at its writes: the process may be  *)
(* killed, or the power lost, between any two. After an outcome it cannot  *)
(* classify the store is latched: not ready until the process starts again *)
(* and the files are found to agree.                                       *)
(***************************************************************************)
EXTENDS ConnectionRegistry

VARIABLES
  phase,         \* "down", "loading" (LoadOrInitialize) or "up"
  ready,         \* the latch
  chain,         \* the ledger in memory: its revocations, in order
  seen,          \* the known devices and whether their lastSeenAt moved
  revoked,       \* those whose record carries a revokedAt
  unsafe,        \* tempNamespaceUnsafe
  op             \* the running operation

memVars == <<ready, chain, seen, revoked, unsafe>>
vars == <<fileVars, accessVars, phase, memVars, op>>

NoOp == [kind |-> "none", dev |-> NoDevice, at |-> "idle", conn |-> {}, old |-> Absent, next |-> Absent]

Known == DOMAIN seen \cup ToSet(chain)
Current == View(chain, seen, revoked)
Idle == phase = "up" /\ op = NoOp

Goto(step) == op' = [op EXCEPT !.at = step]
FilesStay  == UNCHANGED <<header, log, dur, snap, olds, temp>>
LedgerStays == UNCHANGED <<header, log, dur>>
MemStays   == UNCHANGED memVars

-----------------------------------------------------------------------------
(* The end of an operation                                                  *)

\* RecordDeviceSeen after a registration: an error ends the connection.
Touched(c, out) ==
  conn' = IF conn[c].at # "touching" THEN conn
          ELSE IF out = "indeterminate" THEN Ended({c})
          ELSE [conn EXCEPT ![c].at = "serving"]

\* CompletePairing's continuation is the pairing window's, not modelled here.
Return(out) ==
  /\ op' = NoOp
  /\ IF op.kind = "revoke" THEN Answered(out) /\ UNCHANGED conn
     ELSE IF op.kind = "seen" THEN (\A c \in op.conn : Touched(c, out)) /\ UNCHANGED rev
     ELSE UNCHANGED <<conn, rev>>
  /\ UNCHANGED <<accepting, fence>>

\* Mutant: TouchSeen keeps the moved record when its write did not take.
KeptMoved(out) ==
  /\ ready' = (ready /\ out # "indeterminate")
  /\ seen' = IF op.kind = "create" /\ out = "committed" THEN op.next.seen ELSE seen
  /\ Return(IF op.kind = "revoke" THEN "committed" ELSE out)

\* What a snapshot write's outcome means to the operation that asked for it. A
\* revocation is committed whatever becomes of its projection.
Projected(out) ==
  /\ ready' = (ready /\ out # "indeterminate")
  /\ seen' = CASE op.kind = "create" /\ out = "committed" -> op.next.seen
               [] op.kind = "seen" /\ out = "notCommitted" -> op.old.seen
               [] OTHER                                    -> seen
  /\ Return(IF op.kind = "revoke" THEN "committed" ELSE out)

-----------------------------------------------------------------------------
(* replaceSnapshot                                                          *)

\* tempBudgetOKLocked: an unreadable leftover blocks snapshot writes from here on.
BudgetOK == ~unsafe /\ temp # "partial"
Scanned  == IF temp = "full" /\ ~unsafe THEN "none" ELSE temp

WriteTemp ==
  /\ op.at = "temp"
  /\ \/ Reliable /\ temp' = "full" /\ Goto("rename") /\ UNCHANGED <<seen, ready, accessVars>>
     \/ Faulty /\ \/ UNCHANGED temp /\ Projected("indeterminate")
                  \/ temp' \in {"none", "partial", "full"} /\ Projected("notCommitted")
  /\ LedgerStays /\ UNCHANGED <<snap, olds, phase, chain, revoked, unsafe>>

\* The rename's own answer is not looked at; a torn one leaves garbage.
Rename ==
  /\ op.at = "rename"
  /\ \/ /\ \/ Reliable /\ snap' = op.next
           \/ Faulty /\ snap' = Garbage
        /\ temp' = "none" /\ olds' = olds \cup {snap'}
     \/ Faulty /\ UNCHANGED <<snap, temp, olds>>
  /\ Goto("readback")
  /\ LedgerStays /\ MemStays /\ UNCHANGED <<phase, accessVars>>

\* The target read back decides, by equality with the old or the next bytes.
ReadBack ==
  /\ op.at = "readback"
  /\ \/ /\ snap = op.next
        /\ \/ Reliable /\ olds' = {snap}
           \/ Faulty /\ UNCHANGED olds
        /\ Projected("committed")
        /\ UNCHANGED <<temp, unsafe>>
     \/ /\ snap = op.old
        /\ \/ Reliable /\ temp' = "none" /\ UNCHANGED unsafe
           \/ Faulty /\ unsafe' = TRUE /\ UNCHANGED temp
        /\ Projected("notCommitted")
        /\ UNCHANGED olds
     \/ /\ \/ Reliable /\ snap \notin {op.old, op.next}
           \/ Faulty
        /\ Projected("indeterminate")
        /\ UNCHANGED <<temp, unsafe, olds>>
  /\ LedgerStays /\ UNCHANGED <<snap, phase, chain, revoked>>

\* An operation that writes the snapshot starts, unless the temporary
\* namespace forbids it.
Replace(kind, d, c, old, next) ==
  /\ temp' = Scanned
  /\ op' = [kind |-> kind, dev |-> d, at |-> "temp", conn |-> c, old |-> old, next |-> next]
  /\ UNCHANGED unsafe

-----------------------------------------------------------------------------
(* Create, under CompletePairing                                            *)

\* Mutant: identities only the ledger knows are not counted.
AdmitsBeside == Idle /\ ready /\ accepting /\ Cardinality(DOMAIN seen) < MaxKnown

\* A pairing draws an identity no device and no tombstone has; which one is of
\* no consequence.
Admits == Idle /\ ready /\ accepting /\ Cardinality(Known) < MaxKnown

FreshID == CHOOSE d \in Device : d \notin Known

Beside(m, d) == [x \in DOMAIN m \cup {d} |-> IF x = d THEN FALSE ELSE m[x]]

Create ==
  /\ Admits /\ BudgetOK
  /\ Replace("create", FreshID, {}, Current, [Current EXCEPT !.seen = Beside(seen, FreshID)])
  /\ LedgerStays /\ Reliable
  /\ UNCHANGED <<snap, olds, phase, ready, chain, seen, revoked, accessVars>>

\* Any snapshot write is refused over an unreadable leftover, for good.
BudgetRefused ==
  /\ Admits /\ ~BudgetOK
  /\ unsafe' = TRUE
  /\ FilesStay /\ Reliable
  /\ UNCHANGED <<phase, ready, chain, seen, revoked, accessVars, op>>

-----------------------------------------------------------------------------
(* TouchSeen, under RecordDeviceSeen                                        *)

Skips(d) == d \notin DOMAIN seen \/ d \in revoked \/ seen[d]

\* Not ready is an error; a skipped or refused write is none.
TouchRefused(c) ==
  /\ Idle /\ conn[c].at = "registered"
  /\ \/ ~ready /\ conn' = Ended({c}) /\ UNCHANGED unsafe
     \/ /\ ready /\ (Skips(conn[c].dev) \/ ~BudgetOK)
        /\ conn' = [conn EXCEPT ![c].at = "serving"]
        /\ unsafe' = (unsafe \/ (~Skips(conn[c].dev) /\ ~BudgetOK))
  /\ FilesStay /\ Reliable
  /\ UNCHANGED <<phase, ready, chain, seen, revoked, accepting, fence, rev, op>>

\* The record in memory is moved before the snapshot is written.
TouchSeen(c) ==
  LET d == conn[c].dev
      moved == [Current EXCEPT !.seen = [@ EXCEPT ![d] = TRUE]]
  IN /\ Idle /\ conn[c].at = "registered" /\ ready /\ ~Skips(d) /\ BudgetOK
     /\ seen' = moved.seen
     /\ conn' = [conn EXCEPT ![c].at = "touching"]
     /\ Replace("seen", d, {c}, Current, moved)
     /\ LedgerStays /\ Reliable
     /\ UNCHANGED <<snap, olds, phase, ready, chain, revoked, accepting, fence, rev>>

-----------------------------------------------------------------------------
(* Revoke, under RevokeDevice                                               *)

\* The desktop asks: not for an unknown device, nor when the store is latched.
RevokeDevice(d) ==
  /\ Idle /\ ready /\ rev = NoCall /\ d \in DOMAIN seen
  /\ IF d \in ToSet(chain)
     THEN rev' = [at |-> "fence", dev |-> d] /\ UNCHANGED op
     ELSE /\ rev' = [at |-> "store", dev |-> d]
          /\ op' = [NoOp EXCEPT !.kind = "revoke", !.dev = d, !.at = "prepare"]
  /\ FilesStay /\ Reliable /\ MemStays
  /\ UNCHANGED <<phase, accepting, fence, conn>>

\* No room, a file that is not as long as it should be, or an open that fails.
AppendRefused ==
  /\ op.at = "prepare"
  /\ IF Len(chain) >= MaxKnown \/ log # [log EXCEPT !.pairs = chain, !.tail = "clean"]
     THEN Reliable ELSE Faulty
  /\ ready' = FALSE /\ Return("indeterminate")
  /\ FilesStay /\ UNCHANGED <<phase, chain, seen, revoked, unsafe>>

AppendStep == MemStays /\ UNCHANGED <<header, snap, olds, temp, phase, accessVars>>

WritePrepare ==
  /\ op.at = "prepare" /\ Len(chain) < MaxKnown /\ log.pairs = chain /\ log.tail = "clean"
  /\ \/ Reliable /\ log' = WithTail(log, "prepare", op.dev) /\ Goto("syncPrepare")
     \/ Faulty /\ log' \in {WithTail(log, t, op.dev) : t \in {"clean", "cut", "prepare"}}
               /\ Goto("reconcile")
  /\ AppendStep /\ UNCHANGED dur

SyncPrepare ==
  /\ op.at = "syncPrepare"
  /\ \/ Reliable /\ dur' = log /\ Goto("commit")
     \/ Faulty /\ UNCHANGED dur /\ Goto("reconcile")
  /\ AppendStep /\ UNCHANGED log

WriteCommit ==
  /\ op.at = "commit"
  /\ \/ Reliable /\ log' = WithPair(log, op.dev) /\ Goto("syncCommit")
     \/ Faulty /\ log' \in {log, WithTail(log, "cutCommit", op.dev)} /\ Goto("reconcile")
  /\ AppendStep /\ UNCHANGED dur

\* Mutant: the commit line is not synced.
SkipSync ==
  /\ op.at = "syncCommit"
  /\ Reliable /\ chain' = log.pairs /\ Goto("project")
  /\ UNCHANGED <<header, log, dur, snap, olds, temp, phase, ready, seen, revoked, unsafe, accessVars>>

\* The linearization point: the commit line's own sync.
SyncCommit ==
  /\ op.at = "syncCommit"
  /\ \/ Reliable /\ dur' = log /\ chain' = log.pairs /\ Goto("project")
     \/ Faulty /\ dur' \in {dur, log} /\ UNCHANGED chain /\ Goto("reconcile")
  /\ UNCHANGED <<header, log, snap, olds, temp, phase, ready, seen, revoked, unsafe, accessVars>>

Failed(out) ==
  /\ ready' = (ready /\ out # "indeterminate")
  /\ Return(out)
  /\ UNCHANGED chain

\* reconcileAfterAppendError: the file read again tells what the failed step did.
Reconcile ==
  /\ op.at = "reconcile"
  /\ \/ /\ Reliable /\ log.pairs = Append(chain, op.dev)
        /\ chain' = log.pairs /\ Goto("project")
        /\ UNCHANGED <<log, dur, ready, accessVars>>
     \/ /\ Reliable /\ log.pairs = chain /\ log.tail = "clean"
        /\ Failed("notCommitted") /\ UNCHANGED <<log, dur>>
     \/ /\ Reliable /\ log.pairs = chain /\ log.tail = "prepare"
        /\ log' = Truncated(log) /\ dur' = Truncated(log) /\ Failed("notCommitted")
     \/ /\ Faulty /\ log' \in {log} \cup (IF log.tail = "prepare" THEN {Truncated(log)} ELSE {})
        /\ UNCHANGED dur /\ Failed("indeterminate")
     \/ /\ Reliable /\ ~Parses(log)
        /\ Failed("indeterminate") /\ UNCHANGED <<log, dur>>
  /\ UNCHANGED <<header, snap, olds, temp, phase, seen, revoked, unsafe>>

\* The bytes to be replaced are computed after the append, so they name the new
\* head and are never what the file still holds.
Project ==
  /\ op.at = "project"
  /\ revoked' = revoked \cup {op.dev}
  /\ IF BudgetOK
     THEN /\ Replace("revoke", op.dev, {}, Current, View(chain, seen, revoked'))
          /\ UNCHANGED accessVars
     ELSE unsafe' = TRUE /\ Return("committed") /\ UNCHANGED temp
  /\ LedgerStays /\ Reliable
  /\ UNCHANGED <<snap, olds, phase, ready, chain, seen>>

StoreStep ==
  \/ WriteTemp \/ Rename \/ ReadBack
  \/ AppendRefused \/ WritePrepare \/ SyncPrepare \/ WriteCommit \/ SyncCommit
  \/ Reconcile \/ Project

-----------------------------------------------------------------------------
(* Starting                                                                 *)

Started == phase' = "up" /\ op' = NoOp
NotReady == Started /\ ready' = FALSE /\ UNCHANGED <<chain, seen, revoked, unsafe>>

\* LoadOrInitialize, both files absent: the header, then an empty snapshot. A
\* start that died between the two is completed by the next one.
CreateHeader ==
  /\ phase = "loading" /\ ~header /\ snap.is = "absent"
  /\ \/ Reliable /\ header' = TRUE /\ MemStays /\ UNCHANGED <<phase, op>>
     \/ Faulty /\ header' \in BOOLEAN /\ NotReady
  /\ UNCHANGED <<log, dur, snap, olds, temp, accessVars>>

CreateSnapshot ==
  /\ phase = "loading" /\ header /\ snap.is = "absent"
  /\ IF log = NewLedger
     THEN \/ /\ Reliable /\ snap' = NewSnapshot /\ olds' = olds \cup {NewSnapshot}
             /\ MemStays /\ UNCHANGED <<phase, op>>
          \/ Faulty /\ NotReady /\ UNCHANGED <<snap, olds>>
     ELSE Reliable /\ NotReady /\ UNCHANGED <<snap, olds>>
  /\ LedgerStays /\ UNCHANGED <<temp, accessVars>>

Leftover == IF temp = "full" THEN "none" ELSE temp

\* Both files present: the ledger without its uncommitted tail, then the
\* snapshot under it, then the temporary files.
Load ==
  /\ phase = "loading" /\ header /\ snap.is # "absent"
  /\ IF Parses(log) THEN log' = Truncated(log) ELSE UNCHANGED log
  /\ dur' = IF log.tail = "prepare" THEN log' ELSE dur
  /\ IF Parses(log) /\ Agrees(log, snap)
     THEN /\ Started /\ ready' = TRUE
          /\ chain' = log.pairs /\ seen' = snap.seen /\ revoked' = Fused(log, snap)
          /\ temp' = Leftover /\ unsafe' = (temp = "partial")
     ELSE NotReady /\ UNCHANGED temp
  /\ Reliable
  /\ UNCHANGED <<header, snap, olds, accessVars>>

LoadFails ==
  /\ phase = "loading" /\ header /\ snap.is # "absent"
  /\ Faulty /\ log' \in {log} \cup (IF log.tail = "prepare" THEN {Truncated(log)} ELSE {})
  /\ NotReady
  /\ UNCHANGED <<header, dur, snap, olds, temp, accessVars>>

\* The server starts, or stops and ends its connections (server_security.go).
StartServer ==
  /\ Idle /\ ready /\ ~accepting
  /\ accepting' = TRUE
  /\ FilesStay /\ Reliable /\ MemStays /\ UNCHANGED <<phase, fence, conn, rev, op>>

StopServer ==
  /\ phase = "up" /\ accepting
  /\ accepting' = FALSE
  /\ conn' = Ended({c \in Conn : conn[c].at \in Registered})
  /\ FilesStay /\ Reliable /\ MemStays /\ UNCHANGED <<phase, fence, rev, op>>

-----------------------------------------------------------------------------
(* Crashes                                                                  *)

\* A write the crash interrupts may be left in part.
Interrupted ==
  {log} \cup CASE op.at = "prepare" -> {WithTail(log, "cut", op.dev)}
               [] op.at = "commit"  -> {WithTail(log, "cutCommit", op.dev)}
               [] OTHER             -> {}
InterruptedTemp == {temp} \cup (IF op.at = "temp" THEN {"partial"} ELSE {})

Die ==
  /\ phase' = "down" /\ op' = NoOp
  /\ ready' = FALSE /\ chain' = <<>> /\ seen' = <<>> /\ revoked' = {} /\ unsafe' = FALSE
  /\ accepting' = FALSE /\ fence' = {} /\ conn' = [c \in Conn |-> NoConn] /\ rev' = NoCall

Kill ==
  /\ phase # "down" /\ Spend("crashes")
  /\ log' \in Interrupted /\ temp' \in InterruptedTemp
  /\ Die /\ UNCHANGED <<header, dur, snap, olds>>

\* The ledger keeps what was synced, the directory one of the snapshots renamed
\* since it was synced.
PowerLoss ==
  /\ phase # "down" /\ Spend("crashes")
  /\ \E l \in Interrupted : log' \in Survivors(dur, l)
  /\ dur' = log'
  /\ snap' \in olds /\ olds' = {snap'}
  /\ temp' \in InterruptedTemp \cup {"none"}
  /\ Die /\ UNCHANGED header

Start ==
  /\ phase = "down" /\ phase' = "loading"
  /\ FilesStay /\ Reliable /\ MemStays /\ UNCHANGED <<accessVars, op>>

-----------------------------------------------------------------------------

\* AuthenticateRequest: the record's revokedAt decides.
Authenticate(c, d) ==
  /\ Idle /\ ready /\ conn[c].at = "out" /\ d \in DOMAIN seen \ revoked
  /\ conn' = [conn EXCEPT ![c] = [at |-> "authenticated", dev |-> d]]
  /\ FilesStay /\ Reliable /\ MemStays /\ UNCHANGED <<phase, accepting, fence, rev, op>>

RegistryStep ==
  /\ phase = "up"
  /\ \/ FenceDevice \/ LatchRegistry \/ Terminate
     \/ \E c \in Conn : Register(c) \/ Disconnect(c)
  /\ FilesStay /\ Reliable /\ MemStays /\ UNCHANGED <<phase, op>>

Init ==
  /\ FilesInit /\ AccessInit
  /\ phase = "down" /\ op = NoOp
  /\ ready = FALSE /\ chain = <<>> /\ seen = <<>> /\ revoked = {} /\ unsafe = FALSE

Loading == Start \/ CreateHeader \/ CreateSnapshot \/ Load \/ LoadFails

Next ==
  \/ Loading \/ StoreStep \/ RegistryStep
  \/ Create \/ BudgetRefused
  \/ \E d \in Device : RevokeDevice(d)
  \/ \E c \in Conn : TouchRefused(c) \/ TouchSeen(c)
  \/ \E c \in Conn, d \in Device : Authenticate(c, d)
  \/ StartServer \/ StopServer
  \/ Kill \/ PowerLoss

Spec == Init /\ [][Next]_vars

CallSteps == FenceDevice \/ LatchRegistry \/ Terminate

\* An operation that has begun, and the call it answers, run to their end.
FairSpec == Spec /\ WF_vars(StoreStep) /\ WF_vars(RegistryStep /\ CallSteps)

-----------------------------------------------------------------------------
(* Properties                                                               *)

Line == [at : {"idle", "store", "fence", "latch", "cut"}, dev : Device \cup {NoDevice}]

\* The shapes of the files, the memory and the calls. Every known device has room
\* in the ledger for its one revocation, counting the revoked ones the snapshot
\* has lost: a revocation is never refused, nor the store latched, for lack of it.
TypeOK ==
  /\ log \in Ledger /\ dur \in Ledger
  /\ snap.is \in {"snapshot", "absent", "garbage"} /\ snap \in olds
  /\ temp \in {"none", "partial", "full"}
  /\ phase \in {"down", "loading", "up"} /\ ready \in BOOLEAN /\ unsafe \in BOOLEAN
  /\ chain \in Seq(Device) /\ DOMAIN seen \subseteq Device /\ revoked \subseteq Device
  /\ accepting \in BOOLEAN /\ fence \subseteq Device /\ rev \in Line
  /\ conn \in [Conn -> [at : Registered \cup {"out", "authenticated", "detached"},
                        dev : Device \cup {NoDevice}]]
  /\ ready => Cardinality(DOMAIN seen \cup ToSet(chain)) <= MaxKnown

\* "a device is revoked durably when its commit line's second File.Sync
\* succeeds": whatever the crashes, the failed syncs, the truncations and the
\* snapshots that come back, a store that is ready treats the device as revoked.
RevokedDurably ==
  (Idle /\ ready) => ToSet(dur.pairs) \cap DOMAIN seen \subseteq revoked

\* A revocation that was synced is never taken back from the file, neither by
\* the truncation of an uncommitted tail nor by a crash.
TombstonesStay == [][IsPrefix(dur.pairs, dur'.pairs)]_vars

\* Between two operations a ready store holds exactly what a restart would read
\* from the files: no failed or half-done operation leaves the memory ahead of
\* the disk or behind it.
ReloadAgrees ==
  (Idle /\ ready) =>
    /\ Parses(log) /\ Agrees(log, snap)
    /\ chain = log.pairs /\ seen = snap.seen /\ revoked = Fused(log, snap)

\* The first restart finds files that do not agree only if some read, write,
\* sync, rename or removal had failed before, or the crash had cut a ledger line:
\* the order of the writes alone never leaves the snapshot ahead of the ledger.
\* (A second crash may: a restart does not sync the commit line it finds.)
OnlyDamageLatches ==
  (/\ phase = "loading" /\ spent = [faults |-> 0, crashes |-> 1]
   /\ Parses(log) /\ snap.is # "absent") => Agrees(log, snap)

\* No connection of a revoked device is served, but while the revocation is
\* being written or its RevokeDevice call is still cutting connections; in
\* particular one that had authenticated before the revocation and registered
\* after the fence.
CutOnReturn ==
  \A d \in revoked : Entries(d) # {} => (rev.dev = d \/ op.dev = d)

\* A connection that is being served when its device is revoked, or that the
\* registry has let go of, is ended.
RevokedIsCut ==
  \A c \in Conn, d \in Device :
    (conn[c].dev = d /\ conn[c].at \in {"serving", "detached"} /\ d \in revoked)
      ~> (conn[c].at = "out")
=============================================================================
