----------------------- MODULE ControlPromises_proofs -----------------------
(***************************************************************************)
(* What a permit is worth when its effect starts, for every number of      *)
(* devices and calls: the generations it recorded never run ahead of the   *)
(* entry's, and while they are still equal to them its caller still holds  *)
(* the session, admission is still open and the effect still has its       *)
(* caller.  With it, what the control session promises.                    *)
(*                                                                         *)
(* And who answers for a run: every effect that closes a process, and      *)
(* every call that gave such an effect up, has a step to come that shows   *)
(* the run as closed, or has taken it.  With it, what the run promises.    *)
(***************************************************************************)
EXTENDS ControlTokens_proofs

USE DEF entryVars, runVars, backVars, arbVars, attachVars, threadVars, permitVars, tokenVars,
        procVars, mgrVars, Goto, RawTo, UnchangedByCalls, UnchangedByRaw, UnchangedByProcess

\* A call whose permit has been minted.
Minted(o) == raw[o] # "none"

\* Whether the caller holds the session as its permit recorded it: a data call
\* on the same attachment, a lifecycle on any attachment of its device.
Holds(o) ==
  IF ByDevice(o)
  THEN IF IsData(o) THEN owner = DeviceOwner(actor[o], opLease[o]) ELSE HeldBy(actor[o])
  ELSE owner.kind = "desktop"

\* The holder: its record has one shape per kind, and a reservation made by the
\* holder is still the holder's while no transition has happened since.
HolderInv ==
  /\ owner.kind # "device" => owner.dev = NoDevice
  /\ ~removed => \A d \in Devices : pending[d].rebind =>
       pending[d].epoch <= controlEpoch /\ (pending[d].epoch = controlEpoch => HeldBy(d))

\* A removed entry is a tombstone; an entry that is not has a run; admission is
\* open exactly while the server serves.
EntryInv ==
  /\ removed => owner = NoOwner /\ runPhase = "terminal" /\ runEpoch = 0
                  /\ \A o \in Ops : pc[o] \notin {"sealed", "composite"}
  /\ ~removed => runEpoch >= 1
  /\ accepting <=> stopPc = "serving"

\* The generations of a permit never run ahead of the entry's.
PermitBehind ==
  \A o \in Ops : Minted(o) =>
    /\ pc[o] \notin {"idle", "intent", "lane", "permit"}
    /\ permit[o].run >= 1
    /\ permit[o].acc <= accGen
    /\ permit[o].backend <= backendEpoch
    /\ ~removed => permit[o].epoch <= controlEpoch

\* Where they are equal, what the permit recorded still holds.
PermitHolds ==
  \A o \in Ops : Minted(o) =>
    /\ ~removed /\ permit[o].epoch = controlEpoch => Holds(o)
    /\ permit[o].acc = accGen /\ ByDevice(o) /\ IsData(o) => accepting
    /\ permit[o].backend = backendEpoch /\ ~RawReturned(o) => pc[o] = "running"

\* What a sealed lifecycle will install.
SealInv ==
  \A o \in Ops :
    /\ (kind[o] = "restart" /\ pc[o] \in {"running", "sealed", "composite"}
          /\ raw[o] \in {"staged", "launching", "launched", "ok"}) => stage[o].run >= 1
    /\ pc[o] \in {"sealed", "composite"} => raw[o] = "ok"
    /\ pc[o] = "composite" => kind[o] = "restart"
    /\ pc[o] = "sealed" /\ kind[o] = "remove" =>
         /\ seal.gen = TenureAtSeal
         /\ \A q \in Ops : Minted(q) => permit[q].backend < seal.backend

\* The inductive invariant of the permits, over those of types and tokens.
PermitInv == HolderInv /\ EntryInv /\ PermitBehind /\ PermitHolds /\ SealInv

-----------------------------------------------------------------------------
(* Steps that leave a part of the invariant alone.                         *)

USE DEF PermitInv, TypeInv, TypeOK, TokenInv

\* A step that moves neither the holder nor its epoch.
LEMMA HolderQuiet ==
  ASSUME PermitInv, UNCHANGED <<owner, controlEpoch, removed>>,
         \A d \in Devices : pending'[d] \in {pending[d], NoAttach}
  PROVE  HolderInv'
  BY DEF HolderInv, HeldBy, NoAttach

\* A step that moves neither the tombstone, the run nor admission.
LEMMA EntryQuiet ==
  ASSUME PermitInv, UNCHANGED <<owner, removed, runEpoch, accepting>>,
         removed => runPhase' = "terminal",
         stopPc' = "serving" <=> stopPc = "serving",
         \A o \in Ops : pc'[o] \in {"sealed", "composite"} => pc[o] \in {"sealed", "composite"}
  PROVE  EntryInv'
  BY DEF EntryInv

\* A step that moves no call. While a removal is sealed its tenure is fixed.
LEMMA SealQuiet ==
  ASSUME TypeInv, TokenInv, PermitInv, UNCHANGED <<pc, kind, raw, permit, stage, seal, prepared>>,
         RemovalPrepared => TenureAtSeal' = TenureAtSeal
  PROVE  SealInv'
<1>1. ASSUME NEW o \in Ops, pc[o] = "sealed", kind[o] = "remove" PROVE TenureAtSeal' = TenureAtSeal
  BY <1>1, ConstantsAssumption DEF RemovalPrepared, PreparedOwned, PreparedPcs
<1>2. QED
  BY <1>1 DEF SealInv, Minted

\* A transition of the holder moves the epoch, so that nothing is left to hold.
LEMMA HolderMoves ==
  ASSUME TypeInv, PermitInv, ~removed, UNCHANGED removed, controlEpoch' > controlEpoch,
         controlEpoch' \in Nat,
         owner'.kind # "device" => owner'.dev = NoDevice,
         \A d \in Devices : pending'[d] \in {pending[d], NoAttach}
  PROVE  HolderInv'
  BY DEF HolderInv, NoAttach, PlaneTypeOK, AttachType, EntryTypeOK

\* Permits age: generations only grow, and where the holder or admission moves,
\* so does its generation.
LEMMA PermitsAge ==
  ASSUME TypeInv, PermitInv, UNCHANGED <<removed, pc, kind, actor, opLease, raw, permit>>,
         controlEpoch' \in Nat /\ accGen' \in Nat /\ backendEpoch' \in Nat,
         UNCHANGED <<owner, controlEpoch>> \/ controlEpoch' > controlEpoch,
         UNCHANGED <<accepting, accGen>> \/ accGen' > accGen,
         backendEpoch' >= backendEpoch
  PROVE  PermitBehind' /\ PermitHolds'
<1>1. PermitBehind'
  BY DEF PermitBehind, Minted, CallTypeOK, EntryTypeOK, PlaneTypeOK, PermitType
<1>2. PermitHolds'
  BY DEF PermitBehind, PermitHolds, Minted, Holds, ByDevice, IsData, HeldBy, RawReturned,
         EntryTypeOK, PlaneTypeOK
<1>3. QED
  BY <1>1, <1>2

\* Devices, timers, revocations, server stops and the process leave the calls
\* alone. A transition of the holder, or of admission, moves a generation.
LEMMA PermitsAlone ==
  ASSUME TypeInv, TokenInv, PermitInv,
         UNCHANGED <<removed, runEpoch, backendEpoch, pc, kind, actor, opLease, raw, permit, stage,
                     seal, prepared>>,
         \/ UNCHANGED <<owner, controlEpoch>>
         \/ /\ ~removed /\ controlEpoch' \in Nat /\ controlEpoch' > controlEpoch
            /\ owner'.kind # "device" => owner'.dev = NoDevice,
         RemovalPrepared => TenureAtSeal' = TenureAtSeal,
         removed => runPhase' = "terminal",
         UNCHANGED <<accepting, accGen>> \/ (accGen' \in Nat /\ accGen' > accGen),
         accepting' <=> stopPc' = "serving",
         \A d \in Devices : pending'[d] \in {pending[d], NoAttach}
  PROVE  PermitInv'
<1>1. HolderInv'
  BY HolderQuiet, HolderMoves
<1>2. EntryInv'
  BY DEF EntryInv
<1>3. PermitBehind' /\ PermitHolds'
  BY PermitsAge DEF EntryTypeOK, PlaneTypeOK
<1>4. SealInv'
  BY SealQuiet
<1>5. QED
  BY <1>1, <1>2, <1>3, <1>4

\* So does a step that moves none of them.
LEMMA PermitsQuiet ==
  ASSUME TypeInv, TokenInv, PermitInv,
         UNCHANGED <<owner, controlEpoch, holderGen, removed, runEpoch, accepting, accGen, backendEpoch,
                     pc, kind, actor, opLease, raw, permit, stage, seal, prepared>>,
         removed => runPhase' = "terminal",
         stopPc' = "serving" <=> stopPc = "serving",
         \A d \in Devices : pending'[d] \in {pending[d], NoAttach}
  PROVE  PermitInv'
  BY PermitsAlone DEF TenureAtSeal, EntryInv

-----------------------------------------------------------------------------
(* Attachments.                                                            *)

\* Connections: a reconnection keeps the holder only in a rebind of its own.
LEMMA AttachPermits == ASSUME TypeInv, TokenInv, PermitInv, AttachStep PROVE PermitInv'
<1>1. ASSUME NEW d \in Devices, ReserveAttach(d) PROVE PermitInv'
  BY <1>1
  DEF ReserveAttach, HolderInv, EntryTypeOK, HeldBy, EntryInv, SealInv, PermitBehind, Minted,
      PermitHolds, Holds, ByDevice, IsData, RawReturned, TenureAtSeal
<1>2. ASSUME NEW d \in Devices, CommitAttach(d) PROVE PermitInv'
  BY <1>2, PermitsAlone
  DEF CommitAttach, AttachCommits, IsPublic, HolderInv, HeldBy, DeviceOwner, TenureAtSeal,
      EntryInv, EntryTypeOK
<1>3. ASSUME NEW d \in Devices, AbortAttach(d) PROVE PermitInv'
  BY <1>3, PermitsQuiet DEF AbortAttach, EntryInv
<1>4. ASSUME NEW d \in Devices, NEW how \in CloseKinds, Detach(d, how) PROVE PermitInv'
  BY <1>4, PermitsQuiet DEF Detach, EntryInv
<1>5. ASSUME NEW n \in lost, UnexpectedDetach(n) PROVE PermitInv'
  BY <1>5, PermitsAlone DEF UnexpectedDetach, DeviceOwner, TenureAtSeal, EntryInv, EntryTypeOK
<1>6. QED
  BY <1>1, <1>2, <1>3, <1>4, <1>5 DEF AttachStep

-----------------------------------------------------------------------------
(* Grace timers, acquire and release.                                      *)

\* Every change of the holder moves the epoch.
LEMMA HolderPermits == ASSUME TypeInv, TokenInv, PermitInv, HolderStep PROVE PermitInv'
<1>1. CASE TimerFires
  BY <1>1, PermitsQuiet DEF TimerFires, EntryInv
<1>2. ASSUME NEW desc \in callbacks, ExpireGrace(desc) PROVE PermitInv'
  BY <1>2, PermitsAlone
  DEF ExpireGrace, NoOwner, CommitTransition, TenureAtSeal, EntryInv, EntryTypeOK
<1>3. ASSUME NEW d \in Devices, AcquireCheck(d) PROVE PermitInv'
  BY <1>3, PermitsQuiet DEF AcquireCheck, EntryInv
<1>4. ASSUME NEW d \in Devices, Release(d) PROVE PermitInv'
  BY <1>4, PermitsAlone
  DEF Release, NoOwner, CommitTransition, IsPublic, TenureAtSeal, EntryInv, EntryTypeOK
<1>5. CASE AcquireCommit
  BY <1>5, PermitsAlone
  DEF AcquireCommit, DeviceOwner, CommitTransition, HeldBy, TenureAtSeal, EntryInv, EntryTypeOK
<1>6. CASE ForceCheck
  BY <1>6, PermitsQuiet DEF ForceCheck, EntryInv
<1>7. CASE ForceTake
  BY <1>7, PermitsAlone
  DEF ForceTake, DesktopOwner, CommitTransition, TakeDesktop, IsPublic, HolderInv, TenureAtSeal,
      EntryInv, EntryTypeOK
<1>8. CASE ForceRelease
  BY <1>8, PermitsAlone
  DEF ForceRelease, NoOwner, CommitTransition, TenureAtSeal, EntryInv, EntryTypeOK
<1>9. QED
  BY <1>1, <1>2, <1>3, <1>4, <1>5, <1>6, <1>7, <1>8 DEF HolderStep

-----------------------------------------------------------------------------
(* Revocations and server stops.                                           *)

\* Revocation, and the server's stop and start.
LEMMA AuthorityPermits == ASSUME TypeInv, TokenInv, PermitInv, AuthorityStep PROVE PermitInv'
<1>1. ASSUME NEW d \in Devices, MarkRevoked(d) PROVE PermitInv'
  BY <1>1, PermitsQuiet DEF MarkRevoked, EntryInv
<1>2. ASSUME NEW d \in Devices, FenceRevoked(d) PROVE PermitInv'
  BY <1>2, PermitsQuiet DEF FenceRevoked, EntryInv
<1>3. ASSUME NEW d \in Devices, ReleaseRevoked(d) PROVE PermitInv'
  BY <1>3, PermitsAlone
  DEF ReleaseRevoked, NoOwner, CommitTransition, TenureAtSeal, EntryInv, EntryTypeOK
<1>4. CASE StopAdmission
  <2>1. accGen' \in Nat /\ accGen' > accGen
    BY <1>4 DEF StopAdmission, PlaneTypeOK
  <2>2. QED
    BY <1>4, <2>1, PermitsAlone DEF StopAdmission, TenureAtSeal, EntryInv
<1>5. CASE StopFence
  BY <1>5, PermitsQuiet DEF StopFence, EntryInv
<1>6. CASE StopFenced
  BY <1>6, PermitsQuiet DEF StopFenced, EntryInv
<1>7. CASE StopRelease
  BY <1>7, PermitsAlone
  DEF StopRelease, NoOwner, CommitTransition, TenureAtSeal, EntryInv, EntryTypeOK
<1>8. CASE RestartRemote
  <2>1. accGen' \in Nat /\ accGen' > accGen
    BY <1>8 DEF RestartRemote, PlaneTypeOK
  <2>2. QED
    BY <1>8, <2>1, PermitsAlone DEF RestartRemote, TenureAtSeal, EntryInv
<1>9. QED
  BY <1>1, <1>2, <1>3, <1>4, <1>5, <1>6, <1>7, <1>8 DEF AuthorityStep

-----------------------------------------------------------------------------
(* The process.                                                            *)

\* The process: a sealed close is not disturbed by its exit.
LEMMA ProcessPermits == ASSUME TypeInv, TokenInv, PermitInv, ProcessStep PROVE PermitInv'
<1>1. CASE ProcessExit
  BY <1>1, PermitsQuiet DEF ProcessExit, EntryInv
<1>2. CASE ObserveExit
  BY <1>2, PermitsQuiet DEF ObserveExit, EntryInv
<1>3. ASSUME NEW e \in receipts, ConfirmDetach(e) PROVE PermitInv'
  BY <1>3, PermitsQuiet DEF ConfirmDetach
<1>4. QED
  BY <1>1, <1>2, <1>3 DEF ProcessStep

-----------------------------------------------------------------------------
(* Entering a call.                                                        *)

\* A call begins without a permit.
LEMMA BeginPermits == ASSUME TypeInv, TokenInv, PermitInv, NEW o \in Ops, BeginCall(o) PROVE PermitInv'
<1>1. CASE BeginDesktopWrite(o)
  BY <1>1, ConstantsAssumption
  DEF BeginDesktopWrite, CommitTransition, RemovalPrepared, DesktopOwner, TakeDesktop, IsPublic,
      Identify, HolderInv, EntryTypeOK, PlaneTypeOK, HeldBy, AttachType, EntryInv, SealInv,
      CallTypeOK, PreparedOwned, PreparedPcs, PermitBehind, Minted, PermitType, PermitHolds, Holds,
      ByDevice, IsData, RawReturned, TenureAtSeal
<1>2. CASE BeginDesktopResize(o)
  BY <1>2, HolderQuiet, EntryQuiet, ConstantsAssumption
  DEF BeginDesktopResize, EntryInv, Identify, PermitBehind, SealInv, Minted, PermitHolds, Holds,
      ByDevice, IsData, RawReturned, HeldBy, TenureAtSeal
<1>3. ASSUME NEW d \in Devices, BeginDeviceWrite(o, d) PROVE PermitInv'
  BY <1>3, HolderQuiet, EntryQuiet, ConstantsAssumption
  DEF BeginDeviceWrite, EntryInv, Identify, PermitBehind, SealInv, Minted, PermitHolds, Holds,
      ByDevice, IsData, RawReturned, HeldBy, TenureAtSeal
<1>4. ASSUME NEW k \in LifecycleKinds, NEW a \in Devices \cup {Desktop}, BeginLifecycle(o, k, a)
      PROVE PermitInv'
  BY <1>4, HolderQuiet, EntryQuiet, ConstantsAssumption
  DEF BeginLifecycle, EntryInv, Identify, PermitBehind, SealInv, Minted, PermitHolds, Holds,
      ByDevice, IsData, RawReturned, HeldBy, TenureAtSeal
<1>5. QED
  BY <1>1, <1>2, <1>3, <1>4 DEF BeginCall

-----------------------------------------------------------------------------
(* Raw effects.                                                            *)

\* The goroutine of a raw effect: it mints nothing.
LEMMA RawPermits == ASSUME TypeInv, TokenInv, PermitInv, NEW o \in Ops, RawStep(o) PROVE PermitInv'
<1>1. CASE Checkpoint(o)
  BY <1>1, HolderQuiet, EntryQuiet
  DEF Checkpoint, EntryInv, PermitBehind, SealInv, Minted, PermitHolds, Holds, ByDevice, IsData,
      RawReturned, HeldBy, TenureAtSeal
<1>2. CASE WriteDone(o)
  BY <1>2, HolderQuiet, EntryQuiet
  DEF WriteDone, EntryInv, PermitBehind, SealInv, Minted, PermitHolds, Holds, ByDevice, IsData,
      RawReturned, HeldBy, TenureAtSeal, DataKinds
<1>3. CASE CloseDone(o)
  BY <1>3, HolderQuiet, EntryQuiet
  DEF CloseDone, CallTypeOK, EntryInv, PermitBehind, SealInv, PlaneTypeOK, Minted, PermitType,
      PermitHolds, Holds, ByDevice, IsData, RawReturned, HeldBy, TenureAtSeal, PreparedOwned,
      PreparedPcs
<1>4. CASE OldClosed(o)
  <2>1. HolderInv'
    BY <1>4, HolderQuiet DEF OldClosed
  <2>2. EntryInv'
    BY <1>4, EntryQuiet DEF OldClosed, EntryInv
  <2>3. PermitBehind'
    BY <1>4 DEF OldClosed, PermitBehind, CallTypeOK, Minted
  <2>4. PermitHolds'
    BY <1>4
    DEF OldClosed, PermitBehind, PermitHolds, EntryTypeOK, CallTypeOK, Minted, Holds, ByDevice,
        IsData, RawReturned, HeldBy
  <2>5. SealInv'
    BY <1>4 DEF OldClosed, SealInv, CallTypeOK, Minted, TenureAtSeal
  <2>6. QED
    BY <2>1, <2>2, <2>3, <2>4, <2>5
<1>5. CASE StageRestartRun(o)
  <2>1. HolderInv'
    BY <1>5, HolderQuiet DEF StageRestartRun
  <2>2. EntryInv'
    BY <1>5 DEF StageRestartRun, PermitCurrent, EntryInv, PermitBehind, Minted
  <2>3. PermitBehind'
    BY <1>5 DEF StageRestartRun, PermitBehind, CallTypeOK, Minted
  <2>4. PermitHolds'
    BY <1>5
    DEF StageRestartRun, PermitHolds, SealInv, EntryTypeOK, CallTypeOK, Minted, Holds, ByDevice,
        IsData, RawReturned, HeldBy
  <2>5. SealInv'
    BY <1>5 DEF StageRestartRun, SealInv, EntryTypeOK, CallTypeOK, Minted, TenureAtSeal
  <2>6. QED
    BY <2>1, <2>2, <2>3, <2>4, <2>5
<1>6. CASE LaunchCheckpoint(o)
  BY <1>6, HolderQuiet, EntryQuiet
  DEF LaunchCheckpoint, EntryInv, PermitBehind, SealInv, Minted, PermitHolds, Holds, ByDevice,
      IsData, RawReturned, HeldBy, TenureAtSeal
<1>7. CASE Launched(o)
  BY <1>7, HolderQuiet, EntryQuiet
  DEF Launched, CallTypeOK, EntryInv, PermitBehind, SealInv, EntryTypeOK, PlaneTypeOK, Minted,
      PermitHolds, Holds, ByDevice, IsData, RawReturned, HeldBy, TenureAtSeal
<1>8. QED
  BY <1>1, <1>2, <1>3, <1>4, <1>5, <1>6, <1>7 DEF RawStep

-----------------------------------------------------------------------------
(* Sealed lifecycles.                                                      *)

\* Seal, commit and abort: a removal installs what its seal fixed.
LEMMA LifecyclePermits ==
  ASSUME TypeInv, TokenInv, PermitInv, NEW o \in Ops, LifecycleStep(o) PROVE PermitInv'
<1>1. CASE Seal(o)
  BY <1>1, HolderQuiet
  DEF Seal, SealGranted, TenureAtSeal, EntryInv, SealInv, EntryTypeOK, CallTypeOK, PermitBehind,
      Minted, PermitType, PermitHolds, Holds, ByDevice, IsData, RawReturned, HeldBy
<1>2. CASE CompositePrepare(o)
  BY <1>2, HolderQuiet, EntryQuiet
  DEF CompositePrepare, EntryInv, PermitBehind, SealInv, Minted, PermitHolds, Holds, ByDevice,
      IsData, RawReturned, HeldBy, PreparedOwned, PreparedPcs
<1>3. CASE CommitStop(o)
  BY <1>3, HolderQuiet, EntryQuiet
  DEF CommitStop, PermitBehind, SealInv, Minted, PermitHolds, Holds, ByDevice, IsData, RawReturned,
      HeldBy, PreparedOwned, PreparedPcs
<1>4. CASE CommitRemove(o)
  BY <1>4
  DEF CommitRemove, NoOwner, HolderInv, EntryInv, SealInv, CallTypeOK, PreparedOwned, PreparedPcs,
      PermitBehind, Minted, PermitType, PermitHolds, ByDevice, IsData
<1>5. CASE CommitRestart(o)
  BY <1>5, HolderQuiet
  DEF CommitRestart, EntryInv, SealInv, CallTypeOK, PermitBehind, Minted, PermitHolds, Holds,
      ByDevice, IsData, RawReturned, HeldBy, TenureAtSeal
<1>6. CASE FinishCommitted(o)
  BY <1>6, HolderQuiet, EntryQuiet
  DEF FinishCommitted, EntryInv, PermitBehind, SealInv, Minted, PermitHolds, Holds, ByDevice,
      IsData, RawReturned, HeldBy, PreparedOwned, PreparedPcs
<1>7. CASE AbandonSealed(o)
  BY <1>7, HolderQuiet, EntryQuiet
  DEF AbandonSealed, EntryInv, PermitBehind, SealInv, Minted, PermitHolds, Holds, ByDevice, IsData,
      RawReturned, HeldBy, TenureAtSeal
<1>8. CASE AbortStage(o)
  BY <1>8, HolderQuiet, EntryQuiet
  DEF AbortStage, EntryInv, PermitBehind, SealInv, Minted, PermitHolds, Holds, ByDevice, IsData,
      RawReturned, HeldBy, TenureAtSeal
<1>9. CASE AbandonToken(o)
  BY <1>9, HolderQuiet, EntryQuiet
  DEF AbandonToken, EntryInv, PermitBehind, SealInv, Minted, PermitHolds, Holds, ByDevice, IsData,
      RawReturned, HeldBy, PreparedOwned, PreparedPcs
<1>10. CASE ReleaseManager(o)
  BY <1>10, HolderQuiet, EntryQuiet
  DEF ReleaseManager, CallTypeOK, EntryInv, PermitBehind, SealInv, Minted, PermitHolds, Holds,
      ByDevice, IsData, RawReturned, HeldBy, TenureAtSeal
<1>11. CASE Reconcile(o)
  BY <1>11, HolderQuiet, EntryQuiet
  DEF Reconcile, EntryInv, PermitBehind, SealInv, Minted, PermitHolds, Holds, ByDevice, IsData,
      RawReturned, HeldBy, TenureAtSeal
<1>12. QED
  BY <1>1, <1>2, <1>3, <1>4, <1>5, <1>6, <1>7, <1>8, <1>9, <1>10, <1>11 DEF LifecycleStep

-----------------------------------------------------------------------------
(* The gate.                                                               *)

\* Permits are minted for the holder, with admission open, on the current backend.
LEMMA GatePermits ==
  ASSUME TypeInv, TokenInv, PermitInv, NEW o \in Ops, CallStep(o) PROVE PermitInv'
<1>1. CASE CommitIntent(o)
  BY <1>1, HolderQuiet, EntryQuiet
  DEF CommitIntent, CallTypeOK, EntryInv, PermitBehind, SealInv, Minted, PermitHolds, Holds,
      ByDevice, IsData, RawReturned, HeldBy, TenureAtSeal
<1>2. CASE LaneAcquire(o)
  BY <1>2, HolderQuiet, EntryQuiet
  DEF LaneAcquire, EntryInv, PermitBehind, SealInv, Minted, PermitHolds, Holds, ByDevice, IsData,
      RawReturned, HeldBy, TenureAtSeal
<1>3. CASE LaneTimeout(o)
  BY <1>3, HolderQuiet, EntryQuiet
  DEF LaneTimeout, Quarantine, AfterRefusal, CallTypeOK, PermitBehind, SealInv, EntryTypeOK,
      Minted, PermitType, PermitHolds, Holds, ByDevice, IsData, HeldBy, TenureAtSeal
<1>4. CASE LaneCancelled(o)
  BY <1>4, HolderQuiet, EntryQuiet
  DEF LaneCancelled, AfterRefusal, EntryInv, PermitBehind, SealInv, Minted, PermitHolds, Holds,
      ByDevice, IsData, RawReturned, HeldBy, TenureAtSeal
<1>5. CASE MintPermit(o)
  BY <1>5, HolderQuiet, EntryQuiet, ConstantsAssumption
  DEF MintPermit, CallTypeOK, EntryInv, PermitGranted, DataPermitGranted, LifecyclePermitGranted,
      HeldBy, PermitBehind, SealInv, EntryTypeOK, PlaneTypeOK, Minted, PermitHolds, Holds,
      ByDevice, IsData, RawReturned, LaneOwned, LanePcs
<1>6. CASE RefusePermit(o)
  BY <1>6, HolderQuiet, EntryQuiet
  DEF RefusePermit, AfterRefusal, EntryInv, PermitBehind, SealInv, Minted, PermitHolds, Holds,
      ByDevice, IsData, RawReturned, HeldBy, TenureAtSeal
<1>7. CASE RawTimeout(o)
  BY <1>7, HolderQuiet, EntryQuiet
  DEF RawTimeout, Quarantine, CallTypeOK, PermitBehind, SealInv, EntryTypeOK, Minted, PermitType,
      PermitHolds, Holds, ByDevice, IsData, HeldBy, TenureAtSeal
<1>8. CASE FinishOperation(o)
  BY <1>8, HolderQuiet, EntryQuiet
  DEF FinishOperation, AfterRefusal, EntryInv, PermitBehind, SealInv, Minted, PermitHolds, Holds,
      ByDevice, IsData, RawReturned, HeldBy, TenureAtSeal
<1>9. CASE LifecycleStep(o)
  BY <1>9, LifecyclePermits
<1>10. QED
  BY <1>1, <1>2, <1>3, <1>4, <1>5, <1>6, <1>7, <1>8, <1>9 DEF CallStep

-----------------------------------------------------------------------------
\* The initial state: no permit.
LEMMA PermitInit == Init => PermitInv
  BY ConstantsAssumption
  DEF Init, HolderInv, EntryInv, PermitBehind, PermitHolds, SealInv, Minted, NoOwner, NoAttach

\* One step, by the part of the system that takes it.
LEMMA PermitStep == TypeInv /\ TokenInv /\ PermitInv /\ [Next]_vars => PermitInv'
<1> SUFFICES ASSUME TypeInv, TokenInv, PermitInv, [Next]_vars PROVE PermitInv'
  OBVIOUS
<1>1. ASSUME NEW o \in Ops, OpStep(o) PROVE PermitInv'
  BY <1>1, BeginPermits, GatePermits, RawPermits DEF OpStep
<1>2. CASE UNCHANGED vars
  BY <1>2, PermitsQuiet DEF vars, EntryInv
<1>3. QED
  BY <1>1, <1>2, AttachPermits, HolderPermits, AuthorityPermits, ProcessPermits DEF Next

\* The three invariants hold together from the first state on.
LEMMA PermitsHold == Spec => [](TypeInv /\ TokenInv /\ PermitInv)
<1> HIDE DEF TypeInv, TokenInv, PermitInv
<1>1. QED
  BY TypeInit, TypeStep, TokenInit, TokenStep, PermitInit, PermitStep, PTL DEF Spec

-----------------------------------------------------------------------------
(* What the control session promises: first, which steps let an effect     *)
(* start, end an entry or change the holder.                               *)

HIDE DEF PermitInv, TypeInv, TypeOK, TokenInv

\* Only the goroutine of a call, past its own checkpoint, starts an effect.
LEMMA EffectIsChecked ==
  ASSUME TypeInv, [Next]_vars, NEW o \in Ops, Admits(o)
  PROVE  Minted(o) /\ CheckpointPasses(o)
<1> USE DEF Admits, TypeInv, TypeOK, CallTypeOK
<1>1. CASE UNCHANGED raw
  BY <1>1
<1>2. CASE AttachStep
  BY <1>2, <1>1
     DEF AttachStep, ReserveAttach, CommitAttach, AbortAttach, Detach, UnexpectedDetach
<1>3. CASE HolderStep
  BY <1>3, <1>1
  DEF HolderStep, TimerFires, ExpireGrace, AcquireCheck, Release, AcquireCommit, ForceCheck,
      ForceTake, ForceRelease
<1>4. CASE AuthorityStep
  BY <1>4, <1>1
  DEF AuthorityStep, MarkRevoked, FenceRevoked, ReleaseRevoked, StopAdmission, StopFence,
      StopFenced, StopRelease, RestartRemote
<1>5. CASE ProcessStep
  BY <1>5, <1>1 DEF ProcessStep, ProcessExit, ObserveExit, ConfirmDetach
<1>6. ASSUME NEW q \in Ops, BeginCall(q) PROVE UNCHANGED raw
  BY <1>6 DEF BeginCall, BeginDesktopWrite, BeginDesktopResize, BeginDeviceWrite, BeginLifecycle
<1>7. ASSUME NEW q \in Ops, LifecycleStep(q) PROVE UNCHANGED raw
  BY <1>7
  DEF LifecycleStep, Seal, CompositePrepare, CommitStop, CommitRemove, CommitRestart,
      FinishCommitted, AbandonSealed, AbortStage, AbandonToken, ReleaseManager, Reconcile
<1>8. ASSUME NEW q \in Ops, MintPermit(q) PROVE ~Admits(o)
  BY <1>8 DEF MintPermit
<1>9. ASSUME NEW q \in Ops, CallStep(q) PROVE UNCHANGED raw
  BY <1>7, <1>8, <1>9
  DEF CallStep, CommitIntent, LaneAcquire, LaneTimeout, LaneCancelled, RefusePermit, RawTimeout,
      FinishOperation
<1>10. ASSUME NEW q \in Ops, RawStep(q) PROVE Minted(o) /\ CheckpointPasses(o)
  <2>1. CASE Checkpoint(q)
    BY <2>1 DEF Checkpoint, Minted
  <2>2. CASE LaunchCheckpoint(q)
    BY <2>2 DEF LaunchCheckpoint, Minted
  <2>3. CASE WriteDone(q) \/ CloseDone(q) \/ OldClosed(q) \/ StageRestartRun(q) \/ Launched(q)
    BY <2>3 DEF WriteDone, CloseDone, OldClosed, StageRestartRun, Launched
  <2>4. QED
    BY <1>10, <2>1, <2>2, <2>3 DEF RawStep
<1>11. CASE UNCHANGED vars
  BY <1>1, <1>11 DEF vars
<1>12. QED
  BY <1>1, <1>2, <1>3, <1>4, <1>5, <1>6, <1>9, <1>10, <1>11 DEF Next, OpStep

\* A permit that passes its checkpoint is a permit of its holder, now.
LEMMA CheckedIsHolder ==
  ASSUME TypeInv, PermitInv, NEW o \in Ops, Minted(o), CheckpointPasses(o)
  PROVE  /\ ~removed /\ Holds(o)
         /\ ByDevice(o) /\ IsData(o) => stopPc = "serving"
<1>1. ~removed
  BY DEF PermitInv, EntryInv, PermitBehind, CheckpointPasses, PermitCurrent
<1>2. QED
  BY <1>1 DEF PermitInv, EntryInv, PermitHolds, CheckpointPasses, PermitCurrent

\* No step takes the tombstone away.
LEMMA RemovedStays == ASSUME [Next]_vars, removed PROVE removed'
<1>1. CASE AttachStep
  BY <1>1 DEF AttachStep, ReserveAttach, CommitAttach, AbortAttach, Detach, UnexpectedDetach
<1>2. CASE HolderStep
  BY <1>2
  DEF HolderStep, TimerFires, ExpireGrace, AcquireCheck, Release, AcquireCommit, ForceCheck,
      ForceTake, ForceRelease
<1>3. CASE AuthorityStep
  BY <1>3
  DEF AuthorityStep, MarkRevoked, FenceRevoked, ReleaseRevoked, StopAdmission, StopFence,
      StopFenced, StopRelease, RestartRemote
<1>4. CASE ProcessStep
  BY <1>4 DEF ProcessStep, ProcessExit, ObserveExit, ConfirmDetach
<1>5. ASSUME NEW o \in Ops, BeginCall(o) PROVE removed'
  BY <1>5 DEF BeginCall, BeginDesktopWrite, BeginDesktopResize, BeginDeviceWrite, BeginLifecycle
<1>6. ASSUME NEW o \in Ops, LifecycleStep(o) PROVE removed'
  BY <1>6
  DEF LifecycleStep, Seal, CompositePrepare, CommitStop, CommitRemove, CommitRestart,
      FinishCommitted, AbandonSealed, AbortStage, AbandonToken, ReleaseManager, Reconcile
<1>7. ASSUME NEW o \in Ops, CallStep(o) PROVE removed'
  BY <1>6, <1>7
  DEF CallStep, CommitIntent, LaneAcquire, LaneTimeout, LaneCancelled, MintPermit, RefusePermit,
      RawTimeout, FinishOperation
<1>8. ASSUME NEW o \in Ops, RawStep(o) PROVE removed'
  BY <1>8
  DEF RawStep, Checkpoint, WriteDone, CloseDone, OldClosed, StageRestartRun, LaunchCheckpoint,
      Launched
<1>9. CASE UNCHANGED vars
  BY <1>9 DEF vars
<1>10. QED
  BY <1>1, <1>2, <1>3, <1>4, <1>5, <1>7, <1>8, <1>9 DEF Next, OpStep

\* Every change of holder opens a tenure: CommitTransition by itself, the commit
\* of a removal by the number its seal fixed; a reconnection keeps the holder.
LEMMA TenureStep ==
  ASSUME TypeInv, TokenInv, PermitInv, [Next]_vars,
         owner'.kind # owner.kind \/ owner'.dev # owner.dev
  PROVE  holderGen' > holderGen
<1> USE DEF TypeInv, TypeOK, EntryTypeOK
<1>1. CASE UNCHANGED owner
  BY <1>1
<1>2. ASSUME NEW new, CommitTransition(new) PROVE holderGen' > holderGen
  BY <1>1, <1>2 DEF CommitTransition
<1>3. ASSUME NEW d \in Devices, CommitAttach(d) PROVE FALSE
  BY <1>3 DEF CommitAttach, AttachCommits, IsPublic, DeviceOwner, PermitInv, HolderInv, HeldBy
<1>4. CASE AttachStep
  BY <1>1, <1>3, <1>4
  DEF AttachStep, ReserveAttach, AbortAttach, Detach, UnexpectedDetach, OwnerType
<1>5. CASE AcquireCommit
  BY <1>1, <1>2, <1>5 DEF AcquireCommit, DeviceOwner, HeldBy
<1>6. CASE HolderStep
  BY <1>1, <1>2, <1>5, <1>6
  DEF HolderStep, TimerFires, ExpireGrace, AcquireCheck, Release, ForceCheck, ForceTake,
      ForceRelease, TakeDesktop
<1>7. CASE AuthorityStep
  BY <1>1, <1>2, <1>7
  DEF AuthorityStep, MarkRevoked, FenceRevoked, ReleaseRevoked, StopAdmission, StopFence,
      StopFenced, StopRelease, RestartRemote
<1>8. CASE ProcessStep
  BY <1>1, <1>8 DEF ProcessStep, ProcessExit, ObserveExit, ConfirmDetach
<1>9. ASSUME NEW o \in Ops, BeginCall(o) PROVE holderGen' > holderGen
  BY <1>1, <1>2, <1>9
  DEF BeginCall, BeginDesktopWrite, BeginDesktopResize, BeginDeviceWrite, BeginLifecycle,
      TakeDesktop
<1>10. ASSUME NEW o \in Ops, CommitRemove(o) PROVE holderGen' > holderGen
  BY <1>10 DEF CommitRemove, PermitInv, HolderInv, SealInv, TenureAtSeal, NoOwner
<1>11. ASSUME NEW o \in Ops, LifecycleStep(o) PROVE holderGen' > holderGen
  BY <1>1, <1>10, <1>11
  DEF LifecycleStep, Seal, CompositePrepare, CommitStop, CommitRestart, FinishCommitted,
      AbandonSealed, AbortStage, AbandonToken, ReleaseManager, Reconcile
<1>12. ASSUME NEW o \in Ops, CallStep(o) PROVE holderGen' > holderGen
  BY <1>1, <1>11, <1>12
  DEF CallStep, CommitIntent, LaneAcquire, LaneTimeout, LaneCancelled, MintPermit, RefusePermit,
      RawTimeout, FinishOperation
<1>13. ASSUME NEW o \in Ops, RawStep(o) PROVE holderGen' > holderGen
  BY <1>1, <1>13
  DEF RawStep, Checkpoint, WriteDone, CloseDone, OldClosed, StageRestartRun, LaunchCheckpoint,
      Launched
<1>14. CASE UNCHANGED vars
  BY <1>1, <1>14 DEF vars
<1>15. QED
  BY <1>4, <1>6, <1>7, <1>8, <1>9, <1>12, <1>13, <1>14 DEF Next, OpStep

-----------------------------------------------------------------------------
(* The promises.                                                           *)

\* An irreversible effect starts only while its caller controls the session,
\* whatever ran since its permit was minted (AdmittedByHolder).
THEOREM EffectsAreTheHolders == Spec => AdmittedByHolder
<1>1. ASSUME TypeInv, PermitInv, [Next]_vars, NEW o \in Ops, Admits(o)
      PROVE  IF ByDevice(o)
             THEN IF IsData(o) THEN owner = DeviceOwner(actor[o], opLease[o]) ELSE HeldBy(actor[o])
             ELSE owner.kind = "desktop"
  <2>1. Holds(o)
    BY <1>1, EffectIsChecked, CheckedIsHolder
  <2>2. QED
    BY <2>1 DEF Holds
<1>2. TypeInv /\ TokenInv /\ PermitInv /\ [Next]_vars =>
        [\A o \in Ops : Admits(o) =>
           IF ByDevice(o)
           THEN IF IsData(o) THEN owner = DeviceOwner(actor[o], opLease[o]) ELSE HeldBy(actor[o])
           ELSE owner.kind = "desktop"]_vars
  BY <1>1
<1>3. QED
  BY PermitsHold, <1>2, PTL DEF Spec, AdmittedByHolder

\* Two irreversible effects never run on the same backend (SerialEffects).
THEOREM EffectsAreSerial == Spec => []SerialEffects
<1>1. TypeInv /\ TokenInv /\ PermitInv => SerialEffects
  BY DEF TokenInv, LaneOwned, LanePcs, PermitInv, PermitHolds, Minted, RawReturned,
       SerialEffects
<1>2. QED
  BY PermitsHold, <1>1, PTL

\* Between the fence of a server stop and the next start no device write reaches
\* the PTY (NoDeviceWriteWhileStopped).
THEOREM StopFencesWrites == Spec => NoDeviceWriteWhileStopped
<1>1. TypeInv /\ TokenInv /\ PermitInv /\ [Next]_vars =>
        [\A o \in Ops : Admits(o) /\ ByDevice(o) /\ IsData(o) =>
           stopPc \notin {"waiting", "fenced", "stopped"}]_vars
  BY EffectIsChecked, CheckedIsHolder
<1>2. QED
  BY PermitsHold, <1>1, PTL DEF Spec, NoDeviceWriteWhileStopped

\* A change of controlling authority always opens a new tenure (TenureAdvances).
THEOREM TenuresAdvance == Spec => TenureAdvances
<1>1. TypeInv /\ TokenInv /\ PermitInv /\ [Next]_vars =>
        [(owner'.kind # owner.kind \/ owner'.dev # owner.dev) => holderGen' > holderGen]_vars
  BY TenureStep
<1>2. QED
  BY PermitsHold, <1>1, PTL DEF Spec, TenureAdvances

\* A removed session gets no holder, no run and no effect (TombstoneIsFinal).
THEOREM RemovalIsFinal == Spec => TombstoneIsFinal
<1>1. ASSUME TypeInv, TokenInv, PermitInv, [Next]_vars, removed
      PROVE  /\ removed' /\ owner' = NoOwner /\ runPhase' = "terminal"
             /\ \A o \in Ops : ~Admits(o)
  <2>1. removed'
    BY <1>1, RemovedStays
  <2>2. owner' = NoOwner /\ runPhase' = "terminal"
    BY <1>1, <2>1, PermitStep DEF PermitInv, EntryInv
  <2>3. ASSUME NEW o \in Ops PROVE ~Admits(o)
    BY <1>1, EffectIsChecked, CheckedIsHolder
  <2>4. QED
    BY <2>1, <2>2, <2>3
<1>2. TypeInv /\ TokenInv /\ PermitInv /\ [Next]_vars =>
        [removed => /\ removed' /\ owner' = NoOwner /\ runPhase' = "terminal"
                    /\ \A o \in Ops : ~Admits(o)]_vars
  BY <1>1
<1>3. QED
  BY PermitsHold, <1>2, PTL DEF Spec, TombstoneIsFinal

-----------------------------------------------------------------------------
(* The run: who closes what.                                               *)

\* An effect that has neither returned nor failed.
Busy(o) == Minted(o) /\ ~RawReturned(o)

\* A restart that may still stage or publish a run.
Restarting(o) == kind[o] = "restart" /\ pc[o] \in {"running", "sealed", "composite"}
NoRestart == \A o \in Ops : ~Restarting(o)

\* A quarantined backend does not carry a running run: only the commit of a
\* restart ends the quarantine, and it publishes a run of its own.
QuarantineEnds == quarantined => runPhase # "active"

\* Only a device's restart stages a run. While it has one it has the Manager's
\* token, and the session hides the transition.
StagesAt(o) ==
  /\ kind[o] = "restart" => ByDevice(o)
  /\ raw[o] \in {"closed", "staged", "launching", "launched"} => kind[o] = "restart"
  /\ stage[o] # NoStage => Minted(o) /\ kind[o] = "restart" /\ mgr = o /\ runPhase # "active"

\* An effect that its caller gave up: the backend stays quarantined, because no
\* restart that would end the quarantine is under way or can begin.
AbandonedAt(o) == Busy(o) /\ pc[o] # "running" => quarantined /\ NoRestart

\* While a call has the lane or the Manager's token the run is the one its permit
\* names, up to its own commit.
OwnRunAt(o) == Minted(o) /\ (mgr = o \/ (lane = o /\ pc[o] # "committed")) => permit[o].run = runEpoch

\* What a seal relies on, what a commit leaves behind, and what a composite
\* restart may count on.
CommitsAt(o) ==
  /\ pc[o] \in PreparedPcs => raw[o] = "ok"
  /\ pc[o] = "committed" /\ kind[o] \in {"stop", "remove"} => runPhase # "active"
  /\ pc[o] = "composite" => proc # "gone"

\* A fence that waits for a sealed commit has told it.
ToldAt(o) == Awaited(o) => post[o] /\ raw[o] = "ok"

\* Each of them, for every call.
Stages == \A o \in Ops : StagesAt(o)
Abandoned == \A o \in Ops : AbandonedAt(o)
OwnRun == \A o \in Ops : OwnRunAt(o)
Commits == \A o \in Ops : CommitsAt(o)
FencesTold == \A o \in Ops : ToldAt(o)

\* A lifecycle that will still make the run it knows terminal.
WillClose(o) ==
  /\ Minted(o) /\ permit[o].run = runEpoch
  /\ \/ pc[o] = "reconcile"
     \/ pc[o] \in {"sealed", "abandon"} /\ kind[o] \in {"stop", "remove"}
     \/ pc[o] \in {"running", "finish", "abort"} /\ kind[o] = "restart" /\ raw[o] \in {"closed", "failed"}

\* A run whose process is gone unseen is about to be closed.
Ghost == proc = "gone" /\ runPhase = "active" /\ obsBackend = backendEpoch
GhostIsMet == Ghost => \E o \in Ops : WillClose(o)

\* A device in grace is the holder; and the grace has its timer (GraceHasTimer).
GraceInv ==
  /\ owner.phase = "grace" => owner.kind = "device"
  /\ RemovalPrepared => seal # NoSeal
  /\ GraceHasTimer

\* The inductive invariant of the run.
RunInv == QuarantineEnds /\ Stages /\ Abandoned /\ OwnRun /\ Commits /\ GhostIsMet /\ FencesTold /\ GraceInv


-----------------------------------------------------------------------------
(* Steps that leave a part of the invariant alone.                         *)

\* A part of the invariant stays as it is while nothing that it reads changes.
LEMMA RunQuiet ==
  ASSUME RunInv
  PROVE  /\ UNCHANGED <<quarantined, runPhase>> => QuarantineEnds'
         /\ UNCHANGED <<kind, actor, raw, stage, mgr, runPhase>> => Stages'
         /\ UNCHANGED <<raw, pc, quarantined, kind>> => Abandoned'
         /\ UNCHANGED <<raw, mgr, lane, pc, permit, runEpoch>> => OwnRun'
         /\ UNCHANGED <<pc, kind, raw, runPhase, proc>> => Commits'
         /\ UNCHANGED <<proc, runPhase, obsBackend, backendEpoch, raw, permit, runEpoch, pc, kind>> => GhostIsMet'
         /\ UNCHANGED <<stopWait, revWait, post, raw>> => FencesTold'
         /\ UNCHANGED <<owner, controlEpoch, timer, callbacks, seal, prepared, kind>> => GraceInv'
<1>1. UNCHANGED <<quarantined, runPhase>> => QuarantineEnds'
  BY DEF RunInv, QuarantineEnds
<1>2. UNCHANGED <<kind, actor, raw, stage, mgr, runPhase>> => Stages'
  BY DEF RunInv, Stages, StagesAt, ByDevice, Minted
<1>3. UNCHANGED <<raw, pc, quarantined, kind>> => Abandoned'
  BY DEF RunInv, Abandoned, AbandonedAt, Busy, Minted, RawReturned, NoRestart, Restarting
<1>4. UNCHANGED <<raw, mgr, lane, pc, permit, runEpoch>> => OwnRun'
  BY DEF RunInv, OwnRun, OwnRunAt, Minted
<1>5. UNCHANGED <<pc, kind, raw, runPhase, proc>> => Commits'
  BY DEF RunInv, Commits, CommitsAt
<1>6. UNCHANGED <<proc, runPhase, obsBackend, backendEpoch, raw, permit, runEpoch, pc, kind>> => GhostIsMet'
  BY DEF RunInv, GhostIsMet, Ghost, WillClose, Minted
<1>7. UNCHANGED <<stopWait, revWait, post, raw>> => FencesTold'
  BY DEF RunInv, FencesTold, ToldAt, Awaited
<1>8. UNCHANGED <<owner, controlEpoch, timer, callbacks, seal, prepared, kind>> => GraceInv'
  BY DEF RunInv, GraceInv, GraceHasTimer, RemovalPrepared
<1> QED
  BY <1>1, <1>2, <1>3, <1>4, <1>5, <1>6, <1>7, <1>8

\* A step of call o leaves the other calls where they are.
OthersStay(o) ==
  \A q \in Ops \ {o} :
    /\ pc'[q] = pc[q] /\ kind'[q] = kind[q] /\ actor'[q] = actor[q] /\ raw'[q] = raw[q]
    /\ permit'[q] = permit[q] /\ stage'[q] = stage[q] /\ post'[q] = post[q]

\* The stages of the other calls: the Manager's token is not taken from them and
\* only its owner shows a run as running.
LEMMA StagesOf ==
  ASSUME RunInv, NEW o \in Ops, OthersStay(o), StagesAt(o)',
         mgr' = mgr \/ mgr \in {o, NoOp},
         runPhase' = "active" => runPhase = "active" \/ mgr = o
  PROVE  Stages'
<1>1. ASSUME NEW q \in Ops, q # o PROVE StagesAt(q)'
  BY <1>1, ConstantsAssumption DEF RunInv, Stages, StagesAt, OthersStay, ByDevice, Minted
<1>2. QED
  BY <1>1 DEF Stages

\* The abandoned effects of the other calls: a quarantine without restarts lasts.
LEMMA AbandonedOf ==
  ASSUME RunInv, NEW o \in Ops, OthersStay(o),
         Busy(o)' /\ pc'[o] # "running" =>
           (Busy(o) /\ pc[o] # "running") \/ (quarantined' /\ NoRestart'),
         quarantined /\ ~Restarting(o) => quarantined' /\ ~Restarting(o)'
  PROVE  Abandoned'
<1>1. quarantined /\ NoRestart => quarantined' /\ NoRestart'
  BY DEF NoRestart, Restarting, OthersStay
<1>2. AbandonedAt(o)'
  BY <1>1 DEF RunInv, Abandoned, AbandonedAt
<1>3. ASSUME NEW q \in Ops, q # o PROVE AbandonedAt(q)'
  BY <1>1, <1>3 DEF RunInv, Abandoned, AbandonedAt, Busy, Minted, RawReturned, OthersStay
<1>4. QED
  BY <1>2, <1>3 DEF Abandoned

\* The runs of the other calls: the run changes only under o's lane and token.
LEMMA OwnRunOf ==
  ASSUME RunInv, NEW o \in Ops, OthersStay(o), OwnRunAt(o)',
         mgr' \in {mgr, o, NoOp}, lane' \in {lane, o, NoOp},
         runEpoch' = runEpoch \/ (mgr' \in {o, NoOp} /\ lane' \in {o, NoOp})
  PROVE  OwnRun'
<1>1. ASSUME NEW q \in Ops, q # o PROVE OwnRunAt(q)'
  BY <1>1, ConstantsAssumption DEF RunInv, OwnRun, OwnRunAt, OthersStay, Minted
<1>2. QED
  BY <1>1 DEF RunInv, OwnRun

\* What the commits of the other calls have left.
LEMMA CommitsOf ==
  ASSUME RunInv, NEW o \in Ops, OthersStay(o), CommitsAt(o)',
         runPhase' = "active" => runPhase = "active" \/ \A q \in Ops \ {o} : pc[q] # "committed",
         proc' = "gone" => proc = "gone" \/ \A q \in Ops \ {o} : pc[q] # "composite"
  PROVE  Commits'
<1>1. ASSUME NEW q \in Ops, q # o PROVE CommitsAt(q)'
  BY <1>1 DEF RunInv, Commits, CommitsAt, OthersStay
<1>2. QED
  BY <1>1 DEF RunInv, Commits

\* Who will close an unseen exit goes on, or has closed it.
LEMMA GhostOf ==
  ASSUME RunInv, NEW o \in Ops, OthersStay(o), runEpoch' = runEpoch,
         WillClose(o) => WillClose(o)' \/ runPhase' # "active",
         Ghost' => Ghost \/ WillClose(o)'
  PROVE  GhostIsMet'
<1>1. ASSUME NEW q \in Ops, q # o PROVE WillClose(q) => WillClose(q)'
  BY <1>1 DEF RunInv, WillClose, OthersStay, Minted
<1>2. QED
  BY <1>1 DEF RunInv, GhostIsMet, Ghost

\* The fences of the other calls; an effect that is awaited has returned.
LEMMA ToldOf ==
  ASSUME RunInv, NEW o \in Ops, OthersStay(o), UNCHANGED <<stopWait, revWait, post>>,
         raw[o] = "ok" => raw'[o] = "ok"
  PROVE  FencesTold'
<1>1. \A q \in Ops : raw[q] = "ok" => raw'[q] = "ok"
  BY DEF OthersStay
<1>2. QED
  BY <1>1 DEF RunInv, FencesTold, ToldAt, Awaited

\* A step after which the holder is not in grace, or which leaves grace and its
\* timer alone, or which a sealed removal makes pass.
LEMMA GraceOf ==
  ASSUME RunInv, UNCHANGED <<seal, prepared, kind>>,
         \/ owner'.phase # "grace"
         \/ UNCHANGED <<owner, controlEpoch, timer, callbacks>>
         \/ UNCHANGED <<owner, controlEpoch>> /\ RemovalPrepared
  PROVE  GraceInv'
  BY DEF RunInv, GraceInv, GraceHasTimer, RemovalPrepared

\* What the types say of the calls.
LEMMA Arrays ==
  ASSUME TypeInv
  PROVE  /\ pc \in [Ops -> PcType] /\ raw \in [Ops -> RawType]
         /\ kind \in [Ops -> DataKinds \cup LifecycleKinds \cup {"none"}]
         /\ actor \in [Ops -> Devices \cup {Desktop}] /\ opLease \in [Ops -> Nat]
         /\ permit \in [Ops -> PermitType]
         /\ fenced \in [Ops -> BOOLEAN] /\ post \in [Ops -> BOOLEAN]
         /\ stage \in [Ops -> [run : Nat, backend : Nat]]
         /\ prepared \in Ops \cup {NoOp}
  BY DEF TypeInv, TypeOK, CallTypeOK

\* What they say of the revocations that wait for calls.
LEMMA RevWaits == TypeInv => revWait \in [Devices -> Ops \cup {NoOp}]
  BY DEF TypeInv, TypeOK, PlaneTypeOK

\* An epoch is a number.
LEMMA EpochIsNat == TypeInv => controlEpoch \in Nat
  BY DEF TypeInv, TypeOK, EntryTypeOK

\* A call whose token is prepared has its effect behind it.
LEMMA PreparedReturned ==
  ASSUME TokenInv, RunInv, NEW o \in Ops, prepared = o
  PROVE  pc[o] \in PreparedPcs /\ raw[o] = "ok"
  BY DEF TokenInv, PreparedOwned, RunInv, Commits, CommitsAt

-----------------------------------------------------------------------------
(* Attachments.                                                            *)

\* Connections move the holder, at most into or out of grace.
LEMMA AttachRuns == ASSUME TypeInv, TokenInv, PermitInv, RunInv, AttachStep PROVE RunInv'
<1>1. ASSUME NEW d \in Devices, ReserveAttach(d) PROVE RunInv'
  BY <1>1, RunQuiet DEF ReserveAttach, RunInv
<1>2. ASSUME NEW d \in Devices, CommitAttach(d) PROVE RunInv'
  <2>1. UNCHANGED <<callbacks, seal, prepared, kind, actor, raw, stage, mgr, runPhase,
                    pc, quarantined, lane, permit, runEpoch, proc, obsBackend,
                    backendEpoch, stopWait, revWait, post>>
    BY <1>2 DEF CommitAttach, CancelGraceTimer
  <2>2. QuarantineEnds' /\ Stages' /\ Abandoned' /\ OwnRun' /\ Commits' /\ GhostIsMet' /\ FencesTold'
    BY <2>1, RunQuiet
  <2>3. GraceInv'
    BY <1>2, <2>1, GraceOf DEF CommitAttach, CancelGraceTimer, DeviceOwner
  <2> QED
    BY <2>2, <2>3 DEF RunInv
<1>3. ASSUME NEW d \in Devices, AbortAttach(d) PROVE RunInv'
  BY <1>3, RunQuiet DEF AbortAttach, RunInv
<1>4. ASSUME NEW d \in Devices, NEW how \in CloseKinds, Detach(d, how) PROVE RunInv'
  BY <1>4, RunQuiet DEF Detach, RunInv
<1>5. ASSUME NEW n \in lost, UnexpectedDetach(n) PROVE RunInv'
  <2>1. UNCHANGED <<callbacks, seal, prepared, kind, actor, raw, stage, mgr, runPhase,
                    pc, quarantined, lane, permit, runEpoch, proc, obsBackend,
                    backendEpoch, stopWait, revWait, post>>
    BY <1>5 DEF UnexpectedDetach
  <2>2. QuarantineEnds' /\ Stages' /\ Abandoned' /\ OwnRun' /\ Commits' /\ GhostIsMet' /\ FencesTold'
    BY <2>1, RunQuiet
  <2>3. GraceInv'
    BY <1>5, <2>1
       DEF UnexpectedDetach, ArmGraceTimer, DeviceOwner, RunInv, GraceInv, GraceHasTimer,
         RemovalPrepared, TypeInv, TypeOK, EntryTypeOK, OwnerType
  <2> QED
    BY <2>2, <2>3 DEF RunInv
<1>6. QED
  BY <1>1, <1>2, <1>3, <1>4, <1>5 DEF AttachStep

-----------------------------------------------------------------------------
(* Grace timers, acquire and release.                                      *)

\* Nor does a transition of the holder touch the run.
LEMMA HolderRuns == ASSUME TypeInv, TokenInv, PermitInv, RunInv, HolderStep PROVE RunInv'
<1>1. CASE TimerFires
  <2>1. UNCHANGED <<owner, controlEpoch, seal, prepared, kind, actor, raw, stage, mgr,
                    runPhase, pc, quarantined, lane, permit, runEpoch, proc,
                    obsBackend, backendEpoch, stopWait, revWait, post>>
    BY <1>1 DEF TimerFires
  <2>2. QuarantineEnds' /\ Stages' /\ Abandoned' /\ OwnRun' /\ Commits' /\ GhostIsMet' /\ FencesTold'
    BY <2>1, RunQuiet
  <2>3. GraceInv'
    BY <1>1, <2>1
       DEF TimerFires, RunInv, GraceInv, GraceHasTimer, RemovalPrepared, TypeInv, TypeOK,
         EntryTypeOK
  <2> QED
    BY <2>2, <2>3 DEF RunInv
<1>2. ASSUME NEW desc \in callbacks, ExpireGrace(desc) PROVE RunInv'
  <2>1. UNCHANGED <<timer, seal, prepared, kind, actor, raw, stage, mgr, runPhase, pc,
                    quarantined, lane, permit, runEpoch, proc, obsBackend,
                    backendEpoch, stopWait, revWait, post>>
    BY <1>2 DEF ExpireGrace, CommitTransition
  <2>2. QuarantineEnds' /\ Stages' /\ Abandoned' /\ OwnRun' /\ Commits' /\ GhostIsMet' /\ FencesTold'
    BY <2>1, RunQuiet
  <2>3. GraceInv'
    <3>1. CASE RemovalPrepared
      BY <1>2, <2>1, <3>1, GraceOf DEF ExpireGrace, CommitTransition
    <3>2. CASE owner'.phase # "grace"
      BY <2>1, <3>2, GraceOf
    <3>3. CASE UNCHANGED <<owner, controlEpoch>> /\ ~(controlEpoch = desc.epoch /\ owner.gen = desc.gen)
      <4>1. [epoch |-> controlEpoch, gen |-> owner.gen] # desc
        BY <3>3
      <4>2. QED
        BY <1>2, <2>1, <3>3, <4>1
           DEF ExpireGrace, RunInv, GraceInv, GraceHasTimer, RemovalPrepared
    <3>4. removed => owner.phase # "grace"
      BY DEF PermitInv, EntryInv, NoOwner
    <3> QED
      BY <1>2, <3>1, <3>2, <3>3, <3>4
         DEF ExpireGrace, CommitTransition, NoOwner, RunInv, GraceInv
  <2> QED
    BY <2>2, <2>3 DEF RunInv
<1>3. ASSUME NEW d \in Devices, AcquireCheck(d) PROVE RunInv'
  BY <1>3, RunQuiet DEF AcquireCheck, RunInv
<1>4. ASSUME NEW d \in Devices, Release(d) PROVE RunInv'
  <2>1. UNCHANGED <<callbacks, seal, prepared, kind, actor, raw, stage, mgr, runPhase,
                    pc, quarantined, lane, permit, runEpoch, proc, obsBackend,
                    backendEpoch, stopWait, revWait, post>>
    BY <1>4 DEF Release, CommitTransition, CancelGraceTimer, TakeDesktop
  <2>2. QuarantineEnds' /\ Stages' /\ Abandoned' /\ OwnRun' /\ Commits' /\ GhostIsMet' /\ FencesTold'
    BY <2>1, RunQuiet
  <2>3. GraceInv'
    BY <1>4, <2>1, GraceOf DEF Release, CommitTransition, CancelGraceTimer, NoOwner, DeviceOwner
  <2> QED
    BY <2>2, <2>3 DEF RunInv
<1>5. CASE AcquireCommit
  <2>1. UNCHANGED <<callbacks, seal, prepared, kind, actor, raw, stage, mgr, runPhase,
                    pc, quarantined, lane, permit, runEpoch, proc, obsBackend,
                    backendEpoch, stopWait, revWait, post>>
    BY <1>5 DEF AcquireCommit, CommitTransition, CancelGraceTimer, TakeDesktop
  <2>2. QuarantineEnds' /\ Stages' /\ Abandoned' /\ OwnRun' /\ Commits' /\ GhostIsMet' /\ FencesTold'
    BY <2>1, RunQuiet
  <2>3. GraceInv'
    BY <1>5, <2>1, GraceOf
       DEF AcquireCommit, CommitTransition, CancelGraceTimer, NoOwner, DeviceOwner
  <2> QED
    BY <2>2, <2>3 DEF RunInv
<1>6. CASE ForceCheck
  BY <1>6, RunQuiet DEF ForceCheck, RunInv
<1>7. CASE ForceTake
  <2>1. UNCHANGED <<callbacks, seal, prepared, kind, actor, raw, stage, mgr, runPhase,
                    pc, quarantined, lane, permit, runEpoch, proc, obsBackend,
                    backendEpoch, stopWait, revWait, post>>
    BY <1>7 DEF ForceTake, CommitTransition, CancelGraceTimer, TakeDesktop
  <2>2. QuarantineEnds' /\ Stages' /\ Abandoned' /\ OwnRun' /\ Commits' /\ GhostIsMet' /\ FencesTold'
    BY <2>1, RunQuiet
  <2>3. GraceInv'
    <3>1. CASE TakeDesktop
      BY <1>7, <2>1, <3>1, GraceOf
         DEF ForceTake, TakeDesktop, CommitTransition, CancelGraceTimer, DesktopOwner,
           RunInv, GraceInv
    <3>2. CASE UNCHANGED <<owner, controlEpoch, timer>>
      BY <2>1, <3>2, RunQuiet
    <3> QED
      BY <1>7, <3>1, <3>2 DEF ForceTake
  <2> QED
    BY <2>2, <2>3 DEF RunInv
<1>8. CASE ForceRelease
  <2>1. UNCHANGED <<timer, callbacks, seal, prepared, kind, actor, raw, stage, mgr,
                    runPhase, pc, quarantined, lane, permit, runEpoch, proc,
                    obsBackend, backendEpoch, stopWait, revWait, post>>
    BY <1>8 DEF ForceRelease, CommitTransition
  <2>2. QuarantineEnds' /\ Stages' /\ Abandoned' /\ OwnRun' /\ Commits' /\ GhostIsMet' /\ FencesTold'
    BY <2>1, RunQuiet
  <2>3. GraceInv'
    BY <1>8, <2>1, GraceOf
       DEF ForceRelease, CommitTransition, CancelGraceTimer, NoOwner, DeviceOwner
  <2> QED
    BY <2>2, <2>3 DEF RunInv
<1>9. QED
  BY <1>1, <1>2, <1>3, <1>4, <1>5, <1>6, <1>7, <1>8 DEF HolderStep

-----------------------------------------------------------------------------
(* Revocations and server stops.                                           *)

\* A fence tells the sealed commit it will wait for.
LEMMA AuthorityRuns == ASSUME TypeInv, TokenInv, PermitInv, RunInv, AuthorityStep PROVE RunInv'
<1>1. ASSUME NEW d \in Devices, MarkRevoked(d) PROVE RunInv'
  BY <1>1, RunQuiet DEF MarkRevoked, RunInv
<1>2. ASSUME NEW d \in Devices, FenceRevoked(d) PROVE RunInv'
  <2>1. UNCHANGED <<owner, controlEpoch, timer, callbacks, seal, prepared, kind, actor,
                    raw, stage, mgr, runPhase, pc, quarantined, lane, permit,
                    runEpoch, proc, obsBackend, backendEpoch, stopWait>>
    BY <1>2 DEF FenceRevoked
  <2>2. QuarantineEnds' /\ Stages' /\ Abandoned' /\ OwnRun' /\ Commits' /\ GhostIsMet' /\ GraceInv'
    BY <2>1, RunQuiet
  <2>3. FencesTold'
    <3>1. ASSUME post' = PostFenced, \A q \in Ops : Awaited(q)' => Awaited(q) \/ q = prepared PROVE FencesTold'
      <4>1. \A q \in Ops : post'[q] = (post[q] \/ q = prepared)
        BY <3>1, Arrays, ConstantsAssumption DEF PostFenced
      <4>2. prepared \in Ops => raw[prepared] = "ok"
        BY PreparedReturned
      <4>3. QED
        BY <2>1, <3>1, <4>1, <4>2 DEF RunInv, FencesTold, ToldAt
    <3>2. CASE UNCHANGED <<post, revWait>>
      BY <2>1, <3>2, RunQuiet
    <3>3. QED
      BY <1>2, <2>1, <3>1, <3>2, RevWaits DEF FenceRevoked, Awaited
  <2> QED
    BY <2>2, <2>3 DEF RunInv
<1>3. ASSUME NEW d \in Devices, ReleaseRevoked(d) PROVE RunInv'
  <2>1. UNCHANGED <<callbacks, seal, prepared, kind, actor, raw, stage, mgr, runPhase,
                    pc, quarantined, lane, permit, runEpoch, proc, obsBackend,
                    backendEpoch, stopWait, revWait, post>>
    BY <1>3 DEF ReleaseRevoked, CommitTransition, CancelGraceTimer, TakeDesktop
  <2>2. QuarantineEnds' /\ Stages' /\ Abandoned' /\ OwnRun' /\ Commits' /\ GhostIsMet' /\ FencesTold'
    BY <2>1, RunQuiet
  <2>3. GraceInv'
    BY <1>3, <2>1, GraceOf
       DEF ReleaseRevoked, CommitTransition, CancelGraceTimer, NoOwner, DeviceOwner
  <2> QED
    BY <2>2, <2>3 DEF RunInv
<1>4. CASE StopAdmission
  BY <1>4, RunQuiet DEF StopAdmission, RunInv
<1>5. CASE StopFence
  <2>1. UNCHANGED <<owner, controlEpoch, timer, callbacks, seal, prepared, kind, actor,
                    raw, stage, mgr, runPhase, pc, quarantined, lane, permit,
                    runEpoch, proc, obsBackend, backendEpoch, revWait>>
    BY <1>5 DEF StopFence
  <2>2. QuarantineEnds' /\ Stages' /\ Abandoned' /\ OwnRun' /\ Commits' /\ GhostIsMet' /\ GraceInv'
    BY <2>1, RunQuiet
  <2>3. FencesTold'
    <3>1. ASSUME post' = PostFenced, \A q \in Ops : Awaited(q)' => Awaited(q) \/ q = prepared PROVE FencesTold'
      <4>1. \A q \in Ops : post'[q] = (post[q] \/ q = prepared)
        BY <3>1, Arrays, ConstantsAssumption DEF PostFenced
      <4>2. prepared \in Ops => raw[prepared] = "ok"
        BY PreparedReturned
      <4>3. QED
        BY <2>1, <3>1, <4>1, <4>2 DEF RunInv, FencesTold, ToldAt
    <3>2. QED
      BY <1>5, <2>1, <3>1 DEF StopFence, Awaited
  <2> QED
    BY <2>2, <2>3 DEF RunInv
<1>6. CASE StopFenced
  BY <1>6, RunQuiet DEF StopFenced, RunInv
<1>7. CASE StopRelease
  <2>1. UNCHANGED <<callbacks, seal, prepared, kind, actor, raw, stage, mgr, runPhase,
                    pc, quarantined, lane, permit, runEpoch, proc, obsBackend,
                    backendEpoch, stopWait, revWait, post>>
    BY <1>7 DEF StopRelease, CommitTransition, CancelGraceTimer, TakeDesktop
  <2>2. QuarantineEnds' /\ Stages' /\ Abandoned' /\ OwnRun' /\ Commits' /\ GhostIsMet' /\ FencesTold'
    BY <2>1, RunQuiet
  <2>3. GraceInv'
    BY <1>7, <2>1, GraceOf
       DEF StopRelease, CommitTransition, CancelGraceTimer, NoOwner, DeviceOwner
  <2> QED
    BY <2>2, <2>3 DEF RunInv
<1>8. CASE RestartRemote
  BY <1>8, RunQuiet DEF RestartRemote, RunInv
<1>9. QED
  BY <1>1, <1>2, <1>3, <1>4, <1>5, <1>6, <1>7, <1>8 DEF AuthorityStep

-----------------------------------------------------------------------------
(* The process.                                                            *)

\* An exit that is not shown has a lifecycle that will.
LEMMA ProcessRuns == ASSUME TypeInv, TokenInv, PermitInv, RunInv, ProcessStep PROVE RunInv'
<1>1. CASE ProcessExit
  <2>1. UNCHANGED <<owner, controlEpoch, timer, callbacks, seal, prepared, kind, actor,
                    raw, stage, mgr, runPhase, pc, quarantined, lane, permit,
                    runEpoch, obsBackend, backendEpoch, stopWait, revWait, post>>
    BY <1>1 DEF ProcessExit
  <2>2. QuarantineEnds' /\ Stages' /\ Abandoned' /\ OwnRun' /\ FencesTold' /\ GraceInv'
    BY <2>1, RunQuiet
  <2>3. Commits'
    BY <1>1, <2>1 DEF ProcessExit, RunInv, Commits, CommitsAt
  <2>4. GhostIsMet'
    BY <1>1, <2>1 DEF ProcessExit, RunInv, GhostIsMet, Ghost, WillClose, Minted
  <2> QED
    BY <2>2, <2>3, <2>4 DEF RunInv
<1>2. CASE ObserveExit
  <2>1. UNCHANGED <<owner, controlEpoch, timer, callbacks, seal, prepared, kind, actor,
                    raw, stage, mgr, pc, quarantined, lane, permit, runEpoch,
                    obsBackend, backendEpoch, stopWait, revWait, post>>
    BY <1>2 DEF ObserveExit
  <2>2. Abandoned' /\ OwnRun' /\ FencesTold' /\ GraceInv'
    BY <2>1, RunQuiet
  <2>3. QuarantineEnds'
    BY <1>2, <2>1 DEF ObserveExit, RunInv, QuarantineEnds
  <2>4. Stages'
    <3>1. runPhase' = "active" => runPhase = "active"
      BY <1>2 DEF ObserveExit
    <3> QED
      BY <2>1, <3>1 DEF RunInv, Stages, StagesAt, ByDevice, Minted
  <2>5. Commits'
    <3>1. runPhase' = "active" => runPhase = "active"
      BY <1>2 DEF ObserveExit
    <3>2. \A q \in Ops : pc[q] # "composite"
      BY <1>2 DEF ObserveExit, Composite, PermitInv, SealInv
    <3> QED
      BY <2>1, <3>1, <3>2 DEF RunInv, Commits, CommitsAt
  <2>6. GhostIsMet'
    <3> SUFFICES ASSUME Ghost' PROVE \E q \in Ops : WillClose(q)'
      BY DEF GhostIsMet
    <3>1. runPhase = "active" /\ obsBackend = backendEpoch
      BY <1>2, <2>1 DEF ObserveExit, Ghost
    <3>2. ~Staged /\ ~removed
      BY <3>1 DEF Staged, RunInv, Stages, StagesAt, PermitInv, EntryInv
    <3>3. CloseSealed
      BY <1>2, <2>1, <3>1, <3>2 DEF ObserveExit, Ghost
    <3>4. prepared \in Ops /\ kind[prepared] \in {"stop", "remove"}
      BY <3>3, Arrays DEF CloseSealed
    <3>5. pc[prepared] \in {"sealed", "abandon"} /\ raw[prepared] = "ok" /\ lane = prepared
      BY <3>1, <3>4, PreparedReturned
         DEF PreparedPcs, PermitInv, SealInv, RunInv, Commits, CommitsAt, TokenInv,
           LaneOwned, LanePcs
    <3>6. permit[prepared].run = runEpoch
      BY <3>4, <3>5 DEF RunInv, OwnRun, OwnRunAt, Minted
    <3>7. WillClose(prepared)
      BY <3>4, <3>5, <3>6 DEF WillClose, Minted
    <3> QED
      BY <2>1, <3>4, <3>7 DEF WillClose, Minted
  <2> QED
    BY <2>2, <2>3, <2>4, <2>5, <2>6 DEF RunInv
<1>3. ASSUME NEW e \in receipts, ConfirmDetach(e) PROVE RunInv'
  BY <1>3, RunQuiet DEF ConfirmDetach, RunInv
<1>4. QED
  BY <1>1, <1>2, <1>3 DEF ProcessStep

-----------------------------------------------------------------------------
(* Entering a call.                                                        *)

\* A call that begins has no effect, no stage and no fence that waits for it.
LEMMA BeginRuns == ASSUME TypeInv, TokenInv, PermitInv, RunInv, NEW o \in Ops, BeginCall(o) PROVE RunInv'
<1>1. CASE BeginDesktopWrite(o)
  <2>1. UNCHANGED <<callbacks, seal, prepared, raw, stage, mgr, runPhase, quarantined,
                    lane, permit, runEpoch, proc, obsBackend, backendEpoch,
                    stopWait, revWait, post>>
    BY <1>1 DEF BeginDesktopWrite, TakeDesktop, CancelGraceTimer, CommitTransition, Identify
  <2>2. pc[o] = "idle" /\ kind'[o] = "write" /\ pc'[o] \in {"lane", "done"}
    BY <1>1, Arrays DEF BeginDesktopWrite, Identify
  <2>3. raw[o] = "none" /\ stage[o] = NoStage /\ prepared # o
    BY <2>1, <2>2
       DEF PermitInv, PermitBehind, Minted, RunInv, Stages, StagesAt, TokenInv,
         PreparedOwned, PreparedPcs
  <2>4. OthersStay(o)
    BY <1>1, Arrays
       DEF BeginDesktopWrite, OthersStay, TakeDesktop, CancelGraceTimer, CommitTransition,
         Identify
  <2>5. QuarantineEnds' /\ FencesTold'
    BY <2>1, RunQuiet
  <2>6. Stages'
    BY <2>1, <2>2, <2>3, <2>4, StagesOf DEF RunInv, Stages, StagesAt, Minted, ByDevice
  <2>7. Abandoned'
    BY <2>1, <2>2, <2>3, <2>4, AbandonedOf DEF Busy, Minted, RawReturned, Restarting
  <2>8. OwnRun'
    BY <2>1, <2>2, <2>3, <2>4, OwnRunOf DEF RunInv, OwnRun, OwnRunAt, Minted
  <2>9. Commits'
    BY <2>1, <2>2, <2>3, <2>4, CommitsOf DEF RunInv, Commits, CommitsAt, PreparedPcs
  <2>10. GhostIsMet'
    BY <2>1, <2>2, <2>3, <2>4, GhostOf DEF Ghost, WillClose, Minted
  <2>11. GraceInv'
    <3>1. RemovalPrepared' <=> RemovalPrepared
      BY <2>1, <2>2, <2>3, <2>4, Arrays, ConstantsAssumption DEF OthersStay, RemovalPrepared
    <3> QED
      BY <1>1, <2>1, <3>1
         DEF BeginDesktopWrite, TakeDesktop, CommitTransition, CancelGraceTimer,
           DesktopOwner, RunInv, GraceInv, GraceHasTimer
  <2> QED
    BY <2>5, <2>6, <2>7, <2>8, <2>9, <2>10, <2>11 DEF RunInv
<1>2. CASE BeginDesktopResize(o)
  <2>1. UNCHANGED <<owner, controlEpoch, timer, callbacks, seal, prepared, raw, stage,
                    mgr, runPhase, quarantined, lane, permit, runEpoch, proc,
                    obsBackend, backendEpoch, stopWait, revWait, post>>
    BY <1>2 DEF BeginDesktopResize, Identify
  <2>2. pc[o] = "idle" /\ kind'[o] = "resize" /\ pc'[o] = "lane"
    BY <1>2, Arrays DEF BeginDesktopResize, Identify
  <2>3. raw[o] = "none" /\ stage[o] = NoStage /\ prepared # o
    BY <2>1, <2>2
       DEF PermitInv, PermitBehind, Minted, RunInv, Stages, StagesAt, TokenInv,
         PreparedOwned, PreparedPcs
  <2>4. OthersStay(o)
    BY <1>2, Arrays DEF BeginDesktopResize, OthersStay, Identify
  <2>5. QuarantineEnds' /\ FencesTold'
    BY <2>1, RunQuiet
  <2>6. Stages'
    BY <2>1, <2>2, <2>3, <2>4, StagesOf DEF RunInv, Stages, StagesAt, Minted, ByDevice
  <2>7. Abandoned'
    BY <2>1, <2>2, <2>3, <2>4, AbandonedOf DEF Busy, Minted, RawReturned, Restarting
  <2>8. OwnRun'
    BY <2>1, <2>2, <2>3, <2>4, OwnRunOf DEF RunInv, OwnRun, OwnRunAt, Minted
  <2>9. Commits'
    BY <2>1, <2>2, <2>3, <2>4, CommitsOf DEF RunInv, Commits, CommitsAt, PreparedPcs
  <2>10. GhostIsMet'
    BY <2>1, <2>2, <2>3, <2>4, GhostOf DEF Ghost, WillClose, Minted
  <2>11. GraceInv'
    <3>1. RemovalPrepared' <=> RemovalPrepared
      BY <2>1, <2>2, <2>3, <2>4, Arrays, ConstantsAssumption DEF OthersStay, RemovalPrepared
    <3> QED
      BY <2>1, <3>1 DEF RunInv, GraceInv, GraceHasTimer
  <2> QED
    BY <2>5, <2>6, <2>7, <2>8, <2>9, <2>10, <2>11 DEF RunInv
<1>3. ASSUME NEW d \in Devices, BeginDeviceWrite(o, d) PROVE RunInv'
  <2>1. UNCHANGED <<owner, controlEpoch, timer, callbacks, seal, prepared, raw, stage,
                    mgr, runPhase, quarantined, lane, permit, runEpoch, proc,
                    obsBackend, backendEpoch, stopWait, revWait, post>>
    BY <1>3 DEF BeginDeviceWrite, Identify
  <2>2. pc[o] = "idle" /\ kind'[o] = "write" /\ pc'[o] = "lane"
    BY <1>3, Arrays DEF BeginDeviceWrite, Identify
  <2>3. raw[o] = "none" /\ stage[o] = NoStage /\ prepared # o
    BY <2>1, <2>2
       DEF PermitInv, PermitBehind, Minted, RunInv, Stages, StagesAt, TokenInv,
         PreparedOwned, PreparedPcs
  <2>4. OthersStay(o)
    BY <1>3, Arrays DEF BeginDeviceWrite, OthersStay, Identify
  <2>5. QuarantineEnds' /\ FencesTold'
    BY <2>1, RunQuiet
  <2>6. Stages'
    BY <2>1, <2>2, <2>3, <2>4, StagesOf DEF RunInv, Stages, StagesAt, Minted, ByDevice
  <2>7. Abandoned'
    BY <2>1, <2>2, <2>3, <2>4, AbandonedOf DEF Busy, Minted, RawReturned, Restarting
  <2>8. OwnRun'
    BY <2>1, <2>2, <2>3, <2>4, OwnRunOf DEF RunInv, OwnRun, OwnRunAt, Minted
  <2>9. Commits'
    BY <2>1, <2>2, <2>3, <2>4, CommitsOf DEF RunInv, Commits, CommitsAt, PreparedPcs
  <2>10. GhostIsMet'
    BY <2>1, <2>2, <2>3, <2>4, GhostOf DEF Ghost, WillClose, Minted
  <2>11. GraceInv'
    <3>1. RemovalPrepared' <=> RemovalPrepared
      BY <2>1, <2>2, <2>3, <2>4, Arrays, ConstantsAssumption DEF OthersStay, RemovalPrepared
    <3> QED
      BY <2>1, <3>1 DEF RunInv, GraceInv, GraceHasTimer
  <2> QED
    BY <2>5, <2>6, <2>7, <2>8, <2>9, <2>10, <2>11 DEF RunInv
<1>4. ASSUME NEW k \in LifecycleKinds, NEW a \in Devices \cup {Desktop}, BeginLifecycle(o, k, a) PROVE RunInv'
  <2>1. UNCHANGED <<owner, controlEpoch, timer, callbacks, seal, prepared, raw, stage,
                    runPhase, quarantined, lane, permit, runEpoch, proc,
                    obsBackend, backendEpoch, stopWait, revWait, post>>
    BY <1>4 DEF BeginLifecycle, Identify, ManagerFree
  <2>2. /\ pc[o] = "idle" /\ kind'[o] = k /\ actor'[o] = a /\ pc'[o] = "intent"
        /\ k = "restart" => a \in Devices
        /\ mgr = NoOp /\ mgr' = o
    BY <1>4, Arrays DEF BeginLifecycle, Identify, ManagerFree
  <2>3. raw[o] = "none" /\ stage[o] = NoStage /\ prepared # o
    BY <2>1, <2>2
       DEF PermitInv, PermitBehind, Minted, RunInv, Stages, StagesAt, TokenInv,
         PreparedOwned, PreparedPcs
  <2>4. OthersStay(o)
    BY <1>4, Arrays DEF BeginLifecycle, OthersStay, Identify, ManagerFree
  <2>5. QuarantineEnds' /\ FencesTold'
    BY <2>1, RunQuiet
  <2>6. Stages'
    BY <2>1, <2>2, <2>3, <2>4, StagesOf DEF RunInv, Stages, StagesAt, Minted, ByDevice
  <2>7. Abandoned'
    BY <2>1, <2>2, <2>3, <2>4, AbandonedOf DEF Busy, Minted, RawReturned, Restarting
  <2>8. OwnRun'
    BY <2>1, <2>2, <2>3, <2>4, OwnRunOf DEF RunInv, OwnRun, OwnRunAt, Minted
  <2>9. Commits'
    BY <2>1, <2>2, <2>3, <2>4, CommitsOf DEF RunInv, Commits, CommitsAt, PreparedPcs
  <2>10. GhostIsMet'
    BY <2>1, <2>2, <2>3, <2>4, GhostOf DEF Ghost, WillClose, Minted
  <2>11. GraceInv'
    <3>1. RemovalPrepared' <=> RemovalPrepared
      BY <2>1, <2>2, <2>3, <2>4, Arrays, ConstantsAssumption DEF OthersStay, RemovalPrepared
    <3> QED
      BY <2>1, <3>1 DEF RunInv, GraceInv, GraceHasTimer
  <2> QED
    BY <2>5, <2>6, <2>7, <2>8, <2>9, <2>10, <2>11 DEF RunInv
<1>5. QED
  BY <1>1, <1>2, <1>3, <1>4 DEF BeginCall

-----------------------------------------------------------------------------
(* Raw effects.                                                            *)

\* An effect closes the process of its own run only.
LEMMA RawRuns == ASSUME TypeInv, TokenInv, PermitInv, RunInv, NEW o \in Ops, RawStep(o) PROVE RunInv'
<1>1. CASE Checkpoint(o)
  <2>1. UNCHANGED <<owner, controlEpoch, timer, callbacks, seal, prepared, kind, actor,
                    stage, mgr, runPhase, pc, quarantined, lane, permit,
                    runEpoch, proc, obsBackend, backendEpoch, stopWait, revWait,
                    post>>
    BY <1>1 DEF Checkpoint
  <2>2. raw[o] = "ready" /\ raw'[o] \in {"effect", "refused"}
    BY <1>1, Arrays DEF Checkpoint
  <2>3. OthersStay(o)
    BY <1>1, Arrays DEF Checkpoint, OthersStay
  <2>4. QuarantineEnds' /\ GraceInv'
    BY <2>1, RunQuiet
  <2>5. Stages'
    BY <2>1, <2>2, <2>3, StagesOf DEF RunInv, Stages, StagesAt, Minted, ByDevice
  <2>6. Abandoned'
    BY <2>1, <2>2, <2>3, AbandonedOf DEF Busy, Minted, RawReturned, Restarting
  <2>7. OwnRun'
    BY <2>1, <2>2, <2>3, OwnRunOf DEF RunInv, OwnRun, OwnRunAt, Minted
  <2>8. Commits'
    BY <2>1, <2>2, <2>3, CommitsOf DEF RunInv, Commits, CommitsAt, PreparedPcs
  <2>9. GhostIsMet'
    BY <2>1, <2>2, <2>3, GhostOf DEF Ghost, WillClose, Minted
  <2>10. FencesTold'
    BY <2>1, <2>2, <2>3, ToldOf
  <2> QED
    BY <2>4, <2>5, <2>6, <2>7, <2>8, <2>9, <2>10 DEF RunInv
<1>2. CASE WriteDone(o)
  <2>1. UNCHANGED <<owner, controlEpoch, timer, callbacks, seal, prepared, kind, actor,
                    stage, mgr, runPhase, pc, quarantined, lane, permit,
                    runEpoch, proc, obsBackend, backendEpoch, stopWait, revWait,
                    post>>
    BY <1>2 DEF WriteDone
  <2>2. raw[o] = "effect" /\ raw'[o] = "ok"
    BY <1>2, Arrays DEF WriteDone
  <2>3. OthersStay(o)
    BY <1>2, Arrays DEF WriteDone, OthersStay
  <2>4. QuarantineEnds' /\ GraceInv'
    BY <2>1, RunQuiet
  <2>5. Stages'
    BY <2>1, <2>2, <2>3, StagesOf DEF RunInv, Stages, StagesAt, Minted, ByDevice
  <2>6. Abandoned'
    BY <2>1, <2>2, <2>3, AbandonedOf DEF Busy, Minted, RawReturned, Restarting
  <2>7. OwnRun'
    BY <2>1, <2>2, <2>3, OwnRunOf DEF RunInv, OwnRun, OwnRunAt, Minted
  <2>8. Commits'
    BY <2>1, <2>2, <2>3, CommitsOf DEF RunInv, Commits, CommitsAt, PreparedPcs
  <2>9. GhostIsMet'
    BY <2>1, <2>2, <2>3, GhostOf DEF Ghost, WillClose, Minted
  <2>10. FencesTold'
    BY <2>1, <2>2, <2>3, ToldOf
  <2> QED
    BY <2>4, <2>5, <2>6, <2>7, <2>8, <2>9, <2>10 DEF RunInv
<1>3. CASE CloseDone(o)
  <2>1. UNCHANGED <<owner, controlEpoch, timer, callbacks, seal, prepared, kind, actor,
                    stage, mgr, runPhase, pc, quarantined, lane, permit,
                    runEpoch, obsBackend, backendEpoch, stopWait, revWait, post>>
    BY <1>3 DEF CloseDone
  <2>2. /\ raw[o] = "effect" /\ raw'[o] \in {"ok", "failed"} /\ kind[o] \in {"stop", "remove"}
        /\ proc' = "gone" => proc = "gone"
    BY <1>3, Arrays DEF CloseDone
  <2>3. OthersStay(o)
    BY <1>3, Arrays DEF CloseDone, OthersStay
  <2>4. QuarantineEnds' /\ GraceInv'
    BY <2>1, RunQuiet
  <2>5. Stages'
    BY <2>1, <2>2, <2>3, StagesOf DEF RunInv, Stages, StagesAt, Minted, ByDevice
  <2>6. Abandoned'
    BY <2>1, <2>2, <2>3, AbandonedOf DEF Busy, Minted, RawReturned, Restarting
  <2>7. OwnRun'
    BY <2>1, <2>2, <2>3, OwnRunOf DEF RunInv, OwnRun, OwnRunAt, Minted
  <2>8. Commits'
    BY <2>1, <2>2, <2>3, CommitsOf DEF RunInv, Commits, CommitsAt, PreparedPcs
  <2>9. GhostIsMet'
    BY <2>1, <2>2, <2>3, GhostOf DEF Ghost, WillClose, Minted
  <2>10. FencesTold'
    BY <2>1, <2>2, <2>3, ToldOf
  <2> QED
    BY <2>4, <2>5, <2>6, <2>7, <2>8, <2>9, <2>10 DEF RunInv
<1>4. CASE OldClosed(o)
  <2>1. UNCHANGED <<owner, controlEpoch, timer, callbacks, seal, prepared, kind, actor,
                    stage, mgr, runPhase, pc, quarantined, lane, permit,
                    runEpoch, obsBackend, backendEpoch, stopWait, revWait, post>>
    BY <1>4 DEF OldClosed
  <2>2. /\ raw[o] = "effect" /\ kind[o] = "restart" /\ raw'[o] \in {"closed", "failed"}
        /\ raw'[o] = "failed" => proc' = proc
    BY <1>4, Arrays DEF OldClosed
  <2>3. \A q \in Ops : pc[q] # "composite"
    BY <2>1, <2>2
       DEF PermitInv, PermitBehind, Minted, RunInv, Stages, StagesAt, Abandoned,
         AbandonedAt, Busy, RawReturned, NoRestart, Restarting, SealInv, TokenInv,
         LaneOwned, LanePcs
  <2>4. OthersStay(o)
    BY <1>4, Arrays DEF OldClosed, OthersStay
  <2>5. QuarantineEnds' /\ GraceInv'
    BY <2>1, RunQuiet
  <2>6. Stages'
    BY <2>1, <2>2, <2>3, <2>4, StagesOf DEF RunInv, Stages, StagesAt, Minted, ByDevice
  <2>7. Abandoned'
    BY <2>1, <2>2, <2>3, <2>4, AbandonedOf DEF Busy, Minted, RawReturned, Restarting
  <2>8. OwnRun'
    BY <2>1, <2>2, <2>3, <2>4, OwnRunOf DEF RunInv, OwnRun, OwnRunAt, Minted
  <2>9. Commits'
    BY <2>1, <2>2, <2>3, <2>4, CommitsOf DEF RunInv, Commits, CommitsAt, PreparedPcs
  <2>10. GhostIsMet'
    <3>1. runPhase = "active" => pc[o] = "running" /\ permit[o].run = runEpoch
      BY <2>2
         DEF RunInv, QuarantineEnds, Abandoned, AbandonedAt, Busy, Minted, RawReturned,
           OwnRun, OwnRunAt, TokenInv, LaneOwned, LanePcs
    <3> QED
      BY <2>1, <2>2, <2>3, <2>4, <3>1, GhostOf DEF Ghost, WillClose, Minted
  <2>11. FencesTold'
    BY <2>1, <2>2, <2>3, <2>4, ToldOf
  <2> QED
    BY <2>5, <2>6, <2>7, <2>8, <2>9, <2>10, <2>11 DEF RunInv
<1>5. CASE StageRestartRun(o)
  <2>1. UNCHANGED <<owner, controlEpoch, timer, callbacks, seal, prepared, kind, actor,
                    mgr, pc, quarantined, lane, permit, runEpoch, proc,
                    obsBackend, backendEpoch, stopWait, revWait, post>>
    BY <1>5 DEF StageRestartRun
  <2>2. /\ raw[o] = "closed" /\ raw'[o] \in {"staged", "failed"}
        /\ raw'[o] = "failed" => UNCHANGED <<stage, runPhase>>
        /\ raw'[o] = "staged" => PermitCurrent(o) /\ runPhase' = "starting"
        /\ runPhase' = "active" => runPhase = "active"
    BY <1>5, Arrays DEF StageRestartRun
  <2>3. /\ kind[o] = "restart"
        /\ PermitCurrent(o) => mgr = o
    BY <2>1, <2>2
       DEF PermitInv, PermitBehind, Minted, RunInv, Stages, StagesAt, PermitHolds,
         PermitCurrent, RawReturned, TokenInv, ManagerOwned, PendingPcs, IsLifecycle,
         LifecycleKinds
  <2>4. OthersStay(o)
    BY <1>5, Arrays DEF StageRestartRun, OthersStay
  <2>5. GraceInv'
    BY <2>1, RunQuiet
  <2>6. QuarantineEnds'
    BY <1>5, <2>1, <2>2, <2>3, <2>4 DEF StageRestartRun, RunInv, QuarantineEnds
  <2>7. Stages'
    BY <2>1, <2>2, <2>3, <2>4, StagesOf DEF RunInv, Stages, StagesAt, Minted, ByDevice
  <2>8. Abandoned'
    BY <2>1, <2>2, <2>3, <2>4, AbandonedOf DEF Busy, Minted, RawReturned, Restarting
  <2>9. OwnRun'
    BY <2>1, <2>2, <2>3, <2>4, OwnRunOf DEF RunInv, OwnRun, OwnRunAt, Minted
  <2>10. Commits'
    BY <2>1, <2>2, <2>3, <2>4, CommitsOf DEF RunInv, Commits, CommitsAt, PreparedPcs
  <2>11. GhostIsMet'
    BY <2>1, <2>2, <2>3, <2>4, GhostOf DEF Ghost, WillClose, Minted
  <2>12. FencesTold'
    BY <2>1, <2>2, <2>3, <2>4, ToldOf
  <2> QED
    BY <2>5, <2>6, <2>7, <2>8, <2>9, <2>10, <2>11, <2>12 DEF RunInv
<1>6. CASE LaunchCheckpoint(o)
  <2>1. UNCHANGED <<owner, controlEpoch, timer, callbacks, seal, prepared, kind, actor,
                    stage, mgr, runPhase, pc, quarantined, lane, permit,
                    runEpoch, proc, obsBackend, backendEpoch, stopWait, revWait,
                    post>>
    BY <1>6 DEF LaunchCheckpoint
  <2>2. /\ raw[o] \in {"staged", "launched"} /\ raw'[o] \in {"failed", "launching", "ok"}
    BY <1>6, Arrays DEF LaunchCheckpoint
  <2>3. OthersStay(o)
    BY <1>6, Arrays DEF LaunchCheckpoint, OthersStay
  <2>4. QuarantineEnds' /\ GraceInv'
    BY <2>1, RunQuiet
  <2>5. Stages'
    BY <2>1, <2>2, <2>3, StagesOf DEF RunInv, Stages, StagesAt, Minted, ByDevice
  <2>6. Abandoned'
    BY <2>1, <2>2, <2>3, AbandonedOf DEF Busy, Minted, RawReturned, Restarting
  <2>7. OwnRun'
    BY <2>1, <2>2, <2>3, OwnRunOf DEF RunInv, OwnRun, OwnRunAt, Minted
  <2>8. Commits'
    BY <2>1, <2>2, <2>3, CommitsOf DEF RunInv, Commits, CommitsAt, PreparedPcs
  <2>9. GhostIsMet'
    BY <2>1, <2>2, <2>3, GhostOf DEF Ghost, WillClose, Minted
  <2>10. FencesTold'
    BY <2>1, <2>2, <2>3, ToldOf
  <2> QED
    BY <2>4, <2>5, <2>6, <2>7, <2>8, <2>9, <2>10 DEF RunInv
<1>7. CASE Launched(o)
  <2>1. UNCHANGED <<owner, controlEpoch, timer, callbacks, seal, prepared, kind, actor,
                    stage, mgr, runPhase, pc, quarantined, lane, permit,
                    runEpoch, obsBackend, backendEpoch, stopWait, revWait, post>>
    BY <1>7 DEF Launched
  <2>2. raw[o] = "launching" /\ raw'[o] \in {"launched", "failed"} /\ proc' \in {"running", proc}
    BY <1>7, Arrays DEF Launched
  <2>3. OthersStay(o)
    BY <1>7, Arrays DEF Launched, OthersStay
  <2>4. QuarantineEnds' /\ GraceInv'
    BY <2>1, RunQuiet
  <2>5. Stages'
    BY <2>1, <2>2, <2>3, StagesOf DEF RunInv, Stages, StagesAt, Minted, ByDevice
  <2>6. Abandoned'
    BY <2>1, <2>2, <2>3, AbandonedOf DEF Busy, Minted, RawReturned, Restarting
  <2>7. OwnRun'
    BY <2>1, <2>2, <2>3, OwnRunOf DEF RunInv, OwnRun, OwnRunAt, Minted
  <2>8. Commits'
    BY <2>1, <2>2, <2>3, CommitsOf DEF RunInv, Commits, CommitsAt, PreparedPcs
  <2>9. GhostIsMet'
    BY <2>1, <2>2, <2>3, GhostOf DEF Ghost, WillClose, Minted
  <2>10. FencesTold'
    BY <2>1, <2>2, <2>3, ToldOf
  <2> QED
    BY <2>4, <2>5, <2>6, <2>7, <2>8, <2>9, <2>10 DEF RunInv
<1>8. QED
  BY <1>1, <1>2, <1>3, <1>4, <1>5, <1>6, <1>7 DEF RawStep

-----------------------------------------------------------------------------
(* Sealed lifecycles.                                                      *)

\* What a lifecycle has closed it presents as closed before it ends.
LEMMA LifecycleRuns == ASSUME TypeInv, TokenInv, PermitInv, RunInv, NEW o \in Ops, LifecycleStep(o) PROVE RunInv'
<1>1. CASE Seal(o)
  <2>1. UNCHANGED <<owner, controlEpoch, callbacks, kind, actor, raw, stage, mgr,
                    runPhase, quarantined, lane, permit, runEpoch, proc,
                    obsBackend, backendEpoch, stopWait, revWait, post>>
    BY <1>1 DEF Seal, SealGranted
  <2>2. pc[o] = "running" /\ pc'[o] = "sealed" /\ raw[o] = "ok" /\ prepared' = o
    BY <1>1, Arrays DEF Seal, SealGranted
  <2>3. OthersStay(o)
    BY <1>1, Arrays DEF Seal, OthersStay, SealGranted
  <2>4. QuarantineEnds' /\ Stages' /\ FencesTold'
    BY <2>1, RunQuiet
  <2>5. Abandoned'
    BY <2>1, <2>2, <2>3, AbandonedOf DEF Busy, Minted, RawReturned, Restarting
  <2>6. OwnRun'
    BY <2>1, <2>2, <2>3, OwnRunOf DEF RunInv, OwnRun, OwnRunAt, Minted
  <2>7. Commits'
    BY <2>1, <2>2, <2>3, CommitsOf DEF RunInv, Commits, CommitsAt, PreparedPcs
  <2>8. GhostIsMet'
    BY <2>1, <2>2, <2>3, GhostOf DEF Ghost, WillClose, Minted
  <2>9. GraceInv'
    <3>1. CASE kind[o] = "remove"
      <4>1. seal' # NoSeal
        BY <1>1, <3>1, EpochIsNat DEF Seal, NoSeal
      <4>2. QED
        BY <2>1, <4>1 DEF RunInv, GraceInv, GraceHasTimer
    <3>2. CASE kind[o] # "remove"
      BY <1>1, <2>1, <2>2, <3>2 DEF Seal, RunInv, GraceInv, GraceHasTimer, RemovalPrepared
    <3> QED
      BY <3>1, <3>2
  <2> QED
    BY <2>4, <2>5, <2>6, <2>7, <2>8, <2>9 DEF RunInv
<1>2. CASE CompositePrepare(o)
  <2>1. UNCHANGED <<owner, controlEpoch, timer, callbacks, seal, prepared, kind, actor,
                    raw, stage, mgr, runPhase, quarantined, lane, permit,
                    runEpoch, proc, obsBackend, backendEpoch, stopWait, revWait,
                    post>>
    BY <1>2 DEF CompositePrepare
  <2>2. pc[o] = "sealed" /\ pc'[o] = "composite" /\ kind[o] = "restart" /\ proc # "gone"
    BY <1>2, Arrays DEF CompositePrepare
  <2>3. raw[o] = "ok"
    BY <2>1, <2>2 DEF PermitInv, SealInv
  <2>4. OthersStay(o)
    BY <1>2, Arrays DEF CompositePrepare, OthersStay
  <2>5. QuarantineEnds' /\ Stages' /\ FencesTold' /\ GraceInv'
    BY <2>1, RunQuiet
  <2>6. Abandoned'
    BY <2>1, <2>2, <2>3, <2>4, AbandonedOf DEF Busy, Minted, RawReturned, Restarting
  <2>7. OwnRun'
    BY <2>1, <2>2, <2>3, <2>4, OwnRunOf DEF RunInv, OwnRun, OwnRunAt, Minted
  <2>8. Commits'
    BY <2>1, <2>2, <2>3, <2>4, CommitsOf DEF RunInv, Commits, CommitsAt, PreparedPcs
  <2>9. GhostIsMet'
    BY <2>1, <2>2, <2>3, <2>4, GhostOf DEF Ghost, WillClose, Minted
  <2> QED
    BY <2>5, <2>6, <2>7, <2>8, <2>9 DEF RunInv
<1>3. CASE CommitStop(o)
  <2>1. UNCHANGED <<owner, controlEpoch, timer, callbacks, seal, prepared, kind, actor,
                    raw, stage, quarantined, lane, permit, runEpoch, proc,
                    obsBackend, backendEpoch, stopWait, revWait, post>>
    BY <1>3 DEF CommitStop, ManagerCommits
  <2>2. /\ pc[o] = "sealed" /\ pc'[o] = "committed" /\ mgr = o /\ mgr' = NoOp /\ kind[o] = "stop"
        /\ runPhase' = "terminal"
    BY <1>3, Arrays DEF CommitStop, ManagerCommits
  <2>3. raw[o] = "ok" /\ stage[o] = NoStage
    BY <2>1, <2>2 DEF PermitInv, SealInv, RunInv, Stages, StagesAt
  <2>4. OthersStay(o)
    BY <1>3, Arrays DEF CommitStop, OthersStay, ManagerCommits
  <2>5. FencesTold' /\ GraceInv'
    BY <2>1, RunQuiet
  <2>6. QuarantineEnds'
    BY <1>3, <2>1, <2>2, <2>3, <2>4 DEF CommitStop, RunInv, QuarantineEnds, ManagerCommits
  <2>7. Stages'
    BY <2>1, <2>2, <2>3, <2>4, StagesOf DEF RunInv, Stages, StagesAt, Minted, ByDevice
  <2>8. Abandoned'
    BY <2>1, <2>2, <2>3, <2>4, AbandonedOf DEF Busy, Minted, RawReturned, Restarting
  <2>9. OwnRun'
    BY <2>1, <2>2, <2>3, <2>4, OwnRunOf DEF RunInv, OwnRun, OwnRunAt, Minted
  <2>10. Commits'
    BY <2>1, <2>2, <2>3, <2>4, CommitsOf DEF RunInv, Commits, CommitsAt, PreparedPcs
  <2>11. GhostIsMet'
    BY <2>1, <2>2, <2>3, <2>4, GhostOf DEF Ghost, WillClose, Minted
  <2> QED
    BY <2>5, <2>6, <2>7, <2>8, <2>9, <2>10, <2>11 DEF RunInv
<1>4. CASE CommitRemove(o)
  <2>1. UNCHANGED <<timer, callbacks, seal, prepared, kind, actor, raw, stage,
                    quarantined, lane, permit, proc, obsBackend, stopWait,
                    revWait, post>>
    BY <1>4 DEF CommitRemove, ManagerCommits
  <2>2. /\ pc[o] = "sealed" /\ pc'[o] = "committed" /\ mgr = o /\ mgr' = NoOp /\ kind[o] = "remove"
        /\ runPhase' = "terminal" /\ owner' = NoOwner
    BY <1>4, Arrays DEF CommitRemove, ManagerCommits
  <2>3. raw[o] = "ok" /\ stage[o] = NoStage /\ lane = o
    BY <2>1, <2>2 DEF PermitInv, SealInv, RunInv, Stages, StagesAt, TokenInv, LaneOwned, LanePcs
  <2>4. OthersStay(o)
    BY <1>4, Arrays DEF CommitRemove, OthersStay, ManagerCommits
  <2>5. FencesTold'
    BY <2>1, RunQuiet
  <2>6. QuarantineEnds'
    BY <1>4, <2>1, <2>2, <2>3, <2>4 DEF CommitRemove, RunInv, QuarantineEnds, ManagerCommits
  <2>7. Stages'
    BY <2>1, <2>2, <2>3, <2>4, StagesOf DEF RunInv, Stages, StagesAt, Minted, ByDevice
  <2>8. Abandoned'
    BY <2>1, <2>2, <2>3, <2>4, AbandonedOf DEF Busy, Minted, RawReturned, Restarting
  <2>9. OwnRun'
    BY <2>1, <2>2, <2>3, <2>4, OwnRunOf, ConstantsAssumption
       DEF RunInv, OwnRun, OwnRunAt, Minted
  <2>10. Commits'
    BY <2>1, <2>2, <2>3, <2>4, CommitsOf DEF RunInv, Commits, CommitsAt, PreparedPcs
  <2>11. GhostIsMet'
    BY <2>2 DEF GhostIsMet, Ghost
  <2>12. GraceInv'
    <3>1. RemovalPrepared /\ seal # NoSeal
      BY <2>1, <2>2, ConstantsAssumption
         DEF RemovalPrepared, TokenInv, PreparedOwned, PreparedPcs, RunInv, GraceInv
    <3> QED
      BY <2>1, <2>2, <3>1 DEF GraceInv, GraceHasTimer, NoOwner
  <2> QED
    BY <2>5, <2>6, <2>7, <2>8, <2>9, <2>10, <2>11, <2>12 DEF RunInv
<1>5. CASE CommitRestart(o)
  <2>1. UNCHANGED <<owner, controlEpoch, timer, callbacks, seal, prepared, kind, actor,
                    raw, lane, permit, proc, backendEpoch, stopWait, revWait,
                    post>>
    BY <1>5 DEF CommitRestart, ManagerCommits
  <2>2. /\ pc[o] = "composite" /\ pc'[o] = "committed" /\ mgr = o /\ mgr' = NoOp
        /\ stage'[o] = NoStage /\ ~quarantined'
    BY <1>5, Arrays DEF CommitRestart, ManagerCommits
  <2>3. /\ raw[o] = "ok" /\ kind[o] = "restart" /\ lane = o /\ proc # "gone"
        /\ \A q \in Ops : pc[q] = "committed" => q = o
    BY <2>1, <2>2
       DEF PermitInv, SealInv, RunInv, Commits, CommitsAt, TokenInv, LaneOwned, LanePcs
  <2>4. OthersStay(o)
    BY <1>5, Arrays DEF CommitRestart, OthersStay, ManagerCommits
  <2>5. FencesTold' /\ GraceInv'
    BY <2>1, RunQuiet
  <2>6. QuarantineEnds'
    BY <1>5, <2>1, <2>2, <2>3, <2>4 DEF CommitRestart, RunInv, QuarantineEnds, ManagerCommits
  <2>7. Stages'
    BY <2>1, <2>2, <2>3, <2>4, StagesOf DEF RunInv, Stages, StagesAt, Minted, ByDevice
  <2>8. Abandoned'
    BY <2>1, <2>2, <2>3, <2>4, AbandonedOf DEF Busy, Minted, RawReturned, Restarting
  <2>9. OwnRun'
    BY <2>1, <2>2, <2>3, <2>4, OwnRunOf, ConstantsAssumption
       DEF RunInv, OwnRun, OwnRunAt, Minted
  <2>10. Commits'
    BY <2>1, <2>2, <2>3, <2>4, CommitsOf DEF RunInv, Commits, CommitsAt, PreparedPcs
  <2>11. GhostIsMet'
    BY <2>1, <2>3 DEF GhostIsMet, Ghost
  <2> QED
    BY <2>5, <2>6, <2>7, <2>8, <2>9, <2>10, <2>11 DEF RunInv
<1>6. CASE FinishCommitted(o)
  <2>1. UNCHANGED <<owner, controlEpoch, timer, callbacks, seal, kind, actor, raw, stage,
                    mgr, quarantined, permit, runEpoch, obsBackend, backendEpoch,
                    stopWait, revWait, post>>
    BY <1>6 DEF FinishCommitted, ReleaseLane
  <2>2. /\ pc[o] = "committed" /\ pc'[o] = "done" /\ lane' = NoOp
        /\ UNCHANGED <<runPhase, proc>> \/ runPhase' = "terminal"
    BY <1>6, Arrays DEF FinishCommitted, ReleaseLane
  <2>3. \A q \in Ops : pc[q] \in {"committed", "composite"} => q = o
    BY <2>1, <2>2 DEF TokenInv, LaneOwned, LanePcs
  <2>4. OthersStay(o)
    BY <1>6, Arrays DEF FinishCommitted, OthersStay, ReleaseLane
  <2>5. FencesTold'
    BY <2>1, RunQuiet
  <2>6. QuarantineEnds'
    BY <1>6, <2>1, <2>2, <2>3, <2>4 DEF FinishCommitted, RunInv, QuarantineEnds, ReleaseLane
  <2>7. Stages'
    BY <2>1, <2>2, <2>3, <2>4, StagesOf DEF RunInv, Stages, StagesAt, Minted, ByDevice
  <2>8. Abandoned'
    BY <2>1, <2>2, <2>3, <2>4, AbandonedOf DEF Busy, Minted, RawReturned, Restarting
  <2>9. OwnRun'
    BY <2>1, <2>2, <2>3, <2>4, OwnRunOf, ConstantsAssumption
       DEF RunInv, OwnRun, OwnRunAt, Minted
  <2>10. Commits'
    BY <2>1, <2>2, <2>3, <2>4, CommitsOf DEF RunInv, Commits, CommitsAt, PreparedPcs
  <2>11. GhostIsMet'
    BY <2>1, <2>2, <2>3, <2>4, GhostOf DEF Ghost, WillClose, Minted
  <2>12. GraceInv'
    BY <1>6, <2>1, <2>2, <2>3, <2>4
       DEF FinishCommitted, RunInv, GraceInv, GraceHasTimer, RemovalPrepared, ReleaseLane
  <2> QED
    BY <2>5, <2>6, <2>7, <2>8, <2>9, <2>10, <2>11, <2>12 DEF RunInv
<1>7. CASE AbandonSealed(o)
  <2>1. UNCHANGED <<owner, controlEpoch, timer, callbacks, seal, prepared, kind, actor,
                    raw, stage, mgr, runPhase, quarantined, lane, permit,
                    runEpoch, proc, obsBackend, backendEpoch, stopWait, revWait,
                    post>>
    BY <1>7 DEF AbandonSealed
  <2>2. pc[o] \in {"sealed", "composite"} /\ pc'[o] = "abandon"
    BY <1>7, Arrays DEF AbandonSealed
  <2>3. /\ raw[o] = "ok"
        /\ pc[o] = "composite" => kind[o] = "restart"
    BY <2>1, <2>2 DEF PermitInv, SealInv
  <2>4. OthersStay(o)
    BY <1>7, Arrays DEF AbandonSealed, OthersStay
  <2>5. QuarantineEnds' /\ Stages' /\ FencesTold' /\ GraceInv'
    BY <2>1, RunQuiet
  <2>6. Abandoned'
    BY <2>1, <2>2, <2>3, <2>4, AbandonedOf DEF Busy, Minted, RawReturned, Restarting
  <2>7. OwnRun'
    BY <2>1, <2>2, <2>3, <2>4, OwnRunOf DEF RunInv, OwnRun, OwnRunAt, Minted
  <2>8. Commits'
    BY <2>1, <2>2, <2>3, <2>4, CommitsOf DEF RunInv, Commits, CommitsAt, PreparedPcs
  <2>9. GhostIsMet'
    BY <2>1, <2>2, <2>3, <2>4, GhostOf DEF Ghost, WillClose, Minted
  <2> QED
    BY <2>5, <2>6, <2>7, <2>8, <2>9 DEF RunInv
<1>8. CASE AbortStage(o)
  <2>1. UNCHANGED <<owner, controlEpoch, timer, callbacks, seal, prepared, kind, actor,
                    raw, mgr, pc, quarantined, lane, permit, runEpoch,
                    obsBackend, backendEpoch, stopWait, revWait, post>>
    BY <1>8 DEF AbortStage
  <2>2. /\ pc[o] \in {"abandon", "abort"} /\ stage[o] # NoStage /\ stage'[o] = NoStage
        /\ runPhase' = "active" => runPhase = "active"
    BY <1>8, Arrays DEF AbortStage
  <2>3. /\ mgr = o /\ runPhase # "active"
        /\ \A q \in Ops : pc[q] # "composite"
    BY <2>1, <2>2
       DEF RunInv, Stages, StagesAt, PermitInv, SealInv, TokenInv, ManagerOwned, PendingPcs,
         IsLifecycle, LifecycleKinds
  <2>4. OthersStay(o)
    BY <1>8, Arrays DEF AbortStage, OthersStay
  <2>5. Abandoned' /\ OwnRun' /\ FencesTold' /\ GraceInv'
    BY <2>1, RunQuiet
  <2>6. QuarantineEnds'
    BY <1>8, <2>1, <2>2, <2>3, <2>4 DEF AbortStage, RunInv, QuarantineEnds
  <2>7. Stages'
    BY <2>1, <2>2, <2>3, <2>4, StagesOf DEF RunInv, Stages, StagesAt, Minted, ByDevice
  <2>8. Commits'
    BY <2>1, <2>2, <2>3, <2>4, CommitsOf DEF RunInv, Commits, CommitsAt, PreparedPcs
  <2>9. GhostIsMet'
    BY <2>1, <2>2, <2>3, <2>4, GhostOf DEF Ghost, WillClose, Minted
  <2> QED
    BY <2>5, <2>6, <2>7, <2>8, <2>9 DEF RunInv
<1>9. CASE AbandonToken(o)
  <2>1. UNCHANGED <<owner, controlEpoch, timer, callbacks, seal, kind, actor, raw, stage,
                    mgr, runPhase, quarantined, permit, runEpoch, proc,
                    obsBackend, backendEpoch, stopWait, revWait, post>>
    BY <1>9 DEF AbandonToken, ReleaseLane
  <2>2. /\ pc[o] = "abandon" /\ lane' = NoOp
        /\ pc'[o] = IF kind[o] = "restart" THEN "abort" ELSE "reconcile"
    BY <1>9, Arrays DEF AbandonToken, ReleaseLane
  <2>3. OthersStay(o)
    BY <1>9, Arrays DEF AbandonToken, OthersStay, ReleaseLane
  <2>4. QuarantineEnds' /\ Stages' /\ FencesTold'
    BY <2>1, RunQuiet
  <2>5. Abandoned'
    BY <2>1, <2>2, <2>3, AbandonedOf DEF Busy, Minted, RawReturned, Restarting
  <2>6. OwnRun'
    BY <2>1, <2>2, <2>3, OwnRunOf, ConstantsAssumption DEF RunInv, OwnRun, OwnRunAt, Minted
  <2>7. Commits'
    BY <2>1, <2>2, <2>3, CommitsOf DEF RunInv, Commits, CommitsAt, PreparedPcs
  <2>8. GhostIsMet'
    BY <2>1, <2>2, <2>3, GhostOf DEF Ghost, WillClose, Minted
  <2>9. GraceInv'
    BY <1>9, <2>1, <2>2, <2>3
       DEF AbandonToken, RunInv, GraceInv, GraceHasTimer, RemovalPrepared, ReleaseLane
  <2> QED
    BY <2>4, <2>5, <2>6, <2>7, <2>8, <2>9 DEF RunInv
<1>10. CASE ReleaseManager(o)
  <2>1. UNCHANGED <<owner, controlEpoch, timer, callbacks, seal, prepared, kind, actor,
                    raw, stage, runPhase, quarantined, lane, permit, runEpoch,
                    proc, obsBackend, backendEpoch, stopWait, revWait, post>>
    BY <1>10 DEF ReleaseManager
  <2>2. /\ mgr = o /\ mgr' = NoOp
        /\ \/ pc[o] = "abandon" /\ kind[o] # "restart" /\ pc' = pc
           \/ /\ pc[o] = "abort" /\ stage[o] = NoStage
              /\ pc'[o] = IF CloseAttempted(o) THEN "reconcile" ELSE "done"
    BY <1>10, Arrays DEF ReleaseManager
  <2>3. stage[o] = NoStage
    BY <2>1, <2>2 DEF RunInv, Stages, StagesAt
  <2>4. OthersStay(o)
    BY <1>10, Arrays DEF ReleaseManager, OthersStay
  <2>5. QuarantineEnds' /\ FencesTold' /\ GraceInv'
    BY <2>1, RunQuiet
  <2>6. Stages'
    BY <2>1, <2>2, <2>3, <2>4, StagesOf DEF RunInv, Stages, StagesAt, Minted, ByDevice
  <2>7. Abandoned'
    BY <2>1, <2>2, <2>3, <2>4, AbandonedOf DEF Busy, Minted, RawReturned, Restarting
  <2>8. OwnRun'
    BY <2>1, <2>2, <2>3, <2>4, OwnRunOf DEF RunInv, OwnRun, OwnRunAt, Minted
  <2>9. Commits'
    BY <2>1, <2>2, <2>3, <2>4, CommitsOf DEF RunInv, Commits, CommitsAt, PreparedPcs
  <2>10. GhostIsMet'
    BY <2>1, <2>2, <2>3, <2>4, GhostOf DEF Ghost, WillClose, Minted, CloseAttempted
  <2> QED
    BY <2>5, <2>6, <2>7, <2>8, <2>9, <2>10 DEF RunInv
<1>11. CASE Reconcile(o)
  <2>1. UNCHANGED <<owner, controlEpoch, timer, callbacks, seal, prepared, kind, actor,
                    raw, stage, mgr, quarantined, lane, permit, runEpoch, proc,
                    obsBackend, backendEpoch, stopWait, revWait, post>>
    BY <1>11 DEF Reconcile
  <2>2. /\ pc[o] = "reconcile" /\ pc'[o] = "done"
        /\ \/ runPhase' = "terminal"
           \/ UNCHANGED runPhase /\ (removed \/ runEpoch # permit[o].run)
    BY <1>11, Arrays DEF Reconcile
  <2>3. Minted(o) /\ removed => runEpoch # permit[o].run
    BY <2>1, <2>2 DEF PermitInv, EntryInv, PermitBehind, Minted
  <2>4. OthersStay(o)
    BY <1>11, Arrays DEF Reconcile, OthersStay
  <2>5. FencesTold' /\ GraceInv'
    BY <2>1, RunQuiet
  <2>6. QuarantineEnds'
    BY <1>11, <2>1, <2>2, <2>3, <2>4 DEF Reconcile, RunInv, QuarantineEnds
  <2>7. Stages'
    BY <2>1, <2>2, <2>3, <2>4, StagesOf DEF RunInv, Stages, StagesAt, Minted, ByDevice
  <2>8. Abandoned'
    BY <2>1, <2>2, <2>3, <2>4, AbandonedOf DEF Busy, Minted, RawReturned, Restarting
  <2>9. OwnRun'
    BY <2>1, <2>2, <2>3, <2>4, OwnRunOf DEF RunInv, OwnRun, OwnRunAt, Minted
  <2>10. Commits'
    BY <2>1, <2>2, <2>3, <2>4, CommitsOf DEF RunInv, Commits, CommitsAt, PreparedPcs
  <2>11. GhostIsMet'
    <3>1. CASE runPhase' # "active"
      BY <3>1 DEF GhostIsMet, Ghost
    <3>2. CASE UNCHANGED runPhase /\ ~WillClose(o)
      BY <2>1, <2>2, <2>3, <2>4, <3>2, GhostOf DEF Ghost
    <3>3. WillClose(o) => runPhase' = "terminal"
      BY <2>1, <2>2, <2>3, <2>4 DEF WillClose
    <3> QED
      BY <2>2, <3>1, <3>2, <3>3
  <2> QED
    BY <2>5, <2>6, <2>7, <2>8, <2>9, <2>10, <2>11 DEF RunInv
<1>12. QED
  BY <1>1, <1>2, <1>3, <1>4, <1>5, <1>6, <1>7, <1>8, <1>9, <1>10, <1>11 DEF LifecycleStep

-----------------------------------------------------------------------------
(* The gate.                                                               *)

\* A quarantine closes the run it cuts off.
LEMMA GateRuns == ASSUME TypeInv, TokenInv, PermitInv, RunInv, NEW o \in Ops, CallStep(o) PROVE RunInv'
<1>1. CASE CommitIntent(o)
  <2>1. UNCHANGED <<owner, controlEpoch, timer, callbacks, seal, prepared, kind, actor,
                    raw, stage, mgr, runPhase, quarantined, lane, permit,
                    runEpoch, proc, obsBackend, backendEpoch, stopWait, revWait,
                    post>>
    BY <1>1 DEF CommitIntent
  <2>2. pc[o] = "intent" /\ pc'[o] \in {"lane", "abort"}
    BY <1>1, Arrays DEF CommitIntent
  <2>3. raw[o] = "none"
    BY <2>1, <2>2 DEF PermitInv, PermitBehind, Minted
  <2>4. OthersStay(o)
    BY <1>1, Arrays DEF CommitIntent, OthersStay
  <2>5. QuarantineEnds' /\ Stages' /\ FencesTold' /\ GraceInv'
    BY <2>1, RunQuiet
  <2>6. Abandoned'
    BY <2>1, <2>2, <2>3, <2>4, AbandonedOf DEF Busy, Minted, RawReturned, Restarting
  <2>7. OwnRun'
    BY <2>1, <2>2, <2>3, <2>4, OwnRunOf DEF RunInv, OwnRun, OwnRunAt, Minted
  <2>8. Commits'
    BY <2>1, <2>2, <2>3, <2>4, CommitsOf DEF RunInv, Commits, CommitsAt, PreparedPcs
  <2>9. GhostIsMet'
    BY <2>1, <2>2, <2>3, <2>4, GhostOf DEF Ghost, WillClose, Minted
  <2> QED
    BY <2>5, <2>6, <2>7, <2>8, <2>9 DEF RunInv
<1>2. CASE LaneAcquire(o)
  <2>1. UNCHANGED <<owner, controlEpoch, timer, callbacks, seal, prepared, kind, actor,
                    raw, stage, mgr, runPhase, quarantined, permit, runEpoch,
                    proc, obsBackend, backendEpoch, stopWait, revWait, post>>
    BY <1>2 DEF LaneAcquire
  <2>2. pc[o] = "lane" /\ pc'[o] = "permit" /\ lane' = o
    BY <1>2, Arrays DEF LaneAcquire
  <2>3. raw[o] = "none"
    BY <2>1, <2>2 DEF PermitInv, PermitBehind, Minted
  <2>4. OthersStay(o)
    BY <1>2, Arrays DEF LaneAcquire, OthersStay
  <2>5. QuarantineEnds' /\ Stages' /\ FencesTold' /\ GraceInv'
    BY <2>1, RunQuiet
  <2>6. Abandoned'
    BY <2>1, <2>2, <2>3, <2>4, AbandonedOf DEF Busy, Minted, RawReturned, Restarting
  <2>7. OwnRun'
    BY <2>1, <2>2, <2>3, <2>4, OwnRunOf DEF RunInv, OwnRun, OwnRunAt, Minted
  <2>8. Commits'
    BY <2>1, <2>2, <2>3, <2>4, CommitsOf DEF RunInv, Commits, CommitsAt, PreparedPcs
  <2>9. GhostIsMet'
    BY <2>1, <2>2, <2>3, <2>4, GhostOf DEF Ghost, WillClose, Minted
  <2> QED
    BY <2>5, <2>6, <2>7, <2>8, <2>9 DEF RunInv
<1>3. CASE LaneTimeout(o)
  <2>1. UNCHANGED <<owner, controlEpoch, timer, callbacks, seal, prepared, kind, actor,
                    raw, stage, mgr, lane, permit, runEpoch, proc, obsBackend,
                    stopWait, revWait, post>>
    BY <1>3 DEF LaneTimeout, AfterRefusal, Quarantine
  <2>2. /\ pc[o] = "lane" /\ pc'[o] \in {"abort", "done"}
        /\ runPhase' = "terminal" /\ quarantined'
    BY <1>3, Arrays DEF LaneTimeout, AfterRefusal, Quarantine
  <2>3. raw[o] = "none" /\ stage[o] = NoStage
    BY <2>1, <2>2 DEF PermitInv, PermitBehind, Minted, RunInv, Stages, StagesAt
  <2>4. OthersStay(o)
    BY <1>3, Arrays DEF LaneTimeout, OthersStay, AfterRefusal, Quarantine
  <2>5. FencesTold' /\ GraceInv'
    BY <2>1, RunQuiet
  <2>6. QuarantineEnds'
    BY <1>3, <2>1, <2>2, <2>3, <2>4
       DEF LaneTimeout, RunInv, QuarantineEnds, AfterRefusal, Quarantine
  <2>7. Stages'
    BY <2>1, <2>2, <2>3, <2>4, StagesOf DEF RunInv, Stages, StagesAt, Minted, ByDevice
  <2>8. Abandoned'
    BY <2>1, <2>2, <2>3, <2>4, AbandonedOf DEF Busy, Minted, RawReturned, Restarting
  <2>9. OwnRun'
    BY <2>1, <2>2, <2>3, <2>4, OwnRunOf DEF RunInv, OwnRun, OwnRunAt, Minted
  <2>10. Commits'
    BY <2>1, <2>2, <2>3, <2>4, CommitsOf DEF RunInv, Commits, CommitsAt, PreparedPcs
  <2>11. GhostIsMet'
    BY <2>1, <2>2, <2>3, <2>4, GhostOf DEF Ghost, WillClose, Minted
  <2> QED
    BY <2>5, <2>6, <2>7, <2>8, <2>9, <2>10, <2>11 DEF RunInv
<1>4. CASE LaneCancelled(o)
  <2>1. UNCHANGED <<owner, controlEpoch, timer, callbacks, seal, prepared, kind, actor,
                    raw, stage, mgr, runPhase, quarantined, lane, permit,
                    runEpoch, proc, obsBackend, backendEpoch, stopWait, revWait,
                    post>>
    BY <1>4 DEF LaneCancelled, AfterRefusal
  <2>2. pc[o] = "lane" /\ pc'[o] \in {"abort", "done"}
    BY <1>4, Arrays DEF LaneCancelled, AfterRefusal
  <2>3. raw[o] = "none"
    BY <2>1, <2>2 DEF PermitInv, PermitBehind, Minted
  <2>4. OthersStay(o)
    BY <1>4, Arrays DEF LaneCancelled, OthersStay, AfterRefusal
  <2>5. QuarantineEnds' /\ Stages' /\ FencesTold' /\ GraceInv'
    BY <2>1, RunQuiet
  <2>6. Abandoned'
    BY <2>1, <2>2, <2>3, <2>4, AbandonedOf DEF Busy, Minted, RawReturned, Restarting
  <2>7. OwnRun'
    BY <2>1, <2>2, <2>3, <2>4, OwnRunOf DEF RunInv, OwnRun, OwnRunAt, Minted
  <2>8. Commits'
    BY <2>1, <2>2, <2>3, <2>4, CommitsOf DEF RunInv, Commits, CommitsAt, PreparedPcs
  <2>9. GhostIsMet'
    BY <2>1, <2>2, <2>3, <2>4, GhostOf DEF Ghost, WillClose, Minted
  <2> QED
    BY <2>5, <2>6, <2>7, <2>8, <2>9 DEF RunInv
<1>5. CASE MintPermit(o)
  <2>1. UNCHANGED <<owner, controlEpoch, timer, callbacks, seal, prepared, kind, actor,
                    stage, mgr, runPhase, quarantined, lane, runEpoch, proc,
                    obsBackend, backendEpoch, stopWait, revWait, post>>
    BY <1>5 DEF MintPermit
  <2>2. /\ pc[o] = "permit" /\ pc'[o] = "running" /\ raw'[o] = "ready" /\ permit'[o].run = runEpoch
        /\ PermitGranted(o)
    BY <1>5, Arrays DEF MintPermit
  <2>3. /\ raw[o] = "none" /\ stage[o] = NoStage
        /\ kind[o] = "restart" => ~quarantined
    BY <2>1, <2>2
       DEF PermitInv, PermitBehind, Minted, RunInv, Stages, StagesAt, PermitGranted, IsData,
         DataKinds, LifecyclePermitGranted, ByDevice
  <2>4. OthersStay(o)
    BY <1>5, Arrays DEF MintPermit, OthersStay
  <2>5. QuarantineEnds' /\ GraceInv'
    BY <2>1, RunQuiet
  <2>6. Stages'
    BY <2>1, <2>2, <2>3, <2>4, StagesOf DEF RunInv, Stages, StagesAt, Minted, ByDevice
  <2>7. Abandoned'
    BY <2>1, <2>2, <2>3, <2>4, AbandonedOf DEF Busy, Minted, RawReturned, Restarting
  <2>8. OwnRun'
    BY <2>1, <2>2, <2>3, <2>4, OwnRunOf DEF RunInv, OwnRun, OwnRunAt, Minted
  <2>9. Commits'
    BY <2>1, <2>2, <2>3, <2>4, CommitsOf DEF RunInv, Commits, CommitsAt, PreparedPcs
  <2>10. GhostIsMet'
    BY <2>1, <2>2, <2>3, <2>4, GhostOf DEF Ghost, WillClose, Minted
  <2>11. FencesTold'
    BY <2>1, <2>2, <2>3, <2>4, ToldOf
  <2> QED
    BY <2>5, <2>6, <2>7, <2>8, <2>9, <2>10, <2>11 DEF RunInv
<1>6. CASE RefusePermit(o)
  <2>1. UNCHANGED <<owner, controlEpoch, timer, callbacks, seal, prepared, kind, actor,
                    raw, stage, mgr, runPhase, quarantined, permit, runEpoch,
                    proc, obsBackend, backendEpoch, stopWait, revWait, post>>
    BY <1>6 DEF RefusePermit, AfterRefusal, ReleaseLane
  <2>2. pc[o] = "permit" /\ pc'[o] \in {"abort", "done"} /\ lane' = NoOp
    BY <1>6, Arrays DEF RefusePermit, AfterRefusal, ReleaseLane
  <2>3. raw[o] = "none"
    BY <2>1, <2>2 DEF PermitInv, PermitBehind, Minted
  <2>4. OthersStay(o)
    BY <1>6, Arrays DEF RefusePermit, OthersStay, AfterRefusal, ReleaseLane
  <2>5. QuarantineEnds' /\ Stages' /\ FencesTold' /\ GraceInv'
    BY <2>1, RunQuiet
  <2>6. Abandoned'
    BY <2>1, <2>2, <2>3, <2>4, AbandonedOf DEF Busy, Minted, RawReturned, Restarting
  <2>7. OwnRun'
    BY <2>1, <2>2, <2>3, <2>4, OwnRunOf DEF RunInv, OwnRun, OwnRunAt, Minted
  <2>8. Commits'
    BY <2>1, <2>2, <2>3, <2>4, CommitsOf DEF RunInv, Commits, CommitsAt, PreparedPcs
  <2>9. GhostIsMet'
    BY <2>1, <2>2, <2>3, <2>4, GhostOf DEF Ghost, WillClose, Minted
  <2> QED
    BY <2>5, <2>6, <2>7, <2>8, <2>9 DEF RunInv
<1>7. CASE RawTimeout(o)
  <2>1. UNCHANGED <<owner, controlEpoch, timer, callbacks, seal, prepared, kind, actor,
                    raw, stage, mgr, lane, permit, runEpoch, proc, obsBackend,
                    stopWait, revWait, post>>
    BY <1>7 DEF RawTimeout, BudgetSpent, Quarantine
  <2>2. pc[o] = "running" /\ pc'[o] = "finish" /\ runPhase' = "terminal" /\ quarantined'
    BY <1>7, Arrays DEF RawTimeout, BudgetSpent, Quarantine
  <2>3. \A q \in Ops : pc[q] \in {"running", "sealed", "composite"} => q = o
    BY <2>1, <2>2 DEF TokenInv, LaneOwned, LanePcs
  <2>4. OthersStay(o)
    BY <1>7, Arrays DEF RawTimeout, OthersStay, BudgetSpent, Quarantine
  <2>5. FencesTold' /\ GraceInv'
    BY <2>1, RunQuiet
  <2>6. QuarantineEnds'
    BY <1>7, <2>1, <2>2, <2>3, <2>4
       DEF RawTimeout, RunInv, QuarantineEnds, BudgetSpent, Quarantine
  <2>7. Stages'
    BY <2>1, <2>2, <2>3, <2>4, StagesOf DEF RunInv, Stages, StagesAt, Minted, ByDevice
  <2>8. Abandoned'
    <3>1. NoRestart'
      BY <2>1, <2>2, <2>3, <2>4 DEF NoRestart, Restarting, OthersStay
    <3> QED
      BY <2>1, <2>2, <2>3, <2>4, <3>1, AbandonedOf DEF Restarting
  <2>9. OwnRun'
    BY <2>1, <2>2, <2>3, <2>4, OwnRunOf DEF RunInv, OwnRun, OwnRunAt, Minted
  <2>10. Commits'
    BY <2>1, <2>2, <2>3, <2>4, CommitsOf DEF RunInv, Commits, CommitsAt, PreparedPcs
  <2>11. GhostIsMet'
    BY <2>1, <2>2, <2>3, <2>4, GhostOf DEF Ghost, WillClose, Minted
  <2> QED
    BY <2>5, <2>6, <2>7, <2>8, <2>9, <2>10, <2>11 DEF RunInv
<1>8. CASE FinishOperation(o)
  <2>1. UNCHANGED <<owner, controlEpoch, timer, callbacks, seal, prepared, kind, actor,
                    raw, stage, mgr, runPhase, quarantined, permit, runEpoch,
                    proc, obsBackend, backendEpoch, stopWait, revWait, post>>
    BY <1>8 DEF FinishOperation, AfterRefusal, ReleaseLane, IsLifecycle, LifecycleKinds
  <2>2. /\ pc[o] \in {"running", "finish"} /\ lane' = NoOp
        /\ pc[o] = "running" => RawReturned(o)
        /\ pc'[o] \in {"abort", "done"}
        /\ kind[o] = "restart" => pc'[o] = "abort"
    BY <1>8, Arrays DEF FinishOperation, AfterRefusal, ReleaseLane, IsLifecycle, LifecycleKinds
  <2>3. OthersStay(o)
    BY <1>8, Arrays
       DEF FinishOperation, OthersStay, AfterRefusal, ReleaseLane, IsLifecycle,
         LifecycleKinds
  <2>4. QuarantineEnds' /\ Stages' /\ FencesTold' /\ GraceInv'
    BY <2>1, RunQuiet
  <2>5. Abandoned'
    BY <2>1, <2>2, <2>3, AbandonedOf DEF Busy, Minted, RawReturned, Restarting
  <2>6. OwnRun'
    BY <2>1, <2>2, <2>3, OwnRunOf, ConstantsAssumption DEF RunInv, OwnRun, OwnRunAt, Minted
  <2>7. Commits'
    BY <2>1, <2>2, <2>3, CommitsOf DEF RunInv, Commits, CommitsAt, PreparedPcs
  <2>8. GhostIsMet'
    BY <2>1, <2>2, <2>3, GhostOf DEF Ghost, WillClose, Minted
  <2> QED
    BY <2>4, <2>5, <2>6, <2>7, <2>8 DEF RunInv
<1>9. CASE LifecycleStep(o)
  BY <1>9, LifecycleRuns
<1>10. QED
  BY <1>1, <1>2, <1>3, <1>4, <1>5, <1>6, <1>7, <1>8, <1>9 DEF CallStep
-----------------------------------------------------------------------------
(* The run: its invariant holds.                                           *)

\* Initially nothing has been minted, staged or awaited.
LEMMA RunInit == Init => RunInv
  BY ConstantsAssumption
  DEF Init, RunInv, QuarantineEnds, Stages, StagesAt, Abandoned, AbandonedAt, Busy, OwnRun, OwnRunAt,
      Commits, CommitsAt, PreparedPcs, GhostIsMet, Ghost, FencesTold, ToldAt, Awaited, GraceInv,
      GraceHasTimer, RemovalPrepared, NoOwner, NoStage, Minted

\* Every step keeps it.
LEMMA RunStep == TypeInv /\ TokenInv /\ PermitInv /\ RunInv /\ [Next]_vars => RunInv'
<1> SUFFICES ASSUME TypeInv, TokenInv, PermitInv, RunInv, [Next]_vars PROVE RunInv'
  OBVIOUS
<1>1. ASSUME NEW o \in Ops, OpStep(o) PROVE RunInv'
  BY <1>1, BeginRuns, GateRuns, RawRuns DEF OpStep
<1>2. CASE UNCHANGED vars
  BY <1>2, RunQuiet DEF vars, RunInv
<1>3. QED
  BY <1>1, <1>2, AttachRuns, HolderRuns, AuthorityRuns, ProcessRuns DEF Next

\* The four invariants together.
LEMMA RunsHold == Spec => [](TypeInv /\ TokenInv /\ PermitInv /\ RunInv)
<1>1. Init => RunInv
  BY RunInit
<1>2. TypeInv /\ TokenInv /\ PermitInv /\ RunInv /\ [Next]_vars => RunInv'
  BY RunStep
<1>3. QED
  BY PermitsHold, <1>1, <1>2, PTL DEF Spec

\* A call leaves its place by a step of its own.
LEMMA OwnPlace ==
  ASSUME TypeInv, [Next]_vars, NEW o \in Ops, pc'[o] # pc[o]
  PROVE  OpStep(o)
<1>1. ASSUME NEW q \in Ops, q # o, BeginCall(q) PROVE pc'[o] = pc[o]
  BY <1>1, Arrays
  DEF BeginCall, BeginDesktopWrite, BeginDesktopResize, BeginDeviceWrite, BeginLifecycle
<1>2. ASSUME NEW q \in Ops, q # o, LifecycleStep(q) PROVE pc'[o] = pc[o]
  BY <1>2, Arrays
  DEF LifecycleStep, Seal, CompositePrepare, CommitStop, CommitRemove, CommitRestart,
      FinishCommitted, AbandonSealed, AbortStage, AbandonToken, ReleaseManager, Reconcile
<1>3. ASSUME NEW q \in Ops, q # o, CallStep(q) PROVE pc'[o] = pc[o]
  BY <1>2, <1>3, Arrays
  DEF CallStep, CommitIntent, LaneAcquire, LaneTimeout, LaneCancelled, MintPermit, RefusePermit,
      RawTimeout, FinishOperation
<1>4. ASSUME NEW q \in Ops, RawStep(q) PROVE pc' = pc
  BY <1>4
  DEF RawStep, Checkpoint, WriteDone, CloseDone, OldClosed, StageRestartRun, LaunchCheckpoint,
      Launched
<1>5. CASE AttachStep
  BY <1>5 DEF AttachStep, ReserveAttach, CommitAttach, AbortAttach, Detach, UnexpectedDetach
<1>6. CASE HolderStep
  BY <1>6
  DEF HolderStep, TimerFires, ExpireGrace, AcquireCheck, Release, AcquireCommit, ForceCheck,
      ForceTake, ForceRelease
<1>7. CASE AuthorityStep
  BY <1>7
  DEF AuthorityStep, MarkRevoked, FenceRevoked, ReleaseRevoked, StopAdmission, StopFence,
      StopFenced, StopRelease, RestartRemote
<1>8. CASE ProcessStep
  BY <1>8 DEF ProcessStep, ProcessExit, ObserveExit, ConfirmDetach
<1>9. CASE UNCHANGED vars
  BY <1>9 DEF vars
<1>10. QED
  BY <1>1, <1>3, <1>4, <1>5, <1>6, <1>7, <1>8, <1>9 DEF Next, OpStep

\* A restart that a fence waits for has launched its process, so that it ends at
\* the end of its commit or in the reconcile.
LEMMA FencedEnd ==
  ASSUME TypeInv, TokenInv, PermitInv, RunInv, [Next]_vars, NEW o \in Ops,
         kind[o] = "restart", Awaited(o), pc[o] # "done", pc'[o] = "done"
  PROVE  (FinishCommitted(o) /\ post[o]) \/ Reconcile(o)
<1>1. post[o] /\ raw[o] = "ok" /\ IsLifecycle(o)
  BY DEF RunInv, FencesTold, ToldAt, IsLifecycle, LifecycleKinds
<1>2. pc[o] \notin {"idle", "intent", "lane", "permit"}
  BY <1>1 DEF PermitInv, PermitBehind, Minted
<1>3. OpStep(o)
  BY OwnPlace
<1>4. ~BeginCall(o)
  BY <1>2 DEF BeginCall, BeginDesktopWrite, BeginDesktopResize, BeginDeviceWrite, BeginLifecycle
<1>5. ASSUME RawStep(o) PROVE FALSE
  BY <1>5
  DEF RawStep, Checkpoint, WriteDone, CloseDone, OldClosed, StageRestartRun, LaunchCheckpoint,
      Launched
<1>6. ASSUME CallStep(o) PROVE LifecycleStep(o)
  BY <1>1, <1>2, <1>6, Arrays
  DEF CallStep, CommitIntent, LaneAcquire, LaneTimeout, LaneCancelled, MintPermit, RefusePermit,
      RawTimeout, FinishOperation, AfterRefusal
<1>7. ASSUME ReleaseManager(o) PROVE FALSE
  <2>1. CloseAttempted(o)
    BY <1>1 DEF CloseAttempted
  <2>2. QED
    BY <1>7, <2>1, Arrays DEF ReleaseManager
<1>8. ASSUME LifecycleStep(o) PROVE FinishCommitted(o) \/ Reconcile(o)
  BY <1>7, <1>8, Arrays
  DEF LifecycleStep, Seal, CompositePrepare, CommitStop, CommitRemove, CommitRestart,
      AbandonSealed, AbortStage, AbandonToken
<1>9. QED
  BY <1>1, <1>3, <1>4, <1>5, <1>6, <1>8 DEF OpStep

-----------------------------------------------------------------------------
(* What the run promises.                                                  *)

\* Once a process is gone and no lifecycle is in the middle of replacing it, the
\* session does not present a running run (NoGhostRun).
THEOREM NoRunIsAGhost == Spec => []NoGhostRun
<1>1. ASSUME TokenInv, RunInv PROVE NoGhostRun
  <2>1. ASSUME NEW o \in Ops, WillClose(o) PROVE LifecycleInFlight
    BY <1>1, <2>1
    DEF WillClose, LifecycleInFlight, IsLifecycle, LifecycleKinds, TokenInv, LifecycleKnown,
        LifecyclePcs
  <2>2. QED
    BY <1>1, <2>1 DEF RunInv, GhostIsMet, Ghost, NoGhostRun
<1>2. QED
  BY RunsHold, <1>1, PTL

\* A restart that a revocation or a server stop met after its seal leaves neither
\* its own run nor the one it set out to replace running (FencedRestartCloses).
THEOREM FencedRestartsClose == Spec => FencedRestartCloses
<1>1. ASSUME TypeInv, TokenInv, PermitInv, RunInv, [Next]_vars, NEW o \in Ops,
             kind[o] = "restart", Awaited(o), pc[o] # "done", pc'[o] = "done",
             pc[o] = "committed" \/ runEpoch' = permit[o].run
      PROVE  runPhase' # "active"
  <2>1. CASE FinishCommitted(o) /\ post[o]
    BY <1>1, <2>1 DEF FinishCommitted
  <2>2. CASE Reconcile(o)
    <3>1. runEpoch = permit[o].run
      BY <1>1, <2>2 DEF Reconcile
    <3>2. ~removed
      BY <1>1, <3>1
      DEF RunInv, FencesTold, ToldAt, PermitInv, EntryInv, PermitBehind, Minted
    <3>3. QED
      BY <2>2, <3>1, <3>2 DEF Reconcile
  <2>3. QED
    BY <1>1, <2>1, <2>2, FencedEnd
<1>2. TypeInv /\ TokenInv /\ PermitInv /\ RunInv /\ [Next]_vars =>
        [\A o \in Ops :
           /\ kind[o] = "restart" /\ Awaited(o) /\ pc[o] # "done" /\ pc'[o] = "done"
           /\ pc[o] = "committed" \/ runEpoch' = permit[o].run
           => runPhase' # "active"]_vars
  BY <1>1
<1>3. QED
  BY RunsHold, <1>2, PTL DEF Spec, FencedRestartCloses

\* A holder in grace is covered by a timer or a started callback that still
\* matches it, unless a removal was once sealed (GraceHasTimer).
THEOREM GraceIsTimed == Spec => []GraceHasTimer
<1>1. RunInv => GraceHasTimer
  BY DEF RunInv, GraceInv
<1>2. QED
  BY RunsHold, <1>1, PTL

=============================================================================
