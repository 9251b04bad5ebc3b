------------------------ MODULE ControlTokens_proofs ------------------------
(***************************************************************************)
(* Type correctness of the control session, and the ownership of the lane, *)
(* the current operation, the prepared token, the Manager's token and the  *)
(* lifecycle intent, for every number of devices and calls.  None of the   *)
(* five is read off the others in the code; the invariant of the tokens    *)
(* ties each of them to the place its owner has reached.                   *)
(***************************************************************************)
EXTENDS ControlSession, TLAPS

\* The groups of variables and the abbreviations of the actions.
USE DEF entryVars, runVars, backVars, arbVars, attachVars, threadVars, permitVars, tokenVars,
        procVars, mgrVars, Goto, RawTo, UnchangedByCalls, UnchangedByRaw, UnchangedByProcess

\* What the types of a reservation and of an Acquire in its guard rest on.
AttachInv ==
  /\ \A d \in Devices : pending[d].gen <= leaseSeq[d]
  /\ acq = NoAcquire \/ acq.dev \in Devices

\* The inductive invariant of the types.
TypeInv == TypeOK /\ AttachInv

\* The owners that transitions install are owners.
LEMMA OwnerTypes ==
  /\ NoOwner \in OwnerType /\ DesktopOwner \in OwnerType
  /\ \A d \in Devices, g \in Nat : DeviceOwner(d, g) \in OwnerType
  BY DEF OwnerType, NoOwner, DesktopOwner, DeviceOwner

\* An entry without a grace timer has the default record.
LEMMA NoTimerType == NoTimer \in [epoch : Nat, gen : Nat, fired : BOOLEAN]
  BY DEF NoTimer

\* Closing an intent keeps its shape.
LEMMA ClosedIntentType == \A d \in DrainType : ClosedIntent(d) \in DrainType
  BY DEF ClosedIntent, DrainType

\* A change of authority keeps the types of the entry.
LEMMA TransitionType ==
  ASSUME EntryTypeOK, NEW new \in OwnerType, CommitTransition(new)
  PROVE  owner' \in OwnerType /\ controlEpoch' \in Nat /\ holderGen' \in Nat /\ drain' \in DrainType
  BY ClosedIntentType DEF EntryTypeOK, CommitTransition

\* Fencing the operation in flight marks a call.
LEMMA FencedType ==
  CallTypeOK => FencedCurrent \in [Ops -> BOOLEAN] /\ PostFenced \in [Ops -> BOOLEAN]
  BY DEF CallTypeOK, FencedCurrent, PostFenced

\* A takeover by the desktop keeps the types.
LEMMA TakeDesktopType ==
  ASSUME EntryTypeOK, CallTypeOK, TakeDesktop
  PROVE  /\ owner' \in OwnerType /\ controlEpoch' \in Nat /\ holderGen' \in Nat /\ drain' \in DrainType
         /\ timer' \in [epoch : Nat, gen : Nat, fired : BOOLEAN] /\ fenced' \in [Ops -> BOOLEAN]
  BY OwnerTypes, TransitionType, FencedType, NoTimerType
  DEF TakeDesktop, CancelGraceTimer, EntryTypeOK, CallTypeOK

\* Quarantining a backend keeps the types of the backend and the run.
LEMMA QuarantineType ==
  ASSUME EntryTypeOK, CallTypeOK, Quarantine
  PROVE  /\ backendEpoch' \in Nat /\ quarantined' \in BOOLEAN /\ receipts' \subseteq Nat
         /\ detach' \in {"none", "pending", "detached"}
         /\ runPhase' \in {"active", "starting", "terminal"}
         /\ fenced' \in [Ops -> BOOLEAN]
  BY FencedType DEF Quarantine, EntryTypeOK

\* A step of a call leaves attachment, admission and the other actors alone.
LEMMA PlaneUnchanged ==
  ASSUME PlaneTypeOK, AttachInv, UNCHANGED <<arbVars, attachVars, threadVars, acq>>,
         mgr' \in Ops \cup {NoOp}, stale' \in BOOLEAN
  PROVE  PlaneTypeOK' /\ AttachInv'
  BY DEF PlaneTypeOK, AttachInv

-----------------------------------------------------------------------------
\* The initial state.
LEMMA TypeInit == Init => TypeInv
<1> SUFFICES ASSUME Init PROVE TypeInv
  OBVIOUS
<1>1. EntryTypeOK
  BY OwnerTypes, NoTimerType DEF Init, EntryTypeOK, NoDrain, DrainType
<1>2. PlaneTypeOK
  <2>1. pending \in [Devices -> AttachType] /\ acq \in AcquireType
    BY DEF Init, NoAttach, AttachType, NoAcquire, AcquireType
  <2>2. revPc \in [Devices -> {"idle", "marked", "waiting", "done"}]
    BY DEF Init
  <2>3. /\ lease \in [Devices -> Nat] /\ leaseSeq \in [Devices -> Nat]
         /\ \A d \in Devices : lease[d] <= leaseSeq[d]
    BY DEF Init
  <2>4. revWait \in [Devices -> Ops \cup {NoOp}]
    BY DEF Init
  <2>5. QED
    BY <2>1, <2>2, <2>3, <2>4 DEF Init, PlaneTypeOK
<1>3. CallTypeOK
  <2>1. pc \in [Ops -> PcType] /\ raw \in [Ops -> RawType]
    BY DEF Init, PcType, RawType
  <2>2. kind \in [Ops -> DataKinds \cup LifecycleKinds \cup {"none"}]
    BY DEF Init
  <2>3. permit \in [Ops -> PermitType] /\ stage \in [Ops -> [run : Nat, backend : Nat]]
    BY DEF Init, NoPermit, PermitType, NoStage
  <2>4. seal \in [epoch : Nat, gen : Nat, backend : Nat]
    BY DEF Init, NoSeal
  <2>5. QED
    BY <2>1, <2>2, <2>3, <2>4 DEF Init, CallTypeOK
<1>4. AttachInv
  BY DEF Init, AttachInv, NoAttach
<1>5. QED
  BY <1>1, <1>2, <1>3, <1>4 DEF TypeInv, TypeOK

USE DEF TypeInv, TypeOK

-----------------------------------------------------------------------------
(* Attachments.                                                            *)

\* Connections: reserving, committing, aborting and losing an attachment.
LEMMA AttachTypes == ASSUME TypeInv, AttachStep PROVE TypeInv'
<1>1. ASSUME NEW d \in Devices, ReserveAttach(d) PROVE TypeInv'
  BY <1>1 DEF ReserveAttach, AttachType, HeldBy, EntryTypeOK, PlaneTypeOK, CallTypeOK, AttachInv
<1>2. ASSUME NEW d \in Devices, CommitAttach(d) PROVE TypeInv'
  BY <1>2, OwnerTypes, NoTimerType
  DEF CommitAttach, AttachType, NoAttach, CancelGraceTimer, EntryTypeOK, PlaneTypeOK, CallTypeOK,
      AttachInv
<1>3. ASSUME NEW d \in Devices, AbortAttach(d) PROVE TypeInv'
  BY <1>3 DEF AbortAttach, AttachType, NoAttach, EntryTypeOK, PlaneTypeOK, CallTypeOK, AttachInv
<1>4. ASSUME NEW d \in Devices, NEW how \in CloseKinds, Detach(d, how) PROVE TypeInv'
  BY <1>4 DEF Detach, EntryTypeOK, PlaneTypeOK, CallTypeOK, AttachInv
<1>5. ASSUME NEW n \in lost, UnexpectedDetach(n) PROVE TypeInv'
  <2>1. EntryTypeOK'
    <3>1. n.gen \in Nat
      BY DEF PlaneTypeOK
    <3>2. [owner EXCEPT !.phase = "grace"] \in OwnerType
      BY DEF EntryTypeOK, OwnerType
    <3>3. owner' \in OwnerType /\ controlEpoch' \in Nat
      BY <1>5, <3>2 DEF EntryTypeOK, UnexpectedDetach
    <3>4. [epoch |-> controlEpoch + 1, gen |-> n.gen, fired |-> FALSE]
            \in [epoch : Nat, gen : Nat, fired : BOOLEAN]
      BY <3>1 DEF EntryTypeOK
    <3>5. timer' \in [epoch : Nat, gen : Nat, fired : BOOLEAN]
      BY <1>5, <3>4 DEF EntryTypeOK, UnexpectedDetach, ArmGraceTimer
    <3>6. QED
      BY <1>5, <3>3, <3>5 DEF EntryTypeOK, UnexpectedDetach
  <2>2. PlaneTypeOK' /\ AttachInv'
    BY <1>5 DEF UnexpectedDetach, PlaneTypeOK, AttachInv
  <2>3. CallTypeOK'
    BY <1>5 DEF UnexpectedDetach, CallTypeOK
  <2>4. QED
    BY <2>1, <2>2, <2>3
<1>6. QED
  BY <1>1, <1>2, <1>3, <1>4, <1>5 DEF AttachStep

-----------------------------------------------------------------------------
(* Grace timers, acquire and release.                                      *)

\* The holder: grace, Acquire, release and force release.
LEMMA HolderTypes == ASSUME TypeInv, HolderStep PROVE TypeInv'
<1>1. CASE TimerFires
  <2>1. EntryTypeOK'
    <3>1. timer' \in [epoch : Nat, gen : Nat, fired : BOOLEAN]
      BY <1>1 DEF EntryTypeOK, TimerFires
    <3>2. [epoch |-> timer.epoch, gen |-> timer.gen] \in GraceDesc
      BY DEF EntryTypeOK, GraceDesc
    <3>3. QED
      BY <1>1, <3>1, <3>2 DEF EntryTypeOK, TimerFires
  <2>2. PlaneTypeOK' /\ AttachInv'
    BY <1>1 DEF TimerFires, PlaneTypeOK, AttachInv
  <2>3. CallTypeOK'
    BY <1>1 DEF TimerFires, CallTypeOK
  <2>4. QED
    BY <2>1, <2>2, <2>3
<1>2. ASSUME NEW desc \in callbacks, ExpireGrace(desc) PROVE TypeInv'
  BY <1>2, OwnerTypes, TransitionType
  DEF ExpireGrace, EntryTypeOK, PlaneTypeOK, CallTypeOK, AttachInv
<1>3. ASSUME NEW d \in Devices, AcquireCheck(d) PROVE TypeInv'
  BY <1>3 DEF AcquireCheck, AcquireType, EntryTypeOK, PlaneTypeOK, CallTypeOK, AttachInv
<1>4. ASSUME NEW d \in Devices, Release(d) PROVE TypeInv'
  BY <1>4, OwnerTypes, TransitionType, NoTimerType
  DEF Release, CancelGraceTimer, EntryTypeOK, PlaneTypeOK, CallTypeOK, AttachInv
<1>5. CASE AcquireCommit
  BY <1>5, OwnerTypes, TransitionType, NoTimerType, FencedType
  DEF AcquireCommit, CancelGraceTimer, AcquireType, NoAcquire, GuardFree, EntryTypeOK, PlaneTypeOK,
      CallTypeOK, AttachInv
<1>6. CASE ForceCheck
  BY <1>6 DEF ForceCheck, EntryTypeOK, PlaneTypeOK, CallTypeOK, AttachInv
<1>7. CASE ForceTake
  BY <1>7, TakeDesktopType DEF ForceTake, EntryTypeOK, PlaneTypeOK, CallTypeOK, AttachInv
<1>8. CASE ForceRelease
  BY <1>8, OwnerTypes, TransitionType
  DEF ForceRelease, EntryTypeOK, PlaneTypeOK, CallTypeOK, AttachInv
<1>9. QED
  BY <1>1, <1>2, <1>3, <1>4, <1>5, <1>6, <1>7, <1>8 DEF HolderStep

-----------------------------------------------------------------------------
(* Revocations and server stops.                                           *)

\* The authorities: revocation, server stop and start.
LEMMA AuthorityTypes == ASSUME TypeInv, AuthorityStep PROVE TypeInv'
<1>1. ASSUME NEW d \in Devices, MarkRevoked(d) PROVE TypeInv'
  BY <1>1 DEF MarkRevoked, EntryTypeOK, PlaneTypeOK, CallTypeOK, AttachInv
<1>2. ASSUME NEW d \in Devices, FenceRevoked(d) PROVE TypeInv'
  <2>1. EntryTypeOK'
    BY <1>2, ClosedIntentType DEF FenceRevoked, EntryTypeOK
  <2>2. PlaneTypeOK' /\ AttachInv'
    BY <1>2 DEF FenceRevoked, PlaneTypeOK, CallTypeOK, AttachInv
  <2>3. CallTypeOK'
    BY <1>2, FencedType DEF FenceRevoked, CallTypeOK
  <2>4. QED
    BY <2>1, <2>2, <2>3
<1>3. ASSUME NEW d \in Devices, ReleaseRevoked(d) PROVE TypeInv'
  BY <1>3, OwnerTypes, TransitionType, NoTimerType
  DEF ReleaseRevoked, CancelGraceTimer, EntryTypeOK, PlaneTypeOK, CallTypeOK, AttachInv
<1>4. CASE StopAdmission
  <2>1. EntryTypeOK'
    BY <1>4 DEF StopAdmission, EntryTypeOK
  <2>2. PlaneTypeOK' /\ AttachInv'
    <3>1. accGen' \in Nat /\ stops' \in Nat
      BY <1>4 DEF PlaneTypeOK, StopAdmission
    <3>2. AttachInv'
      BY <1>4 DEF AttachInv, StopAdmission
    <3>3. QED
      BY <1>4, <3>1, <3>2 DEF PlaneTypeOK, StopAdmission
  <2>3. CallTypeOK'
    BY <1>4 DEF StopAdmission, CallTypeOK
  <2>4. QED
    BY <2>1, <2>2, <2>3
<1>5. CASE StopFence
  BY <1>5, FencedType DEF StopFence, EntryTypeOK, PlaneTypeOK, CallTypeOK, AttachInv
<1>6. CASE StopFenced
  BY <1>6 DEF StopFenced, EntryTypeOK, PlaneTypeOK, CallTypeOK, AttachInv
<1>7. CASE StopRelease
  BY <1>7, OwnerTypes, TransitionType, NoTimerType
  DEF StopRelease, CancelGraceTimer, EntryTypeOK, PlaneTypeOK, CallTypeOK, AttachInv
<1>8. CASE RestartRemote
  BY <1>8 DEF RestartRemote, EntryTypeOK, PlaneTypeOK, CallTypeOK, AttachInv
<1>9. QED
  BY <1>1, <1>2, <1>3, <1>4, <1>5, <1>6, <1>7, <1>8 DEF AuthorityStep

-----------------------------------------------------------------------------
(* The process.                                                            *)

\* The process: its exit and its detach receipt.
LEMMA ProcessTypes == ASSUME TypeInv, ProcessStep PROVE TypeInv'
<1>1. CASE ProcessExit
  BY <1>1, PlaneUnchanged DEF ProcessExit, EntryTypeOK, PlaneTypeOK, CallTypeOK, AttachInv
<1>2. CASE ObserveExit
  BY <1>2, PlaneUnchanged DEF ObserveExit, EntryTypeOK, PlaneTypeOK, CallTypeOK, AttachInv
<1>3. ASSUME NEW e \in receipts, ConfirmDetach(e) PROVE TypeInv'
  BY <1>3, PlaneUnchanged DEF ConfirmDetach, EntryTypeOK, PlaneTypeOK, CallTypeOK, AttachInv
<1>4. QED
  BY <1>1, <1>2, <1>3 DEF ProcessStep

-----------------------------------------------------------------------------
(* Entering a call.                                                        *)

\* A call begins.
LEMMA BeginTypes == ASSUME TypeInv, NEW o \in Ops, BeginCall(o) PROVE TypeInv'
<1>1. CASE BeginDesktopWrite(o)
  <2>1. EntryTypeOK'
    BY <1>1, TakeDesktopType DEF BeginDesktopWrite, EntryTypeOK
  <2>2. PlaneTypeOK' /\ AttachInv'
    BY <1>1, PlaneUnchanged DEF BeginDesktopWrite, PlaneTypeOK
  <2>3. CallTypeOK'
    <3>1. kind' \in [Ops -> DataKinds \cup LifecycleKinds \cup {"none"}]
      BY <1>1 DEF CallTypeOK, BeginDesktopWrite, Identify, DataKinds
    <3>2. pc' \in [Ops -> PcType]
      BY <1>1 DEF CallTypeOK, BeginDesktopWrite, PcType
    <3>3. actor' \in [Ops -> Devices \cup {Desktop}] /\ opLease' \in [Ops -> Nat]
      BY <1>1 DEF CallTypeOK, BeginDesktopWrite, Identify
    <3>4. QED
      BY <1>1, TakeDesktopType, <3>1, <3>2, <3>3 DEF CallTypeOK, BeginDesktopWrite
  <2>4. QED
    BY <2>1, <2>2, <2>3
<1>2. CASE BeginDesktopResize(o)
  <2>1. EntryTypeOK'
    BY <1>2 DEF BeginDesktopResize, EntryTypeOK
  <2>2. PlaneTypeOK' /\ AttachInv'
    BY <1>2, PlaneUnchanged DEF BeginDesktopResize, PlaneTypeOK
  <2>3. CallTypeOK'
    <3>1. kind' \in [Ops -> DataKinds \cup LifecycleKinds \cup {"none"}]
      BY <1>2 DEF CallTypeOK, BeginDesktopResize, Identify, DataKinds
    <3>2. pc' \in [Ops -> PcType]
      BY <1>2 DEF CallTypeOK, BeginDesktopResize, PcType
    <3>3. actor' \in [Ops -> Devices \cup {Desktop}] /\ opLease' \in [Ops -> Nat]
      BY <1>2 DEF CallTypeOK, BeginDesktopResize, Identify
    <3>4. QED
      BY <1>2, <3>1, <3>2, <3>3 DEF CallTypeOK, BeginDesktopResize
  <2>4. QED
    BY <2>1, <2>2, <2>3
<1>3. ASSUME NEW d \in Devices, BeginDeviceWrite(o, d) PROVE TypeInv'
  <2>1. EntryTypeOK'
    BY <1>3 DEF BeginDeviceWrite, EntryTypeOK
  <2>2. PlaneTypeOK' /\ AttachInv'
    BY <1>3, PlaneUnchanged DEF BeginDeviceWrite, PlaneTypeOK
  <2>3. CallTypeOK'
    <3>1. kind' \in [Ops -> DataKinds \cup LifecycleKinds \cup {"none"}]
      BY <1>3 DEF CallTypeOK, BeginDeviceWrite, Identify, DataKinds
    <3>2. pc' \in [Ops -> PcType]
      BY <1>3 DEF CallTypeOK, BeginDeviceWrite, PcType
    <3>3. actor' \in [Ops -> Devices \cup {Desktop}] /\ opLease' \in [Ops -> Nat]
      BY <1>3 DEF CallTypeOK, PlaneTypeOK, BeginDeviceWrite, Identify
    <3>4. QED
      BY <1>3, <3>1, <3>2, <3>3 DEF CallTypeOK, BeginDeviceWrite
  <2>4. QED
    BY <2>1, <2>2, <2>3
<1>4. ASSUME NEW k \in LifecycleKinds, NEW a \in Devices \cup {Desktop}, BeginLifecycle(o, k, a)
      PROVE TypeInv'
  <2>1. EntryTypeOK'
    BY <1>4 DEF BeginLifecycle, EntryTypeOK
  <2>2. PlaneTypeOK' /\ AttachInv'
    BY <1>4, PlaneUnchanged DEF BeginLifecycle
  <2>3. CallTypeOK'
    BY <1>4 DEF BeginLifecycle, CallTypeOK, Identify, PcType
  <2>4. QED
    BY <2>1, <2>2, <2>3
<1>5. QED
  BY <1>1, <1>2, <1>3, <1>4 DEF BeginCall

-----------------------------------------------------------------------------
(* Raw effects.                                                            *)

\* The goroutine of a raw effect.
LEMMA RawTypes == ASSUME TypeInv, NEW o \in Ops, RawStep(o) PROVE TypeInv'
<1>1. CASE Checkpoint(o)
  BY <1>1 DEF Checkpoint, RawType, EntryTypeOK, PlaneTypeOK, CallTypeOK, AttachInv
<1>2. CASE WriteDone(o)
  BY <1>2 DEF WriteDone, RawType, EntryTypeOK, PlaneTypeOK, CallTypeOK, AttachInv
<1>3. CASE CloseDone(o)
  BY <1>3 DEF CloseDone, RawType, EntryTypeOK, PlaneTypeOK, CallTypeOK, AttachInv
<1>4. CASE OldClosed(o)
  <2>1. EntryTypeOK'
    BY <1>4 DEF OldClosed, EntryTypeOK
  <2>2. PlaneTypeOK' /\ AttachInv'
    BY <1>4, PlaneUnchanged DEF OldClosed, PlaneTypeOK
  <2>3. CallTypeOK'
    BY <1>4 DEF OldClosed, CallTypeOK, RawType
  <2>4. QED
    BY <2>1, <2>2, <2>3
<1>5. CASE StageRestartRun(o)
  <2>1. EntryTypeOK'
    BY <1>5 DEF StageRestartRun, EntryTypeOK
  <2>2. PlaneTypeOK' /\ AttachInv'
    BY <1>5, PlaneUnchanged DEF StageRestartRun, PlaneTypeOK
  <2>3. CallTypeOK'
    <3>1. stage' \in [Ops -> [run : Nat, backend : Nat]]
      BY <1>5 DEF CallTypeOK, EntryTypeOK, StageRestartRun
    <3>2. raw' \in [Ops -> RawType]
      BY <1>5 DEF CallTypeOK, StageRestartRun, RawType
    <3>3. QED
      BY <1>5, <3>1, <3>2 DEF CallTypeOK, StageRestartRun
  <2>4. QED
    BY <2>1, <2>2, <2>3
<1>6. CASE LaunchCheckpoint(o)
  BY <1>6 DEF LaunchCheckpoint, RawType, EntryTypeOK, PlaneTypeOK, CallTypeOK, AttachInv
<1>7. CASE Launched(o)
  <2>1. EntryTypeOK'
    BY <1>7 DEF Launched, EntryTypeOK
  <2>2. PlaneTypeOK' /\ AttachInv'
    BY <1>7, PlaneUnchanged DEF Launched, PlaneTypeOK
  <2>3. CallTypeOK'
    BY <1>7 DEF Launched, CallTypeOK, RawType
  <2>4. QED
    BY <2>1, <2>2, <2>3
<1>8. QED
  BY <1>1, <1>2, <1>3, <1>4, <1>5, <1>6, <1>7 DEF RawStep

-----------------------------------------------------------------------------
(* Sealed lifecycles.                                                      *)

\* The second half of a lifecycle: seal, commit, abort, reconcile.
LEMMA LifecycleTypes == ASSUME TypeInv, NEW o \in Ops, LifecycleStep(o) PROVE TypeInv'
<1>1. CASE Seal(o)
  BY <1>1, NoTimerType
  DEF Seal, CancelGraceTimer, TenureAtSeal, PcType, EntryTypeOK, PlaneTypeOK, CallTypeOK, AttachInv
<1>2. CASE CompositePrepare(o)
  BY <1>2 DEF CompositePrepare, PcType, EntryTypeOK, PlaneTypeOK, CallTypeOK, AttachInv
<1>3. CASE CommitStop(o)
  BY <1>3 DEF CommitStop, PcType, EntryTypeOK, PlaneTypeOK, CallTypeOK, AttachInv
<1>4. CASE CommitRemove(o)
  BY <1>4, OwnerTypes DEF CommitRemove, PcType, EntryTypeOK, PlaneTypeOK, CallTypeOK, AttachInv
<1>5. CASE CommitRestart(o)
  <2>1. EntryTypeOK'
    BY <1>5 DEF CommitRestart, EntryTypeOK, CallTypeOK
  <2>2. PlaneTypeOK' /\ AttachInv'
    BY <1>5, PlaneUnchanged DEF CommitRestart, PlaneTypeOK
  <2>3. CallTypeOK'
    BY <1>5 DEF CommitRestart, CallTypeOK, NoStage, PcType
  <2>4. QED
    BY <2>1, <2>2, <2>3
<1>6. CASE FinishCommitted(o)
  <2>1. EntryTypeOK'
    BY <1>6 DEF FinishCommitted, EntryTypeOK
  <2>2. PlaneTypeOK' /\ AttachInv'
    BY <1>6, PlaneUnchanged DEF FinishCommitted, PlaneTypeOK
  <2>3. CallTypeOK'
    BY <1>6 DEF FinishCommitted, CallTypeOK, ReleaseLane, PcType
  <2>4. QED
    BY <2>1, <2>2, <2>3
<1>7. CASE AbandonSealed(o)
  BY <1>7 DEF AbandonSealed, PcType, EntryTypeOK, PlaneTypeOK, CallTypeOK, AttachInv
<1>8. CASE AbortStage(o)
  BY <1>8 DEF AbortStage, NoStage, EntryTypeOK, PlaneTypeOK, CallTypeOK, AttachInv
<1>9. CASE AbandonToken(o)
  BY <1>9
  DEF AbandonToken, ClearedBy, ReleaseLane, PcType, EntryTypeOK, PlaneTypeOK, CallTypeOK, AttachInv
<1>10. CASE ReleaseManager(o)
  <2>1. EntryTypeOK'
    BY <1>10 DEF ReleaseManager, EntryTypeOK
  <2>2. PlaneTypeOK' /\ AttachInv'
    BY <1>10, PlaneUnchanged DEF ReleaseManager, PlaneTypeOK
  <2>3. CallTypeOK'
    BY <1>10 DEF ReleaseManager, CallTypeOK, PcType
  <2>4. QED
    BY <2>1, <2>2, <2>3
<1>11. CASE Reconcile(o)
  <2>1. EntryTypeOK'
    BY <1>11 DEF Reconcile, EntryTypeOK
  <2>2. PlaneTypeOK' /\ AttachInv'
    BY <1>11, PlaneUnchanged DEF Reconcile, PlaneTypeOK
  <2>3. CallTypeOK'
    BY <1>11, FencedType DEF Reconcile, CallTypeOK, PcType
  <2>4. QED
    BY <2>1, <2>2, <2>3
<1>12. QED
  BY <1>1, <1>2, <1>3, <1>4, <1>5, <1>6, <1>7, <1>8, <1>9, <1>10, <1>11 DEF LifecycleStep

-----------------------------------------------------------------------------
(* The gate.                                                               *)

\* The steps of a call: lane, permit, effect, result.
LEMMA GateTypes == ASSUME TypeInv, NEW o \in Ops, CallStep(o) PROVE TypeInv'
<1>1. CASE CommitIntent(o)
  <2>1. EntryTypeOK'
    <3>1. [op |-> o, run |-> runEpoch, hgen |-> holderGen, closed |-> FALSE] \in DrainType
      BY DEF EntryTypeOK, DrainType
    <3>2. QED
      BY <1>1, <3>1 DEF CommitIntent, EntryTypeOK
  <2>2. PlaneTypeOK' /\ AttachInv'
    BY <1>1, PlaneUnchanged DEF CommitIntent, PlaneTypeOK
  <2>3. CallTypeOK'
    BY <1>1, FencedType DEF CommitIntent, CallTypeOK, PcType
  <2>4. QED
    BY <2>1, <2>2, <2>3
<1>2. CASE LaneAcquire(o)
  BY <1>2 DEF LaneAcquire, PcType, EntryTypeOK, PlaneTypeOK, CallTypeOK, AttachInv
<1>3. CASE LaneTimeout(o)
  BY <1>3, QuarantineType, ClosedIntentType
  DEF LaneTimeout, AbandonedBy, AfterRefusal, PcType, EntryTypeOK, PlaneTypeOK, CallTypeOK,
      AttachInv
<1>4. CASE LaneCancelled(o)
  BY <1>4, ClosedIntentType
  DEF LaneCancelled, AbandonedBy, AfterRefusal, PcType, EntryTypeOK, PlaneTypeOK, CallTypeOK,
      AttachInv
<1>5. CASE MintPermit(o)
  BY <1>5
  DEF MintPermit, NoDrain, DrainType, PermitType, PcType, RawType, EntryTypeOK, PlaneTypeOK,
      CallTypeOK, AttachInv
<1>6. CASE RefusePermit(o)
  BY <1>6, ClosedIntentType
  DEF RefusePermit, AbandonedBy, AfterRefusal, ReleaseLane, PcType, EntryTypeOK, PlaneTypeOK,
      CallTypeOK, AttachInv
<1>7. CASE RawTimeout(o)
  BY <1>7, QuarantineType DEF RawTimeout, PcType, EntryTypeOK, PlaneTypeOK, CallTypeOK, AttachInv
<1>8. CASE FinishOperation(o)
  BY <1>8
  DEF FinishOperation, ClearedBy, ReleaseLane, AfterRefusal, PcType, EntryTypeOK, PlaneTypeOK,
      CallTypeOK, AttachInv
<1>9. CASE LifecycleStep(o)
  BY <1>9, LifecycleTypes
<1>10. QED
  BY <1>1, <1>2, <1>3, <1>4, <1>5, <1>6, <1>7, <1>8, <1>9 DEF CallStep

-----------------------------------------------------------------------------
\* One step, by the part of the system that takes it.
LEMMA TypeStep == TypeInv /\ [Next]_vars => TypeInv'
<1> SUFFICES ASSUME TypeInv, [Next]_vars PROVE TypeInv'
  OBVIOUS
<1>1. ASSUME NEW o \in Ops, OpStep(o) PROVE TypeInv'
  BY <1>1, BeginTypes, GateTypes, RawTypes DEF OpStep
<1>2. CASE UNCHANGED vars
  <2>1. EntryTypeOK'
    BY <1>2 DEF vars, EntryTypeOK
  <2>2. PlaneTypeOK' /\ AttachInv'
    BY <1>2, PlaneUnchanged DEF vars, PlaneTypeOK
  <2>3. CallTypeOK'
    BY <1>2 DEF vars, CallTypeOK
  <2>4. QED
    BY <2>1, <2>2, <2>3
<1>3. QED
  BY <1>1, <1>2, AttachTypes, HolderTypes, AuthorityTypes, ProcessTypes DEF Next

HIDE DEF TypeInv, TypeOK

\* Type correctness of the whole control session (TypeOK): owners, generations,
\* intents, permits, tokens and attachment slots, whatever the calls, callbacks,
\* revocations and server stops do.
THEOREM TypeCorrect == Spec => []TypeOK
<1>1. TypeInv => TypeOK
  BY DEF TypeInv
<1>2. QED
  BY TypeInit, TypeStep, <1>1, PTL DEF Spec

-----------------------------------------------------------------------------
(* The tokens and their owners                                             *)

\* Where a call is while the current operation, the prepared token, the intent
\* or the Manager's token may be its own.
CurrentPcs   == {"running", "finish", "sealed", "composite", "abandon"}
PreparedPcs  == {"sealed", "composite", "committed", "abandon"}
LifecyclePcs == {"intent", "sealed", "composite", "committed", "abandon", "abort", "reconcile"}
PendingPcs   == {"intent", "lane", "permit", "running", "finish", "sealed", "composite"}

\* Each of them, tied to its owner.
CurrentOwned   == \A o \in Ops : currentOp = o <=> pc[o] \in CurrentPcs
PreparedOwned  == \A o \in Ops : prepared = o <=> pc[o] \in PreparedPcs
LifecycleKnown == \A o \in Ops : pc[o] \in LifecyclePcs => IsLifecycle(o)
ManagerOwned   == \A o \in Ops : pc[o] \in PendingPcs /\ IsLifecycle(o) => mgr = o
IntentOwned    == DrainActive => pc[drain.op] \in {"lane", "permit"} /\ IsLifecycle(drain.op)

\* The inductive invariant of the tokens.
TokenInv == LaneOwned /\ CurrentOwned /\ PreparedOwned /\ LifecycleKnown /\ ManagerOwned /\ IntentOwned

\* The initial state: nothing is owned.
LEMMA TokenInit == Init => TokenInv
  BY ConstantsAssumption
  DEF Init, TokenInv, LaneOwned, CurrentOwned, PreparedOwned, LifecycleKnown, ManagerOwned,
      IntentOwned, LanePcs, CurrentPcs, PreparedPcs, LifecyclePcs, PendingPcs, DrainActive, NoDrain

\* The steps of devices, timers, revocations, server stops, raw effects and the
\* process leave the tokens alone, except that they may close the intent.
LEMMA TokensQuiet ==
  ASSUME TypeInv, TokenInv, UNCHANGED <<pc, kind, lane, currentOp, prepared, mgr>>,
         drain' \in {drain, ClosedIntent(drain)}
  PROVE  TokenInv'
<1>1. DrainActive' => DrainActive /\ drain'.op = drain.op
  BY DEF DrainActive, ClosedIntent, TypeInv, TypeOK, EntryTypeOK, DrainType
<1>2. IntentOwned'
  BY <1>1 DEF TokenInv, IntentOwned, IsLifecycle
<1>3. QED
  BY <1>2
  DEF TokenInv, LaneOwned, CurrentOwned, PreparedOwned, LifecycleKnown, ManagerOwned, IsLifecycle

-----------------------------------------------------------------------------
(* Attachments.                                                            *)

\* Connections touch no token.
LEMMA AttachTokens == ASSUME TypeInv, TokenInv, AttachStep PROVE TokenInv'
<1>1. ASSUME NEW d \in Devices, ReserveAttach(d) PROVE TokenInv'
  BY <1>1, TokensQuiet DEF ReserveAttach
<1>2. ASSUME NEW d \in Devices, CommitAttach(d) PROVE TokenInv'
  BY <1>2, TokensQuiet DEF CommitAttach
<1>3. ASSUME NEW d \in Devices, AbortAttach(d) PROVE TokenInv'
  BY <1>3, TokensQuiet DEF AbortAttach
<1>4. ASSUME NEW d \in Devices, NEW how \in CloseKinds, Detach(d, how) PROVE TokenInv'
  BY <1>4, TokensQuiet DEF Detach
<1>5. ASSUME NEW n \in lost, UnexpectedDetach(n) PROVE TokenInv'
  BY <1>5, TokensQuiet DEF UnexpectedDetach
<1>6. QED
  BY <1>1, <1>2, <1>3, <1>4, <1>5 DEF AttachStep

-----------------------------------------------------------------------------
(* Grace timers, acquire and release.                                      *)

\* Transitions of the holder close the intent, at most.
LEMMA HolderTokens == ASSUME TypeInv, TokenInv, HolderStep PROVE TokenInv'
<1>1. CASE TimerFires
  BY <1>1, TokensQuiet DEF TimerFires
<1>2. ASSUME NEW desc \in callbacks, ExpireGrace(desc) PROVE TokenInv'
  BY <1>2, TokensQuiet DEF ExpireGrace, CommitTransition
<1>3. ASSUME NEW d \in Devices, AcquireCheck(d) PROVE TokenInv'
  BY <1>3, TokensQuiet DEF AcquireCheck
<1>4. ASSUME NEW d \in Devices, Release(d) PROVE TokenInv'
  BY <1>4, TokensQuiet DEF Release, CommitTransition
<1>5. CASE AcquireCommit
  BY <1>5, TokensQuiet DEF AcquireCommit, CommitTransition
<1>6. CASE ForceCheck
  BY <1>6, TokensQuiet DEF ForceCheck
<1>7. CASE ForceTake
  BY <1>7, TokensQuiet DEF ForceTake, CommitTransition, TakeDesktop
<1>8. CASE ForceRelease
  BY <1>8, TokensQuiet DEF ForceRelease, CommitTransition
<1>9. QED
  BY <1>1, <1>2, <1>3, <1>4, <1>5, <1>6, <1>7, <1>8 DEF HolderStep

-----------------------------------------------------------------------------
(* Revocations and server stops.                                           *)

\* So do revocation and server stop.
LEMMA AuthorityTokens == ASSUME TypeInv, TokenInv, AuthorityStep PROVE TokenInv'
<1>1. ASSUME NEW d \in Devices, MarkRevoked(d) PROVE TokenInv'
  BY <1>1, TokensQuiet DEF MarkRevoked
<1>2. ASSUME NEW d \in Devices, FenceRevoked(d) PROVE TokenInv'
  BY <1>2, TokensQuiet DEF FenceRevoked
<1>3. ASSUME NEW d \in Devices, ReleaseRevoked(d) PROVE TokenInv'
  BY <1>3, TokensQuiet DEF ReleaseRevoked, CommitTransition
<1>4. CASE StopAdmission
  BY <1>4, TokensQuiet DEF StopAdmission
<1>5. CASE StopFence
  BY <1>5, TokensQuiet DEF StopFence
<1>6. CASE StopFenced
  BY <1>6, TokensQuiet DEF StopFenced
<1>7. CASE StopRelease
  BY <1>7, TokensQuiet DEF StopRelease, CommitTransition
<1>8. CASE RestartRemote
  BY <1>8, TokensQuiet DEF RestartRemote
<1>9. QED
  BY <1>1, <1>2, <1>3, <1>4, <1>5, <1>6, <1>7, <1>8 DEF AuthorityStep

-----------------------------------------------------------------------------
(* The process.                                                            *)

\* The process touches no token.
LEMMA ProcessTokens == ASSUME TypeInv, TokenInv, ProcessStep PROVE TokenInv'
<1>1. CASE ProcessExit
  BY <1>1, TokensQuiet DEF ProcessExit
<1>2. CASE ObserveExit
  BY <1>2, TokensQuiet DEF ObserveExit
<1>3. ASSUME NEW e \in receipts, ConfirmDetach(e) PROVE TokenInv'
  BY <1>3, TokensQuiet DEF ConfirmDetach
<1>4. QED
  BY <1>1, <1>2, <1>3 DEF ProcessStep

-----------------------------------------------------------------------------
\* From here on the parts of the invariant are read where a call moves.
USE DEF TokenInv, LaneOwned, CurrentOwned, PreparedOwned, LifecycleKnown, ManagerOwned, IntentOwned,
        LanePcs, CurrentPcs, PreparedPcs, LifecyclePcs, PendingPcs, DrainActive, IsLifecycle,
        TypeInv, TypeOK, EntryTypeOK, CallTypeOK, DrainType

-----------------------------------------------------------------------------
(* Entering a call.                                                        *)

\* A lifecycle begins when the Manager is free.
LEMMA BeginTokens == ASSUME TypeInv, TokenInv, NEW o \in Ops, BeginCall(o) PROVE TokenInv'
<1>1. CASE BeginDesktopWrite(o)
  BY <1>1, ConstantsAssumption
  DEF BeginDesktopWrite, TakeDesktop, CommitTransition, ClosedIntent, Identify, LifecycleKinds
<1>2. CASE BeginDesktopResize(o)
  BY <1>2, ConstantsAssumption DEF BeginDesktopResize, Identify, LifecycleKinds
<1>3. ASSUME NEW d \in Devices, BeginDeviceWrite(o, d) PROVE TokenInv'
  BY <1>3, ConstantsAssumption DEF BeginDeviceWrite, Identify, LifecycleKinds
<1>4. ASSUME NEW k \in LifecycleKinds, NEW a \in Devices \cup {Desktop}, BeginLifecycle(o, k, a)
      PROVE TokenInv'
  BY <1>4, ConstantsAssumption DEF BeginLifecycle, Identify, ManagerFree
<1>5. QED
  BY <1>1, <1>2, <1>3, <1>4 DEF BeginCall

-----------------------------------------------------------------------------
(* Raw effects.                                                            *)

\* A raw effect leaves the tokens to their owners.
LEMMA RawTokens == ASSUME TypeInv, TokenInv, NEW o \in Ops, RawStep(o) PROVE TokenInv'
<1>1. CASE Checkpoint(o)
  BY <1>1, TokensQuiet DEF Checkpoint
<1>2. CASE WriteDone(o)
  BY <1>2, TokensQuiet DEF WriteDone
<1>3. CASE CloseDone(o)
  BY <1>3, TokensQuiet DEF CloseDone
<1>4. CASE OldClosed(o)
  BY <1>4, TokensQuiet DEF OldClosed
<1>5. CASE StageRestartRun(o)
  BY <1>5, TokensQuiet DEF StageRestartRun
<1>6. CASE LaunchCheckpoint(o)
  BY <1>6, TokensQuiet DEF LaunchCheckpoint
<1>7. CASE Launched(o)
  BY <1>7, TokensQuiet DEF Launched
<1>8. QED
  BY <1>1, <1>2, <1>3, <1>4, <1>5, <1>6, <1>7 DEF RawStep

-----------------------------------------------------------------------------
(* Sealed lifecycles.                                                      *)

\* Seal, commit and abort: what is resolved was the call's own.
LEMMA LifecycleTokens == ASSUME TypeInv, TokenInv, NEW o \in Ops, LifecycleStep(o) PROVE TokenInv'
<1>1. CASE Seal(o)
  BY <1>1, ConstantsAssumption DEF Seal, SealGranted
<1>2. CASE CompositePrepare(o)
  BY <1>2, ConstantsAssumption DEF CompositePrepare
<1>3. CASE CommitStop(o)
  BY <1>3, ConstantsAssumption DEF CommitStop
<1>4. CASE CommitRemove(o)
  BY <1>4, ConstantsAssumption DEF CommitRemove
<1>5. CASE CommitRestart(o)
  BY <1>5, ConstantsAssumption DEF CommitRestart
<1>6. CASE FinishCommitted(o)
  BY <1>6, ConstantsAssumption DEF FinishCommitted, ReleaseLane
<1>7. CASE AbandonSealed(o)
  BY <1>7, ConstantsAssumption DEF AbandonSealed
<1>8. CASE AbortStage(o)
  BY <1>8, ConstantsAssumption DEF AbortStage
<1>9. CASE AbandonToken(o)
  BY <1>9, ConstantsAssumption DEF AbandonToken, ClearedBy, ReleaseLane
<1>10. CASE ReleaseManager(o)
  BY <1>10, ConstantsAssumption DEF ReleaseManager
<1>11. CASE Reconcile(o)
  BY <1>11, ConstantsAssumption DEF Reconcile
<1>12. QED
  BY <1>1, <1>2, <1>3, <1>4, <1>5, <1>6, <1>7, <1>8, <1>9, <1>10, <1>11 DEF LifecycleStep

-----------------------------------------------------------------------------
(* The gate.                                                               *)

\* The lane is granted when free, and a permit is minted by its owner only.
LEMMA GateTokens == ASSUME TypeInv, TokenInv, NEW o \in Ops, CallStep(o) PROVE TokenInv'
<1>1. CASE CommitIntent(o)
  BY <1>1, ConstantsAssumption DEF CommitIntent
<1>2. CASE LaneAcquire(o)
  BY <1>2, ConstantsAssumption DEF LaneAcquire
<1>3. CASE LaneTimeout(o)
  BY <1>3, ConstantsAssumption DEF LaneTimeout, AbandonedBy, ClosedIntent, AfterRefusal
<1>4. CASE LaneCancelled(o)
  BY <1>4, ConstantsAssumption DEF LaneCancelled, AbandonedBy, ClosedIntent, AfterRefusal
<1>5. CASE MintPermit(o)
  BY <1>5, ConstantsAssumption DEF MintPermit, NoDrain
<1>6. CASE RefusePermit(o)
  BY <1>6, ConstantsAssumption
  DEF RefusePermit, AbandonedBy, ClosedIntent, AfterRefusal, ReleaseLane
<1>7. CASE RawTimeout(o)
  BY <1>7, ConstantsAssumption DEF RawTimeout, BudgetSpent
<1>8. CASE FinishOperation(o)
  BY <1>8, ConstantsAssumption DEF FinishOperation, ClearedBy, ReleaseLane, AfterRefusal
<1>9. CASE LifecycleStep(o)
  BY <1>9, LifecycleTokens
<1>10. QED
  BY <1>1, <1>2, <1>3, <1>4, <1>5, <1>6, <1>7, <1>8, <1>9 DEF CallStep

HIDE DEF TokenInv, LaneOwned, CurrentOwned, PreparedOwned, LifecycleKnown, ManagerOwned, IntentOwned,
         LanePcs, CurrentPcs, PreparedPcs, LifecyclePcs, PendingPcs, DrainActive, IsLifecycle,
         TypeInv, TypeOK, EntryTypeOK, CallTypeOK, DrainType

-----------------------------------------------------------------------------
\* One step, by the part of the system that takes it.
LEMMA TokenStep == TypeInv /\ TokenInv /\ [Next]_vars => TokenInv'
<1> SUFFICES ASSUME TypeInv, TokenInv, [Next]_vars PROVE TokenInv'
  OBVIOUS
<1>1. ASSUME NEW o \in Ops, OpStep(o) PROVE TokenInv'
  BY <1>1, BeginTokens, GateTokens, RawTokens DEF OpStep
<1>2. CASE UNCHANGED vars
  BY <1>2, TokensQuiet DEF vars
<1>3. QED
  BY <1>1, <1>2, AttachTokens, HolderTokens, AuthorityTokens, ProcessTokens DEF Next

\* The two invariants hold together from the first state on.
LEMMA TokensHold == Spec => [](TypeInv /\ TokenInv)
  BY TypeInit, TypeStep, TokenInit, TokenStep, PTL DEF Spec

\* The lane is held by exactly the call between its acquire and its release, on
\* every path (LaneOwned).
THEOREM LaneIsOwned == Spec => []LaneOwned
<1>1. TypeInv /\ TokenInv => LaneOwned
  BY DEF TokenInv
<1>2. QED
  BY TokensHold, <1>1, PTL

\* A sealed lifecycle still owns the current operation, the prepared token, the
\* Manager's token and the lane when it commits (PreparedOwnsSession): the panics
\* of the no-fail commits are unreachable for any number of calls.
THEOREM PreparedIsOwned == Spec => []PreparedOwnsSession
<1>1. TypeInv /\ TokenInv => PreparedOwnsSession
  BY DEF TokenInv, LaneOwned, CurrentOwned, PreparedOwned, LifecycleKnown, ManagerOwned, LanePcs,
         CurrentPcs, PreparedPcs, LifecyclePcs, PendingPcs, PreparedOwnsSession
<1>2. QED
  BY TokensHold, <1>1, PTL

\* No active lifecycle intent is left behind by the call that recorded it
\* (DrainOwned): refusal, timeout, cancellation and minting each take it away.
THEOREM IntentIsOwned == Spec => []DrainOwned
<1>1. TypeInv /\ TokenInv => DrainOwned
  BY DEF TokenInv, IntentOwned, DrainOwned
<1>2. QED
  BY TokensHold, <1>1, PTL

\* The three together, as the runs check them (TokensOwned).
THEOREM TokensAreOwned == Spec => []TokensOwned
<1>1. LaneOwned /\ PreparedOwnsSession /\ DrainOwned => TokensOwned
  BY DEF TokensOwned
<1>2. QED
  BY LaneIsOwned, PreparedIsOwned, IntentIsOwned, <1>1, PTL

=============================================================================
