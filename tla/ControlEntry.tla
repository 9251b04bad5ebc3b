---------------------------- MODULE ControlEntry ----------------------------
(***************************************************************************)
(* The per-session control entry of internal/remote and the helpers that   *)
(* run under its stateMu: the holder, the two generations that fence it,   *)
(* the current run, the backend, the lifecycle intent, the operation lane  *)
(* and the grace timer, together with the arbiter-wide admission state     *)
(* (acceptingRemote, acceptanceGeneration, revokedDevices), the session's  *)
(* attachment slots and the Manager token that serialises lifecycles.      *)
(*                                                                         *)
(* One session is modelled: entries never lock each other, and the only    *)
(* state they share is the arbiter-wide admission state kept here.         *)
(***************************************************************************)
EXTENDS Integers, FiniteSets

CONSTANTS
  Devices,      \* the paired remote devices
  Desktop,      \* the process-local Wails root (one desktop authority)
  NoDevice,     \* "no device" in an owner record
  Ops,          \* the calls a run may make, each used once
  NoOp,         \* "no call"
  Kinds,        \* the kinds of call this instance explores
  CloseKinds,   \* how a connection may be lost
  Revocable,    \* the devices whose revocation is explored
  MaxEpoch,     \* no acquire or force-release from this controlEpoch on
  MaxLease,     \* connections per device
  MaxStops,     \* server stops explored
  MaxForces     \* force releases explored (0 or 1)

DataKinds      == {"write", "resize"}
LifecycleKinds == {"stop", "remove", "restart"}

ASSUME ConstantsAssumption ==
  /\ Desktop \notin Devices
  /\ NoDevice \notin Devices
  /\ NoOp \notin Ops
  /\ Kinds \subseteq DataKinds \cup LifecycleKinds
  /\ CloseKinds \subseteq {"transport", "protocol"}
  /\ Revocable \subseteq Devices
  /\ MaxEpoch \in Nat /\ MaxLease \in Nat /\ MaxStops \in Nat /\ MaxForces \in Nat

VARIABLES
  \* controlEntry, under stateMu
  owner, controlEpoch, holderGen,
  runEpoch, runSeq, runPhase,
  backendEpoch, quarantined, detach,
  drain, currentOp, prepared, removed, timer,
  \* ControlArbiter: admission state shared by every entry
  accepting, accGen, revoked,
  \* AttachmentDirectory slots of this session, and notices in flight
  lease, leaseSeq, pending, lost,
  \* grace callbacks that have started and wait for stateMu
  callbacks,
  \* session.Manager: the pending lifecycle token, whether its revisions moved
  \* since, and the guarded Acquire
  mgr, stale, acq,
  \* the control-plane threads
  stopPc, stopWait, stops, revPc, revWait, forcePc,
  \* the calls: caller, raw-effect goroutine, permit and token
  pc, kind, actor, opLease, raw, permit, fenced, post, stage, seal, lane,
  \* the process behind the backend and the permit its observations carry
  proc, obsBackend, receipts

entryVars  == <<owner, controlEpoch, holderGen, drain>>
runVars    == <<runEpoch, runSeq, runPhase, removed>>
backVars   == <<backendEpoch, quarantined, detach, receipts>>
arbVars    == <<accepting, accGen, revoked>>
attachVars == <<lease, leaseSeq, pending, lost>>
threadVars == <<stopPc, stopWait, stops, revPc, revWait, forcePc>>
permitVars == <<kind, actor, opLease, permit>>
tokenVars  == <<currentOp, prepared, stage, seal, lane>>
procVars   == <<proc, obsBackend>>
mgrVars    == <<mgr, stale>>
vars == <<entryVars, runVars, backVars, arbVars, attachVars, threadVars, permitVars,
          tokenVars, procVars, timer, callbacks, mgrVars, acq, pc, raw, fenced, post>>

-----------------------------------------------------------------------------
(* The values of the entry's fields.                                       *)

NoOwner      == [kind |-> "none", dev |-> NoDevice, gen |-> 0, phase |-> "none"]
DesktopOwner == [kind |-> "desktop", dev |-> NoDevice, gen |-> 0, phase |-> "none"]
DeviceOwner(d, g) == [kind |-> "device", dev |-> d, gen |-> g, phase |-> "connected"]

OwnerType ==
  [kind : {"none", "desktop", "device"}, dev : Devices \cup {NoDevice},
   gen : Nat, phase : {"none", "connected", "grace"}]

HeldBy(d) == owner.kind = "device" /\ owner.dev = d

\* An armed grace timer carries the epoch and the attachment generation it was
\* armed with; fired says that its callback has already started.
NoTimer    == [epoch |-> 0, gen |-> 0, fired |-> FALSE]
GraceDesc  == [epoch : Nat, gen : Nat]
TimerArmed == timer # NoTimer

\* The committed phase-1 intent of a lifecycle call; closed marks it fenced.
NoDrain   == [op |-> NoOp, run |-> 0, hgen |-> 0, closed |-> FALSE]
DrainType == [op : Ops \cup {NoOp}, run : Nat, hgen : Nat, closed : BOOLEAN]
DrainActive == drain.op # NoOp /\ ~drain.closed

NoPermit   == [epoch |-> 0, acc |-> 0, run |-> 0, backend |-> 0]
PermitType == [epoch : Nat, acc : Nat, run : Nat, backend : Nat]

NoAttach   == [gen |-> 0, old |-> 0, epoch |-> 0, rebind |-> FALSE]
AttachType == [gen : Nat, old : Nat, epoch : Nat, rebind : BOOLEAN]

NoAcquire   == [dev |-> NoDevice, gen |-> 0]
AcquireType == [dev : Devices \cup {NoDevice}, gen : Nat]

NoStage  == [run |-> 0, backend |-> 0]
NoSeal   == [epoch |-> 0, gen |-> 0, backend |-> 0]

\* Mutant: the tombstone is not looked at.
IsPublicIfRemoved == runPhase \in {"active", "terminal"}

\* A staging or removed entry is hidden from remote callers.
IsPublic == ~removed /\ runPhase \in {"active", "terminal"}

\* The Manager guard is held across the Acquire closure.
GuardFree == acq = NoAcquire

-----------------------------------------------------------------------------
(* Helpers that run under stateMu. Each constrains the primed value of the *)
(* variables its comment names.                                            *)

RemovalPrepared == prepared # NoOp /\ kind[prepared] = "remove"

ClosedIntent(d) == IF d.op = NoOp THEN d ELSE [d EXCEPT !.closed = TRUE]

\* Mutant: a new holder inherits the old tenure.
CommitSameTenure(new) ==
  /\ owner' = new
  /\ controlEpoch' = controlEpoch + 1
  /\ UNCHANGED <<holderGen, drain>>

\* owner', controlEpoch', holderGen', drain': every change of holder goes
\* through here; a sealed removal refuses it without saying so to the caller.
CommitTransition(new) ==
  IF RemovalPrepared
  THEN UNCHANGED entryVars
  ELSE /\ owner' = new
       /\ controlEpoch' = controlEpoch + 1
       /\ holderGen' = holderGen + 1
       /\ drain' = ClosedIntent(drain)

\* timer': stopping a fired timer does not recall its callback.
CancelGraceTimer == timer' = NoTimer

\* The fenced flags after fencing the current operation: an operation that
\* already installed its prepared token is allowed to finish its commit.
FencedCurrent ==
  IF prepared = NoOp /\ currentOp # NoOp
  THEN [fenced EXCEPT ![currentOp] = TRUE]
  ELSE fenced

\* Mutant: a sealed commit is not told.
PostForgotten == post

\* The token flags after a revoke or a stop met an installed token.
PostFenced == IF prepared # NoOp THEN [post EXCEPT ![prepared] = TRUE] ELSE post

\* owner', controlEpoch', holderGen', drain', timer', fenced': the desktop
\* preempts a device holder, or refreshes its own epoch.
TakeDesktop ==
  /\ CancelGraceTimer
  /\ IF owner.kind = "desktop"
     THEN /\ controlEpoch' = controlEpoch + 1
          /\ UNCHANGED <<owner, holderGen, drain, fenced>>
     ELSE /\ CommitTransition(DesktopOwner)
          /\ fenced' = FencedCurrent

\* Whether TakeDesktop reports success.
TakeDesktopSucceeds == owner.kind = "desktop" \/ ~RemovalPrepared

\* Mutant: the stuck effect keeps its backend.
QuarantineInPlace ==
  /\ quarantined' = FALSE
  /\ fenced' = FencedCurrent
  /\ UNCHANGED <<backendEpoch, detach, receipts, runPhase>>

\* backendEpoch', quarantined', detach', receipts', runPhase', fenced': the
\* backend is isolated and its detach receipt is asked for outside stateMu.
Quarantine ==
  /\ backendEpoch' = backendEpoch + 1
  /\ quarantined' = TRUE
  /\ detach' = "pending"
  /\ receipts' = receipts \cup {backendEpoch + 1}
  /\ runPhase' = "terminal"
  /\ fenced' = FencedCurrent

\* currentOp after an exact-pointer clear by call o.
ClearedBy(o) == IF currentOp = o THEN NoOp ELSE currentOp

\* lane': the slot goes back; a waiter may take it.
ReleaseLane == lane' = NoOp

\* Mutant: a change of holder since the permit is not looked at.
PermitOfAnyEpoch(o) ==
  /\ ~fenced[o] /\ currentOp = o
  /\ permit[o].run = runEpoch /\ permit[o].backend = backendEpoch

\* What Checkpoint, seal and composite prepare all compare. runEpoch stands for
\* the pair currentRun, runEpoch; it is 0 once removal has cleared currentRun.
PermitCurrent(o) ==
  /\ ~fenced[o]
  /\ currentOp = o
  /\ permit[o].epoch = controlEpoch
  /\ permit[o].run = runEpoch
  /\ permit[o].backend = backendEpoch

\* Mutant: an abort does not close the token's channel.
TokenNeverResolved(o) == pc[o] # "running"

\* A prepared token exists and its resolved channel is still open.
TokenUnresolved(o) == pc[o] \in {"sealed", "composite", "committed", "abandon"}

=============================================================================
