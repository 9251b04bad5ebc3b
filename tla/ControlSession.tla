---------------------------- MODULE ControlSession ----------------------------
(***************************************************************************)
(* One control-managed session: its arbiter, its gate, its lifecycles and  *)
(* its process together, and what they promise.                            *)
(***************************************************************************)
EXTENDS ControlLifecycle

-----------------------------------------------------------------------------
(* The system                                                              *)

BeginCall(o) ==
  \/ BeginDesktopWrite(o)
  \/ BeginDesktopResize(o)
  \/ \E d \in Devices : BeginDeviceWrite(o, d)
  \/ \E k \in LifecycleKinds, a \in Devices \cup {Desktop} : BeginLifecycle(o, k, a)

\* What the goroutine of a call that has begun does next.
CallStep(o) ==
  \/ CommitIntent(o)
  \/ LaneAcquire(o) \/ LaneTimeout(o) \/ LaneCancelled(o)
  \/ MintPermit(o) \/ RefusePermit(o)
  \/ RawTimeout(o) \/ FinishOperation(o)
  \/ LifecycleStep(o)

OpStep(o) == BeginCall(o) \/ CallStep(o) \/ RawStep(o)

Next ==
  \/ AttachStep
  \/ HolderStep
  \/ AuthorityStep
  \/ \E o \in Ops : OpStep(o)
  \/ ProcessStep

\* Nobody has to begin anything, a connection need not be lost, and a raw effect
\* or a detach need not end. What has begun goes on: a call's goroutine (its
\* timeouts included), a timer and its callback, a revocation, a server stop.
Fairness ==
  /\ \A o \in Ops : WF_vars(CallStep(o))
  /\ WF_vars(TimerFires)
  /\ WF_vars(\E desc \in callbacks : ExpireGrace(desc))
  /\ WF_vars(AcquireCommit)
  /\ \A d \in Devices : WF_vars(FenceRevoked(d)) /\ WF_vars(ReleaseRevoked(d))
  /\ WF_vars(StopFence) /\ WF_vars(StopFenced) /\ WF_vars(StopRelease)

Spec == Init /\ [][Next]_vars
FairSpec == Spec /\ Fairness

-----------------------------------------------------------------------------
(* Types                                                                   *)

PcType == {"idle", "intent", "lane", "permit", "running", "finish", "sealed", "composite",
           "committed", "abandon", "abort", "reconcile", "done"}
RawType == {"none", "ready", "effect", "ok", "refused", "failed",
            "closed", "staged", "launching", "launched"}

EntryTypeOK ==
  /\ owner \in OwnerType /\ controlEpoch \in Nat /\ holderGen \in Nat
  /\ drain \in DrainType
  /\ runEpoch \in Nat /\ runSeq \in Nat
  /\ runPhase \in {"active", "starting", "terminal"} /\ removed \in BOOLEAN
  /\ backendEpoch \in Nat /\ quarantined \in BOOLEAN
  /\ detach \in {"none", "pending", "detached"} /\ receipts \subseteq Nat
  /\ timer \in [epoch : Nat, gen : Nat, fired : BOOLEAN] /\ callbacks \subseteq GraceDesc

PlaneTypeOK ==
  /\ accepting \in BOOLEAN /\ accGen \in Nat /\ revoked \subseteq Devices
  /\ lease \in [Devices -> Nat] /\ leaseSeq \in [Devices -> Nat]
  /\ \A d \in Devices : lease[d] <= leaseSeq[d]
  /\ pending \in [Devices -> AttachType] /\ lost \subseteq [dev : Devices, gen : Nat]
  /\ mgr \in Ops \cup {NoOp} /\ stale \in BOOLEAN /\ acq \in AcquireType
  /\ stopPc \in {"serving", "fencing", "waiting", "fenced", "stopped"}
  /\ stopWait \in Ops \cup {NoOp} /\ stops \in Nat
  /\ revPc \in [Devices -> {"idle", "marked", "waiting", "done"}]
  /\ revWait \in [Devices -> Ops \cup {NoOp}]
  /\ forcePc \in {"idle", "take", "release", "released", "refused"}

CallTypeOK ==
  /\ pc \in [Ops -> PcType] /\ raw \in [Ops -> RawType]
  /\ kind \in [Ops -> DataKinds \cup LifecycleKinds \cup {"none"}]
  /\ actor \in [Ops -> Devices \cup {Desktop}] /\ opLease \in [Ops -> Nat]
  /\ permit \in [Ops -> PermitType]
  /\ fenced \in [Ops -> BOOLEAN] /\ post \in [Ops -> BOOLEAN]
  /\ stage \in [Ops -> [run : Nat, backend : Nat]]
  /\ seal \in [epoch : Nat, gen : Nat, backend : Nat]
  /\ currentOp \in Ops \cup {NoOp} /\ prepared \in Ops \cup {NoOp} /\ lane \in Ops \cup {NoOp}
  /\ proc \in {"running", "exiting", "gone"} /\ obsBackend \in Nat

\* Every variable keeps its type: the entry's, the remote plane's and the calls';
\* and no slot holds an attachment generation that was never handed out.
TypeOK == EntryTypeOK /\ PlaneTypeOK /\ CallTypeOK

-----------------------------------------------------------------------------
(* The lane, the prepared token and the Manager token                      *)

LanePcs == {"permit", "running", "finish", "sealed", "composite", "committed", "abandon"}

\* The session's slot is held by exactly the call that is between its acquire
\* and its release, on every path: refusal, timeout, abort and commit. A leaked
\* slot would turn every later call into a lane timeout, a second release would
\* let two raw effects into one PTY (boundedOperationLane).
LaneOwned == \A o \in Ops : pc[o] \in LanePcs <=> lane = o

\* A sealed lifecycle still owns the lane, the current operation and the
\* Manager's token until its commit, whatever takeover, revocation, stop or
\* quarantine ran meanwhile: its no-fail commit finds what it sealed, and the
\* panics of commitPreparedControl{Stop,Remove,Restart}NoFail, which end the
\* process inside the Manager's critical section, are unreachable.
PreparedOwnsSession ==
  \A o \in Ops :
    /\ pc[o] \in {"sealed", "composite"} => prepared = o /\ currentOp = o /\ mgr = o
    /\ prepared = o => lane = o /\ pc[o] \in {"sealed", "composite", "committed", "abandon"}

\* An active lifecycle intent belongs to a call that still waits to consume it;
\* a dangling one would answer lifecycle.in_progress for ever (M-001).
DrainOwned == DrainActive => pc[drain.op] \in {"lane", "permit"}

\* Lane, prepared token, Manager's token and intent belong to the calls whose
\* place says so, whatever path each of them takes: the three together.
TokensOwned == LaneOwned /\ PreparedOwnsSession /\ DrainOwned

\* Two irreversible effects never run on the same backend: whoever gets the lane
\* while an earlier effect is still stuck works behind a newer backendEpoch.
SerialEffects ==
  \A o, q \in Ops :
    (raw[o] = "effect" /\ raw[q] = "effect"
       /\ permit[o].backend = backendEpoch /\ permit[q].backend = backendEpoch) => o = q

-----------------------------------------------------------------------------
(* Who may act                                                             *)

\* The irreversible steps: the checkpoint before them has been passed.
Admits(o) ==
  \/ raw[o] = "ready" /\ raw'[o] = "effect"
  \/ raw[o] = "staged" /\ raw'[o] = "launching"

\* An irreversible effect starts only while its caller controls the session: a
\* device's write under the very lease it came from and never in grace, a
\* lifecycle under the device's tenure, the desktop's under desktop control. The
\* permit was minted earlier, and release, takeover, rebind, grace and expiry may
\* all have run since (Checkpoint against controlEpoch).
AdmittedByHolder ==
  [][\A o \in Ops : Admits(o) =>
       IF ByDevice(o)
       THEN IF IsData(o) THEN owner = DeviceOwner(actor[o], opLease[o]) ELSE HeldBy(actor[o])
       ELSE owner.kind = "desktop"]_vars

\* Between the fence of a server stop and the next start no device write reaches
\* the PTY, although its permit may have been minted before the fence.
NoDeviceWriteWhileStopped ==
  [][\A o \in Ops : Admits(o) /\ ByDevice(o) /\ IsData(o) =>
       stopPc \notin {"waiting", "fenced", "stopped"}]_vars

\* A change of controlling authority always opens a new tenure, so that an intent
\* recorded under the old holder cannot be consumed under the new one (INV-03);
\* a sealed removal, which installs a tenure number computed earlier, included.
TenureAdvances ==
  [][(owner'.kind # owner.kind \/ owner'.dev # owner.dev) => holderGen' > holderGen]_vars

\* A removed session is final: no late call, callback, acquire or abort gives it
\* a holder, revives its run or starts an effect on it.
TombstoneIsFinal ==
  [][removed => /\ removed' /\ owner' = NoOwner /\ runPhase' = "terminal"
                /\ \A o \in Ops : ~Admits(o)]_vars

-----------------------------------------------------------------------------
(* Grace                                                                   *)

\* A holder in grace is covered by a timer, or by a started callback, that still
\* matches it: without one the session would stay with an absent device. The
\* exception is a session whose removal was once sealed: the seal takes the timer
\* and makes its callback pass, and an abort gives neither back.
GraceHasTimer ==
  owner.phase = "grace" /\ seal = NoSeal =>
    /\ timer.epoch = controlEpoch /\ timer.gen = owner.gen
    /\ timer.fired => [epoch |-> controlEpoch, gen |-> owner.gen] \in callbacks

\* Grace ends: by reconnection, release, takeover, revocation, stop or expiry.
GraceResolves == (owner.phase = "grace") ~> (owner.phase # "grace")

-----------------------------------------------------------------------------
(* The run                                                                 *)

LifecycleInFlight ==
  \E o \in Ops : IsLifecycle(o) /\ pc[o] \notin {"idle", "done"}

\* Once a process is gone and its exit was reported, and no lifecycle is in the
\* middle of replacing it, the session does not present a running run: exits
\* dropped as stale, failed restarts and timed-out closes included (R3-001). The
\* exception is a restart that commits over a quarantine and makes the backend
\* healthy without a receipt: the new process's observations carry another
\* backend and its exit is never seen.
NoGhostRun ==
  (proc = "gone" /\ ~LifecycleInFlight /\ obsBackend = backendEpoch) => runPhase # "active"

\* The fences that waited for this call's sealed commit.
Awaited(o) == stopWait = o \/ \E d \in Devices : revWait[d] = o

\* A restart that a revocation or a server stop met after its seal leaves neither
\* the run it published nor the run it set out to replace presented as running,
\* whether its commit went through or not. What a later restart has published
\* since it gave up is not its own.
FencedRestartCloses ==
  [][\A o \in Ops :
       /\ kind[o] = "restart" /\ Awaited(o) /\ pc[o] # "done" /\ pc'[o] = "done"
       /\ pc[o] = "committed" \/ runEpoch' = permit[o].run
       => runPhase' # "active"]_vars

-----------------------------------------------------------------------------
(* Progress                                                                *)

\* Every call returns, its raw effect stuck or not.
CallsReturn == \A o \in Ops : (pc[o] # "idle") ~> (pc[o] = "done")

\* A server stop and a revocation, which wait for sealed commits, end: neither
\* waits for ever for a token, nor for the other.
FencesComplete ==
  /\ (stopPc = "fencing") ~> (stopPc = "stopped")
  /\ \A d \in Devices : (revPc[d] = "marked") ~> (revPc[d] = "done")

=============================================================================
