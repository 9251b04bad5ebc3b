----------------------------- MODULE ControlGate -----------------------------
(***************************************************************************)
(* The calls that touch a session's process: desktop and device writes,    *)
(* the desktop's passive resize, and the stop, remove and restart          *)
(* lifecycles of the session adapter. A call waits for the session's lane, *)
(* takes a permit under stateMu, runs its raw effect in a goroutine within *)
(* a budget, and commits. pc is the caller's place, raw the goroutine's:   *)
(* a timed-out caller goes on while its raw effect is still running.       *)
(***************************************************************************)
EXTENDS ControlArbiter

IsData(o)      == kind[o] \in DataKinds
IsLifecycle(o) == kind[o] \in LifecycleKinds
ByDevice(o)    == actor[o] \in Devices

-----------------------------------------------------------------------------
Init ==
  /\ owner = NoOwner /\ controlEpoch = 0 /\ holderGen = 0
  /\ runEpoch = 1 /\ runSeq = 1 /\ runPhase = "active"
  /\ backendEpoch = 0 /\ quarantined = FALSE /\ detach = "none"
  /\ drain = NoDrain /\ currentOp = NoOp /\ prepared = NoOp /\ removed = FALSE
  /\ timer = NoTimer /\ callbacks = {}
  /\ accepting = TRUE /\ accGen = 0 /\ revoked = {}
  /\ lease = [d \in Devices |-> 0] /\ leaseSeq = [d \in Devices |-> 0]
  /\ pending = [d \in Devices |-> NoAttach] /\ lost = {}
  /\ mgr = NoOp /\ stale = FALSE /\ acq = NoAcquire
  /\ stopPc = "serving" /\ stopWait = NoOp /\ stops = 0
  /\ revPc = [d \in Devices |-> "idle"] /\ revWait = [d \in Devices |-> NoOp]
  /\ forcePc = "idle"
  /\ pc = [o \in Ops |-> "idle"] /\ kind = [o \in Ops |-> "none"]
  /\ actor = [o \in Ops |-> Desktop] /\ opLease = [o \in Ops |-> 0]
  /\ raw = [o \in Ops |-> "none"] /\ permit = [o \in Ops |-> NoPermit]
  /\ fenced = [o \in Ops |-> FALSE] /\ post = [o \in Ops |-> FALSE]
  /\ stage = [o \in Ops |-> NoStage] /\ seal = NoSeal /\ lane = NoOp
  /\ proc = "running" /\ obsBackend = 0 /\ receipts = {}

\* What no step of a call touches.
UnchangedByCalls == UNCHANGED <<arbVars, attachVars, threadVars, callbacks, acq>>

Goto(o, label) == pc' = [pc EXCEPT ![o] = label]
RawTo(o, label) == raw' = [raw EXCEPT ![o] = label]

Identify(o, k, a, g) ==
  /\ kind' = [kind EXCEPT ![o] = k]
  /\ actor' = [actor EXCEPT ![o] = a]
  /\ opLease' = [opLease EXCEPT ![o] = g]

-----------------------------------------------------------------------------
(* Entering a call                                                         *)

\* DoDesktopPTY: intentional input takes the desktop first.
BeginDesktopWrite(o) ==
  /\ pc[o] = "idle" /\ "write" \in Kinds /\ IsPublic
  /\ Identify(o, "write", Desktop, 0)
  /\ TakeDesktop
  /\ Goto(o, IF TakeDesktopSucceeds THEN "lane" ELSE "done")
  /\ UnchangedByCalls
  /\ UNCHANGED <<runVars, backVars, permit, tokenVars, procVars, mgrVars, raw, post>>

\* DoDesktopPassiveResize: refused while a device holds the session.
BeginDesktopResize(o) ==
  /\ pc[o] = "idle" /\ "resize" \in Kinds /\ IsPublic
  /\ owner.kind # "device"
  /\ Identify(o, "resize", Desktop, 0)
  /\ Goto(o, "lane")
  /\ UnchangedByCalls
  /\ UNCHANGED <<entryVars, runVars, backVars, permit, tokenVars, procVars, timer, mgrVars, raw, fenced, post>>

\* DoDevicePTY: a live lease is enough to queue for the lane.
BeginDeviceWrite(o, d) ==
  /\ pc[o] = "idle" /\ "write" \in Kinds /\ IsPublic
  /\ lease[d] # 0
  /\ Identify(o, "write", d, lease[d])
  /\ Goto(o, "lane")
  /\ UnchangedByCalls
  /\ UNCHANGED <<entryVars, runVars, backVars, permit, tokenVars, procVars, timer, mgrVars, raw, fenced, post>>

\* PrepareLifecycle and PrepareRemove: one pending token per session.
ManagerIgnored == GuardFree /\ ~removed   \* Mutant: a pending token is overwritten.
ManagerFree == mgr = NoOp /\ GuardFree /\ ~removed

\* authorityLifecycle, authorityRestart, desktopAuthorityLifecycle: the Manager
\* token admits one lifecycle of the session at a time.
BeginLifecycle(o, k, a) ==
  /\ pc[o] = "idle" /\ k \in Kinds \cap LifecycleKinds
  /\ k = "restart" => a \in Devices
  /\ a \in Devices => stopPc = "serving" /\ a \notin revoked   \* authenticated
  /\ ManagerFree
  /\ mgr' = o /\ stale' = FALSE
  /\ Identify(o, k, a, 0)
  /\ Goto(o, "intent")
  /\ UnchangedByCalls
  /\ UNCHANGED <<entryVars, runVars, backVars, permit, tokenVars, procVars, timer, raw, fenced, post>>

\* commitLifecycleIntent: phase 1 fences the operation in flight before anyone
\* has checked who is calling; an active intent refuses the call.
CommitIntent(o) ==
  /\ pc[o] = "intent"
  /\ IF IsPublic /\ ~DrainActive
     THEN /\ drain' = [op |-> o, run |-> runEpoch, hgen |-> holderGen, closed |-> FALSE]
          /\ fenced' = FencedCurrent
          /\ Goto(o, "lane")
     ELSE /\ Goto(o, "abort")
          /\ UNCHANGED <<drain, fenced>>
  /\ UnchangedByCalls
  /\ UNCHANGED <<owner, controlEpoch, holderGen, runVars, backVars, permitVars, tokenVars, procVars,
                 timer, mgrVars, raw, post>>

-----------------------------------------------------------------------------
(* The lane                                                                *)

LaneAcquire(o) ==
  /\ pc[o] = "lane" /\ lane = NoOp
  /\ lane' = o
  /\ Goto(o, "permit")
  /\ UnchangedByCalls
  /\ UNCHANGED <<entryVars, runVars, backVars, permitVars, currentOp, prepared, stage, seal, procVars,
                 timer, mgrVars, raw, fenced, post>>

\* abandonLifecycleIntent: only the caller's own intent, only while active.
AbandonedBy(o) == IF drain.op = o THEN ClosedIntent(drain) ELSE drain

AfterRefusal(o) == IF IsLifecycle(o) THEN "abort" ELSE "done"

\* The wait exceeded its budget: whoever holds the lane is cut off.
LaneTimeout(o) ==
  /\ pc[o] = "lane" /\ lane # NoOp
  /\ Quarantine
  /\ drain' = AbandonedBy(o)
  /\ Goto(o, AfterRefusal(o))
  /\ UnchangedByCalls
  /\ UNCHANGED <<owner, controlEpoch, holderGen, runEpoch, runSeq, removed, permitVars, tokenVars, procVars,
                 timer, mgrVars, raw, post>>

\* The wait ended by its context, whose deadline equals the lane budget.
LaneCancelled(o) ==
  /\ pc[o] = "lane" /\ lane # NoOp
  /\ drain' = AbandonedBy(o)
  /\ Goto(o, AfterRefusal(o))
  /\ UnchangedByCalls
  /\ UNCHANGED <<owner, controlEpoch, holderGen, runVars, backVars, permitVars, tokenVars, procVars,
                 timer, mgrVars, raw, fenced, post>>

-----------------------------------------------------------------------------
(* Permits                                                                 *)

\* Mutant: admission is not looked at under stateMu.
DataPermitAnyAdmission(o) ==
  /\ ~removed
  /\ IF ByDevice(o) THEN owner = DeviceOwner(actor[o], opLease[o]) ELSE owner.kind = "desktop"
  /\ runPhase = "active" /\ ~quarantined

\* createDesktopPermit and createDevicePTYPermit.
DataPermitGranted(o) ==
  /\ ~removed
  /\ IF ByDevice(o)
     THEN /\ owner = DeviceOwner(actor[o], opLease[o])
          /\ accepting /\ actor[o] \notin revoked
     ELSE owner.kind = "desktop"
  /\ runPhase = "active" /\ ~quarantined

\* exactMatchPendingDrain: the caller's own intent, for this run and tenure.
IntentMatches(o) ==
  /\ drain.op = o /\ ~drain.closed
  /\ drain.run = runEpoch /\ drain.hgen = holderGen

\* Mutant: the intent alone authorises the call.
LifecycleByIntent(o) == ~removed /\ IntentMatches(o) /\ ~quarantined

\* createDeviceLifecyclePermit and createLifecyclePermit: the desktop may act on
\* a quarantined backend once its detach is confirmed, a device may not.
LifecyclePermitGranted(o) ==
  /\ ~removed
  /\ IntentMatches(o)
  /\ IF ByDevice(o)
     THEN HeldBy(actor[o]) /\ ~quarantined
     ELSE owner.kind = "desktop" /\ (quarantined => detach = "detached")

PermitGranted(o) == IF IsData(o) THEN DataPermitGranted(o) ELSE LifecyclePermitGranted(o)

\* mintOperationPermit: the current operation is replaced, not checked.
MintPermit(o) ==
  /\ pc[o] = "permit" /\ PermitGranted(o)
  /\ permit' = [permit EXCEPT ![o] =
       [epoch |-> controlEpoch, acc |-> accGen, run |-> runEpoch, backend |-> backendEpoch]]
  /\ currentOp' = o
  /\ drain' = IF IsLifecycle(o) THEN NoDrain ELSE drain
  /\ Goto(o, "running")
  /\ RawTo(o, "ready")
  /\ UnchangedByCalls
  /\ UNCHANGED <<owner, controlEpoch, holderGen, runVars, backVars, kind, actor, opLease,
                 prepared, stage, seal, lane, procVars, timer, mgrVars, fenced, post>>

RefusePermit(o) ==
  /\ pc[o] = "permit" /\ ~PermitGranted(o)
  /\ ReleaseLane
  /\ drain' = AbandonedBy(o)
  /\ Goto(o, AfterRefusal(o))
  /\ UnchangedByCalls
  /\ UNCHANGED <<owner, controlEpoch, holderGen, runVars, backVars, permitVars, currentOp, prepared,
                 stage, seal, procVars, timer, mgrVars, raw, fenced, post>>

-----------------------------------------------------------------------------
(* The raw effect                                                          *)

\* Checkpoint: the last look at the permit before an irreversible step.
CheckpointPasses(o) ==
  /\ PermitCurrent(o)
  /\ quarantined => IsLifecycle(o)
  /\ permit[o].acc = accGen
  /\ actor[o] \notin revoked

\* What a step of the raw-effect goroutine never touches.
UnchangedByRaw ==
  UNCHANGED <<entryVars, backVars, permitVars, currentOp, prepared, seal, lane, obsBackend,
              timer, mgrVars, pc, fenced, post>>

\* The effect is admitted, or the call fails having touched nothing.
Checkpoint(o) ==
  /\ raw[o] = "ready"
  /\ RawTo(o, IF CheckpointPasses(o) THEN "effect" ELSE "refused")
  /\ UnchangedByCalls /\ UnchangedByRaw
  /\ UNCHANGED <<runVars, stage, proc>>

\* WriteRaw or ResizeRaw returns; a dead backend only makes it an error.
WriteDone(o) ==
  /\ raw[o] = "effect" /\ IsData(o)
  /\ RawTo(o, "ok")
  /\ UnchangedByCalls /\ UnchangedByRaw
  /\ UNCHANGED <<runVars, stage, proc>>

\* CloseExact of a stop or a remove: confirmed, or indeterminate.
CloseDone(o) ==
  /\ raw[o] = "effect" /\ kind[o] \in {"stop", "remove"}
  /\ \/ RawTo(o, "ok") /\ proc' = IF proc = "running" THEN "exiting" ELSE proc
     \/ RawTo(o, "failed") /\ UNCHANGED proc
  /\ UnchangedByCalls /\ UnchangedByRaw
  /\ UNCHANGED <<runVars, stage>>

\* CloseExact of a restart: the segment is sealed, so the old process's exit
\* notice is dropped.
OldClosed(o) ==
  /\ raw[o] = "effect" /\ kind[o] = "restart"
  /\ \/ RawTo(o, "closed") /\ proc' = "gone"
     \/ RawTo(o, "failed") /\ UNCHANGED proc
  /\ UnchangedByCalls /\ UnchangedByRaw
  /\ UNCHANGED <<runVars, stage>>

\* StageRestartRun: reserve the next run and hide the transition.
StageRestartRun(o) ==
  /\ raw[o] = "closed"
  /\ IF PermitCurrent(o)
     THEN /\ stage' = [stage EXCEPT ![o] = [run |-> runSeq + 1, backend |-> backendEpoch]]
          /\ runSeq' = runSeq + 1
          /\ runPhase' = "starting"
          /\ RawTo(o, "staged")
     ELSE /\ RawTo(o, "failed")
          /\ UNCHANGED <<stage, runSeq, runPhase>>
  /\ UnchangedByCalls /\ UnchangedByRaw
  /\ UNCHANGED <<runEpoch, removed, proc>>

\* The checkpoints around the launch of the new process.
LaunchCheckpoint(o) ==
  /\ raw[o] \in {"staged", "launched"}
  /\ RawTo(o, IF ~CheckpointPasses(o) THEN "failed"
              ELSE IF raw[o] = "staged" THEN "launching" ELSE "ok")
  /\ UnchangedByCalls /\ UnchangedByRaw
  /\ UNCHANGED <<runVars, stage, proc>>

\* The process starts, or does not. One that starts after its caller gave up is
\* nobody's process and is not followed.
Launched(o) ==
  /\ raw[o] = "launching"
  /\ \/ pc[o] = "running" /\ RawTo(o, "launched") /\ proc' = "running"
     \/ RawTo(o, "failed") /\ UNCHANGED proc
  /\ UnchangedByCalls /\ UnchangedByRaw
  /\ UNCHANGED <<runVars, stage>>

RawStep(o) ==
  Checkpoint(o) \/ WriteDone(o) \/ CloseDone(o) \/ OldClosed(o)
    \/ StageRestartRun(o) \/ LaunchCheckpoint(o) \/ Launched(o)

RawReturned(o) == raw[o] \in {"ok", "refused", "failed"}

BudgetOfWrites(o) ==   \* Mutant: a lifecycle's effect is waited for.
  pc[o] = "running" /\ ~RawReturned(o) /\ IsData(o)
BudgetSpent(o) == pc[o] = "running" /\ ~RawReturned(o)

\* The raw effect outlived its budget: the backend is cut off under it.
RawTimeout(o) ==
  /\ BudgetSpent(o)
  /\ Quarantine
  /\ Goto(o, "finish")
  /\ UnchangedByCalls
  /\ UNCHANGED <<entryVars, runEpoch, runSeq, removed, permitVars, tokenVars, procVars, timer,
                 mgrVars, raw, post>>

\* A lifecycle whose effect succeeded and whose permit still stands is sealed.
SealGranted(o) ==
  /\ IsLifecycle(o) /\ raw[o] = "ok"
  /\ PermitCurrent(o) /\ ~removed /\ prepared = NoOp

\* finishOperation and finishLifecycleResult, then the lane: everything that
\* does not go on to be sealed ends here.
FinishOperation(o) ==
  /\ \/ pc[o] = "finish"
     \/ pc[o] = "running" /\ RawReturned(o) /\ ~SealGranted(o)
  /\ currentOp' = ClearedBy(o)
  /\ ReleaseLane
  /\ Goto(o, AfterRefusal(o))
  /\ UnchangedByCalls
  /\ UNCHANGED <<entryVars, runVars, backVars, permitVars, prepared, stage, seal, procVars, timer,
                 mgrVars, raw, fenced, post>>

=============================================================================
