--------------------------- MODULE ControlArbiter ---------------------------
(***************************************************************************)
(* Who controls a session: the transitions of the ControlArbiter and of    *)
(* the attachment directory that feeds it. A device acquires, releases,    *)
(* attaches and loses its connection; the desktop forces a release; grace  *)
(* timers fire; a device is revoked; the remote server stops and starts.   *)
(*                                                                         *)
(* A method that reads admission state before it takes stateMu, or that    *)
(* takes stateMu twice, is one action per critical section.                *)
(***************************************************************************)
EXTENDS ControlEntry

-----------------------------------------------------------------------------
(* Attachment                                                              *)

\* PrepareRemoteAttach: read the entry, then reserve the device's slot.
ReserveAttach(d) ==
  /\ IsPublic
  /\ stopPc = "serving" /\ d \notin revoked   \* the upgrade was authenticated
  /\ pending[d] = NoAttach /\ leaseSeq[d] < MaxLease
  /\ leaseSeq' = [leaseSeq EXCEPT ![d] = @ + 1]
  /\ pending' = [pending EXCEPT ![d] =
       [gen |-> leaseSeq[d] + 1, old |-> lease[d], epoch |-> controlEpoch, rebind |-> HeldBy(d)]]
  /\ UNCHANGED <<entryVars, runVars, backVars, arbVars, lease, lost, threadVars, permitVars,
                 tokenVars, procVars, timer, callbacks, mgrVars, acq, pc, raw, fenced, post>>

AttachCommits(d) ==
  /\ mgr = NoOp
  /\ IsPublic
  /\ controlEpoch = pending[d].epoch
  /\ lease[d] = pending[d].old

\* CommitPreparedRemoteAttach inside CommitResolvedAttach: the new lease
\* replaces the old one, and a holder's tenure moves to it, leaving grace.
CommitAttach(d) ==
  /\ pending[d] # NoAttach /\ GuardFree
  /\ AttachCommits(d)
  /\ lease' = [lease EXCEPT ![d] = pending[d].gen]
  /\ pending' = [pending EXCEPT ![d] = NoAttach]
  /\ IF pending[d].rebind
     THEN /\ owner' = DeviceOwner(d, pending[d].gen)
          /\ controlEpoch' = controlEpoch + 1
          /\ CancelGraceTimer
     ELSE UNCHANGED <<owner, controlEpoch, timer>>
  /\ UNCHANGED <<holderGen, drain, runVars, backVars, arbVars, leaseSeq, lost, threadVars, permitVars,
                 tokenVars, procVars, callbacks, mgrVars, acq, pc, raw, fenced, post>>

\* The attach failed before or at its commit: the reservation is dropped.
AbortAttach(d) ==
  /\ pending[d] # NoAttach
  /\ pending' = [pending EXCEPT ![d] = NoAttach]
  /\ UNCHANGED <<entryVars, runVars, backVars, arbVars, lease, leaseSeq, lost, threadVars, permitVars,
                 tokenVars, procVars, timer, callbacks, mgrVars, acq, pc, raw, fenced, post>>

\* DetachControl, first half: the live lease is fenced and its slot emptied. A
\* lost transport also owes the arbiter a notice; a protocol close does not.
Detach(d, how) ==
  /\ lease[d] # 0
  /\ lease' = [lease EXCEPT ![d] = 0]
  /\ lost' = IF how = "transport" THEN lost \cup {[dev |-> d, gen |-> lease[d]]} ELSE lost
  /\ UNCHANGED <<entryVars, runVars, backVars, arbVars, leaseSeq, pending, threadVars, permitVars,
                 tokenVars, procVars, timer, callbacks, mgrVars, acq, pc, raw, fenced, post>>

\* timer': the callback will compare what it was armed with.
ArmedBeforeAdvance(g) ==   \* Mutant: it is armed with the epoch before grace.
  timer' = [epoch |-> controlEpoch, gen |-> g, fired |-> FALSE]
ArmGraceTimer(g) == timer' = [epoch |-> controlEpoch + 1, gen |-> g, fired |-> FALSE]

\* DetachControl, second half: OnUnexpectedDetachForSession.
UnexpectedDetach(n) ==
  /\ n \in lost
  /\ lost' = lost \ {n}
  /\ IF ~removed /\ owner = DeviceOwner(n.dev, n.gen)
     THEN /\ owner' = [owner EXCEPT !.phase = "grace"]
          /\ controlEpoch' = controlEpoch + 1
          /\ ArmGraceTimer(n.gen)
     ELSE UNCHANGED <<owner, controlEpoch, timer>>
  /\ UNCHANGED <<holderGen, drain, runVars, backVars, arbVars, lease, leaseSeq, pending, threadVars,
                 permitVars, tokenVars, procVars, callbacks, mgrVars, acq, pc, raw, fenced, post>>

-----------------------------------------------------------------------------
(* Grace                                                                   *)

\* The clock runs the callback; the entry keeps the spent handle.
TimerFires ==
  /\ TimerArmed /\ ~timer.fired
  /\ timer' = [timer EXCEPT !.fired = TRUE]
  /\ callbacks' = callbacks \cup {[epoch |-> timer.epoch, gen |-> timer.gen]}
  /\ UNCHANGED <<entryVars, runVars, backVars, arbVars, attachVars, threadVars, permitVars,
                 tokenVars, procVars, mgrVars, acq, pc, raw, fenced, post>>

\* expireGrace: only the descriptor of the current grace period expires it.
ExpireGrace(desc) ==
  /\ desc \in callbacks
  /\ callbacks' = callbacks \ {desc}
  /\ IF /\ ~removed
        /\ owner.kind = "device" /\ owner.phase = "grace"
        /\ controlEpoch = desc.epoch /\ owner.gen = desc.gen
     THEN CommitTransition(NoOwner)
     ELSE UNCHANGED entryVars
  /\ UNCHANGED <<runVars, backVars, arbVars, attachVars, threadVars, permitVars,
                 tokenVars, procVars, timer, mgrVars, acq, pc, raw, fenced, post>>

-----------------------------------------------------------------------------
(* Acquire and release                                                     *)

\* AcquireControl up to the entry's lock: Acquire runs inside the Manager guard
\* and reads accepting, the lease and the revoked set before it takes stateMu.
AcquireCheck(d) ==
  /\ GuardFree /\ mgr = NoOp
  /\ accepting /\ lease[d] # 0 /\ d \notin revoked /\ IsPublic
  /\ controlEpoch < MaxEpoch
  /\ acq' = [dev |-> d, gen |-> lease[d]]
  /\ UNCHANGED <<entryVars, runVars, backVars, arbVars, attachVars, threadVars, permitVars,
                 tokenVars, procVars, timer, callbacks, mgrVars, pc, raw, fenced, post>>

\* Acquire under stateMu: grant, rebind the same device, refuse another device's
\* session, or take over from the desktop.
AcquireCommit ==
  /\ ~GuardFree
  /\ acq' = NoAcquire
  /\ LET new == DeviceOwner(acq.dev, acq.gen) IN
     \/ /\ removed \/ (owner.kind = "device" /\ owner.dev # acq.dev)
        /\ UNCHANGED <<entryVars, timer, fenced>>
     \/ /\ ~removed /\ owner.kind = "none"
        /\ CommitTransition(new)
        /\ UNCHANGED <<timer, fenced>>
     \/ /\ ~removed /\ HeldBy(acq.dev)
        /\ owner' = new
        /\ controlEpoch' = controlEpoch + 1
        /\ CancelGraceTimer
        /\ UNCHANGED <<holderGen, drain, fenced>>
     \/ /\ ~removed /\ owner.kind = "desktop"
        /\ CommitTransition(new)
        /\ fenced' = FencedCurrent
        /\ UNCHANGED timer
  /\ UNCHANGED <<runVars, backVars, arbVars, attachVars, threadVars, permitVars,
                 tokenVars, procVars, callbacks, mgrVars, pc, raw, post>>

\* Release by the holder, connected or in grace.
Release(d) ==
  /\ GuardFree /\ mgr = NoOp
  /\ IsPublic /\ HeldBy(d)
  /\ CancelGraceTimer
  /\ CommitTransition(NoOwner)
  /\ UNCHANGED <<runVars, backVars, arbVars, attachVars, threadVars, permitVars,
                 tokenVars, procVars, callbacks, mgrVars, acq, pc, raw, fenced, post>>

\* ForceReleaseControl, first critical section: a session nobody holds is done.
ForceCheck ==
  /\ forcePc = "idle" /\ MaxForces > 0
  /\ IsPublic /\ owner.kind # "none"
  /\ controlEpoch < MaxEpoch
  /\ forcePc' = "take"
  /\ UNCHANGED <<entryVars, runVars, backVars, arbVars, attachVars, stopPc, stopWait, stops, revPc, revWait,
                 permitVars, tokenVars, procVars, timer, callbacks, mgrVars, acq, pc, raw, fenced, post>>

\* ForceReleaseControl, second critical section: TakeDesktop.
ForceTake ==
  /\ forcePc = "take"
  /\ IF IsPublic
     THEN /\ TakeDesktop
          /\ forcePc' = IF TakeDesktopSucceeds THEN "release" ELSE "refused"
     ELSE /\ forcePc' = "refused"
          /\ UNCHANGED <<entryVars, timer, fenced>>
  /\ UNCHANGED <<runVars, backVars, arbVars, attachVars, stopPc, stopWait, stops, revPc, revWait,
                 permitVars, tokenVars, procVars, callbacks, mgrVars, acq, pc, raw, post>>

\* ForceReleaseControl, last critical section: ReleaseDesktop.
ForceRelease ==
  /\ forcePc = "release"
  /\ IF IsPublic /\ owner.kind = "desktop" /\ ~RemovalPrepared
     THEN /\ CommitTransition(NoOwner)
          /\ forcePc' = "released"
     ELSE /\ forcePc' = "refused"
          /\ UNCHANGED entryVars
  /\ UNCHANGED <<runVars, backVars, arbVars, attachVars, stopPc, stopWait, stops, revPc, revWait,
                 permitVars, tokenVars, procVars, timer, callbacks, mgrVars, acq, pc, raw, fenced, post>>

-----------------------------------------------------------------------------
(* Revocation of a device: mark, fence, wait for a sealed commit, release  *)

MarkRevoked(d) ==
  /\ d \in Revocable /\ revPc[d] = "idle"
  /\ revoked' = revoked \cup {d}
  /\ revPc' = [revPc EXCEPT ![d] = "marked"]
  /\ UNCHANGED <<entryVars, runVars, backVars, accepting, accGen, attachVars, stopPc, stopWait, stops,
                 revWait, forcePc, permitVars, tokenVars, procVars, timer, callbacks, mgrVars, acq, pc,
                 raw, fenced, post>>

FenceRevoked(d) ==
  /\ revPc[d] = "marked"
  /\ revPc' = [revPc EXCEPT ![d] = "waiting"]
  /\ IF ~removed /\ HeldBy(d)
     THEN /\ fenced' = FencedCurrent
          /\ drain' = ClosedIntent(drain)
          /\ post' = PostFenced
          /\ revWait' = [revWait EXCEPT ![d] = prepared]
     ELSE UNCHANGED <<fenced, drain, post, revWait>>
  /\ UNCHANGED <<owner, controlEpoch, holderGen, runVars, backVars, arbVars, attachVars, stopPc, stopWait,
                 stops, forcePc, permitVars, tokenVars, procVars, timer, callbacks, mgrVars, acq, pc, raw>>

\* MarkDeviceRevoked returned and the connections were terminated.
ReleaseRevoked(d) ==
  /\ revPc[d] = "waiting"
  /\ revWait[d] # NoOp => ~TokenUnresolved(revWait[d])
  /\ revPc' = [revPc EXCEPT ![d] = "done"]
  /\ IF ~removed /\ HeldBy(d)
     THEN CancelGraceTimer /\ CommitTransition(NoOwner)
     ELSE UNCHANGED <<timer, entryVars>>
  /\ UNCHANGED <<runVars, backVars, arbVars, attachVars, stopPc, stopWait, stops, revWait, forcePc,
                 permitVars, tokenVars, procVars, callbacks, mgrVars, acq, pc, raw, fenced, post>>

-----------------------------------------------------------------------------
(* Server stop: FenceAllRemote, terminate, ReleaseAllRemote; then start    *)

StopAdmission ==
  /\ stopPc = "serving" /\ stops < MaxStops
  /\ stops' = stops + 1
  /\ accepting' = FALSE
  /\ accGen' = accGen + 1
  /\ stopPc' = "fencing"
  /\ UNCHANGED <<entryVars, runVars, backVars, revoked, attachVars, stopWait, revPc, revWait, forcePc,
                 permitVars, tokenVars, procVars, timer, callbacks, mgrVars, acq, pc, raw, fenced, post>>

\* FenceAllRemote over the entry: the intent is left alone.
StopFence ==
  /\ stopPc = "fencing"
  /\ stopPc' = "waiting"
  /\ fenced' = FencedCurrent
  /\ post' = PostFenced
  /\ stopWait' = prepared
  /\ UNCHANGED <<entryVars, runVars, backVars, arbVars, attachVars, stops, revPc, revWait, forcePc,
                 permitVars, tokenVars, procVars, timer, callbacks, mgrVars, acq, pc, raw>>

\* The sealed commit it met is resolved: FenceAllRemote returns.
StopFenced ==
  /\ stopPc = "waiting"
  /\ stopWait # NoOp => ~TokenUnresolved(stopWait)
  /\ stopPc' = "fenced"
  /\ UNCHANGED <<entryVars, runVars, backVars, arbVars, attachVars, stopWait, stops, revPc, revWait, forcePc,
                 permitVars, tokenVars, procVars, timer, callbacks, mgrVars, acq, pc, raw, fenced, post>>

\* ReleaseAllRemote: the desktop keeps its hold.
StopRelease ==
  /\ stopPc = "fenced"
  /\ stopPc' = "stopped"
  /\ IF ~removed /\ owner.kind = "device"
     THEN CancelGraceTimer /\ CommitTransition(NoOwner)
     ELSE UNCHANGED <<timer, entryVars>>
  /\ UNCHANGED <<runVars, backVars, arbVars, attachVars, stopWait, stops, revPc, revWait, forcePc,
                 permitVars, tokenVars, procVars, callbacks, mgrVars, acq, pc, raw, fenced, post>>

RestartRemote ==
  /\ stopPc = "stopped"
  /\ stopPc' = "serving"
  /\ accGen' = accGen + 1
  /\ accepting' = TRUE
  /\ UNCHANGED <<entryVars, runVars, backVars, revoked, attachVars, stopWait, stops, revPc, revWait, forcePc,
                 permitVars, tokenVars, procVars, timer, callbacks, mgrVars, acq, pc, raw, fenced, post>>

-----------------------------------------------------------------------------
AttachStep ==
  \/ \E d \in Devices : ReserveAttach(d) \/ CommitAttach(d) \/ AbortAttach(d)
  \/ \E d \in Devices, how \in CloseKinds : Detach(d, how)
  \/ \E n \in lost : UnexpectedDetach(n)

HolderStep ==
  \/ TimerFires
  \/ \E desc \in callbacks : ExpireGrace(desc)
  \/ \E d \in Devices : AcquireCheck(d) \/ Release(d)
  \/ AcquireCommit
  \/ ForceCheck
  \/ ForceTake
  \/ ForceRelease

AuthorityStep ==
  \/ \E d \in Devices : MarkRevoked(d) \/ FenceRevoked(d) \/ ReleaseRevoked(d)
  \/ StopAdmission \/ StopFence \/ StopFenced \/ StopRelease \/ RestartRemote

=============================================================================
