--------------------------- MODULE ControlLifecycle ---------------------------
(***************************************************************************)
(* The second half of a lifecycle call: its prepared token, the no-fail    *)
(* commit inside the session Manager's critical section, the abort paths   *)
(* and the reconcile that leaves a closed run honestly unavailable; and    *)
(* the process itself, whose exit and detach are reported by callbacks.    *)
(***************************************************************************)
EXTENDS ControlGate

-----------------------------------------------------------------------------
(* Seal                                                                    *)

\* The tenure a removal will install: it ends the holder's, if there is one.
TenureAtSeal == IF owner.kind = "none" THEN holderGen ELSE holderGen + 1

\* prepareDeviceRestart, sealPreparedControlStop, sealPreparedControlRemove. A
\* removal also fixes the generations it will commit and takes the grace timer.
Seal(o) ==
  /\ pc[o] = "running" /\ SealGranted(o)
  /\ prepared' = o
  /\ IF kind[o] = "remove"
     THEN /\ seal' = [epoch |-> controlEpoch + 1, gen |-> TenureAtSeal, backend |-> backendEpoch + 1]
          /\ CancelGraceTimer
     ELSE UNCHANGED <<seal, timer>>
  /\ Goto(o, "sealed")
  /\ UnchangedByCalls
  /\ UNCHANGED <<entryVars, runVars, backVars, permitVars, currentOp, stage, lane, procVars,
                 mgrVars, raw, fenced, post>>

\* PrepareCompositeRestart: refused once the staged process has exited.
CompositePrepare(o) ==
  /\ pc[o] = "sealed" /\ kind[o] = "restart"
  /\ PermitCurrent(o) /\ proc # "gone"
  /\ Goto(o, "composite")
  /\ UnchangedByCalls
  /\ UNCHANGED <<entryVars, runVars, backVars, permitVars, tokenVars, procVars, timer, mgrVars,
                 raw, fenced, post>>

-----------------------------------------------------------------------------
(* Commit: the Manager refuses a token whose revisions have moved          *)

ManagerCommits(o) == GuardFree /\ mgr = o /\ ~stale

CommitStop(o) ==
  /\ pc[o] = "sealed" /\ kind[o] = "stop" /\ ManagerCommits(o)
  /\ runPhase' = "terminal"
  /\ currentOp' = NoOp
  /\ mgr' = NoOp
  /\ Goto(o, "committed")
  /\ UnchangedByCalls
  /\ UNCHANGED <<entryVars, runEpoch, runSeq, removed, backVars, permitVars, prepared, stage, seal,
                 lane, procVars, timer, stale, raw, fenced, post>>

\* commitPreparedControlRemoveNoFail installs the generations fixed at the seal.
CommitRemove(o) ==
  /\ pc[o] = "sealed" /\ kind[o] = "remove" /\ ManagerCommits(o)
  /\ owner' = NoOwner
  /\ controlEpoch' = seal.epoch
  /\ holderGen' = seal.gen
  /\ backendEpoch' = seal.backend
  /\ removed' = TRUE /\ runPhase' = "terminal" /\ runEpoch' = 0
  /\ currentOp' = NoOp
  /\ mgr' = NoOp
  /\ Goto(o, "committed")
  /\ UnchangedByCalls
  /\ UNCHANGED <<drain, runSeq, quarantined, detach, receipts, permitVars, prepared, stage, seal,
                 lane, procVars, timer, stale, raw, fenced, post>>

\* CommitNoFail then commitPreparedControlRestartNoFail: the staged run becomes
\* current and the backend healthy; its observations carry the staged backend.
CommitRestart(o) ==
  /\ pc[o] = "composite" /\ ManagerCommits(o)
  /\ runEpoch' = stage[o].run /\ runPhase' = "active"
  /\ quarantined' = FALSE /\ detach' = "none"
  /\ obsBackend' = stage[o].backend
  /\ stage' = [stage EXCEPT ![o] = NoStage]
  /\ currentOp' = NoOp
  /\ mgr' = NoOp
  /\ Goto(o, "committed")
  /\ UnchangedByCalls
  /\ UNCHANGED <<entryVars, runSeq, removed, backendEpoch, receipts, permitVars, prepared, seal,
                 lane, proc, timer, stale, raw, fenced, post>>

\* Finish: the token is resolved and the lane free. A restart that a revoke or a
\* stop met in between is closed again.
FinishCommitted(o) ==
  /\ pc[o] = "committed"
  /\ prepared' = NoOp
  /\ ReleaseLane
  /\ IF kind[o] = "restart" /\ post[o]
     THEN runPhase' = "terminal" /\ proc' = "gone" /\ stale' = (mgr # NoOp)
     ELSE UNCHANGED <<runPhase, proc, stale>>
  /\ Goto(o, "done")
  /\ UnchangedByCalls
  /\ UNCHANGED <<entryVars, runEpoch, runSeq, removed, backVars, permitVars, currentOp, stage, seal,
                 obsBackend, timer, mgr, raw, fenced, post>>

-----------------------------------------------------------------------------
(* Abort                                                                   *)

\* A commit the Manager refused, or a terminal ticket, a causal batch or a
\* shared lease that could not be had.
AbandonSealed(o) ==
  /\ pc[o] \in {"sealed", "composite"}
  /\ kind[o] = "stop" => stale
  /\ Goto(o, "abandon")
  /\ UnchangedByCalls
  /\ UNCHANGED <<entryVars, runVars, backVars, permitVars, tokenVars, procVars, timer, mgrVars,
                 raw, fenced, post>>

\* AbortRestartStage, then closing what was launched.
AbortStage(o) ==
  /\ pc[o] \in {"abandon", "abort"} /\ stage[o] # NoStage
  /\ stage' = [stage EXCEPT ![o] = NoStage]
  /\ runPhase' = IF ~removed /\ runEpoch = permit[o].run THEN "terminal" ELSE runPhase
  /\ proc' = "gone"
  /\ UnchangedByCalls
  /\ UNCHANGED <<entryVars, runEpoch, runSeq, removed, backVars, permitVars, currentOp, prepared,
                 seal, lane, obsBackend, timer, mgrVars, pc, raw, fenced, post>>

\* abortPreparedControl{Stop,Remove,Restart}. A restart gives up its Manager
\* token after the control token, a stop and a remove before it.
AbandonToken(o) ==
  /\ pc[o] = "abandon" /\ stage[o] = NoStage
  /\ kind[o] # "restart" => mgr # o
  /\ prepared' = NoOp
  /\ currentOp' = ClearedBy(o)
  /\ ReleaseLane
  /\ Goto(o, IF kind[o] = "restart" THEN "abort" ELSE "reconcile")
  /\ UnchangedByCalls
  /\ UNCHANGED <<entryVars, runVars, backVars, permitVars, stage, seal, procVars, timer, mgrVars,
                 raw, fenced, post>>

\* Mutant: only an effect that succeeded is reconciled.
CloseConfirmed(o) == raw[o] = "ok"

\* Whether the old process may already have been closed.
CloseAttempted(o) ==
  IF kind[o] = "restart" THEN raw[o] \notin {"none", "ready", "refused"} ELSE raw[o] \in {"ok", "failed"}

ReleaseManager(o) ==
  /\ mgr = o
  /\ \/ pc[o] = "abandon" /\ kind[o] # "restart" /\ UNCHANGED pc
     \/ /\ pc[o] = "abort" /\ stage[o] = NoStage
        /\ Goto(o, IF CloseAttempted(o) THEN "reconcile" ELSE "done")
  /\ mgr' = NoOp
  /\ UnchangedByCalls
  /\ UNCHANGED <<entryVars, runVars, backVars, permitVars, tokenVars, procVars, timer, stale,
                 raw, fenced, post>>

\* reconcileClosedRunWithoutCommit: terminal only while the run is still the one
\* that failed; a lifecycle begun meanwhile holds a stale Manager token.
Reconcile(o) ==
  /\ pc[o] = "reconcile"
  /\ IF ~removed /\ runEpoch = permit[o].run
     THEN runPhase' = "terminal" /\ fenced' = FencedCurrent /\ stale' = (mgr # NoOp)
     ELSE UNCHANGED <<runPhase, fenced, stale>>
  /\ Goto(o, "done")
  /\ UnchangedByCalls
  /\ UNCHANGED <<entryVars, runEpoch, runSeq, removed, backVars, permitVars, tokenVars, procVars,
                 timer, mgr, raw, post>>

-----------------------------------------------------------------------------
(* The process                                                             *)

\* What a callback of the process never touches.
UnchangedByProcess ==
  UNCHANGED <<entryVars, runEpoch, runSeq, removed, backendEpoch, quarantined, receipts, permitVars,
              tokenVars, obsBackend, timer, mgrVars, pc, raw, fenced, post>>

ProcessExit ==
  /\ proc = "running"
  /\ proc' = "exiting"
  /\ UnchangedByCalls /\ UnchangedByProcess
  /\ UNCHANGED <<runPhase, detach>>

Staged == \E o \in Ops : stage[o] # NoStage
Composite == \E o \in Ops : kind[o] = "restart" /\ pc[o] \in {"composite", "committed"}

CloseSealed == prepared # NoOp /\ kind[prepared] \in {"stop", "remove"}

\* CommitRunObservation: a staged process's exit goes to the restart's own buffer,
\* a composite restart holds it back and a sealed stop or remove drops it;
\* otherwise only an observation of the current backend is accepted.
ObserveExit ==
  /\ proc = "exiting" /\ ~Composite
  /\ proc' = "gone"
  /\ runPhase' = IF ~Staged /\ ~CloseSealed /\ ~removed /\ obsBackend = backendEpoch
                 THEN "terminal" ELSE runPhase
  /\ UnchangedByCalls /\ UnchangedByProcess
  /\ UNCHANGED detach

\* confirmBackendDetach: a receipt counts only for the quarantine it was issued for.
ConfirmDetach(e) ==
  /\ e \in receipts
  /\ quarantined /\ backendEpoch = e /\ ~removed /\ detach = "pending"
  /\ detach' = "detached"
  /\ UnchangedByCalls /\ UnchangedByProcess
  /\ UNCHANGED <<runPhase, proc>>

LifecycleStep(o) ==
  Seal(o) \/ CompositePrepare(o) \/ CommitStop(o) \/ CommitRemove(o) \/ CommitRestart(o)
    \/ FinishCommitted(o) \/ AbandonSealed(o) \/ AbortStage(o) \/ AbandonToken(o)
    \/ ReleaseManager(o) \/ Reconcile(o)

ProcessStep == ProcessExit \/ ObserveExit \/ \E e \in receipts : ConfirmDetach(e)

=============================================================================
