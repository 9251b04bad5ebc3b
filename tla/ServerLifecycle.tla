---------------------------- MODULE ServerLifecycle ----------------------------
(***************************************************************************)
(* The remote server's runs (server.go Start and Stop, server_security.go  *)
(* stopInternal and publishLifecycleAcceptance). A run is one listener,    *)
(* from its publication to the end of its shutdown. Start and Stop may be  *)
(* called by anyone at any time, also while another call is at work; the   *)
(* shutdown of a run, which the first of Stop, the end of Serve and the    *)
(* cancelled context begins, is one sequence of steps under the run's      *)
(* shutdownOnce. A section under the server's mutex is one step. Of the    *)
(* control plane, the pairing service and the registry the module keeps    *)
(* whether they accept.                                                    *)
(***************************************************************************)
EXTENDS Naturals, FiniteSets, Sequences

CONSTANTS
  Starter,       \* those that call Start, one call at a time each
  Stopper,       \* those that call Stop
  MaxRuns        \* bound: listeners opened

ASSUME RunsAssumption == MaxRuns \in Nat

Runs == 1..MaxRuns
NoRun == 0

VARIABLES
  opened,        \* the runs made so far
  curRun, running, starting, stoppingRun,
  start,         \* each starter's place in Start, and its run
  stop,          \* each stopper's place in Stop, and the run it waits for
  down,          \* each run's place in its shutdown
  same,          \* the runs that were current when their shutdown began
  pending,       \* startedPending: the runs that were accepted
  startedDone,   \* the runs whose started event is in
  listening, serving,
  pairing, registry, control,   \* each accepts
  events         \* the service events, oldest first

callVars == <<start, stop>>
runVars == <<opened, curRun, running, starting, stoppingRun>>
acceptVars == <<pairing, registry, control>>
recordVars == <<same, pending, startedDone, listening, serving>>
vars == <<callVars, runVars, down, recordVars, acceptVars, events>>

Returned == {"ok", "failed"}
At(c, place) == start' = [start EXCEPT ![c].at = place]
Return(c, how) == start' = [start EXCEPT ![c] = [at |-> how, run |-> NoRun]]
NoStop == [at |-> "returned", run |-> NoRun]
Event(what, r) == [what |-> what, run |-> r]

-----------------------------------------------------------------------------
(* Start                                                                    *)

BeginStart(c) ==
  /\ start[c].at \in Returned
  /\ At(c, "entry")
  /\ UNCHANGED <<stop, runVars, down, recordVars, acceptVars, events>>

\* Mutant: a stop that is still at work is not waited for.
EnterAtOnce(c) ==
  /\ start[c].at = "entry"
  /\ \/ running /\ Return(c, "ok") /\ UNCHANGED starting
     \/ ~running /\ starting /\ Return(c, "failed") /\ UNCHANGED starting
     \/ ~running /\ ~starting /\ starting' = TRUE /\ At(c, "listen")
  /\ UNCHANGED <<stop, opened, curRun, running, stoppingRun, down, recordVars, acceptVars, events>>

\* The entry gate: running is looked at before stopping.
Enter(c) ==
  /\ start[c].at = "entry"
  /\ \/ running /\ Return(c, "ok") /\ UNCHANGED starting
     \/ ~running /\ starting /\ Return(c, "failed") /\ UNCHANGED starting
     \/ /\ ~running /\ ~starting /\ stoppingRun # NoRun
        /\ start' = [start EXCEPT ![c] = [at |-> "wait", run |-> stoppingRun]]
        /\ UNCHANGED starting
     \/ ~running /\ ~starting /\ stoppingRun = NoRun /\ starting' = TRUE /\ At(c, "listen")
  /\ UNCHANGED <<stop, opened, curRun, running, stoppingRun, down, recordVars, acceptVars, events>>

\* The stop it waited for has closed its done channel: the gate again.
Wake(c) ==
  /\ start[c].at = "wait" /\ down[start[c].run] = "done"
  /\ start' = [start EXCEPT ![c] = [at |-> "entry", run |-> NoRun]]
  /\ UNCHANGED <<stop, runVars, down, recordVars, acceptVars, events>>

\* The caller's context is cancelled while it waits.
GiveUp(c) ==
  /\ start[c].at = "wait"
  /\ Return(c, "failed")
  /\ UNCHANGED <<stop, runVars, down, recordVars, acceptVars, events>>

Listen(c) ==
  /\ start[c].at = "listen"
  /\ \/ /\ opened < MaxRuns /\ opened' = opened + 1
        /\ start' = [start EXCEPT ![c] = [at |-> "publish", run |-> opened']]
        /\ listening' = listening \cup {opened'}
        /\ UNCHANGED starting
     \/ /\ starting' = FALSE /\ Return(c, "failed")
        /\ UNCHANGED <<opened, listening>>
  /\ UNCHANGED <<stop, curRun, running, stoppingRun, down, same, pending, startedDone, serving,
                 acceptVars, events>>

Publish(c) ==
  /\ start[c].at = "publish"
  /\ starting' = FALSE /\ running' = TRUE /\ curRun' = start[c].run
  /\ At(c, "accept")
  /\ UNCHANGED <<stop, opened, stoppingRun, down, recordVars, acceptVars, events>>

\* Mutant: a stop that came between publication and acceptance is not noticed.
AcceptAnyway(c) ==
  /\ start[c].at = "accept"
  /\ registry' = TRUE /\ pairing' = TRUE
  /\ pending' = pending \cup {start[c].run} /\ At(c, "restart")
  /\ UNCHANGED <<stop, runVars, down, same, startedDone, listening, serving, control, events>>

\* publishLifecycleAcceptance. A run that was stopped before is not accepted,
\* and its Start has no error to report.
Accept(c) ==
  /\ start[c].at = "accept"
  /\ IF curRun = start[c].run /\ stoppingRun = NoRun
     THEN /\ registry' = TRUE /\ pairing' = TRUE
          /\ pending' = pending \cup {start[c].run} /\ At(c, "restart")
     ELSE Return(c, "ok") /\ UNCHANGED <<registry, pairing, pending>>
  /\ UNCHANGED <<stop, runVars, down, same, startedDone, listening, serving, control, events>>

\* RestartRemote, outside the mutex.
RestartRemote(c) ==
  /\ start[c].at = "restart"
  /\ control' = TRUE /\ At(c, "emit")
  /\ UNCHANGED <<stop, runVars, down, recordVars, pairing, registry, events>>

EmitStarted(c) ==
  /\ start[c].at = "emit"
  /\ events' = Append(events, Event("started", start[c].run))
  /\ startedDone' = startedDone \cup {start[c].run}
  /\ At(c, "recheck")
  /\ UNCHANGED <<stop, runVars, down, same, pending, listening, serving, acceptVars>>

\* Serve and the watch of the context begin, unless the run was stopped meanwhile.
Recheck(c) ==
  /\ start[c].at = "recheck"
  /\ IF curRun = start[c].run /\ stoppingRun = NoRun
     THEN serving' = serving \cup {start[c].run} /\ Return(c, "ok")
     ELSE Return(c, "failed") /\ UNCHANGED serving
  /\ UNCHANGED <<stop, runVars, down, same, pending, startedDone, listening, acceptVars, events>>

StartStep(c) ==
  \/ Enter(c) \/ Wake(c) \/ Listen(c) \/ Publish(c) \/ Accept(c)
  \/ RestartRemote(c) \/ EmitStarted(c) \/ Recheck(c)

-----------------------------------------------------------------------------
(* stopInternal                                                             *)

BeginShutdown(r) ==
  /\ down[r] = "none"
  /\ down' = [down EXCEPT ![r] = "fence"]
  /\ IF curRun = r
     THEN curRun' = NoRun /\ stoppingRun' = r /\ same' = same \cup {r}
     ELSE UNCHANGED <<curRun, stoppingRun, same>>
  /\ UNCHANGED <<opened, running, starting, pending, startedDone, listening, serving, acceptVars, events>>

Next1(r, from, to) == down[r] = from /\ down' = [down EXCEPT ![r] = to]

FenceAllRemote(r) ==
  /\ Next1(r, "fence", "suspend")
  /\ control' = FALSE
  /\ UNCHANGED <<callVars, runVars, recordVars, pairing, registry, events>>

Suspend(r) ==
  /\ Next1(r, "suspend", "registry")
  /\ pairing' = FALSE
  /\ UNCHANGED <<callVars, runVars, recordVars, registry, control, events>>

\* Terminate and ReleaseAllRemote, which follow, change nothing kept here.
StopRegistry(r) ==
  /\ Next1(r, "registry", "close")
  /\ registry' = FALSE
  /\ UNCHANGED <<callVars, runVars, recordVars, pairing, control, events>>

\* HTTP shutdown, listener close.
CloseListener(r) ==
  /\ Next1(r, "close", "tail")
  /\ listening' = listening \ {r}
  /\ UNCHANGED <<callVars, runVars, same, pending, startedDone, serving, acceptVars, events>>

NotRunning(r) ==
  /\ Next1(r, "tail", "emit")
  /\ running' = FALSE
  /\ UNCHANGED <<callVars, opened, curRun, starting, stoppingRun, recordVars, acceptVars, events>>

\* Mutant: the started event is waited for, accepted or not.
StartedIsInAlways(r) == r \in startedDone

\* Mutant: the stopped event does not wait.
StartedNotAwaited(r) == TRUE

\* Only a run that was accepted owes a started event.
StartedIsIn(r) == r \in same \cap pending => r \in startedDone

EmitStopped(r) ==
  /\ StartedIsIn(r)
  /\ Next1(r, "emit", "clear")
  /\ events' = IF r \in same THEN Append(events, Event("stopped", r)) ELSE events
  /\ UNCHANGED <<callVars, runVars, recordVars, acceptVars>>

ClearStopping(r) ==
  /\ Next1(r, "clear", "closing")
  /\ stoppingRun' = IF stoppingRun = r THEN NoRun ELSE stoppingRun
  /\ UNCHANGED <<callVars, opened, curRun, running, starting, recordVars, acceptVars, events>>

CloseDone(r) ==
  /\ Next1(r, "closing", "done")
  /\ UNCHANGED <<callVars, runVars, recordVars, acceptVars, events>>

ShutdownStep(r) ==
  \/ FenceAllRemote(r) \/ Suspend(r) \/ StopRegistry(r) \/ CloseListener(r)
  \/ NotRunning(r) \/ EmitStopped(r) \/ ClearStopping(r) \/ CloseDone(r)

\* Serve returns or fails, or the parent context is cancelled.
ServeEnds(r) == r \in serving /\ BeginShutdown(r) /\ UNCHANGED callVars

-----------------------------------------------------------------------------
(* Stop                                                                     *)

\* With no current run there is nothing to wait for, even while one shuts down.
BeginStop(p) ==
  /\ stop[p].at = "returned"
  /\ stop' = [stop EXCEPT ![p] = [at |-> "stopping", run |-> curRun]]
  /\ curRun # NoRun
  /\ UNCHANGED <<start, runVars, down, recordVars, acceptVars, events>>

StopCalls(p) ==
  /\ stop[p].at = "stopping"
  /\ BeginShutdown(stop[p].run) /\ UNCHANGED callVars

StopReturns(p) ==
  /\ stop[p].at = "stopping" /\ down[stop[p].run] = "done"
  /\ stop' = [stop EXCEPT ![p] = NoStop]
  /\ UNCHANGED <<start, runVars, down, recordVars, acceptVars, events>>

-----------------------------------------------------------------------------

Init ==
  /\ opened = 0 /\ curRun = NoRun /\ running = FALSE /\ starting = FALSE /\ stoppingRun = NoRun
  /\ start = [c \in Starter |-> [at |-> "failed", run |-> NoRun]]
  /\ stop = [p \in Stopper |-> NoStop]
  /\ down = [r \in Runs |-> "none"]
  /\ same = {} /\ pending = {} /\ startedDone = {} /\ listening = {} /\ serving = {}
  /\ pairing = FALSE /\ registry = FALSE /\ control = FALSE
  /\ events = <<>>

Next ==
  \/ \E c \in Starter : BeginStart(c) \/ GiveUp(c) \/ StartStep(c)
  \/ \E p \in Stopper : BeginStop(p) \/ StopCalls(p) \/ StopReturns(p)
  \/ \E r \in Runs : ServeEnds(r) \/ ShutdownStep(r)

Spec == Init /\ [][Next]_vars

\* A call that has begun goes on, and so does a shutdown; nobody has to give up.
FairSpec ==
  /\ Spec
  /\ \A c \in Starter : WF_vars(StartStep(c))
  /\ \A p \in Stopper : WF_vars(StopCalls(p) \/ StopReturns(p))
  /\ \A r \in Runs : WF_vars(ShutdownStep(r))

-----------------------------------------------------------------------------
(* Properties                                                               *)

StartPlaces == Returned \cup {"entry", "wait", "listen", "publish", "accept", "restart", "emit", "recheck"}
DownPlaces == {"none", "fence", "suspend", "registry", "close", "tail", "emit", "clear", "closing", "done"}

TypeOK ==
  /\ opened \in 0..MaxRuns /\ curRun \in 0..opened /\ stoppingRun \in 0..opened
  /\ running \in BOOLEAN /\ starting \in BOOLEAN
  /\ start \in [Starter -> [at : StartPlaces, run : 0..opened]]
  /\ stop \in [Stopper -> [at : {"returned", "stopping"}, run : 0..opened]]
  /\ down \in [Runs -> DownPlaces]
  /\ same \subseteq 1..opened /\ pending \subseteq 1..opened /\ startedDone \subseteq pending
  /\ listening \subseteq 1..opened /\ serving \subseteq startedDone
  /\ pairing \in BOOLEAN /\ registry \in BOOLEAN /\ control \in BOOLEAN
  /\ events \in Seq([what : {"started", "stopped"}, run : 1..opened])

\* The service events of a run are started, if it was accepted, and then
\* stopped, and all of them come before those of any later run, whatever overlap
\* of starts, stops and failing listeners.
EventOrder ==
  \A i, j \in DOMAIN events : i < j =>
    \/ events[i].run < events[j].run
    \/ events[i].run = events[j].run /\ events[i].what = "started" /\ events[j].what = "stopped"

\* From its listener to the end of its stopped event a run has the server for
\* itself: no start opens a listener beside it.
Live == listening \cup {r \in Runs : down[r] \notin {"none", "closing", "done"}}
OneRun == Cardinality(Live) <= 1

\* The registry and the pairing service accept only for a run that was accepted
\* and whose shutdown has not reached them: a start that lost its race with a
\* stop does not switch them on again after the stop switched them off.
AcceptsForARun ==
  /\ registry => \E r \in pending : down[r] \in {"none", "fence", "suspend", "registry"}
  /\ pairing => \E r \in pending : down[r] \in {"none", "fence", "suspend"}

\* Every Start and every Stop comes back: neither waits for the other for ever.
CallsEnd ==
  /\ \A c \in Starter : start[c].at \notin Returned ~> start[c].at \in Returned
  /\ \A p \in Stopper : stop[p].at = "stopping" ~> stop[p].at = "returned"

\* The control plane accepts remote operations only for a run that was accepted
\* and whose shutdown has not fenced it.
ControlFollowsServer ==
  control => \E r \in pending : down[r] \in {"none", "fence"}
=============================================================================
