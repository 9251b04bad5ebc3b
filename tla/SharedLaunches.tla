--------------------------- MODULE SharedLaunches ---------------------------
(***************************************************************************)
(* The callers of the coordinator: remote creates and restarts, desktop    *)
(* launches, the ends of their runs, mutations, the uninstall of Headroom  *)
(* and the application's shutdown.                                         *)
(*                                                                         *)
(* A launch is a goroutine with a list of steps to go, todo[r]; a step     *)
(* that fails replaces the list by the steps that undo what was done.      *)
(* Steps are <<op>> or <<op, kind>>.  App.sharedLeases is the registry of  *)
(* the leases whose release somebody has taken on; a releaser moves leases *)
(* from there into its hand, then drops them one by one.                   *)
(***************************************************************************)
EXTENDS SharedCoordinator, SequencesExt

CONSTANTS
  Routes,   \* among "create", "restart" and "desktop"
  Plans,    \* the sets of kinds each launch may depend on
  Wishes,   \* the configurations of Headroom that each launch may ask for
  AtStart,  \* the configuration of each kind when the application starts
  MaxTroubles  \* bounds what happens to the launches, see Trouble

None == 0

ASSUME LaunchesAssumption ==
  /\ Runs \subseteq Nat \ {None}
  /\ Routes \subseteq {"create", "restart", "desktop"}
  /\ Plans \in [Runs -> SUBSET SUBSET Kinds]
  /\ Wishes \in [Runs -> SUBSET Configs]
  /\ AtStart \in [Kinds -> Configs \cup {Off}]
  /\ MaxTroubles \in Nat

Shutdown  == <<"shutdown">>
Exact(r)  == <<"exact", r>>
Whole(s)  == <<"whole", s>>
Releasers == {Shutdown} \cup ({"exact", "whole"} \X Runs)

VARIABLES
  todo, route, sess, needs, want, owners,   \* of each launch
  proc,          \* the process of each run
  live,          \* the run that the Manager has for each session
  pendingOp,     \* sessions with a prepared lifecycle token
  sealed,        \* launches between their seal and its resolution
  service,       \* the configuration in force of each kind
  mutating,      \* kinds whose mutator is at work
  uninstall,     \* CleanHeadroom
  troubles,      \* counts what MaxTroubles bounds
  sharedLeases,  \* App.sharedLeases
  hand,          \* the leases that each releaser is about to drop
  gate,          \* sharedLeaseReleases: who sweeps a session
  stop,          \* StopSession on each session
  watcher,       \* the goroutine that polls a desktop session's PTY
  shutdown

launchState == <<todo, route, sess, needs, want, owners, sealed>>
runState    == <<proc, live, pendingOp>>
changers    == <<mutating, uninstall>>
services    == <<service, changers>>
registry    == <<sharedLeases, hand, gate>>
ends        == <<stop, watcher, shutdown>>
vars        == <<coord, launchState, runState, services, registry, ends,
                 troubles>>

KindSteps == {"claim", "fresh", "use", "effect", "mark", "verify", "lend",
              "remember", "lease", "unlease", "unclaim", "authorize", "stop"}

PlainSteps == {"run", "close", "pty", "seal", "owners", "reserve", "commit",
               "open", "resolve", "resolved", "unseal", "disown", "untoken",
               "reconcile", "sweep", "swept", "watch"}

\* Steps that only a Headroom proxy has.
HeadroomSteps == {"use", "effect", "mark", "verify", "authorize", "stop"}

AllSteps ==
  {x \in KindSteps \X Kinds : x[1] \in HeadroomSteps => x[2] \in Headrooms}
    \cup (PlainSteps \X {Off})

TypeOK ==
  /\ CoordTypeOK
  /\ todo \in [Runs -> Seq(AllSteps)]
  /\ route \in [Runs -> Routes \cup {"none"}]
  /\ sess \in [Runs -> Runs]
  /\ needs \in [Runs -> SUBSET Kinds]
  /\ want \in [Runs -> [Kinds -> Configs \cup {Off}]]
  /\ owners \in [Runs -> SUBSET Claim]
  /\ proc \in [Runs -> {"none", "running", "exited", "ended", "gone"}]
  /\ live \in [Runs -> Runs \cup {None}]
  /\ pendingOp \subseteq Runs
  /\ sealed \subseteq Runs
  /\ service \in [Kinds -> Configs \cup {Off}]
  /\ mutating \subseteq Kinds
  /\ uninstall \in {"idle", "refused", "stopping", "removing"}
  /\ troubles \in 0..MaxTroubles
  /\ sharedLeases \subseteq Claim
  /\ hand \in [Releasers -> SUBSET Claim]
  /\ gate \in [Runs -> {"free", "launch", "stop", "watcher"}]
  /\ stop \in [Runs -> {"no", "asked", "exact", "taken", "whole", "done"} \X
                       (Runs \cup {None})]
  /\ watcher \in [Runs -> {"no", "polling", "saw", "done"}]
  /\ shutdown \in {"no", "fenced", "closing", "closed", "done"}

Init ==
  /\ CoordInit
  /\ todo = [r \in Runs |-> <<>>]
  /\ route = [r \in Runs |-> "none"]
  /\ sess = [r \in Runs |-> r]
  /\ needs = [r \in Runs |-> {}]
  /\ want = [r \in Runs |-> [k \in Kinds |-> Off]]
  /\ owners = [r \in Runs |-> {}]
  /\ proc = [r \in Runs |-> "none"]
  /\ live = [r \in Runs |-> None]
  /\ pendingOp = {}
  /\ sealed = {}
  /\ service = AtStart
  /\ mutating = {}
  /\ uninstall = "idle"
  /\ troubles = 0
  /\ sharedLeases = {}
  /\ hand = [h \in Releasers |-> {}]
  /\ gate = [s \in Runs |-> "free"]
  /\ stop = [s \in Runs |-> <<"no", None>>]
  /\ watcher = [s \in Runs |-> "no"]
  /\ shutdown = "no"

-----------------------------------------------------------------------------
\* The steps of a launch

Step(op)    == <<op, Off>>
Each(op, K) == SetToSeq({op} \X K)

\* Each kind is leased, then at once remembered.
LendEach(K) ==
  [i \in 1..(2 * Cardinality(K)) |->
     <<IF i % 2 = 1 THEN "lend" ELSE "remember", SetToSeq(K)[(i + 1) \div 2]>>]

At(r, op) == todo[r] # <<>> /\ Head(todo[r])[1] = op
Kind(r)   == Head(todo[r])[2]
Mine(r)   == {r} \X needs[r]

\* sharedLeaseMu is free: shutdown holds it while it closes the coordinator.
MuFree == shutdown # "closing"

Fenced == shutdown # "no"

Steps(how, K) ==
  LET H == K \cap Headrooms
      C == K \ Headrooms
      claims == Each("claim", C) \o Each("fresh", C) \o Each("claim", H)
  IN  CASE how = "create" ->
             claims \o Each("effect", H) \o <<Step("pty")>> \o Each("lease", K)
               \o <<Step("reserve"), Step("seal"), Step("commit"),
                    Step("open"), Step("resolve")>>
        [] how = "restart" ->
             claims \o <<Step("close")>> \o Each("effect", H)
               \o <<Step("pty")>> \o Each("lease", K)
               \o <<Step("seal"), Step("owners"), Step("reserve"),
                    Step("commit"), Step("open"), Step("resolve")>>
               \o Each("unclaim", K)
        [] how = "desktop" ->
             Each("claim", C) \o Each("claim", H) \o Each("use", H)
               \o <<Step("run")>>
               \o LendEach(K)
               \o <<Step("pty"), Step("seal"), Step("commit"), Step("open")>>
               \o Each("unclaim", K) \o <<Step("watch")>>

\* What the launch does once the step at the head of its list has failed.
\* From its seal on, a create gives no claim back.
Undo(r) ==
  LET op == Head(todo[r])[1]
      K  == needs[r]
      early  == op \in {"claim", "fresh", "use", "run", "close"}
      leased == IF early \/ op \in {"effect", "mark", "verify", "pty"}
                  THEN <<>> ELSE Each("unlease", K)
      stops  == IF early \/ op = "verify"
                  THEN <<>> ELSE Each("authorize", K \cap Headrooms)
      unseal == IF op \in {"owners", "reserve", "commit"}
                  THEN <<Step("unseal")>> ELSE <<>>
  IN  CASE route[r] = "create" /\ op \notin {"seal", "commit"} ->
             leased \o Each("unclaim", K) \o stops
        [] route[r] = "create" /\ op \in {"seal", "commit"} ->
             (IF op = "commit" THEN <<Step("unseal")>> ELSE <<>>)
               \o <<Step("resolve")>> \o leased \o stops
        [] route[r] = "restart" ->
             (IF op = "commit" THEN <<Step("resolve")>> ELSE <<>>)
               \o unseal \o stops \o leased \o Each("unclaim", K)
               \o (IF early THEN <<Step("untoken")>>
                            ELSE <<Step("disown"), Step("reconcile")>>)
        [] route[r] = "desktop" ->
             unseal
               \o (IF early THEN <<>> ELSE <<Step("sweep"), Step("swept")>>)
               \o Each("unclaim", K)

Goes(r)        == todo' = [todo EXCEPT ![r] = Tail(@)]
Then(r, steps) == todo' = [todo EXCEPT ![r] = steps \o Tail(@)]

\* A process that the launch has started is closed before anything is undone.
Fails(r) ==
  /\ todo' = [todo EXCEPT ![r] = Undo(r)]
  /\ proc' = [proc EXCEPT ![r] = IF @ = "none" THEN @ ELSE "gone"]
  /\ UNCHANGED <<coord, route, sess, needs, want, owners, live, pendingOp,
                 sealed, services, registry, ends>>

plan == <<route, sess, needs, want, owners>>

\* Launches are numbered in the order in which they begin.
MayBegin(r) ==
  /\ route[r] = "none" /\ ~Fenced
  /\ \A q \in Runs : q < r => route[q] # "none"

Begin(r, how, s, K, w) ==
  /\ MayBegin(r)
  /\ IF how = "restart"
       THEN s # r /\ live[s] # None /\ s \notin pendingOp
       ELSE s = r /\ K # {}
  /\ route' = [route EXCEPT ![r] = how]
  /\ sess' = [sess EXCEPT ![r] = s]
  /\ needs' = [needs EXCEPT ![r] = K]
  /\ want' = [want EXCEPT ![r] = w]
  /\ todo' = [todo EXCEPT ![r] = Steps(how, K)]
  /\ pendingOp' = IF how = "restart" THEN pendingOp \cup {s} ELSE pendingOp
  /\ UNCHANGED <<coord, owners, proc, live, sealed, services, registry, ends>>

ClaimKind(r) ==
  LET k == Kind(r)
      f == IF route[r] = "desktop" /\ k \in Headrooms THEN Unbound
           ELSE want[r][k]
  IN  /\ At(r, "claim") /\ Admits(k, f)
      /\ AcquireLaunchAdmission(<<r, k>>, f)
      /\ Goes(r)
      /\ UNCHANGED <<plan, sealed, runState, services, registry, ends>>

ClaimRefused(r) ==
  LET k == Kind(r)
      f == IF route[r] = "desktop" /\ k \in Headrooms THEN Unbound
           ELSE want[r][k]
  IN  At(r, "claim") /\ ~Admits(k, f) /\ Fails(r)

\* verifyCredentialPlanFreshness
Fresh(r) ==
  /\ At(r, "fresh")
  /\ IF want[r][Kind(r)] = service[Kind(r)]
       THEN /\ Goes(r)
            /\ UNCHANGED <<coord, plan, sealed, runState, services, registry,
                           ends>>
       ELSE Fails(r)

\* LaunchSession starts Headroom itself and takes whatever runs already.
Use(r) ==
  /\ At(r, "use")
  /\ \/ /\ service' = IF service[Kind(r)] # Off THEN service
                      ELSE [service EXCEPT ![Kind(r)] = want[r][Kind(r)]]
        /\ Goes(r)
        /\ UNCHANGED <<coord, plan, sealed, runState, changers, registry, ends>>
     \/ service[Kind(r)] = Off /\ Fails(r)

\* headroomStartEffect.Apply
Effect(r) ==
  /\ At(r, "effect") /\ ~Fenced
  /\ IF service[Kind(r)] = Off
       THEN /\ service' = [service EXCEPT ![Kind(r)] = want[r][Kind(r)]]
            /\ Then(r, <<<<"mark", Kind(r)>>>>)
       ELSE /\ service[Kind(r)] = want[r][Kind(r)]
            /\ Goes(r)
            /\ UNCHANGED service
  /\ UNCHANGED <<coord, plan, sealed, runState, changers, registry,
                 ends>>

\* Headroom runs for somebody else, or the operation has been fenced.
EffectFails(r) ==
  /\ \/ At(r, "effect") /\ service[Kind(r)] \notin {Off, want[r][Kind(r)]}
     \/ At(r, "effect") /\ Fenced
     \/ At(r, "pty") /\ Fenced /\ route[r] # "desktop"
     \/ At(r, "close") /\ Fenced
  /\ Fails(r)

\* The claim is marked, then the service verified.
Mark(r) ==
  LET c == <<r, Kind(r)>>
  IN  /\ At(r, "mark")
      /\ IF Markable(c)
           THEN /\ MarkLaunchTransactionStarted(c)
                /\ Then(r, IF service[Kind(r)] = want[r][Kind(r)] THEN <<>>
                           ELSE <<<<"verify", Kind(r)>>>>)
                /\ UNCHANGED <<plan, sealed, runState, services, registry,
                               ends>>
           ELSE Fails(r)

Unverified(r) ==
  LET c == <<r, Kind(r)>>
  IN  /\ At(r, "verify")
      /\ IF MayCompensate(c)
           THEN /\ AuthorizeCompensatingStop(c)
                /\ todo' = [todo EXCEPT
                             ![r] = <<<<"stop", Kind(r)>>>> \o Undo(r)]
                /\ UNCHANGED <<plan, sealed, runState, services, registry,
                               ends>>
           ELSE Fails(r)

\* headroomStartEffect.compensate: the raw Stop runs outside the lock.
Authorize(r) ==
  LET c == <<r, Kind(r)>>
  IN  /\ At(r, "authorize")
      /\ IF MayCompensate(c)
           THEN /\ AuthorizeCompensatingStop(c)
                /\ Then(r, <<<<"stop", Kind(r)>>>>)
           ELSE Goes(r) /\ UNCHANGED coord
      /\ UNCHANGED <<plan, sealed, runState, services, registry, ends>>

RawStop(r) ==
  /\ At(r, "stop")
  /\ service' = [service EXCEPT ![Kind(r)] = Off]
  /\ Goes(r)
  /\ UNCHANGED <<coord, plan, sealed, runState, changers, registry,
                 ends>>

\* The exact close of the old run; its exit finds the lifecycle pending.
CloseOld(r) ==
  /\ At(r, "close") /\ ~Fenced
  /\ proc' = [proc EXCEPT ![live[sess[r]]] = "gone"]
  /\ Goes(r)
  /\ UNCHANGED <<coord, plan, sealed, live, pendingOp, services, registry,
                 ends>>

\* A close that is not confirmed, or not carried out: the exit of the process
\* it has cancelled is still to come, or is refused and lost.
ClosedUnsure(r) ==
  \E p \in {proc[r], "exited", "gone"} :
    /\ proc[r] = "gone" => p = "gone"
    /\ proc' = [proc EXCEPT ![r] = p]

\* The old run becomes unavailable and keeps its leases; the Manager still has
\* it, for an exit, a stop or another restart.
CloseFails(r) ==
  /\ At(r, "close")
  /\ ClosedUnsure(live[sess[r]])
  /\ todo' = [todo EXCEPT ![r] = Undo(r)]
  /\ UNCHANGED <<coord, plan, sealed, live, pendingOp, services, registry,
                 ends>>

StartProcess(r) ==
  /\ At(r, "pty") /\ (route[r] = "desktop" \/ ~Fenced)
  /\ proc' = [proc EXCEPT ![r] = "running"]
  /\ Goes(r)
  /\ UNCHANGED <<coord, plan, sealed, live, pendingOp, services, registry,
                 ends>>

\* The process, or Headroom where none runs, is not started.
StartFails(r) ==
  /\ \/ At(r, "pty")
     \/ At(r, "effect") /\ service[Kind(r)] = Off
  /\ Fails(r)

\* BeginDesktopRun
BeginRun(r) ==
  /\ At(r, "run")
  /\ IF Fenced
       THEN Fails(r)
       ELSE /\ Goes(r)
            /\ UNCHANGED <<coord, plan, sealed, runState, services, registry,
                           ends>>

\* AcquirePendingForRunWithAdmission, AcquirePendingForObservationWithAdmission
Lease(r) ==
  LET c == <<r, Kind(r)>>
  IN  /\ At(r, "lease")
      /\ IF Leasable(c, want[r][Kind(r)])
           THEN /\ AcquireLease(c, want[r][Kind(r)], FALSE)
                /\ Goes(r)
                /\ UNCHANGED <<plan, sealed, runState, services, registry,
                               ends>>
           ELSE Fails(r)

\* launchEmbeddedPTYWithClaims reads the fingerprint of the service in force,
\* acquires the lease and then remembers it.
Lend(r) ==
  LET c == <<r, Kind(r)>>
      f == service[Kind(r)]
  IN  /\ At(r, "lend")
      /\ IF Leasable(c, f)
           THEN /\ AcquireLease(c, f, TRUE)
                /\ want' = [want EXCEPT ![r][Kind(r)] = f]
                /\ Goes(r)
                /\ UNCHANGED <<route, sess, needs, owners, sealed, runState,
                               services, registry, ends>>
           ELSE Fails(r)

Remember(r) ==
  /\ At(r, "remember") /\ MuFree
  /\ sharedLeases' = sharedLeases \cup {<<r, Kind(r)>>}
  /\ Goes(r)
  /\ UNCHANGED <<coord, plan, sealed, runState, services, hand, gate, ends>>

\* Mutant: the fence is not looked at.
SealDespiteFence(r) ==
  /\ At(r, "seal")
  /\ sealed' = sealed \cup {r}
  /\ Goes(r)
  /\ UNCHANGED <<coord, plan, runState, services, registry, ends>>

\* PrepareCompositeActivation and PrepareCompositeRestart fail after the fence,
\* and when they learn that the new process is gone.
Seal(r) ==
  /\ At(r, "seal") /\ ~Fenced
  /\ sealed' = sealed \cup {r}
  /\ Goes(r)
  /\ UNCHANGED <<coord, plan, runState, services, registry, ends>>

SealFails(r) ==
  /\ At(r, "seal") /\ (Fenced \/ proc[r] = "exited")
  /\ Fails(r)

\* prepareSharedLeaseTransfer
Owners(r) ==
  /\ At(r, "owners") /\ MuFree
  /\ owners' = [owners EXCEPT
                 ![r] = {l \in sharedLeases : l[1] = live[sess[r]]}]
  /\ Goes(r)
  /\ UNCHANGED <<coord, route, sess, needs, want, sealed, runState, services,
                 registry, ends>>

Reserve(r) ==
  /\ At(r, "reserve")
  /\ IF Transferable(owners[r], Mine(r))
       THEN /\ PrepareLeaseTransfer(r, owners[r], Mine(r))
            /\ Goes(r)
            /\ UNCHANGED <<plan, sealed, runState, services, registry, ends>>
       ELSE Fails(r)

\* CommitPreparedActivation and CommitPreparedRestart with their callbacks.
Commit(r) ==
  /\ At(r, "commit")
  /\ IF route[r] = "desktop"
       THEN UNCHANGED <<coord, sharedLeases>>
       ELSE /\ MuFree /\ TicketIntact(r)
            /\ CommitLeaseTransfer(r)
            /\ sharedLeases' =
                 (sharedLeases \ ticket[r].old) \cup ticket[r].new
  /\ live' = [live EXCEPT ![sess[r]] = r]
  /\ pendingOp' = IF route[r] = "restart" THEN pendingOp \ {sess[r]}
                                          ELSE pendingOp
  /\ Goes(r)
  /\ UNCHANGED <<plan, sealed, proc, services, hand, gate, ends>>

CommitFails(r) == At(r, "commit") /\ Fails(r)

Unseal(r) ==
  /\ At(r, "open") \/ At(r, "unseal")
  /\ sealed' = sealed \ {r}
  /\ Goes(r)
  /\ UNCHANGED <<coord, plan, runState, services, registry, ends>>

\* Mutant: a committed transfer is not resolved.
ResolveUncommitted(r) ==
  /\ At(r, "resolve")
  /\ IF ticket[r].at = "ready" THEN Then(r, <<Step("resolved")>>) ELSE Goes(r)
  /\ UNCHANGED <<coord, plan, sealed, runState, services, registry, ends>>

\* FinishLeaseTransfer and AbortLeaseTransfer look at the token first, without
\* the lock.  A ClearAll in between has closed its channel: the second close
\* panics and the request's goroutine goes no further.
Resolve(r) ==
  /\ At(r, "resolve")
  /\ IF ticket[r].at \in {"ready", "committed"}
       THEN Then(r, <<Step("resolved")>>)
       ELSE Goes(r)
  /\ UNCHANGED <<coord, plan, sealed, runState, services, registry, ends>>

Resolved(r) ==
  /\ At(r, "resolved")
  /\ IF ticket[r].at = "consumed"
       THEN todo' = [todo EXCEPT ![r] = <<>>] /\ UNCHANGED coord
       ELSE Goes(r) /\ ResolveLeaseTransfer(r)
  /\ UNCHANGED <<plan, sealed, runState, services, registry, ends>>

Unlease(r) ==
  /\ At(r, "unlease")
  /\ ReleaseExact({<<r, Kind(r)>>})
  /\ Goes(r)
  /\ UNCHANGED <<plan, sealed, runState, services, registry, ends>>

Unclaim(r) ==
  /\ At(r, "unclaim")
  /\ ReleaseLaunchAdmissions({<<r, Kind(r)>>})
  /\ Goes(r)
  /\ UNCHANGED <<plan, sealed, runState, services, registry, ends>>

-----------------------------------------------------------------------------
\* Releasers

Take(h, S) ==
  /\ MuFree
  /\ hand' = [hand EXCEPT ![h] = @ \cup (S \cap sharedLeases)]
  /\ sharedLeases' = sharedLeases \ S

LeasesOfSession(s) == {l \in Claim : sess[l[1]] = s}

Drop(h, l) ==
  /\ l \in hand[h]
  /\ ReleaseExact({l})
  /\ hand' = [hand EXCEPT ![h] = @ \ {l}]
  /\ UNCHANGED <<launchState, runState, services, sharedLeases, gate, ends>>

\* releaseSharedLeases: one sweep of a session at a time, the others wait.
Sweep(s, who) ==
  /\ gate[s] = "free"
  /\ Take(Whole(s), LeasesOfSession(s))
  /\ gate' = [gate EXCEPT ![s] = who]

Swept(s, who) ==
  /\ gate[s] = who /\ hand[Whole(s)] = {} /\ MuFree
  /\ gate' = [gate EXCEPT ![s] = "free"]
  /\ UNCHANGED <<hand, sharedLeases>>

\* abortHidden of a desktop launch
LaunchSweeps(r) ==
  /\ \/ At(r, "sweep") /\ Sweep(sess[r], "launch")
     \/ At(r, "swept") /\ Swept(sess[r], "launch")
  /\ Goes(r)
  /\ UNCHANGED <<coord, plan, sealed, runState, services, ends>>

\* releaseSharedExact of the closed old run once a restart has failed.
Disown(r) ==
  /\ At(r, "disown")
  /\ Take(Exact(live[sess[r]]), {live[sess[r]]} \X Kinds)
  /\ Goes(r)
  /\ UNCHANGED <<coord, plan, sealed, runState, services, gate, ends>>

\* AbortPreparedLifecycle.  An old run whose close was confirmed is then
\* reconciled: its binding is gone, and with it what a stop needs.
Untoken(r) ==
  /\ At(r, "untoken") \/ At(r, "reconcile")
  /\ hand[Exact(live[sess[r]])] = {}
  /\ pendingOp' = pendingOp \ {sess[r]}
  /\ live' = IF At(r, "reconcile") THEN [live EXCEPT ![sess[r]] = None]
                                   ELSE live
  /\ Goes(r)
  /\ UNCHANGED <<coord, plan, sealed, proc, services, registry, ends>>

\* A desktop launch leaves a goroutine behind that polls the session's PTY.
Watch(r) ==
  /\ At(r, "watch")
  /\ watcher' = [watcher EXCEPT ![sess[r]] = "polling"]
  /\ Goes(r)
  /\ UNCHANGED <<coord, plan, sealed, runState, services, registry, stop,
                 shutdown>>

IsRunning(s) == \E r \in Runs : sess[r] = s /\ proc[r] = "running"

Watcher(s) ==
  \/ /\ watcher[s] = "polling" /\ ~IsRunning(s)
     /\ watcher' = [watcher EXCEPT ![s] = "saw"]
     /\ UNCHANGED <<coord, launchState, runState, services, registry, stop,
                    shutdown>>
  \/ /\ watcher[s] = "saw" /\ gate[s] # "watcher"
     /\ Sweep(s, "watcher")
     /\ UNCHANGED <<coord, launchState, runState, services, ends>>
  \/ /\ Swept(s, "watcher")
     /\ watcher' = [watcher EXCEPT ![s] = "done"]
     /\ UNCHANGED <<coord, launchState, runState, services, stop, shutdown>>

ProcessExits(r) ==
  /\ proc[r] = "running"
  /\ proc' = [proc EXCEPT ![r] = "exited"]
  /\ UNCHANGED <<coord, launchState, live, pendingOp, services, registry,
                 ends>>

\* OfferExit of a run that is not hidden: the Manager refuses it while a
\* lifecycle of the session is pending, and it is not repeated.
OfferExit(r) ==
  /\ proc[r] = "exited" /\ r \notin sealed
  /\ live[sess[r]] = r
  /\ IF sess[r] \in pendingOp
       THEN /\ proc' = [proc EXCEPT ![r] = "gone"]
            /\ UNCHANGED <<live, registry>>
       ELSE /\ proc' = [proc EXCEPT ![r] = "ended"]
            /\ live' = [live EXCEPT ![sess[r]] = None]
            /\ Take(Exact(r), {r} \X Kinds)
            /\ UNCHANGED gate
  /\ UNCHANGED <<coord, launchState, pendingOp, services, ends>>

\* StopSession: the authoritative stop, the exact release, the sweep.
StopTo(s, at, r) == stop' = [stop EXCEPT ![s] = <<at, r>>]

Stop(s) ==
  /\ stop[s][1] = "no" /\ live[s] # None /\ s \notin pendingOp /\ ~Fenced
  /\ StopTo(s, "asked", live[s])
  /\ pendingOp' = pendingOp \cup {s}
  /\ UNCHANGED <<coord, launchState, proc, live, services, registry, watcher,
                 shutdown>>

StopCommits(s) ==
  LET r == stop[s][2]
  IN  /\ stop[s][1] = "asked" /\ ~Fenced
      /\ pendingOp' = pendingOp \ {s}
      /\ StopTo(s, "exact", r)
      /\ proc' = [proc EXCEPT ![r] = "gone"]
      /\ live' = [live EXCEPT ![s] = None]
      /\ UNCHANGED <<coord, launchState, services, registry, watcher, shutdown>>

\* The gate denies the stop, its close is not confirmed or its commit refused:
\* no lease is released.  The run is unavailable, and still the Manager's.
StopFails(s) ==
  /\ stop[s][1] = "asked"
  /\ ClosedUnsure(stop[s][2])
  /\ pendingOp' = pendingOp \ {s}
  /\ StopTo(s, "no", None)
  /\ UNCHANGED <<coord, launchState, live, services, registry, watcher,
                 shutdown>>

\* Mutant: the exact release is all that a stop does.
StopReleasesExact(s) ==
  LET r == stop[s][2]
  IN  \/ /\ stop[s][1] = "exact"
         /\ Take(Exact(r), {r} \X Kinds)
         /\ StopTo(s, "taken", r)
         /\ UNCHANGED <<coord, launchState, runState, services, gate, watcher,
                        shutdown>>
      \/ /\ stop[s][1] = "taken" /\ hand[Exact(r)] = {}
         /\ StopTo(s, "done", r)
         /\ UNCHANGED <<coord, launchState, runState, services, registry,
                        watcher, shutdown>>

StopReleases(s) ==
  LET r == stop[s][2]
  IN  \/ /\ stop[s][1] = "exact"
         /\ Take(Exact(r), {r} \X Kinds)
         /\ StopTo(s, "taken", r)
         /\ UNCHANGED <<coord, launchState, runState, services, gate, watcher,
                        shutdown>>
      \/ /\ stop[s][1] = "taken" /\ hand[Exact(r)] = {}
         /\ Sweep(s, "stop")
         /\ StopTo(s, "whole", r)
         /\ UNCHANGED <<coord, launchState, runState, services, watcher,
                        shutdown>>
      \/ /\ Swept(s, "stop")
         /\ StopTo(s, "done", r)
         /\ UNCHANGED <<coord, launchState, runState, services, watcher,
                        shutdown>>

-----------------------------------------------------------------------------
\* Mutations, the uninstall, the services themselves

BeginMutation(k) ==
  /\ k \notin mutating /\ Mutable(k)
  /\ SetMutation(k, TRUE)
  /\ mutating' = mutating \cup {k}
  /\ UNCHANGED <<launchState, runState, service, uninstall, registry, ends>>

\* The raw Start, Stop or reconfiguration, or the swap of the credentials.
EndMutation(k, f) ==
  /\ k \in mutating /\ (f = Off => k \in Headrooms)
  /\ service' = [service EXCEPT ![k] = f]
  /\ SetMutation(k, FALSE)
  /\ mutating' = mutating \ {k}
  /\ UNCHANGED <<launchState, runState, uninstall, registry, ends>>

\* CleanHeadroom, serialised by the operation gate of envcheck.
BeginUninstall ==
  /\ uninstall = "idle"
  /\ SetDrain(TRUE)
  /\ uninstall' = IF HeadroomIdle THEN "stopping" ELSE "refused"
  /\ UNCHANGED <<launchState, runState, service, mutating, registry, ends>>

StopForUninstall ==
  /\ uninstall = "stopping"
  /\ uninstall' = "removing"
  /\ service' = [k \in Kinds |-> IF k \in Headrooms THEN Off ELSE service[k]]
  /\ UNCHANGED <<coord, launchState, runState, mutating, registry,
                 ends>>

EndUninstall ==
  /\ uninstall \in {"refused", "removing"}
  /\ uninstall' = "idle"
  /\ SetDrain(FALSE)
  /\ UNCHANGED <<launchState, runState, service, mutating, registry,
                 ends>>

\* The proxy dies, or a launch that does not use Headroom stops it.
ServiceStops(k) ==
  /\ service[k] # Off
  /\ service' = [service EXCEPT ![k] = Off]
  /\ UNCHANGED <<coord, launchState, runState, mutating, uninstall, registry,
                 ends>>

-----------------------------------------------------------------------------
\* App.Shutdown: the fence of the control plane, which waits for sealed
\* launches, then closeSharedLeasesForShutdown, then the services.
ShutdownTo(at) == shutdown' = at /\ UNCHANGED <<stop, watcher>>

Fence ==
  /\ shutdown = "no"
  /\ ShutdownTo("fenced")
  /\ UNCHANGED <<coord, launchState, runState, services, registry>>

ShutdownStep ==
  \/ /\ shutdown = "fenced" /\ sealed = {}
     /\ ShutdownTo("closing")
     /\ hand' = [hand EXCEPT ![Shutdown] = sharedLeases]
     /\ UNCHANGED <<coord, launchState, runState, services, sharedLeases, gate>>
  \/ /\ shutdown = "closing" /\ hand[Shutdown] = {}
     /\ ClearAll
     /\ sharedLeases' = {}
     /\ ShutdownTo("closed")
     /\ UNCHANGED <<launchState, runState, services, hand, gate>>
  \/ /\ shutdown = "closed"
     /\ service' = [k \in Kinds |-> IF k \in Headrooms THEN Off ELSE service[k]]
     /\ ShutdownTo("done")
     /\ UNCHANGED <<coord, launchState, runState, changers, registry>>

-----------------------------------------------------------------------------
LaunchStep(r) ==
  \/ ClaimKind(r) \/ ClaimRefused(r) \/ Fresh(r) \/ Use(r) \/ Effect(r)
  \/ EffectFails(r) \/ Mark(r) \/ Unverified(r) \/ Authorize(r) \/ RawStop(r)
  \/ CloseOld(r) \/ BeginRun(r) \/ StartProcess(r) \/ Lease(r)
  \/ Lend(r) \/ Remember(r) \/ Seal(r) \/ SealFails(r) \/ Owners(r)
  \/ Reserve(r) \/ Commit(r) \/ Unseal(r) \/ Resolve(r)
  \/ Resolved(r) \/ Unlease(r) \/ Unclaim(r) \/ LaunchSweeps(r) \/ Disown(r)
  \/ Untoken(r) \/ Watch(r)

Drops(h) == \E l \in hand[h] : Drop(h, l)

\* The mutations, the uninstalls, a service that stops, a process that exits,
\* what cannot be started or closed, a commit the Manager refuses, StopSession.
Trouble ==
  /\ troubles < MaxTroubles
  /\ troubles' = troubles + 1
  /\ \/ \E r \in Runs : StartFails(r) \/ CloseFails(r) \/ CommitFails(r)
                        \/ ProcessExits(r)
     \/ \E s \in Runs : Stop(s)
     \/ \E k \in Kinds : BeginMutation(k)
     \/ \E k \in Headrooms : ServiceStops(k)
     \/ BeginUninstall

\* A launch asks for configurations of Headroom; it takes the credentials, and
\* what it does not depend on, as they are.
Wanted(w) == [k \in Kinds |-> IF k \in DOMAIN w THEN w[k] ELSE service[k]]

BeginAny ==
  \E r \in Runs :
    /\ MayBegin(r)
    /\ \E how \in Routes, s \in Runs, K \in Plans[r] :
         \E w \in [K \cap Headrooms -> Wishes[r]] : Begin(r, how, s, K, Wanted(w))

Launch(r) == LaunchStep(r) /\ UNCHANGED troubles

RunEnds(r) == OfferExit(r) /\ UNCHANGED troubles

Release(h) == Drops(h) /\ UNCHANGED troubles

StopStep(s) ==
  (StopCommits(s) \/ StopFails(s) \/ StopReleases(s)) /\ UNCHANGED troubles

WatcherStep(s) == Watcher(s) /\ UNCHANGED troubles

Changing ==
  /\ \/ \E k \in Kinds, f \in Configs \cup {Off} : EndMutation(k, f)
     \/ StopForUninstall \/ EndUninstall
  /\ UNCHANGED troubles

Closing == ShutdownStep /\ UNCHANGED troubles

\* What goroutines that run, and a mutex that is let go, carry on.
Work ==
  \/ \E r \in Runs : Launch(r) \/ RunEnds(r)
  \/ \E h \in Releasers : Release(h)
  \/ \E s \in Runs : StopStep(s) \/ WatcherStep(s)
  \/ Closing

Next ==
  \/ Work
  \/ Changing
  \/ Trouble
  \/ (BeginAny \/ Fence) /\ UNCHANGED troubles

\* A launch, a release, a stop and a shutdown have finitely many steps: to be
\* fair to all of them together is to be fair to each.  A mutation and an
\* uninstall may take for ever.
Fairness == WF_vars(Work)

Spec == Init /\ [][Next]_vars /\ Fairness

-----------------------------------------------------------------------------
\* A change of a shared service has it for itself: nobody holds a claim or a
\* lease of a kind under mutation, nor of Headroom while it is uninstalled, and
\* no Headroom runs from the environment that the uninstall removes.
UsersExcludeChanges ==
  ~closed =>
    /\ \A c \in launchAdmissions \cup leases :
         /\ KindOf(c) \notin mutating
         /\ KindOf(c) \in Headrooms => uninstall \notin {"stopping", "removing"}
    /\ uninstall = "removing" => \A k \in Headrooms : service[k] = Off

\* The service runs as c's launch planned, or a proxy does not run.  A desktop
\* launch may have started that proxy for another upstream.
Serves(c) ==
  LET k == KindOf(c)
  IN  \/ service[k] = want[c[1]][k]
      \/ /\ k \in Headrooms
         /\ \/ service[k] = Off
            \/ \E q \in Runs : route[q] = "desktop" /\ k \in needs[q]

\* All who use a kind at a time agree on its configuration: the leases, and
\* the claims that were made for a fingerprint.  What they leased is what runs.
OneConfig ==
  /\ \A l \in leases : Serves(l)
  /\ \A l \in leases : want[l[1]][KindOf(l)] = entries[KindOf(l)]
  /\ \A c \in launchAdmissions, d \in launchAdmissions \cup leases :
       KindOf(c) = KindOf(d) /\ fingerprint[c] # Unbound
         => fingerprint[c] = want[d[1]][KindOf(d)]

\* Somebody has taken on the release of every lease: a pending one belongs to a
\* launch at work, a promoted one is registered, in a releaser's hand, or about
\* to be registered by its launch.
NoOrphanLease ==
  \A l \in leases :
    IF l \in promoted
      THEN \/ l \in sharedLeases
           \/ \E h \in Releasers : l \in hand[h]
           \/ At(l[1], "remember") /\ Kind(l[1]) = KindOf(l)
      ELSE todo[l[1]] # <<>>

\* CommitLeaseTransferNoFail never panics: the fence of a shutdown waits for
\* whoever is about to commit before it clears the coordinator.
CommitFindsItsTicket ==
  \A r \in Runs : At(r, "commit") /\ route[r] # "desktop" => TicketIntact(r)

\* StopSession returns only once no lease of the stopped run is left, whoever
\* was releasing it.
StopDischarges ==
  \A s \in Runs : stop[s][1] = "done" => \A l \in leases : l[1] # stop[s][2]

\* The closed coordinator stays empty.
ClosedStaysEmpty == closed => leases \cup launchAdmissions \cup transactions = {}

\* A launch gives its claims back on every path, while nothing shuts down.
ClaimsAreReleased ==
  shutdown = "no" => \A t \in transactions \ released : todo[t[1]] # <<>>

\* A launch ends, a releaser gets rid of what it holds, so that no lease of an
\* ended run is left, and a stop and a shutdown return: no one waits for ever
\* for a transfer, a sweep, a sealed launch or sharedLeaseMu.
NoOneWaitsForEver ==
  []<>(/\ \A r \in Runs : todo[r] = <<>>
       /\ \A h \in Releasers : hand[h] = {}
       /\ \A l \in leases : proc[l[1]] # "ended"
       /\ \A s \in Runs : stop[s][1] \in {"no", "done"}
       /\ shutdown \in {"no", "done"})
=============================================================================
