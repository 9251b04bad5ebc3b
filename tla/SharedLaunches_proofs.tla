---------------------- MODULE SharedLaunches_proofs ----------------------
EXTENDS LaunchMoves_proofs

(***************************************************************************)
(* The invariants of the shared service coordinator and the launches that  *)
(* use it, for any set of runs, headrooms and configurations, any routes,  *)
(* plans and wishes the constants allow, and any number of troubles.       *)
(*                                                                         *)
(* Each part of SharedInv is preserved by a lemma of its own, named after  *)
(* the part.  Their common argument: a launch that is to do a step has not *)
(* done it yet, so what it has left to do tells what it has claimed,       *)
(* leased and transferred so far, and its list never gets a step back.     *)
(***************************************************************************)

-----------------------------------------------------------------------------
(* The parts of the invariant, one by one                                  *)

\* The head of the list decides which step a launch takes.
LEMMA HeadCases ==
  ASSUME NEW r \in Runs, LaunchAct(r)
  PROVE  /\ todo[r] # <<>>
         /\ At(r, "claim") => ClaimKind(r) \/ ClaimRefused(r)
         /\ At(r, "fresh") => Fresh(r)
         /\ At(r, "effect") => Effect(r) \/ EffectFails(r) \/ StartFails(r)
         /\ At(r, "lease") => Lease(r)
         /\ At(r, "lend") => Lend(r)
         /\ At(r, "remember") => Remember(r)
         /\ At(r, "seal") => Seal(r) \/ SealFails(r)
         /\ At(r, "reserve") => Reserve(r)
         /\ At(r, "commit") => Commit(r) \/ CommitFails(r)
         /\ At(r, "unlease") => Unlease(r)
BY DEF LaunchAct, LaunchStep, At, ClaimKind, ClaimRefused, Fresh, Use, Effect, EffectFails,
   Mark, Unverified, Authorize, RawStop, CloseOld, BeginRun, StartProcess, Lease, Lend,
   Remember, Seal, SealFails, Owners, Reserve, Commit, Unseal, Resolve, Resolved, Unlease,
   Unclaim, LaunchSweeps, Disown, Untoken, Watch, StartFails, CloseFails, CommitFails

\* What the lists of the launches become.
LEMMA ListsMove ==
  ASSUME TypeOK, Programs, Tickets, NEW r \in Runs, LaunchAct(r)
  PROVE  /\ \A q \in Runs \ {r} : todo'[q] = todo[q] /\ Doing(q)' = Doing(q)
         /\ \A q \in Runs : \A x \in Doing(q)' : Rank(x[1]) < 7 =>
              \/ x \in Doing(q)
              \/ q = r /\ x \in {"mark", "verify"} \X needs[r]
         /\ Program(todo'[r])
         /\ route[r] \in {"create", "restart", "desktop"} \/ Proceeds(r) \/ GivesUp(r)
<1>1. Proceeds(r) \/ Backs(r) \/ GivesUp(r)
  BY Moves
<1>2. OthersStay(r) BY <1>1 DEF Proceeds, Backs, GivesUp
<1>3. \A q \in Runs \ {r} : todo'[q] = todo[q] /\ Doing(q)' = Doing(q)
  BY <1>2 DEF OthersStay, Doing, TypeOK
<1>4. GivesUp(r) => Doing(r)' = {} /\ Program(todo'[r])
  BY EmptyProgram DEF GivesUp, Doing
<1>5. \A x \in Doing(r)' : Rank(x[1]) < 7 =>
        x \in Doing(r) \/ x \in {"mark", "verify"} \X needs[r]
  BY <1>1, <1>4 DEF Proceeds, Backs, Ending, Doing
<1>6. Program(todo'[r])
  BY <1>1, <1>4 DEF Proceeds, Backs, Ending
<1>7. Backs(r) => route[r] \in {"create", "restart", "desktop"}
  BY Planned DEF Backs
<1> QED BY <1>1, <1>3, <1>5, <1>6, <1>7

\* The lists stay programs that fit their plans.
LEMMA ProgramsNext ==
  ASSUME TypeOK, Programs, Tickets, Next
  PROVE  Programs'
<1>1. ASSUME NEW r \in Runs, LaunchAct(r) PROVE Programs'
  <2>1. UNCHANGED <<route, needs>> /\ todo[r] # <<>>
    BY <1>1, LaunchFrame, HeadCases
  <2>2. route[r] # "none" BY <2>1 DEF Programs
  <2> QED BY <1>1, <2>1, <2>2, ListsMove DEF Programs
<1>2. ASSUME NEW r, NEW how, NEW s, NEW K, NEW w, Begun(r, how, s, K, w) PROVE Programs'
  <2>1. /\ r \in Runs /\ how # "none" /\ route' = [route EXCEPT ![r] = how]
        /\ needs' = [needs EXCEPT ![r] = K] /\ OthersStay(r) /\ Program(todo'[r])
        /\ Doing(r)' = Forward(how, K)
    BY <1>2 DEF Begun, Begin
  <2>2. \A q \in Runs \ {r} : /\ todo'[q] = todo[q] /\ Doing(q)' = Doing(q)
                              /\ route'[q] = route[q] /\ needs'[q] = needs[q]
    BY <2>1 DEF OthersStay, Doing, TypeOK
  <2>3. route'[r] = how /\ needs'[r] = K BY <2>1 DEF TypeOK
  <2> QED BY <2>1, <2>2, <2>3 DEF Programs
<1>3. CASE Elsewhere
  BY <1>3, ElsewhereFrame DEF Programs, Doing
<1> QED BY <1>1, <1>2, <1>3, NextCases

\* A launch at its commit is sealed, so that shutdown waits for it; its ticket
\* is its own.
LEMMA CommitReady ==
  ASSUME SharedInv, NEW r \in Runs, At(r, "commit")
  PROVE  /\ ~closed /\ r \in sealed /\ route[r] \in {"create", "restart", "desktop"}
         /\ route[r] # "desktop" => TicketIntact(r) /\ ticket[r].new = Mine(r)
<1>1. /\ Step("commit") \in Doing(r)
      /\ Step("reserve") \notin Doing(r) /\ Step("seal") \notin Doing(r)
  BY CommitComes DEF SharedInv
<1>2. r \in sealed BY <1>1 DEF SharedInv, Tickets
<1>3. ~closed BY <1>2 DEF SharedInv, Closed
<1>4. route[r] \in {"create", "restart", "desktop"}
  BY <1>1, Planned DEF SharedInv, Step, Rank
<1>5. ASSUME route[r] # "desktop" PROVE TicketIntact(r) /\ ticket[r].new = Mine(r)
  <2>1. /\ ticket[r].at = "ready" /\ ticket[r].new = Mine(r)
        /\ ticket[r].old \subseteq promoted
        /\ \A l \in ticket[r].old \cup ticket[r].new : <<l, r>> \in leaseTransfers
    BY <1>1, <1>3, <1>5 DEF SharedInv, Tickets
  <2>2. \A k \in Kinds : <<r, k>> \notin promoted
    BY <1>1, <1>5 DEF SharedInv, Tickets
  <2>3. needs[r] \subseteq Kinds BY DEF SharedInv, TypeOK
  <2> QED BY <2>1, <2>2, <2>3 DEF TicketIntact, Mine
<1> QED BY <1>2, <1>3, <1>4, <1>5

\* What a step of a launch does to the coordinator.
LEMMA LaunchEffects ==
  ASSUME SharedInv, NEW r \in Runs, LaunchAct(r)
  PROVE  /\ UNCHANGED <<closed, headroomDraining, mutationAdmissions>>
         /\ \/ launchAdmissions' \subseteq launchAdmissions
            \/ /\ ClaimKind(r)
               /\ launchAdmissions' = launchAdmissions \cup {<<r, Kind(r)>>}
         /\ \A c \in launchAdmissions \ launchAdmissions' :
              /\ c = <<r, Kind(r)>> /\ Kind(r) \in Kinds
              /\ Lease(r) \/ Lend(r) \/ Unclaim(r)
         /\ \/ transactions' \subseteq transactions
            \/ ClaimKind(r) /\ transactions' = transactions \cup {<<r, Kind(r)>>}
         /\ \/ leases' = leases
            \/ Commit(r) /\ route[r] # "desktop" /\ leases' = leases \ ticket[r].old
            \/ Unlease(r) /\ leases' = leases \ {<<r, Kind(r)>>}
            \/ /\ Lease(r) \/ Lend(r)
               /\ <<r, Kind(r)>> \in launchAdmissions
               /\ leases' = leases \cup {<<r, Kind(r)>>}
         /\ \/ promoted' = promoted
            \/ Commit(r) /\ route[r] # "desktop" /\ promoted' = promoted \cup Mine(r)
            \/ Lend(r) /\ promoted' = promoted \cup {<<r, Kind(r)>>}
         /\ fingerprint' = fingerprint \/ ClaimKind(r)
         /\ entries' = entries \/ Lease(r) \/ Lend(r)
         /\ released' \subseteq released \/ Unclaim(r)
         /\ ticket' = ticket \/ Reserve(r) \/ Commit(r) \/ Resolved(r)
         /\ leaseTransfers' = leaseTransfers \/ Reserve(r) \/ Resolved(r)
<1> USE DEF AcquireLaunchAdmission, MarkLaunchTransactionStarted, AuthorizeCompensatingStop,
         AcquireLease, PrepareLeaseTransfer, CommitLeaseTransfer, ResolveLeaseTransfer,
         ReleaseExact, ReleaseLaunchAdmissions, Leasable
<1>0. /\ TypeOK /\ Programs
      /\ \A op : At(r, op) /\ op \in KindSteps => Kind(r) \in Kinds
  BY AtStep DEF SharedInv
<1>1. CASE UNCHANGED coord BY <1>1 DEF coord
<1>2. CASE ClaimKind(r) BY <1>0, <1>2 DEF ClaimKind, KindSteps
<1>3. CASE Mark(r) BY <1>3 DEF Mark, Fails, coord
<1>4. CASE Unverified(r) BY <1>4 DEF Unverified, Fails, coord
<1>5. CASE Authorize(r) BY <1>5 DEF Authorize, coord
<1>6. CASE Lease(r)
  <2>1. Kind(r) \in Kinds BY <1>0, <1>6 DEF Lease, KindSteps
  <2> QED BY <1>6, <2>1 DEF Lease, Fails, coord
<1>7. CASE Lend(r)
  <2>1. Kind(r) \in Kinds BY <1>0, <1>7 DEF Lend, KindSteps
  <2> QED BY <1>7, <2>1 DEF Lend, Fails, coord
<1>8. CASE Reserve(r) BY <1>8 DEF Reserve, Fails, coord
<1>9. CASE Commit(r)
  <2>1. At(r, "commit") BY <1>9 DEF Commit
  <2> QED BY <1>9, <2>1, CommitReady DEF Commit, coord
<1>10. CASE Resolved(r) BY <1>10 DEF Resolved, coord
<1>11. CASE Unlease(r)
  <2>1. Kind(r) \in Kinds BY <1>0, <1>11 DEF Unlease, KindSteps
  <2> QED BY <1>11, <2>1 DEF Unlease
<1>12. CASE Unclaim(r)
  <2>1. Kind(r) \in Kinds BY <1>0, <1>12 DEF Unclaim, KindSteps
  <2> QED BY <1>12, <2>1 DEF Unclaim
<1> QED
  BY <1>1, <1>2, <1>3, <1>4, <1>5, <1>6, <1>7, <1>8, <1>9, <1>10, <1>11, <1>12, LaunchFrame

\* What the other steps do to it.
LEMMA ElsewhereEffects ==
  ASSUME TypeOK, Elsewhere
  PROVE  /\ UNCHANGED <<todo, route, needs, sess, want, sealed, fingerprint, entries, promoted>>
         /\ \/ UNCHANGED <<closed, launchAdmissions, ticket, leaseTransfers>>
            \/ /\ shutdown = "closing" /\ shutdown' = "closed" /\ closed'
               /\ launchAdmissions' \cup transactions' \cup leases' \cup sharedLeases' = {}
         /\ transactions' \subseteq transactions /\ leases' \subseteq leases
         /\ released' \subseteq released
         /\ \A l \in leases \ leases' :
              closed' \/ \E h \in Releasers : l \in hand[h] /\ Drop(h, l)
<1> USE DEF launchState, SetMutation, SetDrain, ReleaseExact, ClearAll
<1>1. UNCHANGED <<todo, route, needs, sess, want, sealed>>
  BY ElsewhereFrame
<1>2. CASE UNCHANGED coord BY <1>1, <1>2 DEF coord
<1>3. ASSUME NEW h \in Releasers, NEW l \in hand[h], Drop(h, l)
      PROVE  /\ UNCHANGED <<fingerprint, entries, promoted, closed, launchAdmissions,
                            ticket, leaseTransfers>>
             /\ transactions' \subseteq transactions /\ leases' = leases \ {l}
             /\ released' \subseteq released
  BY <1>3 DEF Drop
<1>4. ASSUME \/ \E k \in Kinds : BeginMutation(k)
             \/ \E k \in Kinds, f \in Configs \cup {Off} : EndMutation(k, f)
             \/ BeginUninstall \/ EndUninstall
      PROVE  UNCHANGED <<fingerprint, entries, promoted, closed, launchAdmissions, ticket,
                         leaseTransfers, transactions, leases, released>>
  BY <1>4 DEF BeginMutation, EndMutation, BeginUninstall, EndUninstall
<1>5. CASE ShutdownStep
  <2>1. CASE UNCHANGED coord BY <1>2, <2>1
  <2>2. CASE shutdown = "closing" /\ ClearAll /\ sharedLeases' = {} /\ ShutdownTo("closed")
    BY <1>1, <2>2 DEF ShutdownTo
  <2> QED BY <1>5, <2>1, <2>2 DEF ShutdownStep
<1> QED
  BY <1>1, <1>2, <1>3, <1>4, <1>5, ElsewhereFrame

\* The releaser h takes the leases of S in hand.
ReleaseSets(h, S) ==
  \/ \E r \in Runs : h = Exact(r) /\ S = {r} \X Kinds
  \/ \E s \in Runs : h = Whole(s) /\ S = LeasesOfSession(s)

\* How leases move between the registry and the releasers' hands.
LEMMA HandMoves ==
  ASSUME SharedInv, Next
  PROVE  \/ UNCHANGED <<sharedLeases, hand>>
         \/ /\ \E h \in Releasers, S \in SUBSET Claim : Take(h, S) /\ ReleaseSets(h, S)
            /\ UNCHANGED coord
         \/ \E r \in Runs : Remember(r)
         \/ \E r \in Runs : Commit(r) /\ route[r] # "desktop"
         \/ \E h \in Releasers : \E l \in hand[h] : Drop(h, l)
         \/ /\ shutdown = "fenced" /\ shutdown' = "closing" /\ UNCHANGED <<coord, sharedLeases>>
            /\ hand' = [hand EXCEPT ![Shutdown] = sharedLeases]
         \/ /\ shutdown = "closing" /\ shutdown' = "closed" /\ closed' /\ leases' = {}
            /\ sharedLeases' = {} /\ UNCHANGED hand
<1>0. TypeOK BY DEF SharedInv
<1> DEFINE Taken == /\ \E h \in Releasers, S \in SUBSET Claim : Take(h, S) /\ ReleaseSets(h, S)
                    /\ UNCHANGED coord
<1>1. ASSUME NEW r \in Runs
      PROVE  /\ Exact(r) \in Releasers /\ {r} \X Kinds \in SUBSET Claim
             /\ ReleaseSets(Exact(r), {r} \X Kinds)
  BY DEF Releasers, Exact, ReleaseSets, Claim
<1>2. ASSUME NEW s \in Runs
      PROVE  /\ Whole(s) \in Releasers /\ LeasesOfSession(s) \in SUBSET Claim
             /\ ReleaseSets(Whole(s), LeasesOfSession(s))
  BY DEF Releasers, Whole, ReleaseSets, LeasesOfSession
<1>3. ASSUME NEW s \in Runs, NEW who, Sweep(s, who), UNCHANGED coord PROVE Taken
  BY <1>2, <1>3 DEF Sweep
<1>4. ASSUME NEW r \in Runs, Take(Exact(r), {r} \X Kinds), UNCHANGED coord PROVE Taken
  BY <1>1, <1>4
<1>5. ASSUME NEW r \in Runs, LaunchSweeps(r)
      PROVE  Taken \/ UNCHANGED <<sharedLeases, hand>>
  <2>1. UNCHANGED coord /\ sess[r] \in Runs BY <1>0, <1>5 DEF LaunchSweeps, TypeOK
  <2> QED BY <1>3, <1>5, <2>1 DEF LaunchSweeps, Swept
<1>6. ASSUME NEW r \in Runs, Disown(r)
      PROVE  Taken \/ UNCHANGED <<sharedLeases, hand>>
  <2>1. UNCHANGED coord /\ live[sess[r]] \in Runs \cup {None}
    BY <1>0, <1>6 DEF Disown, TypeOK
  <2>2. CASE live[sess[r]] \in Runs BY <1>4, <1>6, <2>1, <2>2 DEF Disown
  <2>3. CASE live[sess[r]] = None
    <3>1. None \notin Runs BY LaunchesAssumption
    <3>2. Exact(None) \notin Releasers BY <3>1 DEF Exact, Releasers, Shutdown
    <3>3. ({None} \X Kinds) \cap sharedLeases = {} BY <1>0, <3>1 DEF TypeOK, Claim
    <3> QED BY <1>0, <1>6, <2>3, <3>2, <3>3 DEF Disown, Take, TypeOK
  <2> QED BY <2>1, <2>2, <2>3
<1>7. ASSUME NEW r \in Runs, Commit(r)
      PROVE  route[r] # "desktop" \/ UNCHANGED <<sharedLeases, hand>>
  BY <1>7 DEF Commit
<1>8. ASSUME NEW r \in Runs, LaunchAct(r)
      PROVE  \/ UNCHANGED <<sharedLeases, hand>>
             \/ Taken \/ Remember(r) \/ (Commit(r) /\ route[r] # "desktop")
  BY <1>5, <1>6, <1>7, <1>8, LaunchFrame
<1>9. ASSUME NEW r \in Runs, OfferExit(r)
      PROVE  Taken \/ UNCHANGED <<sharedLeases, hand>>
  BY <1>4, <1>9 DEF OfferExit, registry
<1>10. ASSUME NEW s \in Runs, StopReleases(s)
       PROVE  Taken \/ UNCHANGED <<sharedLeases, hand>>
  <2>1. UNCHANGED coord BY <1>10 DEF StopReleases
  <2>2. CASE stop[s][1] = "exact" /\ Take(Exact(stop[s][2]), {stop[s][2]} \X Kinds)
    <3>1. stop[s][2] \in Runs BY <2>2 DEF SharedInv, Stopping, RunEnded
    <3> QED BY <1>4, <2>1, <2>2, <3>1
  <2>3. CASE Sweep(s, "stop") BY <1>3, <2>1, <2>3
  <2>4. CASE Swept(s, "stop") BY <2>4 DEF Swept
  <2> QED BY <1>10, <2>2, <2>3, <2>4 DEF StopReleases
<1>11. ASSUME NEW s \in Runs, Watcher(s)
       PROVE  Taken \/ UNCHANGED <<sharedLeases, hand>>
  BY <1>3, <1>11 DEF Watcher, registry, Swept
<1>12. CASE ShutdownStep
  BY <1>12 DEF ShutdownStep, ShutdownTo, registry, ClearAll
<1>13. ASSUME NEW r, NEW how, NEW s, NEW K, NEW w, Begun(r, how, s, K, w)
       PROVE  UNCHANGED <<sharedLeases, hand>>
  BY <1>13 DEF Begun, Begin, registry
<1> HIDE DEF Taken
<1>14. CASE Elsewhere
  BY <1>9, <1>10, <1>11, <1>12, <1>14, ElsewhereFrame DEF Taken
<1> QED BY <1>0, <1>8, <1>13, <1>14, NextCases DEF Taken

\* Whether anything of a claim is left: itself, its lease or its promoted flag,
\* or somebody who is to release it.
Traces(l) ==
  \/ l \in transactions \cup leases \cup promoted \cup sharedLeases
  \/ \E h \in Releasers : l \in hand[h]

\* A launch leaves the first trace of a claim by making it.
LEMMA TracesGrow ==
  ASSUME SharedInv, Next, NEW r \in Runs, NEW k \in Kinds, Traces(<<r, k>>)'
  PROVE  \/ Traces(<<r, k>>)
         \/ ClaimKind(r) /\ Kind(r) = k
         \/ Remember(r) \/ Commit(r)
<1> DEFINE l == <<r, k>>
<1>0. TypeOK BY DEF SharedInv
<1>1. ASSUME l \in transactions' \cup leases' \cup promoted'
      PROVE  \/ l \in transactions \cup leases \cup promoted
             \/ ClaimKind(r) /\ Kind(r) = k
             \/ Commit(r)
  <2>1. ASSUME NEW q \in Runs, LaunchAct(q)
        PROVE  \/ l \in transactions \cup leases \cup promoted
               \/ ClaimKind(r) /\ Kind(r) = k
               \/ Commit(r)
    <3>1. launchAdmissions \subseteq transactions BY <1>0 DEF TypeOK, CoordTypeOK
    <3>2. /\ \/ transactions' \subseteq transactions
             \/ ClaimKind(q) /\ transactions' = transactions \cup {<<q, Kind(q)>>}
          /\ \/ leases' \subseteq leases
             \/ /\ <<q, Kind(q)>> \in launchAdmissions
                /\ Lease(q) \/ Lend(q)
                /\ leases' = leases \cup {<<q, Kind(q)>>}
          /\ \/ promoted' = promoted
             \/ Commit(q) /\ promoted' = promoted \cup Mine(q)
             \/ Lend(q) /\ promoted' = promoted \cup {<<q, Kind(q)>>}
      BY <2>1, LaunchEffects
    <3>3. ASSUME Lend(q) PROVE promoted' = promoted \/ <<q, Kind(q)>> \in launchAdmissions
      BY <3>3 DEF Lend, Leasable, Fails, coord
    <3> QED BY <1>1, <3>1, <3>2, <3>3 DEF Mine
  <2>2. ASSUME NEW q, NEW how, NEW s, NEW K, NEW w, Begun(q, how, s, K, w)
        PROVE  UNCHANGED <<transactions, leases, promoted>>
    BY <2>2 DEF Begun, Begin, coord
  <2>3. CASE Elsewhere
    BY <1>0, <1>1, <2>3, ElsewhereEffects
  <2> QED BY <1>0, <1>1, <2>1, <2>2, <2>3, NextCases
<1>2. ASSUME l \in sharedLeases' \/ \E h \in Releasers : l \in hand'[h]
      PROVE  \/ l \in sharedLeases
             \/ \E h \in Releasers : l \in hand[h]
             \/ Remember(r) \/ Commit(r)
  <2>0. hand \in [Releasers -> SUBSET Claim] BY <1>0 DEF TypeOK
  <2>1. CASE UNCHANGED <<sharedLeases, hand>> BY <1>2, <2>1
  <2>2. ASSUME NEW h \in Releasers, NEW S \in SUBSET Claim, Take(h, S)
        PROVE  l \in sharedLeases \/ \E g \in Releasers : l \in hand[g]
    BY <1>2, <2>0, <2>2 DEF Take
  <2>3. ASSUME NEW q \in Runs, Remember(q)
        PROVE  \/ l \in sharedLeases
               \/ \E h \in Releasers : l \in hand[h]
               \/ Remember(r)
    BY <1>2, <2>3 DEF Remember
  <2>4. ASSUME NEW q \in Runs, Commit(q), route[q] # "desktop"
        PROVE \/ l \in sharedLeases
              \/ \E h \in Releasers : l \in hand[h]
              \/ Commit(r)
    <3>1. ticket[q].new = Mine(q) BY <2>4, CommitReady DEF Commit
    <3>2. sharedLeases' \subseteq sharedLeases \cup Mine(q) /\ UNCHANGED hand
      BY <2>4, <3>1 DEF Commit
    <3>3. l \in Mine(q) => q = r BY DEF Mine
    <3> QED BY <1>2, <2>4, <3>2, <3>3
  <2>5. ASSUME NEW h \in Releasers, NEW m \in hand[h], Drop(h, m)
        PROVE  l \in sharedLeases \/ \E g \in Releasers : l \in hand[g]
    BY <1>2, <2>0, <2>5 DEF Drop
  <2>6. CASE UNCHANGED sharedLeases /\ hand' = [hand EXCEPT ![Shutdown] = sharedLeases]
    BY <1>2, <2>0, <2>6
  <2>7. CASE sharedLeases' = {} /\ UNCHANGED hand
    BY <1>2, <2>7
  <2> QED BY <2>1, <2>2, <2>3, <2>4, <2>5, <2>6, <2>7, HandMoves
<1> QED BY <1>1, <1>2 DEF Traces

\* So a launch that has not claimed a kind has left no trace of it.
LEMMA UnclaimedNext ==
  ASSUME SharedInv, Next
  PROVE  Unclaimed'
<1>0. TypeOK /\ Programs /\ Tickets BY DEF SharedInv
<1> SUFFICES ASSUME NEW r \in Runs, NEW k \in Kinds,
                    route'[r] = "none" \/ <<"claim", k>> \in Doing(r)'
             PROVE  ~Traces(<<r, k>>)'
  BY DEF Unclaimed, Traces
<1>1. route[r] = "none" \/ <<"claim", k>> \in Doing(r)
  <2>1. ASSUME NEW q \in Runs, LaunchAct(q)
        PROVE  route[r] = "none" \/ <<"claim", k>> \in Doing(r)
    <3>1. route' = route BY <2>1, LaunchFrame
    <3>2. <<"claim", k>> \in Doing(r)' => <<"claim", k>> \in Doing(r)
      BY <1>0, <2>1, ListsMove DEF Rank
    <3> QED BY <3>1, <3>2
  <2>2. ASSUME NEW q, NEW how, NEW s, NEW K, NEW w, Begun(q, how, s, K, w)
        PROVE  route[r] = "none" \/ <<"claim", k>> \in Doing(r)
    <3>1. /\ q \in Runs /\ route[q] = "none" /\ OthersStay(q)
          /\ route' = [route EXCEPT ![q] = how]
      BY <2>2 DEF Begun, Begin, MayBegin
    <3> QED BY <1>0, <3>1 DEF OthersStay, TypeOK, Doing
  <2>3. CASE Elsewhere
    BY <2>3, ElsewhereFrame DEF Doing
  <2> QED BY <1>0, <2>1, <2>2, <2>3, NextCases
<1>2. ~Traces(<<r, k>>)
  BY <1>1 DEF SharedInv, Unclaimed, Traces
<1>3. route[r] = "none" => todo[r] = <<>>
  BY <1>0 DEF Programs
<1>4. ASSUME ClaimKind(r), Kind(r) = k PROVE FALSE
  <2>1. todo[r] # <<>> /\ Goes(r) /\ At(r, "claim") /\ UNCHANGED route
    BY <1>4 DEF ClaimKind, At, plan
  <2>2. Head(todo[r]) = <<"claim", k>> BY <1>0, <1>4, <2>1, AtStep DEF KindSteps
  <2>3. <<"claim", k>> \notin Doing(r)'
    BY <1>0, <2>1, <2>2, GoesProceeds DEF Follows
  <2> QED BY <1>3, <2>1, <2>3
<1>5. ASSUME Remember(r) \/ Commit(r) PROVE FALSE
  <2>1. At(r, "remember") \/ At(r, "commit") BY <1>5 DEF Remember, Commit
  <2>2. <<"claim", k>> \notin Doing(r)
    BY <1>0, <2>1, Behind DEF Rank
  <2>3. todo[r] # <<>> BY <2>1 DEF At
  <2> QED BY <1>1, <1>3, <2>2, <2>3
<1> QED BY <1>2, <1>4, <1>5, TracesGrow

\* A claim outlives every use of it: releasing comes last in a program.
LEMMA UsesClaimedNext ==
  ASSUME SharedInv, Next
  PROVE  UsesClaimed'
<1>0. TypeOK /\ Programs /\ Tickets BY DEF SharedInv
<1> SUFFICES ASSUME NEW r \in Runs, NEW k \in Kinds, ~closed',
                    <<"use", k>> \in Doing(r)' \/ <<"effect", k>> \in Doing(r)'
             PROVE  <<"claim", k>> \in Doing(r)' \/ <<r, k>> \in launchAdmissions'
  BY DEF UsesClaimed
<1>1. ASSUME NEW q \in Runs, LaunchAct(q)
      PROVE  <<"claim", k>> \in Doing(r)' \/ <<r, k>> \in launchAdmissions'
  <2>1. <<"use", k>> \in Doing(r) \/ <<"effect", k>> \in Doing(r)
    BY <1>0, <1>1, ListsMove DEF Rank
  <2>2. ~closed BY <1>1, LaunchEffects
  <2>3. <<"claim", k>> \in Doing(r) \/ <<r, k>> \in launchAdmissions
    BY <2>1, <2>2 DEF SharedInv, UsesClaimed
  <2>4. CASE <<r, k>> \in launchAdmissions /\ <<r, k>> \notin launchAdmissions'
    <3>1. <<r, k>> = <<q, Kind(q)>> /\ (Lease(q) \/ Lend(q) \/ Unclaim(q))
      BY <1>1, <2>4, LaunchEffects
    <3>2. At(r, "lease") \/ At(r, "lend") \/ At(r, "unclaim")
      BY <3>1 DEF Lease, Lend, Unclaim
    <3> QED BY <1>0, <2>1, <3>2, Behind DEF Rank
  <2>5. CASE <<"claim", k>> \in Doing(r) /\ <<"claim", k>> \notin Doing(r)'
    <3>1. q = r BY <1>0, <1>1, <2>5, ListsMove
    <3>2. ~Backs(r) /\ ~GivesUp(r)
      BY <2>2, <1>0 DEF Backs, GivesUp, Ending, Doing, Rank
    <3>3. Proceeds(r) BY <1>0, <1>1, <3>1, <3>2, Moves
    <3>4. Head(todo[r]) = <<"claim", k>> /\ todo[r] # <<>>
      BY <2>5, <3>3 DEF Proceeds
    <3>5. At(r, "claim") /\ Kind(r) = k BY <3>4 DEF At, Kind
    <3>6. CASE ClaimKind(r)
      BY <3>5, <3>6 DEF ClaimKind, AcquireLaunchAdmission
    <3>7. CASE ClaimRefused(r)
      BY <1>0, <3>2, <3>4, <3>7, FailsBacks DEF ClaimRefused, Rank
    <3> QED BY <1>1, <3>1, <3>5, <3>6, <3>7, HeadCases
  <2> QED BY <2>3, <2>4, <2>5
<1>2. ASSUME NEW q, NEW how, NEW s, NEW K, NEW w, Begun(q, how, s, K, w)
      PROVE  <<"claim", k>> \in Doing(r)' \/ <<r, k>> \in launchAdmissions'
  <2>1. /\ UNCHANGED <<closed, launchAdmissions>> /\ OthersStay(q)
        /\ Doing(q)' = Forward(how, K) /\ q \in Runs
        /\ how \in {"create", "restart", "desktop"}
    BY <1>2 DEF Begun, Begin, coord
  <2>2. CASE r = q
    BY <2>1, <2>2 DEF Forward, Plain
  <2>3. CASE r # q
    <3>1. Doing(r)' = Doing(r) BY <1>0, <2>1, <2>3 DEF OthersStay, TypeOK, Doing
    <3> QED BY <2>1, <3>1 DEF SharedInv, UsesClaimed
  <2> QED BY <2>2, <2>3
<1>3. CASE Elsewhere
  <2>1. UNCHANGED <<closed, launchAdmissions, todo>>
    BY <1>0, <1>3, ElsewhereEffects
  <2> QED BY <2>1 DEF SharedInv, UsesClaimed, Doing
<1> QED BY <1>0, <1>1, <1>2, <1>3, NextCases

\* Mutations are admitted only when nobody uses the kind, users only when nobody
\* changes it; drain keeps launches out of an uninstall.
LEMMA ExclusionNext ==
  ASSUME SharedInv, Next
  PROVE  Exclusion'
<1>0. TypeOK /\ Programs /\ Tickets BY DEF SharedInv
<1>a. CoordTypeOK /\ service \in [Kinds -> Configs \cup {Off}] /\ mutating \subseteq Kinds
  BY <1>0 DEF TypeOK
<1> SUFFICES ASSUME ~closed'
             PROVE  Exclusion'
  BY DEF Exclusion
<1>1. ASSUME NEW q \in Runs, LaunchAct(q) PROVE Exclusion'
  <2>1. ~closed /\ UNCHANGED <<headroomDraining, mutationAdmissions, mutating, uninstall>>
    BY <1>1, LaunchEffects, LaunchFrame
  <2>2. /\ mutating \subseteq mutationAdmissions
        /\ \A c \in launchAdmissions \cup leases : KindOf(c) \notin mutationAdmissions
        /\ uninstall \in {"stopping", "removing"} => headroomDraining /\ HeadroomIdle
        /\ uninstall = "removing" => \A k \in Headrooms : service[k] = Off
    BY <2>1 DEF SharedInv, Exclusion
  <2>3. \A c \in launchAdmissions' \cup leases' :
          \/ c \in launchAdmissions \cup leases
          \/ /\ KindOf(c) \notin mutationAdmissions
             /\ ~(KindOf(c) \in Headrooms /\ headroomDraining)
    <3>1. leases' \subseteq leases \cup launchAdmissions BY <1>1, LaunchEffects
    <3>2. CASE launchAdmissions' \subseteq launchAdmissions BY <3>1, <3>2
    <3>3. CASE /\ ClaimKind(q)
               /\ launchAdmissions' = launchAdmissions \cup {<<q, Kind(q)>>}
      BY <3>1, <3>3 DEF ClaimKind, Admits, KindOf
    <3> QED BY <1>1, <3>2, <3>3, LaunchEffects
  <2>4. uninstall \in {"stopping", "removing"} => headroomDraining /\ HeadroomIdle'
    <3> SUFFICES ASSUME uninstall \in {"stopping", "removing"}
                 PROVE  headroomDraining /\ HeadroomIdle'
      OBVIOUS
    <3>1. headroomDraining /\ HeadroomIdle BY <2>2
    <3>2. \A c \in launchAdmissions' \cup leases' : KindOf(c) \notin Headrooms
      BY <2>3, <3>1 DEF HeadroomIdle, LeasesOf
    <3> QED BY <2>1, <3>1, <3>2 DEF HeadroomIdle, LeasesOf
  <2>5. uninstall = "removing" => \A k \in Headrooms : service'[k] = Off
    <3> SUFFICES ASSUME uninstall = "removing" PROVE \A k \in Headrooms : service'[k] = Off
      OBVIOUS
    <3>1. \A k \in Headrooms : service[k] = Off /\ k \in Kinds BY <2>2 DEF Kinds
    <3>2. CASE Use(q) \/ Effect(q)
      <4>1. At(q, "use") \/ At(q, "effect") BY <3>2 DEF Use, Effect
      <4>2. /\ Kind(q) \in Kinds
            /\ <<"use", Kind(q)>> \in Doing(q) \/ <<"effect", Kind(q)>> \in Doing(q)
        BY <1>0, <4>1, AtStep DEF KindSteps
      <4>3. <<"claim", Kind(q)>> \notin Doing(q)
        <5>1. \A x \in Doing(q) : x[1] # "claim"
          BY <1>0, <4>1, Behind DEF Rank
        <5> QED BY <5>1
      <4>4. <<q, Kind(q)>> \in launchAdmissions
        BY <2>1, <4>2, <4>3 DEF SharedInv, UsesClaimed
      <4>5. Kind(q) \notin Headrooms
        BY <2>2, <4>4 DEF HeadroomIdle, KindOf
      <4>6. \/ service' = service
            \/ service' = [service EXCEPT ![Kind(q)] = want[q][Kind(q)]]
        BY <3>2 DEF Use, Effect, Fails, services
      <4> QED BY <1>a, <3>1, <4>5, <4>6
    <3>3. CASE RawStop(q)
      BY <1>a, <3>1, <3>3 DEF RawStop
    <3>4. CASE service' = service BY <3>1, <3>4
    <3> QED BY <1>1, <3>2, <3>3, <3>4, LaunchFrame
  <2> QED BY <2>1, <2>2, <2>3, <2>4, <2>5 DEF Exclusion
<1>2. ASSUME NEW q, NEW how, NEW s, NEW K, NEW w, Begun(q, how, s, K, w) PROVE Exclusion'
  <2>1. UNCHANGED <<coord, services>> BY <1>2 DEF Begun, Begin
  <2> QED BY <2>1 DEF SharedInv, Exclusion, HeadroomIdle, LeasesOf, coord, services, changers
<1>3. CASE Elsewhere
  <2>1. ~closed /\ UNCHANGED launchAdmissions
    BY <1>0, <1>3, ElsewhereEffects DEF SharedInv, Closed
  <2>2. /\ mutating \subseteq mutationAdmissions
        /\ \A c \in launchAdmissions \cup leases : KindOf(c) \notin mutationAdmissions
        /\ uninstall \in {"stopping", "removing"} => headroomDraining /\ HeadroomIdle
        /\ uninstall = "removing" => \A k \in Headrooms : service[k] = Off
    BY <2>1 DEF SharedInv, Exclusion
  <2>3. ASSUME NEW k \in Kinds, BeginMutation(k) PROVE Exclusion'
    <3>1. /\ Mutable(k) /\ mutating' = mutating \cup {k}
          /\ mutationAdmissions' = mutationAdmissions \cup {k}
          /\ UNCHANGED <<launchAdmissions, leases, headroomDraining, uninstall, service>>
      BY <2>3 DEF BeginMutation, SetMutation
    <3>2. HeadroomIdle /\ ~(k \in Headrooms) => HeadroomIdle'
      BY <3>1 DEF HeadroomIdle, LeasesOf
    <3> QED BY <2>2, <3>1, <3>2 DEF Exclusion, Mutable, LeasesOf
  <2>4. ASSUME NEW k \in Kinds, NEW f \in Configs \cup {Off}, EndMutation(k, f) PROVE Exclusion'
    <3>1. /\ k \in mutating /\ mutating' = mutating \ {k}
          /\ mutationAdmissions' = mutationAdmissions \ {k}
          /\ service' = [service EXCEPT ![k] = f]
          /\ UNCHANGED <<launchAdmissions, leases, headroomDraining, uninstall>>
      BY <2>4 DEF EndMutation, SetMutation
    <3>2. HeadroomIdle => HeadroomIdle' /\ k \notin Headrooms
      BY <2>2, <3>1 DEF HeadroomIdle, LeasesOf
    <3>3. \A m \in Kinds \ {k} : service'[m] = service[m] BY <1>a, <3>1
    <3> QED BY <2>2, <3>1, <3>2, <3>3 DEF Exclusion, Kinds
  <2>5. CASE BeginUninstall \/ StopForUninstall \/ EndUninstall
    <3>1. UNCHANGED <<launchAdmissions, leases, mutationAdmissions, mutating>>
      BY <2>5 DEF BeginUninstall, StopForUninstall, EndUninstall, SetDrain, coord
    <3>2. HeadroomIdle' = HeadroomIdle BY <3>1 DEF HeadroomIdle, LeasesOf
    <3>3. CASE BeginUninstall BY <2>2, <3>1, <3>2, <3>3 DEF BeginUninstall, SetDrain, Exclusion
    <3>4. CASE StopForUninstall
      <4>1. headroomDraining' = headroomDraining /\ \A k \in Headrooms : service'[k] = Off
        BY <3>4 DEF StopForUninstall, coord, Kinds
      <4> QED BY <2>2, <3>1, <3>2, <3>4, <4>1 DEF StopForUninstall, Exclusion
    <3>5. CASE EndUninstall BY <2>2, <3>1, <3>2, <3>5 DEF EndUninstall, SetDrain, Exclusion
    <3> QED BY <2>5, <3>3, <3>4, <3>5
  <2>6. CASE ShutdownStep
    <3>1. UNCHANGED <<coord, services>>
      BY <2>1, <2>6 DEF ShutdownStep, ClearAll, SharedInv, Closed
    <3> QED BY <2>2, <3>1 DEF coord, services, changers, Exclusion, HeadroomIdle, LeasesOf
  <2>7. ASSUME NEW k \in Headrooms, ServiceStops(k) PROVE Exclusion'
    <3>1. service' = [service EXCEPT ![k] = Off] /\ UNCHANGED <<coord, mutating, uninstall>>
      BY <2>7 DEF ServiceStops
    <3>2. \A m \in Headrooms : service[m] = Off => service'[m] = Off
      BY <1>a, <3>1 DEF Kinds
    <3> QED BY <2>2, <3>1, <3>2 DEF coord, Exclusion, HeadroomIdle, LeasesOf
  <2>8. ASSUME NEW h \in Releasers, NEW l \in hand[h], Drop(h, l) PROVE Exclusion'
    <3>1. /\ leases' \subseteq leases
          /\ UNCHANGED <<launchAdmissions, mutationAdmissions, headroomDraining, mutating,
                         uninstall, service>>
      BY <2>8 DEF Drop, ReleaseExact, services, changers
    <3>2. HeadroomIdle => HeadroomIdle' BY <3>1 DEF HeadroomIdle, LeasesOf
    <3> QED BY <2>2, <3>1, <3>2 DEF Exclusion
  <2>9. CASE UNCHANGED <<coord, service, mutating, uninstall>>
    BY <2>2, <2>9 DEF coord, Exclusion, HeadroomIdle, LeasesOf
  <2> QED BY <1>3, <2>3, <2>4, <2>5, <2>6, <2>7, <2>8, <2>9, ElsewhereFrame
<1> QED BY <1>0, <1>1, <1>2, <1>3, NextCases

\* Nothing enters a closed coordinator.
LEMMA ClosedNext ==
  ASSUME SharedInv, Next
  PROVE  Closed'
<1>0. TypeOK /\ CoordTypeOK /\ Closed BY DEF SharedInv, TypeOK
<1>1. ASSUME NEW q \in Runs, LaunchAct(q)
      PROVE  /\ UNCHANGED <<closed, shutdown>>
             /\ closed => launchAdmissions' \cup transactions' \cup leases' = {}
             /\ sealed' \subseteq sealed \/ shutdown = "no"
  <2>1. UNCHANGED <<closed, shutdown>> BY <1>1, LaunchEffects, LaunchFrame
  <2>2. closed => ~ClaimKind(q) BY DEF ClaimKind, Admits
  <2>3. ASSUME closed PROVE launchAdmissions' \cup transactions' \cup leases' = {}
    BY <1>0, <1>1, <2>2, <2>3, LaunchEffects DEF Closed
  <2>4. sealed' \subseteq sealed \/ shutdown = "no"
    BY <1>1, LaunchFrame DEF Seal, Unseal, Fenced
  <2> QED BY <2>1, <2>3, <2>4
<1>2. ASSUME NEW q, NEW how, NEW s, NEW K, NEW w, Begun(q, how, s, K, w)
      PROVE  UNCHANGED <<closed, shutdown, launchAdmissions, transactions, leases, sealed>>
  BY <1>2 DEF Begun, Begin, coord, ends
<1>3. ASSUME Elsewhere
      PROVE  /\ UNCHANGED sealed
             /\ \/ /\ UNCHANGED <<closed, launchAdmissions>>
                   /\ transactions' \subseteq transactions /\ leases' \subseteq leases
                \/ /\ shutdown = "closing" /\ shutdown' = "closed" /\ closed'
                   /\ launchAdmissions' \cup transactions' \cup leases' = {}
             /\ \/ shutdown' = shutdown
                \/ shutdown = "no" /\ shutdown' = "fenced"
                \/ shutdown = "fenced" /\ shutdown' = "closing" /\ sealed = {}
                \/ shutdown = "closing" /\ shutdown' = "closed" /\ closed'
                \/ shutdown = "closed" /\ shutdown' = "done"
  <2>1. shutdown' = shutdown \/ Fence \/ ShutdownStep BY <1>3, ElsewhereFrame
  <2>2. \/ shutdown' = shutdown
        \/ shutdown = "no" /\ shutdown' = "fenced"
        \/ shutdown = "fenced" /\ shutdown' = "closing" /\ sealed = {}
        \/ shutdown = "closing" /\ shutdown' = "closed" /\ closed'
        \/ shutdown = "closed" /\ shutdown' = "done"
    BY <2>1 DEF Fence, ShutdownStep, ShutdownTo, ClearAll
  <2> QED BY <1>0, <1>3, <2>2, ElsewhereEffects
<1>4. ASSUME shutdown' \in {"no", "fenced"} PROVE hand'[Shutdown] = {}
  <2>1. shutdown \in {"no", "fenced"} /\ shutdown' # "closing"
    BY <1>0, <1>1, <1>2, <1>3, <1>4, NextCases
  <2>2. hand[Shutdown] = {} /\ Shutdown \in Releasers /\ hand \in [Releasers -> SUBSET Claim]
    BY <1>0, <2>1 DEF Closed, Releasers, TypeOK
  <2>3. ASSUME NEW h \in Releasers, NEW S \in SUBSET Claim, Take(h, S), ReleaseSets(h, S)
        PROVE  hand'[Shutdown] = {}
    <3>1. h # Shutdown BY <2>3 DEF ReleaseSets, Shutdown, Exact, Whole
    <3> QED BY <2>2, <2>3, <3>1 DEF Take
  <2>4. ASSUME NEW r \in Runs, Remember(r) \/ Commit(r) PROVE hand'[Shutdown] = {}
    BY <2>2, <2>4 DEF Remember, Commit
  <2>5. ASSUME NEW h \in Releasers, NEW l \in hand[h], Drop(h, l) PROVE hand'[Shutdown] = {}
    BY <2>2, <2>5 DEF Drop
  <2> QED BY <2>1, <2>2, <2>3, <2>4, <2>5, HandMoves
<1>5. CASE \E q \in Runs : LaunchAct(q) BY <1>0, <1>1, <1>4, <1>5 DEF Closed
<1>6. CASE \E q, how, s, K, w : Begun(q, how, s, K, w) BY <1>0, <1>2, <1>4, <1>6 DEF Closed
<1>7. CASE Elsewhere BY <1>0, <1>3, <1>4, <1>7 DEF Closed
<1> QED BY <1>0, <1>5, <1>6, <1>7, NextCases

\* A claim is a run and a kind.
LEMMA ClaimParts ==
  /\ \A c \in Claim : /\ c[1] \in Runs /\ c[2] \in Kinds /\ KindOf(c) = c[2]
                     /\ c = <<c[1], c[2]>>
  /\ \A r, k, q, m : <<r, k>> = <<q, m>> => r = q /\ k = m
BY DEF Claim, KindOf

\* A launch that has not begun claims and leases nothing.
LEMMA NotBegun ==
  ASSUME SharedInv, NEW q \in Runs, route[q] = "none"
  PROVE  \A c \in launchAdmissions \cup transactions \cup leases : c \in Claim /\ c[1] # q
<1>1. /\ launchAdmissions \subseteq transactions /\ transactions \subseteq Claim
      /\ leases \subseteq Claim
  BY DEF SharedInv, TypeOK, CoordTypeOK
<1>2. \A k \in Kinds : <<q, k>> \notin transactions \cup leases
  BY DEF SharedInv, Unclaimed
<1> QED BY <1>1, <1>2, ClaimParts

\* Fingerprints are bound once and agree, also with the leases of the kind.
LEMMA AgreementNext ==
  ASSUME SharedInv, Next
  PROVE  Agreement'
<1>0. TypeOK /\ CoordTypeOK /\ Programs /\ Tickets /\ Agreement BY DEF SharedInv, TypeOK
<1>1. ASSUME NEW q \in Runs, LaunchAct(q) PROVE Agreement'
  <2>0. want \in [Runs -> [Kinds -> Configs \cup {Off}]] BY <1>0 DEF TypeOK
  <2>1. CASE ClaimKind(q)
    <3> DEFINE k == Kind(q)
               c0 == <<q, k>>
               f == IF route[q] = "desktop" /\ k \in Headrooms THEN Unbound ELSE want[q][k]
    <3>1. /\ At(q, "claim") /\ Admits(k, f)
          /\ launchAdmissions' = launchAdmissions \cup {c0}
          /\ fingerprint' = [fingerprint EXCEPT ![c0] = f]
          /\ UNCHANGED <<released, leases, entries, want>>
      BY <2>1 DEF ClaimKind, AcquireLaunchAdmission, plan
    <3>2. k \in Kinds /\ <<"claim", k>> \in Doing(q) BY <1>0, <3>1, AtStep DEF KindSteps
    <3>3. c0 \in Claim /\ KindOf(c0) = k /\ c0[1] = q BY <3>2 DEF Claim, KindOf
    <3>4. c0 \notin transactions \cup leases
      BY <3>2 DEF SharedInv, Unclaimed
    <3>5. \A c \in launchAdmissions : /\ c \in Claim /\ c # c0 /\ fingerprint'[c] = fingerprint[c]
                                      /\ c \in transactions \ released
      BY <1>0, <3>1, <3>4 DEF CoordTypeOK, Agreement
    <3>6. fingerprint'[c0] = f /\ c0 \notin released
      BY <1>0, <3>1, <3>3, <3>4 DEF CoordTypeOK
    <3>7. /\ \A c \in launchAdmissions : KindOf(c) = k => fingerprint[c] = f
          /\ f # Unbound => f = want[q][k]
          /\ \A l \in leases : KindOf(l) = k /\ f # Unbound => entries[k] = f
      BY <3>1, <3>5 DEF Admits, LeasesOf
    <3> HIDE DEF c0, k, f
    <3> QED BY <1>0, <3>1, <3>3, <3>4, <3>5, <3>6, <3>7 DEF Agreement
  <2>2. CASE Lease(q) \/ Lend(q)
    <3>1. CASE UNCHANGED <<coord, want>> BY <1>0, <3>1 DEF Agreement, coord
    <3>2. CASE ~UNCHANGED <<coord, want>>
      <4> DEFINE k == Kind(q)
                 c0 == <<q, k>>
                 f == IF Lease(q) THEN want[q][k] ELSE service[k]
      <4>0. At(q, "lease") \/ At(q, "lend") BY <2>2 DEF Lease, Lend
      <4>1. k \in Kinds BY <1>0, <4>0, AtStep DEF KindSteps
      <4>2. /\ Leasable(c0, f)
            /\ launchAdmissions' = launchAdmissions \ {c0} /\ leases' = leases \cup {c0}
            /\ entries' = [entries EXCEPT ![KindOf(c0)] = f]
            /\ UNCHANGED <<fingerprint, released>>
        BY <2>2, <3>2 DEF Lease, Lend, Fails, AcquireLease, plan
      <4>3. want' = [want EXCEPT ![q][k] = f]
        <5>1. CASE Lease(q) BY <2>0, <3>2, <4>1, <5>1 DEF Lease, Fails, plan
        <5>2. CASE Lend(q) /\ ~Lease(q) BY <3>2, <5>2 DEF Lend, Fails
        <5> QED BY <2>2, <5>1, <5>2
      <4> HIDE DEF f
      <4>4. c0 \in Claim /\ KindOf(c0) = k /\ c0[1] = q BY <4>1 DEF Claim, KindOf
      <4>5. /\ want'[q][k] = f
            /\ \A c \in Claim \ {c0} : want'[c[1]][KindOf(c)] = want[c[1]][KindOf(c)]
        BY <2>0, <4>1, <4>3 DEF Claim, KindOf
      <4>6. /\ entries'[k] = f /\ \A m \in Kinds \ {k} : entries'[m] = entries[m]
            /\ \A l \in leases : KindOf(l) = k => entries[k] = f
            /\ fingerprint[c0] \in {Unbound, f} /\ c0 \in launchAdmissions
        BY <1>0, <4>1, <4>2, <4>4 DEF CoordTypeOK, Leasable, LeasesOf
      <4>7. \A c \in launchAdmissions \cup leases : c \in Claim /\ KindOf(c) \in Kinds
        BY <1>0 DEF CoordTypeOK, Claim, KindOf
      <4>8. \A c \in launchAdmissions \cup leases :
              /\ KindOf(c) = k => entries'[KindOf(c)] = f
              /\ KindOf(c) # k => entries'[KindOf(c)] = entries[KindOf(c)]
        BY <4>6, <4>7
      <4> HIDE DEF c0, k
      <4>9. \A c \in launchAdmissions' :
              /\ fingerprint'[c] # Unbound => fingerprint'[c] = want'[c[1]][KindOf(c)]
              /\ c \in launchAdmissions /\ fingerprint'[c] = fingerprint[c]
        BY <1>0, <4>2, <4>5, <4>7 DEF Agreement
      <4>10. \A l \in leases' : want'[l[1]][KindOf(l)] = entries'[KindOf(l)]
        BY <1>0, <4>2, <4>4, <4>5, <4>6, <4>7, <4>8 DEF Agreement
      <4>11. \A c \in launchAdmissions', l \in leases' :
               KindOf(c) = KindOf(l) /\ fingerprint'[c] # Unbound
                 => fingerprint'[c] = entries'[KindOf(l)]
        <5> SUFFICES ASSUME NEW c \in launchAdmissions', NEW l \in leases',
                            KindOf(c) = KindOf(l), fingerprint[c] # Unbound
                     PROVE  fingerprint[c] = entries'[KindOf(l)]
          BY <4>9
        <5>1. CASE KindOf(c) = k
          BY <1>0, <4>4, <4>6, <4>8, <4>9, <5>1 DEF Agreement
        <5>2. CASE KindOf(c) # k
          BY <1>0, <4>2, <4>4, <4>8, <4>9, <5>2 DEF Agreement
        <5> QED BY <5>1, <5>2
      <4>12. launchAdmissions' \cap (released' \cup leases') = {}
        BY <1>0, <4>2 DEF Agreement
      <4> QED BY <1>0, <4>2, <4>9, <4>10, <4>11, <4>12 DEF Agreement
    <3> QED BY <3>1, <3>2
  <2>3. CASE ~(ClaimKind(q) \/ Lease(q) \/ Lend(q))
    <3>1. /\ launchAdmissions' \subseteq launchAdmissions /\ leases' \subseteq leases
          /\ UNCHANGED <<fingerprint, entries, want>>
          /\ released' \subseteq released \/ Unclaim(q)
      BY <1>1, <2>3, LaunchEffects, LaunchFrame
    <3>2. launchAdmissions' \cap released' = {}
      BY <1>0, <3>1 DEF Agreement, Unclaim, ReleaseLaunchAdmissions
    <3> QED BY <1>0, <3>1, <3>2 DEF Agreement
  <2> QED BY <2>1, <2>2, <2>3
<1>2. ASSUME NEW q, NEW how, NEW s, NEW K, NEW w, Begun(q, how, s, K, w) PROVE Agreement'
  <2>1. /\ q \in Runs /\ route[q] = "none" /\ want' = [want EXCEPT ![q] = w]
        /\ UNCHANGED <<fingerprint, entries, launchAdmissions, leases, released>>
    BY <1>2 DEF Begun, Begin, MayBegin, coord
  <2>2. \A c \in launchAdmissions \cup leases : c \in Claim /\ c[1] \in Runs
    BY <1>0, ClaimParts DEF CoordTypeOK
  <2>3. \A c \in launchAdmissions \cup leases : c[1] # q
    BY <2>1, NotBegun
  <2>4. \A c \in launchAdmissions \cup leases : want'[c[1]] = want[c[1]]
    BY <1>0, <2>1, <2>2, <2>3 DEF TypeOK
  <2> QED BY <1>0, <2>1, <2>4 DEF Agreement
<1>3. CASE Elsewhere
  <2>1. /\ UNCHANGED <<fingerprint, entries, want>> /\ leases' \subseteq leases
        /\ launchAdmissions' \subseteq launchAdmissions /\ released' \subseteq released
    BY <1>0, <1>3, ElsewhereEffects
  <2> QED BY <1>0, <2>1 DEF Agreement
<1> QED BY <1>0, <1>1, <1>2, <1>3, NextCases

\* A service that somebody has claimed or leased keeps serving him: others
\* find it running, or start it for the same configuration.
LEMMA ServiceKeeps ==
  ASSUME SharedInv, Next, NEW r \in Runs, NEW k \in Kinds,
         <<r, k>> \in launchAdmissions \cup leases, Serves(<<r, k>>)
  PROVE  Serves(<<r, k>>)'
<1>0. /\ TypeOK /\ CoordTypeOK /\ Programs /\ Tickets /\ ~closed
      /\ service \in [Kinds -> Configs \cup {Off}]
      /\ want \in [Runs -> [Kinds -> Configs \cup {Off}]]
      /\ Headrooms \subseteq Kinds
  BY DEF SharedInv, TypeOK, Closed, Kinds
<1>1. \/ service[k] = want[r][k]
      \/ k \in Headrooms /\ (service[k] = Off
                               \/ \E q \in Runs : route[q] = "desktop" /\ k \in needs[q])
  BY DEF Serves, KindOf
<1> SUFFICES \/ service'[k] = want'[r][k]
             \/ k \in Headrooms /\ (service'[k] = Off
                  \/ \E q \in Runs : route'[q] = "desktop" /\ k \in needs'[q])
  BY DEF Serves, KindOf
<1>2. ASSUME NEW q \in Runs, LaunchAct(q)
      PROVE  \/ service'[k] = want'[r][k]
             \/ k \in Headrooms /\ (service'[k] = Off
                  \/ \E p \in Runs : route'[p] = "desktop" /\ k \in needs'[p])
  <2>1. UNCHANGED <<route, needs>> BY <1>2, LaunchFrame
  <2>2. CASE UNCHANGED <<service, want>> BY <1>1, <2>1, <2>2
  <2>3. CASE Lend(q) /\ ~UNCHANGED want
    <3>1. service' = service /\ want' = [want EXCEPT ![q][Kind(q)] = service[Kind(q)]]
      BY <2>3 DEF Lend, Fails, services
    <3>2. Kind(q) \in Kinds BY <1>0, <2>3, AtStep DEF Lend, KindSteps
    <3> QED BY <1>0, <1>1, <2>1, <3>1, <3>2
  <2>4. CASE Use(q) /\ ~UNCHANGED service
    <3>1. /\ At(q, "use") /\ want' = want
          /\ service' = [service EXCEPT ![Kind(q)] = want[q][Kind(q)]]
      BY <2>4 DEF Use, Fails, services, plan
    <3>2. /\ Kind(q) \in needs[q] /\ Kind(q) \in Headrooms
          /\ <<"use", Kind(q)>> \in Doing(q)
      <4>1. "use" \in KindSteps /\ "use" \in HeadroomSteps /\ Rank("use") < 7
        BY DEF KindSteps, HeadroomSteps, Rank
      <4> QED BY <1>0, <3>1, <4>1, AtStep
    <3>3. route[q] = "desktop" BY <1>0, <3>2, Planned DEF Forward, Plain, Rank
    <3> QED BY <1>0, <1>1, <2>1, <3>1, <3>2, <3>3
  <2>5. CASE Effect(q) /\ ~UNCHANGED service
    <3>1. /\ At(q, "effect") /\ want' = want
          /\ service' = [service EXCEPT ![Kind(q)] = want[q][Kind(q)]]
      BY <2>5 DEF Effect, plan
    <3>2. Kind(q) \in Kinds /\ <<"effect", Kind(q)>> \in Doing(q)
      BY <1>0, <3>1, AtStep DEF KindSteps
    <3>3. route[q] # "desktop" BY <1>0, <3>2, Planned DEF Forward, Plain, Rank
    <3>4. <<q, Kind(q)>> \in launchAdmissions
      <4>1. <<"claim", Kind(q)>> \notin Doing(q) BY <1>0, <3>1, Behind DEF Rank
      <4>2. UsesClaimed BY DEF SharedInv
      <4> QED BY <1>0, <3>2, <4>1, <4>2 DEF UsesClaimed
    <3>5. /\ fingerprint[<<q, Kind(q)>>] = want[q][Kind(q)]
          /\ fingerprint[<<q, Kind(q)>>] # Unbound
      <4>1. Fitting BY DEF SharedInv
      <4>2. fingerprint[<<q, Kind(q)>>] = want[q][Kind(q)]
        BY <3>2, <3>3, <3>4, <4>1 DEF Fitting
      <4>3. want[q][Kind(q)] \in Configs \cup {Off} BY <1>0, <3>2
      <4> QED BY <4>2, <4>3, KindsAssumption
    <3>6. ASSUME k = Kind(q) PROVE want[q][k] = want[r][k]
      <4>1. Agreement BY DEF SharedInv
      <4>2. CASE <<r, k>> \in leases
        <5>1. want[r][k] = entries[k] BY <4>1, <4>2 DEF Agreement, KindOf
        <5>2. fingerprint[<<q, k>>] = entries[k]
          BY <3>4, <3>5, <3>6, <4>1, <4>2 DEF Agreement, KindOf
        <5> QED BY <3>5, <3>6, <5>1, <5>2
      <4>3. CASE <<r, k>> \in launchAdmissions
        <5>1. fingerprint[<<q, k>>] = fingerprint[<<r, k>>]
          BY <3>4, <3>6, <4>1, <4>3 DEF Agreement, KindOf
        <5>2. fingerprint[<<r, k>>] = want[r][k]
          BY <3>5, <3>6, <4>1, <4>3, <5>1 DEF Agreement, KindOf
        <5> QED BY <3>5, <3>6, <5>1, <5>2
      <4> QED BY <4>2, <4>3
    <3> QED BY <1>0, <1>1, <2>1, <3>1, <3>2, <3>6
  <2>6. CASE RawStop(q)
    <3>1. /\ At(q, "stop") /\ want' = want
          /\ service' = [service EXCEPT ![Kind(q)] = Off]
      BY <2>6 DEF RawStop, plan
    <3>2. Kind(q) \in Headrooms BY <1>0, <3>1, AtStep DEF HeadroomSteps
    <3> QED BY <1>0, <1>1, <2>1, <3>1, <3>2
  <2>7. UNCHANGED service \/ Use(q) \/ Effect(q) \/ RawStop(q) BY <1>2, LaunchFrame
  <2>8. UNCHANGED want \/ Lend(q) BY <1>2, LaunchFrame
  <2>9. Lend(q) => UNCHANGED service BY DEF Lend, Fails, services
  <2> QED BY <2>2, <2>3, <2>4, <2>5, <2>6, <2>7, <2>8, <2>9
<1>3. ASSUME NEW q, NEW how, NEW s, NEW K, NEW w, Begun(q, how, s, K, w)
      PROVE  \/ service'[k] = want'[r][k]
             \/ k \in Headrooms /\ (service'[k] = Off
                  \/ \E p \in Runs : route'[p] = "desktop" /\ k \in needs'[p])
  <2>1. /\ q \in Runs /\ route[q] = "none" /\ route' = [route EXCEPT ![q] = how]
        /\ needs' = [needs EXCEPT ![q] = K] /\ want' = [want EXCEPT ![q] = w]
        /\ service' = service
    BY <1>3 DEF Begun, Begin, MayBegin, services
  <2>2. r # q
    <3>1. \A c \in launchAdmissions \cup leases : c[1] # q BY <2>1, NotBegun
    <3> QED BY <3>1
  <2>3. want'[r][k] = want[r][k] BY <1>0, <2>1, <2>2
  <2>4. \A p \in Runs : route[p] = "desktop" => route'[p] = route[p] /\ needs'[p] = needs[p]
    BY <1>0, <2>1 DEF TypeOK
  <2> QED BY <1>1, <2>1, <2>3, <2>4
<1>4. CASE Elsewhere
  <2>1. UNCHANGED <<route, needs, want>> BY <1>4, ElsewhereFrame
  <2>2. CASE UNCHANGED service BY <1>1, <2>1, <2>2
  <2>3. CASE StopForUninstall
    BY <1>0, <1>1, <2>1, <2>3 DEF StopForUninstall
  <2>4. CASE ShutdownStep
    <3>1. UNCHANGED service
      BY <1>0, <2>4 DEF ShutdownStep, services, SharedInv, Closed
    <3> QED BY <2>2, <3>1
  <2>5. ASSUME NEW m \in Headrooms, ServiceStops(m)
        PROVE  service'[k] = service[k] \/ (k \in Headrooms /\ service'[k] = Off)
    BY <1>0, <2>5 DEF ServiceStops
  <2>6. ASSUME NEW m \in Kinds, NEW f \in Configs \cup {Off}, EndMutation(m, f)
        PROVE  service'[k] = service[k]
    <3>1. m \in mutationAdmissions BY <1>0, <2>6 DEF EndMutation, SharedInv, Exclusion
    <3>2. k \notin mutationAdmissions
      BY <1>0 DEF SharedInv, Exclusion, KindOf
    <3> QED BY <1>0, <2>6, <3>1, <3>2 DEF EndMutation
  <2> QED BY <1>1, <1>4, <2>1, <2>2, <2>3, <2>4, <2>5, <2>6, ElsewhereFrame
<1> QED BY <1>0, <1>2, <1>3, <1>4, NextCases

\* What a launch leases has been checked under its claim.
LEMMA FittingNext ==
  ASSUME SharedInv, Next
  PROVE  Fitting'
<1>0. TypeOK /\ CoordTypeOK /\ Programs /\ Tickets /\ Fitting BY DEF SharedInv, TypeOK
<1>1. ASSUME NEW q \in Runs, LaunchAct(q), NEW r \in Runs, NEW k \in Kinds
      PROVE  /\ route'[r] # "desktop" /\ <<"claim", k>> \in Doing(r)' => Check(k) \in Doing(r)'
             /\ route'[r] # "desktop" /\ <<r, k>> \in launchAdmissions'
                  => fingerprint'[<<r, k>>] = want'[r][k]
             /\ <<r, k>> \in launchAdmissions' /\ <<"lease", k>> \in Doing(r)'
                /\ Check(k) \notin Doing(r)'
                  => Serves(<<r, k>>)'
             /\ <<r, k>> \in leases' => Serves(<<r, k>>)'
  <2>0. /\ Check(k)[1] \in {"effect", "fresh"} /\ Check(k)[2] = k
        /\ Check(k) = <<Check(k)[1], k>> /\ Rank(Check(k)[1]) < 3
    BY DEF Check, Rank
  <2>1. UNCHANGED route BY <1>1, LaunchFrame
  <2>2. \A x \in {<<"claim", k>>, <<"lease", k>>, Check(k)} :
          x \in Doing(r)' => x \in Doing(r)
    BY <1>0, <1>1, <2>0, ListsMove DEF Rank
  <2>3. ASSUME <<"claim", k>> \in Doing(r)' \/ <<"lease", k>> \in Doing(r)',
               Check(k) \in Doing(r), Check(k) \notin Doing(r)'
        PROVE  /\ q = r /\ ~Fails(r)
               /\ todo[r] # <<>> /\ Head(todo[r]) = Check(k)
    <3>1. q = r BY <1>0, <1>1, <2>3, ListsMove
    <3>2. ~Backs(r) /\ ~GivesUp(r)
      BY <1>0, <2>3 DEF Backs, GivesUp, Ending, Doing, Rank, ToSet
    <3>3. Proceeds(r) BY <1>0, <1>1, <3>1, <3>2, Moves
    <3>4. todo[r] # <<>> /\ Head(todo[r]) = Check(k) BY <2>3, <3>3 DEF Proceeds
    <3>5. ~Fails(r)
      <4>1. Rank(Head(todo[r])[1]) < 7 BY <2>0, <3>4 DEF Rank
      <4> QED BY <1>0, <3>2, <3>4, <4>1, FailsBacks
    <3> QED BY <3>1, <3>4, <3>5
  <2>4. ASSUME route'[r] # "desktop", <<"claim", k>> \in Doing(r)'
        PROVE  Check(k) \in Doing(r)'
    <3>1. Check(k) \in Doing(r) BY <1>0, <2>1, <2>2, <2>4 DEF Fitting
    <3> SUFFICES ASSUME Check(k) \notin Doing(r)' PROVE FALSE
      OBVIOUS
    <3>2. /\ q = r /\ ~Fails(r) /\ todo[r] # <<>> /\ Head(todo[r]) = Check(k)
      BY <2>3, <2>4, <3>1
    <3>3. CASE Check(k)[1] = "effect"
      <4>1. At(r, "effect") BY <3>2, <3>3 DEF At
      <4> QED BY <1>0, <2>2, <2>4, <4>1, Behind DEF Rank
    <3>4. CASE Check(k)[1] = "fresh"
      <4>1. At(r, "fresh") BY <3>2, <3>4 DEF At
      <4>2. Fresh(r) BY <1>1, <3>2, <4>1, HeadCases
      <4>3. Goes(r) BY <3>2, <4>2 DEF Fresh
      <4>4. Follows(Head(todo[r]), <<"claim", k>>)
        BY <1>0, <2>4, <3>2, <4>3, GoesProceeds
      <4> QED BY <2>0, <3>2, <3>4, <4>4 DEF Follows
    <3> QED BY <2>0, <3>3, <3>4
  <2>5. ASSUME route'[r] # "desktop", <<r, k>> \in launchAdmissions'
        PROVE  fingerprint'[<<r, k>>] = want'[r][k]
    <3>1. CASE ClaimKind(q)
      <4>1. /\ launchAdmissions' = launchAdmissions \cup {<<q, Kind(q)>>}
            /\ want' = want
            /\ fingerprint' = [fingerprint EXCEPT ![<<q, Kind(q)>>] =
                                 IF route[q] = "desktop" /\ Kind(q) \in Headrooms
                                   THEN Unbound ELSE want[q][Kind(q)]]
        BY <3>1 DEF ClaimKind, AcquireLaunchAdmission, plan
      <4>2. <<r, k>> \in Claim BY DEF Claim
      <4>3. fingerprint \in [Claim -> Configs \cup {Off, Unbound}]
        BY <1>0 DEF CoordTypeOK
      <4>4. CASE <<r, k>> = <<q, Kind(q)>>
        BY <2>1, <2>5, <4>1, <4>2, <4>3, <4>4
      <4>5. CASE <<r, k>> # <<q, Kind(q)>>
        BY <1>0, <2>1, <2>5, <4>1, <4>2, <4>3, <4>5 DEF Fitting
      <4> QED BY <4>4, <4>5
    <3>2. CASE ~ClaimKind(q)
      <4>1. fingerprint' = fingerprint /\ <<r, k>> \in launchAdmissions
        BY <1>1, <2>5, <3>2, LaunchEffects
      <4>2. want'[r][k] = want[r][k]
        <5>1. CASE want' = want BY <5>1
        <5>2. CASE Lend(q)
          <6>1. /\ At(q, "lend")
                /\ want' = want \/ want' = [want EXCEPT ![q][Kind(q)] = service[Kind(q)]]
            BY <5>2 DEF Lend, Fails
          <6>2. <<"lend", Kind(q)>> \in Doing(q) /\ Kind(q) \in Kinds
            BY <1>0, <6>1, AtStep DEF KindSteps
          <6>3. route[q] = "desktop"
            BY <1>0, <6>2, Planned DEF Forward, Plain, Rank
          <6> QED BY <1>0, <2>1, <2>5, <6>1, <6>2, <6>3 DEF TypeOK
        <5> QED BY <1>1, <5>1, <5>2, LaunchFrame
      <4> QED BY <1>0, <2>1, <2>5, <4>1, <4>2 DEF Fitting
    <3> QED BY <3>1, <3>2
  <2>6. ASSUME <<r, k>> \in launchAdmissions', <<"lease", k>> \in Doing(r)',
               Check(k) \notin Doing(r)'
        PROVE  Serves(<<r, k>>)'
    <3>1. route[r] # "desktop"
      BY <1>0, <2>2, <2>6 DEF SharedInv, LeasesAhead
    <3>2. <<r, k>> \in launchAdmissions
      <4> SUFFICES ASSUME <<r, k>> \notin launchAdmissions PROVE FALSE
        OBVIOUS
      <4>1. ClaimKind(q) /\ <<r, k>> = <<q, Kind(q)>>
        BY <1>1, <2>6, LaunchEffects
      <4>2. <<"claim", k>> \in Doing(r) /\ Head(todo[r]) = <<"claim", k>>
        BY <1>0, <4>1, AtStep DEF ClaimKind, KindSteps
      <4>3. Check(k) \in Doing(r) BY <1>0, <3>1, <4>2 DEF Fitting
      <4>4. Head(todo[r]) = Check(k) BY <2>3, <2>6, <4>3
      <4> QED BY <2>0, <4>2, <4>4
    <3>3. CASE Check(k) \notin Doing(r)
      <4>1. Serves(<<r, k>>) BY <1>0, <2>2, <2>6, <3>2, <3>3 DEF Fitting
      <4> QED BY <3>2, <4>1, ServiceKeeps
    <3>4. CASE Check(k) \in Doing(r)
      <4>1. /\ q = r /\ ~Fails(r) /\ todo[r] # <<>> /\ Head(todo[r]) = Check(k)
        BY <2>3, <2>6, <3>4
      <4>2. Kind(r) = k BY <2>0, <4>1 DEF Kind
      <4>3. want \in [Runs -> [Kinds -> Configs \cup {Off}]]
            /\ service \in [Kinds -> Configs \cup {Off}]
        BY <1>0 DEF TypeOK
      <4>4. CASE Check(k)[1] = "effect"
        <5>1. At(r, "effect") BY <4>1, <4>4 DEF At
        <5>2. Effect(r) BY <1>1, <4>1, <5>1, HeadCases DEF EffectFails, StartFails
        <5>3. service'[k] = want[r][k] /\ want' = want
          BY <4>2, <4>3, <5>2 DEF Effect, plan
        <5> QED BY <5>3 DEF Serves, KindOf
      <4>5. CASE Check(k)[1] = "fresh"
        <5>1. At(r, "fresh") BY <4>1, <4>5 DEF At
        <5>2. Fresh(r) BY <1>1, <4>1, <5>1, HeadCases
        <5>3. service'[k] = want[r][k] /\ want' = want
          BY <4>1, <4>2, <5>2 DEF Fresh, plan, services
        <5> QED BY <5>3 DEF Serves, KindOf
      <4> QED BY <2>0, <4>4, <4>5
    <3> QED BY <3>3, <3>4
  <2>7. ASSUME <<r, k>> \in leases' PROVE Serves(<<r, k>>)'
    <3>1. CASE <<r, k>> \in leases
      <4>1. Serves(<<r, k>>) BY <1>0, <3>1 DEF Fitting
      <4> QED BY <3>1, <4>1, ServiceKeeps
    <3>2. CASE <<r, k>> \notin leases
      <4>1. /\ Lease(q) \/ Lend(q)
            /\ <<r, k>> = <<q, Kind(q)>> /\ <<r, k>> \in launchAdmissions
        BY <1>1, <2>7, <3>2, LaunchEffects
      <4>2. CASE Lease(q)
        <5>1. At(r, "lease") /\ r = q /\ Kind(r) = k BY <4>1, <4>2 DEF Lease
        <5>2. <<"lease", k>> \in Doing(r) /\ Check(k) \notin Doing(r)
          BY <1>0, <2>0, <5>1, AtStep, Behind DEF KindSteps, Rank
        <5>3. Serves(<<r, k>>) BY <1>0, <4>1, <5>2 DEF Fitting
        <5> QED BY <4>1, <5>3, ServiceKeeps
      <4>3. CASE Lend(q)
        <5>1. leases' # leases BY <2>7, <3>2
        <5>2. /\ want' = [want EXCEPT ![r][k] = service[k]] /\ service' = service
          BY <4>1, <4>3, <5>1 DEF Lend, Fails, services, coord
        <5>3. want'[r][k] = service[k] BY <1>0, <5>2 DEF TypeOK
        <5> QED BY <5>2, <5>3 DEF Serves, KindOf
      <4> QED BY <4>1, <4>2, <4>3
    <3> QED BY <3>1, <3>2
  <2> QED BY <2>4, <2>5, <2>6, <2>7
<1>2. ASSUME NEW q, NEW how, NEW s, NEW K, NEW w, Begun(q, how, s, K, w) PROVE Fitting'
  <2>1. /\ q \in Runs /\ route[q] = "none" /\ route' = [route EXCEPT ![q] = how]
        /\ OthersStay(q) /\ Doing(q)' = Forward(how, K) /\ want' = [want EXCEPT ![q] = w]
        /\ UNCHANGED <<fingerprint, launchAdmissions, leases>>
        /\ how \in {"create", "restart", "desktop"}
    BY <1>2 DEF Begun, Begin, MayBegin, coord
  <2>2. \A r \in Runs \ {q} : /\ Doing(r)' = Doing(r) /\ route'[r] = route[r]
                              /\ want'[r] = want[r]
    BY <1>0, <2>1 DEF OthersStay, TypeOK, Doing
  <2>3. \A k \in Kinds : <<q, k>> \notin launchAdmissions \cup leases
    BY <2>1, NotBegun
  <2>4. route'[q] = how BY <1>0, <2>1 DEF TypeOK
  <2>5. ASSUME NEW k \in Kinds, how # "desktop", <<"claim", k>> \in Forward(how, K)
        PROVE  Check(k) \in Forward(how, K)
    BY <2>1, <2>5 DEF Forward, Plain, Check
  <2>6. ASSUME NEW r \in Runs, NEW k \in Kinds, <<r, k>> \in launchAdmissions \cup leases,
               Serves(<<r, k>>)
        PROVE  Serves(<<r, k>>)'
    BY <2>6, ServiceKeeps
  <2>7. ASSUME NEW r \in Runs, NEW k \in Kinds, r # q
        PROVE  /\ route'[r] # "desktop" /\ <<"claim", k>> \in Doing(r)' => Check(k) \in Doing(r)'
               /\ route'[r] # "desktop" /\ <<r, k>> \in launchAdmissions'
                    => fingerprint'[<<r, k>>] = want'[r][k]
               /\ <<r, k>> \in launchAdmissions' /\ <<"lease", k>> \in Doing(r)'
                  /\ Check(k) \notin Doing(r)'
                    => Serves(<<r, k>>)'
               /\ <<r, k>> \in leases' => Serves(<<r, k>>)'
    BY <1>0, <2>1, <2>2, <2>6, <2>7 DEF Fitting
  <2> QED BY <2>1, <2>3, <2>4, <2>5, <2>7 DEF Fitting, Check
<1>3. CASE Elsewhere
  <2>1. /\ UNCHANGED <<todo, route, want, fingerprint>> /\ leases' \subseteq leases
        /\ launchAdmissions' \subseteq launchAdmissions
    BY <1>0, <1>3, ElsewhereEffects
  <2>2. ASSUME NEW r \in Runs, NEW k \in Kinds, <<r, k>> \in launchAdmissions \cup leases,
               Serves(<<r, k>>)
        PROVE  Serves(<<r, k>>)'
    BY <2>2, ServiceKeeps
  <2> QED BY <1>0, <2>1, <2>2 DEF Fitting, Doing, Check
<1>4. CASE \E q \in Runs : LaunchAct(q) BY <1>1, <1>4 DEF Fitting, Check
<1> QED BY <1>0, <1>2, <1>3, <1>4, NextCases

\* A launch leases what it claimed before it commits.
LEMMA LeasesAheadNext ==
  ASSUME SharedInv, Next
  PROVE  LeasesAhead'
<1>0. TypeOK /\ Programs /\ Tickets /\ LeasesAhead BY DEF SharedInv
<1>1. ASSUME NEW q \in Runs, LaunchAct(q), NEW r \in Runs, NEW k \in Kinds
      PROVE  /\ /\ route'[r] # "desktop" /\ Step("commit") \in Doing(r)'
                /\ <<"claim", k>> \in Doing(r)' \/ <<r, k>> \in launchAdmissions'
                => <<"lease", k>> \in Doing(r)'
             /\ <<"lease", k>> \in Doing(r)' =>
                  route'[r] # "desktop" /\ Step("commit") \in Doing(r)'
  <2>1. UNCHANGED route BY <1>1, LaunchFrame
  <2>2. /\ Step("commit") \in Doing(r)' => Step("commit") \in Doing(r)
        /\ <<"claim", k>> \in Doing(r)' => <<"claim", k>> \in Doing(r)
        /\ <<"lease", k>> \in Doing(r)' => <<"lease", k>> \in Doing(r)
    BY <1>0, <1>1, ListsMove DEF Rank, Step
  <2>3. <<r, k>> \in launchAdmissions' =>
          <<r, k>> \in launchAdmissions \/ <<"claim", k>> \in Doing(r)
    <3>1. CASE launchAdmissions' \subseteq launchAdmissions BY <3>1
    <3>2. CASE ClaimKind(q) /\ launchAdmissions' = launchAdmissions \cup {<<q, Kind(q)>>}
      <4>1. <<"claim", Kind(q)>> \in Doing(q)
        BY <1>0, <3>2, AtStep DEF ClaimKind, KindSteps
      <4> QED BY <3>2, <4>1
    <3> QED BY <1>1, <3>1, <3>2, LaunchEffects
  <2>4. CASE r # q
    <3>1. Doing(r)' = Doing(r) BY <1>0, <1>1, <2>4, ListsMove
    <3> QED BY <1>0, <2>1, <2>3, <3>1 DEF LeasesAhead
  <2>5. CASE r = q /\ (Backs(r) \/ GivesUp(r))
    <3>1. Step("commit") \notin Doing(r)' /\ <<"lease", k>> \notin Doing(r)'
      BY <1>0, <2>5 DEF Backs, GivesUp, Ending, Doing, Rank, ToSet, Step
    <3> QED BY <3>1
  <2>6. CASE r = q /\ Proceeds(r) /\ ~Backs(r)
    <3>1. /\ Doing(r) \subseteq {Head(todo[r])} \cup Doing(r)' /\ todo[r] # <<>>
          /\ Head(todo[r]) \in Doing(r)
      BY <2>6 DEF Proceeds
    <3>2. ASSUME route[r] # "desktop", Step("commit") \in Doing(r)',
                 <<"claim", k>> \in Doing(r)' \/ <<r, k>> \in launchAdmissions'
          PROVE  <<"lease", k>> \in Doing(r)'
      <4>1. <<"lease", k>> \in Doing(r)
        BY <1>0, <2>2, <2>3, <3>2 DEF LeasesAhead
      <4> SUFFICES ASSUME Head(todo[r]) = <<"lease", k>> PROVE FALSE
        BY <3>1, <4>1
      <4>2. At(r, "lease") /\ Kind(r) = k BY <3>1 DEF At, Kind
      <4>3. Lease(r) BY <1>1, <2>6, <4>2, HeadCases
      <4>4. ~Fails(r) BY <1>0, <2>6, <3>1, FailsBacks DEF Rank
      <4>5. <<r, k>> \notin launchAdmissions'
        BY <4>2, <4>3, <4>4 DEF Lease, AcquireLease
      <4>6. <<"claim", k>> \notin Doing(r)
        BY <1>0, <4>2, Behind DEF Rank
      <4> QED BY <2>2, <3>2, <4>5, <4>6
    <3>3. ASSUME <<"lease", k>> \in Doing(r)'
          PROVE  route[r] # "desktop" /\ Step("commit") \in Doing(r)'
      <4>1. route[r] # "desktop" /\ Step("commit") \in Doing(r)
        BY <1>0, <2>2, <3>3 DEF LeasesAhead
      <4>2. Head(todo[r]) # Step("commit")
        BY <2>6, <3>3 DEF Proceeds, Rank, Step
      <4> QED BY <3>1, <4>1, <4>2
    <3> QED BY <2>1, <3>2, <3>3
  <2> QED BY <1>0, <1>1, <2>4, <2>5, <2>6, Moves
<1>2. ASSUME NEW q, NEW how, NEW s, NEW K, NEW w, Begun(q, how, s, K, w) PROVE LeasesAhead'
  <2>1. /\ q \in Runs /\ route[q] = "none" /\ route' = [route EXCEPT ![q] = how]
        /\ OthersStay(q) /\ Doing(q)' = Forward(how, K)
        /\ UNCHANGED <<transactions, launchAdmissions>>
        /\ how \in {"create", "restart", "desktop"}
    BY <1>2 DEF Begun, Begin, MayBegin, coord
  <2>2. \A r \in Runs \ {q} : Doing(r)' = Doing(r) /\ route'[r] = route[r]
    BY <1>0, <2>1 DEF OthersStay, TypeOK, Doing
  <2>3. \A k \in Kinds : <<q, k>> \notin launchAdmissions
    BY <1>0, <2>1 DEF SharedInv, Unclaimed, TypeOK, CoordTypeOK
  <2>4. route'[q] = how BY <1>0, <2>1 DEF TypeOK
  <2>5. ASSUME NEW k \in Kinds
        PROVE  /\ how # "desktop" /\ <<"claim", k>> \in Forward(how, K)
                    => <<"lease", k>> \in Forward(how, K)
               /\ <<"lease", k>> \in Forward(how, K) =>
                    how # "desktop" /\ Step("commit") \in Forward(how, K)
    BY <2>1 DEF Forward, Plain, Step
  <2> QED BY <1>0, <2>1, <2>2, <2>3, <2>4, <2>5 DEF LeasesAhead
<1>3. CASE Elsewhere
  <2>1. UNCHANGED <<todo, route>> /\ launchAdmissions' \subseteq launchAdmissions
    BY <1>0, <1>3, ElsewhereEffects
  <2> QED BY <1>0, <2>1 DEF LeasesAhead, Doing
<1>4. CASE \E q \in Runs : LaunchAct(q) BY <1>1, <1>4 DEF LeasesAhead
<1> QED BY <1>0, <1>2, <1>3, <1>4, NextCases

\* A lease has a launch or a run that is to give it back.
LEMMA LeasingNext ==
  ASSUME SharedInv, Next
  PROVE  Leasing'
<1>0. TypeOK /\ CoordTypeOK /\ Programs /\ Tickets /\ Leasing /\ LeasesAhead
  BY DEF SharedInv, TypeOK
<1>1. ASSUME NEW q \in Runs, LaunchAct(q) PROVE Leasing'
  <2>1. UNCHANGED <<route, needs>> BY <1>1, LaunchFrame
  <2> SUFFICES ASSUME NEW r \in Runs, NEW k \in Kinds, <<r, k>> \in leases'
               PROVE  /\ k \in needs[r]
                      /\ \A x \in Doing(r)' :
                           Rank(x[1]) > 2 /\ (route[r] # "desktop" => x[1] # "pty")
                      /\ <<r, k>> \notin promoted' =>
                           /\ route[r] # "desktop"
                           /\ <<"unlease", k>> \in Doing(r)' \/ Step("commit") \in Doing(r)'
    <3>1. leases' \subseteq Claim
      BY <1>0, <1>1, LaunchEffects DEF CoordTypeOK
    <3> QED BY <2>1, <3>1 DEF Leasing, Claim, KindOf
  <2>2. CASE <<r, k>> \in leases
    <3>1. /\ k \in needs[r]
          /\ \A x \in Doing(r) : Rank(x[1]) > 2 /\ (route[r] # "desktop" => x[1] # "pty")
          /\ <<r, k>> \notin promoted =>
               /\ route[r] # "desktop"
               /\ <<"unlease", k>> \in Doing(r) \/ Step("commit") \in Doing(r)
      BY <1>0, <2>2 DEF Leasing, KindOf
    <3>2. promoted \subseteq promoted' BY <1>1, LaunchEffects
    <3>3. CASE r # q
      <4>1. Doing(r)' = Doing(r) BY <1>0, <1>1, <3>3, ListsMove
      <4> QED BY <3>1, <3>2, <4>1
    <3>4. CASE r = q /\ Proceeds(r) /\ ~Backs(r)
      <4>1. ASSUME NEW x \in Doing(r)'
            PROVE  Rank(x[1]) > 2 /\ (route[r] # "desktop" => x[1] # "pty")
        <5>1. /\ Head(todo[r]) \in Doing(r)
              /\ \/ x \in Doing(r) \/ Rank(Head(todo[r])[1]) = 2 \/ Rank(x[1]) = 7
          BY <3>4, <4>1 DEF Proceeds
        <5>2. Rank("pty") = 3 BY DEF Rank
        <5> QED BY <3>1, <5>1, <5>2
      <4>2. ASSUME <<r, k>> \notin promoted'
            PROVE  <<"unlease", k>> \in Doing(r)' \/ Step("commit") \in Doing(r)'
        <5>0. /\ todo[r] # <<>> /\ Doing(r) \subseteq {Head(todo[r])} \cup Doing(r)'
          BY <3>4 DEF Proceeds
        <5>1. CASE Head(todo[r]) = <<"unlease", k>>
          <6>1. At(r, "unlease") /\ Kind(r) = k BY <5>0, <5>1 DEF At, Kind
          <6>2. <<r, k>> \notin leases'
            BY <1>1, <3>4, <6>1, HeadCases DEF Unlease, ReleaseExact
          <6> QED BY <6>2
        <5>2. CASE Head(todo[r]) = Step("commit")
          <6>1. At(r, "commit") /\ ~Fails(r)
            BY <1>0, <3>4, <5>0, <5>2, FailsBacks DEF At, Step, Rank
          <6>2. Commit(r) BY <1>1, <3>4, <6>1, HeadCases DEF CommitFails
          <6>3. ticket[r].new = Mine(r) /\ route[r] # "desktop"
            BY <3>1, <3>2, <4>2, <6>1, CommitReady
          <6>4. <<r, k>> \in promoted'
            BY <3>1, <6>2, <6>3 DEF Commit, CommitLeaseTransfer, Mine
          <6> QED BY <4>2, <6>4
        <5> QED BY <3>1, <3>2, <4>2, <5>0, <5>1, <5>2
      <4> QED BY <3>1, <3>2, <4>1, <4>2
    <3>5. CASE r = q /\ Backs(r)
      <4>1. \A x \in Doing(r)' : Rank(x[1]) = 7 BY <3>5 DEF Backs, Ending, Doing
      <4>2. Rank("pty") = 3 BY DEF Rank
      <4>3. /\ Rank(Head(todo[r])[1]) > 2
            /\ route[r] # "desktop" => Head(todo[r])[1] # "pty"
        BY <3>1, <3>5 DEF Backs
      <4>4. route[r] # "desktop" => <<"unlease", k>> \in Doing(r)'
        BY <3>1, <3>5, <4>3 DEF Backs
      <4> QED BY <3>1, <3>2, <4>1, <4>2, <4>4
    <3>6. ~GivesUp(r) BY <2>2 DEF GivesUp, SharedInv, Closed
    <3> QED BY <1>0, <1>1, <3>3, <3>4, <3>5, <3>6, Moves
  <2>3. CASE <<r, k>> \notin leases
    <3> DEFINE l == <<r, k>>
    <3>a. \/ leases' \subseteq leases
          \/ /\ Lease(q) \/ Lend(q)
             /\ leases' = leases \cup {<<q, Kind(q)>>}
      BY <1>1, LaunchEffects
    <3>b. l \in leases' /\ l \notin leases BY <2>3
    <3> HIDE DEF l
    <3>c. l = <<q, Kind(q)>> /\ (Lease(q) \/ Lend(q))
      BY <3>a, <3>b
    <3> USE DEF l
    <3>0. <<r, k>> = <<q, Kind(q)>> /\ (Lease(q) \/ Lend(q))
      BY <3>c
    <3>1. r = q /\ (Lease(r) \/ Lend(r)) /\ Kind(r) = k
      BY <3>0, ClaimParts
    <3>2. At(r, "lease") \/ At(r, "lend") BY <3>1 DEF Lease, Lend
    <3>3. /\ todo[r] # <<>> /\ k \in needs[r] /\ Head(todo[r]) \in Doing(r)
          /\ \/ At(r, "lease") /\ Head(todo[r]) = <<"lease", k>>
             \/ At(r, "lend") /\ Head(todo[r]) = <<"lend", k>>
      BY <1>0, <3>1, <3>2, AtStep DEF KindSteps, Rank
    <3>4. Goes(r) BY <2>3, <3>1 DEF Lease, Lend, Fails, coord
    <3>5. /\ \A x \in Doing(r)' : Rank(Head(todo[r])[1]) <= Rank(x[1])
          /\ Doing(r) \subseteq {Head(todo[r])} \cup Doing(r)'
      BY <1>0, <3>3, <3>4, GoesProceeds DEF Proceeds
    <3>6. CASE At(r, "lease") /\ Head(todo[r]) = <<"lease", k>>
      <4>1. route[r] # "desktop" /\ Step("commit") \in Doing(r)
        BY <1>0, <3>3, <3>6 DEF LeasesAhead
      <4>2. \A x \in Doing(r)' : 4 <= Rank(x[1]) BY <3>5, <3>6 DEF Rank
      <4>3. Step("commit") # Head(todo[r]) BY <3>6 DEF Step
      <4>4. Rank("pty") = 3 BY DEF Rank
      <4>5. \A x \in Doing(r)' : Rank(x[1]) \in Int BY DEF Rank
      <4> QED BY <3>3, <3>5, <4>1, <4>2, <4>3, <4>4, <4>5
    <3>7. CASE At(r, "lend") /\ Head(todo[r]) = <<"lend", k>>
      <4>1. route[r] = "desktop"
        <5>1. /\ route[r] \in {"create", "restart", "desktop"}
              /\ <<"lend", k>> \in Forward(route[r], needs[r]) \cup ({"mark", "verify"} \X needs[r])
          BY <1>0, <3>3, <3>7, Planned DEF Rank
        <5> QED BY <5>1 DEF Forward, Plain
      <4>2. \A x \in Doing(r)' : 3 <= Rank(x[1]) BY <3>5, <3>7 DEF Rank
      <4>3. <<r, k>> \in promoted'
        BY <2>3, <3>1, <3>2, <3>7 DEF Lease, Lend, Fails, coord, AcquireLease, At
      <4>5. \A x \in Doing(r)' : Rank(x[1]) \in Int BY DEF Rank
      <4> QED BY <3>3, <4>1, <4>2, <4>3, <4>5
    <3> QED BY <3>3, <3>6, <3>7
  <2> QED BY <2>2, <2>3
<1>2. ASSUME NEW q, NEW how, NEW s, NEW K, NEW w, Begun(q, how, s, K, w) PROVE Leasing'
  <2>1. /\ q \in Runs /\ route[q] = "none" /\ route' = [route EXCEPT ![q] = how]
        /\ OthersStay(q) /\ needs' = [needs EXCEPT ![q] = K]
        /\ UNCHANGED <<leases, promoted>>
    BY <1>2 DEF Begun, Begin, MayBegin, coord
  <2>2. \A r \in Runs \ {q} : Doing(r)' = Doing(r) /\ route'[r] = route[r] /\ needs'[r] = needs[r]
    BY <1>0, <2>1 DEF OthersStay, TypeOK, Doing
  <2>3. \A l \in leases : l[1] \in Runs \ {q}
    BY <2>1, NotBegun, ClaimParts
  <2> QED BY <1>0, <2>1, <2>2, <2>3 DEF Leasing
<1>3. CASE Elsewhere
  <2>1. UNCHANGED <<todo, route, needs, promoted>> /\ leases' \subseteq leases
    BY <1>0, <1>3, ElsewhereEffects
  <2> QED BY <1>0, <2>1 DEF Leasing, Doing
<1> QED BY <1>0, <1>1, <1>2, <1>3, NextCases

\* Which launches acquire leases, and how.
LEMMA LeaseRoutes ==
  ASSUME TypeOK, Programs, NEW r \in Runs
  PROVE  /\ At(r, "lend") => route[r] = "desktop"
         /\ At(r, "lease") => route[r] # "desktop"
         /\ At(r, "lend") /\ Goes(r) => At(r, "remember")' /\ Kind(r)' = Kind(r)
<1>1. ASSUME At(r, "lend") PROVE route[r] = "desktop"
  <2>1. /\ route[r] \in {"create", "restart", "desktop"}
        /\ <<"lend", Kind(r)>> \in Forward(route[r], needs[r]) \cup ({"mark", "verify"} \X needs[r])
    BY <1>1, AtStep, Planned DEF Rank, KindSteps
  <2> QED BY <2>1 DEF Forward, Plain
<1>2. ASSUME At(r, "lease") PROVE route[r] # "desktop"
  <2>1. /\ route[r] \in {"create", "restart", "desktop"}
        /\ <<"lease", Kind(r)>> \in Forward(route[r], needs[r]) \cup ({"mark", "verify"} \X needs[r])
    BY <1>2, AtStep, Planned DEF Rank, KindSteps
  <2> QED BY <2>1 DEF Forward, Plain
<1>3. ASSUME At(r, "lend"), Goes(r) PROVE At(r, "remember")' /\ Kind(r)' = Kind(r)
  BY <1>3, GoesProceeds DEF At, Kind
<1> QED BY <1>1, <1>2, <1>3

\* A lease that somebody is to release stays with somebody until it is dropped.
LEMMA HandsKeep ==
  ASSUME SharedInv, Next, NEW l \in leases',
         l \in sharedLeases \/ \E h \in Releasers : l \in hand[h]
  PROVE  l \in sharedLeases' \/ \E h \in Releasers : l \in hand'[h]
<1>0. hand \in [Releasers -> SUBSET Claim] /\ Shutdown \in Releasers
  BY DEF SharedInv, TypeOK, Releasers
<1>1. CASE UNCHANGED <<sharedLeases, hand>> BY <1>1
<1>2. ASSUME NEW h \in Releasers, NEW S \in SUBSET Claim, Take(h, S)
      PROVE  l \in sharedLeases' \/ \E g \in Releasers : l \in hand'[g]
  <2>1. /\ hand' = [hand EXCEPT ![h] = @ \cup (S \cap sharedLeases)]
        /\ sharedLeases' = sharedLeases \ S
    BY <1>2 DEF Take
  <2>2. /\ hand'[h] = hand[h] \cup (S \cap sharedLeases)
        /\ \A g \in Releasers : hand[g] \subseteq hand'[g]
    BY <1>0, <2>1
  <2> QED BY <2>1, <2>2
<1>3. ASSUME NEW q \in Runs, Remember(q)
      PROVE  l \in sharedLeases' \/ \E g \in Releasers : l \in hand'[g]
  BY <1>3 DEF Remember
<1>4. ASSUME NEW q \in Runs, Commit(q), route[q] # "desktop"
      PROVE  l \in sharedLeases' \/ \E g \in Releasers : l \in hand'[g]
  <2>1. /\ leases' = leases \ ticket[q].old /\ UNCHANGED hand
        /\ sharedLeases' = (sharedLeases \ ticket[q].old) \cup ticket[q].new
    BY <1>4 DEF Commit, CommitLeaseTransfer
  <2> QED BY <2>1
<1>5. ASSUME NEW h \in Releasers, NEW m \in hand[h], Drop(h, m)
      PROVE  l \in sharedLeases' \/ \E g \in Releasers : l \in hand'[g]
  <2>1. /\ leases' = leases \ {m} /\ UNCHANGED sharedLeases
        /\ hand' = [hand EXCEPT ![h] = @ \ {m}]
    BY <1>5 DEF Drop, ReleaseExact
  <2>2. \A g \in Releasers : hand[g] \subseteq hand'[g] \cup {m}
    BY <1>0, <2>1
  <2> QED BY <2>1, <2>2
<1>6. CASE /\ shutdown = "fenced" /\ UNCHANGED sharedLeases
           /\ hand' = [hand EXCEPT ![Shutdown] = sharedLeases]
  <2>1. hand[Shutdown] = {} BY <1>6 DEF SharedInv, Closed
  <2>2. \A g \in Releasers : hand[g] \subseteq hand'[g] BY <1>0, <1>6, <2>1
  <2> QED BY <1>6, <2>2
<1> QED BY <1>1, <1>2, <1>3, <1>4, <1>5, <1>6, HandMoves

\* A promoted lease is always somebody's to release.
LEMMA RegisteredNext ==
  ASSUME SharedInv, Next
  PROVE  Registered'
<1>0. TypeOK /\ CoordTypeOK /\ Programs /\ Tickets /\ Registered /\ LeasesAhead
  BY DEF SharedInv, TypeOK
<1> DEFINE Kept(l) == \/ l \in sharedLeases'
                      \/ \E h \in Releasers : l \in hand'[h]
                      \/ At(l[1], "remember")' /\ Kind(l[1])' = KindOf(l)
<1>1. ASSUME NEW l \in leases' \cap promoted', l \in leases \cap promoted PROVE Kept(l)
  <2>1. CASE l \in sharedLeases \/ \E h \in Releasers : l \in hand[h]
    BY <1>1, <2>1, HandsKeep
  <2>2. CASE At(l[1], "remember") /\ Kind(l[1]) = KindOf(l)
    <3>0. l \in Claim /\ l[1] \in Runs /\ l = <<l[1], KindOf(l)>>
      BY <1>0, <1>1, ClaimParts DEF CoordTypeOK
    <3>1. CASE todo'[l[1]] = todo[l[1]] BY <2>2, <3>1 DEF At, Kind
    <3>2. ASSUME NEW q \in Runs, LaunchAct(q) PROVE Kept(l)
      <4>1. CASE q = l[1]
        <5>1. Remember(q) BY <2>2, <3>2, <4>1, HeadCases
        <5> QED BY <2>2, <3>0, <4>1, <5>1 DEF Remember
      <4>2. CASE q # l[1]
        <5>1. todo'[l[1]] = todo[l[1]] BY <1>0, <3>0, <3>2, <4>2, ListsMove
        <5> QED BY <3>1, <5>1
      <4> QED BY <4>1, <4>2
    <3>3. ASSUME NEW q, NEW how, NEW s, NEW K, NEW w, Begun(q, how, s, K, w) PROVE Kept(l)
      <4>1. q \in Runs /\ route[q] = "none" /\ OthersStay(q)
        BY <3>3 DEF Begun, Begin, MayBegin
      <4>2. l[1] # q BY <1>1, <4>1, NotBegun
      <4>3. todo'[l[1]] = todo[l[1]] BY <1>0, <3>0, <4>1, <4>2 DEF OthersStay, TypeOK
      <4> QED BY <3>1, <4>3
    <3>4. CASE Elsewhere
      BY <3>1, <3>4, ElsewhereFrame
    <3> HIDE DEF Kept
    <3> QED BY <1>0, <3>2, <3>3, <3>4, NextCases
  <2> QED BY <1>0, <1>1, <2>1, <2>2 DEF Registered
<1>2. ASSUME NEW q \in Runs, LaunchAct(q),
             NEW l \in leases' \cap promoted', l \notin leases \cap promoted
      PROVE  Kept(l)
  <2>1. CASE Commit(q) /\ l \in leases
    <3>1. route[q] # "desktop" /\ promoted' = promoted \cup Mine(q)
      <4>1. promoted' # promoted BY <1>2, <2>1
      <4>2. ~Lend(q)
        <5>1. Head(todo[q])[1] = "commit" BY <2>1 DEF Commit, At
        <5> QED BY <5>1 DEF Lend, At
      <4> QED BY <1>2, <4>1, <4>2, LaunchEffects
    <3>2. ticket[q].new = Mine(q) BY <2>1, <3>1, CommitReady DEF Commit
    <3>3. l \in Mine(q) BY <1>2, <2>1, <3>1
    <3> QED BY <2>1, <3>1, <3>2, <3>3 DEF Commit
  <2>2. CASE l = <<q, Kind(q)>> /\ (Lease(q) \/ Lend(q))
    <3>0. l[1] = q /\ KindOf(l) = Kind(q) BY <2>2 DEF KindOf
    <3>1. CASE Lease(q)
      <4>1. At(q, "lease") BY <3>1 DEF Lease
      <4>2. <<"lease", Kind(q)>> \in Doing(q) /\ Kind(q) \in Kinds /\ route[q] # "desktop"
        BY <1>0, <4>1, AtStep, LeaseRoutes DEF KindSteps
      <4>3. Step("commit") \in Doing(q) BY <1>0, <4>2 DEF LeasesAhead
      <4>4. l \notin promoted BY <1>0, <2>2, <4>2, <4>3 DEF Tickets
      <4>5. promoted' = promoted BY <3>1 DEF Lease, Fails, coord, AcquireLease
      <4> QED BY <1>2, <4>4, <4>5
    <3>2. CASE Lend(q)
      <4>1. At(q, "lend") BY <3>2 DEF Lend
      <4>2. Goes(q)
        BY <1>2, <2>2, <3>2 DEF Lend, Fails, coord
      <4> QED BY <1>0, <3>0, <4>1, <4>2, LeaseRoutes
    <3> QED BY <2>2, <3>1, <3>2
  <2>3. \/ Commit(q) /\ l \in leases
        \/ l = <<q, Kind(q)>> /\ (Lease(q) \/ Lend(q))
    <3>1. /\ \/ leases' \subseteq leases
             \/ /\ Lease(q) \/ Lend(q)
                /\ leases' = leases \cup {<<q, Kind(q)>>}
          /\ \/ promoted' = promoted
             \/ Commit(q) /\ leases' \subseteq leases
             \/ Lend(q) /\ promoted' = promoted \cup {<<q, Kind(q)>>}
      <4>1. ASSUME Commit(q) PROVE leases' \subseteq leases
        BY <4>1 DEF Commit, coord, CommitLeaseTransfer
      <4> QED BY <1>2, <4>1, LaunchEffects
    <3> HIDE DEF Kept
    <3> QED BY <1>2, <3>1
  <2> QED BY <2>1, <2>2, <2>3
<1>3. ASSUME NEW q, NEW how, NEW s, NEW K, NEW w, Begun(q, how, s, K, w)
      PROVE  UNCHANGED <<leases, promoted>>
  BY <1>3 DEF Begun, Begin, coord
<1>4. ASSUME Elsewhere PROVE leases' \subseteq leases /\ UNCHANGED promoted
  BY <1>0, <1>4, ElsewhereEffects
<1>5. \A l \in leases' \cap promoted' : Kept(l)
  <2> HIDE DEF Kept
  <2> QED BY <1>0, <1>1, <1>2, <1>3, <1>4, NextCases
<1> QED BY <1>5 DEF Registered

\* An ended launch only ends, and makes no lease.
LEMMA EndedStays ==
  ASSUME SharedInv, Next, NEW r \in Runs, Ended(r)
  PROVE  /\ Ended(r)' /\ sess'[r] = sess[r]
         /\ \A l \in leases' : l[1] = r => l \in leases
         /\ promoted \subseteq promoted'
         /\ \A x \in Doing(r)' : x[1] \in Resolves =>
              (\E y \in Doing(r) : y[1] \in Resolves) \/ closed'
<1>0. TypeOK /\ Programs /\ Tickets BY DEF SharedInv
<1>1. ASSUME NEW q \in Runs, LaunchAct(q)
      PROVE  /\ Ended(r)' /\ sess'[r] = sess[r]
             /\ \A l \in leases' : l[1] = r => l \in leases
             /\ promoted \subseteq promoted'
             /\ \A x \in Doing(r)' : x[1] \in Resolves =>
                  (\E y \in Doing(r) : y[1] \in Resolves) \/ closed'
  <2>1. UNCHANGED <<route, sess>> /\ promoted \subseteq promoted'
    BY <1>1, LaunchFrame, LaunchEffects
  <2>2. CASE q # r
    <3>1. Doing(r)' = Doing(r) BY <1>0, <1>1, <2>2, ListsMove
    <3>a. leases' \subseteq leases \/ leases' = leases \cup {<<q, Kind(q)>>}
      BY <1>1, LaunchEffects
    <3>2. \A l \in leases' : l[1] = r => l \in leases
      BY <2>2, <3>a
    <3> QED BY <2>1, <3>1, <3>2 DEF Ended
  <2>3. CASE q = r
    <3>1. CASE Proceeds(r)
      <4>1. Head(todo[r]) \in Doing(r) /\ Rank(Head(todo[r])[1]) = 7
        BY <3>1 DEF Proceeds, Ended
      <4>2. \A x \in Doing(r)' :
              \/ x \in Doing(r)
              \/ Rank(x[1]) = 7 /\ (x[1] \in Resolves => Head(todo[r])[1] = "resolve")
        BY <3>1, <4>1 DEF Proceeds
      <4>3. Ended(r)' BY <2>1, <4>2 DEF Ended
      <4>4. \A x \in Doing(r)' : x[1] \in Resolves => \E y \in Doing(r) : y[1] \in Resolves
        BY <4>1, <4>2 DEF Resolves
      <4>a. Rank("lease") # 7 /\ Rank("lend") # 7 BY DEF Rank
      <4>5. ~Lease(r) /\ ~Lend(r) BY <4>1, <4>a DEF Lease, Lend, At
      <4>6. leases' \subseteq leases BY <1>1, <2>3, <4>5, LaunchEffects
      <4> QED BY <2>1, <4>3, <4>4, <4>6
    <3>2. CASE Backs(r) BY <3>2 DEF Backs, Ended
    <3>3. CASE GivesUp(r)
      <4>1. Doing(r)' = {} BY <3>3, EmptyProgram DEF GivesUp, Doing
      <4>2. closed /\ closed' = closed /\ launchAdmissions = {}
        BY <1>1, <3>3, LaunchEffects DEF GivesUp, SharedInv, Closed
      <4>3. leases' \subseteq leases BY <1>1, <4>2, LaunchEffects
      <4> QED BY <2>1, <4>1, <4>3 DEF Ended
    <3> QED BY <1>0, <1>1, <2>3, <3>1, <3>2, <3>3, Moves
  <2> QED BY <2>2, <2>3
<1>2. ASSUME NEW q, NEW how, NEW s, NEW K, NEW w, Begun(q, how, s, K, w)
      PROVE  /\ Ended(r)' /\ sess'[r] = sess[r] /\ UNCHANGED <<leases, promoted>>
             /\ Doing(r)' = Doing(r)
  <2>1. /\ q \in Runs /\ route[q] = "none" /\ route' = [route EXCEPT ![q] = how]
        /\ OthersStay(q) /\ sess' = [sess EXCEPT ![q] = s]
        /\ UNCHANGED <<leases, promoted>>
    BY <1>2 DEF Begun, Begin, MayBegin, coord
  <2>2. r # q BY <2>1 DEF Ended
  <2> QED BY <1>0, <2>1, <2>2 DEF OthersStay, TypeOK, Doing, Ended
<1>3. ASSUME Elsewhere
      PROVE  /\ Ended(r)' /\ sess'[r] = sess[r] /\ leases' \subseteq leases
             /\ promoted' = promoted /\ Doing(r)' = Doing(r)
  BY <1>0, <1>3, ElsewhereEffects DEF Ended, Doing
<1> QED BY <1>0, <1>1, <1>2, <1>3, NextCases

\* The ticket of a launch is not consumed by another.
LEMMA TicketsNext ==
  ASSUME SharedInv, Next
  PROVE  Tickets'
<1>0. TypeOK /\ CoordTypeOK /\ Programs /\ Tickets BY DEF SharedInv, TypeOK
<1>1. ASSUME NEW q \in Runs, LaunchAct(q) PROVE Tickets'
  <2>1. UNCHANGED <<route, needs, closed>> BY <1>1, LaunchFrame, LaunchEffects
  <2>2. /\ ticket' = ticket \/ Reserve(q) \/ Commit(q) \/ Resolved(q)
        /\ leaseTransfers' = leaseTransfers \/ Reserve(q) \/ Resolved(q)
    BY <1>1, LaunchEffects
  <2>3. /\ \A r \in Runs \ {q} : ticket'[r] = ticket[r]
        /\ \A h \in leaseTransfers : h[2] # q => h \in leaseTransfers'
    <3>1. CASE Reserve(q)
      BY <1>0, <3>1 DEF Reserve, PrepareLeaseTransfer, Fails, coord, CoordTypeOK
    <3>2. CASE Commit(q)
      BY <1>0, <3>2 DEF Commit, CommitLeaseTransfer, coord, CoordTypeOK
    <3>3. CASE Resolved(q)
      BY <1>0, <3>3 DEF Resolved, ResolveLeaseTransfer, coord, CoordTypeOK
    <3> QED BY <2>2, <3>1, <3>2, <3>3
  <2>a. \/ promoted' = promoted \/ promoted' = promoted \cup Mine(q)
        \/ promoted' = promoted \cup {<<q, Kind(q)>>}
    BY <1>1, LaunchEffects
  <2>4. promoted \subseteq promoted' /\ \A l \in promoted' \ promoted : l[1] = q
    BY <2>a DEF Mine
  <2>5. sealed' = sealed \/ Seal(q) \/ Unseal(q)
    BY <1>1, LaunchFrame
  <2>6. sealed \ {q} \subseteq sealed' BY <2>5 DEF Seal, Unseal
  <2>7. ASSUME NEW r \in Runs, ~closed', ticket'[r].at = "consumed"
        PROVE  Ended(r)' /\ \A x \in Doing(r)' : x[1] \notin Resolves
    <3>1. CASE ticket[r].at = "consumed"
      <4>1. Ended(r) /\ \A x \in Doing(r) : x[1] \notin Resolves
        BY <1>0, <2>1, <2>7, <3>1 DEF Tickets
      <4> QED BY <2>7, <4>1, EndedStays
    <3>2. CASE r = q /\ Resolved(r)
      <4>1. At(r, "resolved") /\ todo[r] # <<>> /\ Head(todo[r])[1] = "resolved"
        BY <3>2 DEF Resolved, At
      <4>2. CASE Goes(r)
        <5>1. \A x \in Doing(r)' : Follows(Head(todo[r]), x)
          BY <1>0, <4>1, <4>2, GoesProceeds
        <5>2. \A x \in Doing(r)' : Rank(x[1]) = 7 /\ x[1] \notin Resolves
          BY <4>1, <5>1 DEF Follows, Rank, Resolves
        <5>3. route'[r] # "none" BY <1>0, <2>1, <4>1 DEF Programs
        <5> QED BY <5>2, <5>3 DEF Ended
      <4>3. CASE ticket[r].at = "consumed" BY <3>1, <4>3
      <4> QED BY <3>2, <4>2, <4>3 DEF Resolved
    <3>3. CASE ticket[r].at # "consumed" /\ ~(r = q /\ Resolved(r))
      <4>1. r = q /\ (Reserve(q) \/ Commit(q))
        BY <2>2, <2>3, <2>7, <3>3
      <4>2. ticket'[r].at # "consumed"
        <5>1. CASE Reserve(q)
          BY <1>0, <3>3, <4>1, <5>1 DEF Reserve, PrepareLeaseTransfer, Fails, coord, CoordTypeOK
        <5>2. CASE Commit(q)
          BY <1>0, <3>3, <4>1, <5>2 DEF Commit, CommitLeaseTransfer, coord, CoordTypeOK
        <5> QED BY <4>1, <5>1, <5>2
      <4> QED BY <2>7, <4>2
    <3> QED BY <3>1, <3>2, <3>3
  <2>8. ASSUME NEW r \in Runs, r # q
        PROVE  /\ Step("commit") \in Doing(r)' /\ Step("seal") \notin Doing(r)' => r \in sealed'
               /\ Step("commit") \in Doing(r)' /\ route'[r] # "desktop" =>
                    \A k \in Kinds : <<r, k>> \notin promoted'
               /\ /\ ~closed' /\ route'[r] # "desktop"
                  /\ Step("commit") \in Doing(r)' /\ Step("reserve") \notin Doing(r)'
                  => /\ ticket'[r].at = "ready" /\ ticket'[r].new = Mine(r)'
                     /\ ticket'[r].old \subseteq promoted'
                     /\ \A l \in ticket'[r].old \cup ticket'[r].new : <<l, r>> \in leaseTransfers'
    <3>1. Doing(r)' = Doing(r) BY <1>0, <1>1, <2>8, ListsMove
    <3>2. Mine(r)' = Mine(r) BY <2>1 DEF Mine
    <3> QED BY <1>0, <2>1, <2>3, <2>4, <2>6, <2>8, <3>1, <3>2 DEF Tickets
  <2>9. ASSUME Step("commit") \in Doing(q)'
        PROVE  /\ Step("seal") \notin Doing(q)' => q \in sealed'
               /\ route'[q] # "desktop" => \A k \in Kinds : <<q, k>> \notin promoted'
               /\ ~closed' /\ route'[q] # "desktop" /\ Step("reserve") \notin Doing(q)'
                  => /\ ticket'[q].at = "ready" /\ ticket'[q].new = Mine(q)'
                     /\ ticket'[q].old \subseteq promoted'
                     /\ \A l \in ticket'[q].old \cup ticket'[q].new : <<l, q>> \in leaseTransfers'
    <3>1. Proceeds(q) /\ ~Backs(q)
      <4>1. ~Backs(q) /\ ~GivesUp(q)
        BY <2>9, EmptyProgram DEF Backs, GivesUp, Ending, Doing, Rank, Step
      <4> QED BY <1>0, <1>1, <4>1, Moves
    <3>2. /\ todo[q] # <<>> /\ Doing(q) \subseteq {Head(todo[q])} \cup Doing(q)'
          /\ Head(todo[q]) \in Doing(q) /\ Rank(Head(todo[q])[1]) <= 6
          /\ Step("commit") \in Doing(q)
      BY <2>9, <3>1 DEF Proceeds, Rank, Step
    <3>3. ~Fails(q) \/ Rank(Head(todo[q])[1]) = 7
      BY <1>0, <3>1, <3>2, FailsBacks DEF Rank
    <3>4. Rank(Head(todo[q])[1]) # 7 BY <3>2
    <3>5. ~Commit(q)
      <4>1. ASSUME Commit(q) PROVE FALSE
        <5>1. At(q, "commit") /\ Goes(q) BY <4>1 DEF Commit
        <5>2. Head(todo[q]) = Step("commit") BY <1>0, <5>1, AtStep DEF PlainSteps
        <5>3. Follows(Head(todo[q]), Step("commit"))
          BY <1>0, <2>9, <3>2, <5>1, GoesProceeds
        <5> QED BY <5>2, <5>3 DEF Follows, Step
      <4> QED BY <4>1
    <3>6. ~Resolved(q) /\ ~Unseal(q)
      BY <3>4 DEF Resolved, Unseal, At, Rank
    <3>7. Step("seal") \notin Doing(q)' => q \in sealed'
      <4>1. CASE Step("seal") \notin Doing(q)
        BY <1>0, <2>5, <3>2, <3>6, <4>1 DEF Tickets, Seal
      <4>2. CASE Head(todo[q]) = Step("seal")
        <5>1. At(q, "seal") BY <3>2, <4>2 DEF At, Step
        <5>2. Seal(q) BY <1>1, <3>3, <3>4, <5>1, HeadCases DEF SealFails
        <5> QED BY <5>2 DEF Seal
      <4> QED BY <3>2, <4>1, <4>2
    <3>8. route'[q] # "desktop" => promoted' = promoted /\ \A k \in Kinds : <<q, k>> \notin promoted
      <4>1. route[q] # "desktop" => ~Lend(q) BY <1>0, LeaseRoutes DEF Lend
      <4> QED BY <1>0, <1>1, <2>1, <3>2, <3>5, <4>1, LaunchEffects DEF Tickets
    <3>9. ASSUME ~closed', route'[q] # "desktop", Step("reserve") \notin Doing(q)'
          PROVE  /\ ticket'[q].at = "ready" /\ ticket'[q].new = Mine(q)'
                 /\ ticket'[q].old \subseteq promoted'
                 /\ \A l \in ticket'[q].old \cup ticket'[q].new : <<l, q>> \in leaseTransfers'
      <4>0. Mine(q)' = Mine(q) BY <2>1 DEF Mine
      <4>1. CASE Step("reserve") \notin Doing(q)
        <5>1. ~Reserve(q)
          <6>1. ~At(q, "reserve") BY <1>0, <4>1, AtStep DEF PlainSteps
          <6> QED BY <6>1 DEF Reserve
        <5>2. UNCHANGED <<ticket, leaseTransfers>> BY <2>2, <3>5, <3>6, <5>1
        <5> QED BY <1>0, <2>1, <3>2, <3>8, <3>9, <4>0, <4>1, <5>2 DEF Tickets
      <4>2. CASE Head(todo[q]) = Step("reserve")
        <5>1. At(q, "reserve") BY <3>2, <4>2 DEF At, Step
        <5>2. Reserve(q) /\ ~Fails(q) BY <1>1, <3>3, <3>4, <5>1, HeadCases
        <5>3. /\ owners[q] \subseteq promoted
              /\ ticket' = [ticket EXCEPT ![q] = [old |-> owners[q], new |-> Mine(q), at |-> "ready"]]
              /\ leaseTransfers' = leaseTransfers \cup ((owners[q] \cup Mine(q)) \X {q})
          BY <5>2 DEF Reserve, PrepareLeaseTransfer, Transferable
        <5>4. ticket'[q] = [old |-> owners[q], new |-> Mine(q), at |-> "ready"]
          BY <1>0, <5>3 DEF CoordTypeOK
        <5> QED BY <3>8, <3>9, <4>0, <5>3, <5>4
      <4> QED BY <3>2, <3>9, <4>1, <4>2
    <3> QED BY <3>7, <3>8, <3>9
  <2> QED BY <2>7, <2>8, <2>9 DEF Tickets
<1>2. ASSUME NEW q, NEW how, NEW s, NEW K, NEW w, Begun(q, how, s, K, w) PROVE Tickets'
  <2>1. /\ q \in Runs /\ route[q] = "none" /\ route' = [route EXCEPT ![q] = how]
        /\ OthersStay(q) /\ needs' = [needs EXCEPT ![q] = K]
        /\ Doing(q)' = Forward(how, K) /\ how \in {"create", "restart", "desktop"}
        /\ UNCHANGED <<closed, promoted, ticket, leaseTransfers, sealed>>
    BY <1>2 DEF Begun, Begin, MayBegin, coord
  <2>2. \A r \in Runs \ {q} : /\ Doing(r)' = Doing(r) /\ route'[r] = route[r]
                              /\ needs'[r] = needs[r] /\ Mine(r)' = Mine(r)
    BY <1>0, <2>1 DEF OthersStay, TypeOK, Doing, Mine
  <2>3. \A k \in Kinds : <<q, k>> \notin promoted
    BY <2>1 DEF SharedInv, Unclaimed
  <2>4. /\ Step("seal") \in Doing(q)'
        /\ route'[q] # "desktop" => Step("reserve") \in Doing(q)'
    BY <1>0, <2>1 DEF Forward, Plain, Step, TypeOK
  <2>5. ~closed => ticket[q].at # "consumed"
    BY <1>0, <2>1 DEF Tickets, Ended
  <2> QED BY <1>0, <2>1, <2>2, <2>3, <2>4, <2>5 DEF Tickets, Ended
<1>3. CASE Elsewhere
  <2>1. /\ UNCHANGED <<todo, route, needs, sealed, promoted>>
        /\ UNCHANGED <<closed, ticket, leaseTransfers>> \/ closed'
    BY <1>0, <1>3, ElsewhereEffects
  <2> QED BY <1>0, <2>1 DEF Tickets, Ended, Doing, Mine
<1> QED BY <1>0, <1>1, <1>2, <1>3, NextCases

\* A releaser takes only what it was called for.
LEMMA HandsNext ==
  ASSUME SharedInv, Next
  PROVE  Hands'
<1>0. TypeOK /\ CoordTypeOK /\ Hands BY DEF SharedInv, TypeOK
<1>1. /\ hand \in [Releasers -> SUBSET Claim] /\ sharedLeases \subseteq Claim
      /\ \A r \in Runs : /\ Exact(r) \in Releasers /\ Whole(r) \in Releasers
                         /\ Exact(r) # Shutdown /\ Whole(r) # Shutdown
      /\ \A r, q \in Runs : /\ Exact(r) # Whole(q) /\ (Exact(r) = Exact(q) => r = q)
                            /\ (Whole(r) = Whole(q) => r = q)
  BY <1>0 DEF TypeOK, Releasers, Exact, Whole, Shutdown
<1>2. \A h \in Releasers : \A l \in hand[h] : sess'[l[1]] = sess[l[1]]
  <2>1. CASE sess' = sess BY <2>1
  <2>2. ASSUME NEW q, NEW how, NEW s, NEW K, NEW w, Begun(q, how, s, K, w),
               NEW h \in Releasers, NEW l \in hand[h]
        PROVE  sess'[l[1]] = sess[l[1]]
    <3>1. q \in Runs /\ route[q] = "none" /\ sess' = [sess EXCEPT ![q] = s]
      BY <2>2 DEF Begun, Begin, MayBegin
    <3>2. l \in Claim /\ l[1] \in Runs /\ l[2] \in Kinds /\ l = <<l[1], l[2]>>
      BY <1>1, <2>2, ClaimParts
    <3>3. l[1] # q BY <2>2, <3>1, <3>2 DEF SharedInv, Unclaimed
    <3> QED BY <1>0, <3>1, <3>2, <3>3 DEF TypeOK
  <2> QED BY <1>0, <2>1, <2>2, NextCases, LaunchFrame, ElsewhereFrame
<1>3. CASE UNCHANGED hand BY <1>0, <1>1, <1>2, <1>3 DEF Hands
<1>4. ASSUME NEW h \in Releasers, NEW S \in SUBSET Claim, Take(h, S), ReleaseSets(h, S),
             UNCHANGED coord
      PROVE  Hands'
  <2>1. hand' = [hand EXCEPT ![h] = @ \cup (S \cap sharedLeases)]
    BY <1>4 DEF Take
  <2>2. sess' = sess \/ UNCHANGED hand
    <3>1. ASSUME NEW q, NEW how, NEW s, NEW K, NEW w, Begun(q, how, s, K, w)
          PROVE  UNCHANGED hand
      BY <3>1 DEF Begun, Begin, registry
    <3> QED BY <1>0, <3>1, NextCases, LaunchFrame, ElsewhereFrame
  <2>3. CASE sess' = sess
    <3>1. ASSUME NEW r \in Runs, h = Exact(r), S = {r} \X Kinds PROVE Hands'
      BY <1>0, <1>1, <2>1, <2>3, <3>1 DEF Hands
    <3>2. ASSUME NEW s \in Runs, h = Whole(s), S = LeasesOfSession(s) PROVE Hands'
      BY <1>0, <1>1, <2>1, <2>3, <3>2 DEF Hands, LeasesOfSession
    <3> QED BY <1>4, <3>1, <3>2 DEF ReleaseSets
  <2> QED BY <1>3, <2>2, <2>3
<1>5. ASSUME NEW h \in Releasers, NEW m \in hand[h], Drop(h, m) PROVE Hands'
  <2>1. /\ hand' = [hand EXCEPT ![h] = @ \ {m}] /\ sess' = sess
    BY <1>5 DEF Drop, launchState
  <2>2. \A g \in Releasers : hand'[g] \subseteq hand[g] BY <1>1, <2>1
  <2> QED BY <1>0, <1>1, <2>1, <2>2 DEF Hands
<1>6. CASE hand' = [hand EXCEPT ![Shutdown] = sharedLeases]
  <2>1. \A r \in Runs : hand'[Exact(r)] = hand[Exact(r)] /\ hand'[Whole(r)] = hand[Whole(r)]
    BY <1>1, <1>6
  <2> QED BY <1>0, <1>1, <1>2, <2>1 DEF Hands
<1>7. ASSUME NEW r \in Runs, Remember(r) \/ Commit(r) PROVE UNCHANGED hand
  BY <1>7 DEF Remember, Commit
<1> QED BY <1>3, <1>4, <1>5, <1>6, <1>7, HandMoves

\* A run that was live stays so: its launch makes no more leases.
LEMMA RunEndedStays ==
  ASSUME SharedInv, Next, NEW r, NEW s, RunEnded(r, s)
  PROVE  RunEnded(r, s)' /\ \A l \in leases' : l[1] = r => l \in leases
<1>1. /\ r \in Runs /\ sess[r] = s /\ Ended(r)
      /\ \A l \in leases : l[1] = r => l \in promoted
  BY DEF RunEnded
<1>2. /\ Ended(r)' /\ sess'[r] = sess[r] /\ promoted \subseteq promoted'
      /\ \A l \in leases' : l[1] = r => l \in leases
  BY <1>1, EndedStays
<1> QED BY <1>1, <1>2 DEF RunEnded

\* The run that a commit makes live has ended its launch, all but the last steps.
LEMMA CommitEnds ==
  ASSUME SharedInv, NEW q \in Runs, Commit(q)
  PROVE  RunEnded(q, sess[q])' /\ sess' = sess
<1>0. TypeOK /\ Programs BY DEF SharedInv
<1>1. /\ At(q, "commit") /\ Goes(q) /\ todo[q] # <<>> /\ LaunchAct(q)
      /\ Head(todo[q]) = Step("commit") /\ Step("commit") \in Doing(q)
  BY <1>0, AtStep DEF Commit, LaunchAct, LaunchStep, PlainSteps
<1>2. UNCHANGED <<route, sess>> /\ route[q] # "none"
  BY <1>0, <1>1, LaunchFrame DEF Programs
<1>3. ASSUME NEW x \in Doing(q)' PROVE Rank(x[1]) = 7
  <2>1. x \in Doing(q) /\ Follows(Step("commit"), x)
    BY <1>0, <1>1, <1>3, GoesProceeds
  <2>2. Rank("commit") <= Rank(x[1]) /\ x # Step("commit")
    BY <2>1 DEF Follows, Step
  <2>3. x \in AllSteps
    BY <1>0, <2>1 DEF Programs, Program, Doing, ToSet
  <2>4. x[1] = "commit" => x = Step("commit")
    BY <2>3 DEF AllSteps, KindSteps, PlainSteps, Step
  <2> QED BY <2>2, <2>4 DEF Rank
<1>4. ASSUME NEW l \in leases', l[1] = q PROVE l \in promoted'
  <2>1. l \in leases BY <1>4 DEF Commit, coord, CommitLeaseTransfer
  <2>2. /\ l \in Claim /\ l = <<q, KindOf(l)>> /\ KindOf(l) \in needs[q]
        /\ l \notin promoted => route[q] # "desktop"
    BY <1>4, <2>1, ClaimParts DEF SharedInv, Leasing, TypeOK, CoordTypeOK
  <2>3. promoted \subseteq promoted' BY <1>1, LaunchEffects
  <2>4. CASE route[q] # "desktop"
    <3>1. ticket[q].new = Mine(q) BY <1>1, <2>4, CommitReady
    <3>2. promoted' = promoted \cup Mine(q) BY <2>4, <3>1 DEF Commit, CommitLeaseTransfer
    <3> QED BY <2>2, <3>2 DEF Mine
  <2> QED BY <2>2, <2>3, <2>4
<1> QED BY <1>2, <1>3, <1>4 DEF RunEnded, Ended

\* The steps of StopSession, and who holds the gate of a session.
LEMMA StopMoves ==
  ASSUME TypeOK, Next, NEW s \in Runs
  PROVE  \/ stop'[s] = stop[s] /\ (gate'[s] = "stop" => gate[s] = "stop")
         \/ Stop(s) /\ gate' = gate
         \/ (StopCommits(s) \/ StopFails(s)) /\ gate' = gate
         \/ StopReleases(s)
<1>0. /\ stop \in [Runs -> {"no", "asked", "exact", "taken", "whole", "done"} \X (Runs \cup {None})]
      /\ gate \in [Runs -> {"free", "launch", "stop", "watcher"}]
      /\ sess \in [Runs -> Runs]
  BY DEF TypeOK
<1> DEFINE Same == stop'[s] = stop[s] /\ (gate'[s] = "stop" => gate[s] = "stop")
<1>1. ASSUME NEW q \in Runs, LaunchAct(q) PROVE Same
  <2>1. stop' = stop BY <1>1, LaunchFrame
  <2>2. gate' = gate \/ LaunchSweeps(q)
    <3> USE DEF registry
    <3>1. CASE ClaimKind(q) \/ ClaimRefused(q) \/ Fresh(q) \/ Use(q) \/ Effect(q)
      BY <3>1 DEF ClaimKind, ClaimRefused, Fresh, Use, Fails, Effect
    <3>2. CASE EffectFails(q) \/ Mark(q) \/ Unverified(q) \/ Authorize(q) \/ RawStop(q)
      BY <3>2 DEF EffectFails, Mark, Unverified, Fails, Authorize, RawStop
    <3>3. CASE CloseOld(q) \/ BeginRun(q) \/ StartProcess(q) \/ Lease(q) \/ Lend(q)
      BY <3>3 DEF CloseOld, BeginRun, Fails, StartProcess, Lease, Lend
    <3>4. CASE Remember(q) \/ Seal(q) \/ SealFails(q) \/ Owners(q) \/ Reserve(q)
      BY <3>4 DEF Remember, Seal, SealFails, Owners, Reserve, Fails
    <3>5. CASE Commit(q) \/ Unseal(q) \/ Resolve(q) \/ Resolved(q) \/ Unlease(q)
      BY <3>5 DEF Commit, Unseal, Resolve, Resolved, Unlease
    <3>6. CASE Unclaim(q) \/ Disown(q) \/ Untoken(q) \/ Watch(q) \/ StartFails(q)
                 \/ CloseFails(q) \/ CommitFails(q)
      BY <3>6 DEF Unclaim, Disown, Untoken, Watch, StartFails, CloseFails, CommitFails, Fails
    <3> QED BY <1>1, <3>1, <3>2, <3>3, <3>4, <3>5, <3>6 DEF LaunchAct, LaunchStep
  <2>3. CASE LaunchSweeps(q)
    <3>1. sess[q] \in Runs BY <1>0
    <3>2. \/ gate' = [gate EXCEPT ![sess[q]] = "launch"]
          \/ gate' = [gate EXCEPT ![sess[q]] = "free"]
      BY <2>3 DEF LaunchSweeps, Sweep, Swept
    <3> QED BY <1>0, <2>1, <3>1, <3>2
  <2> QED BY <2>1, <2>2, <2>3
<1>2. ASSUME NEW q, NEW how, NEW t, NEW K, NEW w, Begun(q, how, t, K, w) PROVE Same
  BY <1>2 DEF Begun, Begin, registry, ends
<1>3. ASSUME NEW t \in Runs, Stop(t)
      PROVE  Same \/ (Stop(s) /\ gate' = gate)
  BY <1>0, <1>3 DEF Stop, StopTo, registry
<1>4. ASSUME NEW t \in Runs, StopCommits(t) \/ StopFails(t)
      PROVE  Same \/ ((StopCommits(s) \/ StopFails(s)) /\ gate' = gate)
  BY <1>0, <1>4 DEF StopCommits, StopFails, StopTo, registry
<1>5. ASSUME NEW t \in Runs, StopReleases(t)
      PROVE  Same \/ StopReleases(s)
  <2>1. CASE t = s BY <1>5, <2>1
  <2>2. CASE t # s
    <3>1. /\ \E a, r : stop' = [stop EXCEPT ![t] = <<a, r>>]
          /\ gate' = gate \/ \E g : gate' = [gate EXCEPT ![t] = g]
      BY <1>5 DEF StopReleases, StopTo, Sweep, Swept, registry
    <3> QED BY <1>0, <2>2, <3>1
  <2> QED BY <2>1, <2>2
<1>6. ASSUME NEW t \in Runs, Watcher(t) PROVE Same
  <2>1. stop' = stop BY <1>6 DEF Watcher, ends
  <2>2. \/ gate' = gate \/ gate' = [gate EXCEPT ![t] = "watcher"]
        \/ gate' = [gate EXCEPT ![t] = "free"]
    BY <1>6 DEF Watcher, Sweep, Swept, registry
  <2> QED BY <1>0, <2>1, <2>2
<1>7. ASSUME \/ \E r \in Runs : OfferExit(r) \/ ProcessExits(r)
             \/ \E h \in Releasers : \E l \in hand[h] : Drop(h, l)
             \/ \E k \in Kinds : BeginMutation(k)
             \/ \E k \in Headrooms : ServiceStops(k)
             \/ \E k \in Kinds, f \in Configs \cup {Off} : EndMutation(k, f)
             \/ BeginUninstall \/ StopForUninstall \/ EndUninstall \/ Fence \/ ShutdownStep
      PROVE  UNCHANGED <<gate, stop>>
  <2> USE DEF registry, ends
  <2>1. CASE \E r \in Runs : OfferExit(r) \/ ProcessExits(r)
    BY <2>1 DEF OfferExit, ProcessExits
  <2>2. CASE \E h \in Releasers : \E l \in hand[h] : Drop(h, l)
    BY <2>2 DEF Drop
  <2>3. CASE \/ \E k \in Kinds : BeginMutation(k)
             \/ \E k \in Headrooms : ServiceStops(k)
             \/ \E k \in Kinds, f \in Configs \cup {Off} : EndMutation(k, f)
    BY <2>3 DEF BeginMutation, ServiceStops, EndMutation
  <2>4. CASE BeginUninstall \/ StopForUninstall \/ EndUninstall
    BY <2>4 DEF BeginUninstall, StopForUninstall, EndUninstall
  <2>5. CASE Fence \/ ShutdownStep
    BY <2>5 DEF Fence, ShutdownStep, ShutdownTo
  <2> QED BY <1>7, <2>1, <2>2, <2>3, <2>4, <2>5
<1> HIDE DEF Same
<1>8. UNCHANGED <<gate, stop>> => Same BY DEF Same
<1>9. ASSUME Elsewhere
      PROVE  \/ Same \/ StopReleases(s)
             \/ (Stop(s) \/ StopCommits(s) \/ StopFails(s)) /\ gate' = gate
  BY <1>3, <1>4, <1>5, <1>6, <1>7, <1>8, <1>9 DEF Elsewhere
<1>10. \/ Same \/ StopReleases(s)
       \/ (Stop(s) \/ StopCommits(s) \/ StopFails(s)) /\ gate' = gate
  BY <1>1, <1>2, <1>9, NextCases
<1> QED BY <1>10 DEF Same

\* What is in the hand of a sweep stays there until it is dropped.
LEMMA WholeKeeps ==
  ASSUME SharedInv, Next, NEW s \in Runs, NEW l \in hand[Whole(s)], l \in leases'
  PROVE  l \in hand'[Whole(s)]
<1>0. /\ hand \in [Releasers -> SUBSET Claim] /\ Shutdown \in Releasers
      /\ Whole(s) \in Releasers /\ Whole(s) # Shutdown
  BY DEF SharedInv, TypeOK, Releasers, Whole, Shutdown
<1>1. ASSUME NEW h \in Releasers, NEW S \in SUBSET Claim, Take(h, S)
      PROVE  l \in hand'[Whole(s)]
  BY <1>0, <1>1 DEF Take
<1>2. ASSUME NEW q \in Runs, Remember(q) \/ Commit(q) PROVE l \in hand'[Whole(s)]
  BY <1>2 DEF Remember, Commit
<1>3. ASSUME NEW h \in Releasers, NEW m \in hand[h], Drop(h, m) PROVE l \in hand'[Whole(s)]
  BY <1>0, <1>3 DEF Drop, ReleaseExact
<1>4. CASE hand' = [hand EXCEPT ![Shutdown] = sharedLeases]
  BY <1>0, <1>4
<1>5. CASE UNCHANGED hand BY <1>5
<1> QED BY <1>1, <1>2, <1>3, <1>4, <1>5, HandMoves

\* When the sweep of a stop begins, all that is left of its run comes into its
\* hand: whoever else was releasing it is done.
LEMMA SweepTakesAll ==
  ASSUME SharedInv, NEW s \in Runs, RunEnded(stop[s][2], s), hand[Exact(stop[s][2])] = {},
         Sweep(s, "stop"), NEW l \in leases, l[1] = stop[s][2]
  PROVE  l \in hand'[Whole(s)]
<1>0. /\ hand \in [Releasers -> SUBSET Claim] /\ Whole(s) \in Releasers
      /\ TypeOK /\ CoordTypeOK /\ Programs /\ Hands
  BY DEF SharedInv, TypeOK, Releasers, Whole
<1>1. /\ MuFree /\ sharedLeases' = sharedLeases \ LeasesOfSession(s)
      /\ hand'[Whole(s)] = hand[Whole(s)] \cup (LeasesOfSession(s) \cap sharedLeases)
  BY <1>0 DEF Sweep, Take
<1>2. /\ l \in Claim /\ l[1] \in Runs /\ sess[l[1]] = s /\ Ended(l[1]) /\ l \in promoted
  BY <1>0, ClaimParts DEF RunEnded, CoordTypeOK
<1>3. ~At(l[1], "remember")
  BY <1>0, <1>2, AtStep DEF Ended, Rank
<1>4. l \in sharedLeases \/ \E h \in Releasers : l \in hand[h]
  BY <1>2, <1>3 DEF SharedInv, Registered
<1>5. CASE l \in sharedLeases BY <1>1, <1>2, <1>5 DEF LeasesOfSession
<1>6. ASSUME NEW h \in Releasers, l \in hand[h] PROVE l \in hand'[Whole(s)]
  <2>1. ASSUME h = Shutdown PROVE FALSE
    <3>1. shutdown \in {"no", "fenced", "closed", "done"}
      BY <1>0, <1>1 DEF TypeOK, MuFree
    <3> QED BY <1>6, <2>1, <3>1 DEF SharedInv, Closed
  <2>2. ASSUME NEW r \in Runs, h = Exact(r) PROVE FALSE
    <3>1. l[1] = r BY <1>0, <1>6, <2>2 DEF Hands
    <3> QED BY <1>6, <2>2, <3>1
  <2>3. ASSUME NEW t \in Runs, h = Whole(t) PROVE l \in hand'[Whole(s)]
    <3>1. t = s BY <1>0, <1>2, <1>6, <2>3 DEF Hands
    <3> QED BY <1>1, <1>6, <2>3, <3>1
  <2> QED BY <1>6, <2>1, <2>2, <2>3 DEF Releasers, Exact, Whole
<1> QED BY <1>4, <1>5, <1>6

\* A stop discharges what its run was lent.
LEMMA StoppingNext ==
  ASSUME SharedInv, Next
  PROVE  Stopping' /\ StopDischarges'
<1>0. /\ TypeOK /\ CoordTypeOK /\ Programs /\ Stopping /\ StopDischarges
      /\ stop \in [Runs -> {"no", "asked", "exact", "taken", "whole", "done"} \X (Runs \cup {None})]
      /\ live \in [Runs -> Runs \cup {None}]
  BY DEF SharedInv, TypeOK
<1>1. ASSUME NEW s \in Runs, NEW r, r = live'[s], r # None PROVE RunEnded(r, s)'
  <2>1. CASE live[s] = r
    <3>1. RunEnded(r, s) BY <1>0, <1>1, <2>1 DEF Stopping
    <3> QED BY <3>1, RunEndedStays
  <2>2. ASSUME NEW q \in Runs, Commit(q), live[s] # r
        PROVE  s = sess[q] /\ r = q /\ sess' = sess
    <3>1. live' = [live EXCEPT ![sess[q]] = q] /\ sess' = sess BY <2>2 DEF Commit, plan
    <3> QED BY <1>0, <1>1, <2>2, <3>1
  <2>3. ASSUME NEW q \in Runs, Commit(q), live[s] # r PROVE RunEnded(r, s)'
    <3>1. RunEnded(q, sess[q])' BY <2>3, CommitEnds
    <3>2. s = sess'[q] /\ r = q BY <2>2, <2>3
    <3> QED BY <3>1, <3>2 DEF RunEnded
  <2>4. ASSUME NEW q \in Runs, Untoken(q) \/ OfferExit(q) PROVE live[s] = r
    BY <1>0, <1>1, <2>4 DEF Untoken, OfferExit
  <2>5. ASSUME NEW t \in Runs, StopCommits(t) PROVE live[s] = r
    BY <1>0, <1>1, <2>5 DEF StopCommits
  <2>6. ASSUME NEW q, NEW how, NEW t, NEW K, NEW w, Begun(q, how, t, K, w) PROVE live' = live
    BY <2>6 DEF Begun, Begin
  <2> QED BY <1>0, <1>1, <2>1, <2>3, <2>4, <2>5, <2>6, NextCases, LaunchFrame, ElsewhereFrame
<1>2. ASSUME NEW s \in Runs, NEW r, r = stop'[s][2]
      PROVE  /\ stop'[s][1] # "no" => RunEnded(r, s)'
             /\ gate'[s] = "stop" => stop'[s][1] = "whole"
             /\ stop'[s][1] = "whole" =>
                  \A l \in leases' : l[1] = r => l \in hand'[Whole(s)]
             /\ stop'[s][1] = "done" => \A l \in leases' : l[1] # r
  <2>1. CASE stop'[s] = stop[s] /\ (gate'[s] = "stop" => gate[s] = "stop")
    <3>0. r = stop[s][2] BY <1>2, <2>1
    <3>1. stop[s][1] # "no" => RunEnded(r, s)' /\ \A l \in leases' : l[1] = r => l \in leases
      <4>1. stop[s][1] # "no" => RunEnded(r, s) BY <1>0, <3>0 DEF Stopping
      <4> QED BY <4>1, RunEndedStays
    <3>3. ASSUME stop[s][1] = "whole", NEW l \in leases', l[1] = r PROVE l \in hand'[Whole(s)]
      <4>1. l \in hand[Whole(s)] BY <1>0, <3>0, <3>1, <3>3 DEF Stopping
      <4> QED BY <3>3, <4>1, WholeKeeps
    <3>4. stop[s][1] = "done" => \A l \in leases' : l[1] # r
      BY <1>0, <3>0, <3>1 DEF StopDischarges
    <3>5. gate'[s] = "stop" => stop[s][1] = "whole" BY <1>0, <2>1 DEF Stopping
    <3> QED BY <2>1, <3>1, <3>3, <3>4, <3>5
  <2>2. CASE Stop(s) /\ gate' = gate
    <3>1. /\ stop[s][1] = "no" /\ live[s] # None /\ stop'[s] = <<"asked", live[s]>>
      BY <1>0, <2>2 DEF Stop, StopTo
    <3>2. gate'[s] # "stop" BY <1>0, <2>2, <3>1 DEF Stopping
    <3>3. stop'[s][1] = "asked" /\ r = live[s] BY <1>2, <3>1
    <3>4. RunEnded(r, s) BY <1>0, <3>1, <3>3 DEF Stopping
    <3>5. RunEnded(r, s)' BY <3>4, RunEndedStays
    <3> QED BY <3>2, <3>3, <3>5
  <2>3. CASE StopCommits(s) /\ gate' = gate
    <3>1. /\ stop[s][1] = "asked"
          /\ stop'[s] = <<"no", None>> \/ stop'[s] = <<"exact", stop[s][2]>>
      BY <1>0, <2>3 DEF StopCommits, StopTo
    <3>2. gate'[s] # "stop" BY <1>0, <2>3, <3>1 DEF Stopping
    <3>3. stop'[s][1] = "no" \/ (stop'[s][1] = "exact" /\ r = stop[s][2]) BY <1>2, <3>1
    <3>4. CASE stop'[s][1] = "exact" /\ r = stop[s][2]
      <4>1. RunEnded(r, s) BY <1>0, <3>1, <3>4 DEF Stopping
      <4>2. RunEnded(r, s)' BY <4>1, RunEndedStays
      <4> QED BY <3>2, <3>4, <4>2
    <3>5. CASE stop'[s][1] = "no" BY <3>2, <3>5
    <3> QED BY <3>3, <3>4, <3>5
  <2>5. CASE StopFails(s) /\ gate' = gate
    <3>1. stop[s][1] = "asked" /\ stop'[s] = <<"no", None>>
      BY <1>0, <2>5 DEF StopFails, StopTo
    <3>2. gate'[s] # "stop" BY <1>0, <2>5, <3>1 DEF Stopping
    <3> QED BY <1>2, <3>1, <3>2
  <2>4. CASE StopReleases(s)
    <3>0. UNCHANGED coord /\ gate \in [Runs -> {"free", "launch", "stop", "watcher"}]
      BY <1>0, <2>4 DEF StopReleases, TypeOK
    <3>1. r = stop[s][2] BY <1>0, <1>2, <2>4 DEF StopReleases, StopTo
    <3>2. stop[s][1] # "no" => RunEnded(r, s) /\ RunEnded(r, s)'
      <4>1. stop[s][1] # "no" => RunEnded(r, s) BY <1>0, <3>1 DEF Stopping
      <4> QED BY <4>1, RunEndedStays
    <3>3. CASE stop[s][1] = "exact" /\ StopTo(s, "taken", r) /\ gate' = gate
      <4>1. stop'[s][1] = "taken" BY <1>0, <3>3 DEF StopTo
      <4>2. gate'[s] # "stop" BY <1>0, <3>3 DEF Stopping
      <4> QED BY <3>2, <3>3, <4>1, <4>2
    <3>4. CASE /\ stop[s][1] = "taken" /\ hand[Exact(r)] = {}
               /\ Sweep(s, "stop") /\ StopTo(s, "whole", r)
      <4>1. stop'[s][1] = "whole" BY <1>0, <3>4 DEF StopTo
      <4>2. ASSUME NEW l \in leases', l[1] = r PROVE l \in hand'[Whole(s)]
        <5>1. l \in leases BY <3>0, <4>2 DEF coord
        <5>2. RunEnded(stop[s][2], s) BY <3>1, <3>2, <3>4
        <5>3. hand[Exact(stop[s][2])] = {} /\ Sweep(s, "stop") /\ l[1] = stop[s][2]
          BY <3>1, <3>4, <4>2
        <5> QED BY <5>1, <5>2, <5>3, SweepTakesAll
      <4> QED BY <3>2, <3>4, <4>1, <4>2
    <3>5. CASE Swept(s, "stop") /\ StopTo(s, "done", r)
      <4>1. stop'[s][1] = "done" /\ gate'[s] = "free"
        BY <1>0, <3>0, <3>5 DEF StopTo, Swept
      <4>2. stop[s][1] = "whole" BY <1>0, <3>5 DEF Stopping, Swept
      <4>3. \A l \in leases : l[1] # r BY <1>0, <3>1, <3>5, <4>2 DEF Stopping, Swept
      <4>4. leases' = leases BY <3>0 DEF coord
      <4> QED BY <3>2, <4>1, <4>2, <4>3, <4>4
    <3> QED BY <2>4, <3>1, <3>3, <3>4, <3>5 DEF StopReleases, registry
  <2> QED BY <1>0, <2>1, <2>2, <2>3, <2>4, <2>5, StopMoves
<1>3. \A s \in Runs : live'[s] # None => RunEnded(live[s], s)'
  BY <1>1 DEF RunEnded
<1>4. \A s \in Runs :
        /\ stop'[s][1] # "no" => RunEnded(stop[s][2], s)'
        /\ gate'[s] = "stop" => stop'[s][1] = "whole"
        /\ stop'[s][1] = "whole" =>
             \A l \in leases' : l[1] = stop'[s][2] => l \in hand'[Whole(s)]
        /\ stop'[s][1] = "done" => \A l \in leases' : l[1] # stop'[s][2]
  BY <1>2 DEF RunEnded
<1> QED BY <1>3, <1>4 DEF Stopping, StopDischarges

\* The invariant holds at the start,
LEMMA SharedInit ==
  ASSUME Init
  PROVE  SharedInv
<1> USE DEF Init, CoordInit
<1>1. /\ Shutdown \in Releasers
      /\ \A r \in Runs : Exact(r) \in Releasers /\ Whole(r) \in Releasers
  BY DEF Releasers, Shutdown, Exact, Whole
<1>2. \A r \in Runs : Doing(r) = {} /\ todo[r] = <<>>
  BY EmptyProgram DEF Doing
<1>3. None \notin Runs BY LaunchesAssumption
<1>4. CoordTypeOK
  BY DEF CoordTypeOK, NoTicket
<1>5. TypeOK
  <2>1. todo \in [Runs -> Seq(AllSteps)] OBVIOUS
  <2>2. hand \in [Releasers -> SUBSET Claim] OBVIOUS
  <2> QED BY <1>4, <2>1, <2>2, LaunchesAssumption DEF TypeOK
<1>6. Programs BY <1>2, EmptyProgram DEF Programs
<1>7. Unclaimed /\ UsesClaimed /\ Exclusion
  BY <1>2 DEF Unclaimed, UsesClaimed, Exclusion
<1>8. Closed /\ Agreement /\ Fitting /\ LeasesAhead /\ Leasing /\ Registered
  BY <1>1, <1>2 DEF Closed, Agreement, Fitting, LeasesAhead, Leasing, Registered
<1>9. Tickets BY <1>2 DEF Tickets, NoTicket
<1>10. Hands /\ Stopping /\ StopDischarges
  BY <1>1, <1>3 DEF Hands, Stopping, StopDischarges
<1> QED BY <1>5, <1>6, <1>7, <1>8, <1>9, <1>10 DEF SharedInv

\* and every step keeps it.
LEMMA SharedStep ==
  ASSUME SharedInv, [Next]_vars
  PROVE  SharedInv'
<1>1. CASE Next
  BY <1>1, NextTypes, ProgramsNext, UnclaimedNext, UsesClaimedNext, ExclusionNext,
     ClosedNext, AgreementNext, FittingNext, LeasesAheadNext, LeasingNext, RegisteredNext,
     TicketsNext, HandsNext, StoppingNext
     DEF SharedInv
<1>2. CASE UNCHANGED vars
  <2> USE <1>2 DEF vars, coord, launchState, runState, services, changers, registry, ends
  <2>1. TypeOK' BY DEF SharedInv, TypeOK, CoordTypeOK
  <2>2. Programs' /\ Unclaimed' /\ UsesClaimed'
    BY DEF SharedInv, Programs, Unclaimed, UsesClaimed, Doing
  <2>3. Exclusion' /\ Closed' /\ Agreement' /\ Fitting'
    BY DEF SharedInv, Exclusion, Closed, Agreement, Fitting, Serves, KindOf, Doing,
       HeadroomIdle, LeasesOf
  <2>4. LeasesAhead' /\ Leasing' /\ Registered'
    BY DEF SharedInv, LeasesAhead, Leasing, Registered, Doing, At, Kind
  <2>5. Tickets' BY DEF SharedInv, Tickets, Ended, Doing, Mine
  <2>6. Hands' /\ Stopping' /\ StopDischarges'
    BY DEF SharedInv, Hands, Stopping, StopDischarges, RunEnded, Ended, Doing
  <2> QED BY <2>1, <2>2, <2>3, <2>4, <2>5, <2>6 DEF SharedInv
<1> QED BY <1>1, <1>2

-----------------------------------------------------------------------------
(* The theorems                                                            *)

\* SharedInv is invariant: whatever the launches, the releasers, the changers and
\* shutdown do, in any order, every launch stays on its plan and every claim,
\* lease and ticket has an owner.
THEOREM SharedInvariant == Spec => []SharedInv
<1>1. SharedInv /\ [Next]_vars => SharedInv' BY SharedStep
<1> QED BY SharedInit, <1>1, PTL DEF Spec

\* Every variable keeps its type: no launch ever has a step it cannot take.
THEOREM SharedTypes == Spec => []TypeOK
<1>1. SharedInv => TypeOK BY DEF SharedInv
<1> QED BY <1>1, SharedInvariant, PTL

\* While a launch or a run uses a shared service nobody changes, stops or
\* uninstalls it (coordinator.go, admissions; headroom service, uninstall).
THEOREM UsersExcluded == Spec => []UsersExcludeChanges
<1>1. SharedInv => UsersExcludeChanges
  <2> SUFFICES ASSUME SharedInv, ~closed
               PROVE  UsersExcludeChanges
    BY DEF UsersExcludeChanges
  <2>1. /\ mutating \subseteq mutationAdmissions
        /\ \A c \in launchAdmissions \cup leases : KindOf(c) \notin mutationAdmissions
        /\ uninstall \in {"stopping", "removing"} => headroomDraining /\ HeadroomIdle
        /\ uninstall = "removing" => \A k \in Headrooms : service[k] = Off
    BY DEF SharedInv, Exclusion
  <2> QED BY <2>1 DEF UsersExcludeChanges, HeadroomIdle, LeasesOf
<1> QED BY <1>1, SharedInvariant, PTL

\* All users of a service have it in one configuration (coordinator.go:
\* fingerprints are bound by the first claim and compared by the others), and
\* what a run leased is what runs (launch_executor.go checks a running proxy's
\* configuration under the claim): a proxy may only have stopped, or be one that
\* a desktop launch needs.
THEOREM OneConfigAtATime == Spec => []OneConfig
<1>1. SharedInv => OneConfig
  <2> SUFFICES ASSUME SharedInv PROVE OneConfig
    OBVIOUS
  <2>1. Agreement BY DEF SharedInv
  <2>2. \A l \in leases : want[l[1]][KindOf(l)] = entries[KindOf(l)] /\ Serves(l)
    <3>1. leases \subseteq Claim BY DEF SharedInv, TypeOK, CoordTypeOK
    <3>2. \A l \in leases : l[1] \in Runs /\ l[2] \in Kinds /\ l = <<l[1], l[2]>>
      BY <3>1, ClaimParts
    <3>3. \A r \in Runs, k \in Kinds : <<r, k>> \in leases => Serves(<<r, k>>)
      BY DEF SharedInv, Fitting
    <3> QED BY <2>1, <3>2, <3>3 DEF Agreement
  <2>3. ASSUME NEW c \in launchAdmissions, NEW d \in launchAdmissions,
               KindOf(c) = KindOf(d), fingerprint[c] # Unbound
        PROVE  fingerprint[c] = want[d[1]][KindOf(d)]
    BY <2>1, <2>3 DEF Agreement
  <2>4. ASSUME NEW c \in launchAdmissions, NEW d \in leases,
               KindOf(c) = KindOf(d), fingerprint[c] # Unbound
        PROVE  fingerprint[c] = want[d[1]][KindOf(d)]
    BY <2>1, <2>4 DEF Agreement
  <2> QED BY <2>2, <2>3, <2>4 DEF OneConfig
<1> QED BY <1>1, SharedInvariant, PTL

\* A lease always has a launch that is to give it back, or is promoted and then
\* in the registry or in the hand of a releaser (shared_lease_handoff).
THEOREM NoLeaseIsOrphaned == Spec => []NoOrphanLease
<1>1. SharedInv => NoOrphanLease
  <2> SUFFICES ASSUME SharedInv, NEW l \in leases, l \notin promoted
               PROVE  todo[l[1]] # <<>>
    BY DEF SharedInv, Registered, NoOrphanLease
  <2>1. Doing(l[1]) # {} BY DEF SharedInv, Leasing
  <2> QED BY <2>1, EmptyProgram DEF Doing
<1> QED BY <1>1, SharedInvariant, PTL

\* CommitLeaseTransferNoFail never panics: at its commit a launch that makes
\* leases finds its ticket ready and every lease of it still reserved, because
\* the fence of a shutdown waits for whoever is sealed.
THEOREM CommitNeverPanics == Spec => []CommitFindsItsTicket
<1>1. SharedInv => CommitFindsItsTicket
  BY CommitReady DEF CommitFindsItsTicket
<1> QED BY <1>1, SharedInvariant, PTL

\* StopSession returns when its run holds no lease (app.go, StopSession).
THEOREM StopLeavesNothing == Spec => []StopDischarges
<1>1. SharedInv => StopDischarges BY DEF SharedInv
<1> QED BY <1>1, SharedInvariant, PTL

\* Once shutdown has cleared the coordinator no claim or lease appears in it.
THEOREM ClosedForGood == Spec => []ClosedStaysEmpty
<1>1. SharedInv => ClosedStaysEmpty
  BY DEF SharedInv, Closed, ClosedStaysEmpty
<1> QED BY <1>1, SharedInvariant, PTL
=============================================================================
