-------------------------- MODULE SharedCoordinator --------------------------
(***************************************************************************)
(* The coordinator of the services that sessions share: the two Headroom   *)
(* proxies and the Claude credentials (SharedServiceCoordinator).  A launch *)
(* claims every kind its plan depends on before it touches anything, turns *)
(* each claim into a lease of its run, and the lease is released when the  *)
(* run ends.  A mutation of a kind excludes all of them, an uninstall of   *)
(* Headroom drains them, and shutdown closes the coordinator for good.     *)
(*                                                                         *)
(* Every operation is one critical section of the coordinator's mutex, so  *)
(* each is one operator here: its guard or verdict, and the next value of  *)
(* what it changes.  The callers are in SharedLaunches.                    *)
(*                                                                         *)
(* A claim (SharedLaunchAdmission) and the lease it becomes are named by   *)
(* the run r of the launch and the kind k: a launch makes one claim for a  *)
(* kind and at most one lease from it.  A lease that is pending is a lease *)
(* that is not promoted: txn.pending of its transaction holds exactly it.  *)
(***************************************************************************)
EXTENDS Naturals, Sequences, FiniteSets

CONSTANTS
  Runs,          \* one launch, and the run it makes
  Headrooms,     \* the kinds that are a Headroom proxy
  Credentials,   \* the kind of the Claude credentials
  Configs,       \* fingerprints: upstream and port, or the pool's generation
  Off,           \* no service, no entry
  Unbound        \* the fingerprint of a claim made without one

Kinds == Headrooms \cup {Credentials}

ASSUME KindsAssumption ==
  /\ IsFiniteSet(Headrooms) /\ Credentials \notin Headrooms
  /\ Off \notin Configs /\ Unbound \notin Configs \cup {Off}

Claim == Runs \X Kinds

KindOf(c) == c[2]

VARIABLES
  closed,             \* set by ClearAll
  headroomDraining,   \* an uninstall is in its critical section
  launchAdmissions,   \* the claims that no lease has replaced yet
  transactions,       \* launchTransactions
  started,            \* those that started their service
  released,           \* those whose claim was given back
  fingerprint,        \* what each claim was made for
  mutationAdmissions, \* the kinds under mutation
  entries,            \* the fingerprint of each kind's entry
  leases,             \* the leases in the entries
  promoted,           \* the leases whose promoted flag is set
  leaseTransfers,     \* <<lease, r>>: the transfer of launch r holds lease
  ticket              \* the transfer of each launch

coord == <<closed, headroomDraining, launchAdmissions, transactions, started,
           released, fingerprint, mutationAdmissions, entries, leases, promoted,
           leaseTransfers, ticket>>

NoTicket == [old |-> {}, new |-> {}, at |-> "none"]

CoordTypeOK ==
  /\ closed \in BOOLEAN
  /\ headroomDraining \in BOOLEAN
  /\ launchAdmissions \subseteq transactions
  /\ transactions \subseteq Claim
  /\ started \subseteq transactions
  /\ released \subseteq transactions
  /\ fingerprint \in [Claim -> Configs \cup {Off, Unbound}]
  /\ mutationAdmissions \subseteq Kinds
  /\ entries \in [Kinds -> Configs \cup {Off}]
  /\ leases \subseteq Claim
  /\ promoted \subseteq Claim
  /\ leaseTransfers \subseteq Claim \X Runs
  /\ ticket \in [Runs -> [old : SUBSET Claim, new : SUBSET Claim,
                          at : {"none", "ready", "committed", "consumed"}]]

CoordInit ==
  /\ closed = FALSE
  /\ headroomDraining = FALSE
  /\ launchAdmissions = {}
  /\ transactions = {}
  /\ started = {}
  /\ released = {}
  /\ fingerprint = [c \in Claim |-> Unbound]
  /\ mutationAdmissions = {}
  /\ entries = [k \in Kinds |-> Off]
  /\ leases = {}
  /\ promoted = {}
  /\ leaseTransfers = {}
  /\ ticket = [r \in Runs |-> NoTicket]

LeasesOf(k) == {l \in leases : KindOf(l) = k}

Pending(c) == c \in leases \ promoted

Held(l) == \E r \in Runs : <<l, r>> \in leaseTransfers

-----------------------------------------------------------------------------
\* Launch admissions

\* Mutant: a claim is given while the coordinator is closed.
AdmitsWhenClosed(k, f) ==
  /\ k \notin mutationAdmissions
  /\ \A t \in transactions \ released : KindOf(t) = k => fingerprint[t] = f

\* The checks of acquireLaunchAdmission for a claim on kind k made for f: it is
\* compatible with claims for the same f, an unbound one with unbound ones.
Admits(k, f) ==
  /\ ~closed
  /\ ~(k \in Headrooms /\ headroomDraining)
  /\ k \notin mutationAdmissions
  /\ f # Unbound /\ LeasesOf(k) # {} => entries[k] = f
  /\ \A t \in transactions \ released : KindOf(t) = k => fingerprint[t] = f

AcquireLaunchAdmission(c, f) ==
  /\ launchAdmissions' = launchAdmissions \cup {c}
  /\ transactions' = transactions \cup {c}
  /\ fingerprint' = [fingerprint EXCEPT ![c] = f]
  /\ UNCHANGED <<closed, headroomDraining, started, released,
                 mutationAdmissions, entries, leases, promoted,
                 leaseTransfers, ticket>>

\* A transaction that started its service, or whose lease is pending, stays.
ReleaseLaunchAdmissions(S) ==
  LET kept == {t \in S \cap transactions : t \in started \/ Pending(t)}
  IN  /\ launchAdmissions' = launchAdmissions \ S
      /\ transactions' = (transactions \ S) \cup kept
      /\ released' = (released \ S) \cup kept
      /\ UNCHANGED <<closed, headroomDraining, started, fingerprint,
                     mutationAdmissions, entries, leases, promoted,
                     leaseTransfers, ticket>>

Markable(c) == ~closed /\ c \in transactions \ started

MarkLaunchTransactionStarted(c) ==
  /\ started' = started \cup {c}
  /\ UNCHANGED <<closed, headroomDraining, launchAdmissions, transactions,
                 released, fingerprint, mutationAdmissions, entries, leases,
                 promoted, leaseTransfers, ticket>>

\* The launch started the service and nobody else depends on it.
MayCompensate(c) ==
  /\ c \in started
  /\ \A l \in LeasesOf(KindOf(c)) : l = c /\ l \notin promoted
  /\ \A t \in transactions \ {c} :
       KindOf(t) = KindOf(c) => t \in released /\ ~Pending(t)

AuthorizeCompensatingStop(c) ==
  /\ started' = started \ {c}
  /\ IF c \in released /\ ~Pending(c)
       THEN /\ transactions' = transactions \ {c}
            /\ released' = released \ {c}
       ELSE UNCHANGED <<transactions, released>>
  /\ UNCHANGED <<closed, headroomDraining, launchAdmissions, fingerprint,
                 mutationAdmissions, entries, leases, promoted,
                 leaseTransfers, ticket>>

-----------------------------------------------------------------------------
\* Mutations and the uninstall's drain

\* Mutant: only leases keep a mutation out.
MutableDespiteClaims(k) ==
  /\ ~closed
  /\ ~(k \in Headrooms /\ headroomDraining)
  /\ k \notin mutationAdmissions
  /\ LeasesOf(k) = {}

Mutable(k) ==
  /\ ~closed
  /\ ~(k \in Headrooms /\ headroomDraining)
  /\ \A c \in launchAdmissions : KindOf(c) # k
  /\ k \notin mutationAdmissions
  /\ LeasesOf(k) = {}

SetMutation(k, on) ==
  /\ mutationAdmissions' = IF on THEN mutationAdmissions \cup {k}
                                 ELSE mutationAdmissions \ {k}
  /\ UNCHANGED <<closed, headroomDraining, launchAdmissions, transactions,
                 started, released, fingerprint, entries, leases, promoted,
                 leaseTransfers, ticket>>

HeadroomIdle ==
  \A k \in Headrooms :
    LeasesOf(k) = {} /\ k \notin mutationAdmissions
      /\ \A c \in launchAdmissions : KindOf(c) # k

SetDrain(on) ==
  /\ headroomDraining' = on
  /\ UNCHANGED <<closed, launchAdmissions, transactions, started, released,
                 fingerprint, mutationAdmissions, entries, leases, promoted,
                 leaseTransfers, ticket>>

-----------------------------------------------------------------------------
\* Leases

\* Mutant: the entry is replaced under those who lease it.
LeasableAnyhow(c, want) ==
  /\ ~closed
  /\ c \in launchAdmissions \ released
  /\ KindOf(c) \notin mutationAdmissions

\* The checks of acquireLease for the claim c and the fingerprint want.
Leasable(c, want) ==
  /\ ~closed
  /\ c \in launchAdmissions
  /\ c \in transactions \ released
  /\ fingerprint[c] \in {Unbound, want}
  /\ KindOf(c) \notin mutationAdmissions
  /\ entries[KindOf(c)] = want \/ LeasesOf(KindOf(c)) = {}

AcquireLease(c, want, promote) ==
  /\ entries' = [entries EXCEPT ![KindOf(c)] = want]
  /\ leases' = leases \cup {c}
  /\ launchAdmissions' = launchAdmissions \ {c}
  /\ IF promote
       THEN /\ promoted' = promoted \cup {c}
            /\ transactions' = transactions \ {c}
            /\ started' = started \ {c}
       ELSE UNCHANGED <<promoted, transactions, started>>
  /\ UNCHANGED <<closed, headroomDraining, released, fingerprint,
                 mutationAdmissions, leaseTransfers, ticket>>

\* ReleaseExact once no transfer holds any of the leases: it waits for those
\* that one holds.
ReleaseExact(S) ==
  LET done == {t \in S \cap transactions : t \in released \ started}
  IN  /\ \A l \in S : ~Held(l)
      /\ leases' = leases \ S
      /\ transactions' = transactions \ done
      /\ released' = released \ done
      /\ UNCHANGED <<closed, headroomDraining, launchAdmissions, started,
                     fingerprint, mutationAdmissions, entries, promoted,
                     leaseTransfers, ticket>>

-----------------------------------------------------------------------------
\* Transfers

Transferable(old, new) ==
  /\ ~closed
  /\ old \subseteq leases \cap promoted
  /\ new \subseteq leases \ promoted
  /\ \A l \in old \cup new : ~Held(l)

PrepareLeaseTransfer(r, old, new) ==
  /\ ticket' = [ticket EXCEPT ![r] = [old |-> old, new |-> new, at |-> "ready"]]
  /\ leaseTransfers' = leaseTransfers \cup ((old \cup new) \X {r})
  /\ UNCHANGED <<closed, headroomDraining, launchAdmissions, transactions,
                 started, released, fingerprint, mutationAdmissions, entries,
                 leases, promoted>>

\* CommitLeaseTransferNoFail panics when the ticket is not its own any more.
TicketIntact(r) ==
  /\ ticket[r].at = "ready"
  /\ \A l \in ticket[r].old \cup ticket[r].new : <<l, r>> \in leaseTransfers
  /\ ticket[r].old \subseteq promoted
  /\ ticket[r].new \cap promoted = {}

\* Mutant: the leases of the old run stay.
CommitWithoutDelete(r) ==
  /\ promoted' = promoted \cup ticket[r].new
  /\ transactions' = transactions \ ticket[r].new
  /\ started' = started \ ticket[r].new
  /\ released' = released \ ticket[r].new
  /\ ticket' = [ticket EXCEPT ![r].at = "committed"]
  /\ UNCHANGED <<closed, headroomDraining, launchAdmissions, fingerprint,
                 mutationAdmissions, entries, leases, leaseTransfers>>

CommitLeaseTransfer(r) ==
  /\ leases' = leases \ ticket[r].old
  /\ promoted' = promoted \cup ticket[r].new
  /\ transactions' = transactions \ ticket[r].new
  /\ started' = started \ ticket[r].new
  /\ released' = released \ ticket[r].new
  /\ ticket' = [ticket EXCEPT ![r].at = "committed"]
  /\ UNCHANGED <<closed, headroomDraining, launchAdmissions, fingerprint,
                 mutationAdmissions, entries, leaseTransfers>>

\* The locked part of FinishLeaseTransfer and of AbortLeaseTransfer.
ResolveLeaseTransfer(r) ==
  /\ leaseTransfers' = {h \in leaseTransfers : h[2] # r}
  /\ ticket' = [ticket EXCEPT ![r].at = "consumed"]
  /\ UNCHANGED <<closed, headroomDraining, launchAdmissions, transactions,
                 started, released, fingerprint, mutationAdmissions, entries,
                 leases, promoted>>

ClearAll ==
  /\ closed' = TRUE
  /\ headroomDraining' = FALSE
  /\ launchAdmissions' = {}
  /\ transactions' = {}
  /\ started' = {}
  /\ released' = {}
  /\ mutationAdmissions' = {}
  /\ leases' = {}
  /\ leaseTransfers' = {}
  /\ ticket' = [r \in Runs |-> IF \E h \in leaseTransfers : h[2] = r
                                 THEN [ticket[r] EXCEPT !.at = "consumed"]
                                 ELSE ticket[r]]
  /\ UNCHANGED <<fingerprint, entries, promoted>>
=============================================================================
