---------------------------- MODULE AtMostOnceInput ----------------------------
(***************************************************************************)
(* What the canonical input path promises: an input reaches a terminal at  *)
(* most once, and is confirmed to its author only after it did.            *)
(***************************************************************************)
EXTENDS Naturals, Sequences

CONSTANTS
  Messages,     \* the inputs
  Runs          \* the runs of the session whose terminals they may reach

VARIABLES
  delivered,    \* the inputs that reached a terminal, with the run it belongs to
  confirmed     \* the inputs whose author was told

vars == <<delivered, confirmed>>

Reached(m) == \E i \in DOMAIN delivered : delivered[i].msg = m

Init == delivered = <<>> /\ confirmed = {}

Deliver(m, r) ==
  /\ ~Reached(m)
  /\ delivered' = Append(delivered, [msg |-> m, run |-> r])
  /\ UNCHANGED confirmed

Confirm(m) ==
  /\ Reached(m)
  /\ confirmed' = confirmed \cup {m}
  /\ UNCHANGED delivered

Next == \E m \in Messages : Confirm(m) \/ \E r \in Runs : Deliver(m, r)

Spec == Init /\ [][Next]_vars

=============================================================================
