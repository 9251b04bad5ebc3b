----------------------------- MODULE InputExchange -----------------------------
(***************************************************************************)
(* A client and its server exchange the inputs of one session: the outbox, *)
(* the connections between them, the gate and the ledger.                  *)
(***************************************************************************)
EXTENDS InputLedger

vars == <<clientVars, serverVars>>

Init == ClientInit /\ ServerInit

Next ==
  \/ ClientStep /\ UNCHANGED serverVars
  \/ \E r \in Attempts : RawStep(r) \/ GateStep(r)
  \/ \E c \in Conns : ReadStep(c)
  \/ SessionStep

Spec == Init /\ [][Next]_vars

-----------------------------------------------------------------------------
(* The promise                                                             *)

Promise == INSTANCE AtMostOnceInput WITH Runs <- 1..MaxRuns

\* An input reaches a terminal at most once across timeouts, retries,
\* reconnections, restarts and the removal of the session, and the client
\* settles it only if it did.
AtMostOnce == Promise!Spec

-----------------------------------------------------------------------------
(* Types                                                                   *)

Phases == {"none", "lane", "raw", "checked", "returned", "done"} \cup OwnerPhases

ClientStates == {"down", "attaching", "attached", "backoff", "ending", "leaving", "stopped"}

Frames == {AttachFrame} \cup {InputFrame(r) : r \in Attempts}
Events == {Attached, Forbidden, Removed, Terminal} \cup {Ack(r) : r \in Attempts}

\* Every variable has its type; in particular a link carries only frames of
\* attempts that were made, and a timer is never stopped twice (due).
ClientTypeOK ==
  /\ entries \in Seq(Messages) /\ born \in Seq(Messages) /\ confirmed \subseteq Messages
  /\ entryState \in [Messages -> {"none", "pending", "halted", "settled"}]
  /\ attempts \in [Messages -> 0..MaxAttempts] /\ elapsed \subseteq Messages
  /\ charged \in Nat /\ halted \in BOOLEAN /\ paused \in BOOLEAN
  /\ timer \in BOOLEAN /\ due \in Nat /\ (timer => due > 0)
  /\ conn \in 0..MaxConn /\ client \in ClientStates
  /\ typing \in BOOLEAN /\ via \in [Attempts -> 0..MaxConn]
  /\ toServer \in [Conns -> Seq(Frames)] /\ toClient \in [Conns -> Seq(Events)]

ServerTypeOK ==
  /\ link \in [Conns -> {"waiting", "attached", "closed"}]
  /\ lease \in 0..MaxConn /\ held \in BOOLEAN /\ takes \in Nat
  /\ quarantined \in BOOLEAN /\ run \in Nat /\ removed \in BOOLEAN
  /\ lane \in Attempts \cup {NoAttempt}
  /\ reading \in [Conns -> Attempts \cup {NoAttempt}]
  /\ phase \in [Attempts -> Phases]
  /\ current \subseteq Attempts /\ cancelled \subseteq Attempts /\ orphan \subseteq Attempts
  /\ target \in [Attempts -> Nat]
  /\ ledger \in [Messages -> {"none", "pending", "committed", "indeterminate"}]
  /\ delivered \in Seq([msg : Messages, run : Nat])

TypeOK == ClientTypeOK /\ ServerTypeOK

-----------------------------------------------------------------------------
(* Properties                                                              *)

\* Single flight: while an input has been sent and not yet settled or frozen,
\* nothing behind it has been sent.
SingleFlight ==
  \A m \in Range(entries) :
    entryState[m] = "pending" /\ attempts[m] > 0 => m = HeadOf(entries, entryState)

\* An input that is pending in the ledger has exactly one goroutine that will
\* resolve it: nobody else can, and every retry until then is dropped in silence.
PendingHasOwner ==
  \A m \in Messages : ledger[m] = "pending" =>
    Cardinality({r \in Attempts : r[1] = m /\ phase[r] \in OwnerPhases /\ r \notin orphan}) = 1

\* The inputs that reach one terminal reach it in the order they were typed,
\* whatever was lost, frozen or sent again in between.
InOrder ==
  \A i, j \in DOMAIN delivered : i < j /\ delivered[i].run = delivered[j].run =>
    ~\E k, n \in DOMAIN born :
       k < n /\ born[n] = delivered[i].msg /\ born[k] = delivered[j].msg

=============================================================================
