------------------------------ MODULE DeviceFiles ------------------------------
(***************************************************************************)
(* The two files of the remote device store and what a crash leaves of     *)
(* them: the revocation ledger (revocation_ledger.go), append-only, in     *)
(* which a revocation is a prepare line and a commit line, and the         *)
(* snapshot of the paired devices (snapshot_replace.go), rewritten through *)
(* a temporary file and a rename. A line's hash chains it to all the lines *)
(* before it, so the hash of the ledger's head is modelled by the sequence *)
(* of the revocations it stands for.                                       *)
(***************************************************************************)
EXTENDS Naturals, FiniteSets, Sequences, SequencesExt

CONSTANTS
  Device, NoDevice,
  MaxKnown,      \* knownDeviceIDCap and LedgerCommittedTombstoneMax
  MaxTroubles    \* bound: reads, writes, syncs, renames and removals that fail,
                 \* process kills and power losses, in all

ASSUME BoundsAssumption ==
  /\ NoDevice \notin Device
  /\ MaxKnown \in Nat /\ MaxTroubles \in Nat

\* Identities are drawn from far more than may be known.
ASSUME RoomAssumption == IsFiniteSet(Device) => Cardinality(Device) >= MaxKnown

VARIABLES
  header,        \* the ledger file exists and holds its header line
  log, dur,      \* the ledger as it reads now, and what of it a power loss keeps
  snap, olds,    \* the snapshot as it reads now, and those a power loss may leave
  temp,          \* the snapshot's temporary file
  spent          \* faults and crashes so far

fileVars == <<header, log, dur, snap, olds, temp, spent>>

-----------------------------------------------------------------------------
(* The ledger: committed pairs, then what the interrupted append left.      *)

\* The tails an append passes through, in order: nothing, part of the prepare
\* line, the prepare line, part of the commit line.
Tails == {"clean", "cut", "prepare", "cutCommit"}
Written(tail) ==
  CASE tail = "clean" -> 0 [] tail = "cut" -> 1 [] tail = "prepare" -> 2 [] OTHER -> 3

Ledger == [pairs : Seq(Device), tail : Tails, by : Device \cup {NoDevice}]
NewLedger == [pairs |-> <<>>, tail |-> "clean", by |-> NoDevice]

WithTail(l, tail, d) == [l EXCEPT !.tail = tail, !.by = IF tail = "clean" THEN NoDevice ELSE d]
WithPair(l, d) == [pairs |-> Append(l.pairs, d), tail |-> "clean", by |-> NoDevice]
\* Mutant: the tail is dropped with the lines before it.
Emptied(l) == NewLedger

Truncated(l) == WithTail(l, "clean", NoDevice)

\* splitLedgerLines refuses a file whose last line is not ended.
Parses(l) == l.tail \in {"clean", "prepare"}

\* What a power loss may leave of the file: everything up to the last sync,
\* and any part of what was written since; a truncation may be undone.
Survivors(d, l) ==
  IF d.pairs = l.pairs /\ Written(d.tail) >= Written(l.tail)
  THEN {d, l}
  ELSE {f \in [pairs : {SubSeq(l.pairs, 1, n) : n \in Len(d.pairs)..Len(l.pairs)},
               tail : Tails, by : Device \cup {NoDevice}] :
          LET n == Len(f.pairs)
          IN  /\ (n = Len(d.pairs)) => Written(f.tail) >= Written(d.tail)
              /\ (n = Len(l.pairs)) => Written(f.tail) <= Written(l.tail)
              /\ f.by = CASE f.tail = "clean"    -> NoDevice
                          [] n < Len(l.pairs)    -> l.pairs[n + 1]
                          [] OTHER               -> l.by}

-----------------------------------------------------------------------------
(* The snapshot                                                             *)

\* head stands for ledgerSequence and ledgerHeadHash, seen for the devices and
\* whether their lastSeenAt was ever moved, revoked for those with a revokedAt.
View(head, seenAt, gone) ==
  [is |-> "snapshot", head |-> head, seen |-> seenAt, revoked |-> gone]
Absent  == [View(<<>>, <<>>, {}) EXCEPT !.is = "absent"]
Garbage == [View(<<>>, <<>>, {}) EXCEPT !.is = "garbage"]
NewSnapshot == View(<<>>, <<>>, {})

\* reconcileLocked: the snapshot may lag behind the ledger, never lead it, and
\* marks no device as revoked that the ledger has not revoked by then.
Agrees(l, s) ==
  /\ s.is = "snapshot" /\ IsPrefix(s.head, l.pairs) /\ s.revoked \subseteq ToSet(s.head)

\* Mutant: the snapshot's own projection is believed.
ProjectionOnly(l, s) == s.revoked \cap DOMAIN s.seen

\* The revocations in force: the ledger's, over whatever the snapshot says.
Fused(l, s) == (s.revoked \cup ToSet(l.pairs)) \cap DOMAIN s.seen

-----------------------------------------------------------------------------
(* Faults and crashes                                                       *)

Spend(what) ==
  /\ spent.faults + spent.crashes < MaxTroubles
  /\ spent' = [spent EXCEPT ![what] = @ + 1]

Reliable == UNCHANGED spent
Faulty   == Spend("faults")

FilesInit ==
  /\ header = FALSE
  /\ log = NewLedger /\ dur = NewLedger
  /\ snap = Absent /\ olds = {Absent}
  /\ temp = "none"
  /\ spent = [faults |-> 0, crashes |-> 0]
=============================================================================
