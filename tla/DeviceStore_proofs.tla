------------------------ MODULE DeviceStore_proofs ------------------------
EXTENDS DeviceStore, FiniteSetTheorems, SequenceTheorems, TLAPS

(***************************************************************************)
(* The invariants of the device store and of the connections it admits,    *)
(* for any set of devices and connections, any bound on the known devices  *)
(* and any number of faults and crashes.                                   *)
(*                                                                         *)
(* The argument: the ledger file is what the memory holds up to the place  *)
(* of the running append (LogInv), the snapshot in place is one a restart  *)
(* accepts (SnapInv), and every snapshot a power loss may bring back fits  *)
(* in the ledger with the revocations in it (Room). So a store that is     *)
(* ready and at rest is what its files say it is.                          *)
(***************************************************************************)

-----------------------------------------------------------------------------
(* Prefixes, and room in the ledger                                        *)

\* A prefix, element by element.
LEMMA PrefixIs ==
  ASSUME NEW S, NEW s \in Seq(S), NEW t \in Seq(S)
  PROVE  IsPrefix(s, t) <=> Len(s) <= Len(t) /\ \A i \in 1..Len(s) : s[i] = t[i]
<1>1. SubSeq(s, 1, Len(s)) = s
  BY SubSeqFull
<1>2. ASSUME Len(s) <= Len(t)
      PROVE  /\ SubSeq(t, 1, Len(s)) \in Seq(S) /\ Len(SubSeq(t, 1, Len(s))) = Len(s)
             /\ \A i \in 1..Len(s) : SubSeq(t, 1, Len(s))[i] = t[i]
  <2>1. \A i \in 1..Len(s) : t[i] \in S
    BY <1>2
  <2> QED BY <2>1, SubSeqProperties
<1>3. ASSUME Len(s) <= Len(t), \A i \in 1..Len(s) : s[i] = t[i]
      PROVE  s = SubSeq(t, 1, Len(s))
  BY <1>2, <1>3, SeqEqual
<1> QED BY <1>1, <1>2, <1>3 DEF IsPrefix

LEMMA PrefixFacts ==
  ASSUME NEW S
  PROVE  /\ \A s \in Seq(S) : IsPrefix(s, s) /\ IsPrefix(<<>>, s)
         /\ \A s \in Seq(S), t \in Seq(S), u \in Seq(S) :
              IsPrefix(s, t) /\ IsPrefix(t, u) => IsPrefix(s, u)
         /\ \A s \in Seq(S), x \in S : IsPrefix(s, Append(s, x))
         /\ \A s \in Seq(S), t \in Seq(S) : IsPrefix(s, t) => ToSet(s) \subseteq ToSet(t)
         /\ \A s \in Seq(S), t \in Seq(S) : \A n \in Len(s)..Len(t) :
              IsPrefix(s, t) => /\ IsPrefix(s, SubSeq(t, 1, n)) /\ IsPrefix(SubSeq(t, 1, n), t)
                                /\ SubSeq(t, 1, n) \in Seq(S)
<1>1. ASSUME NEW s \in Seq(S) PROVE IsPrefix(s, s) /\ IsPrefix(<<>>, s)
  <2>1. <<>> \in Seq(S) /\ Len(<<>>) = 0 /\ Len(s) \in Nat OBVIOUS
  <2>2. IsPrefix(s, s) BY <2>1, PrefixIs
  <2>3. IsPrefix(<<>>, s)
    <3>1. Len(<<>>) <= Len(s) /\ \A i \in 1..Len(<<>>) : <<>>[i] = s[i] BY <2>1
    <3> QED BY <2>1, <3>1, PrefixIs
  <2> QED BY <2>2, <2>3
<1>2. \A s \in Seq(S), t \in Seq(S), u \in Seq(S) :
        IsPrefix(s, t) /\ IsPrefix(t, u) => IsPrefix(s, u)
  BY PrefixIs
<1>3. ASSUME NEW s \in Seq(S), NEW x \in S PROVE IsPrefix(s, Append(s, x))
  <2>1. /\ Append(s, x) \in Seq(S) /\ Len(s) <= Len(Append(s, x))
        /\ \A i \in 1..Len(s) : s[i] = Append(s, x)[i]
    OBVIOUS
  <2> QED BY <2>1, PrefixIs
<1>4. \A s \in Seq(S), t \in Seq(S) : IsPrefix(s, t) => ToSet(s) \subseteq ToSet(t)
  BY PrefixIs DEF ToSet
<1>5. ASSUME NEW s \in Seq(S), NEW t \in Seq(S), NEW n \in Len(s)..Len(t), IsPrefix(s, t)
      PROVE  /\ IsPrefix(s, SubSeq(t, 1, n)) /\ IsPrefix(SubSeq(t, 1, n), t)
             /\ SubSeq(t, 1, n) \in Seq(S)
  <2>1. n \in Nat /\ n <= Len(t) /\ Len(s) <= n /\ \A i \in 1..n : t[i] \in S
    BY <1>5
  <2>2. /\ SubSeq(t, 1, n) \in Seq(S) /\ Len(SubSeq(t, 1, n)) = n
        /\ \A i \in 1..n : SubSeq(t, 1, n)[i] = t[i]
    BY <2>1, SubSeqProperties
  <2> DEFINE u == SubSeq(t, 1, n)
  <2>3. Len(s) <= Len(t) /\ \A i \in 1..Len(s) : s[i] = t[i]
    BY <1>5, PrefixIs
  <2> HIDE DEF u
  <2>4. Len(s) <= Len(u) /\ \A i \in 1..Len(s) : s[i] = u[i]
    BY <2>1, <2>2, <2>3 DEF u
  <2>5. Len(u) <= Len(t) /\ \A i \in 1..Len(u) : u[i] = t[i]
    BY <2>1, <2>2 DEF u
  <2>6. u \in Seq(S) BY <2>2 DEF u
  <2>7. IsPrefix(s, u) BY <2>4, <2>6, PrefixIs
  <2>8. IsPrefix(u, t) BY <2>5, <2>6, PrefixIs
  <2> QED BY <2>6, <2>7, <2>8 DEF u
<1> QED BY <1>1, <1>2, <1>3, <1>4, <1>5

LEMMA Appended ==
  ASSUME NEW S, NEW s \in Seq(S), NEW x \in S
  PROVE  Append(s, x) \in Seq(S) /\ ToSet(Append(s, x)) = ToSet(s) \cup {x}
<1>1. /\ Append(s, x) \in Seq(S) /\ Len(Append(s, x)) = Len(s) + 1
      /\ \A i \in 1..Len(s) : Append(s, x)[i] = s[i]
      /\ Append(s, x)[Len(s) + 1] = x
  OBVIOUS
<1>2. DOMAIN Append(s, x) = 1..(Len(s) + 1) /\ DOMAIN s = 1..Len(s)
  BY <1>1
<1>3. x \in ToSet(Append(s, x)) BY <1>1, <1>2 DEF ToSet
<1>4. ToSet(s) \subseteq ToSet(Append(s, x)) BY <1>1, <1>2 DEF ToSet
<1>5. ASSUME NEW i \in 1..(Len(s) + 1) PROVE Append(s, x)[i] \in ToSet(s) \cup {x}
  <2>1. CASE i = Len(s) + 1 BY <1>1, <2>1
  <2>2. CASE i # Len(s) + 1
    <3>1. i \in 1..Len(s) BY <2>2
    <3> QED BY <1>1, <1>2, <3>1 DEF ToSet
  <2> QED BY <2>1, <2>2
<1> QED BY <1>1, <1>2, <1>3, <1>4, <1>5 DEF ToSet

\* The devices D and the revocations of l fit in the ledger.
Fits(D, l) == IsFiniteSet(D \cup ToSet(l)) /\ Cardinality(D \cup ToSet(l)) <= MaxKnown

LEMMA FitsLess ==
  ASSUME NEW D, NEW l, NEW E, NEW m, Fits(D, l), E \cup ToSet(m) \subseteq D \cup ToSet(l)
  PROVE  Fits(E, m)
<1> DEFINE X == D \cup ToSet(l)
           Y == E \cup ToSet(m)
<1>1. IsFiniteSet(X) /\ Cardinality(X) <= MaxKnown /\ Y \in SUBSET X
  BY DEF Fits
<1>2. Cardinality(X) \in Nat /\ Cardinality(Y) \in Nat
  BY <1>1, FS_CardinalityType, FS_Subset
<1>3. MaxKnown \in Nat BY BoundsAssumption
<1>4. IsFiniteSet(Y) /\ Cardinality(Y) <= Cardinality(X)
  <2> HIDE DEF X, Y
  <2> QED BY <1>1, FS_Subset
<1> HIDE DEF X, Y
<1>5. IsFiniteSet(Y) /\ Cardinality(Y) <= MaxKnown BY <1>1, <1>2, <1>3, <1>4
<1> QED BY <1>5 DEF Fits, Y

-----------------------------------------------------------------------------
(* The inductive invariant                                                 *)

Seens == UNION {[D -> BOOLEAN] : D \in SUBSET Device}

Snapshots == [is : {"snapshot", "absent", "garbage"}, head : Seq(Device), seen : Seens,
              revoked : SUBSET Device]

\* The places of an operation that writes the snapshot, and of one that appends.
Writing   == {"temp", "rename", "readback"}
Appending == {"prepare", "syncPrepare", "commit", "syncCommit", "reconcile"}

FileTypes ==
  /\ log \in Ledger /\ dur \in Ledger
  /\ snap \in Snapshots /\ olds \in SUBSET Snapshots /\ snap \in olds
  /\ temp \in {"none", "partial", "full"}
  /\ spent \in [faults : Nat, crashes : Nat]

MemTypes ==
  /\ phase \in {"down", "loading", "up"} /\ ready \in BOOLEAN /\ unsafe \in BOOLEAN
  /\ chain \in Seq(Device) /\ seen \in Seens /\ revoked \in SUBSET Device

OpType == [kind : {"none", "create", "seen", "revoke"}, dev : Device \cup {NoDevice},
           at : Writing \cup Appending \cup {"idle", "project"}, conn : SUBSET Conn,
           old : Snapshots, next : Snapshots]

ConnType == [Conn -> [at : Registered \cup {"out", "authenticated", "detached"},
                      dev : Device \cup {NoDevice}]]

AccessTypes ==
  /\ accepting \in BOOLEAN /\ fence \in SUBSET Device /\ rev \in Line /\ conn \in ConnType
  /\ rev.at \in {"store", "fence"} => rev.dev \in Device

Types == FileTypes /\ MemTypes /\ op \in OpType /\ AccessTypes

\* An operation runs only while the store is up and ready; one that revokes does
\* so for the RevokeDevice call that waits for it, and the ledger lacks its device
\* until the commit line is synced.
OpInv ==
  /\ ready => phase = "up"
  /\ op.at = "idle" <=> op = NoOp
  /\ op # NoOp =>
     /\ ready
     /\ \/ op.kind = "create" /\ op.at \in Writing
        \/ op.kind = "seen" /\ op.at \in Writing /\ \E c \in Conn : op.conn = {c}
        \/ /\ op.kind = "revoke" /\ rev = [at |-> "store", dev |-> op.dev]
           /\ op.dev \in DOMAIN seen
           /\ op.at \in Appending => op.dev \notin ToSet(chain)
           /\ op.at = "project" => op.dev \in ToSet(chain)

\* Whichever snapshot a power loss brings back, its devices and the ledger's fit;
\* and the one in place knows all devices the others know.
Room ==
  /\ ready => Fits(DOMAIN seen, chain)
  /\ \A s \in olds :
       /\ Fits(DOMAIN s.seen, log.pairs)
       /\ s.is = "absent" => DOMAIN s.seen = {}
       /\ snap.is # "garbage" => DOMAIN s.seen \subseteq DOMAIN snap.seen

\* What is synced is in the file; and the file holds what the memory does, up to
\* the place of the append.
LogInv ==
  /\ IsPrefix(dur.pairs, log.pairs)
  /\ ready =>
     /\ op.at \notin {"syncPrepare", "commit", "syncCommit", "reconcile"} =>
          log.pairs = chain /\ log.tail = "clean"
     /\ op.at \in {"syncPrepare", "commit"} => log.pairs = chain /\ log.tail = "prepare"
     /\ op.at = "syncCommit" => log.pairs = Append(chain, op.dev) /\ log.tail = "clean"
     /\ op.at = "reconcile" =>
          log.pairs = chain \/ (log.pairs = Append(chain, op.dev) /\ log.tail = "clean")

\* The snapshot in place is one that a restart accepts, with the devices that the
\* memory has, or had before the operation that is writing it.
Agreed ==
  /\ snap.is = "snapshot" /\ IsPrefix(snap.head, chain) /\ snap.revoked \subseteq ToSet(snap.head)
  /\ snap.seen = IF op.kind = "seen" THEN op.old.seen ELSE seen

\* The bytes an operation writes are those of the memory it is to become, and the
\* ones it replaces those of the memory it started from.
NextBytes ==
  /\ op.next.is = "snapshot" /\ op.next.head = chain /\ op.next.revoked = revoked
  /\ op.old.is = "snapshot" /\ op.old.head = chain /\ op.old.revoked \subseteq ToSet(chain)
  /\ op.kind = "create" =>
       /\ op.old.seen = seen /\ DOMAIN seen \subseteq DOMAIN op.next.seen
       /\ DOMAIN op.next.seen \cap ToSet(chain) \subseteq DOMAIN seen
       /\ Fits(DOMAIN op.next.seen, chain)
  /\ op.kind # "create" => op.next.seen = seen /\ DOMAIN op.old.seen = DOMAIN seen
  /\ op.kind = "revoke" => op.old.seen = seen

SnapInv ==
  ready =>
    /\ revoked = (ToSet(chain) \cap DOMAIN seen) \ (IF op.at = "project" THEN {op.dev} ELSE {})
    /\ \/ Agreed
       \/ op.at = "readback" /\ snap \in {op.next, Garbage}
    /\ op.at \in Writing => NextBytes

\* As long as nothing has failed the snapshots follow the synced ledger; so the
\* first restart finds them in agreement.
Orderly ==
  /\ op.at = "reconcile" => spent.faults > 0
  /\ spent = [faults |-> 0, crashes |-> 0] =>
       /\ \A s \in olds :
            s.is # "garbage" /\ IsPrefix(s.head, dur.pairs) /\ s.revoked \subseteq ToSet(s.head)
       /\ ready => IsPrefix(chain, dur.pairs)
       /\ phase # "up" => log.pairs = <<>>
  /\ (/\ phase # "up" /\ spent = [faults |-> 0, crashes |-> 1]
      /\ Parses(log) /\ snap.is # "absent") => Agrees(log, snap)

\* RevokeDevice still has the fence before it.
Cutting(d) == rev.at \in {"store", "fence"} /\ rev.dev = d

\* A connection of a revoked device is fenced off, or about to be cut.
Fencing ==
  /\ phase # "up" => revoked = {} /\ \A c \in Conn : conn[c] = NoConn
  /\ \A d \in revoked, c \in Conn : conn[c].dev = d =>
       /\ d \in fence \/ Cutting(d)
       /\ conn[c].at \in Registered => Cutting(d)

DeviceInv ==
  Types /\ OpInv /\ Room /\ LogInv /\ SnapInv /\ Orderly /\ Fencing

-----------------------------------------------------------------------------
(* The data                                                                *)

LEMMA SeenTypes ==
  /\ <<>> \in Seens
  /\ \A m \in Seens : DOMAIN m \subseteq Device
  /\ \A m \in Seens, d \in Device :
       Beside(m, d) \in Seens /\ DOMAIN Beside(m, d) = DOMAIN m \cup {d}
  /\ \A m \in Seens : \A d \in DOMAIN m :
       [m EXCEPT ![d] = TRUE] \in Seens /\ DOMAIN [m EXCEPT ![d] = TRUE] = DOMAIN m
<1>1. <<>> \in Seens
  <2>1. <<>> \in [{} -> BOOLEAN] OBVIOUS
  <2> QED BY <2>1 DEF Seens
<1>2. ASSUME NEW m \in Seens
      PROVE  /\ DOMAIN m \subseteq Device
             /\ \A d \in Device : Beside(m, d) \in Seens /\ DOMAIN Beside(m, d) = DOMAIN m \cup {d}
             /\ \A d \in DOMAIN m : /\ [m EXCEPT ![d] = TRUE] \in Seens
                                    /\ DOMAIN [m EXCEPT ![d] = TRUE] = DOMAIN m
  <2>1. PICK D \in SUBSET Device : m \in [D -> BOOLEAN] BY DEF Seens
  <2>2. DOMAIN m = D BY <2>1
  <2>3. ASSUME NEW d \in Device PROVE Beside(m, d) \in [D \cup {d} -> BOOLEAN]
    BY <2>1, <2>2 DEF Beside
  <2>4. ASSUME NEW d \in D PROVE [m EXCEPT ![d] = TRUE] \in [D -> BOOLEAN]
    BY <2>1
  <2>5. ASSUME NEW d \in Device
        PROVE  Beside(m, d) \in Seens /\ DOMAIN Beside(m, d) = DOMAIN m \cup {d}
    <3>1. \E E \in SUBSET Device : Beside(m, d) \in [E -> BOOLEAN] BY <2>3
    <3>2. Beside(m, d) \in Seens BY <3>1 DEF Seens
    <3> QED BY <2>2, <2>3, <3>2
  <2>6. ASSUME NEW d \in D
        PROVE  [m EXCEPT ![d] = TRUE] \in Seens /\ DOMAIN [m EXCEPT ![d] = TRUE] = D
    BY <2>4 DEF Seens
  <2> QED BY <2>2, <2>5, <2>6
<1> QED BY <1>1, <1>2

LEMMA SnapshotTypes ==
  /\ \A h \in Seq(Device), m \in Seens, g \in SUBSET Device : View(h, m, g) \in Snapshots
  /\ Absent \in Snapshots /\ Garbage \in Snapshots /\ NewSnapshot \in Snapshots
  /\ Absent.is = "absent" /\ Garbage.is = "garbage" /\ NewSnapshot.is = "snapshot"
  /\ DOMAIN Absent.seen = {} /\ DOMAIN Garbage.seen = {} /\ DOMAIN NewSnapshot.seen = {}
  /\ NewSnapshot.head = <<>> /\ NewSnapshot.revoked = {}
  /\ NoOp \in OpType
<1>1. \A h \in Seq(Device), m \in Seens, g \in SUBSET Device : View(h, m, g) \in Snapshots
  BY DEF View, Snapshots
<1>2. <<>> \in Seq(Device) /\ <<>> \in Seens /\ DOMAIN <<>> = {}
  BY SeenTypes
<1>3. ASSUME NEW v \in Snapshots, NEW x \in {"snapshot", "absent", "garbage"}
      PROVE  LET w == [v EXCEPT !.is = x]
             IN  /\ w \in Snapshots /\ w.is = x /\ w.head = v.head /\ w.seen = v.seen
                 /\ w.revoked = v.revoked
  BY DEF Snapshots
<1>4. /\ NewSnapshot \in Snapshots /\ NewSnapshot.is = "snapshot" /\ NewSnapshot.head = <<>>
      /\ NewSnapshot.seen = <<>> /\ NewSnapshot.revoked = {}
  <2>1. NewSnapshot \in Snapshots BY <1>1, <1>2 DEF NewSnapshot
  <2> QED BY <2>1 DEF NewSnapshot, View
<1>5. Absent = [NewSnapshot EXCEPT !.is = "absent"]
      /\ Garbage = [NewSnapshot EXCEPT !.is = "garbage"]
  BY DEF Absent, Garbage, NewSnapshot
<1>6. /\ Absent \in Snapshots /\ Garbage \in Snapshots
      /\ Absent.is = "absent" /\ Garbage.is = "garbage"
      /\ Absent.seen = <<>> /\ Garbage.seen = <<>>
  BY <1>3, <1>4, <1>5
<1>7. NoOp \in OpType
  BY <1>6 DEF NoOp, OpType
<1> QED BY <1>1, <1>2, <1>3, <1>4, <1>5, <1>6, <1>7

LEMMA LedgerTypes ==
  /\ NewLedger \in Ledger /\ NewLedger.pairs = <<>> /\ NewLedger.tail = "clean"
  /\ \A l \in Ledger :
       /\ l.pairs \in Seq(Device) /\ l.tail \in Tails
       /\ \A t \in Tails, d \in Device \cup {NoDevice} :
            /\ WithTail(l, t, d) \in Ledger
            /\ WithTail(l, t, d).pairs = l.pairs /\ WithTail(l, t, d).tail = t
       /\ Truncated(l) \in Ledger /\ Truncated(l).pairs = l.pairs /\ Truncated(l).tail = "clean"
       /\ \A d \in Device :
            /\ WithPair(l, d) \in Ledger
            /\ WithPair(l, d).pairs = Append(l.pairs, d) /\ WithPair(l, d).tail = "clean"
<1>1. NewLedger \in Ledger /\ NewLedger.pairs = <<>> /\ NewLedger.tail = "clean"
  <2>1. ASSUME NEW p \in Seq(Device)
        PROVE  [pairs |-> p, tail |-> "clean", by |-> NoDevice] \in Ledger
    BY DEF Ledger, Tails
  <2>2. <<>> \in Seq(Device) OBVIOUS
  <2>3. NewLedger \in Ledger BY <2>1, <2>2 DEF NewLedger
  <2>4. NewLedger.pairs = <<>> BY DEF NewLedger
  <2>5. NewLedger.tail = "clean" BY DEF NewLedger
  <2> QED BY <2>3, <2>4, <2>5
<1>2. ASSUME NEW l \in Ledger
      PROVE  /\ l.pairs \in Seq(Device) /\ l.tail \in Tails
             /\ \A t \in Tails, d \in Device \cup {NoDevice} :
                  /\ WithTail(l, t, d) \in Ledger
                  /\ WithTail(l, t, d).pairs = l.pairs /\ WithTail(l, t, d).tail = t
  BY DEF Ledger, Tails, WithTail
<1>3. ASSUME NEW l \in Ledger
      PROVE  Truncated(l) \in Ledger /\ Truncated(l).pairs = l.pairs /\ Truncated(l).tail = "clean"
  BY DEF Ledger, Tails, WithTail, Truncated
<1>4. ASSUME NEW l \in Ledger, NEW d \in Device
      PROVE  /\ WithPair(l, d) \in Ledger
             /\ WithPair(l, d).pairs = Append(l.pairs, d) /\ WithPair(l, d).tail = "clean"
  <2>1. Append(l.pairs, d) \in Seq(Device) BY DEF Ledger
  <2> QED BY <2>1 DEF Ledger, Tails, WithPair
<1> QED BY <1>1, <1>2, <1>3, <1>4

\* What a power loss leaves of the ledger is between what was synced and what was
\* written.
LEMMA SurvivorsBetween ==
  ASSUME NEW d \in Ledger, NEW l \in Ledger, IsPrefix(d.pairs, l.pairs),
         NEW f \in Survivors(d, l)
  PROVE  f \in Ledger /\ IsPrefix(d.pairs, f.pairs) /\ IsPrefix(f.pairs, l.pairs)
<1>1. /\ d.pairs \in Seq(Device) /\ l.pairs \in Seq(Device)
      /\ IsPrefix(d.pairs, d.pairs) /\ IsPrefix(l.pairs, l.pairs)
  BY LedgerTypes, PrefixFacts
<1>2. CASE f \in {d, l}
  BY <1>1, <1>2
<1>3. CASE f \notin {d, l}
  <2>1. /\ f.pairs \in {SubSeq(l.pairs, 1, n) : n \in Len(d.pairs)..Len(l.pairs)}
        /\ f = [pairs |-> f.pairs, tail |-> f.tail, by |-> f.by]
        /\ f.tail \in Tails /\ f.by \in Device \cup {NoDevice}
    BY <1>3 DEF Survivors
  <2>2. PICK n \in Len(d.pairs)..Len(l.pairs) : f.pairs = SubSeq(l.pairs, 1, n)
    BY <2>1
  <2>3. /\ f.pairs \in Seq(Device) /\ IsPrefix(d.pairs, f.pairs) /\ IsPrefix(f.pairs, l.pairs)
    BY <1>1, <2>2, PrefixFacts
  <2>4. f \in Ledger BY <2>1, <2>3 DEF Ledger
  <2> QED BY <2>3, <2>4
<1> QED BY <1>2, <1>3

\* A write that a crash interrupts ends within the pair it appends.
LEMMA InterruptedIs ==
  ASSUME log \in Ledger, op \in OpType, NEW l \in Interrupted
  PROVE  l \in Ledger /\ l.pairs = log.pairs /\ (op.at \notin {"prepare", "commit"} => l = log)
<1>1. op.dev \in Device \cup {NoDevice} /\ "cut" \in Tails /\ "cutCommit" \in Tails
  BY DEF OpType, Tails
<1>2. l = log \/ l = WithTail(log, "cut", op.dev) \/ l = WithTail(log, "cutCommit", op.dev)
  BY DEF Interrupted
<1>3. op.at \notin {"prepare", "commit"} => l = log
  BY DEF Interrupted
<1> QED BY <1>1, <1>2, <1>3, LedgerTypes

LEMMA SpendTypes ==
  ASSUME spent \in [faults : Nat, crashes : Nat]
  PROVE  /\ Reliable => spent' = spent
         /\ Faulty => /\ spent' \in [faults : Nat, crashes : Nat]
                      /\ spent'.faults > 0 /\ spent'.crashes = spent.crashes
         /\ Spend("crashes") => /\ spent' \in [faults : Nat, crashes : Nat]
                                /\ spent'.crashes = spent.crashes + 1
                                /\ spent'.faults = spent.faults
BY DEF Reliable, Faulty, Spend

-----------------------------------------------------------------------------
(* The steps                                                               *)

\* A connection ends, or goes on without becoming registered.
Calms ==
  \A c \in Conn :
    \/ conn'[c] = NoConn
    \/ /\ conn'[c].dev = conn[c].dev
       /\ conn'[c].at \in Registered => conn[c].at \in Registered

LEMMA ConnMoves ==
  ASSUME conn \in ConnType, NEW S
  PROVE  /\ conn' = Ended(S) => conn' \in ConnType /\ Calms
         /\ conn' = Detached(S) =>
              /\ conn' \in ConnType /\ Calms
              /\ \A c \in Conn : c \in S => conn'[c].at = "detached"
         /\ conn' = conn => conn' \in ConnType /\ Calms
<1>1. NoConn \in [at : Registered \cup {"out", "authenticated", "detached"},
                  dev : Device \cup {NoDevice}]
  BY DEF NoConn
<1>2. ASSUME conn' = Ended(S) PROVE conn' \in ConnType /\ Calms
  BY <1>1, <1>2 DEF Ended, ConnType, Calms
<1>3. ASSUME conn' = Detached(S)
      PROVE  /\ conn' \in ConnType /\ Calms
             /\ \A c \in Conn : c \in S => conn'[c].at = "detached"
  BY <1>3 DEF Detached, ConnType, Calms, Registered
<1>4. ASSUME conn' = conn PROVE conn' \in ConnType /\ Calms
  BY <1>4 DEF Calms
<1> QED BY <1>2, <1>3, <1>4

LEMMA Returns ==
  ASSUME AccessTypes, OpInv, op # NoOp, NEW out, Return(out)
  PROVE  /\ op' = NoOp /\ UNCHANGED <<accepting, fence>>
         /\ conn' \in ConnType /\ Calms /\ rev' \in Line
         /\ op.kind = "revoke" =>
              rev' = [rev EXCEPT !.at = IF out = "indeterminate" THEN "latch" ELSE "fence"]
         /\ op.kind # "revoke" => rev' = rev
<1>0. op' = NoOp /\ UNCHANGED <<accepting, fence>> /\ conn \in ConnType /\ rev \in Line
  BY DEF Return, AccessTypes
<1>1. CASE op.kind = "revoke"
  <2>1. /\ rev' = [rev EXCEPT !.at = IF out = "indeterminate" THEN "latch" ELSE "fence"]
        /\ conn' = conn
    BY <1>1 DEF Return, Answered
  <2> QED BY <1>0, <1>1, <2>1, ConnMoves DEF Line
<1>2. CASE op.kind = "seen"
  <2>1. PICK c \in Conn : op.conn = {c} BY <1>2 DEF OpInv
  <2>2. Touched(c, out) /\ rev' = rev BY <1>2, <2>1 DEF Return
  <2>3. \/ conn' = conn \/ conn' = Ended({c})
        \/ conn[c].at = "touching" /\ conn' = [conn EXCEPT ![c].at = "serving"]
    BY <2>2 DEF Touched
  <2>4. ASSUME conn[c].at = "touching", conn' = [conn EXCEPT ![c].at = "serving"]
        PROVE  conn' \in ConnType /\ Calms
    BY <1>0, <2>4 DEF ConnType, Calms, Registered
  <2> QED BY <1>0, <1>2, <2>2, <2>3, <2>4, ConnMoves
<1>3. CASE op.kind = "create"
  <2>1. rev' = rev /\ conn' = conn BY <1>3 DEF Return
  <2> QED BY <1>0, <1>3, <2>1, ConnMoves
<1> QED BY <1>0, <1>1, <1>2, <1>3 DEF OpInv

\* The steps that only connections, the registry and the RevokeDevice call see.
Access ==
  \/ BudgetRefused \/ \E c \in Conn : TouchRefused(c)
  \/ \E c \in Conn, d \in Device : Authenticate(c, d)
  \/ StartServer \/ StopServer \/ RegistryStep

LEMMA AccessFrame ==
  ASSUME Access
  PROVE  /\ UNCHANGED <<log, dur, snap, olds, temp, spent>>
         /\ UNCHANGED <<phase, ready, chain, seen, revoked, op>>
<1> USE DEF FilesStay, Reliable, MemStays, memVars
<1>1. CASE BudgetRefused BY <1>1 DEF BudgetRefused
<1>2. CASE \E c \in Conn : TouchRefused(c) BY <1>2 DEF TouchRefused
<1>3. CASE \E c \in Conn, d \in Device : Authenticate(c, d) BY <1>3 DEF Authenticate
<1>4. CASE StartServer BY <1>4 DEF StartServer
<1>5. CASE StopServer BY <1>5 DEF StopServer
<1>6. CASE RegistryStep BY <1>6 DEF RegistryStep
<1> QED BY <1>1, <1>2, <1>3, <1>4, <1>5, <1>6 DEF Access

LEMMA NextCases ==
  ASSUME Next
  PROVE  \/ Access
         \/ Create \/ (\E d \in Device : RevokeDevice(d)) \/ \E c \in Conn : TouchSeen(c)
         \/ WriteTemp \/ Rename \/ ReadBack
         \/ AppendRefused \/ WritePrepare \/ SyncPrepare \/ WriteCommit \/ SyncCommit
         \/ Reconcile \/ Project
         \/ Start \/ CreateHeader \/ CreateSnapshot \/ Load \/ LoadFails
         \/ Kill \/ PowerLoss
BY DEF Next, Loading, StoreStep, Access

-----------------------------------------------------------------------------
(* Types                                                                   *)

LEMMA FileTypesNext ==
  ASSUME Types, LogInv, OpInv, Next
  PROVE  FileTypes'
<1>0. /\ FileTypes /\ op \in OpType /\ op.next \in Snapshots /\ op.dev \in Device \cup {NoDevice}
      /\ IsPrefix(dur.pairs, log.pairs)
      /\ Spend("crashes") \/ Reliable \/ Faulty => spent' \in [faults : Nat, crashes : Nat]
  BY SpendTypes DEF Types, FileTypes, OpType, LogInv
<1>a. {"clean", "cut", "prepare", "cutCommit"} = Tails BY DEF Tails
<1> USE <1>0, SnapshotTypes, LedgerTypes DEF FileTypes
<1>1. CASE Access BY <1>1, AccessFrame
<1>2. CASE Create \/ (\E d \in Device : RevokeDevice(d)) \/ \E c \in Conn : TouchSeen(c)
  BY <1>2
     DEF Create, RevokeDevice, TouchSeen, Replace, Scanned, LedgerStays, FilesStay, Reliable
<1>3. CASE WriteTemp BY <1>3 DEF WriteTemp, LedgerStays
<1>4. CASE Rename BY <1>4 DEF Rename, LedgerStays
<1>5. CASE ReadBack BY <1>5 DEF ReadBack, LedgerStays
<1>6. CASE AppendRefused BY <1>6 DEF AppendRefused, FilesStay
<1>7. CASE WritePrepare
  <2>1. \A t \in {"clean", "cut", "prepare"} : WithTail(log, t, op.dev) \in Ledger
    BY <1>a
  <2> QED BY <1>7, <2>1 DEF WritePrepare, AppendStep
<1>8. CASE SyncPrepare BY <1>8 DEF SyncPrepare, AppendStep
<1>9. CASE WriteCommit
  <2>1. WithTail(log, "cutCommit", op.dev) \in Ledger BY <1>a
  <2>2. op.at = "commit" BY <1>9 DEF WriteCommit
  <2>3. op.dev \in Device
    BY <2>2, SeenTypes DEF OpInv, Types, MemTypes, NoOp, Writing
  <2>4. WithPair(log, op.dev) \in Ledger BY <2>3
  <2> QED BY <1>9, <2>1, <2>4 DEF WriteCommit, AppendStep
<1>10. CASE SyncCommit BY <1>10 DEF SyncCommit
<1>11. CASE Reconcile BY <1>11 DEF Reconcile
<1>12. CASE Project
  BY <1>12 DEF Project, Replace, Scanned, LedgerStays
<1>13. CASE Start BY <1>13 DEF Start, FilesStay
<1>14. CASE CreateHeader BY <1>14 DEF CreateHeader
<1>15. CASE CreateSnapshot BY <1>15 DEF CreateSnapshot, LedgerStays
<1>16. CASE Load BY <1>16 DEF Load, Leftover
<1>17. CASE LoadFails BY <1>17 DEF LoadFails
<1>i. Interrupted \subseteq {l \in Ledger : l.pairs = log.pairs}
  BY InterruptedIs DEF Types
<1>18. CASE Kill
  BY <1>18, <1>i DEF Kill, InterruptedTemp
<1>19. CASE PowerLoss
  <2>1. PICK l \in Interrupted : log' \in Survivors(dur, l) BY <1>19 DEF PowerLoss
  <2>2. l \in Ledger /\ IsPrefix(dur.pairs, l.pairs) BY <1>i, <2>1
  <2>3. log' \in Ledger BY <2>1, <2>2, SurvivorsBetween
  <2> QED BY <1>19, <2>3 DEF PowerLoss, InterruptedTemp
<1> QED
  BY <1>1, <1>2, <1>3, <1>4, <1>5, <1>6, <1>7, <1>8, <1>9, <1>10, <1>11, <1>12, <1>13,
     <1>14, <1>15, <1>16, <1>17, <1>18, <1>19, NextCases

LEMMA MemTypesNext ==
  ASSUME Types, OpInv, Next
  PROVE  MemTypes'
<1>0. /\ MemTypes /\ log \in Ledger /\ snap \in Snapshots /\ op.dev \in Device \cup {NoDevice}
      /\ op.old.seen \in Seens /\ op.next.seen \in Seens /\ snap.seen \in Seens
      /\ snap.revoked \subseteq Device
  BY DEF Types, FileTypes, OpType, Snapshots
<1>p. \A out : Projected(out) => seen' \in Seens /\ ready' \in BOOLEAN
  BY <1>0 DEF Projected, MemTypes
<1> USE <1>0 DEF MemTypes, memVars, MemStays, AppendStep
<1>1. CASE Access
  <2>1. unsafe' \in BOOLEAN
    BY <1>1 DEF Access, BudgetRefused, TouchRefused, Authenticate, StartServer, StopServer,
         RegistryStep
  <2> QED BY <1>1, <2>1, AccessFrame
<1>2. CASE Create BY <1>2 DEF Create, Replace
<1>3. CASE \E d \in Device : RevokeDevice(d) BY <1>3 DEF RevokeDevice
<1>4. CASE \E c \in Conn : TouchSeen(c)
  <2>1. PICK c \in Conn : TouchSeen(c) BY <1>4
  <2>2. conn[c].dev \in DOMAIN seen /\ seen' = [seen EXCEPT ![conn[c].dev] = TRUE]
    BY <2>1 DEF TouchSeen, Skips, Current, View
  <2>3. seen' \in Seens BY <2>2, SeenTypes
  <2> QED BY <2>1, <2>3 DEF TouchSeen, Replace
<1>5. CASE WriteTemp BY <1>5, <1>p DEF WriteTemp
<1>6. CASE Rename BY <1>6 DEF Rename
<1>7. CASE ReadBack BY <1>7, <1>p DEF ReadBack
<1>8. CASE AppendRefused BY <1>8 DEF AppendRefused
<1>9. CASE WritePrepare \/ SyncPrepare \/ WriteCommit
  BY <1>9 DEF WritePrepare, SyncPrepare, WriteCommit
<1>10. CASE SyncCommit BY <1>10, LedgerTypes DEF SyncCommit
<1>11. CASE Reconcile BY <1>11, LedgerTypes DEF Reconcile, Failed
<1>12. CASE Project
  <2>1. op.at = "project" BY <1>12 DEF Project
  <2>2. op.dev \in Device
    BY <2>1, SeenTypes DEF OpInv, NoOp, Writing
  <2> QED BY <1>12, <2>2 DEF Project, Replace
<1>13. CASE Start BY <1>13 DEF Start
<1>14. CASE CreateHeader BY <1>14 DEF CreateHeader, NotReady, Started
<1>15. CASE CreateSnapshot BY <1>15 DEF CreateSnapshot, NotReady, Started
<1>16. CASE Load
  BY <1>16, SeenTypes, LedgerTypes DEF Load, NotReady, Started, Fused
<1>17. CASE LoadFails BY <1>17 DEF LoadFails, NotReady, Started
<1>18. CASE Kill \/ PowerLoss
  <2>1. <<>> \in Seq(Device) OBVIOUS
  <2> QED BY <1>18, <2>1, SeenTypes DEF Kill, PowerLoss, Die
<1> QED
  BY <1>1, <1>2, <1>3, <1>4, <1>5, <1>6, <1>7, <1>8, <1>9, <1>10, <1>11, <1>12, <1>13,
     <1>14, <1>15, <1>16, <1>17, <1>18, NextCases

\* A pairing always finds an identity to give.
LEMMA FreshIs ==
  ASSUME Types, Room, Admits
  PROVE  FreshID \in Device \ Known
<1>1. Fits(DOMAIN seen, chain) /\ Cardinality(Known) < MaxKnown BY DEF Room, Admits
<1>2. IsFiniteSet(Known) BY <1>1 DEF Fits, Known
<1>3. ASSUME Device \subseteq Known PROVE FALSE
  <2>1. /\ IsFiniteSet(Device) /\ Cardinality(Device) <= Cardinality(Known)
        /\ Cardinality(Device) \in Nat /\ Cardinality(Known) \in Nat
    BY <1>2, <1>3, FS_Subset, FS_CardinalityType
  <2>2. Cardinality(Device) >= MaxKnown /\ MaxKnown \in Nat
    BY <2>1, RoomAssumption, BoundsAssumption
  <2> QED BY <1>1, <2>1, <2>2
<1>4. \E d \in Device : d \notin Known BY <1>3
<1> QED BY <1>4 DEF FreshID

\* The bytes that an operation finds and those that it writes.
LEMMA Bytes ==
  ASSUME MemTypes
  PROVE  /\ Current \in Snapshots
         /\ Current.is = "snapshot" /\ Current.head = chain /\ Current.seen = seen
         /\ Current.revoked = revoked
         /\ \A m \in Seens :
              LET s == [Current EXCEPT !.seen = m]
              IN  /\ s \in Snapshots /\ s.is = "snapshot" /\ s.head = chain /\ s.seen = m
                  /\ s.revoked = revoked
         /\ \A g \in SUBSET Device :
              LET s == View(chain, seen, g)
              IN  /\ s \in Snapshots /\ s.is = "snapshot" /\ s.head = chain /\ s.seen = seen
                  /\ s.revoked = g
BY DEF MemTypes, Current, View, Snapshots

\* An operation that appends has a device, and so has its projection.
LEMMA OpDevice ==
  ASSUME Types, OpInv, op.at \in Appending \cup {"project"}
  PROVE  /\ op # NoOp /\ op.kind = "revoke" /\ op.dev \in Device /\ op.dev \in DOMAIN seen
         /\ rev = [at |-> "store", dev |-> op.dev] /\ ready
<1>1. op # NoOp BY DEF OpInv, Appending
<1>2. op.at \notin Writing BY DEF Appending, Writing
<1> QED BY <1>1, <1>2, SeenTypes DEF OpInv, Types, MemTypes

LEMMA OpTypeNext ==
  ASSUME Types, OpInv, Room, Next
  PROVE  op' \in OpType
<1>0. /\ op \in OpType /\ NoOp \in OpType /\ MemTypes /\ AccessTypes
      /\ log \in Ledger /\ snap \in Snapshots
  BY SnapshotTypes DEF Types, FileTypes
<1>g. \A s \in Writing \cup Appending \cup {"idle", "project"} : [op EXCEPT !.at = s] \in OpType
  BY <1>0 DEF OpType
<1>r. ASSUME NEW kind, NEW d, NEW c, NEW old, NEW next, Replace(kind, d, c, old, next),
             kind \in {"create", "seen", "revoke"}, d \in Device \cup {NoDevice},
             c \in SUBSET Conn, old \in Snapshots, next \in Snapshots
      PROVE  op' \in OpType
  BY <1>r DEF Replace, OpType, Writing
<1>a. /\ \A x \in Writing : x \in Writing \cup Appending \cup {"idle", "project"}
      /\ \A x \in Appending : x \in Writing \cup Appending \cup {"idle", "project"}
      /\ {"temp", "rename", "readback"} = Writing
      /\ {"prepare", "syncPrepare", "commit", "syncCommit", "reconcile"} = Appending
  BY DEF Writing, Appending
<1>p. \A out : Projected(out) => op' = NoOp
  BY DEF Projected, Return
<1>f. \A out : Failed(out) => op' = NoOp
  BY DEF Failed, Return
<1> USE <1>0
<1>1. CASE Access BY <1>1, AccessFrame
<1>2. CASE Create
  <2>1. FreshID \in Device BY <1>2, FreshIs DEF Create
  <2>2. Beside(seen, FreshID) \in Seens BY <2>1, SeenTypes DEF MemTypes
  <2>3. /\ Current \in Snapshots /\ [Current EXCEPT !.seen = Beside(seen, FreshID)] \in Snapshots
    BY <2>2, Bytes
  <2>4. Replace("create", FreshID, {}, Current, [Current EXCEPT !.seen = Beside(seen, FreshID)])
    BY <1>2 DEF Create
  <2> HIDE DEF FreshID
  <2> QED BY <2>1, <2>3, <2>4, <1>r
<1>3. CASE \E d \in Device : RevokeDevice(d)
  <2>1. PICK d \in Device : RevokeDevice(d) BY <1>3
  <2>2. op' = op \/ op' = [NoOp EXCEPT !.kind = "revoke", !.dev = d, !.at = "prepare"]
    BY <2>1 DEF RevokeDevice
  <2>3. [NoOp EXCEPT !.kind = "revoke", !.dev = d, !.at = "prepare"] \in OpType
    BY DEF OpType, Appending
  <2> QED BY <2>2, <2>3
<1>4. CASE \E c \in Conn : TouchSeen(c)
  <2>1. PICK c \in Conn : TouchSeen(c) BY <1>4
  <2>2. conn[c].dev \in DOMAIN seen BY <2>1 DEF TouchSeen, Skips
  <2>3. conn[c].dev \in Device BY <2>2, SeenTypes DEF MemTypes
  <2>4. /\ Current \in Snapshots
        /\ [Current EXCEPT !.seen = [seen EXCEPT ![conn[c].dev] = TRUE]] \in Snapshots
        /\ Current.seen = seen
    BY <2>2, SeenTypes, Bytes DEF MemTypes
  <2>5. Replace("seen", conn[c].dev, {c}, Current,
                [Current EXCEPT !.seen = [Current.seen EXCEPT ![conn[c].dev] = TRUE]])
    BY <2>1 DEF TouchSeen
  <2> QED BY <2>3, <2>4, <2>5, <1>r
<1>5. CASE WriteTemp BY <1>5, <1>p, <1>g, <1>a DEF WriteTemp, Goto
<1>6. CASE Rename BY <1>6, <1>g, <1>a DEF Rename, Goto
<1>7. CASE ReadBack BY <1>7, <1>p DEF ReadBack
<1>8. CASE AppendRefused BY <1>8 DEF AppendRefused, Return
<1>9. CASE WritePrepare \/ SyncPrepare \/ WriteCommit
  BY <1>9, <1>g, <1>a DEF WritePrepare, SyncPrepare, WriteCommit, Goto
<1>10. CASE SyncCommit BY <1>10, <1>g, <1>a DEF SyncCommit, Goto
<1>11. CASE Reconcile BY <1>11, <1>f, <1>g, <1>a DEF Reconcile, Goto
<1>12. CASE Project
  <2>1. op.dev \in Device BY <1>12, OpDevice DEF Project
  <2>2. revoked' = revoked \cup {op.dev} BY <1>12 DEF Project
  <2>3. /\ revoked' \in SUBSET Device /\ Current \in Snapshots
        /\ View(chain, seen, revoked') \in Snapshots
    BY <2>1, <2>2, Bytes DEF MemTypes
  <2>4. \/ op' = NoOp
        \/ Replace("revoke", op.dev, {}, Current, View(chain, seen, revoked'))
    BY <1>12 DEF Project, Return
  <2> QED BY <2>1, <2>3, <2>4, <1>r
<1>13. CASE Start BY <1>13 DEF Start
<1>14. CASE CreateHeader \/ CreateSnapshot \/ Load \/ LoadFails
  BY <1>14 DEF CreateHeader, CreateSnapshot, Load, LoadFails, NotReady, Started
<1>15. CASE Kill \/ PowerLoss BY <1>15 DEF Kill, PowerLoss, Die
<1> QED
  BY <1>1, <1>2, <1>3, <1>4, <1>5, <1>6, <1>7, <1>8, <1>9, <1>10, <1>11, <1>12, <1>13,
     <1>14, <1>15, NextCases

LEMMA AccessTypesNext ==
  ASSUME Types, OpInv, Next
  PROVE  AccessTypes'
<1>0. /\ AccessTypes /\ op \in OpType /\ MemTypes /\ conn \in ConnType /\ rev \in Line
  BY DEF Types, AccessTypes
<1>c. conn' = conn \/ (\E S : conn' = Ended(S) \/ conn' = Detached(S)) => conn' \in ConnType
  BY <1>0, ConnMoves
<1>a. ASSUME NEW c \in Conn, NEW at \in Registered, conn' = [conn EXCEPT ![c].at = at]
      PROVE  conn' \in ConnType
  BY <1>0, <1>a DEF ConnType
<1>r. ASSUME NEW at \in {"idle", "store", "fence", "latch", "cut"}, rev' = [rev EXCEPT !.at = at]
      PROVE  rev' \in Line /\ rev'.at = at /\ rev'.dev = rev.dev
  BY <1>0, <1>r DEF Line
<1>n. NoCall \in Line /\ NoCall.at = "idle" BY DEF NoCall, Line
<1>s. "registered" \in Registered /\ "touching" \in Registered /\ "serving" \in Registered
  BY DEF Registered
<1>o. ASSUME NEW out, Return(out), op # NoOp PROVE AccessTypes'
  <2>1. /\ UNCHANGED <<accepting, fence>> /\ conn' \in ConnType
        /\ \/ rev' = rev
           \/ /\ op.kind = "revoke"
              /\ rev' = [rev EXCEPT !.at = IF out = "indeterminate" THEN "latch" ELSE "fence"]
    <3>1. op.kind = "revoke" \/ op.kind # "revoke" OBVIOUS
    <3> QED BY <1>0, <1>o, <3>1, Returns
  <2>2. CASE rev' = rev BY <1>0, <2>1, <2>2 DEF AccessTypes
  <2>3. CASE rev' # rev
    <3>1. rev.dev \in Device
      <4>1. op.kind = "revoke" BY <2>1, <2>3
      <4> QED BY <1>0, <1>o, <4>1 DEF OpInv, AccessTypes
    <3>2. PICK at \in {"latch", "fence"} : rev' = [rev EXCEPT !.at = at]
      BY <2>1, <2>3
    <3>3. rev' \in Line /\ rev'.dev = rev.dev BY <3>2, <1>r
    <3> QED BY <1>0, <2>1, <3>1, <3>3 DEF AccessTypes
  <2> QED BY <2>2, <2>3
<1>p. \A out : Projected(out) /\ op # NoOp => AccessTypes'
  BY <1>o DEF Projected
<1> USE <1>0 DEF AccessTypes, accessVars
<1>1. CASE Access
  <2>1. CASE BudgetRefused BY <2>1 DEF BudgetRefused
  <2>2. CASE \E c \in Conn : TouchRefused(c)
    <3>1. PICK c \in Conn : TouchRefused(c) BY <2>2
    <3>2. conn' = Ended({c}) \/ conn' = [conn EXCEPT ![c].at = "serving"]
      BY <3>1 DEF TouchRefused
    <3>3. conn' \in ConnType BY <3>2, <1>a, <1>c, <1>s
    <3> QED BY <3>1, <3>3 DEF TouchRefused
  <2>3. CASE \E c \in Conn, d \in Device : Authenticate(c, d)
    <3>1. PICK c \in Conn, d \in Device : Authenticate(c, d) BY <2>3
    <3>2. conn' = [conn EXCEPT ![c] = [at |-> "authenticated", dev |-> d]]
      BY <3>1 DEF Authenticate
    <3>3. conn' \in ConnType BY <3>2 DEF ConnType
    <3> QED BY <3>1, <3>3 DEF Authenticate
  <2>4. CASE StartServer BY <2>4 DEF StartServer
  <2>5. CASE StopServer
    <3>1. conn' \in ConnType BY <2>5, <1>c DEF StopServer
    <3> QED BY <2>5, <3>1 DEF StopServer
  <2>6. CASE RegistryStep
    <3>1. CASE FenceDevice
      <4>1. rev.dev \in Device \cup {NoDevice} BY DEF Line
      <4>2. conn' \in ConnType BY <3>1, <1>c DEF FenceDevice
      <4>3. rev' \in Line BY <3>1, <1>r DEF FenceDevice
      <4>4. rev.dev \in Device
        BY <3>1 DEF FenceDevice
      <4> QED BY <3>1, <4>2, <4>3, <4>4 DEF FenceDevice
    <3>2. CASE LatchRegistry
      <4>1. conn' \in ConnType BY <3>2, <1>c DEF LatchRegistry
      <4>2. rev' \in Line /\ rev'.at = "cut" BY <3>2, <1>r DEF LatchRegistry
      <4> QED BY <3>2, <4>1, <4>2 DEF LatchRegistry
    <3>3. CASE Terminate
      <4>1. conn' \in ConnType BY <3>3, <1>c DEF Terminate
      <4> QED BY <3>3, <4>1, <1>n DEF Terminate
    <3>4. CASE \E c \in Conn : Register(c) \/ Disconnect(c)
      <4>1. PICK c \in Conn : Register(c) \/ Disconnect(c) BY <3>4
      <4>2. conn' = Ended({c}) \/ conn' = [conn EXCEPT ![c].at = "registered"]
        BY <4>1 DEF Register, Disconnect
      <4>3. conn' \in ConnType BY <4>2, <1>a, <1>c, <1>s
      <4> QED BY <4>1, <4>3 DEF Register, Disconnect
    <3> QED BY <2>6, <3>1, <3>2, <3>3, <3>4 DEF RegistryStep
  <2> QED BY <1>1, <2>1, <2>2, <2>3, <2>4, <2>5, <2>6 DEF Access
<1>2. CASE Create BY <1>2 DEF Create
<1>3. CASE \E d \in Device : RevokeDevice(d)
  <2>1. PICK d \in Device : RevokeDevice(d) BY <1>3
  <2>2. rev' = [at |-> "fence", dev |-> d] \/ rev' = [at |-> "store", dev |-> d]
    BY <2>1 DEF RevokeDevice
  <2>3. rev' \in Line BY <2>2 DEF Line
  <2> QED BY <2>1, <2>3 DEF RevokeDevice
<1>4. CASE \E c \in Conn : TouchSeen(c)
  <2>1. PICK c \in Conn : TouchSeen(c) BY <1>4
  <2>2. conn' \in ConnType BY <2>1, <1>a, <1>s DEF TouchSeen
  <2> QED BY <2>1, <2>2 DEF TouchSeen
<1>5. CASE WriteTemp
  <2>1. op # NoOp BY <1>5 DEF WriteTemp, NoOp
  <2> QED BY <1>5, <2>1, <1>p DEF WriteTemp
<1>6. CASE Rename BY <1>6 DEF Rename
<1>7. CASE ReadBack
  <2>1. op # NoOp BY <1>7 DEF ReadBack, NoOp
  <2> QED BY <1>7, <2>1, <1>p DEF ReadBack
<1>8. CASE AppendRefused
  <2>1. op # NoOp BY <1>8 DEF AppendRefused, NoOp
  <2> QED BY <1>8, <2>1, <1>o DEF AppendRefused
<1>9. CASE WritePrepare \/ SyncPrepare \/ WriteCommit
  BY <1>9 DEF WritePrepare, SyncPrepare, WriteCommit, AppendStep
<1>10. CASE SyncCommit BY <1>10 DEF SyncCommit
<1>11. CASE Reconcile
  <2>1. op # NoOp BY <1>11 DEF Reconcile, NoOp
  <2>2. UNCHANGED accessVars \/ \E out : Return(out)
    BY <1>11 DEF Reconcile, Failed
  <2> QED BY <2>1, <2>2, <1>o
<1>12. CASE Project
  <2>1. op # NoOp BY <1>12 DEF Project, NoOp
  <2>2. UNCHANGED accessVars \/ Return("committed") BY <1>12 DEF Project
  <2> QED BY <2>1, <2>2, <1>o
<1>13. CASE Start \/ CreateHeader \/ CreateSnapshot \/ Load \/ LoadFails
  BY <1>13 DEF Start, CreateHeader, CreateSnapshot, Load, LoadFails
<1>14. CASE Kill \/ PowerLoss
  <2>1. Die BY <1>14 DEF Kill, PowerLoss
  <2>2. [c \in Conn |-> NoConn] \in ConnType BY DEF NoConn, ConnType
  <2> QED BY <2>1, <2>2, <1>n DEF Die
<1> QED
  BY <1>1, <1>2, <1>3, <1>4, <1>5, <1>6, <1>7, <1>8, <1>9, <1>10, <1>11, <1>12, <1>13,
     <1>14, NextCases

-----------------------------------------------------------------------------
(* One operation at a time                                                 *)

\* Where an operation is after a step.
LEMMA Goes ==
  ASSUME op \in OpType, NEW s, Goto(s)
  PROVE  /\ op'.kind = op.kind /\ op'.dev = op.dev /\ op'.at = s /\ op'.conn = op.conn
         /\ op'.old = op.old /\ op'.next = op.next
BY DEF Goto, OpType

LEMMA OpInvNext ==
  ASSUME Types, OpInv, Room, LogInv, Next
  PROVE  OpInv'
<1>0. /\ op \in OpType /\ MemTypes /\ AccessTypes /\ rev \in Line /\ log \in Ledger
  BY DEF Types, AccessTypes, FileTypes
<1>n. /\ NoOp.at = "idle" /\ NoOp.kind = "none" /\ NoOp.dev = NoDevice
      /\ "idle" \notin Writing /\ "idle" \notin Appending
  BY DEF NoOp, Writing, Appending
<1>u. ASSUME UNCHANGED <<phase, ready, seen, chain, rev, op>> PROVE OpInv'
  BY <1>u DEF OpInv
<1>z. ASSUME op' = NoOp, ready' => phase' = "up" PROVE OpInv'
  BY <1>n, <1>z DEF OpInv
\* The operation goes on.
<1>g. ASSUME NEW s, Goto(s), op # NoOp, UNCHANGED <<phase, ready, seen, chain, rev>>,
             op.at \in Writing => s \in Writing,
             op.at \in Appending => s \in Appending, s # "idle", op.at # "project"
      PROVE  OpInv'
  <2>1. /\ op'.kind = op.kind /\ op'.dev = op.dev /\ op'.at = s /\ op'.conn = op.conn
    BY <1>0, <1>g, Goes
  <2>2. op' # NoOp BY <1>g, <1>n, <2>1
  <2>3. /\ ready => phase = "up"
        /\ ready
        /\ \/ op.kind = "create" /\ op.at \in Writing
           \/ op.kind = "seen" /\ op.at \in Writing /\ \E c \in Conn : op.conn = {c}
           \/ /\ op.kind = "revoke" /\ rev = [at |-> "store", dev |-> op.dev]
              /\ op.dev \in DOMAIN seen
              /\ op.at \in Appending => op.dev \notin ToSet(chain)
           /\ op.at = "project" => op.dev \in ToSet(chain)
    BY <1>g DEF OpInv
  <2>4. op.at \in Writing \cup Appending
    <3>1. op.at # "idle" BY <1>g DEF OpInv
    <3> QED BY <1>0, <1>g, <3>1 DEF OpType
  <2>5. CASE op.at \in Writing
    <3>1. s \in Writing /\ s \notin Appending /\ s # "project"
      BY <1>g, <2>5
          DEF Writing, Appending
    <3> QED BY <1>g, <2>1, <2>2, <2>3, <3>1 DEF OpInv
  <2>6. CASE op.at \in Appending
    <3>1. s \in Appending /\ s \notin Writing /\ op.at \notin Writing /\ s # "project"
      BY <1>g, <2>6 DEF Writing, Appending
    <3> QED BY <1>g, <2>1, <2>2, <2>3, <2>6, <3>1 DEF OpInv
  <2> QED BY <2>4, <2>5, <2>6
<1>a. /\ {"temp", "rename", "readback"} = Writing
      /\ {"prepare", "syncPrepare", "commit", "syncCommit", "reconcile"} = Appending
  BY DEF Writing, Appending
<1>b. \A s \in Writing \cup Appending : s # "idle" /\ s # "project" BY DEF Writing, Appending
<1>w. \A s \in Writing : s \notin Appending BY DEF Writing, Appending
<1>p. ASSUME NEW out, Projected(out), phase' = phase PROVE OpInv'
  <2>1. op' = NoOp /\ (ready' => ready) BY <1>p DEF Projected, Return
  <2> QED BY <1>p, <1>z, <2>1 DEF OpInv
<1>f. ASSUME NEW out, Failed(out), phase' = phase PROVE OpInv'
  <2>1. op' = NoOp /\ (ready' => ready) BY <1>f DEF Failed, Return
  <2> QED BY <1>f, <1>z, <2>1 DEF OpInv
<1>i. phase # "up" => ~ready /\ op = NoOp BY DEF OpInv
<1>1. CASE Access
  <2>1. UNCHANGED <<phase, ready, chain, seen, op>> BY <1>1, AccessFrame
  <2>2. rev' = rev \/ rev.at # "store"
    BY <1>1 DEF Access, BudgetRefused, TouchRefused, Authenticate, StartServer, StopServer,
       RegistryStep, FenceDevice, LatchRegistry, Terminate, Register, Disconnect, accessVars
  <2>3. op # NoOp /\ op.kind = "revoke" => rev' = rev
    <3>1. op # NoOp /\ op.kind = "revoke" => rev.at = "store" BY DEF OpInv
    <3> QED BY <2>2, <3>1
  <2> QED BY <2>1, <2>3 DEF OpInv
<1>2. CASE Create
  <2>1. /\ phase = "up" /\ ready /\ UNCHANGED <<phase, ready>>
        /\ op'.kind = "create" /\ op'.at = "temp" /\ op' # NoOp
    BY <1>2, <1>n DEF Create, Replace, Admits, Idle
  <2> QED BY <2>1 DEF OpInv, Writing
<1>3. CASE \E d \in Device : RevokeDevice(d)
  <2>1. PICK d \in Device : RevokeDevice(d) BY <1>3
  <2>2. /\ op = NoOp /\ phase = "up" /\ ready /\ d \in DOMAIN seen
        /\ UNCHANGED <<phase, ready, seen, chain>>
    BY <2>1 DEF RevokeDevice, Idle, MemStays, memVars
  <2>3. CASE d \in ToSet(chain)
    <3>1. op' = NoOp /\ phase' = "up" BY <2>1, <2>2, <2>3 DEF RevokeDevice
    <3> QED BY <3>1, <1>z
  <2>4. CASE d \notin ToSet(chain)
    <3>1. /\ rev' = [at |-> "store", dev |-> d]
          /\ op' = [NoOp EXCEPT !.kind = "revoke", !.dev = d, !.at = "prepare"]
      BY <2>1, <2>4 DEF RevokeDevice
    <3>2. op'.kind = "revoke" /\ op'.dev = d /\ op'.at = "prepare"
      BY <3>1, <1>0, SnapshotTypes DEF OpType
    <3> QED BY <1>n, <2>2, <2>4, <3>1, <3>2 DEF OpInv, Appending
  <2> QED BY <2>3, <2>4
<1>4. CASE \E c \in Conn : TouchSeen(c)
  <2>1. PICK c \in Conn : TouchSeen(c) BY <1>4
  <2>2. /\ phase = "up" /\ ready /\ UNCHANGED <<phase, ready>>
        /\ op'.kind = "seen" /\ op'.at = "temp" /\ op'.conn = {c} /\ op' # NoOp
    BY <2>1, <1>n DEF TouchSeen, Replace, Idle
  <2> QED BY <2>2 DEF OpInv, Writing
<1>5. CASE WriteTemp
  <2>1. CASE Goto("rename")
    <3>1. /\ op.at = "temp" /\ phase' = phase /\ chain' = chain BY <1>5 DEF WriteTemp
    <3>2. \/ UNCHANGED <<seen, ready, accessVars>>
          \/ \E out : Projected(out)
      BY <1>5 DEF WriteTemp
    <3>3. CASE UNCHANGED <<seen, ready, accessVars>>
      <4>1. op # NoOp /\ op.at \in Writing /\ "rename" \in Writing BY <1>a, <1>n, <3>1
      <4> QED BY <1>b, <1>g, <1>w, <2>1, <3>1, <3>3, <4>1 DEF accessVars
    <3> QED BY <3>1, <3>2, <3>3, <1>p
  <2>2. CASE ~Goto("rename")
    <3>1. phase' = phase /\ \E out : Projected(out) BY <1>5, <2>2 DEF WriteTemp
    <3> QED BY <3>1, <1>p
  <2> QED BY <2>1, <2>2
<1>6. CASE Rename
  <2>1. /\ op.at = "rename" /\ Goto("readback") /\ UNCHANGED <<phase, ready, seen, chain, rev>>
    BY <1>6 DEF Rename, MemStays, memVars, accessVars
  <2>2. op # NoOp /\ op.at \in Writing /\ "readback" \in Writing BY <1>a, <1>n, <2>1
  <2> QED BY <1>b, <1>g, <1>w, <2>1, <2>2
<1>7. CASE ReadBack
  <2>1. phase' = phase /\ \E out : Projected(out) BY <1>7 DEF ReadBack
  <2> QED BY <2>1, <1>p
<1>8. CASE AppendRefused
  <2>1. op' = NoOp /\ ~ready' BY <1>8 DEF AppendRefused, Return
  <2> QED BY <2>1, <1>z
<1>9. CASE WritePrepare \/ SyncPrepare \/ WriteCommit
  <2>1. /\ op.at \in Appending
        /\ \E s \in Appending : Goto(s)
        /\ UNCHANGED <<phase, ready, seen, chain, rev>>
    BY <1>9, <1>a
       DEF WritePrepare, SyncPrepare, WriteCommit, AppendStep, MemStays, memVars, accessVars
  <2>2. PICK s \in Appending : Goto(s) BY <2>1
  <2>3. op # NoOp BY <1>n, <2>1
  <2> QED BY <1>b, <1>g, <1>w, <2>1, <2>2, <2>3
<1>v. ASSUME Goto("project"), UNCHANGED <<phase, ready, seen, rev>>, op.at \in Appending,
             chain' = Append(chain, op.dev)
      PROVE  OpInv'
  <2>1. op # NoOp /\ op.at \notin Writing BY <1>n, <1>v, <1>w
  <2>2. op'.kind = op.kind /\ op'.dev = op.dev /\ op'.at = "project"
    BY <1>0, <1>v, Goes
  <2>3. /\ op' # NoOp /\ "project" \notin Appending /\ "project" \notin Writing
        /\ "project" # "idle"
    BY <1>n, <1>b, <2>2
  <2>4. op.dev \in Device /\ chain \in Seq(Device) BY <1>0, <1>v, OpDevice DEF MemTypes
  <2>5. op.dev \in ToSet(chain') BY <1>v, <2>4, Appended
  <2> QED BY <1>v, <2>1, <2>2, <2>3, <2>5 DEF OpInv
<1>10. CASE SyncCommit
  <2>1. CASE Goto("project")
    <3>1. op.at = "syncCommit" /\ op.at \in Appending /\ UNCHANGED <<phase, ready, seen, rev>>
      BY <1>10, <1>a DEF SyncCommit, accessVars
    <3>2. ready BY <3>1, OpDevice
    <3>3. log.pairs = Append(chain, op.dev) BY <3>1, <3>2 DEF LogInv
    <3>4. ~Goto("reconcile")
      <4>1. op'.at = "project" BY <1>0, <2>1, Goes
      <4> QED BY <1>0, <4>1, Goes
    <3>5. chain' = log.pairs BY <1>10, <3>4 DEF SyncCommit
    <3> QED BY <1>v, <2>1, <3>1, <3>3, <3>5
  <2>2. CASE ~Goto("project")
    <3>1. /\ op.at \in Appending /\ Goto("reconcile")
          /\ UNCHANGED <<phase, ready, seen, chain, rev>>
      BY <1>10, <1>a, <2>2 DEF SyncCommit, accessVars
    <3>2. "reconcile" \in Appending BY <1>a
    <3>3. op # NoOp BY <1>n, <3>1
    <3> QED BY <1>b, <1>g, <1>w, <3>1, <3>2, <3>3
  <2> QED BY <2>1, <2>2
<1>11. CASE Reconcile
  <2>1. op.at \in Appending /\ UNCHANGED <<phase, seen>> BY <1>11, <1>a DEF Reconcile
  <2>2. \/ /\ Goto("project") /\ chain' = Append(chain, op.dev)
           /\ UNCHANGED <<ready, accessVars>>
        \/ \E out : Failed(out)
    BY <1>11 DEF Reconcile
  <2> QED BY <2>1, <2>2, <1>f, <1>v DEF accessVars
<1>12. CASE Project
  <2>1. /\ op # NoOp /\ op.kind = "revoke" /\ op.dev \in DOMAIN seen
        /\ rev = [at |-> "store", dev |-> op.dev] /\ ready
    BY <1>12, OpDevice DEF Project
  <2>2. UNCHANGED <<phase, chain, seen>> BY <1>12 DEF Project
  <2>3. \/ op' = NoOp /\ ready' = ready
        \/ /\ op'.kind = "revoke" /\ op'.dev = op.dev /\ op'.at = "temp"
           /\ rev' = rev /\ ready' = ready
    BY <1>12 DEF Project, Replace, Return, accessVars
  <2>4. CASE op' = NoOp BY <1>z, <2>2, <2>3, <2>4 DEF OpInv
  <2>5. CASE op' # NoOp
    <3>1. "temp" \in Writing /\ "temp" \notin Appending BY <1>a, <1>w
    <3> QED BY <1>n, <2>1, <2>2, <2>3, <2>5, <3>1 DEF OpInv
  <2> QED BY <2>4, <2>5
<1>13. CASE Start
  <2>1. /\ phase = "down" /\ op' = op /\ ready' = ready
    BY <1>13 DEF Start, MemStays, memVars
  <2> QED BY <2>1, <1>i, <1>z
<1>14. CASE CreateHeader \/ CreateSnapshot
  <2>1. /\ phase = "loading"
        /\ \/ op' = op /\ ready' = ready
           \/ op' = NoOp /\ ~ready'
    BY <1>14 DEF CreateHeader, CreateSnapshot, NotReady, Started, MemStays, memVars
  <2> QED BY <2>1, <1>i, <1>z
<1>15. CASE Load \/ LoadFails
  <2>1. op' = NoOp /\ phase' = "up" BY <1>15 DEF Load, LoadFails, NotReady, Started
  <2> QED BY <2>1, <1>z
<1>16. CASE Kill \/ PowerLoss
  <2>1. op' = NoOp /\ ~ready' BY <1>16 DEF Kill, PowerLoss, Die
  <2> QED BY <2>1, <1>z
<1> QED
  BY <1>1, <1>2, <1>3, <1>4, <1>5, <1>6, <1>7, <1>8, <1>9, <1>10, <1>11, <1>12, <1>13,
     <1>14, <1>15, <1>16, NextCases

-----------------------------------------------------------------------------
(* Room in the ledger                                                      *)

\* What the memory and the file make of an operation's end.
LEMMA Ends ==
  ASSUME Types, OpInv, Room, SnapInv, op.at \in Writing, NEW out, Projected(out)
  PROVE  /\ ready /\ op # NoOp /\ (ready' <=> out # "indeterminate") /\ op' = NoOp
         /\ Fits(DOMAIN seen', chain) /\ NextBytes
         /\ seen' = IF out = "committed" THEN op.next.seen
                    ELSE IF out = "notCommitted" THEN op.old.seen
                    ELSE seen
<1>1. ready /\ op # NoOp /\ Fits(DOMAIN seen, chain) /\ NextBytes
  BY DEF OpInv, Writing, Room, SnapInv
<1>2. op.kind \in {"create", "seen", "revoke"} BY <1>1 DEF OpInv
<1>3. (ready' <=> out # "indeterminate") /\ op' = NoOp
  BY <1>1 DEF Projected, Return, Types, MemTypes
<1>4. seen' = IF op.kind = "create" /\ out = "committed" THEN op.next.seen
              ELSE IF op.kind = "seen" /\ out = "notCommitted" THEN op.old.seen
              ELSE seen
  BY DEF Projected
<1>5. seen' = IF out = "committed" THEN op.next.seen
              ELSE IF out = "notCommitted" THEN op.old.seen
              ELSE seen
  BY <1>1, <1>2, <1>4 DEF NextBytes
<1>6. Fits(DOMAIN seen', chain)
  <2>1. CASE seen' = op.next.seen /\ op.kind = "create" BY <1>1, <2>1 DEF NextBytes
  <2>2. CASE ~(seen' = op.next.seen /\ op.kind = "create")
    <3>1. DOMAIN seen' = DOMAIN seen BY <1>1, <1>2, <1>4, <2>2 DEF NextBytes
    <3> QED BY <1>1, <3>1
  <2> QED BY <2>1, <2>2
<1> QED BY <1>1, <1>3, <1>5, <1>6

LEMMA RoomNext ==
  ASSUME Types, OpInv, Room, LogInv, SnapInv, Next
  PROVE  Room'
<1>0. /\ MemTypes /\ FileTypes /\ op \in OpType /\ log \in Ledger
      /\ olds \subseteq Snapshots /\ snap \in olds
      /\ log.pairs \in Seq(Device) /\ chain \in Seq(Device)
  BY LedgerTypes DEF Types, FileTypes, MemTypes
<1>u. ASSUME log'.pairs = log.pairs, UNCHANGED <<snap, olds>>,
             ready' => Fits(DOMAIN seen', chain')
      PROVE  Room'
  BY <1>u DEF Room
<1>v. ASSUME log'.pairs = log.pairs, UNCHANGED <<snap, olds, chain>>,
             ready' => ready /\ DOMAIN seen' = DOMAIN seen
      PROVE  Room'
  <2>1. ready' => Fits(DOMAIN seen', chain') BY <1>v DEF Room
  <2> QED BY <1>u, <1>v, <2>1
<1>l. ASSUME NEW l \in Ledger, l.pairs = log.pairs
      PROVE  /\ Truncated(l).pairs = log.pairs
             /\ \A t \in {"clean", "cut", "prepare", "cutCommit"} :
                  op.at \in Appending => WithTail(l, t, op.dev).pairs = log.pairs
  BY <1>l, OpDevice, LedgerTypes DEF Tails
<1>1. CASE Access BY <1>1, <1>v, AccessFrame
<1>2. CASE Create \/ \E d \in Device : RevokeDevice(d)
  <2>1. UNCHANGED <<log, snap, olds, ready, seen, chain>>
    BY <1>2 DEF Create, RevokeDevice, FilesStay, LedgerStays, MemStays, memVars
  <2> QED BY <1>v, <2>1
<1>3. CASE \E c \in Conn : TouchSeen(c)
  <2>1. PICK c \in Conn : TouchSeen(c) BY <1>3
  <2>2. /\ conn[c].dev \in DOMAIN seen /\ seen' = [seen EXCEPT ![conn[c].dev] = TRUE]
        /\ UNCHANGED <<log, snap, olds, chain, ready>>
    BY <2>1 DEF TouchSeen, Skips, Current, View, LedgerStays
  <2> QED BY <1>v, <2>2
<1>4. CASE WriteTemp
  <2>1. UNCHANGED <<log, snap, olds, chain>> /\ op.at \in Writing
    BY <1>4 DEF WriteTemp, LedgerStays, Writing
  <2>2. UNCHANGED <<seen, ready>> \/ \E out : Projected(out) BY <1>4 DEF WriteTemp
  <2>3. ASSUME NEW out, Projected(out) PROVE Room'
    <3>1. Fits(DOMAIN seen', chain') BY <2>1, <2>3, Ends
    <3> QED BY <1>u, <2>1, <3>1
  <2> QED BY <1>v, <2>1, <2>2, <2>3
<1>5. CASE Rename
  <2>1. /\ op.at = "rename" /\ UNCHANGED <<log, ready, seen, chain>>
    BY <1>5 DEF Rename, LedgerStays, MemStays, memVars
  <2>2. ready /\ op # NoOp BY <2>1 DEF OpInv, NoOp
  <2>3. Agreed /\ NextBytes /\ log.pairs = chain /\ Fits(DOMAIN seen, chain)
    BY <2>1, <2>2 DEF SnapInv, LogInv, Room, Writing
  <2>4. CASE snap' = op.next
    <3>1. olds' \subseteq olds \cup {op.next} BY <1>0, <1>5, <2>4 DEF Rename
    <3>2. Fits(DOMAIN op.next.seen, log.pairs) /\ op.next.is = "snapshot"
      BY <2>3 DEF NextBytes
    <3>3. DOMAIN snap.seen \subseteq DOMAIN op.next.seen /\ snap.is # "garbage"
      BY <2>2, <2>3 DEF NextBytes, Agreed, OpInv
    <3> QED BY <2>1, <2>3, <2>4, <3>1, <3>2, <3>3 DEF Room
  <2>5. CASE snap' = Garbage /\ olds' = olds \cup {snap'}
    <3>1. Garbage.is = "garbage" /\ DOMAIN Garbage.seen = {} BY SnapshotTypes
    <3>2. Fits({}, log.pairs)
      BY <2>3, FitsLess
    <3> QED BY <2>1, <2>3, <2>5, <3>1, <3>2 DEF Room
  <2>6. CASE UNCHANGED <<snap, olds>> BY <1>v, <2>1, <2>6
  <2> QED BY <1>5, <2>4, <2>5, <2>6 DEF Rename
<1>6. CASE ReadBack
  <2>1. UNCHANGED <<log, snap, chain>> /\ op.at \in Writing /\ olds' \in {olds, {snap}}
    BY <1>6 DEF ReadBack, LedgerStays, Writing
  <2>2. PICK out : Projected(out) BY <1>6 DEF ReadBack
  <2>3. Fits(DOMAIN seen', chain') BY <2>1, <2>2, Ends
  <2> QED BY <1>0, <2>1, <2>3 DEF Room
<1>7. CASE AppendRefused
  <2>1. UNCHANGED <<log, snap, olds, chain>> /\ ~ready'
    BY <1>7 DEF AppendRefused, FilesStay
  <2> QED BY <1>v, <2>1
<1>8. CASE WritePrepare \/ SyncPrepare
  <2>1. UNCHANGED <<snap, olds, chain, ready, seen>> /\ op.at \in Appending
    BY <1>8 DEF WritePrepare, SyncPrepare, AppendStep, MemStays, memVars, Appending
  <2>2. log'.pairs = log.pairs
    BY <1>8, <1>0, <1>l, <2>1 DEF WritePrepare, SyncPrepare
  <2> QED BY <1>v, <2>1, <2>2
<1>9. CASE WriteCommit
  <2>1. UNCHANGED <<snap, olds, chain, ready, seen>> /\ op.at = "commit"
    BY <1>9 DEF WriteCommit, AppendStep, MemStays, memVars
  <2>2. /\ ready /\ op.kind = "revoke" /\ op.dev \in Device /\ op.dev \in DOMAIN seen
    BY <2>1, OpDevice DEF Appending
  <2>3. Agreed /\ log.pairs = chain /\ Fits(DOMAIN seen, chain)
    BY <2>1, <2>2 DEF SnapInv, LogInv, Room
  <2>4. snap.seen = seen /\ snap.is = "snapshot" BY <2>2, <2>3 DEF Agreed
  <2>5. CASE log' = WithPair(log, op.dev)
    <3>1. log'.pairs = Append(log.pairs, op.dev) BY <1>0, <2>2, <2>5, LedgerTypes
    <3>2. ToSet(log'.pairs) = ToSet(chain) \cup {op.dev} BY <1>0, <2>2, <2>3, <3>1, Appended
    <3>3. ASSUME NEW s \in olds PROVE Fits(DOMAIN s.seen, log'.pairs)
      <4>1. DOMAIN s.seen \subseteq DOMAIN seen BY <2>4 DEF Room
      <4>2. DOMAIN s.seen \cup ToSet(log'.pairs) \subseteq DOMAIN seen \cup ToSet(chain)
        BY <2>2, <3>2, <4>1
      <4> QED BY <2>3, <4>2, FitsLess
    <3> QED BY <2>1, <3>3 DEF Room
  <2>6. CASE log' # WithPair(log, op.dev)
    <3>1. log' \in {log, WithTail(log, "cutCommit", op.dev)} BY <1>9, <2>6 DEF WriteCommit
    <3>2. log'.pairs = log.pairs BY <1>0, <1>l, <2>1, <3>1 DEF Appending
    <3> QED BY <1>v, <2>1, <3>2
  <2> QED BY <2>5, <2>6
<1>c. ASSUME op.at \in Appending, chain' = Append(chain, op.dev), seen' = seen, log' = log,
             UNCHANGED <<snap, olds>>
      PROVE  Room'
  <2>1. ready /\ op.dev \in Device /\ op.dev \in DOMAIN seen BY <1>c, OpDevice
  <2>2. ToSet(chain') = ToSet(chain) \cup {op.dev} BY <1>0, <1>c, <2>1, Appended
  <2>3. Fits(DOMAIN seen, chain) BY <2>1 DEF Room
  <2>4. Fits(DOMAIN seen', chain') BY <1>c, <2>1, <2>2, <2>3, FitsLess
  <2> QED BY <1>c, <1>u, <2>4
<1>10. CASE SyncCommit
  <2>1. /\ UNCHANGED <<log, snap, olds, ready, seen>> /\ op.at = "syncCommit" /\ op.at \in Appending
    BY <1>10 DEF SyncCommit, Appending
  <2>2. log.pairs = Append(chain, op.dev) BY <2>1, OpDevice DEF LogInv
  <2>3. chain' = log.pairs \/ chain' = chain BY <1>10 DEF SyncCommit
  <2> QED BY <1>c, <1>v, <2>1, <2>2, <2>3
<1>11. CASE Reconcile
  <2>1. UNCHANGED <<snap, olds, seen>> /\ op.at \in Appending
    BY <1>11 DEF Reconcile, Appending
  <2>2. CASE chain' = chain
    <3>1. log'.pairs = log.pairs BY <1>11, <1>0, <1>l DEF Reconcile
    <3>2. ready' => ready BY <1>11 DEF Reconcile, Failed
    <3> QED BY <1>v, <2>1, <2>2, <3>1, <3>2
  <2>3. CASE chain' # chain
    <3>1. chain' = Append(chain, op.dev) /\ log' = log
      BY <1>11, <2>3 DEF Reconcile, Failed
    <3> QED BY <1>c, <2>1, <3>1
  <2> QED BY <2>2, <2>3
<1>12. CASE Project
  <2>1. UNCHANGED <<log, snap, olds, ready, seen, chain>> BY <1>12 DEF Project, LedgerStays
  <2> QED BY <1>v, <2>1
<1>13. CASE Start
  <2>1. UNCHANGED <<log, snap, olds, ready, seen, chain>>
    BY <1>13 DEF Start, FilesStay, MemStays, memVars
  <2> QED BY <1>v, <2>1
<1>14. CASE CreateHeader
  <2>1. UNCHANGED <<log, snap, olds, seen, chain>> /\ (ready' => ready)
    BY <1>14 DEF CreateHeader, NotReady, Started, MemStays, memVars
  <2> QED BY <1>v, <2>1
<1>15. CASE CreateSnapshot
  <2>1. UNCHANGED <<log, seen, chain>> /\ (ready' => ready) /\ snap.is = "absent"
    BY <1>15 DEF CreateSnapshot, NotReady, Started, MemStays, memVars, LedgerStays
  <2>2. CASE UNCHANGED <<snap, olds>> BY <1>v, <2>1, <2>2
  <2>3. CASE log = NewLedger /\ snap' = NewSnapshot /\ olds' = olds \cup {NewSnapshot}
    <3>1. /\ NewSnapshot.is = "snapshot" /\ DOMAIN NewSnapshot.seen = {}
      BY SnapshotTypes
    <3>2. DOMAIN snap.seen = {} /\ Fits({}, log.pairs)
      <4>1. DOMAIN snap.seen = {} /\ Fits(DOMAIN snap.seen, log.pairs) BY <1>0, <2>1 DEF Room
      <4> QED BY <4>1
    <3>3. \A s \in olds : DOMAIN s.seen \subseteq {} BY <2>1, <3>2 DEF Room
    <3> QED BY <2>1, <2>3, <3>1, <3>2, <3>3 DEF Room
  <2> QED BY <1>15, <2>2, <2>3 DEF CreateSnapshot
<1>16. CASE Load
  <2>1. UNCHANGED <<snap, olds>> /\ log'.pairs = log.pairs BY <1>16, <1>0, <1>l DEF Load
  <2>2. ready' => chain' = log.pairs /\ seen' = snap.seen
    BY <1>16 DEF Load, NotReady
  <2>3. Fits(DOMAIN snap.seen, log.pairs) BY <1>0 DEF Room
  <2> QED BY <1>u, <2>1, <2>2, <2>3
<1>17. CASE LoadFails
  <2>1. UNCHANGED <<snap, olds, chain>> /\ log'.pairs = log.pairs /\ ~ready'
    BY <1>17, <1>0, <1>l DEF LoadFails, NotReady
  <2> QED BY <1>v, <2>1
<1>18. CASE Kill
  <2>1. log'.pairs = log.pairs BY <1>18, <1>0, InterruptedIs DEF Kill
  <2>2. UNCHANGED <<snap, olds>> /\ ~ready' BY <1>18 DEF Kill, Die
  <2> QED BY <1>u, <2>1, <2>2
<1>19. CASE PowerLoss
  <2>1. PICK l \in Interrupted : log' \in Survivors(dur, l) BY <1>19 DEF PowerLoss
  <2>2. l \in Ledger /\ l.pairs = log.pairs /\ dur \in Ledger /\ IsPrefix(dur.pairs, l.pairs)
    BY <1>0, <2>1, InterruptedIs DEF FileTypes, LogInv
  <2>3. log' \in Ledger /\ IsPrefix(log'.pairs, log.pairs)
    BY <2>1, <2>2, SurvivorsBetween
  <2>4. ToSet(log'.pairs) \subseteq ToSet(log.pairs)
    BY <1>0, <2>3, PrefixFacts, LedgerTypes
  <2>5. ~ready' /\ snap' \in olds /\ olds' = {snap'} BY <1>19 DEF PowerLoss, Die
  <2>6. ASSUME NEW s \in olds PROVE Fits(DOMAIN s.seen, log'.pairs)
    <3>1. Fits(DOMAIN s.seen, log.pairs) BY DEF Room
    <3> QED BY <2>4, <3>1, FitsLess
  <2> QED BY <2>5, <2>6 DEF Room
<1> QED
  BY <1>1, <1>2, <1>3, <1>4, <1>5, <1>6, <1>7, <1>8, <1>9, <1>10, <1>11, <1>12, <1>13,
     <1>14, <1>15, <1>16, <1>17, <1>18, <1>19, NextCases

-----------------------------------------------------------------------------
(* The file and the memory                                                 *)

LEMMA LogInvNext ==
  ASSUME Types, OpInv, Room, LogInv, Next
  PROVE  LogInv'
<1>0. /\ op \in OpType /\ log \in Ledger /\ dur \in Ledger /\ chain \in Seq(Device)
      /\ log.pairs \in Seq(Device) /\ dur.pairs \in Seq(Device)
      /\ IsPrefix(dur.pairs, log.pairs)
  BY LedgerTypes DEF Types, FileTypes, MemTypes, LogInv
<1>d. ASSUME ~ready', IsPrefix(dur'.pairs, log'.pairs) PROVE LogInv'
  BY <1>d DEF LogInv
<1>e. ASSUME ~ready', log'.pairs = log.pairs, dur'.pairs \in {dur.pairs, log.pairs} PROVE LogInv'
  <2>1. IsPrefix(dur'.pairs, log'.pairs) BY <1>0, <1>e, PrefixFacts
  <2> QED BY <1>d, <1>e, <2>1
\* Between two appends the file holds what the memory does.
<1>k. ASSUME log.pairs = chain, log.tail = "clean", UNCHANGED <<log, dur, chain>>,
             op'.at \notin {"syncPrepare", "commit", "syncCommit", "reconcile"}
      PROVE  LogInv'
  BY <1>0, <1>k DEF LogInv
<1>q. ready /\ op.at \notin {"syncPrepare", "commit", "syncCommit", "reconcile"} =>
        log.pairs = chain /\ log.tail = "clean"
  BY DEF LogInv
<1>n. NoOp.at \notin {"syncPrepare", "commit", "syncCommit", "reconcile"} BY DEF NoOp
<1>l. ASSUME NEW t \in {"clean", "cut", "prepare", "cutCommit"}, op.at \in Appending
      PROVE  /\ WithTail(log, t, op.dev).pairs = log.pairs
             /\ WithTail(log, t, op.dev).tail = t
  BY <1>0, <1>l, OpDevice, LedgerTypes DEF Tails
<1>t. Truncated(log).pairs = log.pairs /\ Truncated(log).tail = "clean"
  BY <1>0, LedgerTypes
<1>r. ASSUME op.at \in Appending, op'.at = "reconcile", UNCHANGED chain,
             log'.pairs = chain, IsPrefix(dur'.pairs, log'.pairs)
      PROVE  LogInv'
  BY <1>r DEF LogInv
<1>1. CASE Access
  <2>1. UNCHANGED <<log, dur, ready, chain, op>> BY <1>1, AccessFrame
  <2> QED BY <2>1 DEF LogInv
<1>2. CASE Create \/ (\E d \in Device : RevokeDevice(d)) \/ \E c \in Conn : TouchSeen(c)
  <2>1. /\ op = NoOp /\ ready /\ UNCHANGED <<log, dur, chain>>
        /\ op' = op \/ op'.at \in {"temp", "prepare"}
    <3>1. [NoOp EXCEPT !.kind = "revoke", !.at = "prepare"].at = "prepare" BY DEF NoOp
    <3>2. \A d : [NoOp EXCEPT !.kind = "revoke", !.dev = d, !.at = "prepare"].at = "prepare"
      BY DEF NoOp
    <3>3. CASE Create
      BY <3>3 DEF Create, Admits, Idle, Replace, LedgerStays
    <3>4. CASE \E d \in Device : RevokeDevice(d)
      BY <3>2, <3>4 DEF RevokeDevice, Idle, FilesStay, MemStays, memVars
    <3>5. CASE \E c \in Conn : TouchSeen(c)
      BY <3>5 DEF TouchSeen, Idle, Replace, LedgerStays
    <3> QED BY <1>2, <3>3, <3>4, <3>5
  <2> QED BY <1>k, <1>n, <1>q, <2>1
<1>3. CASE WriteTemp \/ Rename \/ ReadBack
  <2>1. op.at \in Writing /\ UNCHANGED <<log, dur, chain>>
    BY <1>3 DEF WriteTemp, Rename, ReadBack, LedgerStays, MemStays, memVars, Writing
  <2>2. Goto("rename") \/ Goto("readback") \/ op' = NoOp
    BY <1>3 DEF WriteTemp, Rename, ReadBack, Projected, Return
  <2>3. op'.at \in {"rename", "readback", "idle"} BY <1>0, <2>2, Goes DEF NoOp
  <2>4. ready /\ op.at \notin {"syncPrepare", "commit", "syncCommit", "reconcile"}
    BY <2>1 DEF OpInv, NoOp, Writing
  <2> QED BY <1>k, <1>q, <2>1, <2>3, <2>4
<1>4. CASE AppendRefused BY <1>4, <1>e DEF AppendRefused, FilesStay
<1>5. CASE WritePrepare
  <2>1. /\ op.at \in Appending /\ UNCHANGED <<dur, chain>> /\ log.pairs = chain
    BY <1>5 DEF WritePrepare, AppendStep, MemStays, memVars, Appending
  <2>2. CASE Goto("syncPrepare")
    <3>1. op'.at = "syncPrepare" BY <1>0, <2>2, Goes
    <3>2. log' = WithTail(log, "prepare", op.dev)
      <4>1. ~Goto("reconcile") BY <1>0, <3>1, Goes
      <4> QED BY <1>5, <4>1 DEF WritePrepare
    <3>3. log'.pairs = log.pairs /\ log'.tail = "prepare" BY <1>l, <2>1, <3>2
    <3> QED BY <1>0, <2>1, <3>1, <3>3 DEF LogInv
  <2>3. CASE Goto("reconcile")
    <3>1. op'.at = "reconcile" BY <1>0, <2>3, Goes
    <3>2. log'.pairs = log.pairs BY <1>5, <1>l, <2>1 DEF WritePrepare
    <3> QED BY <1>0, <1>r, <2>1, <3>1, <3>2
  <2> QED BY <1>5, <2>2, <2>3 DEF WritePrepare
<1>6. CASE SyncPrepare
  <2>1. /\ op.at = "syncPrepare" /\ op.at \in Appending /\ ready /\ UNCHANGED <<log, chain>>
    BY <1>6, OpDevice DEF SyncPrepare, AppendStep, MemStays, memVars, Appending
  <2>2. log.pairs = chain /\ log.tail = "prepare" BY <2>1 DEF LogInv
  <2>3. IsPrefix(dur'.pairs, log'.pairs)
    BY <1>0, <1>6, <2>1, PrefixFacts DEF SyncPrepare
  <2>4. op'.at = "commit" \/ op'.at = "reconcile" BY <1>0, <1>6, Goes DEF SyncPrepare
  <2> QED BY <2>1, <2>2, <2>3, <2>4 DEF LogInv
<1>7. CASE WriteCommit
  <2>1. /\ op.at = "commit" /\ op.at \in Appending /\ ready /\ UNCHANGED <<dur, chain>>
    BY <1>7, OpDevice DEF WriteCommit, AppendStep, MemStays, memVars, Appending
  <2>2. log.pairs = chain /\ op.dev \in Device BY <2>1, OpDevice DEF LogInv
  <2>3. CASE Goto("syncCommit")
    <3>1. op'.at = "syncCommit" /\ op'.dev = op.dev BY <1>0, <2>3, Goes
    <3>2. log' = WithPair(log, op.dev)
      <4>1. ~Goto("reconcile") BY <1>0, <3>1, Goes
      <4> QED BY <1>7, <4>1 DEF WriteCommit
    <3>3. log'.pairs = Append(log.pairs, op.dev) /\ log'.tail = "clean"
      BY <1>0, <2>2, <3>2, LedgerTypes
    <3>4. IsPrefix(dur'.pairs, log'.pairs)
      <4>1. Append(log.pairs, op.dev) \in Seq(Device)
            /\ IsPrefix(log.pairs, Append(log.pairs, op.dev))
        BY <1>0, <2>2, Appended, PrefixFacts
      <4>2. IsPrefix(dur.pairs, Append(log.pairs, op.dev))
        <5>1. \A u \in Seq(Device) : IsPrefix(log.pairs, u) => IsPrefix(dur.pairs, u)
          BY <1>0, PrefixFacts
        <5> QED BY <4>1, <5>1
      <4>3. dur'.pairs = dur.pairs BY <2>1
      <4> QED BY <3>3, <4>2, <4>3
    <3> QED BY <2>1, <2>2, <3>1, <3>3, <3>4 DEF LogInv
  <2>4. CASE Goto("reconcile")
    <3>1. op'.at = "reconcile" BY <1>0, <2>4, Goes
    <3>2. ~Goto("syncCommit") BY <1>0, <3>1, Goes
    <3>3. log'.pairs = log.pairs BY <1>7, <1>l, <2>1, <3>2 DEF WriteCommit
    <3> QED BY <1>0, <1>r, <2>1, <2>2, <3>1, <3>3
  <2> QED BY <1>7, <2>3, <2>4 DEF WriteCommit
<1>8. CASE SyncCommit
  <2>1. /\ op.at = "syncCommit" /\ op.at \in Appending /\ ready /\ UNCHANGED log
        /\ dur' \in {dur, log}
    BY <1>8, OpDevice DEF SyncCommit, Appending
  <2>2. log.pairs = Append(chain, op.dev) /\ log.tail = "clean" BY <2>1 DEF LogInv
  <2>3. IsPrefix(dur'.pairs, log'.pairs) BY <1>0, <2>1, PrefixFacts
  <2>4. \/ op'.at = "project" /\ chain' = log.pairs
        \/ op'.at = "reconcile" /\ op'.dev = op.dev /\ chain' = chain
    BY <1>0, <1>8, Goes DEF SyncCommit
  <2> QED BY <2>1, <2>2, <2>3, <2>4 DEF LogInv
<1>9. CASE Reconcile
  <2>1. op.at = "reconcile" /\ op.at \in Appending /\ ready /\ op.dev \in Device
    BY <1>9, OpDevice DEF Reconcile, Appending
  <2>2. log.pairs = chain \/ (log.pairs = Append(chain, op.dev) /\ log.tail = "clean")
    BY <2>1 DEF LogInv
  <2>3. CASE Goto("project")
    <3>1. op'.at = "project" /\ op' # NoOp BY <1>0, <2>3, Goes DEF NoOp
    <3>2. /\ log.pairs = Append(chain, op.dev) /\ chain' = log.pairs /\ UNCHANGED <<log, dur>>
      BY <1>9, <3>1 DEF Reconcile, Failed, Return
    <3>3. Append(chain, op.dev) # chain
      <4>1. Len(Append(chain, op.dev)) = Len(chain) + 1 /\ Len(chain) \in Nat BY <1>0
      <4> QED BY <4>1
    <3>4. log.tail = "clean" BY <2>2, <3>2, <3>3
    <3> QED BY <1>0, <3>1, <3>2, <3>4 DEF LogInv
  <2>4. CASE ~Goto("project")
    <3>1. op' = NoOp /\ UNCHANGED chain BY <1>9, <2>4 DEF Reconcile, Failed, Return
    <3>2. \/ log' = log /\ dur' = dur /\ log.pairs = chain /\ log.tail = "clean"
          \/ log' = Truncated(log) /\ dur' = log' /\ log.pairs = chain
          \/ log' \in {log, Truncated(log)} /\ dur' = dur /\ ~ready'
      BY <1>9, <2>4 DEF Reconcile, Failed
    <3>3. CASE ~ready' BY <1>e, <1>t, <3>2, <3>3
    <3>4. CASE ready'
      <4>1. log'.pairs = chain /\ log'.tail = "clean" BY <1>t, <3>2, <3>4
      <4>2. IsPrefix(dur'.pairs, log'.pairs)
        <5>1. dur'.pairs \in {dur.pairs, log.pairs} /\ log'.pairs = log.pairs
          BY <1>t, <3>2, <3>4
        <5>2. IsPrefix(log.pairs, log.pairs) BY <1>0, PrefixFacts
        <5> QED BY <1>0, <5>1, <5>2
      <4> QED BY <1>n, <3>1, <4>1, <4>2 DEF LogInv
    <3> QED BY <3>3, <3>4
  <2> QED BY <2>3, <2>4
<1>10. CASE Project
  <2>1. op.at = "project" /\ UNCHANGED <<log, dur, chain>> BY <1>10 DEF Project, LedgerStays
  <2>2. ready BY <2>1, OpDevice
  <2>3. op'.at \in {"temp", "idle"} BY <1>10 DEF Project, Replace, Return, NoOp
  <2> QED BY <1>k, <1>q, <2>1, <2>2, <2>3
<1>11. CASE Start
  <2>1. UNCHANGED <<log, dur, ready, chain, op>>
    BY <1>11 DEF Start, FilesStay, MemStays, memVars
  <2> QED BY <2>1 DEF LogInv
<1>12. CASE CreateHeader \/ CreateSnapshot
  <2>1. UNCHANGED <<log, dur>> /\ (ready' => ready) /\ phase = "loading"
    BY <1>12 DEF CreateHeader, CreateSnapshot, NotReady, Started, MemStays, memVars, LedgerStays
  <2>2. ~ready' BY <2>1 DEF OpInv
  <2> QED BY <1>e, <2>1, <2>2
<1>13. CASE Load
  <2>1. log' \in {log, Truncated(log)} /\ dur' \in {dur, log'} BY <1>13 DEF Load
  <2>2. log'.pairs = log.pairs /\ dur'.pairs \in {dur.pairs, log.pairs} BY <1>t, <2>1
  <2>3. CASE ~ready' BY <1>e, <2>2, <2>3
  <2>4. CASE ready'
    <3>1. /\ op' = NoOp /\ chain' = log.pairs /\ log' = Truncated(log)
      BY <1>13, <2>4 DEF Load, NotReady, Started
    <3>2. IsPrefix(dur'.pairs, log'.pairs) BY <1>0, <2>2, PrefixFacts
    <3> QED BY <1>n, <1>t, <3>1, <3>2 DEF LogInv
  <2> QED BY <2>3, <2>4
<1>14. CASE LoadFails
  <2>1. log'.pairs = log.pairs /\ dur' = dur /\ ~ready' BY <1>14, <1>t DEF LoadFails, NotReady
  <2> QED BY <1>e, <2>1
<1>15. CASE Kill
  <2>1. log'.pairs = log.pairs BY <1>15, <1>0, InterruptedIs DEF Kill
  <2> QED BY <1>15, <1>e, <2>1 DEF Kill, Die
<1>16. CASE PowerLoss
  <2>1. PICK l \in Interrupted : log' \in Survivors(dur, l) BY <1>16 DEF PowerLoss
  <2>2. l \in Ledger /\ l.pairs = log.pairs /\ dur \in Ledger /\ IsPrefix(dur.pairs, l.pairs)
    BY <1>0, <2>1, InterruptedIs
  <2>3. log' \in Ledger BY <2>1, <2>2, SurvivorsBetween
  <2>4. dur' = log' /\ ~ready' BY <1>16 DEF PowerLoss, Die
  <2>5. IsPrefix(dur'.pairs, log'.pairs) BY <2>3, <2>4, LedgerTypes, PrefixFacts
  <2> QED BY <1>d, <2>4, <2>5
<1> QED
  BY <1>1, <1>2, <1>3, <1>4, <1>5, <1>6, <1>7, <1>8, <1>9, <1>10, <1>11, <1>12, <1>13,
     <1>14, <1>15, <1>16, NextCases

-----------------------------------------------------------------------------
(* The snapshot and the memory                                             *)

LEMMA SnapInvNext ==
  ASSUME Types, OpInv, Room, LogInv, SnapInv, Next
  PROVE  SnapInv'
<1>0. /\ op \in OpType /\ MemTypes /\ log \in Ledger /\ chain \in Seq(Device) /\ snap \in Snapshots
      /\ snap.head \in Seq(Device)
  BY LedgerTypes DEF Types, FileTypes, MemTypes, Snapshots
<1>n. NoOp.at = "idle" /\ NoOp.kind = "none" /\ "idle" \notin Writing /\ "project" \notin Writing
  BY DEF NoOp, Writing
<1>d. ~ready' => SnapInv' BY DEF SnapInv
<1>1. CASE Access
  <2>1. UNCHANGED <<snap, ready, chain, seen, revoked, op>> BY <1>1, AccessFrame
  <2> QED BY <2>1 DEF SnapInv, Agreed, NextBytes
\* What holds between two operations.
<1>i. ready /\ op = NoOp =>
        /\ revoked = ToSet(chain) \cap DOMAIN seen
        /\ snap.is = "snapshot" /\ IsPrefix(snap.head, chain)
        /\ snap.revoked \subseteq ToSet(snap.head) /\ snap.seen = seen
  BY <1>n DEF SnapInv, Agreed
\* A write begins, from a snapshot that agrees with what the memory was.
<1>w. ASSUME snap.is = "snapshot", IsPrefix(snap.head, chain),
             snap.revoked \subseteq ToSet(snap.head), UNCHANGED <<snap, chain>>, op'.at = "temp",
             revoked' = ToSet(chain) \cap DOMAIN seen',
             snap.seen = IF op'.kind = "seen" THEN op'.old.seen ELSE seen',
             NextBytes'
      PROVE  SnapInv'
  BY <1>w DEF SnapInv, Agreed, Writing
<1>2. CASE Create
  <2>1. /\ ready /\ op = NoOp /\ Admits /\ UNCHANGED <<snap, chain, seen, revoked>>
        /\ op'.kind = "create" /\ op'.at = "temp" /\ op'.old = Current
        /\ op'.next = [Current EXCEPT !.seen = Beside(seen, FreshID)]
    BY <1>2 DEF Create, Admits, Idle, Replace
  <2>2. FreshID \in Device \ Known BY <2>1, FreshIs
  <2>3. /\ Beside(seen, FreshID) \in Seens
        /\ DOMAIN Beside(seen, FreshID) = DOMAIN seen \cup {FreshID}
    BY <1>0, <2>2, SeenTypes DEF MemTypes
  <2>4. Fits(DOMAIN Beside(seen, FreshID), chain)
    <3>1. Fits(DOMAIN seen, chain) /\ Cardinality(Known) < MaxKnown BY <2>1 DEF Room, Admits
    <3>2. IsFiniteSet(Known) BY <3>1 DEF Fits, Known
    <3>3. /\ IsFiniteSet(Known \cup {FreshID})
          /\ Cardinality(Known \cup {FreshID}) = Cardinality(Known) + 1
      BY <2>2, <3>2, FS_AddElement
    <3>4. DOMAIN Beside(seen, FreshID) \cup ToSet(chain) = Known \cup {FreshID}
      BY <2>3 DEF Known
    <3>5. Cardinality(Known) \in Nat /\ MaxKnown \in Nat
      BY <3>2, FS_CardinalityType, BoundsAssumption
    <3> HIDE DEF FreshID, Known
    <3>6. /\ IsFiniteSet(Known \cup {FreshID})
          /\ Cardinality(Known \cup {FreshID}) <= MaxKnown
      BY <3>1, <3>3, <3>5
    <3> QED BY <3>4, <3>6 DEF Fits
  <2>5. /\ op'.old.is = "snapshot" /\ op'.old.head = chain /\ op'.old.seen = seen
        /\ op'.old.revoked = revoked
        /\ op'.next.is = "snapshot" /\ op'.next.head = chain /\ op'.next.revoked = revoked
        /\ op'.next.seen = Beside(seen, FreshID)
    <3> HIDE DEF FreshID
    <3> QED BY <1>0, <2>1, <2>3, Bytes
  <2>6. NextBytes'
    <3>1. DOMAIN Beside(seen, FreshID) \cap ToSet(chain) \subseteq DOMAIN seen
      BY <2>2, <2>3 DEF Known
    <3>2. revoked \subseteq ToSet(chain) BY <1>i, <2>1
    <3>3. DOMAIN seen \subseteq DOMAIN Beside(seen, FreshID) BY <2>3
    <3> HIDE DEF FreshID
    <3> QED BY <2>1, <2>4, <2>5, <3>1, <3>2, <3>3 DEF NextBytes
  <2>7. op'.kind # "seen" BY <2>1
  <2> QED BY <1>i, <1>w, <2>1, <2>6, <2>7
<1>3. CASE \E d \in Device : RevokeDevice(d)
  <2>1. PICK d \in Device : RevokeDevice(d) BY <1>3
  <2>2. /\ op = NoOp /\ ready /\ UNCHANGED <<snap, ready, seen, chain, revoked>>
        /\ op' = op \/ op' = [NoOp EXCEPT !.kind = "revoke", !.dev = d, !.at = "prepare"]
    BY <2>1 DEF RevokeDevice, Idle, MemStays, memVars, FilesStay
  <2>3. op'.at \in {"idle", "prepare"} /\ op'.kind # "seen"
    <3>1. [NoOp EXCEPT !.kind = "revoke", !.dev = d, !.at = "prepare"].at = "prepare"
      BY DEF NoOp
    <3>2. [NoOp EXCEPT !.kind = "revoke", !.dev = d, !.at = "prepare"].kind = "revoke"
      BY DEF NoOp
    <3> QED BY <1>n, <2>2, <3>1, <3>2
  <2>4. op'.at \notin Writing /\ op'.at # "project" BY <2>3 DEF Writing
  <2> QED BY <1>i, <2>2, <2>3, <2>4 DEF SnapInv, Agreed
<1>4. CASE \E c \in Conn : TouchSeen(c)
  <2>1. PICK c \in Conn : TouchSeen(c) BY <1>4
  <2> DEFINE d == conn[c].dev
             m == [seen EXCEPT ![d] = TRUE]
  <2>2. d \in DOMAIN seen BY <2>1 DEF TouchSeen, Skips
  <2>3. m \in Seens /\ DOMAIN m = DOMAIN seen BY <1>0, <2>2, SeenTypes DEF MemTypes
  <2>4. Current.seen = seen BY <1>0, Bytes
  <2> HIDE DEF m, d
  <2>5. /\ ready /\ op = NoOp /\ UNCHANGED <<snap, chain, revoked>>
        /\ op'.kind = "seen" /\ op'.at = "temp" /\ op'.old = Current
        /\ op'.next = [Current EXCEPT !.seen = m] /\ seen' = [Current EXCEPT !.seen = m].seen
    BY <2>1, <2>4 DEF TouchSeen, Idle, Replace, m, d
  <2>6. /\ op'.old.is = "snapshot" /\ op'.old.head = chain /\ op'.old.seen = seen
        /\ op'.old.revoked = revoked
        /\ op'.next.is = "snapshot" /\ op'.next.head = chain /\ op'.next.revoked = revoked
        /\ op'.next.seen = m /\ seen' = m
    BY <1>0, <2>3, <2>5, Bytes
  <2>7. revoked = ToSet(chain) \cap DOMAIN seen BY <1>i, <2>5
  <2>8. NextBytes' BY <2>3, <2>5, <2>6, <2>7 DEF NextBytes
  <2> QED BY <1>i, <1>w, <2>3, <2>5, <2>6, <2>7, <2>8
\* A write ends: the snapshot in place is the next one, the old one, or unknown.
<1>e. ASSUME NEW out \in {"committed", "notCommitted", "indeterminate"}, Projected(out),
             op.at \in Writing, UNCHANGED <<snap, chain, revoked>>,
             out = "committed" => snap = op.next,
             out = "notCommitted" => Agreed \/ snap = op.old
      PROVE  SnapInv'
  <2>1. /\ ready /\ op # NoOp /\ (ready' <=> out # "indeterminate") /\ op' = NoOp
        /\ NextBytes
        /\ seen' = IF out = "committed" THEN op.next.seen
                   ELSE IF out = "notCommitted" THEN op.old.seen
                   ELSE seen
    BY <1>e, Ends
  <2>2. op.kind \in {"create", "seen", "revoke"} BY <2>1 DEF OpInv
  <2>3. revoked = ToSet(chain) \cap DOMAIN seen BY <1>e, <1>n, <2>1 DEF SnapInv
  <2>4. IsPrefix(chain, chain) BY <1>0, PrefixFacts
  <2>5. CASE out = "committed"
    <3>1. /\ snap.is = "snapshot" /\ snap.head = chain /\ snap.revoked = revoked
          /\ snap.seen = seen'
      BY <1>e, <2>1, <2>5 DEF NextBytes
    <3>2. revoked = ToSet(chain) \cap DOMAIN seen'
      BY <2>1, <2>2, <2>3, <2>5 DEF NextBytes
    <3> QED BY <1>e, <1>n, <2>1, <2>4, <3>1, <3>2 DEF SnapInv, Agreed
  <2>6. CASE out = "notCommitted"
    <3>1. DOMAIN seen' = DOMAIN seen BY <2>1, <2>2, <2>6 DEF NextBytes
    <3>2. /\ snap.is = "snapshot" /\ IsPrefix(snap.head, chain)
          /\ snap.revoked \subseteq ToSet(snap.head) /\ snap.seen = seen'
      <4>1. CASE Agreed
        <5>1. snap.seen = op.old.seen BY <2>1, <2>2, <4>1 DEF Agreed, NextBytes
        <5> QED BY <2>1, <2>6, <4>1, <5>1 DEF Agreed
      <4>2. CASE snap = op.old BY <2>1, <2>4, <2>6, <4>2 DEF NextBytes
      <4> QED BY <1>e, <2>6, <4>1, <4>2
    <3> QED BY <1>e, <1>n, <2>1, <2>3, <3>1, <3>2 DEF SnapInv, Agreed
  <2>7. CASE out = "indeterminate" BY <1>d, <2>1, <2>7
  <2> QED BY <2>5, <2>6, <2>7
<1>5. CASE WriteTemp
  <2>1. op.at = "temp" /\ op.at \in Writing /\ UNCHANGED <<snap, chain, revoked>>
    BY <1>5 DEF WriteTemp, Writing
  <2>2. ready /\ op # NoOp /\ Agreed /\ NextBytes BY <2>1, <1>n DEF OpInv, SnapInv
  <2>3. CASE Projected("indeterminate") BY <1>e, <2>1, <2>3
  <2>4. CASE Projected("notCommitted") BY <1>e, <2>1, <2>2, <2>4
  <2>5. CASE Goto("rename") /\ UNCHANGED <<seen, ready>>
    <3>1. /\ op'.kind = op.kind /\ op'.at = "rename" /\ op'.old = op.old /\ op'.next = op.next
      BY <1>0, <2>5, Goes
    <3> QED BY <2>1, <2>2, <2>5, <3>1 DEF SnapInv, Agreed, NextBytes
  <2> QED BY <1>5, <2>3, <2>4, <2>5 DEF WriteTemp
<1>6. CASE Rename
  <2>1. /\ op.at = "rename" /\ op.at \in Writing /\ UNCHANGED <<ready, seen, chain, revoked>>
        /\ snap' \in {op.next, Garbage, snap} /\ Goto("readback")
    BY <1>6 DEF Rename, MemStays, memVars, Writing
  <2>2. ready /\ op # NoOp /\ Agreed /\ NextBytes BY <2>1, <1>n DEF OpInv, SnapInv
  <2>3. /\ op'.kind = op.kind /\ op'.at = "readback" /\ op'.old = op.old /\ op'.next = op.next
    BY <1>0, <2>1, Goes
  <2>4. NextBytes' BY <2>1, <2>2, <2>3 DEF NextBytes
  <2>5. snap' = snap => Agreed' BY <2>1, <2>2, <2>3 DEF Agreed
  <2>6. revoked' = ToSet(chain') \cap DOMAIN seen' BY <2>1, <2>2 DEF SnapInv
  <2> QED BY <2>1, <2>3, <2>4, <2>5, <2>6 DEF SnapInv
<1>7. CASE ReadBack
  <2>1. op.at = "readback" /\ op.at \in Writing /\ UNCHANGED <<snap, chain, revoked>>
    BY <1>7 DEF ReadBack, Writing
  <2>2. \/ snap = op.next /\ Projected("committed")
        \/ snap = op.old /\ Projected("notCommitted")
        \/ Projected("indeterminate")
    BY <1>7 DEF ReadBack
  <2> QED BY <1>e, <2>1, <2>2
<1>8. CASE AppendRefused BY <1>8, <1>d DEF AppendRefused
\* The append goes on: neither the snapshot nor the memory changes.
<1>a. ASSUME UNCHANGED <<snap, chain, seen, revoked>>, op.at \in Appending,
             op'.at \in Appending \cup {"idle"}, op'.kind # "seen"
      PROVE  SnapInv'
  <2>1. op.at \notin Writing /\ op.at # "project" /\ op.at # "readback"
        /\ op'.at \notin Writing /\ op'.at # "project"
    BY <1>a DEF Appending, Writing
  <2>2. ready /\ op.kind = "revoke" BY <1>a, OpDevice
  <2>3. Agreed /\ revoked = ToSet(chain) \cap DOMAIN seen BY <2>1, <2>2 DEF SnapInv
  <2> QED BY <1>a, <2>1, <2>2, <2>3 DEF SnapInv, Agreed
<1>9. CASE WritePrepare \/ SyncPrepare \/ WriteCommit
  <2>1. /\ op.at \in Appending /\ UNCHANGED <<snap, chain, seen, revoked>>
        /\ \E s \in Appending : Goto(s)
    BY <1>9 DEF WritePrepare, SyncPrepare, WriteCommit, AppendStep, MemStays, memVars, Appending
  <2>2. op'.at \in Appending /\ op'.kind = op.kind BY <1>0, <2>1, Goes
  <2>3. op'.kind # "seen" BY <2>1, <2>2, OpDevice
  <2> QED BY <1>a, <2>1, <2>2, <2>3
\* The commit line is synced: the memory has the tombstone, the record not yet.
<1>c. ASSUME op.at \in Appending, Goto("project"), chain' = Append(chain, op.dev),
             UNCHANGED <<snap, seen, revoked>>
      PROVE  SnapInv'
  <2>1. /\ ready /\ op.kind = "revoke" /\ op.dev \in Device /\ op.dev \in DOMAIN seen
        /\ op.dev \notin ToSet(chain)
    BY <1>c, OpDevice DEF OpInv
  <2>2. op.at # "project" /\ op.at # "readback" BY <1>c DEF Appending
  <2>3. Agreed /\ revoked = ToSet(chain) \cap DOMAIN seen BY <2>1, <2>2 DEF SnapInv
  <2>4. op'.at = "project" /\ op'.kind = "revoke" /\ op'.dev = op.dev
    BY <1>0, <1>c, <2>1, Goes
  <2>5. ToSet(chain') = ToSet(chain) \cup {op.dev} BY <1>0, <1>c, <2>1, Appended
  <2>6. revoked' = (ToSet(chain') \cap DOMAIN seen') \ {op'.dev}
    BY <1>c, <2>1, <2>3, <2>4, <2>5
  <2>7. Append(chain, op.dev) \in Seq(Device) /\ IsPrefix(chain, Append(chain, op.dev))
        /\ IsPrefix(snap.head, chain)
    BY <1>0, <2>1, <2>3, Appended, PrefixFacts DEF Agreed
  <2>8. IsPrefix(snap'.head, chain') BY <1>0, <1>c, <2>7, PrefixFacts
  <2> QED BY <1>c, <1>n, <2>1, <2>3, <2>4, <2>6, <2>8 DEF SnapInv, Agreed
<1>10. CASE SyncCommit
  <2>1. /\ op.at = "syncCommit" /\ op.at \in Appending /\ ready
        /\ UNCHANGED <<snap, seen, revoked>>
    BY <1>10, OpDevice DEF SyncCommit, Appending
  <2>2. log.pairs = Append(chain, op.dev) BY <2>1 DEF LogInv
  <2>3. \/ Goto("project") /\ chain' = log.pairs
        \/ Goto("reconcile") /\ chain' = chain
    BY <1>10 DEF SyncCommit
  <2>4. CASE Goto("reconcile") /\ chain' = chain
    <3>1. op'.at \in Appending /\ op'.kind # "seen"
      BY <1>0, <2>1, <2>4, Goes, OpDevice DEF Appending
    <3> QED BY <1>a, <2>1, <2>4, <3>1
  <2> QED BY <1>c, <2>1, <2>2, <2>3, <2>4
<1>11. CASE Reconcile
  <2>1. op.at \in Appending /\ UNCHANGED <<snap, seen, revoked>>
    BY <1>11
        DEF Reconcile, Appending
  <2>2. \/ Goto("project") /\ chain' = Append(chain, op.dev)
        \/ op' = NoOp /\ chain' = chain
    BY <1>11 DEF Reconcile, Failed, Return
  <2> QED BY <1>a, <1>c, <1>n, <2>1, <2>2
<1>12. CASE Project
  <2>1. op.at = "project" /\ UNCHANGED <<snap, chain, seen, ready>> BY <1>12 DEF Project
  <2>2. ready /\ op.kind = "revoke" /\ op.dev \in Device /\ op.dev \in DOMAIN seen
    BY <2>1, OpDevice
  <2>3. Agreed /\ revoked = (ToSet(chain) \cap DOMAIN seen) \ {op.dev}
    BY <2>1, <2>2 DEF SnapInv
  <2>4. op.dev \in ToSet(chain) BY <2>1, <2>2, <1>n DEF OpInv
  <2>5. revoked' = ToSet(chain) \cap DOMAIN seen BY <1>12, <2>2, <2>3, <2>4 DEF Project
  <2>6. snap.seen = seen BY <2>2, <2>3 DEF Agreed
  <2>7. CASE op' = NoOp
    BY <1>n, <2>1, <2>3, <2>5, <2>6, <2>7 DEF SnapInv, Agreed
  <2>8. CASE Replace("revoke", op.dev, {}, Current, View(chain, seen, revoked'))
    <3>1. /\ op'.kind = "revoke" /\ op'.at = "temp" /\ op'.old = Current
          /\ op'.next = View(chain, seen, revoked')
      BY <2>8 DEF Replace
    <3>2. /\ op'.old.is = "snapshot" /\ op'.old.head = chain /\ op'.old.seen = seen
          /\ op'.old.revoked = revoked
      BY <1>0, <3>1, Bytes
    <3>3. revoked' \in SUBSET Device BY <1>0, <2>2, <2>5, SeenTypes DEF MemTypes
    <3>4. /\ op'.next.is = "snapshot" /\ op'.next.head = chain /\ op'.next.revoked = revoked'
          /\ op'.next.seen = seen
      BY <1>0, <3>1, <3>3, Bytes
    <3>5. NextBytes' BY <2>1, <2>3, <3>1, <3>2, <3>4 DEF NextBytes
    <3> QED BY <1>w, <2>1, <2>3, <2>5, <2>6, <3>1, <3>5 DEF Agreed
  <2> QED BY <1>12, <2>7, <2>8 DEF Project, Return
<1>13. CASE Start \/ CreateHeader \/ CreateSnapshot \/ LoadFails
  <2>1. ready' => ready
    BY <1>13 DEF Start, CreateHeader, CreateSnapshot, LoadFails, NotReady, Started, MemStays,
         memVars
  <2>2. phase # "up"
    BY <1>13 DEF Start, CreateHeader, CreateSnapshot, LoadFails
  <2> QED BY <1>d, <2>1, <2>2 DEF OpInv
<1>14. CASE Load
  <2>1. CASE ~ready' BY <1>d, <2>1
  <2>2. CASE ready'
    <3>1. /\ op' = NoOp /\ chain' = log.pairs /\ seen' = snap.seen /\ revoked' = Fused(log, snap)
          /\ snap' = snap /\ Agrees(log, snap)
      BY <1>14, <2>2 DEF Load, NotReady, Started
    <3>2. /\ snap.is = "snapshot" /\ IsPrefix(snap.head, log.pairs)
          /\ snap.revoked \subseteq ToSet(snap.head)
      BY <3>1 DEF Agrees
    <3>3. ToSet(snap.head) \subseteq ToSet(log.pairs)
      BY <1>0, <3>2, PrefixFacts, LedgerTypes
    <3>4. revoked' = ToSet(chain') \cap DOMAIN seen' BY <3>1, <3>2, <3>3 DEF Fused
    <3> QED BY <1>n, <3>1, <3>2, <3>4 DEF SnapInv, Agreed
  <2> QED BY <2>1, <2>2
<1>15. CASE Kill \/ PowerLoss BY <1>15, <1>d DEF Kill, PowerLoss, Die
<1> QED
  BY <1>1, <1>2, <1>3, <1>4, <1>5, <1>6, <1>7, <1>8, <1>9, <1>10, <1>11, <1>12, <1>13,
     <1>14, <1>15, NextCases

-----------------------------------------------------------------------------
(* The order of the writes                                                 *)

LEMMA OrderlyNext ==
  ASSUME Types, OpInv, Room, LogInv, SnapInv, Orderly, Next
  PROVE  Orderly'
<1> DEFINE None  == [faults |-> 0, crashes |-> 0]
           First == [faults |-> 0, crashes |-> 1]
           Calm(s, d) ==
             s.is # "garbage" /\ IsPrefix(s.head, d) /\ s.revoked \subseteq ToSet(s.head)
<1>0. /\ op \in OpType /\ MemTypes /\ log \in Ledger /\ dur \in Ledger /\ chain \in Seq(Device)
      /\ log.pairs \in Seq(Device) /\ dur.pairs \in Seq(Device)
      /\ snap \in olds /\ olds \subseteq Snapshots /\ snap \in Snapshots
      /\ spent \in [faults : Nat, crashes : Nat]
      /\ IsPrefix(dur.pairs, log.pairs)
  BY LedgerTypes DEF Types, FileTypes, MemTypes, LogInv
<1>h. \A s \in olds : s.head \in Seq(Device) BY <1>0 DEF Snapshots
<1>n. NoOp.at = "idle" BY DEF NoOp
<1>f. ASSUME spent'.faults > 0 PROVE Orderly'
  <2>1. spent' # None /\ spent' # First BY <1>f
  <2> QED BY <1>f, <2>1 DEF Orderly
<1>g. Faulty => Orderly' BY <1>0, <1>f, SpendTypes
\* A step that fails in nothing, in a store that is up.
<1>k. ASSUME spent' = spent, phase' = "up", op'.at = "reconcile" => op.at = "reconcile",
             dur'.pairs \in {dur.pairs, log.pairs},
             spent = None => \A s \in olds' : s \in olds \/ Calm(s, dur'.pairs),
             spent = None /\ ready' => (ready /\ chain' = chain) \/ IsPrefix(chain', dur'.pairs)
      PROVE  Orderly'
  <2>1. op'.at = "reconcile" => spent'.faults > 0 BY <1>k DEF Orderly
  <2>2. ASSUME spent = None PROVE (\A s \in olds' : Calm(s, dur'.pairs))
                                  /\ (ready' => IsPrefix(chain', dur'.pairs))
    <3>1. IsPrefix(dur.pairs, dur'.pairs) /\ dur'.pairs \in Seq(Device)
      <4>1. IsPrefix(dur.pairs, dur.pairs) BY <1>0, PrefixFacts
      <4> QED BY <1>0, <1>k, <4>1
    <3>2. \A u \in Seq(Device) : IsPrefix(u, dur.pairs) => IsPrefix(u, dur'.pairs)
      BY <1>0, <3>1, PrefixFacts
    <3>3. ASSUME NEW s \in olds PROVE Calm(s, dur'.pairs)
      BY <1>h, <2>2, <3>2 DEF Orderly
    <3>4. ready => IsPrefix(chain, dur'.pairs)
      BY <1>0, <2>2, <3>2 DEF Orderly
    <3> QED BY <1>k, <2>2, <3>3, <3>4
  <2> QED BY <1>k, <2>1, <2>2 DEF Orderly
\* The same for steps that leave the files and the memory alone.
<1>u. ASSUME spent' = spent, phase' = "up", op'.at = "reconcile" => op.at = "reconcile",
             UNCHANGED dur, olds' \subseteq olds, ready' => ready, UNCHANGED chain
      PROVE  Orderly'
  BY <1>k, <1>u
<1>i. op.at # "idle" => phase = "up" /\ ready BY <1>n DEF OpInv
<1>1. CASE Access
  <2>1. UNCHANGED <<log, dur, snap, olds, spent, phase, ready, chain, op>> BY <1>1, AccessFrame
  <2> QED BY <2>1 DEF Orderly
<1>2. CASE Create \/ (\E d \in Device : RevokeDevice(d)) \/ \E c \in Conn : TouchSeen(c)
  <2>1. /\ phase = "up" /\ UNCHANGED <<phase, ready, chain, dur, olds, spent>>
        /\ op' = op \/ op'.at \in {"temp", "prepare"}
    <3>1. \A d : [NoOp EXCEPT !.kind = "revoke", !.dev = d, !.at = "prepare"].at = "prepare"
      BY DEF NoOp
    <3>2. CASE Create
      BY <3>2 DEF Create, Admits, Idle, Replace, LedgerStays, Reliable
    <3>3. CASE \E d \in Device : RevokeDevice(d)
      BY <3>1, <3>3 DEF RevokeDevice, Idle, FilesStay, MemStays, memVars, Reliable
    <3>4. CASE \E c \in Conn : TouchSeen(c)
      BY <3>4 DEF TouchSeen, Idle, Replace, LedgerStays, Reliable
    <3> QED BY <1>2, <3>2, <3>3, <3>4
  <2> QED BY <1>u, <2>1
<1>3. CASE WriteTemp
  <2>1. CASE Faulty BY <1>g, <2>1
  <2>2. CASE ~Faulty
    <3>1. /\ op.at = "temp" /\ Goto("rename") /\ UNCHANGED <<spent, phase, ready, chain, dur, olds>>
      BY <1>3, <2>2 DEF WriteTemp, LedgerStays, Reliable
    <3>2. op'.at = "rename" BY <1>0, <3>1, Goes
    <3> QED BY <1>i, <1>u, <3>1, <3>2
  <2> QED BY <2>1, <2>2
<1>4. CASE Rename
  <2>1. CASE Faulty BY <1>g, <2>1
  <2>2. CASE ~Faulty
    <3>1. /\ op.at = "rename" /\ Goto("readback") /\ UNCHANGED <<spent, phase, ready, chain, dur>>
          /\ snap' = op.next /\ olds' = olds \cup {op.next}
      BY <1>4, <2>2 DEF Rename, LedgerStays, MemStays, memVars, Reliable
    <3>2. op'.at = "readback" BY <1>0, <3>1, Goes
    <3>3. phase = "up" /\ ready /\ NextBytes /\ revoked \subseteq ToSet(chain)
      BY <1>i, <3>1 DEF SnapInv, Writing
    <3>4. spent = None => Calm(op.next, dur.pairs)
      BY <3>3 DEF NextBytes, Orderly
    <3> QED BY <1>k, <3>1, <3>2, <3>3, <3>4
  <2> QED BY <2>1, <2>2
<1>5. CASE ReadBack
  <2>1. CASE Faulty BY <1>g, <2>1
  <2>2. CASE ~Faulty
    <3>1. /\ op.at = "readback" /\ UNCHANGED <<spent, phase, chain, dur>>
          /\ olds' \in {olds, {snap}}
          /\ \E out : Projected(out)
      BY <1>5, <2>2 DEF ReadBack, LedgerStays, Reliable
    <3>2. op' = NoOp /\ (ready' => ready) BY <3>1 DEF Projected, Return
    <3> QED BY <1>0, <1>i, <1>n, <1>u, <3>1, <3>2
  <2> QED BY <2>1, <2>2
<1>6. CASE AppendRefused
  <2>1. CASE Faulty BY <1>g, <2>1
  <2>2. CASE ~Faulty
    <3>1. /\ op.at = "prepare" /\ op' = NoOp /\ ~ready'
          /\ UNCHANGED <<spent, phase, chain, dur, olds>>
      BY <1>6, <2>2 DEF AppendRefused, FilesStay, Return, Reliable
    <3> QED BY <1>i, <1>n, <1>u, <3>1
  <2> QED BY <2>1, <2>2
<1>7. CASE WritePrepare
  <2>1. CASE Faulty BY <1>g, <2>1
  <2>2. CASE ~Faulty
    <3>1. /\ op.at = "prepare" /\ Goto("syncPrepare")
          /\ UNCHANGED <<spent, phase, ready, chain, dur, olds>>
      BY <1>7, <2>2 DEF WritePrepare, AppendStep, MemStays, memVars, Reliable
    <3>2. op'.at = "syncPrepare" BY <1>0, <3>1, Goes
    <3> QED BY <1>i, <1>u, <3>1, <3>2
  <2> QED BY <2>1, <2>2
<1>8. CASE SyncPrepare
  <2>1. CASE Faulty BY <1>g, <2>1
  <2>2. CASE ~Faulty
    <3>1. /\ op.at = "syncPrepare" /\ Goto("commit") /\ dur' = log
          /\ UNCHANGED <<spent, phase, ready, chain, olds>>
      BY <1>8, <2>2 DEF SyncPrepare, AppendStep, MemStays, memVars, Reliable
    <3>2. op'.at = "commit" BY <1>0, <3>1, Goes
    <3>3. phase' = "up" /\ ready BY <1>i, <3>1
    <3> QED BY <1>k, <3>1, <3>2, <3>3
  <2> QED BY <2>1, <2>2
<1>9. CASE WriteCommit
  <2>1. CASE Faulty BY <1>g, <2>1
  <2>2. CASE ~Faulty
    <3>1. /\ op.at = "commit" /\ Goto("syncCommit")
          /\ UNCHANGED <<spent, phase, ready, chain, dur, olds>>
      BY <1>9, <2>2 DEF WriteCommit, AppendStep, MemStays, memVars, Reliable
    <3>2. op'.at = "syncCommit" BY <1>0, <3>1, Goes
    <3> QED BY <1>i, <1>u, <3>1, <3>2
  <2> QED BY <2>1, <2>2
<1>10. CASE SyncCommit
  <2>1. CASE Faulty BY <1>g, <2>1
  <2>2. CASE ~Faulty
    <3>1. /\ op.at = "syncCommit" /\ Goto("project") /\ dur' = log /\ chain' = log.pairs
          /\ UNCHANGED <<spent, phase, olds>>
      BY <1>10, <2>2 DEF SyncCommit, Reliable
    <3>2. op'.at = "project" BY <1>0, <3>1, Goes
    <3>3. phase' = "up" BY <1>i, <3>1
    <3>4. IsPrefix(chain', dur'.pairs) BY <1>0, <3>1, PrefixFacts
    <3> QED BY <1>k, <3>1, <3>2, <3>3, <3>4
  <2> QED BY <2>1, <2>2
<1>11. CASE Reconcile
  <2>1. spent.faults > 0 BY <1>11 DEF Reconcile, Orderly
  <2>2. spent' = spent \/ Faulty BY <1>11 DEF Reconcile, Reliable
  <2> QED BY <1>f, <1>g, <2>1, <2>2
<1>12. CASE Project
  <2>1. op.at = "project" /\ UNCHANGED <<spent, phase, ready, chain, dur, olds>>
    BY <1>12 DEF Project, LedgerStays, Reliable
  <2>2. op'.at \in {"temp", "idle"} BY <1>12 DEF Project, Replace, Return, NoOp
  <2> QED BY <1>i, <1>u, <2>1, <2>2
<1>13. CASE Start
  <2>1. /\ phase = "down" /\ phase' = "loading"
        /\ UNCHANGED <<log, dur, snap, olds, spent, ready, chain, op>>
    BY <1>13 DEF Start, FilesStay, Reliable, MemStays, memVars
  <2> QED BY <2>1 DEF Orderly
<1>14. CASE CreateHeader
  <2>1. CASE Faulty BY <1>g, <2>1
  <2>2. CASE ~Faulty
    <3>1. UNCHANGED <<log, dur, snap, olds, spent, ready, chain, op, phase>>
      BY <1>14, <2>2 DEF CreateHeader, Reliable, MemStays, memVars
    <3> QED BY <3>1 DEF Orderly
  <2> QED BY <2>1, <2>2
<1>l. phase = "loading" => ~ready /\ op.at # "reconcile"
  BY DEF OpInv, NoOp
<1>15. CASE CreateSnapshot
  <2>1. CASE Faulty BY <1>g, <2>1
  <2>2. CASE ~Faulty /\ log = NewLedger
    <3>1. /\ phase = "loading" /\ snap' = NewSnapshot /\ olds' = olds \cup {NewSnapshot}
          /\ UNCHANGED <<log, dur, spent, ready, chain, op, phase>>
      BY <1>15, <2>2 DEF CreateSnapshot, Reliable, MemStays, memVars, LedgerStays
    <3>2. Calm(NewSnapshot, dur.pairs) BY <1>0, SnapshotTypes, PrefixFacts
    <3>3. Agrees(log, NewSnapshot) BY <1>0, SnapshotTypes, PrefixFacts DEF Agrees
    <3> QED BY <1>l, <3>1, <3>2, <3>3 DEF Orderly
  <2>3. CASE ~Faulty /\ log # NewLedger
    <3>1. /\ phase' = "up" /\ ~ready' /\ op' = NoOp
          /\ UNCHANGED <<spent, dur, olds, chain>>
      BY <1>15, <2>3 DEF CreateSnapshot, NotReady, Started, Reliable, LedgerStays
    <3> QED BY <1>n, <1>u, <3>1
  <2> QED BY <2>1, <2>2, <2>3
<1>16. CASE Load
  <2>1. /\ phase = "loading" /\ phase' = "up" /\ op' = NoOp /\ UNCHANGED <<spent, olds>>
        /\ log' \in {log, Truncated(log)} /\ dur' \in {dur, log'}
        /\ ready' => chain' = log.pairs
    BY <1>16 DEF Load, NotReady, Started, Reliable
  <2>2. dur'.pairs \in {dur.pairs, log.pairs} BY <1>0, <2>1, LedgerTypes
  <2>3. ASSUME spent = None, ready' PROVE IsPrefix(chain', dur'.pairs)
    <3>1. chain' = <<>> BY <2>1, <2>3 DEF Orderly
    <3>2. IsPrefix(<<>>, dur.pairs) /\ IsPrefix(<<>>, log.pairs) BY <1>0, PrefixFacts
    <3> QED BY <2>2, <3>1, <3>2
  <2> QED BY <1>k, <1>n, <2>1, <2>2, <2>3
<1>17. CASE LoadFails BY <1>17, <1>g DEF LoadFails
\* The first crash: the snapshots that may come back follow the synced ledger.
<1>c. ASSUME spent'.crashes = spent.crashes + 1, spent'.faults = spent.faults, op' = NoOp,
             snap' \in olds, log'.pairs \in Seq(Device), IsPrefix(dur.pairs, log'.pairs)
      PROVE  Orderly'
  <2>1. spent' # None BY <1>0, <1>c
  <2>2. ASSUME spent' = First, snap'.is # "absent" PROVE Agrees(log', snap')
    <3>1. spent = None BY <1>0, <1>c, <2>2
    <3>2. Calm(snap', dur.pairs) BY <1>c, <3>1 DEF Orderly
    <3>3. snap'.is = "snapshot" BY <1>0, <1>c, <2>2, <3>2 DEF Snapshots
    <3>4. IsPrefix(snap'.head, log'.pairs)
      <4>1. \A u \in Seq(Device) : IsPrefix(u, dur.pairs) => IsPrefix(u, log'.pairs)
        BY <1>0, <1>c, PrefixFacts
      <4> QED BY <1>c, <1>h, <3>2, <4>1
    <3> QED BY <3>2, <3>3, <3>4 DEF Agrees
  <2> QED BY <1>c, <1>n, <2>1, <2>2 DEF Orderly
<1>18. CASE Kill
  <2>1. log'.pairs = log.pairs BY <1>18, <1>0, InterruptedIs DEF Kill
  <2>2. snap' = snap /\ op' = NoOp /\ Spend("crashes") BY <1>18 DEF Kill, Die
  <2>3. spent'.crashes = spent.crashes + 1 /\ spent'.faults = spent.faults
    BY <1>0, <2>2, SpendTypes
  <2> QED BY <1>0, <1>c, <2>1, <2>2, <2>3
<1>19. CASE PowerLoss
  <2>1. PICK l \in Interrupted : log' \in Survivors(dur, l) BY <1>19 DEF PowerLoss
  <2>2. l \in Ledger /\ IsPrefix(dur.pairs, l.pairs) BY <1>0, <2>1, InterruptedIs
  <2>3. log' \in Ledger /\ IsPrefix(dur.pairs, log'.pairs)
    BY <1>0, <2>1, <2>2, SurvivorsBetween
  <2>4. snap' \in olds /\ op' = NoOp /\ Spend("crashes") BY <1>19 DEF PowerLoss, Die
  <2>5. spent'.crashes = spent.crashes + 1 /\ spent'.faults = spent.faults
    BY <1>0, <2>4, SpendTypes
  <2>6. log'.pairs \in Seq(Device) BY <2>3, LedgerTypes
  <2> QED BY <1>c, <2>3, <2>4, <2>5, <2>6
<1> QED
  BY <1>1, <1>2, <1>3, <1>4, <1>5, <1>6, <1>7, <1>8, <1>9, <1>10, <1>11, <1>12, <1>13,
     <1>14, <1>15, <1>16, <1>17, <1>18, <1>19, NextCases

-----------------------------------------------------------------------------
(* The connections of a revoked device                                     *)

LEMMA FencingNext ==
  ASSUME Types, OpInv, SnapInv, Fencing, Next
  PROVE  Fencing'
<1>0. /\ op \in OpType /\ MemTypes /\ AccessTypes /\ conn \in ConnType /\ rev \in Line
      /\ NoDevice \notin Device /\ revoked \subseteq Device
      /\ NoConn.dev = NoDevice /\ NoConn.at \notin Registered
  BY BoundsAssumption DEF Types, AccessTypes, MemTypes, NoConn, Registered
<1>n. NoOp.at = "idle" BY DEF NoOp
\* No connection becomes registered, and a call in progress still has its fence
\* before it.
<1>k. ASSUME Calms, UNCHANGED fence, revoked' = revoked, phase' = "up",
             \A d \in revoked : Cutting(d) => Cutting(d)'
      PROVE  Fencing'
  <2>1. ASSUME NEW d \in revoked, NEW c \in Conn, conn'[c].dev = d
        PROVE  /\ d \in fence' \/ Cutting(d)'
               /\ conn'[c].at \in Registered => Cutting(d)'
    <3>1. conn'[c] # NoConn BY <1>0, <2>1
    <3>2. conn'[c].dev = conn[c].dev /\ (conn'[c].at \in Registered => conn[c].at \in Registered)
      BY <1>k, <3>1 DEF Calms
    <3> QED BY <1>k, <2>1, <3>2 DEF Fencing
  <2> QED BY <1>k, <2>1 DEF Fencing
<1>u. ASSUME UNCHANGED accessVars, revoked' = revoked, phase' = "up" PROVE Fencing'
  <2>1. Calms BY <1>0, <1>u, ConnMoves DEF accessVars
  <2>2. UNCHANGED <<fence, rev>> BY <1>u DEF accessVars
  <2>3. \A d \in revoked : Cutting(d) => Cutting(d)' BY <2>2 DEF Cutting
  <2> QED BY <1>k, <1>u, <2>1, <2>2, <2>3
<1>c. ASSUME conn' = conn \/ \E S : conn' = Ended(S) \/ conn' = Detached(S)
      PROVE  Calms
  BY <1>0, <1>c, ConnMoves
\* An operation returns. When it revokes and the answer is indeterminate, the
\* revocation has not reached the records.
<1>r. ASSUME NEW out, Return(out), op # NoOp, revoked' = revoked, phase' = phase,
             out = "indeterminate" /\ op.kind = "revoke" => op.at \in Appending
      PROVE  Fencing'
  <2>1. op' = NoOp /\ UNCHANGED fence /\ Calms BY <1>0, <1>r, Returns
  <2>2. phase = "up" BY <1>r DEF OpInv
  <2>3. ASSUME NEW d \in revoked, Cutting(d) PROVE Cutting(d)'
    <3>1. CASE op.kind = "revoke"
      <4>1. rev = [at |-> "store", dev |-> op.dev] /\ d = op.dev
        BY <1>r, <2>3, <3>1 DEF OpInv, Cutting
      <4>2. rev' = [rev EXCEPT !.at = IF out = "indeterminate" THEN "latch" ELSE "fence"]
        BY <1>0, <1>r, <3>1, Returns
      <4>3. out # "indeterminate"
        <5>1. ASSUME out = "indeterminate" PROVE FALSE
          <6>1. op.at \in Appending /\ ready BY <1>r, <3>1, <5>1 DEF OpInv
          <6>2. op.dev \notin ToSet(chain)
            BY <1>n, <1>r, <3>1, <6>1
                DEF OpInv, Writing, Appending
          <6>3. revoked \subseteq ToSet(chain) BY <6>1 DEF SnapInv
          <6> QED BY <4>1, <6>2, <6>3
        <5> QED BY <5>1
      <4> QED BY <4>1, <4>2, <4>3 DEF Cutting
    <3>2. CASE op.kind # "revoke"
      <4>1. rev' = rev BY <1>0, <1>r, <3>2, Returns
      <4> QED BY <2>3, <4>1 DEF Cutting
    <3> QED BY <3>1, <3>2
  <2> QED BY <1>k, <1>r, <2>1, <2>2, <2>3
<1>p. ASSUME NEW out, Projected(out), op # NoOp, UNCHANGED <<revoked, phase>>
      PROVE  Fencing'
  <2>1. CASE op.kind = "revoke"
    <3>1. Return("committed") BY <1>p, <2>1 DEF Projected
    <3> QED BY <1>p, <1>r, <3>1
  <2>2. CASE op.kind # "revoke"
    <3>1. Return(out) BY <1>p, <2>2 DEF Projected
    <3> QED BY <1>p, <1>r, <2>2, <3>1
  <2> QED BY <2>1, <2>2
<1>i. op.at # "idle" => phase = "up" /\ op # NoOp BY <1>n DEF OpInv
<1>1. CASE BudgetRefused
  BY <1>1, <1>u DEF BudgetRefused, Admits, Idle
<1>2. CASE \E c \in Conn : TouchRefused(c)
  <2>1. PICK c \in Conn : TouchRefused(c) BY <1>2
  <2>2. conn' = Ended({c}) \/ conn' = [conn EXCEPT ![c].at = "serving"]
    BY <2>1 DEF TouchRefused
  <2>3. /\ conn[c].at = "registered" /\ phase = "up" /\ UNCHANGED <<phase, fence, rev, revoked>>
    BY <2>1 DEF TouchRefused, Idle
  <2>4. Calms
    <3>1. conn' = [conn EXCEPT ![c].at = "serving"] => Calms
      BY <1>0, <2>3 DEF Calms, ConnType, Registered
    <3> QED BY <1>c, <2>2, <3>1
  <2>5. \A d \in revoked : Cutting(d) => Cutting(d)' BY <2>3 DEF Cutting
  <2> QED BY <1>k, <2>3, <2>4, <2>5
<1>3. CASE \E c \in Conn, d \in Device : Authenticate(c, d)
  <2>1. PICK c \in Conn, d \in Device : Authenticate(c, d) BY <1>3
  <2>2. /\ phase = "up" /\ UNCHANGED <<phase, fence, rev, revoked>> /\ d \notin revoked
        /\ conn' = [conn EXCEPT ![c] = [at |-> "authenticated", dev |-> d]]
    BY <2>1 DEF Authenticate, Idle, MemStays, memVars
  <2>3. \A b \in Conn : b # c => conn'[b] = conn[b] BY <1>0, <2>2 DEF ConnType
  <2>4. conn'[c].dev = d BY <1>0, <2>2 DEF ConnType
  <2>5. \A e : Cutting(e)' <=> Cutting(e) BY <2>2 DEF Cutting
  <2> QED BY <2>2, <2>3, <2>4, <2>5 DEF Fencing
<1>4. CASE StartServer
  <2>1. phase = "up" /\ UNCHANGED <<phase, fence, rev, conn, revoked>>
    BY <1>4 DEF StartServer, Idle, MemStays, memVars
  <2>2. Calms BY <1>c, <2>1
  <2>3. \A d \in revoked : Cutting(d) => Cutting(d)' BY <2>1 DEF Cutting
  <2> QED BY <1>k, <2>1, <2>2, <2>3
<1>5. CASE StopServer
  <2>1. /\ phase = "up" /\ UNCHANGED <<phase, fence, rev, revoked>>
        /\ conn' = Ended({c \in Conn : conn[c].at \in Registered})
    BY <1>5 DEF StopServer, MemStays, memVars
  <2>2. Calms BY <1>c, <2>1
  <2>3. \A d \in revoked : Cutting(d) => Cutting(d)' BY <2>1 DEF Cutting
  <2> QED BY <1>k, <2>1, <2>2, <2>3
<1>6. CASE RegistryStep
  <2>0. phase = "up" /\ phase' = "up" /\ revoked' = revoked
    BY <1>6 DEF RegistryStep, MemStays, memVars
  <2>1. CASE FenceDevice
    <3>1. /\ rev.at = "fence" /\ fence' = fence \cup {rev.dev}
          /\ conn' = Detached(Entries(rev.dev))
      BY <2>1 DEF FenceDevice
    <3>2. \A c \in Conn :
            /\ conn'[c].dev = conn[c].dev
            /\ conn'[c].at \in Registered =>
                 conn[c].at \in Registered /\ c \notin Entries(rev.dev)
      BY <1>0, <3>1 DEF Detached, ConnType, Registered
    <3>3. ASSUME NEW d \in revoked, NEW c \in Conn, conn'[c].dev = d
          PROVE  d \in fence' /\ conn'[c].at \notin Registered
      <4>1. conn[c].dev = d BY <3>2, <3>3
      <4>2. CASE d = rev.dev BY <3>1, <3>2, <4>1, <4>2 DEF Entries
      <4>3. CASE d # rev.dev
        <5>1. ~Cutting(d) BY <4>3 DEF Cutting
        <5> QED BY <3>1, <3>2, <4>1, <5>1 DEF Fencing
      <4> QED BY <4>2, <4>3
    <3> QED BY <2>0, <3>3 DEF Fencing
  <2>2. CASE LatchRegistry
    <3>1. Calms BY <2>2, <1>c DEF LatchRegistry
    <3>2. UNCHANGED fence /\ \A d \in revoked : ~Cutting(d) BY <2>2 DEF LatchRegistry, Cutting
    <3> QED BY <1>k, <2>0, <3>1, <3>2
  <2>3. CASE Terminate
    <3>1. Calms BY <2>3, <1>c DEF Terminate
    <3>2. UNCHANGED fence /\ \A d \in revoked : ~Cutting(d) BY <2>3 DEF Terminate, Cutting
    <3> QED BY <1>k, <2>0, <3>1, <3>2
  <2>4. CASE \E c \in Conn : Disconnect(c)
    <3>1. Calms /\ UNCHANGED <<fence, rev>> BY <2>4, <1>c DEF Disconnect
    <3>2. \A d \in revoked : Cutting(d) => Cutting(d)' BY <3>1 DEF Cutting
    <3> QED BY <1>k, <2>0, <3>1, <3>2
  <2>5. CASE \E c \in Conn : Register(c)
    <3>1. PICK c \in Conn : Register(c) BY <2>5
    <3>2. UNCHANGED <<fence, rev>> BY <3>1 DEF Register
    <3>3. \A d \in revoked : Cutting(d) => Cutting(d)' BY <3>2 DEF Cutting
    <3>4. CASE conn' = Ended({c})
      <4>1. Calms BY <1>c, <3>4
      <4> QED BY <1>k, <2>0, <3>2, <3>3, <4>1
    <3>5. CASE conn[c].dev \notin fence /\ conn' = [conn EXCEPT ![c].at = "registered"]
      <4>1. \A b \in Conn : conn'[b].dev = conn[b].dev /\ (b # c => conn'[b] = conn[b])
        BY <1>0, <3>5 DEF ConnType
      <4>2. ASSUME NEW d \in revoked, NEW b \in Conn, conn'[b].dev = d
            PROVE  /\ d \in fence' \/ Cutting(d)'
                   /\ conn'[b].at \in Registered => Cutting(d)'
        <5>1. d \in fence \/ Cutting(d) BY <4>1, <4>2 DEF Fencing
        <5>2. CASE b = c BY <3>2, <3>3, <3>5, <4>1, <4>2, <5>1, <5>2
        <5>3. CASE b # c BY <3>2, <3>3, <4>1, <4>2, <5>3 DEF Fencing
        <5> QED BY <5>2, <5>3
      <4> QED BY <2>0, <4>2 DEF Fencing
    <3> QED BY <3>1, <3>4, <3>5 DEF Register
  <2> QED BY <1>6, <2>1, <2>2, <2>3, <2>4, <2>5 DEF RegistryStep
<1>7. CASE Create
  BY <1>7, <1>u DEF Create, Admits, Idle
<1>8. CASE \E d \in Device : RevokeDevice(d)
  <2>1. /\ phase = "up" /\ rev = NoCall /\ UNCHANGED <<phase, fence, conn, revoked>>
    BY <1>8 DEF RevokeDevice, Idle, MemStays, memVars
  <2>2. \A d \in revoked : ~Cutting(d) BY <2>1 DEF Cutting, NoCall
  <2>3. Calms BY <1>c, <2>1
  <2> QED BY <1>k, <2>1, <2>2, <2>3
<1>9. CASE \E c \in Conn : TouchSeen(c)
  <2>1. PICK c \in Conn : TouchSeen(c) BY <1>9
  <2>2. /\ phase = "up" /\ conn[c].at = "registered" /\ UNCHANGED <<phase, fence, rev, revoked>>
        /\ conn' = [conn EXCEPT ![c].at = "touching"]
    BY <2>1 DEF TouchSeen, Idle
  <2>3. Calms BY <1>0, <2>2 DEF Calms, ConnType, Registered
  <2>4. \A d \in revoked : Cutting(d) => Cutting(d)' BY <2>2 DEF Cutting
  <2> QED BY <1>k, <2>2, <2>3, <2>4
<1>10. CASE WriteTemp
  <2>1. op # NoOp /\ phase = "up" /\ UNCHANGED <<revoked, phase>>
    BY <1>10, <1>i DEF WriteTemp
  <2>2. UNCHANGED accessVars \/ \E out : Projected(out) BY <1>10 DEF WriteTemp
  <2> QED BY <1>p, <1>u, <2>1, <2>2
<1>11. CASE Rename
  <2>1. phase = "up" /\ UNCHANGED <<revoked, phase, accessVars>>
    BY <1>11, <1>i DEF Rename, MemStays, memVars
  <2> QED BY <1>u, <2>1
<1>12. CASE ReadBack
  <2>1. op # NoOp /\ UNCHANGED <<revoked, phase>> /\ \E out : Projected(out)
    BY <1>12, <1>i DEF ReadBack
  <2> QED BY <1>p, <2>1
<1>13. CASE AppendRefused
  <2>1. op # NoOp /\ op.at \in Appending /\ UNCHANGED <<revoked, phase>> /\ Return("indeterminate")
    BY <1>13, <1>i DEF AppendRefused, Appending
  <2> QED BY <1>r, <2>1
<1>14. CASE WritePrepare \/ SyncPrepare \/ WriteCommit
  <2>1. phase = "up" /\ UNCHANGED <<revoked, phase, accessVars>>
    BY <1>14, <1>i DEF WritePrepare, SyncPrepare, WriteCommit, AppendStep, MemStays, memVars
  <2> QED BY <1>u, <2>1
<1>15. CASE SyncCommit
  <2>1. phase = "up" /\ UNCHANGED <<revoked, phase, accessVars>> BY <1>15, <1>i DEF SyncCommit
  <2> QED BY <1>u, <2>1
<1>16. CASE Reconcile
  <2>1. op # NoOp /\ phase = "up" /\ op.at \in Appending /\ UNCHANGED <<revoked, phase>>
    BY <1>16, <1>i DEF Reconcile, Appending
  <2>2. UNCHANGED accessVars \/ \E out : Return(out) BY <1>16 DEF Reconcile, Failed
  <2> QED BY <1>r, <1>u, <2>1, <2>2
<1>17. CASE Project
  <2>1. op.at = "project" /\ op # NoOp /\ phase = "up" /\ UNCHANGED phase
    BY <1>17, <1>i DEF Project
  <2>2. /\ op.kind = "revoke" /\ rev = [at |-> "store", dev |-> op.dev]
        /\ revoked' = revoked \cup {op.dev}
    BY <1>17, <2>1, OpDevice DEF Project
  <2>3. /\ UNCHANGED fence /\ Calms /\ rev'.at \in {"store", "fence"} /\ rev'.dev = op.dev
        /\ \A d \in revoked : Cutting(d) => Cutting(d)'
    <3>1. CASE UNCHANGED accessVars
      <4>1. UNCHANGED <<fence, conn, rev>> BY <3>1 DEF accessVars
      <4>2. Calms BY <1>c, <4>1
      <4>3. rev' = [at |-> "store", dev |-> op.dev] BY <2>2, <4>1
      <4>4. \A d \in revoked : Cutting(d) => Cutting(d)' BY <4>1 DEF Cutting
      <4> QED BY <4>1, <4>2, <4>3, <4>4
    <3>2. CASE Return("committed")
      <4>1. UNCHANGED fence /\ Calms BY <1>0, <2>1, <3>2, Returns
      <4>2. rev' = [rev EXCEPT !.at = "fence"]
        BY <1>0, <2>1, <2>2, <3>2, Returns
      <4>3. rev' = [at |-> "fence", dev |-> op.dev] BY <2>2, <4>2
      <4>4. \A d \in revoked : Cutting(d) => Cutting(d)'
        BY <2>2, <4>3 DEF Cutting
      <4> QED BY <4>1, <4>3, <4>4
    <3> QED BY <1>17, <3>1, <3>2 DEF Project
  <2>4. ASSUME NEW d \in revoked', NEW c \in Conn, conn'[c].dev = d
        PROVE  /\ d \in fence' \/ Cutting(d)'
               /\ conn'[c].at \in Registered => Cutting(d)'
    <3>1. CASE d = op.dev BY <2>3, <3>1 DEF Cutting
    <3>2. CASE d # op.dev
      <4>1. d \in revoked BY <2>2, <2>4, <3>2
      <4>2. conn'[c] # NoConn BY <1>0, <2>4, <4>1
      <4>3. conn'[c].dev = conn[c].dev /\ (conn'[c].at \in Registered => conn[c].at \in Registered)
        BY <2>3, <4>2 DEF Calms
      <4> QED BY <2>3, <2>4, <4>1, <4>3 DEF Fencing
    <3> QED BY <3>1, <3>2
  <2> QED BY <2>1, <2>4 DEF Fencing
\* The store is not up yet: there is no connection.
<1>l. ASSUME phase # "up", UNCHANGED accessVars
      PROVE  (\A c \in Conn : conn'[c] = NoConn) /\ revoked = {}
  BY <1>l DEF Fencing, accessVars
<1>m. ASSUME \A c \in Conn : conn'[c] = NoConn, revoked' \subseteq Device,
             phase' # "up" => revoked' = {}
      PROVE  Fencing'
  BY <1>0, <1>m DEF Fencing
<1>18. CASE Start \/ CreateHeader \/ CreateSnapshot \/ LoadFails
  <2>1. phase # "up" /\ UNCHANGED <<accessVars, revoked>>
    BY <1>18 DEF Start, CreateHeader, CreateSnapshot, LoadFails, NotReady, MemStays, memVars
  <2> QED BY <1>l, <1>m, <2>1
<1>19. CASE Load
  <2>1. phase # "up" /\ phase' = "up" /\ UNCHANGED accessVars
    BY <1>19 DEF Load, NotReady, Started
  <2>2. revoked' = revoked \/ revoked' = Fused(log, snap) BY <1>19 DEF Load, NotReady
  <2>3. snap.seen \in Seens BY DEF Types, FileTypes, Snapshots
  <2>4. revoked' \subseteq Device BY <1>0, <2>2, <2>3, SeenTypes DEF Fused
  <2> QED BY <1>l, <1>m, <2>1, <2>4
<1>20. CASE Kill \/ PowerLoss
  <2>1. Die BY <1>20 DEF Kill, PowerLoss
  <2> QED BY <1>m, <2>1 DEF Die
<1> QED
  BY <1>1, <1>2, <1>3, <1>4, <1>5, <1>6, <1>7, <1>8, <1>9, <1>10, <1>11, <1>12, <1>13,
     <1>14, <1>15, <1>16, <1>17, <1>18, <1>19, <1>20, NextCases DEF Access

-----------------------------------------------------------------------------
(* The theorems                                                            *)

\* The first start finds no files.
LEMMA DeviceInit ==
  ASSUME Init
  PROVE  DeviceInv
<1>1. /\ log = NewLedger /\ dur = NewLedger /\ snap = Absent /\ olds = {Absent} /\ temp = "none"
      /\ spent = [faults |-> 0, crashes |-> 0]
      /\ accepting = FALSE /\ fence = {} /\ conn = [c \in Conn |-> NoConn] /\ rev = NoCall
      /\ phase = "down" /\ op = NoOp /\ ready = FALSE /\ chain = <<>> /\ seen = <<>>
      /\ revoked = {} /\ unsafe = FALSE
  BY DEF Init, FilesInit, AccessInit
<1>2. /\ <<>> \in Seq(Device) /\ <<>> \in Seens /\ ToSet(<<>>) = {}
      /\ IsPrefix(<<>>, <<>>)
  <2>1. <<>> \in Seq(Device) /\ DOMAIN <<>> = {} OBVIOUS
  <2>2. ToSet(<<>>) = {} BY <2>1 DEF ToSet
  <2>3. IsPrefix(<<>>, <<>>) BY <2>1, PrefixFacts
  <2> QED BY <2>1, <2>2, <2>3, SeenTypes
<1>3. Types
  <2>1. FileTypes BY <1>1, LedgerTypes, SnapshotTypes DEF FileTypes
  <2>2. MemTypes BY <1>1, <1>2 DEF MemTypes
  <2>3. AccessTypes BY <1>1 DEF AccessTypes, Line, ConnType, NoConn, NoCall
  <2>4. op \in OpType BY <1>1, SnapshotTypes
  <2> QED BY <2>1, <2>2, <2>3, <2>4 DEF Types
<1>4. OpInv BY <1>1 DEF OpInv, NoOp
<1>5. Room
  <2>1. Fits({}, <<>>)
    <3>1. {} \cup ToSet(<<>>) = {} BY <1>2
    <3>2. IsFiniteSet({}) /\ Cardinality({}) = 0 BY FS_EmptySet
    <3>3. 0 <= MaxKnown BY BoundsAssumption
    <3> QED BY <3>1, <3>2, <3>3, Zenon DEF Fits
  <2> QED BY <1>1, <2>1, LedgerTypes, SnapshotTypes DEF Room
<1>6. LogInv BY <1>1, <1>2, LedgerTypes DEF LogInv
<1>7. SnapInv BY <1>1 DEF SnapInv
<1>8. Orderly
  <2>1. Absent.is = "absent" /\ Absent.head = <<>> /\ Absent.revoked = {}
    BY DEF Absent, View
  <2> QED BY <1>1, <1>2, <2>1, LedgerTypes DEF Orderly, NoOp
<1>9. Fencing BY <1>1 DEF Fencing
<1> QED BY <1>3, <1>4, <1>5, <1>6, <1>7, <1>8, <1>9 DEF DeviceInv

\* Every step of the store, of the connections and of a crash keeps the invariant.
LEMMA DeviceStep ==
  ASSUME DeviceInv, [Next]_vars
  PROVE  DeviceInv'
<1>0. Types /\ OpInv /\ Room /\ LogInv /\ SnapInv /\ Orderly /\ Fencing BY DEF DeviceInv
<1>1. CASE Next
  <2>1. Types'
    BY <1>0, <1>1, FileTypesNext, MemTypesNext, OpTypeNext, AccessTypesNext DEF Types
  <2>2. OpInv' BY <1>0, <1>1, OpInvNext
  <2>3. Room' BY <1>0, <1>1, RoomNext
  <2>4. LogInv' BY <1>0, <1>1, LogInvNext
  <2>5. SnapInv' BY <1>0, <1>1, SnapInvNext
  <2>6. Orderly' BY <1>0, <1>1, OrderlyNext
  <2>7. Fencing' BY <1>0, <1>1, FencingNext
  <2> QED BY <2>1, <2>2, <2>3, <2>4, <2>5, <2>6, <2>7 DEF DeviceInv
<1>2. CASE UNCHANGED vars
  <2>1. /\ UNCHANGED <<log, dur, snap, olds, temp, spent, phase, ready, chain, seen, revoked>>
        /\ UNCHANGED <<unsafe, op, accepting, fence, conn, rev>>
    BY <1>2 DEF vars, fileVars, accessVars, memVars
  <2>2. Types' BY <1>0, <2>1 DEF Types, FileTypes, MemTypes, AccessTypes
  <2>3. OpInv' /\ Room' /\ LogInv' BY <1>0, <2>1 DEF OpInv, Room, LogInv
  <2>4. SnapInv' BY <1>0, <2>1 DEF SnapInv, Agreed, NextBytes
  <2>5. Orderly' BY <1>0, <2>1 DEF Orderly
  <2>6. Fencing' BY <1>0, <2>1 DEF Fencing, Cutting
  <2> QED BY <2>2, <2>3, <2>4, <2>5, <2>6 DEF DeviceInv
<1> QED BY <1>1, <1>2

\* The files, the memory, the running operation and the connections fit
\* together in every state of device_store.go, revocation_ledger.go and
\* connection_registry.go, across any faults, kills and power losses.
THEOREM DeviceInvariant == Spec => []DeviceInv
<1>1. Init => DeviceInv BY DeviceInit
<1>2. DeviceInv /\ [Next]_vars => DeviceInv' BY DeviceStep
<1> QED BY <1>1, <1>2, PTL DEF Spec

\* The files, the memory and the calls keep their shapes; and every device that
\* is known has room in the ledger for its one revocation, even the revoked ones
\* that the snapshot has lost (AdmitNewDevice, reserveSufficient).
THEOREM DeviceTypes == Spec => []TypeOK
<1>1. ASSUME DeviceInv PROVE TypeOK
  <2>1. Types /\ Room BY <1>1 DEF DeviceInv
  <2>2. ready => Cardinality(DOMAIN seen \cup ToSet(chain)) <= MaxKnown
    BY <2>1 DEF Room, Fits
  <2>3. DOMAIN seen \subseteq Device BY <2>1, SeenTypes DEF Types, MemTypes
  <2>4. snap.is \in {"snapshot", "absent", "garbage"} BY <2>1 DEF Types, FileTypes, Snapshots
  <2> QED
    BY <2>1, <2>2, <2>3, <2>4
       DEF Types, FileTypes, MemTypes, AccessTypes, ConnType, TypeOK
<1>2. DeviceInv => TypeOK BY <1>1
<1> QED BY <1>2, DeviceInvariant, PTL

\* What a ready store holds between two operations.
LEMMA AtRest ==
  ASSUME DeviceInv, Idle, ready
  PROVE  /\ log.pairs = chain /\ log.tail = "clean" /\ chain \in Seq(Device)
         /\ revoked = ToSet(chain) \cap DOMAIN seen
         /\ snap.is = "snapshot" /\ IsPrefix(snap.head, chain) /\ snap.head \in Seq(Device)
         /\ snap.revoked \subseteq ToSet(snap.head) /\ snap.seen = seen
         /\ IsPrefix(dur.pairs, chain) /\ dur.pairs \in Seq(Device)
<1>1. op.at = "idle" /\ op.kind = "none" BY DEF Idle, NoOp
<1>2. log.pairs = chain /\ log.tail = "clean" /\ IsPrefix(dur.pairs, log.pairs)
  BY <1>1 DEF DeviceInv, LogInv
<1>3. Agreed /\ revoked = ToSet(chain) \cap DOMAIN seen BY <1>1 DEF DeviceInv, SnapInv
<1>4. chain \in Seq(Device) /\ snap.head \in Seq(Device) /\ dur.pairs \in Seq(Device)
  BY LedgerTypes DEF DeviceInv, Types, FileTypes, MemTypes, Snapshots
<1> QED BY <1>1, <1>2, <1>3, <1>4 DEF Agreed

\* A revocation whose commit line was synced (appendRevoke in revocation_ledger.go) is
\* in force whenever the store is ready and at rest: after any crashes, failed
\* syncs, truncations, and snapshots that come back (LoadOrInitialize).
THEOREM RevocationsLast == Spec => []RevokedDurably
<1>1. ASSUME DeviceInv PROVE RevokedDurably
  <2>1. ASSUME Idle, ready PROVE ToSet(dur.pairs) \cap DOMAIN seen \subseteq revoked
    <3>1. /\ IsPrefix(dur.pairs, chain) /\ revoked = ToSet(chain) \cap DOMAIN seen
          /\ chain \in Seq(Device) /\ dur.pairs \in Seq(Device)
      BY <1>1, <2>1, AtRest
    <3>2. ToSet(dur.pairs) \subseteq ToSet(chain) BY <3>1, PrefixFacts
    <3> QED BY <3>1, <3>2
  <2> QED BY <2>1 DEF RevokedDurably
<1>2. DeviceInv => RevokedDurably BY <1>1
<1> QED BY <1>2, DeviceInvariant, PTL

\* Between two operations a ready store (device_store.go) holds what a restart
\* would read: no operation that failed half-way leaves its memory ahead of its
\* files or behind them.
THEOREM MemoryIsTheFiles == Spec => []ReloadAgrees
<1>1. ASSUME DeviceInv PROVE ReloadAgrees
  <2>1. ASSUME Idle, ready
        PROVE  /\ Parses(log) /\ Agrees(log, snap)
               /\ chain = log.pairs /\ seen = snap.seen /\ revoked = Fused(log, snap)
    <3>1. /\ log.pairs = chain /\ log.tail = "clean" /\ chain \in Seq(Device)
          /\ revoked = ToSet(chain) \cap DOMAIN seen
          /\ snap.is = "snapshot" /\ IsPrefix(snap.head, chain) /\ snap.head \in Seq(Device)
          /\ snap.revoked \subseteq ToSet(snap.head) /\ snap.seen = seen
      BY <1>1, <2>1, AtRest
    <3>2. ToSet(snap.head) \subseteq ToSet(chain) BY <3>1, PrefixFacts
    <3> QED BY <3>1, <3>2 DEF Parses, Agrees, Fused
  <2> QED BY <2>1 DEF ReloadAgrees
<1>2. DeviceInv => ReloadAgrees BY <1>1
<1> QED BY <1>2, DeviceInvariant, PTL

\* The first restart latches the store (reconcileLocked in device_store.go) only
\* over files that a failed call or a cut ledger line had damaged: the order of
\* the writes alone never leaves the snapshot ahead of the ledger.
THEOREM RestartAgrees == Spec => []OnlyDamageLatches
<1>1. DeviceInv => OnlyDamageLatches BY DEF DeviceInv, Orderly, OnlyDamageLatches
<1> QED BY <1>1, DeviceInvariant, PTL

\* Once RevokeDevice (device.go) has returned, no connection of the device is
\* in the registry: neither one that was being served nor one that had passed
\* authentication and registers late.
THEOREM NoRevokedDeviceIsServed == Spec => []CutOnReturn
<1>1. ASSUME DeviceInv, NEW d \in revoked, Entries(d) # {}
      PROVE  rev.dev = d
  <2>1. PICK c \in Conn : conn[c].dev = d /\ conn[c].at \in Registered
    BY <1>1 DEF Entries
  <2>2. Cutting(d) BY <1>1, <2>1 DEF DeviceInv, Fencing
  <2> QED BY <2>2 DEF Cutting
<1>2. DeviceInv => CutOnReturn BY <1>1 DEF CutOnReturn
<1> QED BY <1>2, DeviceInvariant, PTL

\* No step takes a synced revocation out of the ledger: neither the truncation of
\* an uncommitted tail (revocation_ledger.go) nor a crash.
THEOREM SyncedRevocationsStay == Spec => TombstonesStay
<1>1. ASSUME DeviceInv, [Next]_vars PROVE IsPrefix(dur.pairs, dur'.pairs)
  <2>1. /\ log \in Ledger /\ log.pairs \in Seq(Device)
        /\ dur \in Ledger /\ dur.pairs \in Seq(Device)
        /\ IsPrefix(dur.pairs, log.pairs) /\ op \in OpType
    BY <1>1, LedgerTypes DEF DeviceInv, Types, FileTypes, LogInv
  <2>2. ASSUME dur'.pairs \in {dur.pairs, log.pairs} PROVE IsPrefix(dur.pairs, dur'.pairs)
    <3>1. IsPrefix(dur.pairs, dur.pairs) BY <2>1, PrefixFacts
    <3> QED BY <2>1, <2>2, <3>1
  <2>3. CASE PowerLoss
    <3>1. PICK l \in Interrupted : log' \in Survivors(dur, l) BY <2>3 DEF PowerLoss
    <3>2. l \in Ledger /\ IsPrefix(dur.pairs, l.pairs) BY <2>1, <3>1, InterruptedIs
    <3>3. IsPrefix(dur.pairs, log'.pairs) BY <2>1, <3>1, <3>2, SurvivorsBetween
    <3> QED BY <2>3, <3>3 DEF PowerLoss
  <2>4. CASE Load \/ Reconcile
    <3>1. log' \in {log, Truncated(log)} /\ dur' \in {dur, log, log', Truncated(log)}
      BY <2>4 DEF Load, Reconcile
    <3>2. dur'.pairs \in {dur.pairs, log.pairs} BY <2>1, <3>1, LedgerTypes
    <3> QED BY <2>2, <3>2
  <2>5. CASE SyncPrepare \/ SyncCommit
    BY <2>2, <2>5 DEF SyncPrepare, SyncCommit
  <2>6. CASE UNCHANGED dur BY <2>2, <2>6
  <2>7. CASE Access BY <2>6, <2>7, AccessFrame
  <2>8. CASE Create \/ (\E d \in Device : RevokeDevice(d)) \/ \E c \in Conn : TouchSeen(c)
    BY <2>6, <2>8 DEF Create, RevokeDevice, TouchSeen, LedgerStays, FilesStay
  <2>9. CASE \/ WriteTemp \/ Rename \/ ReadBack \/ AppendRefused \/ WritePrepare \/ WriteCommit
             \/ Project
    BY <2>6, <2>9 DEF WriteTemp, Rename, ReadBack, AppendRefused, WritePrepare, WriteCommit,
       Project, LedgerStays, FilesStay
  <2>10. CASE Start \/ CreateHeader \/ CreateSnapshot \/ LoadFails \/ Kill
    BY <2>6, <2>10
       DEF Start, CreateHeader, CreateSnapshot, LoadFails, Kill, LedgerStays, FilesStay
  <2>11. CASE UNCHANGED vars BY <2>6, <2>11 DEF vars, fileVars
  <2> QED BY <1>1, <2>3, <2>4, <2>5, <2>7, <2>8, <2>9, <2>10, <2>11, NextCases
<1>2. DeviceInv /\ [Next]_vars => [IsPrefix(dur.pairs, dur'.pairs)]_vars BY <1>1
<1> QED BY <1>2, DeviceInvariant, PTL DEF Spec, TombstonesStay

=============================================================================
