------------------------ MODULE AccountRotation_proofs ------------------------
EXTENDS AccountRotation, FiniteSetTheorems, SequenceTheorems, TLAPS

(***************************************************************************)
(* The invariants of the account rotation, for any accounts, organizations *)
(* of one user, versions, faults and crashes. The argument: the pool in    *)
(* the store is always sound by itself (PoolOK): an open journal names the *)
(* snapshots of its two accounts, so that a journal that is closed where   *)
(* all slots are at one of its ends leaves the slots with the account that *)
(* becomes, or stays, the active one. What a step of the running operation *)
(* still relies on from the steps before it is Places.                     *)
(***************************************************************************)

-----------------------------------------------------------------------------
(* The inductive invariant                                                 *)

Documents ==
  [accounts   : UNION {[D -> Snapshots] : D \in SUBSET Accounts},
   active     : Accounts \cup {NoAccount},
   generation : Nat,
   txn        : Journals \cup {NoTxn, Enrollment},
   intent     : (Accounts \X Grants) \cup {NoIntent}]

\* A pool document that decodes, whose snapshots are their own accounts', and
\* whose journal is between the snapshots of two of them.
PoolOK(p) ==
  /\ p \in Documents
  /\ p.active \in DOMAIN p.accounts \/ p.active = NoAccount
  /\ \A a \in DOMAIN p.accounts, s \in Slots : SameUser(p.accounts[a].value[s].account, a)
  /\ p.txn.kind = "swap" =>
       /\ p.txn \in Journals
       /\ p.txn.source = p.active /\ p.txn.from = p.generation
       /\ p.txn.source \in DOMAIN p.accounts /\ p.txn.target \in DOMAIN p.accounts
       /\ p.txn.before = p.accounts[p.txn.source].value
       /\ p.txn.after = p.accounts[p.txn.target].value

\* The running swap finds its target and an account to swap from.
Serves(c, p) == c.op = "swap" => c.target \in DOMAIN p.accounts /\ p.active \in DOMAIN p.accounts

\* Slots that only the service and refreshes wrote are the active account's.
Aligned(p, slots, used) ==
  used["logins"] = 0 /\ p.txn.kind # "swap" =>
    p.active = NoAccount \/ \A s \in Slots : SameUser(slots[s].account, p.active)

Asking     == {"post", "granted", "uncertain", "invalid"}
Refreshing == Asking \cup {"refresh"}
Looking    == Refreshing \cup {"prepare", "verify", "recheck", "settle"}
SwapPlaces == Looking \cup {"body", "again"}
Moving     == {"lock", "relock", "patch", "progress"}
OtherPlaces == {"harvest", "adopt", "capture", "captured", "enroll"}

Types ==
  /\ native \in Owned
  /\ issued \in [Accounts -> [Slots -> 0..MaxVersion]]
  /\ nativeLock \in {"free", "held", "left"}
  /\ spent \in [Events -> Nat]
  /\ pc \in SwapPlaces \cup Moving \cup OtherPlaces \cup {"idle", "reconcile"}
  /\ call \in [op : {"none", "swap", "enroll", "harvest", "adopt", "capture"},
               target : Accounts \cup {NoAccount}]
  /\ seen = NoValues \/ seen \in Owned
  /\ todo \in Seq(Slots) /\ next \in {"idle", "body"} /\ journaled \in BOOLEAN

\* What an operation knows of the stores where it is.
Places ==
  /\ pc = "idle" => call = NoCall
  /\ pc # "progress" => mem = stored
  /\ pc \in Moving => mem.txn.kind = "swap" /\ stored.txn.kind = "swap"
  /\ pc \in SwapPlaces \cup OtherPlaces => stored.txn.kind # "swap"
  /\ pc \in SwapPlaces \/ next = "body" => call.op = "swap"
  /\ pc = "harvest" => stored.active # NoAccount
  /\ pc \in Refreshing => todo \in Seq(Grants) /\ Target # stored.active
  /\ pc \in Asking \cup {"progress"} => todo # <<>>
  /\ pc \in Looking => seen \in Owned /\ seen = stored.accounts[stored.active].value
  /\ pc = "granted" => stored.accounts[Target].value["pa"].version < MaxVersion
  /\ pc = "captured" => seen \in Owned /\ Paired(seen)
  /\ pc = "relock" => seen \in Owned
  /\ pc = "lock" => todo = AllProjections /\ mem.txn.expected = mem.txn.before
  /\ pc \in {"patch", "progress"} =>
       seen \in Owned /\ \A i \in DOMAIN todo : seen[todo[i]] = mem.txn.before[todo[i]]

Good(p) == PoolOK(p) /\ Serves(call, p) /\ Aligned(p, native, spent)

RotationInv ==
  Types /\ Good(stored) /\ Good(mem) /\ Places

-----------------------------------------------------------------------------
(* Users, books of accounts and pool documents                             *)

LEMMA OneUser ==
  /\ \A a : SameUser(a, a)
  /\ \A a, b : SameUser(a, b) => SameUser(b, a)
  /\ \A a, b, c : SameUser(a, b) /\ SameUser(b, c) => SameUser(a, c)
BY DEF SameUser

LEMMA PairedIsOneUser ==
  ASSUME NEW v \in Owned, Paired(v)
  PROVE  \A s \in Slots : SameUser(v[s].account, v["cc"].account)
BY OneUser DEF Paired, Slots

LEMMA Books ==
  ASSUME NEW b
  PROVE  b \in UNION {[D -> Snapshots] : D \in SUBSET Accounts}
           <=> DOMAIN b \subseteq Accounts /\ b \in [DOMAIN b -> Snapshots]
<1>1. ASSUME DOMAIN b \subseteq Accounts, b \in [DOMAIN b -> Snapshots]
      PROVE  b \in UNION {[D -> Snapshots] : D \in SUBSET Accounts}
  BY <1>1
<1>2. ASSUME b \in UNION {[D -> Snapshots] : D \in SUBSET Accounts}
      PROVE  DOMAIN b \subseteq Accounts /\ b \in [DOMAIN b -> Snapshots]
  <2>1. PICK D \in SUBSET Accounts : b \in [D -> Snapshots] BY <1>2
  <2> QED BY <2>1
<1> QED BY <1>1, <1>2

LEMMA SnapshotParts ==
  ASSUME NEW sn \in Snapshots
  PROVE  /\ sn.value \in Owned /\ sn.health \in [Grants -> Healths]
         /\ \A o \in Owned : /\ [sn EXCEPT !.value = o] \in Snapshots
                             /\ [sn EXCEPT !.value = o].value = o
         /\ \A g \in Grants, h \in Healths :
              /\ [sn EXCEPT !.health[g] = h] \in Snapshots
              /\ [sn EXCEPT !.health[g] = h].value = sn.value
BY DEF Snapshots

LEMMA Transactions ==
  /\ NoTxn.kind # "swap" /\ Enrollment.kind # "swap"
  /\ \A j \in Journals : j.kind = "swap"
BY DEF NoTxn, Enrollment, Journals

\* What a pool document is made of.
LEMMA PoolFacts ==
  ASSUME NEW p, PoolOK(p)
  PROVE  /\ p.accounts \in [DOMAIN p.accounts -> Snapshots] /\ DOMAIN p.accounts \subseteq Accounts
         /\ p.active \in Accounts \cup {NoAccount} /\ p.generation \in Nat
         /\ p.txn \in Journals \cup {NoTxn, Enrollment}
         /\ p.intent \in (Accounts \X Grants) \cup {NoIntent}
         /\ p.active # NoAccount => p.active \in DOMAIN p.accounts
         /\ \A a \in DOMAIN p.accounts : p.accounts[a].value \in Owned
         /\ p = [accounts |-> p.accounts, active |-> p.active, generation |-> p.generation,
                 txn |-> p.txn, intent |-> p.intent]
<1>1. /\ p.accounts \in UNION {[D -> Snapshots] : D \in SUBSET Accounts}
      /\ p.active \in Accounts \cup {NoAccount} /\ p.generation \in Nat
      /\ p.txn \in Journals \cup {NoTxn, Enrollment}
      /\ p.intent \in (Accounts \X Grants) \cup {NoIntent}
      /\ p = [accounts |-> p.accounts, active |-> p.active, generation |-> p.generation,
              txn |-> p.txn, intent |-> p.intent]
  BY DEF PoolOK, Documents
<1>2. p.accounts \in [DOMAIN p.accounts -> Snapshots] /\ DOMAIN p.accounts \subseteq Accounts
  BY <1>1, Books
<1>3. \A a \in DOMAIN p.accounts : p.accounts[a].value \in Owned
  BY <1>2, SnapshotParts
<1>4. p.active # NoAccount => p.active \in DOMAIN p.accounts
  BY DEF PoolOK
<1> QED BY <1>1, <1>2, <1>3, <1>4

\* A document outside a swap is sound when its parts are.
LEMMA SoundPool ==
  ASSUME NEW b, NEW act, NEW gen \in Nat, NEW txn \in {NoTxn, Enrollment},
         NEW intent \in (Accounts \X Grants) \cup {NoIntent},
         DOMAIN b \subseteq Accounts, b \in [DOMAIN b -> Snapshots],
         act \in DOMAIN b \/ act = NoAccount,
         \A a \in DOMAIN b, s \in Slots : SameUser(b[a].value[s].account, a)
  PROVE  PoolOK([accounts |-> b, active |-> act, generation |-> gen, txn |-> txn,
                 intent |-> intent])
<1> DEFINE q == [accounts |-> b, active |-> act, generation |-> gen, txn |-> txn,
                 intent |-> intent]
<1>1. /\ q.accounts = b /\ q.active = act /\ q.txn = txn /\ q.generation = gen
      /\ q.intent = intent
  OBVIOUS
<1>2. b \in UNION {[D -> Snapshots] : D \in SUBSET Accounts} BY Books
<1>3. q \in Documents
  <2>1. act \in Accounts \cup {NoAccount} OBVIOUS
  <2>2. txn \in Journals \cup {NoTxn, Enrollment} OBVIOUS
  <2> HIDE <1>1
  <2> QED BY <1>2, <2>1, <2>2 DEF Documents
<1>4. q.txn.kind # "swap" BY <1>1, Transactions
<1> HIDE DEF q
<1>5. PoolOK(q) BY <1>1, <1>3, <1>4 DEF PoolOK
<1> QED BY <1>5 DEF q

-----------------------------------------------------------------------------
(* What the operations make of a pool                                      *)

\* The snapshot of account a is replaced by one of its user.
LEMMA KeepingKeeps ==
  ASSUME NEW p, PoolOK(p), p.txn.kind # "swap", NEW a \in DOMAIN p.accounts, NEW o \in Owned,
         \A s \in Slots : SameUser(o[s].account, a)
  PROVE  /\ PoolOK(Keeping(p, a, o)) /\ Keeping(p, a, o).active = p.active
         /\ Keeping(p, a, o).txn = p.txn
         /\ DOMAIN Keeping(p, a, o).accounts = DOMAIN p.accounts
         /\ Keeping(p, a, o).accounts[a].value = o
<1> DEFINE sn == [p.accounts[a] EXCEPT !.value = o]
           b == [p.accounts EXCEPT ![a] = sn]
<1>1. /\ p.accounts \in [DOMAIN p.accounts -> Snapshots] /\ DOMAIN p.accounts \subseteq Accounts
      /\ p.generation \in Nat /\ p.txn \in {NoTxn, Enrollment}
      /\ p.intent \in (Accounts \X Grants) \cup {NoIntent}
      /\ p.active \in DOMAIN p.accounts \/ p.active = NoAccount
      /\ p = [accounts |-> p.accounts, active |-> p.active, generation |-> p.generation,
              txn |-> p.txn, intent |-> p.intent]
  BY PoolFacts, Transactions
<1>2. sn \in Snapshots /\ sn.value = o
  BY <1>1, SnapshotParts
<1>3. Keeping(p, a, o) = [p EXCEPT !.accounts = b]
  BY <1>1 DEF Keeping
<1> HIDE DEF sn
<1>4. /\ b \in [DOMAIN b -> Snapshots] /\ DOMAIN b = DOMAIN p.accounts /\ b[a] = sn
      /\ \A x \in DOMAIN b : x # a => b[x] = p.accounts[x]
  BY <1>1, <1>2
<1> HIDE DEF b
<1>5. Keeping(p, a, o) = [accounts |-> b, active |-> p.active, generation |-> p.generation,
                          txn |-> p.txn, intent |-> p.intent]
  BY <1>1, <1>3
<1>6. \A x \in DOMAIN b, s \in Slots : SameUser(b[x].value[s].account, x)
  BY <1>2, <1>4 DEF PoolOK
<1>7. PoolOK([accounts |-> b, active |-> p.active, generation |-> p.generation,
              txn |-> p.txn, intent |-> p.intent])
  BY <1>1, <1>4, <1>6, SoundPool
<1> QED BY <1>2, <1>4, <1>5, <1>7

\* The values of the snapshots, the active account and the journal stay.
LEMMA SameValues ==
  ASSUME NEW p, PoolOK(p), NEW b \in [DOMAIN p.accounts -> Snapshots],
         NEW intent \in (Accounts \X Grants) \cup {NoIntent},
         \A x \in DOMAIN p.accounts : b[x].value = p.accounts[x].value
  PROVE  PoolOK([accounts |-> b, active |-> p.active, generation |-> p.generation,
                 txn |-> p.txn, intent |-> intent])
<1> DEFINE q == [accounts |-> b, active |-> p.active, generation |-> p.generation,
                 txn |-> p.txn, intent |-> intent]
<1>1. /\ DOMAIN p.accounts \subseteq Accounts /\ p.active \in Accounts \cup {NoAccount}
      /\ p.generation \in Nat /\ p.txn \in Journals \cup {NoTxn, Enrollment}
      /\ p = [accounts |-> p.accounts, active |-> p.active, generation |-> p.generation,
              txn |-> p.txn, intent |-> p.intent]
  BY PoolFacts
<1>3. DOMAIN b = DOMAIN p.accounts OBVIOUS
<1>4. b \in UNION {[D -> Snapshots] : D \in SUBSET Accounts}
  BY <1>1, <1>3, Books
<1>5. /\ q.accounts = b /\ q.active = p.active /\ q.generation = p.generation /\ q.txn = p.txn
      /\ q.intent = intent
  OBVIOUS
<1>6. q \in Documents BY <1>1, <1>4 DEF Documents
<1> HIDE DEF q
<1>7. PoolOK(q) BY <1>3, <1>5, <1>6 DEF PoolOK
<1> QED BY <1>7 DEF q

LEMMA IntentKeeps ==
  ASSUME NEW p, PoolOK(p), NEW intent \in (Accounts \X Grants) \cup {NoIntent}
  PROVE  LET q == [p EXCEPT !.intent = intent]
         IN  /\ PoolOK(q) /\ q.active = p.active /\ q.txn = p.txn
             /\ q.accounts = p.accounts /\ q.generation = p.generation
<1>1. /\ p.accounts \in [DOMAIN p.accounts -> Snapshots]
      /\ p = [accounts |-> p.accounts, active |-> p.active, generation |-> p.generation,
              txn |-> p.txn, intent |-> p.intent]
  BY PoolFacts
<1>2. PoolOK([accounts |-> p.accounts, active |-> p.active, generation |-> p.generation,
              txn |-> p.txn, intent |-> intent])
  BY <1>1, SameValues
<1>3. [p EXCEPT !.intent = intent] =
        [accounts |-> p.accounts, active |-> p.active, generation |-> p.generation,
         txn |-> p.txn, intent |-> intent]
  BY <1>1
<1>4. LET q == [p EXCEPT !.intent = intent]
      IN  /\ q.active = p.active /\ q.txn = p.txn
          /\ q.accounts = p.accounts /\ q.generation = p.generation
  BY <1>1
<1> QED BY <1>2, <1>3, <1>4

LEMMA HealthKeeps ==
  ASSUME NEW p, PoolOK(p), NEW a, NEW g \in Grants, NEW h \in Healths
  PROVE  LET q == WithHealth(p, a, g, h)
         IN  /\ PoolOK(q) /\ q.active = p.active /\ q.txn = p.txn
             /\ q.generation = p.generation /\ q.intent = p.intent
             /\ DOMAIN q.accounts = DOMAIN p.accounts
<1>1. /\ p.accounts \in [DOMAIN p.accounts -> Snapshots] /\ DOMAIN p.accounts \subseteq Accounts
      /\ p.intent \in (Accounts \X Grants) \cup {NoIntent}
      /\ p = [accounts |-> p.accounts, active |-> p.active, generation |-> p.generation,
              txn |-> p.txn, intent |-> p.intent]
  BY PoolFacts
<1>2. CASE a \notin DOMAIN p.accounts BY <1>1, <1>2 DEF WithHealth
<1>3. CASE a \in DOMAIN p.accounts
  <2> DEFINE sn == [p.accounts[a] EXCEPT !.health[g] = h]
             b == [p.accounts EXCEPT ![a] = sn]
             r == [p EXCEPT !.accounts = b]
  <2>1. sn \in Snapshots /\ sn.value = p.accounts[a].value
    BY <1>1, <1>3, SnapshotParts
  <2>2. WithHealth(p, a, g, h) = r
    BY <1>1, <1>3 DEF WithHealth
  <2> HIDE DEF sn
  <2>3. /\ b \in [DOMAIN p.accounts -> Snapshots]
        /\ \A x \in DOMAIN p.accounts : b[x].value = p.accounts[x].value
    BY <1>1, <2>1
  <2> HIDE DEF b
  <2>4. r = [accounts |-> b, active |-> p.active, generation |-> p.generation,
             txn |-> p.txn, intent |-> p.intent]
    BY <1>1
  <2>5. PoolOK([accounts |-> b, active |-> p.active, generation |-> p.generation,
                txn |-> p.txn, intent |-> p.intent])
    BY <1>1, <2>3, SameValues
  <2>6. /\ r.active = p.active /\ r.txn = p.txn /\ r.generation = p.generation
        /\ r.intent = p.intent /\ DOMAIN r.accounts = DOMAIN p.accounts
    BY <1>1, <2>3
  <2> HIDE DEF r
  <2> QED BY <2>2, <2>4, <2>5, <2>6
<1> QED BY <1>2, <1>3

LEMMA SettledKeeps ==
  ASSUME NEW p, PoolOK(p)
  PROVE  LET q == IntentSettled(p)
         IN  /\ PoolOK(q) /\ q.active = p.active /\ q.txn = p.txn
             /\ q.generation = p.generation
             /\ DOMAIN q.accounts = DOMAIN p.accounts
<1>1. CASE p.intent = NoIntent BY <1>1 DEF IntentSettled
<1>2. CASE p.intent # NoIntent
  <2> DEFINE m == WithHealth(p, p.intent[1], p.intent[2], "refresh-uncertain")
  <2>1. p.intent[2] \in Grants
    <3>1. p.intent \in Accounts \X Grants BY <1>2, PoolFacts
    <3> QED BY <3>1
  <2>2. "refresh-uncertain" \in Healths BY DEF Healths
  <2>3. /\ PoolOK(m) /\ m.active = p.active /\ m.txn = p.txn
        /\ m.generation = p.generation /\ DOMAIN m.accounts = DOMAIN p.accounts
    BY <2>1, <2>2, HealthKeeps
  <2>4. IntentSettled(p) = [m EXCEPT !.intent = NoIntent]
    BY <1>2 DEF IntentSettled
  <2> HIDE DEF m
  <2>5. LET q == [m EXCEPT !.intent = NoIntent]
        IN  /\ PoolOK(q) /\ q.active = m.active /\ q.txn = m.txn
            /\ q.accounts = m.accounts /\ q.generation = m.generation
    BY <2>3, IntentKeeps
  <2> QED BY <2>3, <2>4, <2>5
<1> QED BY <1>1, <1>2

\* The answer of a refresh: the account of Pi's grant stays.
LEMMA GrantKeeps ==
  ASSUME NEW p, PoolOK(p), p.txn.kind # "swap", NEW a \in DOMAIN p.accounts,
         p.accounts[a].value["pa"].version < MaxVersion
  PROVE  LET q == [p EXCEPT !.accounts[a].value["pa"].version = @ + 1, !.intent = NoIntent]
         IN  /\ PoolOK(q) /\ q.active = p.active /\ q.txn = p.txn
             /\ DOMAIN q.accounts = DOMAIN p.accounts
             /\ \A x \in DOMAIN p.accounts : x # a => q.accounts[x] = p.accounts[x]
<1> DEFINE v == p.accounts[a].value
           o == [v EXCEPT !["pa"].version = @ + 1]
           k == Keeping(p, a, o)
           q == [p EXCEPT !.accounts[a].value["pa"].version = @ + 1, !.intent = NoIntent]
<1>1. /\ p.accounts \in [DOMAIN p.accounts -> Snapshots] /\ DOMAIN p.accounts \subseteq Accounts
      /\ v \in Owned
      /\ p = [accounts |-> p.accounts, active |-> p.active, generation |-> p.generation,
              txn |-> p.txn, intent |-> p.intent]
  BY PoolFacts
<1>2. v["pa"].version \in Nat /\ v["pa"].version + 1 \in 0..MaxVersion
  BY <1>1, AccountConstants DEF Owned, Values, Slots
<1>3. o \in Owned /\ \A s \in Slots : o[s].account = v[s].account
  <2> HIDE DEF v
  <2> QED BY <1>1, <1>2 DEF Owned, Values, Slots
<1>4. \A s \in Slots : SameUser(o[s].account, a)
  BY <1>3 DEF PoolOK
<1>5. q = [k EXCEPT !.intent = NoIntent]
  BY <1>1 DEF Keeping
<1>6. \A x \in DOMAIN p.accounts : x # a => k.accounts[x] = p.accounts[x]
  BY <1>1 DEF Keeping
<1> HIDE DEF o
<1>7. PoolOK(k) /\ k.active = p.active /\ k.txn = p.txn /\ DOMAIN k.accounts = DOMAIN p.accounts
  BY <1>3, <1>4, KeepingKeeps
<1> HIDE DEF k
<1>8. LET r == [k EXCEPT !.intent = NoIntent]
      IN  PoolOK(r) /\ r.active = k.active /\ r.txn = k.txn /\ r.accounts = k.accounts
  BY <1>7, IntentKeeps
<1> HIDE DEF q
<1>9. /\ PoolOK(q) /\ q.active = p.active /\ q.txn = p.txn
      /\ DOMAIN q.accounts = DOMAIN p.accounts
      /\ \A x \in DOMAIN p.accounts : x # a => q.accounts[x] = p.accounts[x]
  BY <1>5, <1>6, <1>7, <1>8
<1> QED BY <1>9 DEF q

\* The transaction is opened as an enrollment or given up, outside a swap.
LEMMA TxnKeeps ==
  ASSUME NEW p, PoolOK(p), NEW txn \in {NoTxn, Enrollment}
  PROVE  LET q == [p EXCEPT !.txn = txn]
         IN  PoolOK(q) /\ q.active = p.active /\ q.txn = txn /\ q.accounts = p.accounts
             /\ q.generation = p.generation
<1> DEFINE q == [accounts |-> p.accounts, active |-> p.active, generation |-> p.generation,
                 txn |-> txn, intent |-> p.intent]
<1>1. /\ p.accounts \in [DOMAIN p.accounts -> Snapshots] /\ DOMAIN p.accounts \subseteq Accounts
      /\ p.active \in DOMAIN p.accounts \/ p.active = NoAccount
      /\ p.generation \in Nat /\ p.intent \in (Accounts \X Grants) \cup {NoIntent}
      /\ p = [accounts |-> p.accounts, active |-> p.active, generation |-> p.generation,
              txn |-> p.txn, intent |-> p.intent]
  BY PoolFacts
<1>2. [p EXCEPT !.txn = txn] = q BY <1>1
<1>3. PoolOK(q)
  <2>1. \A a \in DOMAIN p.accounts, s \in Slots : SameUser(p.accounts[a].value[s].account, a)
    BY DEF PoolOK
  <2> QED BY <1>1, <2>1, SoundPool
<1> QED BY <1>2, <1>3

\* The journal of a swap from the active account, as its slots were last seen.
LEMMA JournalKeeps ==
  ASSUME NEW p, PoolOK(p), p.txn.kind # "swap", p.active \in DOMAIN p.accounts,
         NEW t \in DOMAIN p.accounts, NEW v \in Owned, v = p.accounts[p.active].value,
         NEW j, j = [kind |-> "swap", source |-> p.active, target |-> t, from |-> p.generation,
                     before |-> v, after |-> p.accounts[t].value, expected |-> v]
  PROVE  LET q == [p EXCEPT !.txn = j]
         IN  PoolOK(q) /\ q.active = p.active /\ q.txn = j /\ q.accounts = p.accounts
<1> DEFINE q == [accounts |-> p.accounts, active |-> p.active, generation |-> p.generation,
                 txn |-> j, intent |-> p.intent]
<1>1. /\ p.accounts \in [DOMAIN p.accounts -> Snapshots] /\ DOMAIN p.accounts \subseteq Accounts
      /\ p.active \in Accounts \cup {NoAccount}
      /\ p.generation \in Nat /\ p.intent \in (Accounts \X Grants) \cup {NoIntent}
      /\ p.accounts[t].value \in Owned
      /\ p = [accounts |-> p.accounts, active |-> p.active, generation |-> p.generation,
              txn |-> p.txn, intent |-> p.intent]
  BY PoolFacts
<1>2. [p EXCEPT !.txn = j] = q BY <1>1
<1>3. j \in Journals
  BY <1>1 DEF Journals
<1>4. /\ j.source = p.active /\ j.target = t /\ j.from = p.generation /\ j.before = v
      /\ j.after = p.accounts[t].value
  OBVIOUS
<1>5. p.accounts \in UNION {[D -> Snapshots] : D \in SUBSET Accounts} BY <1>1, Books
<1>6. q \in Documents
  BY <1>1, <1>3, <1>5 DEF Documents
<1>7. /\ q.accounts = p.accounts /\ q.active = p.active /\ q.generation = p.generation
      /\ q.txn = j
  OBVIOUS
<1> HIDE DEF q
<1>8. PoolOK(q)
  <2>1. \A a \in DOMAIN p.accounts, s \in Slots : SameUser(p.accounts[a].value[s].account, a)
    BY DEF PoolOK
  <2> QED BY <1>3, <1>4, <1>6, <1>7, <2>1 DEF PoolOK
<1> QED BY <1>2, <1>7, <1>8

\* The progress of a journal: the slots it expects.
LEMMA ExpectedKeeps ==
  ASSUME NEW p, PoolOK(p), p.txn.kind = "swap", NEW o \in Owned
  PROVE  LET q == [p EXCEPT !.txn.expected = o]
         IN  /\ PoolOK(q) /\ q.active = p.active /\ q.accounts = p.accounts
             /\ q.txn.kind = "swap" /\ q.txn.before = p.txn.before
<1> DEFINE j == [p.txn EXCEPT !.expected = o]
           q == [accounts |-> p.accounts, active |-> p.active, generation |-> p.generation,
                 txn |-> j, intent |-> p.intent]
<1>1. /\ p.accounts \in [DOMAIN p.accounts -> Snapshots] /\ DOMAIN p.accounts \subseteq Accounts
      /\ p.active \in Accounts \cup {NoAccount}
      /\ p.generation \in Nat /\ p.intent \in (Accounts \X Grants) \cup {NoIntent}
      /\ p = [accounts |-> p.accounts, active |-> p.active, generation |-> p.generation,
              txn |-> p.txn, intent |-> p.intent]
  BY PoolFacts
<1>2. p.txn \in Journals BY DEF PoolOK
<1>3. [p EXCEPT !.txn.expected = o] = q BY <1>1
<1>4. /\ j \in Journals /\ j.kind = "swap" /\ j.source = p.txn.source
      /\ j.target = p.txn.target /\ j.from = p.txn.from /\ j.before = p.txn.before
      /\ j.after = p.txn.after
  BY <1>2 DEF Journals
<1> HIDE DEF j
<1>5. p.accounts \in UNION {[D -> Snapshots] : D \in SUBSET Accounts} BY <1>1, Books
<1>6. q \in Documents
  BY <1>1, <1>4, <1>5 DEF Documents
<1>7. /\ q.accounts = p.accounts /\ q.active = p.active /\ q.generation = p.generation
      /\ q.txn = j
  OBVIOUS
<1> HIDE DEF q
<1>8. PoolOK(q)
  BY <1>4, <1>6, <1>7 DEF PoolOK
<1> QED BY <1>3, <1>4, <1>7, <1>8

\* The journal is closed at its end: its target is the active account.
LEMMA CommittedKeeps ==
  ASSUME NEW p, PoolOK(p), p.txn.kind = "swap"
  PROVE  LET q == Committed(p)
         IN  /\ PoolOK(q) /\ q.active = p.txn.target /\ q.accounts = p.accounts
             /\ q.txn = NoTxn /\ q.active \in DOMAIN q.accounts
             /\ q.accounts[q.active].value = p.txn.after /\ q.generation = p.txn.from + 1
<1> DEFINE q == [accounts |-> p.accounts, active |-> p.txn.target,
                 generation |-> p.txn.from + 1, txn |-> NoTxn, intent |-> p.intent]
<1>1. /\ p.accounts \in [DOMAIN p.accounts -> Snapshots] /\ DOMAIN p.accounts \subseteq Accounts
      /\ p.generation \in Nat /\ p.intent \in (Accounts \X Grants) \cup {NoIntent}
      /\ p = [accounts |-> p.accounts, active |-> p.active, generation |-> p.generation,
              txn |-> p.txn, intent |-> p.intent]
  BY PoolFacts
<1>2. Committed(p) = q
  <2> DEFINE m == [p EXCEPT !.txn = NoTxn]
             n == [m EXCEPT !.active = p.txn.target]
  <2>1. m = [accounts |-> p.accounts, active |-> p.active, generation |-> p.generation,
             txn |-> NoTxn, intent |-> p.intent]
    BY <1>1
  <2>2. Committed(p) = [n EXCEPT !.generation = p.txn.from + 1]
    BY DEF Committed
  <2> HIDE DEF m
  <2>3. n = [accounts |-> p.accounts, active |-> p.txn.target, generation |-> p.generation,
             txn |-> NoTxn, intent |-> p.intent]
    BY <2>1
  <2> HIDE DEF n
  <2>4. [n EXCEPT !.generation = p.txn.from + 1] = q
    BY <2>3
  <2> QED BY <2>2, <2>4
<1>3. /\ p.txn.target \in DOMAIN p.accounts /\ p.txn.from = p.generation
      /\ p.txn.after = p.accounts[p.txn.target].value
      /\ \A a \in DOMAIN p.accounts, s \in Slots : SameUser(p.accounts[a].value[s].account, a)
  BY DEF PoolOK
<1>4. p.txn.from + 1 \in Nat BY <1>1, <1>3
<1>5. PoolOK(q)
  BY <1>1, <1>3, <1>4, SoundPool
<1> QED BY <1>2, <1>3, <1>5

\* A login whose slots are all one user's is captured as that user's account.
LEMMA CapturedKeeps ==
  ASSUME NEW p, PoolOK(p), p.txn.kind # "swap", NEW v \in Owned, Paired(v)
  PROVE  LET q == Captured(p, v["cc"].account, v)
         IN  /\ PoolOK(q) /\ q.active = v["cc"].account /\ q.txn = NoTxn
             /\ q.active \in DOMAIN q.accounts
<1> DEFINE a == v["cc"].account
           sn == [value |-> v, health |-> [g \in Grants |-> "ready"]]
           b == With(p.accounts, a, sn)
           q == [accounts |-> b, active |-> a, generation |-> p.generation + 1,
                 txn |-> NoTxn, intent |-> p.intent]
<1>1. /\ p.accounts \in [DOMAIN p.accounts -> Snapshots] /\ DOMAIN p.accounts \subseteq Accounts
      /\ p.generation \in Nat /\ p.intent \in (Accounts \X Grants) \cup {NoIntent}
      /\ p = [accounts |-> p.accounts, active |-> p.active, generation |-> p.generation,
              txn |-> p.txn, intent |-> p.intent]
  BY PoolFacts
<1>2. Captured(p, a, v) = q
  <2> DEFINE k == [p EXCEPT !.accounts = b]
             m == [k EXCEPT !.active = a]
             n == [m EXCEPT !.generation = @ + 1]
  <2>1. k = [accounts |-> b, active |-> p.active, generation |-> p.generation,
             txn |-> p.txn, intent |-> p.intent]
    <3> HIDE DEF b
    <3> QED BY <1>1
  <2>2. Captured(p, a, v) = [n EXCEPT !.txn = NoTxn]
    BY DEF Captured
  <2> HIDE DEF k, b
  <2>3. m = [accounts |-> b, active |-> a, generation |-> p.generation,
             txn |-> p.txn, intent |-> p.intent]
    BY <2>1
  <2> HIDE DEF m
  <2>4. n = [accounts |-> b, active |-> a, generation |-> p.generation + 1,
             txn |-> p.txn, intent |-> p.intent]
    BY <2>3
  <2> HIDE DEF n
  <2>5. [n EXCEPT !.txn = NoTxn] = q
    BY <2>4
  <2> QED BY <2>2, <2>5
<1>3. a \in Accounts BY DEF Owned, Values, Slots
<1>4. \A s \in Slots : SameUser(v[s].account, a) BY PairedIsOneUser
<1>5. sn \in Snapshots /\ sn.value = v
  BY DEF Snapshots, Healths
<1> HIDE DEF a, sn
<1>6. /\ DOMAIN b = DOMAIN p.accounts \cup {a} /\ b[a] = sn /\ b \in [DOMAIN b -> Snapshots]
      /\ \A x \in DOMAIN b : x # a => x \in DOMAIN p.accounts /\ b[x] = p.accounts[x]
  BY <1>1, <1>5 DEF With
<1> HIDE DEF b
<1>7. \A x \in DOMAIN b, s \in Slots : SameUser(b[x].value[s].account, x)
  BY <1>4, <1>5, <1>6 DEF PoolOK
<1>8. PoolOK(q)
  <2>1. p.generation + 1 \in Nat /\ DOMAIN b \subseteq Accounts /\ a \in DOMAIN b
    BY <1>1, <1>3, <1>6
  <2>2. a \in DOMAIN b \/ a = NoAccount BY <2>1
  <2> QED BY <1>1, <1>6, <1>7, <2>1, <2>2, SoundPool
<1> QED BY <1>2, <1>6, <1>8 DEF a

LEMMA RemovalKeeps ==
  ASSUME NEW p, PoolOK(p), p.txn = NoTxn, NEW a, a # p.active
  PROVE  LET q == [p EXCEPT !.accounts = [x \in DOMAIN @ \ {a} |-> @[x]]]
         IN  PoolOK(q) /\ q.active = p.active /\ q.txn = p.txn
<1> DEFINE b == [x \in DOMAIN p.accounts \ {a} |-> p.accounts[x]]
           q == [accounts |-> b, active |-> p.active, generation |-> p.generation,
                 txn |-> p.txn, intent |-> p.intent]
<1>1. /\ p.accounts \in [DOMAIN p.accounts -> Snapshots] /\ DOMAIN p.accounts \subseteq Accounts
      /\ p.active \in DOMAIN p.accounts \/ p.active = NoAccount
      /\ p.generation \in Nat /\ p.intent \in (Accounts \X Grants) \cup {NoIntent}
      /\ p = [accounts |-> p.accounts, active |-> p.active, generation |-> p.generation,
              txn |-> p.txn, intent |-> p.intent]
  BY PoolFacts
<1>2. [p EXCEPT !.accounts = [x \in DOMAIN @ \ {a} |-> @[x]]] = q
  BY <1>1
<1>3. /\ DOMAIN b = DOMAIN p.accounts \ {a} /\ b \in [DOMAIN b -> Snapshots]
      /\ \A x \in DOMAIN b : b[x] = p.accounts[x]
  BY <1>1
<1> HIDE DEF b
<1>4. \A x \in DOMAIN b, s \in Slots : SameUser(b[x].value[s].account, x)
  BY <1>3 DEF PoolOK
<1>5. PoolOK(q)
  BY <1>1, <1>3, <1>4, SoundPool
<1> QED BY <1>2, <1>5

LEMMA NewActiveKeeps ==
  ASSUME NEW p, PoolOK(p), p.txn.kind # "swap", NEW a \in DOMAIN p.accounts
  PROVE  LET q == [p EXCEPT !.active = a, !.generation = @ + 1]
         IN  PoolOK(q) /\ q.active = a /\ q.txn = p.txn /\ q.accounts = p.accounts
<1> DEFINE q == [accounts |-> p.accounts, active |-> a, generation |-> p.generation + 1,
                 txn |-> p.txn, intent |-> p.intent]
<1>1. /\ p.accounts \in [DOMAIN p.accounts -> Snapshots] /\ DOMAIN p.accounts \subseteq Accounts
      /\ p.generation \in Nat /\ p.intent \in (Accounts \X Grants) \cup {NoIntent}
      /\ p.txn \in {NoTxn, Enrollment}
      /\ p = [accounts |-> p.accounts, active |-> p.active, generation |-> p.generation,
              txn |-> p.txn, intent |-> p.intent]
  BY PoolFacts, Transactions
<1>2. [p EXCEPT !.active = a, !.generation = @ + 1] = q
  <2> DEFINE m == [p EXCEPT !.active = a]
  <2>1. m = [accounts |-> p.accounts, active |-> a, generation |-> p.generation,
             txn |-> p.txn, intent |-> p.intent]
    BY <1>1
  <2>2. [p EXCEPT !.active = a, !.generation = @ + 1] = [m EXCEPT !.generation = @ + 1]
    OBVIOUS
  <2> HIDE DEF m
  <2>3. /\ m.generation = p.generation
        /\ [m EXCEPT !.generation = @ + 1] = q
    BY <2>1
  <2> QED BY <2>2, <2>3
<1>3. PoolOK(q)
  <2>2. p.generation + 1 \in Nat /\ (a \in DOMAIN p.accounts \/ a = NoAccount) BY <1>1
  <2>1. \A x \in DOMAIN p.accounts, s \in Slots : SameUser(p.accounts[x].value[s].account, x)
    BY DEF PoolOK
  <2> QED BY <1>1, <2>1, <2>2, SoundPool
<1> QED BY <1>2, <1>3

-----------------------------------------------------------------------------
(* Ends and failures of an operation                                       *)

LEMMA SpendFacts ==
  ASSUME NEW e \in Events, Spend(e), spent \in [Events -> Nat]
  PROVE  /\ spent' \in [Events -> Nat]
         /\ e # "logins" => spent'["logins"] = spent["logins"]
         /\ e = "logins" => spent'["logins"] # 0
<1>1. spent' = [spent EXCEPT ![e] = @ + 1] BY DEF Spend
<1>2. "logins" \in Events /\ spent["logins"] \in Nat BY DEF Events
<1> QED BY <1>1, <1>2

\* The events that are not logins do not disturb the slots' account.
LEMMA SpentStays ==
  ASSUME spent \in [Events -> Nat],
         UNCHANGED spent \/ Spend("faults") \/ Spend("crashes") \/ Spend("calls")
                         \/ Spend("refreshes")
  PROVE  spent' \in [Events -> Nat] /\ spent'["logins"] = spent["logins"]
<1>1. {"faults", "crashes", "calls", "refreshes"} \subseteq Events BY DEF Events
<1> QED BY <1>1, SpendFacts

Alone(p) == PoolOK(p) /\ Aligned(p, native, spent)

LEMMA NoCallServes == \A p : Serves(NoCall, p)
BY DEF Serves, NoCall

\* An operation may return wherever it is, and leave any sound pool.
LEMMA LeaveKeeps ==
  ASSUME Types, NEW p, Alone(p), Leave(p), NoNative,
         spent' \in [Events -> Nat], spent'["logins"] = spent["logins"]
  PROVE  RotationInv'
<1>1. /\ stored' = p /\ mem' = p /\ nativeLock' = Released
      /\ pc' = "idle" /\ call' = NoCall /\ seen' = NoValues /\ todo' = <<>>
      /\ next' = "idle" /\ journaled' = FALSE /\ native' = native /\ issued' = issued
  BY DEF Leave, NoNative
<1>2. Types'
  <2>1. <<>> \in Seq(Slots) OBVIOUS
  <2>2. nativeLock' \in {"free", "held", "left"}
    BY <1>1 DEF Types, Released
  <2>3. NoCall \in [op : {"none", "swap", "enroll", "harvest", "adopt", "capture"},
                    target : Accounts \cup {NoAccount}]
    BY DEF NoCall
  <2> QED BY <1>1, <2>1, <2>2, <2>3 DEF Types
<1>3. Places'
  BY <1>1 DEF Places, NoCall, SwapPlaces, OtherPlaces, Moving, Looking, Refreshing, Asking
<1>4. Good(stored)' /\ Good(mem)'
  BY <1>1, NoCallServes DEF Good, Alone, Aligned
<1> QED BY <1>2, <1>3, <1>4 DEF RotationInv

LEMMA SalvageKeeps ==
  ASSUME Types, NEW p, Alone(p), Serves(call, p), Salvage(p), NoNative,
         spent' \in [Events -> Nat], spent'["logins"] = spent["logins"]
  PROVE  RotationInv'
<1>1. /\ stored' = p /\ mem' = p /\ nativeLock' = Released
      /\ pc' = "reconcile" /\ call' = call /\ seen' = NoValues /\ todo' = <<>>
      /\ next' = "idle" /\ journaled' = FALSE /\ native' = native /\ issued' = issued
  BY DEF Salvage, NoNative
<1>2. Types'
  <2>1. <<>> \in Seq(Slots) OBVIOUS
  <2>2. nativeLock' \in {"free", "held", "left"}
    BY <1>1 DEF Types, Released
  <2>3. NoCall \in [op : {"none", "swap", "enroll", "harvest", "adopt", "capture"},
                    target : Accounts \cup {NoAccount}]
    BY DEF NoCall
  <2> QED BY <1>1, <2>1, <2>2, <2>3 DEF Types
<1>3. Places'
  BY <1>1 DEF Places, SwapPlaces, OtherPlaces, Moving, Looking, Refreshing, Asking
<1>4. Good(stored)' /\ Good(mem)'
  BY <1>1 DEF Good, Alone, Aligned
<1> QED BY <1>2, <1>3, <1>4 DEF RotationInv

\* The step fails, and the pool that is left is as good as any.
LEMMA FailKeeps ==
  ASSUME Types, NEW p, Good(p), Fail(p), NoNative, UNCHANGED spent \/ Spend("faults")
  PROVE  RotationInv'
<1>1. Alone(p) /\ Serves(call, p) BY DEF Good, Alone
<1>2. spent' \in [Events -> Nat] /\ spent'["logins"] = spent["logins"]
  BY SpentStays DEF Types
<1>3. CASE journaled BY <1>1, <1>2, <1>3, SalvageKeeps DEF Fail
<1>4. CASE ~journaled BY <1>1, <1>2, <1>4, LeaveKeeps DEF Fail
<1> QED BY <1>3, <1>4

\* The same for an operation that returns without a fault.
LEMMA ReturnKeeps ==
  ASSUME Types, NEW p, Good(p), Leave(p), NoNative, UNCHANGED spent \/ Spend("faults")
  PROVE  RotationInv'
<1>1. Alone(p) BY DEF Good, Alone
<1>2. spent' \in [Events -> Nat] /\ spent'["logins"] = spent["logins"]
  BY SpentStays DEF Types
<1> QED BY <1>1, <1>2, LeaveKeeps

LEMMA StepFailsKeeps ==
  ASSUME RotationInv, StepFails
  PROVE  RotationInv'
BY FailKeeps DEF RotationInv, StepFails

LEMMA CrashKeeps ==
  ASSUME RotationInv, Crash
  PROVE  RotationInv'
<1>1. /\ pc' = "idle" /\ mem' = stored /\ call' = NoCall /\ seen' = NoValues
      /\ todo' = <<>> /\ next' = "idle" /\ journaled' = FALSE
      /\ nativeLock' = IF nativeLock = "held" THEN "left" ELSE nativeLock
      /\ stored' = stored /\ native' = native /\ issued' = issued
  BY DEF Crash, NoNative
<1>2. spent' \in [Events -> Nat] /\ spent'["logins"] = spent["logins"]
  BY SpentStays DEF Crash, RotationInv, Types
<1>3. Types'
  <2>1. <<>> \in Seq(Slots) OBVIOUS
  <2>2. nativeLock' \in {"free", "held", "left"}
    BY <1>1 DEF RotationInv, Types
  <2>3. NoCall \in [op : {"none", "swap", "enroll", "harvest", "adopt", "capture"},
                    target : Accounts \cup {NoAccount}]
    BY DEF NoCall
  <2> QED BY <1>1, <1>2, <2>1, <2>2, <2>3 DEF RotationInv, Types
<1>4. Places'
  BY <1>1 DEF Places, NoCall, SwapPlaces, OtherPlaces, Moving, Looking, Refreshing, Asking
<1>5. Good(stored)' /\ Good(mem)'
  BY <1>1, <1>2, NoCallServes DEF RotationInv, Good, Aligned
<1> QED BY <1>3, <1>4, <1>5 DEF RotationInv

-----------------------------------------------------------------------------
(* Operations that begin, and those that are one step                      *)

LEMMA BeginKeeps ==
  ASSUME RotationInv, NEW op, NEW a, NEW l, NEW after, Begin(op, a, l, after),
         \/ /\ op = "swap" /\ l = "reconcile" /\ after = "body"
            /\ a \in DOMAIN stored.accounts /\ stored.active # NoAccount
         \/ /\ op \in {"enroll", "harvest"} /\ l = "harvest" /\ after = "idle" /\ a = NoAccount
            /\ stored.active # NoAccount /\ stored.txn.kind # "swap"
         \/ /\ op \in {"adopt", "capture"} /\ l = op /\ after = "idle" /\ a = NoAccount
            /\ stored.txn.kind # "swap"
  PROVE  RotationInv'
<1>1. /\ pc = "idle" /\ pc' = l /\ call' = [op |-> op, target |-> a] /\ next' = after
      /\ stored' = stored /\ nativeLock' = nativeLock /\ mem' = mem /\ seen' = seen
      /\ todo' = todo /\ journaled' = journaled /\ native' = native /\ issued' = issued
  BY DEF Begin, NoNative
<1>2. spent' \in [Events -> Nat] /\ spent'["logins"] = spent["logins"]
  BY SpentStays DEF Begin, RotationInv, Types
<1>3. PoolOK(stored) /\ mem = stored
  BY <1>1 DEF RotationInv, Good, Places
<1>4. DOMAIN stored.accounts \subseteq Accounts
      /\ (stored.active # NoAccount => stored.active \in DOMAIN stored.accounts)
  BY <1>3, PoolFacts
<1>5. Types'
  BY <1>1, <1>2, <1>4 DEF RotationInv, Types, SwapPlaces, OtherPlaces
<1>6. Places'
  BY <1>1, <1>3 DEF Places, SwapPlaces, OtherPlaces, Moving, Looking, Refreshing, Asking
<1>7. Serves(call', stored)
  BY <1>1, <1>4 DEF Serves
<1>8. Good(stored)' /\ Good(mem)'
  BY <1>1, <1>2, <1>3, <1>7 DEF RotationInv, Good, Aligned
<1> QED BY <1>5, <1>6, <1>8 DEF RotationInv

\* The operations that only begin.
Beginning ==
  \/ \E a \in Accounts : BeginSwap(a)
  \/ BeginEnrollment \/ HarvestActive \/ AdoptCurrentLogin
  \/ CaptureFirstAccount \/ CaptureEnrolledAccount

LEMMA BeginningKeeps ==
  ASSUME RotationInv, Beginning
  PROVE  RotationInv'
<1>1. ASSUME NEW a \in Accounts, BeginSwap(a) PROVE RotationInv'
  BY <1>1, BeginKeeps DEF BeginSwap
<1>2. CASE BeginEnrollment BY <1>2, BeginKeeps, Transactions DEF BeginEnrollment
<1>3. CASE HarvestActive BY <1>3, BeginKeeps, Transactions DEF HarvestActive
<1>4. CASE AdoptCurrentLogin BY <1>4, BeginKeeps, Transactions DEF AdoptCurrentLogin
<1>5. CASE CaptureFirstAccount BY <1>5, BeginKeeps, Transactions DEF CaptureFirstAccount
<1>6. CASE CaptureEnrolledAccount BY <1>6, BeginKeeps, Transactions DEF CaptureEnrolledAccount
<1> QED BY <1>1, <1>2, <1>3, <1>4, <1>5, <1>6 DEF Beginning

LEMMA PoolOnlyKeeps ==
  ASSUME RotationInv, NEW p, PoolOK(p), Aligned(p, native, spent), PoolOnly(p)
  PROVE  RotationInv'
<1>1. /\ pc = "idle" /\ stored' = p /\ mem' = p /\ nativeLock' = nativeLock /\ pc' = pc
      /\ call' = call /\ seen' = seen /\ todo' = todo /\ next' = next
      /\ journaled' = journaled /\ native' = native /\ issued' = issued
  BY DEF PoolOnly, NoNative
<1>2. spent' \in [Events -> Nat] /\ spent'["logins"] = spent["logins"]
  BY SpentStays DEF PoolOnly, RotationInv, Types
<1>3. Types' BY <1>1, <1>2 DEF RotationInv, Types
<1>4. call = NoCall /\ next # "body"
  BY <1>1 DEF RotationInv, Places, NoCall
<1>5. Places'
  BY <1>1, <1>4 DEF Places, SwapPlaces, OtherPlaces, Moving, Looking, Refreshing, Asking
<1>6. Good(stored)' /\ Good(mem)'
  BY <1>1, <1>2, <1>4, NoCallServes DEF Good, Aligned
<1> QED BY <1>3, <1>5, <1>6 DEF RotationInv

LEMMA RemoveAccountKeeps ==
  ASSUME RotationInv, NEW a \in Accounts, RemoveAccount(a)
  PROVE  RotationInv'
<1> DEFINE q == [stored EXCEPT !.accounts = [x \in DOMAIN @ \ {a} |-> @[x]]]
<1>1. /\ PoolOK(stored) /\ stored.txn = NoTxn /\ a # stored.active
      /\ Aligned(stored, native, spent)
  BY DEF RotationInv, Good, RemoveAccount, Removable
<1>2. PoolOK(q) /\ q.active = stored.active /\ q.txn = stored.txn
  BY <1>1, RemovalKeeps
<1>3. PoolOnly(q) BY DEF RemoveAccount
<1> HIDE DEF q
<1>4. Aligned(q, native, spent) BY <1>1, <1>2 DEF Aligned
<1> QED BY <1>2, <1>3, <1>4, PoolOnlyKeeps

LEMMA CancelEnrollmentKeeps ==
  ASSUME RotationInv, CancelEnrollment
  PROVE  RotationInv'
<1> DEFINE q == [stored EXCEPT !.txn = NoTxn]
<1>1. PoolOK(stored) /\ stored.txn = Enrollment /\ Aligned(stored, native, spent)
  BY DEF RotationInv, Good, CancelEnrollment
<1>2. PoolOK(q) /\ q.active = stored.active /\ q.txn = NoTxn
  BY <1>1, TxnKeeps
<1>3. PoolOnly(q) \/ PoolOnly(stored)
  BY DEF CancelEnrollment
<1> HIDE DEF q
<1>4. Aligned(q, native, spent) BY <1>1, <1>2, Transactions DEF Aligned
<1> QED BY <1>1, <1>2, <1>3, <1>4, PoolOnlyKeeps

LEMMA RecoverKeeps ==
  ASSUME RotationInv, Recover
  PROVE  RotationInv'
<1> DEFINE q == IntentSettled(stored)
<1>1. PoolOK(stored) /\ Aligned(stored, native, spent) /\ Types
  BY DEF RotationInv, Good
<1>2. /\ PoolOK(q) /\ q.active = stored.active /\ q.txn = stored.txn
      /\ DOMAIN q.accounts = DOMAIN stored.accounts
  BY <1>1, SettledKeeps
<1>3. pc = "idle" /\ NoNative
      /\ \/ /\ stored' = q /\ mem' = q /\ pc' \in {"idle", "reconcile"}
            /\ UNCHANGED <<nativeLock, call, seen, todo, next, journaled, spent>>
         \/ Spend("faults") /\ Leave(q)
  BY DEF Recover
<1> HIDE DEF q
<1>4. Aligned(q, native, spent) BY <1>1, <1>2 DEF Aligned
<1>5. call = NoCall /\ next # "body"
  BY <1>3 DEF RotationInv, Places, NoCall
<1>6. ASSUME stored' = q, mem' = q, pc' \in {"idle", "reconcile"},
             UNCHANGED <<nativeLock, call, seen, todo, next, journaled, spent>>
      PROVE  RotationInv'
  <2>1. Types' BY <1>3, <1>6 DEF RotationInv, Types, NoNative
  <2>2. Places'
    BY <1>5, <1>6 DEF Places, SwapPlaces, OtherPlaces, Moving, Looking, Refreshing, Asking
  <2>3. Good(stored)' /\ Good(mem)'
    BY <1>2, <1>3, <1>4, <1>5, <1>6, NoCallServes DEF Good, Aligned, NoNative
  <2> QED BY <2>1, <2>2, <2>3 DEF RotationInv
<1>7. ASSUME Spend("faults"), Leave(q) PROVE RotationInv'
  <2>1. Good(q) BY <1>2, <1>4, <1>5, NoCallServes DEF Good
  <2> QED BY <1>1, <1>3, <1>7, <2>1, ReturnKeeps
<1> QED BY <1>3, <1>6, <1>7

-----------------------------------------------------------------------------
(* Harvest, enrollment, adoption and capture                               *)

\* What the harvest keeps is the active user's.
LEMMA OfActiveKeeps ==
  ASSUME RotationInv, mem = stored, stored.txn.kind # "swap",
         stored.active \in DOMAIN stored.accounts, OfActive
  PROVE  LET q == Keeping(mem, mem.active, native)
         IN  /\ Good(q) /\ q.active = stored.active /\ q.txn = stored.txn
             /\ q.accounts[q.active].value = native
<1> DEFINE q == Keeping(mem, mem.active, native)
<1>1. PoolOK(stored) /\ native \in Owned /\ Serves(call, stored) /\ Aligned(stored, native, spent)
  BY DEF RotationInv, Good, Types
<1>2. \A s \in Slots : SameUser(native[s].account, stored.active)
  <2>1. Paired(native) /\ SameUser(native["cc"].account, stored.active)
    BY DEF OfActive
  <2> QED BY <1>1, <2>1, PairedIsOneUser, OneUser
<1>3. /\ PoolOK(q) /\ q.active = stored.active /\ q.txn = stored.txn
      /\ DOMAIN q.accounts = DOMAIN stored.accounts
      /\ q.accounts[stored.active].value = native
  BY <1>1, <1>2, KeepingKeeps
<1> HIDE DEF q
<1>4. Serves(call, q) /\ Aligned(q, native, spent)
  BY <1>1, <1>3 DEF Serves, Aligned
<1>5. Good(q) /\ q.active = stored.active /\ q.txn = stored.txn
      /\ q.accounts[q.active].value = native
  BY <1>3, <1>4 DEF Good
<1> QED BY <1>5 DEF q

\* After a harvest that succeeds, the active snapshot is what the slots held.
After(q) ==
  /\ Good(q) /\ q.active = stored.active /\ q.txn = stored.txn
  /\ q.accounts[q.active].value = native
  /\ stored' = q /\ mem' = q /\ UNCHANGED spent

LEMMA HarvestedKeeps ==
  ASSUME RotationInv, NEW q, After(q), NEW l, Harvested(l), NoNative, stored.txn.kind # "swap",
         \/ l \in {"prepare", "settle"} /\ call.op = "swap"
         \/ l = "enroll" /\ next # "body"
  PROVE  RotationInv'
<1>1. /\ pc' = l /\ call' = call /\ next' = next /\ journaled' = journaled /\ seen' = native
      /\ todo' = todo /\ nativeLock' = nativeLock /\ native' = native /\ issued' = issued
      /\ stored' = q /\ mem' = q /\ spent' = spent
  BY DEF Harvested, Goto, NoNative, After
<1>2. Types'
  BY <1>1 DEF RotationInv, Types, SwapPlaces, OtherPlaces, Looking
<1>3. native \in Owned BY DEF RotationInv, Types
<1>4. Places'
  BY <1>1, <1>3
     DEF After, RotationInv, Places, SwapPlaces, OtherPlaces, Moving, Looking, Refreshing, Asking
<1>5. Good(stored)' /\ Good(mem)'
  BY <1>1 DEF After, Good
<1> QED BY <1>2, <1>4, <1>5 DEF RotationInv

\* Where a harvest is made.
LEMMA HarvestPlaces ==
  ASSUME RotationInv, pc \in {"body", "again", "harvest"}
  PROVE  /\ mem = stored /\ stored.txn.kind # "swap" /\ PoolOK(stored)
         /\ stored.active \in DOMAIN stored.accounts
         /\ pc \in {"body", "again"} => call.op = "swap"
<1>1. /\ mem = stored /\ stored.txn.kind # "swap" /\ PoolOK(stored)
      /\ pc \in {"body", "again"} => call.op = "swap"
  BY DEF RotationInv, Good, Places, SwapPlaces, OtherPlaces
<1>2. stored.active \in DOMAIN stored.accounts
  <2>1. CASE pc = "harvest"
    BY <1>1, <2>1, PoolFacts DEF RotationInv, Places
  <2>2. CASE pc \in {"body", "again"}
    BY <1>1, <2>2 DEF RotationInv, Good, Serves
  <2> QED BY <2>1, <2>2
<1> QED BY <1>1, <1>2

LEMMA SwapHarvestKeeps ==
  ASSUME RotationInv, NEW l \in {"prepare", "settle"}, pc \in {"body", "again"},
         Harvest(Harvested(l)), NoNative
  PROVE  RotationInv'
<1> DEFINE q == Keeping(mem, mem.active, native)
<1>1. /\ mem = stored /\ stored.txn.kind # "swap" /\ call.op = "swap"
      /\ stored.active \in DOMAIN stored.accounts
  BY HarvestPlaces
<1>2. \/ /\ native = stored.accounts[stored.active].value /\ Harvested(l)
         /\ UNCHANGED <<stored, mem, spent>>
      \/ OfActive /\ stored' = q /\ mem' = q /\ Harvested(l) /\ UNCHANGED spent
      \/ OfActive /\ Spend("faults") /\ Fail(q)
      \/ Fail(stored) /\ UNCHANGED spent
  BY <1>1 DEF Harvest, Active, Save
<1>3. ASSUME OfActive
      PROVE  /\ Good(q) /\ q.active = stored.active /\ q.txn = stored.txn
             /\ q.accounts[q.active].value = native
  BY <1>1, <1>3, OfActiveKeeps
<1> HIDE DEF q
<1>4. Good(stored) /\ Types BY DEF RotationInv
<1>5. ASSUME native = stored.accounts[stored.active].value, Harvested(l),
             UNCHANGED <<stored, mem, spent>>
      PROVE  RotationInv'
  <2>1. After(stored) BY <1>1, <1>4, <1>5 DEF After
  <2> QED BY <1>1, <1>5, <2>1, HarvestedKeeps
<1>6. ASSUME OfActive, stored' = q, mem' = q, Harvested(l), UNCHANGED spent
      PROVE  RotationInv'
  <2>1. After(q) BY <1>3, <1>6 DEF After
  <2> QED BY <1>1, <1>6, <2>1, HarvestedKeeps
<1>7. ASSUME OfActive, Spend("faults"), Fail(q) PROVE RotationInv'
  BY <1>3, <1>4, <1>7, FailKeeps
<1>8. ASSUME Fail(stored), UNCHANGED spent PROVE RotationInv'
  BY <1>4, <1>8, FailKeeps
<1> QED BY <1>2, <1>5, <1>6, <1>7, <1>8

LEMMA SwapBodyKeeps ==
  ASSUME RotationInv, SwapBody
  PROVE  RotationInv'
<1>1. pc = "body" /\ NoNative BY DEF SwapBody
<1>2. CASE Leave(stored) /\ UNCHANGED spent
  BY <1>1, <1>2, ReturnKeeps DEF RotationInv
<1>3. CASE Harvest(Harvested("prepare"))
  BY <1>1, <1>3, SwapHarvestKeeps
<1> QED BY <1>2, <1>3 DEF SwapBody

LEMMA SwapHarvestAgainKeeps ==
  ASSUME RotationInv, SwapHarvestAgain
  PROVE  RotationInv'
BY SwapHarvestKeeps DEF SwapHarvestAgain

LEMMA HarvestStepKeeps ==
  ASSUME RotationInv, HarvestStep
  PROVE  RotationInv'
<1> DEFINE q == Keeping(mem, mem.active, native)
           Then == IF call.op = "enroll" THEN Harvested("enroll") ELSE Ends
<1>1. /\ mem = stored /\ stored.txn.kind # "swap" /\ pc = "harvest" /\ NoNative
      /\ stored.active \in DOMAIN stored.accounts
  BY HarvestPlaces DEF HarvestStep
<1>2. \/ /\ native = stored.accounts[stored.active].value /\ Then
         /\ UNCHANGED <<stored, mem, spent>>
      \/ OfActive /\ stored' = q /\ mem' = q /\ Then /\ UNCHANGED spent
      \/ OfActive /\ Spend("faults") /\ Fail(q)
      \/ Fail(stored) /\ UNCHANGED spent
  BY <1>1 DEF HarvestStep, Harvest, Active, Save
<1>3. ASSUME OfActive
      PROVE  /\ Good(q) /\ q.active = stored.active /\ q.txn = stored.txn
             /\ q.accounts[q.active].value = native
  BY <1>1, <1>3, OfActiveKeeps
<1> HIDE DEF q
<1>4. Good(stored) /\ Types BY DEF RotationInv
<1>5. ASSUME NEW p, After(p), Then PROVE RotationInv'
  <2>1. CASE call.op = "enroll"
    <3>1. next # "body" BY <1>1, <2>1 DEF RotationInv, Places
    <3>2. Harvested("enroll") BY <1>5, <2>1
    <3> QED BY <1>1, <1>5, <3>1, <3>2, HarvestedKeeps
  <2>2. CASE call.op # "enroll"
    <3>1. Leave(p) BY <1>5, <2>2 DEF After, Ends, Leave
    <3>2. Good(p) /\ UNCHANGED spent BY <1>5 DEF After
    <3> QED BY <1>1, <1>4, <3>1, <3>2, ReturnKeeps
  <2> QED BY <2>1, <2>2
<1> HIDE DEF Then
<1>6. ASSUME native = stored.accounts[stored.active].value, Then, UNCHANGED <<stored, mem, spent>>
      PROVE  RotationInv'
  <2>1. After(stored) BY <1>1, <1>4, <1>6 DEF After
  <2> QED BY <1>5, <1>6, <2>1
<1>7. ASSUME OfActive, stored' = q, mem' = q, Then, UNCHANGED spent PROVE RotationInv'
  <2>1. After(q) BY <1>3, <1>7 DEF After
  <2> QED BY <1>5, <1>7, <2>1
<1>8. ASSUME OfActive, Spend("faults"), Fail(q) PROVE RotationInv'
  BY <1>1, <1>3, <1>4, <1>8, FailKeeps
<1>9. ASSUME Fail(stored), UNCHANGED spent PROVE RotationInv'
  BY <1>1, <1>4, <1>9, FailKeeps
<1> QED BY <1>2, <1>6, <1>7, <1>8, <1>9

LEMMA EnrollStepKeeps ==
  ASSUME RotationInv, EnrollStep
  PROVE  RotationInv'
<1> DEFINE q == [mem EXCEPT !.txn = Enrollment]
<1>1. /\ pc = "enroll" /\ Leave(q) /\ NoNative /\ UNCHANGED spent
      /\ mem = stored /\ stored.txn.kind # "swap"
  BY DEF EnrollStep, RotationInv, Places, OtherPlaces
<1>2. Good(stored) /\ Types BY DEF RotationInv
<1>3. PoolOK(q) /\ q.active = stored.active /\ q.txn = Enrollment /\ q.accounts = stored.accounts
  BY <1>1, <1>2, TxnKeeps DEF Good
<1> HIDE DEF q
<1>4. Good(q) BY <1>1, <1>2, <1>3, Transactions DEF Good, Serves, Aligned
<1> QED BY <1>1, <1>2, <1>4, ReturnKeeps

LEMMA AdoptStepKeeps ==
  ASSUME RotationInv, AdoptStep
  PROVE  RotationInv'
<1>1. /\ pc = "adopt" /\ NoNative /\ mem = stored /\ stored.txn.kind # "swap"
      /\ next # "body" \/ call.op = "swap"
  BY DEF AdoptStep, RotationInv, Places, OtherPlaces
<1>2. Good(stored) /\ PoolOK(stored) /\ Types /\ native \in Owned
  BY DEF RotationInv, Good, Types
<1>3. ASSUME NEW p, Good(p), p.active # NoAccount, p.txn.kind # "swap", stored' = p, mem' = p,
             UNCHANGED spent, Goto("harvest"), UNCHANGED <<seen, todo, nativeLock>>
      PROVE  RotationInv'
  <2>1. /\ pc' = "harvest" /\ call' = call /\ next' = next /\ journaled' = journaled
        /\ seen' = seen /\ todo' = todo /\ nativeLock' = nativeLock /\ native' = native
        /\ issued' = issued /\ spent' = spent
    BY <1>1, <1>3 DEF Goto, NoNative
  <2>2. Types' BY <1>2, <2>1 DEF Types, OtherPlaces
  <2>3. Places'
    BY <1>1, <1>3, <2>1 DEF Places, SwapPlaces, OtherPlaces, Moving, Looking, Refreshing, Asking
  <2>4. Good(stored)' /\ Good(mem)' BY <1>3, <2>1 DEF Good
  <2> QED BY <2>2, <2>3, <2>4 DEF RotationInv
<1>4. ASSUME NEW a \in DOMAIN mem.accounts, Paired(native), SameUser(a, native["cc"].account),
             IF a = mem.active THEN Goto("harvest") /\ UNCHANGED <<seen, todo>> /\ Stay
             ELSE Save([mem EXCEPT !.active = a, !.generation = @ + 1],
                       Goto("harvest") /\ UNCHANGED <<seen, todo, nativeLock>>)
      PROVE  RotationInv'
  <2> DEFINE q == [stored EXCEPT !.active = a, !.generation = @ + 1]
  <2>1. a \in Accounts /\ a # NoAccount
    BY <1>1, <1>2, PoolFacts, AccountConstants
  <2>2. CASE a = mem.active
    BY <1>1, <1>2, <1>3, <1>4, <2>1, <2>2 DEF Stay
  <2>3. CASE a # mem.active
    <3>1. PoolOK(q) /\ q.active = a /\ q.txn = stored.txn /\ q.accounts = stored.accounts
      BY <1>1, <1>2, NewActiveKeeps
    <3>2. \/ /\ stored' = q /\ mem' = q /\ Goto("harvest") /\ UNCHANGED <<seen, todo, nativeLock>>
             /\ UNCHANGED spent
          \/ Spend("faults") /\ Fail(q)
      BY <1>1, <1>4, <2>3 DEF Save
    <3> HIDE DEF q
    <3>3. \A s \in Slots : SameUser(native[s].account, a)
      BY <1>2, <1>4, PairedIsOneUser, OneUser
    <3>4. Good(q)
      BY <1>1, <1>2, <1>4, <3>1, <3>3 DEF Good, Serves, Aligned
    <3>5. ASSUME stored' = q, mem' = q, Goto("harvest"), UNCHANGED <<seen, todo, nativeLock>>,
                 UNCHANGED spent
          PROVE  RotationInv'
      BY <1>1, <1>3, <2>1, <3>1, <3>4, <3>5
    <3>6. ASSUME Spend("faults"), Fail(q) PROVE RotationInv'
      BY <1>1, <1>2, <3>4, <3>6, FailKeeps
    <3> QED BY <3>2, <3>5, <3>6
  <2> QED BY <2>2, <2>3
<1>5. CASE Leave(stored) /\ UNCHANGED spent
  BY <1>1, <1>2, <1>5, ReturnKeeps
<1> QED BY <1>4, <1>5 DEF AdoptStep

LEMMA CaptureReadKeeps ==
  ASSUME RotationInv, CaptureRead
  PROVE  RotationInv'
<1>1. /\ pc = "capture" /\ NoNative /\ mem = stored /\ stored.txn.kind # "swap"
      /\ Types /\ Good(stored) /\ native \in Owned
  BY DEF CaptureRead, RotationInv, Places, OtherPlaces, Types
<1>2. CASE Paired(native)
  <2>1. /\ pc' = "captured" /\ call' = call /\ next' = next /\ journaled' = journaled
        /\ seen' = native /\ todo' = todo /\ nativeLock' = nativeLock /\ native' = native
        /\ issued' = issued /\ spent' = spent /\ stored' = stored /\ mem' = mem
    BY <1>2 DEF CaptureRead, Goto, Stay, NoNative
  <2>2. Types' BY <1>1, <2>1 DEF Types, OtherPlaces
  <2>3. Places'
    BY <1>1, <1>2, <2>1
       DEF RotationInv, Places, SwapPlaces, OtherPlaces, Moving, Looking, Refreshing, Asking
  <2>4. Good(stored)' /\ Good(mem)' BY <1>1, <2>1 DEF Good
  <2> QED BY <2>2, <2>3, <2>4 DEF RotationInv
<1>3. CASE ~Paired(native)
  BY <1>1, <1>3, ReturnKeeps DEF CaptureRead
<1> QED BY <1>2, <1>3

LEMMA CaptureStepKeeps ==
  ASSUME RotationInv, CaptureStep
  PROVE  RotationInv'
<1> DEFINE q == Captured(stored, seen["cc"].account, seen)
<1>1. /\ pc = "captured" /\ NoNative /\ mem = stored /\ stored.txn.kind # "swap"
      /\ Types /\ Good(stored) /\ PoolOK(stored) /\ seen \in Owned /\ Paired(seen)
  BY DEF CaptureStep, RotationInv, Places, OtherPlaces, Good
<1>2. CASE native = seen /\ Leave(q) /\ UNCHANGED spent
  <2>1. /\ PoolOK(q) /\ q.active = seen["cc"].account /\ q.txn = NoTxn
    BY <1>1, CapturedKeeps
  <2>2. \A s \in Slots : SameUser(seen[s].account, seen["cc"].account)
    BY <1>1, PairedIsOneUser
  <2> HIDE DEF q
  <2>3. Alone(q) BY <1>2, <2>1, <2>2 DEF Alone, Aligned
  <2>4. spent' \in [Events -> Nat] /\ spent'["logins"] = spent["logins"]
    BY <1>1, <1>2 DEF Types
  <2> QED BY <1>1, <1>2, <2>3, <2>4, LeaveKeeps
<1>3. CASE Goto("capture") /\ UNCHANGED <<seen, todo>> /\ Stay
  <2>1. /\ pc' = "capture" /\ call' = call /\ next' = next /\ journaled' = journaled
        /\ seen' = seen /\ todo' = todo /\ nativeLock' = nativeLock /\ native' = native
        /\ issued' = issued /\ spent' = spent /\ stored' = stored /\ mem' = mem
    BY <1>1, <1>3 DEF Goto, Stay, NoNative
  <2>2. Types' BY <1>1, <2>1 DEF Types, OtherPlaces
  <2>3. Places'
    BY <1>1, <2>1
       DEF RotationInv, Places, SwapPlaces, OtherPlaces, Moving, Looking, Refreshing, Asking
  <2>4. Good(stored)' /\ Good(mem)' BY <1>1, <2>1 DEF Good
  <2> QED BY <2>2, <2>3, <2>4 DEF RotationInv
<1>4. CASE Leave(stored) /\ UNCHANGED spent
  BY <1>1, <1>4, ReturnKeeps
<1> QED BY <1>1, <1>2, <1>3, <1>4 DEF CaptureStep

-----------------------------------------------------------------------------
(* The target of a swap                                                    *)

\* Where an operation of a swap stands before it has a journal.
LEMMA SwapFacts ==
  ASSUME RotationInv, pc \in SwapPlaces
  PROVE  /\ mem = stored /\ stored.txn.kind # "swap" /\ call.op = "swap"
         /\ Good(stored) /\ PoolOK(stored) /\ Types
         /\ Target \in DOMAIN stored.accounts /\ stored.active \in DOMAIN stored.accounts
         /\ pc \in Looking => seen \in Owned /\ seen = stored.accounts[stored.active].value
         /\ pc \in Refreshing => todo \in Seq(Grants) /\ Target # stored.active
         /\ pc \in Asking => todo # <<>>
<1>1. /\ mem = stored /\ stored.txn.kind # "swap" /\ call.op = "swap" /\ Places
      /\ Good(stored) /\ PoolOK(stored) /\ Types
  BY DEF RotationInv, Places, Good, SwapPlaces, Moving, OtherPlaces, Looking, Refreshing, Asking
<1>2. Target \in DOMAIN stored.accounts /\ stored.active \in DOMAIN stored.accounts
  BY <1>1 DEF Good, Serves, Target
<1> QED BY <1>1, <1>2 DEF Places

\* A step that only goes on to another place before the journal.
LEMMA GoOnKeeps ==
  ASSUME RotationInv, pc \in SwapPlaces, NEW l \in SwapPlaces, pc' = l,
         UNCHANGED <<stored, mem, nativeLock, spent, native, call, next, journaled, seen>>,
         issued' \in [Accounts -> [Slots -> 0..MaxVersion]],
         todo' \in Seq(Slots),
         l \in Looking => pc \in Looking,
         l \in Refreshing => todo' \in Seq(Grants) /\ Target # stored.active,
         l \in Asking => todo' # <<>>,
         l = "granted" => stored.accounts[Target].value["pa"].version < MaxVersion
  PROVE  RotationInv'
<1>1. /\ mem = stored /\ stored.txn.kind # "swap" /\ call.op = "swap" /\ Types
      /\ pc \in Looking => seen \in Owned /\ seen = stored.accounts[stored.active].value
  BY SwapFacts
<1>2. Types' BY <1>1 DEF Types
<1>3. l \notin Moving \cup OtherPlaces \cup {"idle", "reconcile"}
  BY DEF SwapPlaces, OtherPlaces, Moving, Looking, Refreshing, Asking
<1>4. Places'
  BY <1>1, <1>3 DEF Places, Target, OtherPlaces, Moving, Asking
<1>5. Good(stored)' /\ Good(mem)' BY DEF RotationInv, Good
<1> QED BY <1>2, <1>4, <1>5 DEF RotationInv

LEMMA GrantQueues ==
  /\ {<<>>, <<"pa">>, <<"cc">>, <<"pa", "cc">>} \subseteq Seq(Grants)
  /\ \A t \in Seq(Grants) : t \in Seq(Slots)
  /\ \A t \in Seq(Grants) : t # <<>> => Head(t) \in Grants /\ Tail(t) \in Seq(Grants)
<1>1. Grants \subseteq Slots BY DEF Grants, Slots
<1>2. {<<>>, <<"pa">>, <<"cc">>, <<"pa", "cc">>} \subseteq Seq(Grants)
  BY DEF Grants
<1>3. ASSUME NEW t \in Seq(Grants), t # <<>>
      PROVE  Head(t) \in Grants /\ Tail(t) \in Seq(Grants)
  BY <1>3
<1>4. \A t \in Seq(Grants) : t \in Seq(Slots)
  BY <1>1
<1> QED BY <1>2, <1>3, <1>4

LEMMA PrepareKeeps ==
  ASSUME RotationInv, Prepare
  PROVE  RotationInv'
<1>1. pc = "prepare" /\ NoNative /\ pc \in SwapPlaces /\ pc \in Looking
  BY DEF Prepare, SwapPlaces, Looking
<1>2. mem = stored /\ Types /\ Good(stored)
  BY <1>1, SwapFacts
<1>3. CASE Goto("recheck") /\ UNCHANGED <<seen, todo>> /\ Stay
  <2>1. "recheck" \in SwapPlaces /\ "recheck" \notin Refreshing /\ "recheck" \notin Asking
    BY DEF SwapPlaces, Looking, Refreshing, Asking
  <2> QED BY <1>1, <1>2, <1>3, <2>1, GoOnKeeps DEF Goto, Stay, NoNative, Types
<1>4. CASE /\ Target # mem.active
           /\ todo' \in {<<>>, <<"pa">>, <<"cc">>, <<"pa", "cc">>}
           /\ Goto("refresh") /\ UNCHANGED seen /\ Stay
  <2>1. "refresh" \in SwapPlaces /\ "refresh" \notin Asking
    BY DEF SwapPlaces, Looking, Refreshing, Asking
  <2>2. todo' \in Seq(Grants) /\ todo' \in Seq(Slots) BY <1>4, GrantQueues
  <2>3. issued' \in [Accounts -> [Slots -> 0..MaxVersion]]
    BY <1>1, <1>2 DEF NoNative, Types
  <2> QED BY <1>1, <1>2, <1>4, <2>1, <2>2, <2>3, GoOnKeeps DEF Goto, Stay, NoNative
<1>5. CASE Leave(stored) /\ UNCHANGED spent
  BY <1>1, <1>2, <1>5, ReturnKeeps
<1> QED BY <1>3, <1>4, <1>5 DEF Prepare

\* A refresh saves a pool with the same active account and journal, and goes on.
LEMMA SavedGoOnKeeps ==
  ASSUME RotationInv, pc \in Refreshing, NEW l \in {"post", "refresh"}, pc' = l,
         NEW q, PoolOK(q), q.active = stored.active, q.txn = stored.txn,
         DOMAIN q.accounts = DOMAIN stored.accounts,
         q.accounts[stored.active] = stored.accounts[stored.active],
         stored' = q, mem' = q, UNCHANGED <<spent, nativeLock, native, issued>>,
         UNCHANGED <<call, next, journaled, seen>>,
         todo' \in Seq(Grants), l = "post" => todo' # <<>>
  PROVE  RotationInv'
<1>1. pc \in SwapPlaces /\ pc \in Looking /\ l \in SwapPlaces /\ l \in Looking /\ l \in Refreshing
      /\ l # "granted" /\ (l \in Asking => l = "post")
  BY DEF SwapPlaces, Looking, Refreshing, Asking
<1>2. /\ mem = stored /\ stored.txn.kind # "swap" /\ call.op = "swap" /\ Types /\ Good(stored)
      /\ seen \in Owned /\ seen = stored.accounts[stored.active].value
      /\ Target # stored.active
  BY <1>1, SwapFacts
<1>3. todo' \in Seq(Slots) BY GrantQueues
<1>4. Types' BY <1>1, <1>2, <1>3 DEF Types
<1>5. l \notin Moving \cup OtherPlaces \cup {"idle", "reconcile"}
  BY DEF OtherPlaces, Moving
<1>6. Places'
  BY <1>1, <1>2, <1>5 DEF Places, Target, OtherPlaces, Moving, Asking
<1>7. Good(stored)' /\ Good(mem)'
  BY <1>2 DEF Good, Serves, Aligned
<1> QED BY <1>4, <1>6, <1>7 DEF RotationInv

LEMMA RefreshStepKeeps ==
  ASSUME RotationInv, RefreshStep
  PROVE  RotationInv'
<1> DEFINE i == <<Target, Head(todo)>>
           q == [stored EXCEPT !.intent = i]
<1>1. pc = "refresh" /\ NoNative /\ pc \in SwapPlaces /\ pc \in Looking /\ pc \in Refreshing
  BY DEF RefreshStep, SwapPlaces, Looking, Refreshing
<1>2. /\ mem = stored /\ Types /\ Good(stored) /\ PoolOK(stored) /\ todo \in Seq(Grants)
      /\ Target \in DOMAIN stored.accounts
  BY <1>1, SwapFacts
<1>3. CASE todo = <<>> /\ Goto("verify") /\ UNCHANGED <<todo, seen>> /\ Stay
  <2>1. "verify" \in SwapPlaces /\ "verify" \notin Refreshing /\ "verify" \notin Asking
    BY DEF SwapPlaces, Looking, Refreshing, Asking
  <2>2. issued' \in [Accounts -> [Slots -> 0..MaxVersion]] /\ todo' \in Seq(Slots)
    BY <1>1, <1>2, <1>3 DEF NoNative, Types
  <2> QED BY <1>1, <1>2, <1>3, <2>1, <2>2, GoOnKeeps DEF Goto, Stay, NoNative
<1>4. ASSUME todo # <<>>,
             Save([mem EXCEPT !.intent = <<Target, Head(todo)>>],
                  Goto("post") /\ UNCHANGED <<todo, seen, nativeLock>>)
      PROVE  RotationInv'
  <2>1. \/ /\ stored' = q /\ mem' = q /\ UNCHANGED spent
           /\ Goto("post") /\ UNCHANGED <<todo, seen, nativeLock>>
        \/ Spend("faults") /\ Fail(q)
    BY <1>2, <1>4 DEF Save
  <2>2. i \in (Accounts \X Grants) \cup {NoIntent}
    <3>1. Target \in Accounts BY <1>2, PoolFacts
    <3>2. Head(todo) \in Grants BY <1>2, <1>4, GrantQueues
    <3> QED BY <3>1, <3>2
  <2> HIDE DEF i
  <2>3. /\ PoolOK(q) /\ q.active = stored.active /\ q.txn = stored.txn
        /\ q.accounts = stored.accounts
    BY <1>2, <2>2, IntentKeeps
  <2> HIDE DEF q
  <2>4. Good(q) BY <1>2, <2>3 DEF Good, Serves, Aligned
  <2>5. ASSUME stored' = q, mem' = q, UNCHANGED spent, Goto("post"),
               UNCHANGED <<todo, seen, nativeLock>>
        PROVE  RotationInv'
    BY <1>1, <1>2, <1>4, <2>3, <2>5, SavedGoOnKeeps DEF Goto, NoNative
  <2>6. ASSUME Spend("faults"), Fail(q) PROVE RotationInv'
    BY <1>1, <1>2, <2>4, <2>6, FailKeeps
  <2> QED BY <2>1, <2>5, <2>6
<1> QED BY <1>3, <1>4 DEF RefreshStep

\* Where the authorization server is asked.
LEMMA PostFacts ==
  ASSUME RotationInv, pc = "post"
  PROVE  /\ pc \in SwapPlaces /\ pc \in Looking /\ pc \in Refreshing
         /\ \A l \in {"granted", "uncertain", "invalid"} : l \in SwapPlaces
         /\ mem = stored /\ Types /\ Good(stored) /\ PoolOK(stored) /\ todo \in Seq(Grants)
         /\ todo # <<>> /\ Target \in DOMAIN stored.accounts /\ Target # stored.active
         /\ todo \in Seq(Slots)
<1>1. /\ pc \in SwapPlaces /\ pc \in Looking /\ pc \in Refreshing /\ pc \in Asking
      /\ \A l \in {"granted", "uncertain", "invalid"} : l \in SwapPlaces
  BY DEF SwapPlaces, Looking, Refreshing, Asking
<1> QED BY <1>1, SwapFacts, GrantQueues

LEMMA PostPiKeeps ==
  ASSUME RotationInv, PostPi
  PROVE  RotationInv'
<1> DEFINE held == stored.accounts[Target].value
<1>1. pc = "post" BY DEF PostPi
<1>2. /\ pc \in SwapPlaces /\ pc \in Looking
      /\ \A l \in {"granted", "uncertain", "invalid"} : l \in SwapPlaces
      /\ mem = stored /\ Types /\ Good(stored) /\ PoolOK(stored) /\ todo \in Seq(Grants)
      /\ todo # <<>> /\ Target \in DOMAIN stored.accounts /\ Target # stored.active
      /\ todo \in Seq(Slots)
  BY <1>1, PostFacts
<1>3. /\ UNCHANGED <<native, call, mem, seen, todo, next, journaled>>
      /\ UNCHANGED <<stored, nativeLock, spent>>
      /\ \/ /\ Newest(held, "pa") /\ held["pa"].version < MaxVersion
            /\ issued' = [issued EXCEPT ![held["pa"].account]["pa"] = @ + 1]
            /\ pc' \in {"granted", "uncertain"}
         \/ pc' \in {"uncertain", "invalid"} /\ UNCHANGED issued
  BY <1>2 DEF PostPi, localVars
<1>4. held \in Owned BY <1>2, PoolFacts
<1>5. issued' \in [Accounts -> [Slots -> 0..MaxVersion]]
  <2> HIDE DEF held
  <2>1. /\ held["pa"].account \in Accounts /\ held["pa"].version \in 0..MaxVersion
        /\ "pa" \in Slots
    BY <1>4 DEF Owned, Values, Slots
  <2>2. CASE UNCHANGED issued BY <1>2, <2>2 DEF Types
  <2>3. CASE /\ Newest(held, "pa") /\ held["pa"].version < MaxVersion
             /\ issued' = [issued EXCEPT ![held["pa"].account]["pa"] = @ + 1]
    <3>1. issued[held["pa"].account]["pa"] = held["pa"].version
      BY <2>3 DEF Newest
    <3>2. held["pa"].version + 1 \in 0..MaxVersion
      BY <2>1, <2>3, AccountConstants
    <3>3. issued \in [Accounts -> [Slots -> 0..MaxVersion]] BY <1>2 DEF Types
    <3>4. issued' = [issued EXCEPT ![held["pa"].account]["pa"] = held["pa"].version + 1]
      BY <2>3, <3>1
    <3> QED BY <2>1, <3>2, <3>3, <3>4
  <2> QED BY <1>3, <2>2, <2>3
<1>6. pc' \in {"granted", "uncertain", "invalid"}
      /\ (pc' = "granted" => held["pa"].version < MaxVersion)
  BY <1>3
<1> QED BY <1>2, <1>3, <1>5, <1>6, GoOnKeeps

\* The pool of an intent that ends, or that is left, uncertain or refused.
LEMMA MarkedKeeps ==
  ASSUME Good(stored), NEW g \in Grants, NEW h \in Healths
  PROVE  LET q == WithHealth(stored, Target, g, h)
         IN  Good(q) /\ Good([q EXCEPT !.intent = NoIntent])
<1> DEFINE q == WithHealth(stored, Target, g, h)
           r == [q EXCEPT !.intent = NoIntent]
<1>1. PoolOK(stored) BY DEF Good
<1>2. /\ PoolOK(q) /\ q.active = stored.active /\ q.txn = stored.txn
      /\ DOMAIN q.accounts = DOMAIN stored.accounts
  BY <1>1, HealthKeeps
<1> HIDE DEF q
<1>3. /\ PoolOK(r) /\ r.active = q.active /\ r.txn = q.txn /\ r.accounts = q.accounts
  BY <1>2, IntentKeeps
<1> HIDE DEF r
<1>4. Good(q) BY <1>2 DEF Good, Serves, Aligned
<1>5. Good(r) BY <1>2, <1>3 DEF Good, Serves, Aligned
<1> QED BY <1>4, <1>5 DEF q, r

LEMMA PostClaudeKeeps ==
  ASSUME RotationInv, PostClaude
  PROVE  RotationInv'
<1>1. pc = "post" /\ NoNative BY DEF PostClaude
<1>2. /\ pc \in SwapPlaces /\ pc \in Looking
      /\ \A l \in {"granted", "uncertain", "invalid"} : l \in SwapPlaces
      /\ mem = stored /\ Types /\ Good(stored) /\ todo \in Seq(Grants)
      /\ todo # <<>> /\ Target # stored.active /\ todo \in Seq(Slots)
  BY <1>1, PostFacts
<1>3. CASE pc' = "uncertain" /\ UNCHANGED localVars /\ UNCHANGED <<stored, nativeLock, spent>>
  <2>1. issued' \in [Accounts -> [Slots -> 0..MaxVersion]]
    BY <1>1, <1>2 DEF NoNative, Types
  <2> QED BY <1>1, <1>2, <1>3, <2>1, GoOnKeeps DEF localVars, NoNative
<1>4. CASE Leave(stored) /\ UNCHANGED spent
  BY <1>1, <1>2, <1>4, ReturnKeeps
<1> QED BY <1>3, <1>4 DEF PostClaude

LEMMA RefreshResultKeeps ==
  ASSUME RotationInv, RefreshResult
  PROVE  RotationInv'
<1> DEFINE q == [stored EXCEPT !.accounts[Target].value["pa"].version = @ + 1,
                               !.intent = NoIntent]
<1>1. NoNative /\ pc \in {"granted", "uncertain", "invalid"} BY DEF RefreshResult
<1>2. pc \in SwapPlaces /\ pc \in Looking /\ pc \in Refreshing /\ pc \in Asking
  BY <1>1 DEF SwapPlaces, Looking, Refreshing, Asking
<1>3. /\ mem = stored /\ Types /\ Good(stored) /\ PoolOK(stored) /\ todo \in Seq(Grants)
      /\ todo # <<>> /\ Target \in DOMAIN stored.accounts /\ Target # stored.active
      /\ stored.active \in DOMAIN stored.accounts /\ stored.txn.kind # "swap"
  BY <1>2, SwapFacts
<1>4. Head(todo) \in Grants /\ Tail(todo) \in Seq(Grants) /\ "pa" \in Grants
  BY <1>3, GrantQueues DEF Grants
<1>5. ASSUME pc = "granted",
             Save([mem EXCEPT !.accounts[Target].value["pa"].version = @ + 1,
                              !.intent = NoIntent],
                  Goto("refresh") /\ todo' = Tail(todo) /\ UNCHANGED <<seen, nativeLock>>)
      PROVE  RotationInv'
  <2>1. stored.accounts[Target].value["pa"].version < MaxVersion
    BY <1>5 DEF RotationInv, Places
  <2>2. /\ PoolOK(q) /\ q.active = stored.active /\ q.txn = stored.txn
        /\ DOMAIN q.accounts = DOMAIN stored.accounts
        /\ \A x \in DOMAIN stored.accounts : x # Target => q.accounts[x] = stored.accounts[x]
    BY <1>3, <2>1, GrantKeeps
  <2>3. \/ /\ stored' = q /\ mem' = q /\ UNCHANGED spent
           /\ Goto("refresh") /\ todo' = Tail(todo) /\ UNCHANGED <<seen, nativeLock>>
        \/ Spend("faults") /\ Fail(q)
    BY <1>3, <1>5 DEF Save
  <2> HIDE DEF q
  <2>4. Good(q) BY <1>3, <2>2 DEF Good, Serves, Aligned
  <2>5. ASSUME stored' = q, mem' = q, UNCHANGED spent, Goto("refresh"), todo' = Tail(todo),
               UNCHANGED <<seen, nativeLock>>
        PROVE  RotationInv'
    BY <1>1, <1>2, <1>3, <1>4, <2>2, <2>5, SavedGoOnKeeps DEF Goto, NoNative
  <2>6. ASSUME Spend("faults"), Fail(q) PROVE RotationInv'
    BY <1>1, <1>3, <2>4, <2>6, FailKeeps
  <2> QED BY <2>3, <2>5, <2>6
<1>6. ASSUME UNCHANGED spent, Leave(WithHealth(mem, Target, Head(todo), "refresh-uncertain"))
      PROVE  RotationInv'
  <2> DEFINE m == WithHealth(stored, Target, Head(todo), "refresh-uncertain")
  <2>1. "refresh-uncertain" \in Healths BY DEF Healths
  <2>2. Good(m) BY <1>3, <1>4, <2>1, MarkedKeeps
  <2>3. Leave(m) BY <1>3, <1>6
  <2> HIDE DEF m
  <2> QED BY <1>1, <1>3, <1>6, <2>2, <2>3, ReturnKeeps
<1>7. ASSUME UNCHANGED spent,
             Leave([WithHealth(mem, Target, "pa", "needs-login") EXCEPT !.intent = NoIntent])
      PROVE  RotationInv'
  <2> DEFINE m == [WithHealth(stored, Target, "pa", "needs-login") EXCEPT !.intent = NoIntent]
  <2>1. "needs-login" \in Healths BY DEF Healths
  <2>2. Good(m) BY <1>3, <1>4, <2>1, MarkedKeeps
  <2>3. Leave(m) BY <1>3, <1>7
  <2> HIDE DEF m
  <2> QED BY <1>1, <1>3, <1>7, <2>2, <2>3, ReturnKeeps
<1> QED BY <1>5, <1>6, <1>7 DEF RefreshResult

LEMMA VerifyTargetKeeps ==
  ASSUME RotationInv, VerifyTarget
  PROVE  RotationInv'
<1>1. pc = "verify" /\ NoNative /\ pc \in SwapPlaces /\ pc \in Looking
  BY DEF VerifyTarget, SwapPlaces, Looking
<1>2. mem = stored /\ Types /\ Good(stored)
  BY <1>1, SwapFacts
<1>3. CASE Goto("recheck") /\ UNCHANGED <<seen, todo>> /\ Stay
  <2>1. "recheck" \in SwapPlaces /\ "recheck" \notin Refreshing /\ "recheck" \notin Asking
    BY DEF SwapPlaces, Looking, Refreshing, Asking
  <2> QED BY <1>1, <1>2, <1>3, <2>1, GoOnKeeps DEF Goto, Stay, NoNative, Types
<1>4. CASE Leave(stored) /\ UNCHANGED spent
  BY <1>1, <1>2, <1>4, ReturnKeeps
<1> QED BY <1>3, <1>4 DEF VerifyTarget

-----------------------------------------------------------------------------
(* The journal and the patches                                             *)

LEMMA PreparedKeeps ==
  ASSUME RotationInv, pc \in {"recheck", "settle"}, Prepared, NoNative
  PROVE  RotationInv'
<1> DEFINE j == SwapJournal
           q == [stored EXCEPT !.txn = j]
<1>1. pc \in SwapPlaces /\ pc \in Looking
  BY DEF SwapPlaces, Looking
<1>2. /\ mem = stored /\ Types /\ Good(stored) /\ PoolOK(stored) /\ stored.txn.kind # "swap"
      /\ Target \in DOMAIN stored.accounts /\ stored.active \in DOMAIN stored.accounts
      /\ call.op = "swap" /\ seen \in Owned /\ seen = stored.accounts[stored.active].value
  BY <1>1, SwapFacts
<1>3. \/ /\ stored' = q /\ mem' = q /\ UNCHANGED spent /\ pc' = "lock"
         /\ todo' = AllProjections /\ journaled' = TRUE
         /\ UNCHANGED <<call, next, seen, nativeLock>>
      \/ Spend("faults") /\ Fail(q)
  BY <1>2 DEF Prepared, Save
<1>4. j = [kind |-> "swap", source |-> stored.active, target |-> Target,
           from |-> stored.generation, before |-> seen,
           after |-> stored.accounts[Target].value, expected |-> seen]
  BY <1>2 DEF SwapJournal
<1>5. j.kind = "swap" /\ j.before = seen /\ j.expected = seen
  BY <1>4
<1> HIDE DEF j
<1>6. PoolOK(q) /\ q.active = stored.active /\ q.txn = j /\ q.accounts = stored.accounts
  BY <1>2, <1>4, JournalKeeps
<1> HIDE DEF q
<1>7. Good(q) BY <1>2, <1>5, <1>6 DEF Good, Serves, Aligned
<1>8. ASSUME stored' = q, mem' = q, UNCHANGED spent, pc' = "lock", todo' = AllProjections,
             journaled' = TRUE, UNCHANGED <<call, next, seen, nativeLock>>
      PROVE  RotationInv'
  <2>1. native' = native /\ issued' = issued BY DEF NoNative
  <2>2. Types'
    <3>1. AllProjections \in Seq(Slots) BY DEF AllProjections, Slots
    <3> QED BY <1>2, <1>8, <2>1, <3>1 DEF Types, Moving
  <2>3. Places'
    BY <1>2, <1>5, <1>6, <1>8
       DEF Places, SwapPlaces, OtherPlaces, Moving, Looking, Refreshing, Asking
  <2>4. Good(stored)' /\ Good(mem)' BY <1>7, <1>8, <2>1 DEF Good
  <2> QED BY <2>2, <2>3, <2>4 DEF RotationInv
<1>9. ASSUME Spend("faults"), Fail(q) PROVE RotationInv'
  BY <1>2, <1>7, <1>9, FailKeeps
<1> QED BY <1>3, <1>8, <1>9

LEMMA RecheckKeeps ==
  ASSUME RotationInv, Recheck
  PROVE  RotationInv'
<1>1. pc = "recheck" /\ NoNative /\ pc \in SwapPlaces
  BY DEF Recheck, SwapPlaces, Looking
<1>2. CASE Prepared BY <1>1, <1>2, PreparedKeeps
<1>3. CASE Goto("again") /\ UNCHANGED <<seen, todo>> /\ Stay
  <2>1. "again" \in SwapPlaces /\ "again" \notin Looking /\ "again" \notin Refreshing
        /\ "again" \notin Asking
    BY DEF SwapPlaces, Looking, Refreshing, Asking
  <2>2. Types BY DEF RotationInv
  <2> QED BY <1>1, <1>3, <2>1, <2>2, GoOnKeeps DEF Goto, Stay, NoNative, Types
<1> QED BY <1>2, <1>3 DEF Recheck

LEMMA SettleKeeps ==
  ASSUME RotationInv, Settle
  PROVE  RotationInv'
<1>1. pc = "settle" /\ NoNative BY DEF Settle
<1>2. CASE Prepared BY <1>1, <1>2, PreparedKeeps
<1>3. CASE Leave(stored) /\ UNCHANGED spent
  BY <1>1, <1>3, ReturnKeeps DEF RotationInv
<1> QED BY <1>2, <1>3 DEF Settle

\* Where the slots are moved: a journal is open, in the store and in memory.
LEMMA MovingFacts ==
  ASSUME RotationInv, pc \in Moving
  PROVE  /\ Types /\ Good(stored) /\ Good(mem) /\ PoolOK(mem) /\ PoolOK(stored)
         /\ mem.txn.kind = "swap" /\ stored.txn.kind = "swap" /\ mem.txn \in Journals
         /\ native \in Owned /\ mem.txn.after \in Owned /\ (pc # "progress" => mem = stored)
         /\ next = "body" => call.op = "swap"
<1>1. /\ Types /\ Good(stored) /\ Good(mem) /\ PoolOK(mem) /\ PoolOK(stored)
      /\ mem.txn.kind = "swap" /\ stored.txn.kind = "swap"
      /\ native \in Owned /\ (pc # "progress" => mem = stored)
      /\ next = "body" => call.op = "swap"
  BY DEF RotationInv, Good, Types, Places
<1>2. mem.txn \in Journals BY <1>1 DEF PoolOK
<1>3. mem.txn.after \in Owned BY <1>2 DEF Journals
<1> QED BY <1>1, <1>2, <1>3

\* The slots are what they were when they were last seen, where they are left to patch.
LEMMA ToPatch ==
  ASSUME RotationInv, NEW q, PoolOK(q), q.txn.kind = "swap", Serves(call, q),
         NEW t \in Seq(Slots), NEW v \in Owned, \A i \in DOMAIN t : v[t[i]] = q.txn.before[t[i]],
         stored' = q, mem' = q, seen' = v, todo' = t, pc' = "patch",
         nativeLock' \in {"free", "held", "left"}, NoNative,
         UNCHANGED <<call, next, journaled, spent>>, next = "body" => call.op = "swap"
  PROVE  RotationInv'
<1>1. native' = native /\ issued' = issued BY DEF NoNative
<1>2. Types' BY <1>1 DEF RotationInv, Types, Moving
<1>3. Places'
  BY DEF Places, SwapPlaces, OtherPlaces, Moving, Looking, Refreshing, Asking
<1>4. Good(stored)' /\ Good(mem)'
  BY <1>1 DEF Good, Aligned
<1> QED BY <1>2, <1>3, <1>4 DEF RotationInv

LEMMA LockFirstKeeps ==
  ASSUME RotationInv, LockFirst
  PROVE  RotationInv'
<1>1. pc = "lock" /\ pc \in Moving /\ NoNative BY DEF LockFirst, Moving
<1>2. /\ Types /\ Good(stored) /\ PoolOK(stored) /\ stored.txn.kind = "swap" /\ mem = stored
      /\ native \in Owned /\ (next = "body" => call.op = "swap")
  BY <1>1, MovingFacts
<1>3. todo = AllProjections /\ mem.txn.expected = mem.txn.before
  BY <1>1 DEF RotationInv, Places
<1>4. CASE nativeLock = "free" /\ Unchanged
  <2>1. native = stored.txn.before BY <1>2, <1>3, <1>4 DEF Unchanged, Journal
  <2>2. /\ nativeLock' = "held" /\ seen' = native /\ pc' = "patch"
        /\ UNCHANGED <<call, next, journaled, stored, mem, todo, spent>>
    BY <1>4 DEF LockFirst, Goto
  <2>3. todo \in Seq(Slots) BY <1>2 DEF Types
  <2>4. Serves(call, stored) BY <1>2 DEF Good
  <2> QED BY <1>1, <1>2, <2>1, <2>2, <2>3, <2>4, ToPatch
<1>5. CASE Fail(stored) /\ UNCHANGED spent
  BY <1>1, <1>2, <1>5, FailKeeps
<1> QED BY <1>4, <1>5 DEF LockFirst

\* The slots that are still at the journal's beginning.
LEMMA PendingFacts ==
  ASSUME NEW v, NEW j
  PROVE  LET t == PendingProjections(v, j)
         IN  t \in Seq(Slots) /\ \A i \in DOMAIN t : v[t[i]] = j.before[t[i]]
<1> DEFINE Pending(s) == IF Class(v, j, s) = "before" THEN <<s>> ELSE <<>>
           First(S) == {s \in S : v[s] = j.before[s]}
<1>1. ASSUME NEW s \in Slots PROVE Pending(s) \in Seq(First(Slots))
  <2>1. CASE v[s] = j.before[s]
    <3>1. s \in First(Slots) BY <2>1
    <3>2. Pending(s) = <<s>> BY <2>1 DEF Class
    <3> HIDE DEF Pending, First
    <3> QED BY <3>1, <3>2
  <2>2. CASE v[s] # j.before[s]
    <3>1. Pending(s) = <<>> BY <2>2 DEF Class
    <3> HIDE DEF Pending, First
    <3> QED BY <3>1
  <2> QED BY <2>1, <2>2
<1>2. PendingProjections(v, j) = Pending("cc") \o Pending("cj") \o Pending("pa")
  BY DEF PendingProjections
<1>3. First(Slots) \subseteq Slots /\ \A s \in First(Slots) : v[s] = j.before[s]
  OBVIOUS
<1> HIDE DEF Pending, First
<1>4. PendingProjections(v, j) \in Seq(First(Slots))
  <2>1. /\ Pending("cc") \in Seq(First(Slots)) /\ Pending("cj") \in Seq(First(Slots))
        /\ Pending("pa") \in Seq(First(Slots))
    BY <1>1 DEF Slots
  <2> QED BY <1>2, <2>1
<1> DEFINE t == PendingProjections(v, j)
<1> HIDE DEF t
<1>5. t \in Seq(First(Slots)) BY <1>4 DEF t
<1>6. t \in Seq(Slots) /\ \A i \in DOMAIN t : t[i] \in First(Slots)
  BY <1>3, <1>5
<1> QED BY <1>3, <1>6 DEF t

LEMMA LockAgainKeeps ==
  ASSUME RotationInv, LockAgain
  PROVE  RotationInv'
<1> DEFINE q == [stored EXCEPT !.txn.expected = native]
           t == PendingProjections(native, stored.txn)
<1>1. pc = "relock" /\ pc \in Moving /\ NoNative BY DEF LockAgain, Moving
<1>2. /\ Types /\ Good(stored) /\ PoolOK(stored) /\ stored.txn.kind = "swap" /\ mem = stored
      /\ native \in Owned /\ (next = "body" => call.op = "swap")
  BY <1>1, MovingFacts
<1>3. /\ PoolOK(q) /\ q.active = stored.active /\ q.accounts = stored.accounts
      /\ q.txn.kind = "swap" /\ q.txn.before = stored.txn.before
  BY <1>2, ExpectedKeeps
<1>4. t \in Seq(Slots) /\ \A i \in DOMAIN t : native[t[i]] = stored.txn.before[t[i]]
  BY PendingFacts
<1>5. \/ /\ native = seen /\ stored' = q /\ mem' = q /\ UNCHANGED spent
         /\ nativeLock' = "held" /\ todo' = t /\ Goto("patch") /\ UNCHANGED seen
      \/ Spend("faults") /\ Fail(q)
      \/ Fail(stored) /\ UNCHANGED spent
  BY <1>2 DEF LockAgain, Save, AsClassified, Journal
<1> HIDE DEF q, t
<1>6. Good(q) BY <1>2, <1>3 DEF Good, Serves, Aligned
<1>7. ASSUME native = seen, stored' = q, mem' = q, UNCHANGED spent, nativeLock' = "held",
             todo' = t, Goto("patch"), UNCHANGED seen
      PROVE  RotationInv'
  <2>1. Serves(call, q) BY <1>6 DEF Good
  <2> QED BY <1>1, <1>2, <1>3, <1>4, <1>7, <2>1, ToPatch DEF Goto
<1>8. ASSUME Spend("faults"), Fail(q) PROVE RotationInv'
  BY <1>1, <1>2, <1>6, <1>8, FailKeeps
<1>9. ASSUME Fail(stored), UNCHANGED spent PROVE RotationInv'
  BY <1>1, <1>2, <1>9, FailKeeps
<1> QED BY <1>5, <1>7, <1>8, <1>9

\* What is sound while the slots are moved does not depend on the slots.
LEMMA MovedSlots ==
  ASSUME RotationInv, pc \in Moving, NEW s \in Slots,
         native' = [native EXCEPT ![s] = mem.txn.after[s]]
  PROVE  native' \in Owned
BY MovingFacts DEF Owned

LEMMA PatchKeeps ==
  ASSUME RotationInv, Patch
  PROVE  RotationInv'
<1> DEFINE s == Head(todo)
           o == [mem.txn.expected EXCEPT ![s] = mem.txn.after[s]]
           q == [mem EXCEPT !.txn.expected = o]
<1>1. pc = "patch" /\ pc \in Moving /\ todo # <<>> /\ issued' = issued BY DEF Patch, Moving
<1>2. /\ Types /\ Good(stored) /\ Good(mem) /\ PoolOK(mem) /\ PoolOK(stored) /\ mem = stored
      /\ mem.txn.kind = "swap" /\ mem.txn \in Journals /\ mem.txn.after \in Owned
      /\ (next = "body" => call.op = "swap")
  BY <1>1, MovingFacts
<1>3. s \in Slots /\ seen \in Owned
      /\ \A i \in DOMAIN todo : seen[todo[i]] = mem.txn.before[todo[i]]
  BY <1>1, <1>2 DEF RotationInv, Places, Types
<1>4. native' = [native EXCEPT ![s] = mem.txn.after[s]] BY DEF Patch, Journal
<1>5. native' \in Owned
  <2> HIDE DEF s
  <2> QED BY <1>1, <1>3, <1>4, MovedSlots
<1>6. ASSUME mem' = q, Goto("progress"), UNCHANGED <<stored, nativeLock, seen, todo, spent>>
      PROVE  RotationInv'
  <2>1. o \in Owned
    <3>1. mem.txn.expected \in Owned BY <1>2 DEF Journals
    <3> HIDE DEF s
    <3> QED BY <1>2, <1>3, <3>1 DEF Owned
  <2> HIDE DEF o
  <2>2. /\ PoolOK(q) /\ q.active = mem.active /\ q.accounts = mem.accounts
        /\ q.txn.kind = "swap" /\ q.txn.before = mem.txn.before
    BY <1>2, <2>1, ExpectedKeeps
  <2> HIDE DEF q
  <2>3. Types'
    BY <1>1, <1>2, <1>5, <1>6 DEF Types, Goto, Moving
  <2>4. Places'
    BY <1>1, <1>2, <1>3, <1>6, <2>2
       DEF Places, Goto, SwapPlaces, OtherPlaces, Moving, Looking, Refreshing, Asking
  <2>5. Good(stored)' /\ Good(mem)'
    BY <1>2, <1>6, <2>2 DEF Good, Goto, Serves, Aligned
  <2> QED BY <2>3, <2>4, <2>5 DEF RotationInv
<1>7. ASSUME Spend("faults"), Fail(stored) PROVE RotationInv'
  <2>1. spent' \in [Events -> Nat] BY <1>2, <1>7, SpentStays DEF Types
  <2>2. /\ stored' = stored /\ mem' = stored /\ nativeLock' = Released /\ seen' = NoValues
        /\ todo' = <<>> /\ next' = "idle" /\ journaled' = FALSE
        /\ \/ pc' = "idle" /\ call' = NoCall
           \/ pc' = "reconcile" /\ call' = call
    BY <1>7 DEF Fail, Salvage, Leave
  <2>3. /\ <<>> \in Seq(Slots) /\ nativeLock' \in {"free", "held", "left"}
        /\ NoCall \in [op : {"none", "swap", "enroll", "harvest", "adopt", "capture"},
                       target : Accounts \cup {NoAccount}]
    BY <1>2, <2>2 DEF Types, NoCall, Released
  <2>4. Types'
    BY <1>1, <1>2, <1>5, <2>1, <2>2, <2>3 DEF Types
  <2>5. Places'
    BY <2>2 DEF Places, NoCall, SwapPlaces, OtherPlaces, Moving, Looking, Refreshing, Asking
  <2>6. Good(stored)' /\ Good(mem)'
    BY <1>2, <2>2, NoCallServes DEF Good, Aligned
  <2> QED BY <2>4, <2>5, <2>6 DEF RotationInv
<1>8. mem' = [mem EXCEPT !.txn.expected[Head(todo)] = Journal.after[Head(todo)]] => mem' = q
  BY DEF Journal
<1> QED BY <1>6, <1>7, <1>8 DEF Patch

LEMMA ProgressKeeps ==
  ASSUME RotationInv, Progress
  PROVE  RotationInv'
<1>1. pc = "progress" /\ pc \in Moving /\ NoNative BY DEF Progress, Moving
<1>2. /\ Types /\ Good(mem) /\ PoolOK(mem) /\ mem.txn.kind = "swap" /\ Serves(call, mem)
      /\ (next = "body" => call.op = "swap")
  BY <1>1, MovingFacts DEF Good
<1>3. todo # <<>> /\ todo \in Seq(Slots) /\ seen \in Owned
      /\ \A i \in DOMAIN todo : seen[todo[i]] = mem.txn.before[todo[i]]
  BY <1>1 DEF RotationInv, Places, Types, Asking
<1>4. ASSUME stored' = mem, mem' = mem, Goto("patch"), todo' = Tail(todo),
             UNCHANGED <<seen, nativeLock>>, UNCHANGED spent
      PROVE  RotationInv'
  <2> DEFINE t == Tail(todo)
  <2>1. t \in Seq(Slots) /\ \A i \in DOMAIN t : i + 1 \in DOMAIN todo /\ t[i] = todo[i + 1]
    BY <1>3
  <2> HIDE DEF t
  <2>2. \A i \in DOMAIN t : seen[t[i]] = mem.txn.before[t[i]]
    BY <1>3, <2>1
  <2>3. nativeLock' \in {"free", "held", "left"} BY <1>2, <1>4 DEF Types
  <2>4. /\ todo' = t /\ stored' = mem /\ mem' = mem /\ seen' = seen /\ pc' = "patch"
        /\ UNCHANGED <<call, next, journaled, spent>>
    BY <1>4 DEF t, Goto
  <2>5. t \in Seq(Slots) /\ seen \in Owned BY <1>3, <2>1
  <2> HIDE <1>3, <1>4
  <2> QED BY <1>1, <1>2, <2>2, <2>3, <2>4, <2>5, ToPatch
<1>5. ASSUME Spend("faults"), Fail(mem) PROVE RotationInv'
  BY <1>1, <1>2, <1>5, FailKeeps
<1> QED BY <1>4, <1>5 DEF Progress, Save

\* An operation, or the recovery inside a swap, ends with a pool outside a swap.
LEMMA ReturnedKeeps ==
  ASSUME Types, NEW p, Good(p), p.txn.kind # "swap", Return, NoNative, UNCHANGED spent,
         stored' = p, mem' = p, next = "body" => call.op = "swap"
  PROVE  RotationInv'
<1>1. CASE next = "body"
  <2>1. /\ pc' = "body" /\ next' = "idle" /\ nativeLock' = Released /\ seen' = NoValues
        /\ todo' = <<>> /\ UNCHANGED <<call, journaled>> /\ native' = native /\ issued' = issued
    BY <1>1 DEF Return, NoNative
  <2>2. Types'
    <3>1. <<>> \in Seq(Slots) OBVIOUS
    <3>2. nativeLock' \in {"free", "held", "left"} BY <2>1 DEF Types, Released
    <3> QED BY <2>1, <3>1, <3>2 DEF Types, SwapPlaces
  <2>3. Places'
    BY <1>1, <2>1 DEF Places, SwapPlaces, OtherPlaces, Moving, Looking, Refreshing, Asking
  <2>4. Good(stored)' /\ Good(mem)' BY <2>1 DEF Good
  <2> QED BY <2>2, <2>3, <2>4 DEF RotationInv
<1>2. CASE next # "body"
  <2>1. Leave(p) BY <1>2 DEF Return, Ends, Leave
  <2> QED BY <2>1, ReturnKeeps
<1> QED BY <1>1, <1>2

\* A journal is closed at its end by slots that are all there.
LEMMA CommittedIsGood ==
  ASSUME Good(mem), mem.txn.kind = "swap", native = mem.txn.after
  PROVE  Good(Committed(mem)) /\ Committed(mem).txn.kind # "swap"
<1> DEFINE q == Committed(mem)
<1>1. PoolOK(mem) BY DEF Good
<1>2. /\ PoolOK(q) /\ q.active = mem.txn.target /\ q.accounts = mem.accounts
      /\ q.txn = NoTxn /\ q.active \in DOMAIN q.accounts
      /\ q.accounts[q.active].value = mem.txn.after
  BY <1>1, CommittedKeeps
<1> HIDE DEF q
<1>3. \A s \in Slots : SameUser(q.accounts[q.active].value[s].account, q.active)
  BY <1>2 DEF PoolOK
<1>4. Good(q) BY <1>2, <1>3 DEF Good, Serves, Aligned
<1> QED BY <1>2, <1>4, Transactions DEF q

LEMMA CommitKeeps ==
  ASSUME RotationInv, Commit
  PROVE  RotationInv'
<1> DEFINE q == Committed(mem)
<1>1. pc = "patch" /\ pc \in Moving /\ NoNative BY DEF Commit, Moving
<1>2. /\ Types /\ Good(stored) /\ Good(mem) /\ mem.txn.kind = "swap" /\ mem = stored
      /\ (next = "body" => call.op = "swap")
  BY <1>1, MovingFacts
<1>3. \/ /\ native = mem.txn.after /\ stored' = q /\ mem' = q /\ Return /\ UNCHANGED spent
      \/ native = mem.txn.after /\ Spend("faults") /\ Fail(q)
      \/ Fail(stored) /\ UNCHANGED spent
  BY DEF Commit, Save, InPlace, Journal
<1>4. ASSUME native = mem.txn.after PROVE Good(q) /\ q.txn.kind # "swap"
  BY <1>2, <1>4, CommittedIsGood
<1> HIDE DEF q
<1>5. ASSUME native = mem.txn.after, stored' = q, mem' = q, Return, UNCHANGED spent
      PROVE  RotationInv'
  BY <1>1, <1>2, <1>4, <1>5, ReturnedKeeps
<1>6. ASSUME native = mem.txn.after, Spend("faults"), Fail(q) PROVE RotationInv'
  BY <1>1, <1>2, <1>4, <1>6, FailKeeps
<1>7. ASSUME Fail(stored), UNCHANGED spent PROVE RotationInv'
  BY <1>1, <1>2, <1>7, FailKeeps
<1> QED BY <1>3, <1>5, <1>6, <1>7

\* What the classes of the slots say of them.
LEMMA Classified ==
  ASSUME NEW j \in Journals, native \in Owned
  PROVE  /\ Classes(native, j) = {"before"} => native = j.before
         /\ Classes(native, j) = {"after"} => native = j.after
<1>1. j.before \in Owned /\ j.after \in Owned BY DEF Journals
<1>2. \A s \in Slots : Class(native, j, s) \in Classes(native, j) BY DEF Classes
<1>3. ASSUME Classes(native, j) = {"before"} PROVE native = j.before
  <2>1. \A s \in Slots : native[s] = j.before[s] BY <1>2, <1>3 DEF Class
  <2> QED BY <1>1, <2>1 DEF Owned
<1>4. ASSUME Classes(native, j) = {"after"} PROVE native = j.after
  <2>1. \A s \in Slots : native[s] = j.after[s] BY <1>2, <1>4 DEF Class
  <2> QED BY <1>1, <2>1 DEF Owned
<1> QED BY <1>3, <1>4

\* The outcomes of a reconciliation.
LEMMA Reconciled ==
  ASSUME RotationInv, Reconcile
  PROVE  /\ pc = "reconcile" /\ NoNative /\ mem = stored
         /\ \/ stored.txn.kind # "swap" /\ Return /\ UNCHANGED <<stored, mem, spent>>
            \/ /\ stored.txn.kind = "swap"
               /\ \/ Leave(stored) /\ UNCHANGED spent
                  \/ native = stored.txn.before /\ Save([stored EXCEPT !.txn = NoTxn], Return)
                  \/ native = stored.txn.after /\ Save(Committed(stored), Return)
                  \/ seen' = native /\ Goto("relock") /\ UNCHANGED todo /\ Stay
<1>1. pc = "reconcile" /\ NoNative /\ mem = stored /\ PoolOK(stored) /\ native \in Owned
  BY DEF Reconcile, RotationInv, Places, Good, Types
<1>2. CASE stored.txn.kind # "swap"
  BY <1>1, <1>2 DEF Reconcile, Journal
<1>3. CASE stored.txn.kind = "swap"
  <2> DEFINE found == Classes(native, stored.txn)
  <2>1. stored.txn \in Journals BY <1>1, <1>3 DEF PoolOK
  <2>2. /\ found = {"before"} => native = stored.txn.before
        /\ found = {"after"} => native = stored.txn.after
    BY <1>1, <2>1, Classified
  <2>3. (CASE "unknown" \in found -> Leave(stored) /\ UNCHANGED spent
           [] found = {"before"}  -> Save([stored EXCEPT !.txn = NoTxn], Return)
           [] found = {"after"}   -> Save(Committed(stored), Return)
           [] OTHER               -> /\ seen' = native /\ Goto("relock")
                                     /\ UNCHANGED todo /\ Stay)
    BY <1>1, <1>3 DEF Reconcile, Journal
  <2> HIDE DEF found
  <2>4. \/ "unknown" \in found /\ Leave(stored) /\ UNCHANGED spent
        \/ found = {"before"} /\ Save([stored EXCEPT !.txn = NoTxn], Return)
        \/ found = {"after"} /\ Save(Committed(stored), Return)
        \/ seen' = native /\ Goto("relock") /\ UNCHANGED todo /\ Stay
    <3>1. CASE "unknown" \in found
      <4>1. found # {"before"} /\ found # {"after"} BY <3>1
      <4> QED BY <2>3, <3>1, <4>1
    <3>2. CASE found = {"before"}
      <4>1. "unknown" \notin found /\ found # {"after"} BY <3>2
      <4> QED BY <2>3, <3>2, <4>1
    <3>3. CASE found = {"after"}
      <4>1. "unknown" \notin found /\ found # {"before"} BY <3>3
      <4> QED BY <2>3, <3>3, <4>1
    <3>4. CASE "unknown" \notin found /\ found # {"before"} /\ found # {"after"}
      BY <2>3, <3>4
    <3> QED BY <3>1, <3>2, <3>3, <3>4
  <2> QED BY <1>1, <1>3, <2>2, <2>4
<1> QED BY <1>1, <1>2, <1>3

LEMMA ReconcileKeeps ==
  ASSUME RotationInv, Reconcile
  PROVE  RotationInv'
<1> DEFINE q == [stored EXCEPT !.txn = NoTxn]
           c == Committed(stored)
<1>1. /\ pc = "reconcile" /\ NoNative /\ mem = stored
      /\ \/ stored.txn.kind # "swap" /\ Return /\ UNCHANGED <<stored, mem, spent>>
         \/ /\ stored.txn.kind = "swap"
            /\ \/ Leave(stored) /\ UNCHANGED spent
               \/ /\ native = stored.txn.before
                  /\ \/ stored' = q /\ mem' = q /\ Return /\ UNCHANGED spent
                     \/ Spend("faults") /\ Fail(q)
               \/ /\ native = stored.txn.after
                  /\ \/ stored' = c /\ mem' = c /\ Return /\ UNCHANGED spent
                     \/ Spend("faults") /\ Fail(c)
               \/ seen' = native /\ Goto("relock") /\ UNCHANGED todo /\ Stay
  BY Reconciled DEF Save
<1>2. /\ Types /\ Good(stored) /\ PoolOK(stored) /\ native \in Owned
      /\ (next = "body" => call.op = "swap")
  BY DEF RotationInv, Good, Types, Places
<1>3. CASE stored.txn.kind # "swap" /\ Return /\ UNCHANGED <<stored, mem, spent>>
  BY <1>1, <1>2, <1>3, ReturnedKeeps
<1>4. CASE Leave(stored) /\ UNCHANGED spent
  BY <1>1, <1>2, <1>4, ReturnKeeps
<1>5. ASSUME stored.txn.kind = "swap", native = stored.txn.before
      PROVE  Good(q) /\ q.txn.kind # "swap"
  <2>1. PoolOK(q) /\ q.active = stored.active /\ q.txn = NoTxn /\ q.accounts = stored.accounts
    BY <1>2, TxnKeeps
  <2> HIDE DEF q
  <2>2. \A s \in Slots : SameUser(native[s].account, stored.active)
    BY <1>2, <1>5 DEF PoolOK
  <2>3. q.txn.kind # "swap" BY <2>1, Transactions
  <2> QED BY <1>2, <2>1, <2>2, <2>3 DEF Good, Serves, Aligned
<1>6. ASSUME stored.txn.kind = "swap", native = stored.txn.after
      PROVE  Good(c) /\ c.txn.kind # "swap"
  BY <1>1, <1>2, <1>6, CommittedIsGood
<1> HIDE DEF q, c
<1>7. ASSUME NEW p, Good(p), p.txn.kind # "swap",
             \/ stored' = p /\ mem' = p /\ Return /\ UNCHANGED spent
             \/ Spend("faults") /\ Fail(p)
      PROVE  RotationInv'
  <2>1. CASE stored' = p /\ mem' = p /\ Return /\ UNCHANGED spent
    BY <1>1, <1>2, <1>7, <2>1, ReturnedKeeps
  <2>2. CASE Spend("faults") /\ Fail(p)
    BY <1>1, <1>2, <1>7, <2>2, FailKeeps
  <2> QED BY <1>7, <2>1, <2>2
<1>8. CASE stored.txn.kind = "swap" /\ seen' = native /\ Goto("relock") /\ UNCHANGED todo /\ Stay
  <2>1. /\ pc' = "relock" /\ call' = call /\ next' = next /\ journaled' = journaled
        /\ seen' = native /\ todo' = todo /\ nativeLock' = nativeLock /\ native' = native
        /\ issued' = issued /\ spent' = spent /\ stored' = stored /\ mem' = mem
    BY <1>1, <1>8 DEF Goto, Stay, NoNative
  <2>2. Types' BY <1>2, <2>1 DEF Types, Moving
  <2>3. Places'
    BY <1>1, <1>2, <1>8, <2>1
       DEF Places, SwapPlaces, OtherPlaces, Moving, Looking, Refreshing, Asking
  <2>4. Good(stored)' /\ Good(mem)' BY <1>1, <1>2, <2>1 DEF Good
  <2> QED BY <2>2, <2>3, <2>4 DEF RotationInv
<1> QED BY <1>1, <1>3, <1>4, <1>5, <1>6, <1>7, <1>8

-----------------------------------------------------------------------------
(* The native clients                                                      *)

\* A client's write leaves the operation where it is.
LEMMA OutsideKeeps ==
  ASSUME RotationInv, UNCHANGED <<pc, localVars>>, UNCHANGED stored,
         native' \in Owned, issued' \in [Accounts -> [Slots -> 0..MaxVersion]],
         nativeLock' \in {"free", "held", "left"}, spent' \in [Events -> Nat],
         \/ spent'["logins"] # 0
         \/ /\ spent'["logins"] = spent["logins"]
            /\ \A s \in Slots : native'[s].account = native[s].account
  PROVE  RotationInv'
<1>1. /\ pc' = pc /\ call' = call /\ mem' = mem /\ seen' = seen /\ todo' = todo /\ next' = next
      /\ journaled' = journaled /\ stored' = stored
  BY DEF localVars
<1>2. Types' BY <1>1 DEF RotationInv, Types
<1>3. Places' BY <1>1 DEF RotationInv, Places, Target
<1>4. Good(stored)' /\ Good(mem)'
  BY <1>1 DEF RotationInv, Good, Aligned
<1> QED BY <1>2, <1>3, <1>4 DEF RotationInv

LEMMA NativeRefreshKeeps ==
  ASSUME RotationInv, NEW s \in Grants, NativeRefresh(s), UNCHANGED <<pc, localVars>>
  PROVE  RotationInv'
<1>1. /\ native \in Owned /\ issued \in [Accounts -> [Slots -> 0..MaxVersion]] /\ s \in Slots
      /\ nativeLock \in {"free", "held", "left"} /\ spent \in [Events -> Nat]
  BY DEF RotationInv, Types, Grants, Slots
<1>2. /\ Newest(native, s) /\ native[s].version < MaxVersion /\ Spend("refreshes")
      /\ native' = [native EXCEPT ![s].version = @ + 1]
      /\ issued' = [issued EXCEPT ![native[s].account][s] = @ + 1]
      /\ stored' = stored /\ nativeLock' = nativeLock
  BY DEF NativeRefresh
<1>3. native[s].account \in Accounts /\ native[s].version \in 0..MaxVersion
  BY <1>1 DEF Owned, Values
<1>4. native[s].version + 1 \in 0..MaxVersion BY <1>2, <1>3, AccountConstants
<1>5. issued' = [issued EXCEPT ![native[s].account][s] = native[s].version + 1]
  BY <1>2 DEF Newest
<1>6. issued' \in [Accounts -> [Slots -> 0..MaxVersion]]
  BY <1>1, <1>3, <1>4, <1>5
<1>7. native' \in Owned /\ \A x \in Slots : native'[x].account = native[x].account
  BY <1>1, <1>2, <1>4 DEF Owned, Values
<1>8. spent' \in [Events -> Nat] /\ spent'["logins"] = spent["logins"]
  BY <1>1, <1>2, SpentStays
<1> QED BY <1>1, <1>2, <1>6, <1>7, <1>8, OutsideKeeps

LEMMA LoginKeeps ==
  ASSUME RotationInv, NEW g \in Grants, NEW a \in Accounts, Login(g, a),
         UNCHANGED <<pc, localVars>>
  PROVE  RotationInv'
<1>1. /\ native \in Owned /\ issued \in [Accounts -> [Slots -> 0..MaxVersion]] /\ g \in Slots
      /\ nativeLock \in {"free", "held", "left"} /\ spent \in [Events -> Nat]
  BY DEF RotationInv, Types, Grants, Slots
<1>2. /\ issued[a][g] < MaxVersion /\ Spend("logins")
      /\ native' = [s \in Slots |-> CASE s = g -> [account |-> a, version |-> issued[a][g] + 1]
                                      [] s = "cj" /\ g = "cc" -> [account |-> a, version |-> 0]
                                      [] OTHER -> native[s]]
      /\ issued' = [issued EXCEPT ![a][g] = @ + 1]
      /\ stored' = stored /\ nativeLock' = nativeLock
  BY DEF Login
<1>3. issued[a][g] \in 0..MaxVersion /\ issued[a][g] + 1 \in 0..MaxVersion /\ 0 \in 0..MaxVersion
  BY <1>1, <1>2, AccountConstants
<1>4. issued' \in [Accounts -> [Slots -> 0..MaxVersion]]
  BY <1>1, <1>2, <1>3
<1>5. ASSUME NEW s \in Slots PROVE native'[s] \in Values
  <2>1. CASE s = g BY <1>2, <1>3, <2>1 DEF Values
  <2>2. CASE s # g /\ s = "cj" /\ g = "cc" BY <1>2, <1>3, <2>2 DEF Values
  <2>3. CASE s # g /\ ~(s = "cj" /\ g = "cc")
    <3>1. native'[s] = native[s] BY <1>2, <2>3
    <3> QED BY <1>1, <3>1 DEF Owned
  <2> QED BY <2>1, <2>2, <2>3
<1>6. native' \in Owned BY <1>2, <1>5 DEF Owned
<1>7. spent' \in [Events -> Nat] /\ spent'["logins"] # 0
  <2>1. "logins" \in Events BY DEF Events
  <2> QED BY <1>1, <1>2, <2>1, SpendFacts
<1> QED BY <1>1, <1>2, <1>4, <1>6, <1>7, OutsideKeeps

LEMMA ClearNativeLockKeeps ==
  ASSUME RotationInv, ClearNativeLock, UNCHANGED <<pc, localVars>>
  PROVE  RotationInv'
<1>1. /\ nativeLock' = "free" /\ native' = native /\ issued' = issued /\ stored' = stored
      /\ spent' = spent
  BY DEF ClearNativeLock
<1>2. Types BY DEF RotationInv
<1> QED BY <1>1, <1>2, OutsideKeeps DEF Types

-----------------------------------------------------------------------------
(* The invariants                                                          *)

LEMMA RotationInit == Init => RotationInv
<1> SUFFICES ASSUME Init PROVE RotationInv
  OBVIOUS
<1>1. /\ issued = [a \in Accounts |-> [s \in Slots |-> 0]] /\ nativeLock = "free"
      /\ spent = [e \in Events |-> 0] /\ pc = "idle" /\ call = NoCall /\ mem = stored
      /\ seen = NoValues /\ todo = <<>> /\ next = "idle" /\ journaled = FALSE
  BY DEF Init, StoreInit
<1>2. PICK a \in Accounts, pooled \in SUBSET Pooled :
        /\ native = Fresh(a)
        /\ \/ pooled = {} /\ stored = PoolOf({}, NoAccount)
           \/ a \in pooled /\ stored = PoolOf(pooled, a)
  BY DEF Init, StoreInit
<1>3. MaxVersion \in Nat /\ 0 \in 0..MaxVersion BY AccountConstants
<1>4. \A x \in Accounts : /\ Fresh(x) \in Owned
                          /\ \A s \in Slots : Fresh(x)[s].account = x
  BY <1>3 DEF Fresh, Owned, Values
<1>5. Types
  <2>1. call \in [op : {"none", "swap", "enroll", "harvest", "adopt", "capture"},
                  target : Accounts \cup {NoAccount}]
    BY <1>1 DEF NoCall
  <2>2. todo \in Seq(Slots) BY <1>1
  <2>3. issued \in [Accounts -> [Slots -> 0..MaxVersion]] BY <1>1, <1>3
  <2>4. native \in Owned BY <1>2, <1>4
  <2> QED BY <1>1, <2>1, <2>2, <2>3, <2>4 DEF Types
<1>6. Places
  BY <1>1 DEF Places, NoCall, SwapPlaces, OtherPlaces, Moving, Looking, Refreshing, Asking
<1>7. ASSUME NEW D \in SUBSET Pooled, NEW x, x \in D \/ x = NoAccount
      PROVE  /\ PoolOK(PoolOf(D, x)) /\ PoolOf(D, x).active = x
  <2> DEFINE b == [y \in D |-> [value |-> Fresh(y), health |-> [g \in Grants |-> "ready"]]]
  <2>1. PoolOf(D, x) = [accounts |-> b, active |-> x, generation |-> Cardinality(D),
                        txn |-> NoTxn, intent |-> NoIntent]
    BY DEF PoolOf
  <2>2. Cardinality(D) \in Nat
    <3>1. IsFiniteSet(D) BY AccountConstants, FS_Subset
    <3> QED BY <3>1, FS_CardinalityType
  <2>3. DOMAIN b = D /\ D \subseteq Accounts BY AccountConstants
  <2>4. \A y \in D : b[y] \in Snapshots /\ b[y].value = Fresh(y)
    BY <1>4, <2>3 DEF Snapshots, Healths
  <2>5. b \in [D -> Snapshots] BY <2>4
  <2> HIDE DEF b
  <2>6. \A y \in DOMAIN b, s \in Slots : SameUser(b[y].value[s].account, y)
    BY <1>4, <2>3, <2>4, OneUser
  <2>7. x \in DOMAIN b \/ x = NoAccount BY <1>7, <2>3
  <2>8. PoolOK([accounts |-> b, active |-> x, generation |-> Cardinality(D), txn |-> NoTxn,
                intent |-> NoIntent])
    BY <2>2, <2>3, <2>5, <2>6, <2>7, SoundPool
  <2> QED BY <2>1, <2>8
<1>8. PoolOK(stored) /\ (stored.active = a \/ stored.active = NoAccount)
  BY <1>2, <1>7
<1>9. Good(stored)
  BY <1>1, <1>2, <1>4, <1>8, NoCallServes, OneUser DEF Good, Aligned
<1> QED BY <1>1, <1>5, <1>6, <1>9 DEF RotationInv

LEMMA StepKeeps ==
  ASSUME RotationInv, Step
  PROVE  RotationInv'
BY SwapBodyKeeps, SwapHarvestAgainKeeps, HarvestStepKeeps, EnrollStepKeeps, AdoptStepKeeps,
   CaptureReadKeeps, CaptureStepKeeps, PrepareKeeps, RefreshStepKeeps, PostPiKeeps,
   PostClaudeKeeps, RefreshResultKeeps, VerifyTargetKeeps, RecheckKeeps, SettleKeeps,
   LockFirstKeeps, LockAgainKeeps, PatchKeeps, ProgressKeeps, CommitKeeps, ReconcileKeeps
   DEF Step

\* Every step, and a stutter, keeps the invariant.
LEMMA RotationNext == RotationInv /\ [Next]_vars => RotationInv'
<1> SUFFICES ASSUME RotationInv, [Next]_vars PROVE RotationInv'
  OBVIOUS
<1>1. CASE Beginning BY <1>1, BeginningKeeps
<1>2. ASSUME NEW a \in Accounts, RemoveAccount(a) PROVE RotationInv'
  BY <1>2, RemoveAccountKeeps
<1>3. CASE CancelEnrollment BY <1>3, CancelEnrollmentKeeps
<1>4. CASE Recover BY <1>4, RecoverKeeps
<1>5. CASE Step BY <1>5, StepKeeps
<1>6. CASE StepFails BY <1>6, StepFailsKeeps
<1>7. CASE Crash BY <1>7, CrashKeeps
<1>8. CASE External /\ UNCHANGED <<pc, localVars>>
  BY <1>8, NativeRefreshKeeps, LoginKeeps, ClearNativeLockKeeps DEF External
<1>9. CASE UNCHANGED vars
  <2>1. /\ UNCHANGED <<pc, localVars>> /\ native' = native /\ issued' = issued
        /\ stored' = stored /\ nativeLock' = nativeLock /\ spent' = spent
    BY <1>9 DEF vars, storeVars
  <2>2. Types BY DEF RotationInv
  <2> QED BY <2>1, <2>2, OutsideKeeps DEF Types
<1> QED BY <1>1, <1>2, <1>3, <1>4, <1>5, <1>6, <1>7, <1>8, <1>9 DEF Next, Beginning

\* Claude account rotation, Service as a whole: the inductive invariant holds
\* after any operations, failures, crashes and writes of the native clients.
THEOREM RotationInvariant == Spec => []RotationInv
BY RotationInit, RotationNext, PTL DEF Spec

\* The pool document decodes, in the store and in memory, at any moment.
THEOREM RotationTypes == Spec => []TypeOK
<1>1. ASSUME NEW p, PoolOK(p) PROVE IsPool(p)
  BY <1>1, PoolFacts DEF IsPool, PoolOK
<1>2. RotationInv => TypeOK
  BY <1>1 DEF RotationInv, Types, Good, TypeOK
<1> QED BY <1>2, RotationInvariant, PTL

\* While nobody logs in natively, the three slots are the active account's user's,
\* unless a journal says that they are being moved.
THEOREM SlotsFollowTheActive == Spec => []SlotsMoveTogether
<1>1. RotationInv => SlotsMoveTogether
  BY DEF RotationInv, Good, Aligned, SlotsMoveTogether
<1> QED BY <1>1, RotationInvariant, PTL

\* No harvest, capture or refresh puts another user's grant into a snapshot.
THEOREM SnapshotsStayOwn == Spec => []SnapshotsAreTheirOwn
<1>1. RotationInv => SnapshotsAreTheirOwn
  BY DEF RotationInv, Good, PoolOK, SnapshotsAreTheirOwn
<1> QED BY <1>1, RotationInvariant, PTL

\* A patch that replaces what was last seen under the lock replaces a value that
\* the snapshot of the account it is taken from keeps.
THEOREM PatchesLoseNothing == Spec => OverwrittenIsKept
<1>1. ASSUME RotationInv, NEW s \in Slots, pc = "patch", todo # <<>>, s = Head(todo),
             native[s] = seen[s]
      PROVE  native[s] = stored.accounts[stored.txn.source].value[s]
  <2>1. pc \in Moving BY <1>1 DEF Moving
  <2>2. mem = stored /\ PoolOK(stored) /\ stored.txn.kind = "swap" /\ todo \in Seq(Slots)
    BY <1>1, <2>1, MovingFacts DEF Types
  <2>3. 1 \in DOMAIN todo /\ Head(todo) = todo[1] BY <1>1, <2>2
  <2>4. seen[s] = stored.txn.before[s]
    BY <1>1, <2>2, <2>3 DEF RotationInv, Places
  <2>5. stored.txn.before = stored.accounts[stored.txn.source].value
    BY <2>2 DEF PoolOK
  <2> QED BY <1>1, <2>4, <2>5
<1>2. RotationInv =>
        [\A s \in Slots :
           pc = "patch" /\ todo # <<>> /\ s = Head(todo) /\ native'[s] # native[s]
             /\ native[s] = seen[s] =>
           native[s] = stored.accounts[stored.txn.source].value[s]]_vars
  BY <1>1
<1> QED BY <1>2, RotationInvariant, PTL DEF OverwrittenIsKept

\* Where an operation that fails leaves the pool.
LEMMA FailStores == \A p : Fail(p) \/ Leave(p) => stored' = p
BY DEF Fail, Salvage, Leave

\* Nothing but its end or its beginning, found in all slots, closes a journal.
LEMMA JournalStep ==
  ASSUME RotationInv, [Next]_vars, stored.txn.kind = "swap", stored'.txn.kind # "swap"
  PROVE  \/ native = stored.txn.after /\ stored'.active = stored.txn.target
            /\ stored'.generation = stored.txn.from + 1
         \/ native = stored.txn.before /\ stored'.active = stored.txn.source
            /\ stored'.generation = stored.txn.from
<1> DEFINE Goal == \/ native = stored.txn.after /\ stored'.active = stored.txn.target
                      /\ stored'.generation = stored.txn.from + 1
                   \/ native = stored.txn.before /\ stored'.active = stored.txn.source
                      /\ stored'.generation = stored.txn.from
<1>1. /\ PoolOK(stored) /\ PoolOK(mem)
      /\ pc \in Moving \cup {"idle", "reconcile"} /\ (pc # "progress" => mem = stored)
      /\ pc \in Moving => mem.txn.kind = "swap"
  BY DEF RotationInv, Good, Types, Places
<1>2. stored' # stored OBVIOUS
<1>3. stored.txn # NoTxn /\ stored.txn # Enrollment BY Transactions
<1>4. /\ stored.txn.source = stored.active /\ stored.txn.from = stored.generation
      /\ Committed(stored).active = stored.txn.target
      /\ Committed(stored).generation = stored.txn.from + 1
  BY <1>1, CommittedKeeps DEF PoolOK
<1>5. CASE Beginning
  BY <1>2, <1>5 DEF Beginning, BeginSwap, BeginEnrollment, HarvestActive, AdoptCurrentLogin,
                    CaptureFirstAccount, CaptureEnrolledAccount, Begin
<1>6. CASE CancelEnrollment BY <1>3, <1>6 DEF CancelEnrollment
<1>7. ASSUME NEW a \in Accounts, RemoveAccount(a) PROVE Goal
  BY <1>3, <1>7 DEF RemoveAccount
<1>8. CASE Recover
  <2>1. IntentSettled(stored).txn = stored.txn BY <1>1, SettledKeeps
  <2>2. stored' = IntentSettled(stored) BY <1>8, FailStores DEF Recover
  <2> QED BY <2>1, <2>2
<1>9. CASE StepFails BY <1>2, <1>9, FailStores DEF StepFails
<1>10. CASE Crash BY <1>2, <1>10 DEF Crash
<1>11. CASE External
  BY <1>2, <1>11 DEF External, NativeRefresh, Login, ClearNativeLock
<1>12. CASE UNCHANGED vars BY <1>2, <1>12 DEF vars, storeVars
<1>13. CASE Step
  <2>1. \/ LockFirst
        \/ pc = "relock" /\ LockAgain
        \/ Patch
        \/ pc = "progress" /\ Progress
        \/ pc = "patch" /\ Commit
        \/ Reconcile
    BY <1>1, <1>13
       DEF Moving, Step, SwapBody, SwapHarvestAgain, HarvestStep, EnrollStep, AdoptStep,
           CaptureRead, CaptureStep, Prepare, RefreshStep, PostPi, PostClaude, RefreshResult,
           VerifyTarget, Recheck, Settle, LockFirst, LockAgain, Patch, Progress, Commit
  <2>2. CASE LockFirst BY <1>2, <2>2, FailStores DEF LockFirst
  <2>3. CASE pc = "relock" /\ LockAgain
    <3> DEFINE q == [stored EXCEPT !.txn.expected = native]
    <3>1. mem = stored /\ native \in Owned BY <1>1, <2>3 DEF RotationInv, Types
    <3>2. /\ PoolOK(q) /\ q.active = stored.active /\ q.accounts = stored.accounts
          /\ q.txn.kind = "swap" /\ q.txn.before = stored.txn.before
      BY <1>1, <3>1, ExpectedKeeps
    <3>3. stored' = q \/ stored' = stored
      BY <2>3, <3>1, FailStores DEF LockAgain, Save
    <3> HIDE DEF q
    <3> QED BY <1>2, <3>2, <3>3
  <2>4. CASE Patch BY <1>2, <2>4, FailStores DEF Patch
  <2>5. CASE pc = "progress" /\ Progress
    <3>1. stored' = mem BY <2>5, FailStores DEF Progress, Save
    <3> QED BY <1>1, <2>5, <3>1 DEF Moving
  <2>6. CASE pc = "patch" /\ Commit
    <3>1. mem = stored BY <1>1, <2>6
    <3>2. \/ stored' = stored
          \/ native = mem.txn.after /\ stored' = Committed(mem)
      BY <2>6, FailStores DEF Commit, Save, InPlace, Journal
    <3> QED BY <1>2, <1>4, <3>1, <3>2
  <2>7. CASE Reconcile
    <3> DEFINE q == [stored EXCEPT !.txn = NoTxn]
    <3>1. \/ stored' = stored
          \/ native = stored.txn.before /\ stored' = q
          \/ native = stored.txn.after /\ stored' = Committed(stored)
      BY <2>7, Reconciled, FailStores DEF Save, Stay
    <3>2. q.active = stored.active /\ q.generation = stored.generation
      BY <1>1, TxnKeeps
    <3> HIDE DEF q
    <3> QED BY <1>2, <1>4, <3>1, <3>2
  <2> QED BY <2>1, <2>2, <2>3, <2>4, <2>5, <2>6, <2>7
<1> QED BY <1>5, <1>6, <1>7, <1>8, <1>9, <1>10, <1>11, <1>12, <1>13 DEF Next, Beginning

\* A journal is closed only by slots that are all at its end or all at its
\* beginning, and the account that is active afterwards is theirs.
THEOREM JournalsSettle == Spec => JournalSettles
<1>1. RotationInv /\ [Next]_vars =>
        [stored.txn.kind = "swap" /\ stored'.txn.kind # "swap" =>
           \/ native = stored.txn.after /\ stored'.active = stored.txn.target
              /\ stored'.generation = stored.txn.from + 1
           \/ native = stored.txn.before /\ stored'.active = stored.txn.source
              /\ stored'.generation = stored.txn.from]_vars
  BY JournalStep
<1> QED BY <1>1, RotationInvariant, PTL DEF Spec, JournalSettles

=============================================================================
