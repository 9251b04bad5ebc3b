------------------------ MODULE InputExchange_proofs ------------------------
(***************************************************************************)
(* The exchange keeps its promise for every number of inputs, attempts,    *)
(* connections and runs: an input reaches a terminal at most once and is   *)
(* settled only after it did; and an input that is pending in the ledger   *)
(* has exactly one goroutine to resolve it. The client has one input under *)
(* way at a time, and those that reach one terminal reach it in the order  *)
(* they were typed.                                                        *)
(***************************************************************************)
EXTENDS InputExchange, FiniteSetTheorems, SequenceTheorems, WellFoundedInduction, TLAPS

Reached(m) == Promise!Reached(m)

-----------------------------------------------------------------------------
(* The wire: what the client sent and the server has not read              *)

WireFrames == {AttachFrame} \cup ({"input"} \X (Messages \X Nat))

WireTypes ==
  /\ attempts \in [Messages -> Nat] /\ conn \in Nat /\ via \in [Attempts -> Nat]
  /\ toServer \in [Conns -> Seq(WireFrames)]
  /\ phase \in [Attempts -> Phases]

\* An attempt that was not made has not reached the server, and one that waits
\* on a connection waits there once and has not been read anywhere.
Unmade == \A r \in Attempts : r[2] > attempts[r[1]] => phase[r] = "none"

FramesOnce ==
  \A c \in Conns : \A i \in DOMAIN toServer[c] : \A r \in Attempts :
    toServer[c][i] = InputFrame(r) =>
      /\ phase[r] = "none" /\ r[2] <= attempts[r[1]] /\ via[r] = c
      /\ \A j \in DOMAIN toServer[c] : toServer[c][j] = InputFrame(r) => j = i

WireInv == WireTypes /\ Unmade /\ FramesOnce

-----------------------------------------------------------------------------
(* The ledger and the goroutines                                           *)

Owns(r) == phase[r] \in OwnerPhases /\ r \notin orphan

LedgerTypes ==
  /\ ledger \in [Messages -> {"none", "pending", "committed", "indeterminate"}]
  /\ orphan \subseteq Attempts /\ run \in 1..MaxRuns
  /\ target \in [Attempts -> Nat] /\ removed \in BOOLEAN
  /\ delivered \in Seq([msg : Messages, run : 1..MaxRuns])

\* An owner's entry is pending, and no other goroutine owns it.
Ownership ==
  \A r \in Attempts : Owns(r) =>
    /\ ledger[r[1]] = "pending"
    /\ \A s \in Attempts : Owns(s) /\ s[1] = r[1] => s = r

\* A pending entry has an owner.
Owned == \A m \in Messages : ledger[m] = "pending" => \E r \in Attempts : r[1] = m /\ Owns(r)

\* Until the session is removed its one ledger knows everything: nothing that
\* is not in it was written, and nothing that is owned and not yet written.
Remembered ==
  ~removed =>
    /\ orphan = {}
    /\ \A m \in Messages : ledger[m] = "none" => ~Reached(m)
    /\ \A r \in Attempts : phase[r] \in {"owned", "writing"} => ~Reached(r[1])

\* A write that has begun is the only one of its input, before and after that.
WritesOnce ==
  \A r \in Attempts : phase[r] = "writing" =>
    /\ ~Reached(r[1]) /\ target[r] \in 1..MaxRuns
    /\ \A s \in Attempts : phase[s] = "writing" /\ s[1] = r[1] => s = r

\* What is committed, or about to be, was written.
CommittedReached ==
  /\ \A m \in Messages : ledger[m] = "committed" => Reached(m)
  /\ \A r \in Attempts : phase[r] = "wrote" => Reached(r[1])

\* A goroutine that outlived its ledger does not reserve again.
Orphans == \A r \in orphan : phase[r] \in OwnerPhases \cup {"returned"}

LedgerInv ==
  LedgerTypes /\ Ownership /\ Owned /\ Remembered /\ WritesOnce /\ CommittedReached /\ Orphans

-----------------------------------------------------------------------------
(* The acknowledgements under way                                          *)

\* The events a client may have been sent: only an input that reached a
\* terminal is acknowledged.
TrueEvents ==
  {Attached, Forbidden, Removed, Terminal} \cup {Ack(r) : r \in {s \in Attempts : Reached(s[1])}}

AckInv == toClient \in [Conns -> Seq(TrueEvents)]

\* A client that talks does so on a connection it dialled.
Dialled == Linked => conn \in Conns

IInv == WireInv /\ LedgerInv /\ AckInv /\ Dialled

-----------------------------------------------------------------------------
(* The queue                                                               *)

\* x was accepted before y.
Before(b, x, y) == \E i, j \in DOMAIN b : i < j /\ b[i] = x /\ b[j] = y

\* A queue es whose inputs are in the states st, after the inputs b were
\* accepted and at attempts were made: an input is accepted once, stands in the
\* queue at most once and behind those accepted before it; what was not accepted
\* was not sent; and while an input waits nothing accepted after it was sent.
QueueOf(es, st, b, at) ==
  /\ es \in Seq(Messages) /\ b \in Seq(Messages)
  /\ st \in [Messages -> {"none", "pending", "halted", "settled"}] /\ at \in [Messages -> Nat]
  /\ \A i, j \in DOMAIN b : b[i] = b[j] => i = j
  /\ \A i, j \in DOMAIN es : es[i] = es[j] => i = j
  /\ \A i, j \in DOMAIN es : i < j => Before(b, es[i], es[j])
  /\ \A i \in DOMAIN es : es[i] \in Range(b)
  /\ \A m \in Messages : m \notin Range(b) => at[m] = 0
  /\ \A i \in Pending(es, st), n \in Messages : Before(b, es[i], n) => at[n] = 0

QueueInv == QueueOf(entries, entryState, born, attempts)

-----------------------------------------------------------------------------
(* The order                                                               *)

\* The attempt r is on the connection c; and is there behind the attempt s.
Waits(r, c) == \E i \in DOMAIN toServer[c] : toServer[c][i] = InputFrame(r)
Behind(r, s, c) ==
  \E i, j \in DOMAIN toServer[c] :
    i < j /\ toServer[c][i] = InputFrame(s) /\ toServer[c][j] = InputFrame(r)

Running == {"raw", "checked"} \cup OwnerPhases
Minted  == Running \cup {"returned"}

\* Until a connection is confirmed the outbox is paused, or has nothing to send.
Pausing ==
  /\ client = "backoff" => paused
  /\ client \in {"down", "attaching"} => paused \/ (entries = <<>> /\ ~typing)

\* Inputs are on connections whose attach the server has handled.
Greeted ==
  /\ link \in [Conns -> {"waiting", "attached", "closed"}]
  /\ client = "attached" => link[conn] # "waiting"
  /\ \A c \in Conns : (\E i \in DOMAIN toClient[c] : toClient[c][i] = Attached) => link[c] # "waiting"
  /\ \A c \in Conns, r \in Attempts : Waits(r, c) => link[c] # "waiting"
  /\ \A r \in Attempts : phase[r] # "none" => via[r] \in Conns /\ link[via[r]] # "waiting"

\* The call of an attempt: the read loop waits for it, and once it was minted it
\* has the lane, has been given up, or is through.
Calls ==
  /\ reading \in [Conns -> Attempts \cup {NoAttempt}]
  /\ \A r \in Attempts : phase[r] \in Running => lane = r \/ r \in cancelled
  /\ \A r \in Attempts : lane = r \/ r \in cancelled => phase[r] \in Minted
  /\ \A r \in Attempts : ~(lane = r /\ r \in cancelled)
  /\ \A r \in Attempts : phase[r] = "lane" \/ lane = r => reading[via[r]] = r

\* A write that outlived its call goes to a run whose backend is quarantined, or
\* that is over: no two writes go to one run.
Writers ==
  /\ \A r \in Attempts : phase[r] = "writing" => target[r] <= run
  /\ \A r \in Attempts : phase[r] = "writing" /\ target[r] = run /\ r \in cancelled =>
       quarantined /\ lane = NoAttempt
  /\ \A r, s \in Attempts : phase[r] = "writing" /\ phase[s] = "writing" /\ target[r] = target[s] => r = s

\* On one connection inputs are sent, and read, in the order they were typed.
Fifo ==
  /\ \A c \in Conns, r, s \in Attempts : Behind(r, s, c) => ~Before(born, r[1], s[1])
  /\ \A r, s \in Attempts :
       phase[s] # "none" /\ Waits(r, via[s]) => ~Before(born, r[1], s[1])

\* The attachment of the connection is not the live one, and never will be.
Superseded(c) == c \in Conns /\ lease # c /\ link[c] # "waiting"

\* An attempt that will not begin to write any more.
Spent(r) ==
  \/ phase[r] \in {"returned", "done", "writing", "wrote"} \/ r \in cancelled
  \/ phase[r] \in {"none", "lane"} /\ Superseded(via[r])
  \/ phase[r] = "none" /\ \A c \in Conns : ~Waits(r, c)

\* Once an attempt has its permit those of the inputs typed earlier are spent.
Overtaken ==
  \A r, s \in Attempts :
    Before(born, r[1], s[1]) /\ phase[s] \in Minted /\ r[2] <= attempts[r[1]] => Spent(r)

\* What was delivered was written by an attempt; and a write that has begun is
\* not behind what its run was given.
Deliveries ==
  /\ \A i \in DOMAIN delivered : \E s \in Attempts :
       s[1] = delivered[i].msg /\ phase[s] \in {"wrote", "returned"}
  /\ \A r \in Attempts : phase[r] = "writing" =>
       \A i \in DOMAIN delivered : delivered[i].run = target[r] => ~Before(born, r[1], delivered[i].msg)

OrderInv == Pausing /\ Greeted /\ Calls /\ Writers /\ Fifo /\ Overtaken /\ Deliveries /\ InOrder

-----------------------------------------------------------------------------
(* Shapes                                                                  *)

\* An attempt is a pair of an input and a number.
LEMMA AttemptShape ==
  ASSUME NEW r \in Attempts
  PROVE  r[1] \in Messages /\ r[2] \in Nat /\ r = <<r[1], r[2]>>
BY InputConstants DEF Attempts

\* Frames of different attempts differ, and no attach is one.
LEMMA FrameShape ==
  ASSUME NEW r, NEW s
  PROVE  /\ InputFrame(r) = InputFrame(s) => r = s
         /\ InputFrame(r) # AttachFrame
BY DEF InputFrame, AttachFrame

\* Acknowledgements of different attempts differ, and nothing else is one.
LEMMA AckShape ==
  ASSUME NEW r, NEW s
  PROVE  /\ Ack(r) = Ack(s) => r = s
         /\ Ack(r) \notin {Attached, Forbidden, Removed, Terminal}
BY DEF Ack, Attached, Forbidden, Removed, Terminal

\* A sequence over a set is one over a larger set.
LEMMA SeqGrows ==
  ASSUME NEW S, NEW T, S \subseteq T, NEW s \in Seq(S)
  PROVE  s \in Seq(T)
OBVIOUS

\* Ends of a sequence.
LEMMA SeqSteps ==
  ASSUME NEW S, NEW s \in Seq(S)
  PROVE  /\ \A e \in S : Append(s, e) \in Seq(S)
         /\ s # <<>> => Tail(s) \in Seq(S) /\ Head(s) \in S
OBVIOUS

\* What is left of a sequence when its head is taken.
LEMMA TailShape ==
  ASSUME NEW S, NEW s \in Seq(S), s # <<>>
  PROVE  /\ Len(s) \in Nat \ {0} /\ DOMAIN s = 1..Len(s)
         /\ Head(s) = s[1] /\ 1 \in 1..Len(s)
         /\ DOMAIN Tail(s) = 1..(Len(s) - 1)
         /\ \A j \in 1..(Len(s) - 1) : Tail(s)[j] = s[j + 1]
<1>1. Len(s) \in Nat /\ DOMAIN s = 1..Len(s) OBVIOUS
<1>2. Len(s) # 0 OBVIOUS
<1>3. Len(Tail(s)) = Len(s) - 1 /\ Tail(s) \in Seq(S) OBVIOUS
<1>4. DOMAIN Tail(s) = 1..(Len(s) - 1) BY <1>3
<1>5. \A j \in 1..(Len(s) - 1) : Tail(s)[j] = s[j + 1] BY <1>1
<1> QED BY <1>1, <1>2, <1>4, <1>5

-----------------------------------------------------------------------------
(* Steps of the wire                                                       *)

\* A step that sends and reads nothing.
LEMMA WireQuiet ==
  ASSUME WireInv, UNCHANGED <<attempts, via, toServer, phase>>, conn' \in Nat
  PROVE  WireInv'
BY DEF WireInv, WireTypes, Unmade, FramesOnce

\* A goroutine, or the call of an attempt that was read, goes on.
LEMMA WireMove ==
  ASSUME WireInv, NEW r \in Attempts, phase[r] # "none", NEW p \in Phases, Move(r, p),
         UNCHANGED <<attempts, via, toServer, conn>>
  PROVE  WireInv'
<1>1. WireTypes' BY DEF WireInv, WireTypes, Move
<1>2. \A s \in Attempts : phase[s] = "none" => phase'[s] = "none"
  BY DEF WireInv, WireTypes, Move
<1>3. Unmade' BY <1>2 DEF WireInv, Unmade
<1>4. FramesOnce' BY <1>2 DEF WireInv, FramesOnce
<1> QED BY <1>1, <1>3, <1>4 DEF WireInv

\* An attempt that is made is new: it waits on the connection it is written to.
LEMMA WireFire ==
  ASSUME WireInv, NEW m \in Messages, NEW left, Fire(m, left), UNCHANGED <<conn, phase>>
  PROVE  WireInv'
<1> DEFINE n == attempts[m] + 1
           r == <<m, n>>
<1>1. /\ n \in Nat /\ InputFrame(r) \in WireFrames
      /\ attempts' = [attempts EXCEPT ![m] = n]
      /\ via' = [via EXCEPT ![r] = conn]
      /\ toServer' = IF Linked THEN [toServer EXCEPT ![conn] = Append(@, InputFrame(r))] ELSE toServer
  BY DEF WireInv, WireTypes, Fire, InputFrame, WireFrames
<1> HIDE DEF n
<1>2. WireTypes'
  <2> USE DEF WireInv, WireTypes
  <2>1. attempts' \in [Messages -> Nat] /\ conn' \in Nat /\ via' \in [Attempts -> Nat] BY <1>1
  <2>2. \A q \in Seq(WireFrames) : Append(q, InputFrame(r)) \in Seq(WireFrames)
    BY <1>1, SeqSteps
  <2>3. toServer' \in [Conns -> Seq(WireFrames)] BY <1>1, <2>2
  <2> QED BY <2>1, <2>3
<1>3. ASSUME NEW x \in Messages
      PROVE  attempts[x] <= attempts'[x] /\ (x = m => attempts'[x] = n /\ attempts[x] < n)
  BY <1>1 DEF WireInv, WireTypes, n
<1>4. Unmade'
  <2> SUFFICES ASSUME NEW s \in Attempts, s[2] > attempts'[s[1]]
               PROVE  phase[s] = "none"
    BY DEF Unmade, Fire
  <2>1. s[1] \in Messages /\ s[2] \in Nat BY AttemptShape
  <2>2. s[2] > attempts[s[1]] BY <2>1, <1>3, <1>2 DEF WireInv, WireTypes
  <2> QED BY <2>2 DEF WireInv, Unmade
<1>5. ASSUME NEW s \in Attempts, s # r
      PROVE  via'[s] = via[s]
  BY <1>1, <1>5 DEF WireInv, WireTypes
<1>6. ASSUME r \in Attempts
      PROVE  phase[r] = "none" /\ r[2] <= attempts'[r[1]] /\ via'[r] = conn
  <2>1. r[1] = m /\ r[2] = n OBVIOUS
  <2>2. r[2] > attempts[r[1]] /\ attempts'[m] = n BY <2>1, <1>3, <1>1 DEF WireInv, WireTypes
  <2>3. phase[r] = "none" BY <2>2, <1>6 DEF WireInv, Unmade
  <2>4. via'[r] = conn BY <1>1, <1>6 DEF WireInv, WireTypes
  <2> QED BY <2>1, <2>2, <2>3, <2>4, <1>1
<1>7. ASSUME NEW c \in Conns, NEW i \in DOMAIN toServer[c], NEW s \in Attempts,
             toServer[c][i] = InputFrame(s)
      PROVE  s # r
  <2>1. s[2] <= attempts[s[1]] /\ s[1] \in Messages
    BY <1>7, AttemptShape
        DEF WireInv, FramesOnce
  <2>2. s[1] = m => s[2] < n BY <2>1, <1>3, <1>1, AttemptShape DEF WireInv, WireTypes
  <2> QED BY <2>2, <1>1
<1>8. FramesOnce'
  <2> SUFFICES ASSUME NEW c \in Conns, NEW i \in DOMAIN toServer'[c], NEW s \in Attempts,
                      toServer'[c][i] = InputFrame(s)
               PROVE  /\ phase[s] = "none" /\ s[2] <= attempts'[s[1]] /\ via'[s] = c
                      /\ \A j \in DOMAIN toServer'[c] : toServer'[c][j] = InputFrame(s) => j = i
    BY DEF FramesOnce
  <2>1. CASE Linked /\ c = conn
    <3> DEFINE q == toServer[c]
    <3>1. q \in Seq(WireFrames) /\ toServer'[c] = Append(q, InputFrame(r))
      BY <1>1, <2>1 DEF WireInv, WireTypes
    <3>2. /\ Len(q) \in Nat /\ DOMAIN q = 1..Len(q) /\ DOMAIN toServer'[c] = 1..(Len(q) + 1)
          /\ \A j \in DOMAIN q : toServer'[c][j] = q[j]
          /\ toServer'[c][Len(q) + 1] = InputFrame(r)
      BY <3>1
    <3> HIDE DEF q
    <3>3. CASE s = r
      <4>1. \A j \in DOMAIN q : q[j] # InputFrame(r)
        BY <1>7, <3>3 DEF q
      <4>2. \A j \in DOMAIN toServer'[c] : toServer'[c][j] = InputFrame(s) => j = Len(q) + 1
        BY <4>1, <3>2, <3>3
      <4> QED BY <4>2, <1>6, <2>1, <3>3
    <3>4. CASE s # r
      <4>1. \A j \in DOMAIN toServer'[c] : toServer'[c][j] = InputFrame(s) =>
              j \in DOMAIN q /\ q[j] = InputFrame(s)
        BY <3>2, <3>4, FrameShape
      <4>2. \A j \in DOMAIN q : q[j] = InputFrame(s) =>
              /\ phase[s] = "none" /\ s[2] <= attempts[s[1]] /\ via[s] = c
              /\ \A k \in DOMAIN q : q[k] = InputFrame(s) => k = j
        BY DEF q, WireInv, FramesOnce
      <4>3. attempts[s[1]] <= attempts'[s[1]] /\ via'[s] = via[s] /\ s[1] \in Messages /\ s[2] \in Nat
        BY <1>3, <1>5, <3>4, AttemptShape
      <4>4. s[2] <= attempts'[s[1]]
        BY <4>1, <4>2, <4>3, <1>2 DEF WireInv, WireTypes
      <4> QED BY <4>1, <4>2, <4>3, <4>4
    <3> QED BY <3>3, <3>4
  <2>2. CASE ~(Linked /\ c = conn)
    <3>1. toServer'[c] = toServer[c] BY <1>1, <2>2 DEF WireInv, WireTypes
    <3>2. s # r BY <3>1, <1>7
    <3>3. attempts[s[1]] <= attempts'[s[1]] /\ via'[s] = via[s] /\ s[1] \in Messages /\ s[2] \in Nat
      BY <1>3, <1>5, <3>2, AttemptShape
    <3>4. /\ phase[s] = "none" /\ s[2] <= attempts[s[1]] /\ via[s] = c
          /\ \A j \in DOMAIN toServer[c] : toServer[c][j] = InputFrame(s) => j = i
      BY <3>1 DEF WireInv, FramesOnce
    <3>5. s[2] <= attempts'[s[1]]
      BY <3>3, <3>4, <1>2 DEF WireInv, WireTypes
    <3> QED BY <3>1, <3>3, <3>4, <3>5
  <2> QED BY <2>1, <2>2
<1> QED BY <1>2, <1>4, <1>8 DEF WireInv

\* A read takes the first frame off a connection.
LEMMA WireRead ==
  ASSUME WireInv, NEW c \in Conns, toServer[c] # <<>>,
         toServer' = [toServer EXCEPT ![c] = Tail(@)], UNCHANGED <<attempts, via, conn>>,
         phase' \in [Attempts -> Phases],
         \A s \in Attempts : phase'[s] # phase[s] => Head(toServer[c]) = InputFrame(s)
  PROVE  WireInv'
<1>1. WireTypes'
  <2>1. toServer' \in [Conns -> Seq(WireFrames)] BY SeqSteps DEF WireInv, WireTypes
  <2> QED BY <2>1 DEF WireInv, WireTypes
<1> DEFINE q == toServer[c]
<1>2. /\ q \in Seq(WireFrames) /\ Len(q) \in Nat \ {0} /\ DOMAIN q = 1..Len(q)
      /\ DOMAIN toServer'[c] = 1..(Len(q) - 1)
      /\ \A j \in 1..(Len(q) - 1) : toServer'[c][j] = q[j + 1]
      /\ Head(q) = q[1] /\ 1 \in 1..Len(q)
  <2>1. q \in Seq(WireFrames) /\ toServer'[c] = Tail(q) BY DEF WireInv, WireTypes
  <2>2. q # <<>> OBVIOUS
  <2> HIDE DEF q
  <2> QED BY <2>1, <2>2, TailShape
<1>3. \A s \in Attempts : phase'[s] # phase[s] => phase[s] = "none" /\ s[2] <= attempts[s[1]]
  BY <1>2 DEF WireInv, FramesOnce
<1>4. Unmade'
  <2> SUFFICES ASSUME NEW s \in Attempts, s[2] > attempts[s[1]] PROVE phase'[s] = "none"
    BY DEF Unmade
  <2>1. phase[s] = "none" BY DEF WireInv, Unmade
  <2>2. ~(s[2] <= attempts[s[1]]) BY AttemptShape DEF WireInv, WireTypes
  <2> QED BY <2>1, <2>2, <1>3
<1>5. FramesOnce'
  <2> SUFFICES ASSUME NEW d \in Conns, NEW i \in DOMAIN toServer'[d], NEW s \in Attempts,
                      toServer'[d][i] = InputFrame(s)
               PROVE  /\ phase'[s] = "none" /\ s[2] <= attempts[s[1]] /\ via[s] = d
                      /\ \A j \in DOMAIN toServer'[d] : toServer'[d][j] = InputFrame(s) => j = i
    BY DEF FramesOnce
  <2>1. CASE d = c
    <3>1. i \in 1..(Len(q) - 1) /\ q[i + 1] = InputFrame(s) /\ i + 1 \in DOMAIN q /\ i + 1 # 1
      <4> HIDE DEF q
      <4> QED BY <1>2, <2>1
    <3>2. /\ phase[s] = "none" /\ s[2] <= attempts[s[1]] /\ via[s] = c
          /\ \A j \in DOMAIN q : q[j] = InputFrame(s) => j = i + 1
      BY <3>1 DEF WireInv, FramesOnce
    <3>3. phase'[s] = phase[s]
      BY <3>1, <3>2, <1>2
    <3>4. \A j \in DOMAIN toServer'[d] : toServer'[d][j] = InputFrame(s) => j = i
      <4> HIDE DEF q
      <4> SUFFICES ASSUME NEW j \in DOMAIN toServer'[c], toServer'[c][j] = InputFrame(s)
                   PROVE  j = i
        BY <2>1
      <4>1. q[j + 1] = InputFrame(s) /\ j \in 1..(Len(q) - 1) BY <1>2
      <4>2. j + 1 \in DOMAIN q /\ j \in Int /\ i \in Int BY <4>1, <1>2, <3>1
      <4>3. j + 1 = i + 1 BY <4>1, <4>2, <3>2
      <4> QED BY <4>2, <4>3
    <3> QED BY <3>2, <3>3, <3>4, <2>1
  <2>2. CASE d # c
    <3>1. toServer'[d] = toServer[d] /\ i \in DOMAIN toServer[d] /\ toServer[d][i] = InputFrame(s)
      BY <2>2 DEF WireInv, WireTypes
    <3>2. /\ phase[s] = "none" /\ s[2] <= attempts[s[1]] /\ via[s] = d
          /\ \A j \in DOMAIN toServer[d] : toServer[d][j] = InputFrame(s) => j = i
      BY <3>1 DEF WireInv, FramesOnce
    <3>3. phase'[s] = phase[s]
      <4>1. SUFFICES ASSUME Head(toServer[c]) = InputFrame(s) PROVE FALSE
        OBVIOUS
      <4>2. via[s] = c BY <4>1, <1>2 DEF WireInv, FramesOnce
      <4> QED BY <4>2, <3>2, <2>2
    <3> QED BY <3>1, <3>2, <3>3
  <2> QED BY <2>1, <2>2
<1> QED BY <1>1, <1>4, <1>5 DEF WireInv

\* A connection that is dialled holds the attach alone; one that is given up
\* holds nothing.
LEMMA WireReset ==
  ASSUME WireInv, NEW c, NEW q \in {<<>>, <<AttachFrame>>},
         toServer' = [toServer EXCEPT ![c] = q], UNCHANGED <<attempts, via, phase>>, conn' \in Nat
  PROVE  WireInv'
<1>1. q \in Seq(WireFrames) /\ \A i \in DOMAIN q : q[i] = AttachFrame
  <2>1. CASE q = <<>> BY <2>1
  <2>2. CASE q = <<AttachFrame>>
    <3>1. AttachFrame \in WireFrames BY DEF WireFrames
    <3> QED BY <2>2, <3>1
  <2> QED BY <2>1, <2>2
<1>2. WireTypes' BY <1>1 DEF WireInv, WireTypes
<1>3. Unmade' BY DEF WireInv, Unmade
<1>4. FramesOnce'
  <2> SUFFICES ASSUME NEW d \in Conns, NEW i \in DOMAIN toServer'[d], NEW s \in Attempts,
                      toServer'[d][i] = InputFrame(s)
               PROVE  /\ phase[s] = "none" /\ s[2] <= attempts[s[1]] /\ via[s] = d
                      /\ \A j \in DOMAIN toServer'[d] : toServer'[d][j] = InputFrame(s) => j = i
    BY DEF FramesOnce
  <2>1. d # c BY <1>1, FrameShape DEF WireInv, WireTypes
  <2>2. toServer'[d] = toServer[d] BY <2>1 DEF WireInv, WireTypes
  <2> QED BY <2>2 DEF WireInv, FramesOnce
<1> QED BY <1>2, <1>3, <1>4 DEF WireInv

-----------------------------------------------------------------------------
(* Steps of the ledger and of the goroutines                               *)

\* What a delivery changes.
LEMMA Delivers ==
  ASSUME LedgerTypes, NEW x \in [msg : Messages, run : 1..MaxRuns], delivered' = Append(delivered, x)
  PROVE  /\ delivered' \in Seq([msg : Messages, run : 1..MaxRuns])
         /\ \A m : Reached(m)' <=> Reached(m) \/ m = x.msg
<1> DEFINE d == delivered
<1>1. d \in Seq([msg : Messages, run : 1..MaxRuns]) BY DEF LedgerTypes
<1>2. /\ delivered' \in Seq([msg : Messages, run : 1..MaxRuns]) /\ Len(d) \in Nat
      /\ DOMAIN d = 1..Len(d) /\ DOMAIN delivered' = 1..(Len(d) + 1)
      /\ \A i \in DOMAIN d : delivered'[i] = d[i]
      /\ delivered'[Len(d) + 1] = x
  <2> HIDE DEF d
  <2>1. delivered' = Append(d, x) BY DEF d
  <2> QED BY <1>1, <2>1
<1> QED BY <1>2 DEF Reached, Promise!Reached

\* A step that leaves the ledger and every owner alone.
LEMMA LedgerQuiet ==
  ASSUME LedgerInv, UNCHANGED <<ledger, orphan, removed, target, delivered>>, run' \in 1..MaxRuns,
         \A r \in Attempts : phase'[r] # phase[r] =>
           phase[r] \in {"none", "lane", "raw", "checked"} /\ phase'[r] \notin OwnerPhases
  PROVE  LedgerInv'
<1>1. \A r \in Attempts : Owns(r)' <=> Owns(r) BY DEF Owns, OwnerPhases
<1>2. \A m : Reached(m)' <=> Reached(m) BY DEF Reached, Promise!Reached
<1>3. \A r \in Attempts : \A p \in OwnerPhases : phase'[r] = p <=> phase[r] = p
  BY DEF OwnerPhases
<1>4. LedgerTypes' BY DEF LedgerInv, LedgerTypes
<1>5. Ownership' BY <1>1 DEF LedgerInv, Ownership
<1>6. Owned' BY <1>1 DEF LedgerInv, Owned
<1>7. Remembered' BY <1>2, <1>3 DEF LedgerInv, Remembered, OwnerPhases
<1>8. WritesOnce' BY <1>2, <1>3 DEF LedgerInv, WritesOnce, OwnerPhases
<1>9. CommittedReached' BY <1>2, <1>3 DEF LedgerInv, CommittedReached, OwnerPhases
<1>10. Orphans' BY <1>4 DEF LedgerInv, LedgerTypes, Orphans, OwnerPhases
<1> QED BY <1>4, <1>5, <1>6, <1>7, <1>8, <1>9, <1>10 DEF LedgerInv

\* A goroutine that lets go of its entry: its write ended, one way or another,
\* or never began.
LEMMA LedgerRelease ==
  ASSUME WireTypes, LedgerInv, NEW r \in Attempts, phase[r] \in OwnerPhases, Move(r, "returned"),
         NEW to \in {"committed", "indeterminate"}, to = "committed" => phase[r] = "wrote",
         ledger' = Resolved(r, to), UNCHANGED <<orphan, removed, target, run>>,
         \/ UNCHANGED delivered
         \/ phase[r] = "writing" /\ delivered' = Delivery(r)
  PROVE  LedgerInv'
<1> USE AttemptShape
<1>1. \A s \in Attempts : phase'[s] = IF s = r THEN "returned" ELSE phase[s]
  BY DEF WireTypes, Move
<1>2. \A m \in Messages : ledger'[m] = IF m = r[1] /\ Owns(r) THEN to ELSE ledger[m]
  BY DEF LedgerInv, LedgerTypes, Resolved, Owns, Ownership
<1>3. \A s \in Attempts : Owns(s)' <=> Owns(s) /\ s # r
  BY <1>1 DEF Owns, OwnerPhases
<1>4. /\ delivered' \in Seq([msg : Messages, run : 1..MaxRuns])
      /\ \A m : Reached(m)' <=> Reached(m) \/ (m = r[1] /\ delivered' # delivered)
      /\ delivered' # delivered => phase[r] = "writing"
  <2>1. CASE UNCHANGED delivered
    BY <2>1 DEF Reached, Promise!Reached, LedgerInv, LedgerTypes
  <2>2. CASE phase[r] = "writing" /\ delivered' = Delivery(r) /\ delivered' # delivered
    <3>1. [msg |-> r[1], run |-> target[r]] \in [msg : Messages, run : 1..MaxRuns]
      BY <2>2 DEF LedgerInv, WritesOnce
    <3> QED BY <2>2, <3>1, Delivers DEF Delivery, LedgerInv
  <2> QED BY <2>1, <2>2
<1>5. LedgerTypes'
  BY <1>4 DEF LedgerInv, LedgerTypes, Resolved
<1>6. Ownership'
  BY <1>2, <1>3 DEF LedgerInv, Ownership
<1>7. Owned'
  BY <1>2, <1>3 DEF LedgerInv, Owned
<1>8. Remembered'
  <2> SUFFICES ASSUME ~removed PROVE Remembered'
    BY DEF Remembered
  <2>1. orphan = {} /\ Owns(r) /\ ledger[r[1]] = "pending"
    BY DEF LedgerInv, Remembered, Owns, Ownership
  <2>2. \A m \in Messages : ledger'[m] = "none" => ~Reached(m)'
    BY <1>2, <1>4, <2>1 DEF LedgerInv, Remembered
  <2>3. \A s \in Attempts : phase'[s] \in {"owned", "writing"} => ~Reached(s[1])'
    <3> SUFFICES ASSUME NEW s \in Attempts, phase'[s] \in {"owned", "writing"}
                 PROVE  ~Reached(s[1])'
      OBVIOUS
    <3>1. s # r /\ phase[s] \in {"owned", "writing"} BY <1>1
    <3>2. Owns(s) BY <3>1, <2>1 DEF Owns, OwnerPhases
    <3>3. s[1] # r[1] BY <3>1, <3>2, <2>1 DEF LedgerInv, Ownership
    <3> QED BY <3>1, <3>3, <1>4 DEF LedgerInv, Remembered
  <2> QED BY <2>1, <2>2, <2>3 DEF Remembered
<1>9. WritesOnce'
  <2> SUFFICES ASSUME NEW s \in Attempts, phase'[s] = "writing"
               PROVE  /\ ~Reached(s[1])' /\ target[s] \in 1..MaxRuns
                      /\ \A u \in Attempts : phase'[u] = "writing" /\ u[1] = s[1] => u = s
    BY DEF WritesOnce
  <2>1. s # r /\ phase[s] = "writing" BY <1>1
  <2>2. delivered' # delivered => s[1] # r[1] BY <2>1, <1>4 DEF LedgerInv, WritesOnce
  <2> QED BY <1>1, <2>1, <2>2, <1>4 DEF LedgerInv, WritesOnce
<1>10. CommittedReached'
  <2>1. \A m \in Messages : ledger'[m] = "committed" => Reached(m)'
    BY <1>2, <1>4 DEF LedgerInv, CommittedReached
  <2>2. \A s \in Attempts : phase'[s] = "wrote" => Reached(s[1])'
    BY <1>1, <1>4 DEF LedgerInv, CommittedReached
  <2> QED BY <2>1, <2>2 DEF CommittedReached
<1>11. Orphans' BY <1>1, <1>5 DEF LedgerInv, LedgerTypes, Orphans, OwnerPhases
<1> QED BY <1>5, <1>6, <1>7, <1>8, <1>9, <1>10, <1>11 DEF LedgerInv

\* A goroutine reserves an input that is not in the ledger.
LEMMA LedgerReserve ==
  ASSUME WireTypes, LedgerInv, NEW r \in Attempts, phase[r] = "checked", IsNew(r[1]),
         Move(r, "owned"), ledger' = [ledger EXCEPT ![r[1]] = "pending"],
         UNCHANGED <<orphan, removed, target, run, delivered>>
  PROVE  LedgerInv'
<1> USE AttemptShape
<1>1. \A s \in Attempts : phase'[s] = IF s = r THEN "owned" ELSE phase[s]
  BY DEF WireTypes, Move
<1>2. \A m \in Messages : ledger'[m] = IF m = r[1] THEN "pending" ELSE ledger[m]
  BY DEF LedgerInv, LedgerTypes
<1>3. \A s \in Attempts : Owns(s)' <=> Owns(s) \/ s = r
  BY <1>1 DEF Owns, OwnerPhases, LedgerInv, Orphans
<1>4. \A s \in Attempts : Owns(s) => s[1] # r[1]
  BY DEF LedgerInv, Ownership, IsNew
<1>5. \A m : Reached(m)' <=> Reached(m)
  BY DEF Reached, Promise!Reached
<1>6. LedgerTypes' BY DEF LedgerInv, LedgerTypes
<1>7. Ownership' BY <1>2, <1>3, <1>4 DEF LedgerInv, Ownership
<1>8. Owned' BY <1>2, <1>3 DEF LedgerInv, Owned
<1>9. Remembered' BY <1>1, <1>2, <1>5 DEF LedgerInv, Remembered, IsNew
<1>10. WritesOnce' BY <1>1, <1>5 DEF LedgerInv, WritesOnce
<1>11. CommittedReached' BY <1>1, <1>2, <1>5 DEF LedgerInv, CommittedReached
<1>12. Orphans' BY <1>1, <1>6 DEF LedgerInv, LedgerTypes, Orphans, OwnerPhases
<1> QED BY <1>6, <1>7, <1>8, <1>9, <1>10, <1>11, <1>12 DEF LedgerInv

\* An owner begins its write; the session has not been removed.
LEMMA LedgerBegin ==
  ASSUME WireTypes, LedgerInv, NEW r \in Attempts, phase[r] = "owned", ~removed,
         Move(r, "writing"), target' = [target EXCEPT ![r] = run],
         UNCHANGED <<ledger, orphan, removed, run, delivered>>
  PROVE  LedgerInv'
<1> USE AttemptShape
<1>1. \A s \in Attempts : phase'[s] = IF s = r THEN "writing" ELSE phase[s]
  BY DEF WireTypes, Move
<1>2. \A s \in Attempts : Owns(s)' <=> Owns(s)
  BY <1>1 DEF Owns, OwnerPhases
<1>3. \A m : Reached(m)' <=> Reached(m)
  BY DEF Reached, Promise!Reached
<1>4. orphan = {} /\ ~Reached(r[1])
  BY DEF LedgerInv, Remembered
<1>5. \A s \in Attempts : phase[s] = "writing" => s[1] # r[1]
  BY <1>4 DEF LedgerInv, Ownership, Owns, OwnerPhases
<1>6. LedgerTypes' BY DEF LedgerInv, LedgerTypes
<1>7. Ownership' BY <1>2 DEF LedgerInv, Ownership
<1>8. Owned' BY <1>2 DEF LedgerInv, Owned
<1>9. Remembered' BY <1>1, <1>3, <1>4 DEF LedgerInv, Remembered
<1>10. WritesOnce'
  <2>1. \A s \in Attempts : target'[s] = IF s = r THEN run ELSE target[s]
    BY DEF LedgerInv, LedgerTypes
  <2>2. run \in 1..MaxRuns BY DEF LedgerInv, LedgerTypes
  <2> QED BY <1>1, <1>3, <1>4, <1>5, <2>1, <2>2 DEF LedgerInv, WritesOnce
<1>11. CommittedReached' BY <1>1, <1>3 DEF LedgerInv, CommittedReached
<1>12. Orphans' BY <1>1, <1>6 DEF LedgerInv, LedgerTypes, Orphans, OwnerPhases
<1> QED BY <1>6, <1>7, <1>8, <1>9, <1>10, <1>11, <1>12 DEF LedgerInv

\* A write succeeds.
LEMMA LedgerWrite ==
  ASSUME WireTypes, LedgerInv, NEW r \in Attempts, phase[r] = "writing", Move(r, "wrote"),
         delivered' = Delivery(r), UNCHANGED <<ledger, orphan, removed, run, target>>
  PROVE  LedgerInv'
<1> USE AttemptShape
<1>1. \A s \in Attempts : phase'[s] = IF s = r THEN "wrote" ELSE phase[s]
  BY DEF WireTypes, Move
<1>2. \A s \in Attempts : Owns(s)' <=> Owns(s)
  BY <1>1 DEF Owns, OwnerPhases
<1>3. /\ delivered' \in Seq([msg : Messages, run : 1..MaxRuns])
      /\ \A m : Reached(m)' <=> Reached(m) \/ m = r[1]
  <2>1. [msg |-> r[1], run |-> target[r]] \in [msg : Messages, run : 1..MaxRuns]
    BY DEF LedgerInv, WritesOnce
  <2> QED BY <2>1, Delivers DEF Delivery, LedgerInv
<1>4. LedgerTypes' BY <1>3 DEF LedgerInv, LedgerTypes
<1>5. Ownership' BY <1>2 DEF LedgerInv, Ownership
<1>6. Owned' BY <1>2 DEF LedgerInv, Owned
<1>7. Remembered'
  <2> SUFFICES ASSUME ~removed PROVE Remembered'
    BY DEF Remembered
  <2>1. orphan = {} /\ ledger[r[1]] = "pending"
    BY DEF LedgerInv, Remembered, Ownership, Owns, OwnerPhases
  <2>2. \A s \in Attempts : phase'[s] \in {"owned", "writing"} => s[1] # r[1]
    BY <1>1, <2>1 DEF LedgerInv, Ownership, Owns, OwnerPhases
  <2> QED BY <1>1, <1>3, <2>1, <2>2 DEF LedgerInv, Remembered
<1>8. WritesOnce' BY <1>1, <1>3 DEF LedgerInv, WritesOnce
<1>9. CommittedReached' BY <1>1, <1>3 DEF LedgerInv, CommittedReached
<1>10. Orphans' BY <1>1, <1>4 DEF LedgerInv, LedgerTypes, Orphans, OwnerPhases
<1> QED BY <1>4, <1>5, <1>6, <1>7, <1>8, <1>9, <1>10 DEF LedgerInv

\* The ledger is destroyed; its owners keep it to themselves.
LEMMA LedgerRemove ==
  ASSUME LedgerInv, removed' = TRUE, ledger' = [m \in Messages |-> "none"],
         orphan' = {r \in Attempts : phase[r] \in OwnerPhases},
         UNCHANGED <<phase, run, target, delivered>>
  PROVE  LedgerInv'
<1>1. \A r \in Attempts : ~Owns(r)' BY DEF Owns
<1>2. \A m : Reached(m)' <=> Reached(m) BY DEF Reached, Promise!Reached
<1>3. LedgerTypes' BY DEF LedgerInv, LedgerTypes
<1>4. Ownership' BY <1>1 DEF Ownership
<1>5. Owned' BY DEF Owned
<1>6. Remembered' BY DEF Remembered
<1>7. WritesOnce' BY <1>2 DEF LedgerInv, WritesOnce
<1>8. CommittedReached' BY <1>2 DEF LedgerInv, CommittedReached
<1>9. Orphans' BY DEF Orphans
<1> QED BY <1>3, <1>4, <1>5, <1>6, <1>7, <1>8, <1>9 DEF LedgerInv

-----------------------------------------------------------------------------
(* Steps of the acknowledgements                                           *)

Grows == \A m : Reached(m) => Reached(m)'

\* What may have been sent stays true.
LEMMA EventsGrow ==
  ASSUME Grows
  PROVE  TrueEvents \subseteq TrueEvents' /\ \A s \in Seq(TrueEvents) : s \in Seq(TrueEvents')
<1>1. TrueEvents \subseteq TrueEvents' BY DEF Grows, TrueEvents
<1> QED BY <1>1, SeqGrows

\* A step that sends the client nothing, or takes something from it.
LEMMA AckQuiet ==
  ASSUME AckInv, Grows,
         \/ UNCHANGED toClient
         \/ \E c \in Conns : toClient' = [toClient EXCEPT ![c] = <<>>]
         \/ \E c \in Conns : toClient[c] # <<>> /\ toClient' = [toClient EXCEPT ![c] = Tail(@)]
  PROVE  AckInv'
<1>1. \A c \in Conns : toClient[c] \in Seq(TrueEvents) BY DEF AckInv
<1>2. \A c \in Conns : toClient[c] # <<>> => Tail(toClient[c]) \in Seq(TrueEvents)
  BY <1>1, SeqSteps
<1>3. toClient' \in [Conns -> Seq(TrueEvents)]
  <2>1. CASE UNCHANGED toClient BY <2>1 DEF AckInv
  <2>2. ASSUME NEW c \in Conns, toClient' = [toClient EXCEPT ![c] = <<>>]
        PROVE  toClient' \in [Conns -> Seq(TrueEvents)]
    <3>1. <<>> \in Seq(TrueEvents) OBVIOUS
    <3> QED BY <2>2, <3>1 DEF AckInv
  <2>3. ASSUME NEW c \in Conns, toClient[c] # <<>>, toClient' = [toClient EXCEPT ![c] = Tail(@)]
        PROVE  toClient' \in [Conns -> Seq(TrueEvents)]
    BY <1>2, <2>3 DEF AckInv
  <2> QED BY <2>1, <2>2, <2>3
<1> QED BY <1>3, EventsGrow DEF AckInv

\* A step that sends the client something true.
LEMMA AckNotify ==
  ASSUME AckInv, Grows, NEW c, NEW e \in TrueEvents', Notify(c, e)
  PROVE  AckInv'
<1>1. toClient \in [Conns -> Seq(TrueEvents')] BY EventsGrow DEF AckInv
<1>2. \A d \in Conns : Append(toClient[d], e) \in Seq(TrueEvents') BY <1>1, SeqSteps
<1>3. toClient' \in [Conns -> Seq(TrueEvents')] BY <1>1, <1>2 DEF Notify
<1> QED BY <1>3 DEF AckInv

\* The events that are not acknowledgements are always true.
LEMMA PlainEvents == {Attached, Forbidden, Removed, Terminal} \subseteq TrueEvents'
BY DEF TrueEvents

-----------------------------------------------------------------------------
(* Steps of the client                                                     *)

\* Every way the outbox may send keeps the wire's invariant.
LEMMA WireSends ==
  ASSUME WireInv, UNCHANGED <<conn, phase>>, NEW m,
         FireIfAny(m) \/ \E left : FireAfterStop(m, left)
  PROVE  WireInv'
<1>1. CASE m \in Messages
  <2>1. PICK left : Fire(m, left) BY <1>1 DEF FireIfAny, FireAfterStop
  <2> QED BY <1>1, <2>1, WireFire
<1>2. CASE m \notin Messages
  <2>1. UNCHANGED <<attempts, via, toServer>> BY <1>2 DEF FireIfAny, FireAfterStop, retryVars
  <2>2. conn' \in Nat BY DEF WireInv, WireTypes
  <2> QED BY <2>1, <2>2, WireQuiet
<1> QED BY <1>1, <1>2

\* What the client does to the wire, to its events and to what it confirmed.
ClientEffect ==
  /\ WireInv' /\ AckInv' /\ Dialled'
  /\ UNCHANGED confirmed \/ \E m \in Messages : Reached(m) /\ confirmed' = confirmed \cup {m}

\* Every step of the client has that effect.
LEMMA ClientKeeps ==
  ASSUME WireInv, AckInv, Dialled, ClientStep, UNCHANGED serverVars
  PROVE  ClientEffect
<1> USE DEF queueVars, flagVars, retryVars, loopVars, outboxVars, StopTimer
<1>1. UNCHANGED <<phase, delivered>> BY DEF serverVars, callVars, ledgerVars
<1>2. Grows BY <1>1 DEF Grows, Reached, Promise!Reached
<1>3. conn \in Nat BY DEF WireInv, WireTypes
<1>0. Dialled'
  <2>1. CASE Dial BY <2>1, <1>3, InputConstants DEF Dial, Dialled, Linked, Conns
  <2>2. CASE ReceiveEvent BY <2>2 DEF ReceiveEvent, Dialled, Linked
  <2>3. CASE ReadError \/ Detach BY <2>3 DEF ReadError, Detach, Disconnect, Dialled, Linked
  <2>4. CASE DisposeOnExit \/ PauseOnExit
    BY <2>4
        DEF DisposeOnExit, PauseOnExit, Dialled, Linked
  <2>5. CASE UNCHANGED <<conn, client>> BY <2>5 DEF Dialled, Linked
  <2>6. ASSUME SendInput \/ RetryDue \/ \E m \in Messages : Accept(m) \/ WindowElapses(m)
        PROVE  UNCHANGED <<conn, client>>
    BY <2>6 DEF SendInput, RetryDue, Accept, WindowElapses
  <2> QED BY <2>1, <2>2, <2>3, <2>4, <2>5, <2>6 DEF ClientStep
<1>4. CASE SendInput
  <2>1. UNCHANGED <<attempts, via, toServer, conn, toClient, confirmed>> BY <1>4 DEF SendInput
  <2> QED BY <1>0, <2>1, <1>1, <1>2, <1>3, WireQuiet, AckQuiet DEF ClientEffect
<1>5. CASE RetryDue
  <2>1. UNCHANGED <<conn, toClient, confirmed>> /\ FireAfterStop(ToRetry(paused), due - 1)
    BY <1>5 DEF RetryDue
  <2> QED BY <1>0, <2>1, <1>1, <1>2, WireSends, AckQuiet DEF ClientEffect
<1>6. CASE Dial
  <2>1. /\ UNCHANGED <<attempts, via, toClient, confirmed>> /\ conn' = conn + 1
        /\ toServer' = [toServer EXCEPT ![conn + 1] = <<AttachFrame>>]
    BY <1>6 DEF Dial
  <2>2. conn' \in Nat BY <2>1, <1>3
  <2>3. WireInv'
    <3> DEFINE q == <<AttachFrame>>
    <3>1. q \in {<<>>, <<AttachFrame>>} OBVIOUS
    <3>2. toServer' = [toServer EXCEPT ![conn + 1] = q] BY <2>1
    <3> HIDE DEF q
    <3> QED BY <2>1, <2>2, <3>1, <3>2, <1>1, WireReset
  <2> QED BY <1>0, <2>1, <2>3, <1>2, AckQuiet DEF ClientEffect
<1>7. ASSUME NEW next, Disconnect(next) PROVE ClientEffect
  <2>1. UNCHANGED <<conn, confirmed>> /\ \E left : FireAfterStop(NoMessage, left)
    BY <1>7 DEF Disconnect, Pause
  <2>2. \E c \in Conns : toClient' = [toClient EXCEPT ![c] = <<>>]
    BY <1>7 DEF Disconnect, Dialled
  <2>3. AckInv'
    <3>1. PICK c \in Conns : toClient' = [toClient EXCEPT ![c] = <<>>] BY <2>2
    <3> QED BY <3>1, <1>2, AckQuiet
  <2> QED BY <1>0, <2>1, <2>3, <1>1, WireSends DEF ClientEffect
<1>8. CASE ReadError \/ Detach
  <2>1. CASE \E next : Disconnect(next) BY <2>1, <1>7
  <2>2. CASE ~\E next : Disconnect(next)
    <3>1. UNCHANGED <<attempts, via, toServer, conn, toClient, confirmed>>
      BY <1>8, <2>2 DEF ReadError, Detach
    <3> QED BY <1>0, <3>1, <1>1, <1>2, <1>3, WireQuiet, AckQuiet DEF ClientEffect
  <2> QED BY <2>1, <2>2
<1>9. CASE DisposeOnExit \/ PauseOnExit
  <2>1. UNCHANGED <<conn, toClient, confirmed>> /\ \E left : FireAfterStop(NoMessage, left)
    BY <1>9 DEF DisposeOnExit, PauseOnExit, Dispose, Pause
  <2> QED BY <1>0, <2>1, <1>1, <1>2, WireSends, AckQuiet DEF ClientEffect
<1>10. CASE ReceiveEvent
  <2>1. /\ UNCHANGED conn /\ toClient[conn] # <<>>
        /\ toClient' = [toClient EXCEPT ![conn] = Tail(@)]
    BY <1>10 DEF ReceiveEvent
  <2>2. AckInv'
    <3>1. conn \in Conns BY <1>10 DEF ReceiveEvent, Dialled
    <3> QED BY <3>1, <2>1, <1>2, AckQuiet
  <2>3. CASE Resume \/ FreezePending \/ Dispose \/ Halt
    <3>1. UNCHANGED confirmed /\ \E m : FireIfAny(m) \/ \E left : FireAfterStop(m, left)
      BY <2>3 DEF Resume, FreezePending, Dispose, Halt
    <3> QED BY <1>0, <3>1, <2>1, <2>2, <1>1, WireSends DEF ClientEffect
  <2>4. ASSUME NEW r \in Attempts, Head(toClient[conn]) = Ack(r), OnAck(r)
        PROVE  ClientEffect
    <3>1. CASE Settles(r)
      <4>1. \E m : \E left : FireAfterStop(m, left) BY <2>4, <3>1 DEF OnAck
      <4>2. WireInv' BY <4>1, <2>1, <1>1, WireSends
      <4>3. confirmed' = confirmed \cup {r[1]} /\ r[1] \in Messages
        BY <2>4, <3>1, AttemptShape DEF OnAck
      <4>4. Reached(r[1])
        <5>1. conn \in Conns BY <1>10 DEF ReceiveEvent, Dialled
        <5>2. Ack(r) \in TrueEvents BY <5>1, <2>1, <2>4, SeqSteps DEF AckInv
        <5> QED BY <5>2, AckShape DEF TrueEvents
      <4> QED BY <1>0, <2>2, <4>2, <4>3, <4>4 DEF ClientEffect
    <3>2. CASE ~Settles(r)
      <4>1. UNCHANGED <<attempts, via, toServer, confirmed>> BY <2>4, <3>2 DEF OnAck
      <4> QED BY <1>0, <4>1, <2>1, <2>2, <1>1, <1>3, WireQuiet DEF ClientEffect
    <3> QED BY <3>1, <3>2
  <2> QED BY <1>10, <2>3, <2>4 DEF ReceiveEvent
<1>11. ASSUME NEW m \in Messages, Accept(m) PROVE ClientEffect
  <2>1. UNCHANGED <<conn, toClient, confirmed>> BY <1>11 DEF Accept
  <2>2. CASE HasRoom
    <3>1. \E h : FireIfAny(h) BY <1>11, <2>2 DEF Accept
    <3> QED BY <1>0, <3>1, <2>1, <1>1, <1>2, WireSends, AckQuiet DEF ClientEffect
  <2>3. CASE ~HasRoom
    <3>1. UNCHANGED <<attempts, via, toServer>> BY <1>11, <2>3 DEF Accept
    <3> QED BY <1>0, <3>1, <2>1, <1>1, <1>2, <1>3, WireQuiet, AckQuiet DEF ClientEffect
  <2> QED BY <2>2, <2>3
<1>12. ASSUME NEW m \in Messages, WindowElapses(m) PROVE ClientEffect
  <2>1. UNCHANGED <<attempts, via, toServer, conn, toClient, confirmed>>
    BY <1>12
        DEF WindowElapses
  <2> QED BY <1>0, <2>1, <1>1, <1>2, <1>3, WireQuiet, AckQuiet DEF ClientEffect
<1> QED BY <1>4, <1>5, <1>6, <1>8, <1>9, <1>10, <1>11, <1>12 DEF ClientStep

-----------------------------------------------------------------------------
(* Steps of the server                                                     *)

\* What the server does: it keeps the invariant and delivers at most one input,
\* which had not been delivered.
ServerEffect ==
  /\ IInv' /\ UNCHANGED confirmed
  /\ \/ UNCHANGED delivered
     \/ \E m \in Messages, k \in 1..MaxRuns :
          ~Reached(m) /\ delivered' = Append(delivered, [msg |-> m, run |-> k])

\* The goroutine of an attempt.
LEMMA RawKeeps ==
  ASSUME IInv, NEW r \in Attempts, RawStep(r)
  PROVE  ServerEffect
<1> USE AttemptShape DEF IInv
<1>1. /\ UNCHANGED <<attempts, via, toServer, conn, client, confirmed, run, removed>>
      /\ r[1] \in Messages /\ WireTypes
      /\ run \in 1..MaxRuns
  BY DEF RawStep, Checkpoint, Reserve, BeginWrite, WriteSucceeds, WriteFails, CommitInput,
       UnchangedByRaw,
         UnchangedByServer, outboxVars, queueVars, retryVars, loopVars, gateVars, WireInv, LedgerInv,
         LedgerTypes
<1>2. Dialled' BY <1>1 DEF Dialled, Linked
<1>3. ASSUME UNCHANGED delivered PROVE Grows
  BY <1>3 DEF Grows, Reached, Promise!Reached
<1>4. \A p \in {"checked", "owned", "writing", "wrote", "returned"} :
        phase[r] # "none" /\ Move(r, p) => WireInv'
  BY <1>1, WireMove DEF Phases, OwnerPhases
<1>5. \A p \in {"checked", "returned"} :
        /\ phase[r] \in {"raw", "checked"} /\ Move(r, p)
        /\ UNCHANGED <<ledger, orphan, target, delivered>>
        => LedgerInv'
  <2> SUFFICES ASSUME NEW p \in {"checked", "returned"}, phase[r] \in {"raw", "checked"}, Move(r, p),
                      UNCHANGED <<ledger, orphan, target, delivered>>
               PROVE  LedgerInv'
    OBVIOUS
  <2>1. \A s \in Attempts : phase'[s] # phase[s] => s = r /\ phase'[s] = p
    BY DEF WireInv, WireTypes, Move
  <2> QED BY <2>1, <1>1, LedgerQuiet DEF OwnerPhases
<1>6. CASE Checkpoint(r)
  <2>1. /\ phase[r] = "raw" /\ (Move(r, "checked") \/ Move(r, "returned"))
        /\ UNCHANGED <<ledger, orphan, target, delivered, toClient>>
    BY <1>6 DEF Checkpoint, ledgerVars
  <2> QED BY <2>1, <1>1, <1>2, <1>3, <1>4, <1>5, AckQuiet DEF ServerEffect
<1>7. CASE Reserve(r)
  <2>1. phase[r] = "checked" /\ UNCHANGED <<target, orphan, delivered>>
    BY <1>7 DEF Reserve
  <2>2. CASE IsNew(r[1]) /\ Cardinality(Entries) < LedgerMax
    <3>1. Move(r, "owned") /\ ledger' = [ledger EXCEPT ![r[1]] = "pending"] /\ UNCHANGED toClient
      BY <1>7, <2>2 DEF Reserve
    <3>2. LedgerInv' BY <2>1, <2>2, <3>1, <1>1, LedgerReserve
    <3> QED BY <2>1, <3>1, <3>2, <1>1, <1>2, <1>3, <1>4, AckQuiet DEF ServerEffect
  <2>3. CASE ~(IsNew(r[1]) /\ Cardinality(Entries) < LedgerMax)
    <3>1. /\ Move(r, "returned") /\ UNCHANGED ledger
          /\ IF ledger[r[1]] = "committed" THEN Notify(via[r], Ack(r)) ELSE UNCHANGED toClient
      BY <1>7, <2>3 DEF Reserve
    <3>2. AckInv'
      <4>1. CASE ledger[r[1]] = "committed"
        <5>1. Reached(r[1])' BY <4>1, <1>1, <1>3, <2>1 DEF LedgerInv, CommittedReached, Grows
        <5>2. Ack(r) \in TrueEvents' BY <5>1 DEF TrueEvents
        <5> QED BY <4>1, <5>2, <3>1, <2>1, <1>3, AckNotify
      <4>2. CASE ledger[r[1]] # "committed" BY <4>2, <3>1, <2>1, <1>3, AckQuiet
      <4> QED BY <4>1, <4>2
    <3> QED BY <2>1, <3>1, <3>2, <1>1, <1>2, <1>4, <1>5 DEF ServerEffect
  <2> QED BY <2>2, <2>3
<1>8. CASE BeginWrite(r)
  <2>1. phase[r] = "owned" /\ UNCHANGED <<orphan, delivered, toClient>> BY <1>8 DEF BeginWrite
  <2>2. CASE r \in cancelled \/ removed
    <3>1. Move(r, "returned") /\ ledger' = Resolved(r, "indeterminate") /\ UNCHANGED target
      BY <1>8, <2>2 DEF BeginWrite
    <3>2. LedgerInv' BY <2>1, <3>1, <1>1, LedgerRelease DEF OwnerPhases
    <3> QED BY <2>1, <3>1, <3>2, <1>1, <1>2, <1>3, <1>4, AckQuiet DEF ServerEffect
  <2>3. CASE ~(r \in cancelled \/ removed)
    <3>1. Move(r, "writing") /\ target' = [target EXCEPT ![r] = run] /\ UNCHANGED ledger
      BY <1>8, <2>3 DEF BeginWrite
    <3>2. LedgerInv' BY <2>1, <2>3, <3>1, <1>1, LedgerBegin
    <3> QED BY <2>1, <3>1, <3>2, <1>1, <1>2, <1>3, <1>4, AckQuiet DEF ServerEffect
  <2> QED BY <2>2, <2>3
<1>9. ASSUME phase[r] = "writing", delivered' = Delivery(r)
      PROVE  /\ Grows
             /\ \E m \in Messages, k \in 1..MaxRuns :
                  ~Reached(m) /\ delivered' = Append(delivered, [msg |-> m, run |-> k])
  <2>1. ~Reached(r[1]) /\ target[r] \in 1..MaxRuns BY <1>9 DEF LedgerInv, WritesOnce
  <2>2. Grows BY <2>1, <1>1, <1>9, Delivers DEF Delivery, LedgerInv, Grows
  <2> QED BY <2>1, <2>2, <1>1, <1>9 DEF Delivery
<1>10. CASE WriteSucceeds(r)
  <2>1. /\ phase[r] = "writing" /\ Move(r, "wrote") /\ delivered' = Delivery(r)
        /\ UNCHANGED <<target, ledger, orphan, toClient>>
    BY <1>10 DEF WriteSucceeds
  <2>2. LedgerInv' BY <2>1, <1>1, LedgerWrite
  <2> QED BY <2>1, <2>2, <1>1, <1>2, <1>4, <1>9, AckQuiet DEF ServerEffect
<1>11. CASE WriteFails(r)
  <2>1. /\ phase[r] = "writing" /\ Move(r, "returned") /\ delivered' \in {delivered, Delivery(r)}
        /\ ledger' = Resolved(r, "indeterminate") /\ UNCHANGED <<target, orphan, toClient>>
    BY <1>11 DEF WriteFails
  <2>2. LedgerInv' BY <2>1, <1>1, LedgerRelease DEF OwnerPhases
  <2>3. Grows BY <2>1, <1>3, <1>9
  <2> QED BY <2>1, <2>2, <2>3, <1>1, <1>2, <1>4, <1>9, AckQuiet DEF ServerEffect
<1>12. CASE CommitInput(r)
  <2>1. /\ phase[r] = "wrote" /\ Move(r, "returned") /\ ledger' = Resolved(r, "committed")
        /\ Notify(via[r], Ack(r)) /\ UNCHANGED <<target, orphan, delivered>>
    BY <1>12 DEF CommitInput
  <2>2. LedgerInv' BY <2>1, <1>1, LedgerRelease DEF OwnerPhases
  <2>3. Reached(r[1])' BY <2>1, <1>3 DEF LedgerInv, CommittedReached, Grows
  <2>4. Ack(r) \in TrueEvents' BY <2>3 DEF TrueEvents
  <2>5. AckInv' BY <2>1, <2>4, <1>3, AckNotify
  <2> QED BY <2>1, <2>2, <2>5, <1>1, <1>2, <1>4 DEF ServerEffect
<1> QED BY <1>6, <1>7, <1>8, <1>10, <1>11, <1>12 DEF RawStep

\* A step that tells the client at most something plain.
LEMMA PlainAck ==
  ASSUME AckInv, UNCHANGED delivered,
         UNCHANGED toClient \/ \E c : \E e \in {Attached, Forbidden, Removed, Terminal} : Notify(c, e)
  PROVE  AckInv'
<1>1. Grows BY DEF Grows, Reached, Promise!Reached
<1>2. CASE UNCHANGED toClient BY <1>1, <1>2, AckQuiet
<1>3. CASE \E c : \E e \in {Attached, Forbidden, Removed, Terminal} : Notify(c, e)
  <2>1. PICK c : \E e \in {Attached, Forbidden, Removed, Terminal} : Notify(c, e) BY <1>3
  <2>2. PICK e \in {Attached, Forbidden, Removed, Terminal} : Notify(c, e) BY <2>1
  <2>3. e \in TrueEvents' BY PlainEvents
  <2> QED BY <2>2, <2>3, <1>1, AckNotify
<1> QED BY <1>2, <1>3

\* The call of an attempt.
LEMMA GateKeeps ==
  ASSUME IInv, NEW r \in Attempts, GateStep(r)
  PROVE  ServerEffect
<1> USE DEF IInv
<1>1. /\ UNCHANGED <<attempts, via, toServer, conn, client, confirmed, ledger, orphan, removed, target,
                     delivered, run>>
      /\ UNCHANGED phase \/ (phase[r] = "lane" /\ (Move(r, "raw") \/ Move(r, "done")))
      /\ UNCHANGED toClient \/ Notify(via[r], Forbidden)
  BY DEF GateStep, MintPermit, LaneTimeout, RawTimeout, FinishInput, UnchangedByServer,
       outboxVars,
         queueVars, retryVars, loopVars, ledgerVars
<1>2. WireInv'
  <2>1. CASE UNCHANGED phase
    <3>1. conn' \in Nat BY <1>1 DEF WireInv, WireTypes
    <3> QED BY <1>1, <2>1, <3>1, WireQuiet
  <2>2. CASE phase[r] = "lane" /\ (Move(r, "raw") \/ Move(r, "done"))
    BY <1>1, <2>2, WireMove DEF Phases
  <2> QED BY <1>1, <2>1, <2>2
<1>3. LedgerInv'
  <2>1. \A s \in Attempts : phase'[s] # phase[s] =>
          phase[s] \in {"none", "lane", "raw", "checked"} /\ phase'[s] \notin OwnerPhases
    BY <1>1 DEF WireInv, WireTypes, Move, OwnerPhases
  <2>2. run' \in 1..MaxRuns BY <1>1 DEF LedgerInv, LedgerTypes
  <2> QED BY <1>1, <2>1, <2>2, LedgerQuiet
<1>4. AckInv' BY <1>1, PlainAck
<1>5. Dialled' BY <1>1 DEF Dialled, Linked
<1> QED BY <1>1, <1>2, <1>3, <1>4, <1>5 DEF ServerEffect

\* The read loop of a connection.
LEMMA ReadKeeps ==
  ASSUME IInv, NEW c \in Conns, ReadStep(c)
  PROVE  ServerEffect
<1> USE DEF IInv
<1>1. /\ UNCHANGED <<attempts, via, conn, client, confirmed, ledger, orphan, removed, target, delivered, run>>
      /\ UNCHANGED toClient \/ \E e \in {Attached, Forbidden, Removed, Terminal} : Notify(c, e)
  <2> USE DEF loopVars, gateVars, callVars, ledgerVars, queueVars
  <2>1. CASE HandleAttach(c) BY <2>1 DEF HandleAttach
  <2>2. CASE \E r \in Attempts : HandleInput(c, r) BY <2>2 DEF HandleInput
  <2>3. CASE \E final \in BOOLEAN : ServerDrop(c, final) BY <2>3 DEF ServerDrop
  <2> QED BY <2>1, <2>2, <2>3 DEF ReadStep
<1>2. AckInv' BY <1>1, PlainAck
<1>3. Dialled' BY <1>1 DEF Dialled, Linked
<1>4. conn' \in Nat /\ run' \in 1..MaxRuns
  BY <1>1 DEF WireInv, WireTypes, LedgerInv, LedgerTypes
<1>5. CASE UNCHANGED phase /\ WireInv'
  <2>1. LedgerInv' BY <1>1, <1>4, <1>5, LedgerQuiet
  <2> QED BY <1>1, <1>2, <1>3, <1>5, <2>1 DEF ServerEffect
<1>6. CASE HandleAttach(c)
  <2>1. /\ toServer[c] # <<>> /\ toServer' = [toServer EXCEPT ![c] = Tail(@)] /\ UNCHANGED phase
    BY <1>6 DEF HandleAttach, callVars
  <2>2. phase' \in [Attempts -> Phases] BY <2>1 DEF WireInv, WireTypes
  <2>3. WireInv' BY <1>1, <2>1, <2>2, WireRead
  <2> QED BY <2>1, <2>3, <1>5
<1>7. ASSUME NEW r \in Attempts, HandleInput(c, r)
      PROVE  ServerEffect
  <2>1. /\ toServer[c] # <<>> /\ Head(toServer[c]) = InputFrame(r) /\ Move(r, "lane")
        /\ toServer' = [toServer EXCEPT ![c] = Tail(@)]
    BY <1>7 DEF HandleInput
  <2>2. /\ phase' \in [Attempts -> Phases]
        /\ \A s \in Attempts : phase'[s] # phase[s] => s = r /\ phase'[s] = "lane"
    BY <2>1 DEF WireInv, WireTypes, Move, Phases
  <2>3. WireInv' BY <1>1, <2>1, <2>2, WireRead
  <2>4. phase[r] = "none"
    <3>1. toServer[c] \in Seq(WireFrames) BY DEF WireInv, WireTypes
    <3>2. toServer[c][1] = InputFrame(r) /\ 1 \in DOMAIN toServer[c] BY <2>1, <3>1, TailShape
    <3> QED BY <3>2 DEF WireInv, FramesOnce
  <2>5. LedgerInv' BY <1>1, <1>4, <2>2, <2>4, LedgerQuiet DEF OwnerPhases
  <2> QED BY <1>1, <1>2, <1>3, <2>3, <2>5 DEF ServerEffect
<1>8. ASSUME NEW final \in BOOLEAN, ServerDrop(c, final)
      PROVE  ServerEffect
  <2>1. toServer' = [toServer EXCEPT ![c] = <<>>] /\ UNCHANGED phase
    BY <1>8 DEF ServerDrop, callVars
  <2>2. WireInv'
    <3> DEFINE q == <<>>
    <3>1. q \in {<<>>, <<AttachFrame>>} /\ toServer' = [toServer EXCEPT ![c] = q] BY <2>1
    <3> HIDE DEF q
    <3> QED BY <1>1, <1>4, <2>1, <3>1, WireReset
  <2> QED BY <2>1, <2>2, <1>5
<1> QED BY <1>6, <1>7, <1>8 DEF ReadStep

\* The rest of the system.
LEMMA SessionKeeps ==
  ASSUME IInv, SessionStep
  PROVE  ServerEffect
<1> USE DEF IInv
<1>1. /\ UNCHANGED <<attempts, via, toServer, conn, client, confirmed, phase, target, delivered>>
      /\ UNCHANGED toClient \/ \E c : Notify(c, Removed)
  BY DEF SessionStep, LoseControl, GainControl, RestartSession, RemoveSession,
       UnchangedByServer, outboxVars,
         queueVars, retryVars, loopVars, callVars, ledgerVars
<1>2. AckInv' BY <1>1, PlainAck
<1>3. Dialled' BY <1>1 DEF Dialled, Linked
<1>4. WireInv'
  <2>1. conn' \in Nat BY <1>1 DEF WireInv, WireTypes
  <2> QED BY <1>1, <2>1, WireQuiet
<1>5. LedgerInv'
  <2>1. CASE RemoveSession
    BY <1>1, <2>1, LedgerRemove DEF RemoveSession
  <2>2. CASE LoseControl \/ GainControl \/ RestartSession
    <3>1. UNCHANGED <<ledger, orphan, removed>>
      BY <2>2 DEF LoseControl, GainControl, RestartSession, ledgerVars
    <3>2. run' \in 1..MaxRuns
      <4>1. run \in 1..MaxRuns /\ MaxRuns \in Nat BY LedgerConstants DEF LedgerInv, LedgerTypes
      <4> QED BY <4>1, <2>2 DEF LoseControl, GainControl, RestartSession
    <3> QED BY <1>1, <3>1, <3>2, LedgerQuiet
  <2> QED BY <2>1, <2>2 DEF SessionStep
<1> QED BY <1>1, <1>2, <1>3, <1>4, <1>5 DEF ServerEffect

-----------------------------------------------------------------------------
(* Steps of the queue                                                      *)

\* A set of natural numbers that is not empty has a least one.
LEMMA LeastOf ==
  ASSUME NEW S \in SUBSET Nat, S # {}
  PROVE  Min(S) \in S /\ \A x \in S : Min(S) <= x
<1> DEFINE R == {p \in Nat \X Nat : p[1] < p[2]}
<1>1. IsWellFoundedOn(R, Nat) BY NatLessThanWellFounded DEF OpToRel
<1> HIDE DEF R
<1>2. \E x \in S : \A y \in S : ~(<<y, x>> \in R) 
  <2>1. S \subseteq Nat OBVIOUS
  <2> QED BY <1>1, <2>1, WFMin, Zenon
<1>3. PICK x \in S : \A y \in S : ~(<<y, x>> \in R) BY <1>2
<1>4. \A y \in S : x <= y
  <2> SUFFICES ASSUME NEW y \in S PROVE x <= y
    OBVIOUS
  <2>1. ~(<<y, x>> \in R) BY <1>3
  <2>2. <<y, x>> \in Nat \X Nat /\ <<y, x>>[1] = y /\ <<y, x>>[2] = x OBVIOUS
  <2>3. ~(y < x) BY <2>1, <2>2 DEF R
  <2> QED BY <2>3
<1> QED BY <1>4 DEF Min

\* The head is the first input that waits.
LEMMA HeadFirst ==
  ASSUME NEW es \in Seq(Messages), NEW st, Pending(es, st) # {}
  PROVE  \E i \in Pending(es, st) : HeadOf(es, st) = es[i] /\ \A j \in Pending(es, st) : i <= j
<1>1. Pending(es, st) \in SUBSET Nat BY DEF Pending
<1> QED BY <1>1, LeastOf DEF HeadOf

\* What was accepted once was not accepted before itself.
LEMMA BeforeOnce ==
  ASSUME NEW b \in Seq(Messages), \A i, j \in DOMAIN b : b[i] = b[j] => i = j, NEW x, NEW y,
         Before(b, x, y)
  PROVE  ~Before(b, y, x) /\ x # y
<1>1. PICK i \in DOMAIN b, j \in DOMAIN b : i < j /\ b[i] = x /\ b[j] = y BY DEF Before
<1>2. i \in Int /\ j \in Int OBVIOUS
<1>3. ASSUME Before(b, y, x) PROVE FALSE
  <2>1. PICK k \in DOMAIN b, l \in DOMAIN b : k < l /\ b[k] = y /\ b[l] = x BY <1>3 DEF Before
  <2>2. k = j /\ l = i BY <1>1, <2>1
  <2> QED BY <1>1, <1>2, <2>1, <2>2
<1> QED BY <1>1, <1>2, <1>3

\* What is accepted now comes after all the others.
LEMMA BeforeLast ==
  ASSUME NEW b \in Seq(Messages), NEW m \in Messages
  PROVE  \A x, y : Before(Append(b, m), x, y) <=> Before(b, x, y) \/ (x \in Range(b) /\ y = m)
<1> DEFINE c == Append(b, m)
<1>1. /\ Len(b) \in Nat /\ DOMAIN b = 1..Len(b) /\ DOMAIN c = 1..(Len(b) + 1)
      /\ \A i \in DOMAIN b : c[i] = b[i]
      /\ c[Len(b) + 1] = m
  OBVIOUS
<1> HIDE DEF c
<1>2. ASSUME NEW x, NEW y, Before(c, x, y) PROVE Before(b, x, y) \/ (x \in Range(b) /\ y = m)
  <2>1. PICK i \in DOMAIN c, j \in DOMAIN c : i < j /\ c[i] = x /\ c[j] = y BY <1>2 DEF Before
  <2>2. i \in DOMAIN b /\ b[i] = x BY <1>1, <2>1
  <2>3. CASE j \in DOMAIN b BY <1>1, <2>1, <2>2, <2>3 DEF Before
  <2>4. CASE j = Len(b) + 1 BY <1>1, <2>1, <2>2, <2>4 DEF Range
  <2> QED BY <1>1, <2>3, <2>4
<1>3. ASSUME NEW x, NEW y, Before(b, x, y) PROVE Before(c, x, y)
  <2>1. PICK i \in DOMAIN b, j \in DOMAIN b : i < j /\ b[i] = x /\ b[j] = y BY <1>3 DEF Before
  <2>2. i \in DOMAIN c /\ j \in DOMAIN c BY <1>1
  <2> QED BY <1>1, <2>1, <2>2 DEF Before
<1>4. ASSUME NEW x \in Range(b) PROVE Before(c, x, m)
  <2>1. PICK i \in DOMAIN b : b[i] = x BY <1>4 DEF Range
  <2>2. i \in DOMAIN c /\ Len(b) + 1 \in DOMAIN c /\ i < Len(b) + 1 BY <1>1
  <2> QED BY <1>1, <2>1, <2>2 DEF Before
<1> QED BY <1>2, <1>3, <1>4 DEF c

\* What is sent is the head.
LEMMA QueueFires ==
  ASSUME NEW es, NEW st, NEW b, QueueOf(es, st, b, attempts), NEW m,
         m \in Messages => m = HeadOf(es, st),
         \/ UNCHANGED attempts
         \/ m \in Messages /\ attempts' = [attempts EXCEPT ![m] = attempts[m] + 1]
  PROVE  QueueOf(es, st, b, attempts')
<1>1. CASE UNCHANGED attempts BY <1>1
<1>2. CASE m \in Messages /\ attempts' = [attempts EXCEPT ![m] = attempts[m] + 1]
  <2>0. /\ es \in Seq(Messages) /\ \A i, j \in DOMAIN es : es[i] = es[j] => i = j
        /\ \A i \in DOMAIN es : es[i] \in Range(b)
        /\ attempts \in [Messages -> Nat]
    BY DEF QueueOf
  <2>1. Pending(es, st) # {} BY <1>2, InputConstants DEF HeadOf
  <2>2. PICK i \in Pending(es, st) : m = es[i] /\ \A j \in Pending(es, st) : i <= j
    BY <1>2, <2>0, <2>1, HeadFirst
  <2>3. i \in DOMAIN es /\ m \in Range(b) BY <2>0, <2>2 DEF Pending
  <2>4. attempts' \in [Messages -> Nat] /\ \A x \in Messages : x # m => attempts'[x] = attempts[x]
    BY <1>2, <2>0
  <2>5. \A x \in Messages : x \notin Range(b) => attempts'[x] = 0
    BY <2>3, <2>4 DEF QueueOf
  <2>6. ASSUME NEW j \in Pending(es, st), NEW n \in Messages, Before(b, es[j], n)
        PROVE  attempts'[n] = 0
    <3>1. j \in DOMAIN es /\ i \in Int /\ j \in Int BY <2>0, <2>3 DEF Pending
    <3>2. ~Before(b, n, es[j]) /\ es[j] # n BY <2>6, BeforeOnce DEF QueueOf
    <3>3. ASSUME n = m PROVE FALSE
      <4>1. i < j BY <2>2, <3>1, <3>2, <3>3
      <4> QED BY <2>2, <2>3, <3>1, <3>2, <3>3, <4>1 DEF QueueOf
    <3>4. attempts[n] = 0 BY <2>6 DEF QueueOf
    <3> QED BY <2>4, <3>3, <3>4
  <2> QED BY <2>0, <2>4, <2>5, <2>6 DEF QueueOf
<1> QED BY <1>1, <1>2

\* An input that is accepted is new, and goes last.
LEMMA QueueAccepts ==
  ASSUME NEW es, NEW st, NEW b, NEW at, QueueOf(es, st, b, at), NEW m \in Messages, m \notin Range(b)
  PROVE  QueueOf(Append(es, m), [st EXCEPT ![m] = "pending"], Append(b, m), at)
<1> DEFINE e == Append(es, m)
           s == [st EXCEPT ![m] = "pending"]
           c == Append(b, m)
<1>0. es \in Seq(Messages) /\ b \in Seq(Messages) /\ at \in [Messages -> Nat] BY DEF QueueOf
<1>1. /\ Len(es) \in Nat /\ DOMAIN es = 1..Len(es) /\ DOMAIN e = 1..(Len(es) + 1) /\ e \in Seq(Messages)
      /\ \A i \in DOMAIN es : e[i] = es[i] /\ e[i] \in Messages
      /\ e[Len(es) + 1] = m
  BY <1>0
<1>2. c \in Seq(Messages) /\ \A x : x \in Range(c) <=> x \in Range(b) \/ x = m
  <2>1. /\ Len(b) \in Nat /\ DOMAIN b = 1..Len(b) /\ DOMAIN c = 1..(Len(b) + 1) /\ c \in Seq(Messages)
        /\ \A i \in DOMAIN b : c[i] = b[i]
        /\ c[Len(b) + 1] = m
    BY <1>0
  <2> HIDE DEF c
  <2> QED BY <2>1 DEF Range
<1>3. /\ s \in [Messages -> {"none", "pending", "halted", "settled"}]
      /\ \A x \in Messages : x # m => s[x] = st[x]
  BY DEF QueueOf
<1> HIDE DEF e, s, c
<1>4. \A i \in DOMAIN es : es[i] # m BY DEF QueueOf
<1>9. \A x, y : Before(c, x, y) <=> Before(b, x, y) \/ (x \in Range(b) /\ y = m)
  BY <1>0, BeforeLast DEF c
<1>10. \A i, j \in DOMAIN c : c[i] = c[j] => i = j
  <2>1. /\ Len(b) \in Nat /\ DOMAIN b = 1..Len(b) /\ DOMAIN c = 1..(Len(b) + 1)
        /\ \A i \in DOMAIN b : c[i] = b[i] /\ b[i] # m
        /\ c[Len(b) + 1] = m
    BY <1>0 DEF c, Range
  <2>2. \A i \in DOMAIN c : i \in DOMAIN b \/ i = Len(b) + 1 BY <2>1
  <2>3. \A i, j \in DOMAIN b : b[i] = b[j] => i = j BY DEF QueueOf
  <2> QED BY <2>1, <2>2, <2>3
<1>11. ASSUME NEW i \in DOMAIN e, NEW j \in DOMAIN e, i < j
       PROVE  Before(c, e[i], e[j])
  <2>1. i \in DOMAIN es BY <1>1, <1>11
  <2>2. CASE j \in DOMAIN es BY <2>1, <2>2, <1>1, <1>9, <1>11 DEF QueueOf
  <2>3. CASE j = Len(es) + 1 BY <2>1, <2>3, <1>1, <1>9 DEF QueueOf
  <2> QED BY <2>2, <2>3, <1>1
<1>5. ASSUME NEW i \in DOMAIN e, NEW j \in DOMAIN e, e[i] = e[j]
      PROVE  i = j
  <2>1. \A k \in DOMAIN e : k \in DOMAIN es \/ k = Len(es) + 1 BY <1>1
  <2>2. CASE i \in DOMAIN es /\ j \in DOMAIN es BY <2>2, <1>1, <1>5 DEF QueueOf
  <2>3. CASE i \in DOMAIN es /\ j = Len(es) + 1 BY <2>3, <1>1, <1>4, <1>5
  <2>4. CASE j \in DOMAIN es /\ i = Len(es) + 1 BY <2>4, <1>1, <1>4, <1>5
  <2> QED BY <2>1, <2>2, <2>3, <2>4
<1>6. ASSUME NEW i \in DOMAIN e
      PROVE  e[i] \in Range(c)
  <2>1. CASE i \in DOMAIN es BY <2>1, <1>1, <1>2 DEF QueueOf
  <2>2. CASE i = Len(es) + 1 BY <2>2, <1>1, <1>2
  <2> QED BY <2>1, <2>2, <1>1
<1>7. \A x \in Messages : x \notin Range(c) => at[x] = 0 BY <1>2 DEF QueueOf
<1>8. ASSUME NEW i \in Pending(e, s), NEW n \in Messages, Before(c, e[i], n)
      PROVE  at[n] = 0
  <2>1. i \in DOMAIN e /\ s[e[i]] = "pending" BY DEF Pending
  <2>2. CASE i = Len(es) + 1
    <3>1. ~Before(b, m, n) BY DEF Before, Range
    <3> QED BY <2>2, <3>1, <1>1, <1>8, <1>9
  <2>3. CASE i \in DOMAIN es
    <3>1. i \in Pending(es, st) /\ e[i] = es[i] BY <2>1, <2>3, <1>1, <1>3, <1>4 DEF Pending
    <3> QED BY <3>1, <1>8, <1>9 DEF QueueOf
  <2> QED BY <2>1, <2>2, <2>3, <1>1
<1> QED BY <1>0, <1>1, <1>2, <1>3, <1>5, <1>6, <1>7, <1>8, <1>10, <1>11 DEF QueueOf, e, s, c

\* The queue without one of its inputs.
LEMMA QueueReleases ==
  ASSUME NEW es, NEW st, NEW b, NEW at, QueueOf(es, st, b, at), NEW m \in Range(es)
  PROVE  QueueOf(Released(es, m), [st EXCEPT ![m] = "settled"], b, at)
<1> DEFINE k == CHOOSE i \in DOMAIN es : es[i] = m
           e == Released(es, m)
           s == [st EXCEPT ![m] = "settled"]
           At(i) == IF i < k THEN i ELSE i + 1
<1>0. es \in Seq(Messages) /\ b \in Seq(Messages) /\ at \in [Messages -> Nat]
  BY DEF QueueOf
<1>1. k \in DOMAIN es /\ es[k] = m /\ m \in Messages BY <1>0 DEF Range
<1>2. Len(es) \in Nat /\ DOMAIN es = 1..Len(es) /\ k \in 1..Len(es) BY <1>0, <1>1
<1>3. e = SubSeq(es, 1, k - 1) \o SubSeq(es, k + 1, Len(es)) BY DEF Released, RemoveAt
<1> HIDE DEF k
<1>4. /\ e \in Seq(Messages) /\ DOMAIN e = 1..(Len(es) - 1)
      /\ \A i \in 1..(Len(es) - 1) : e[i] = es[At(i)]
  <2> DEFINE x == SubSeq(es, 1, k - 1)
             y == SubSeq(es, k + 1, Len(es))
  <2>0. \A i \in 1..Len(es) : es[i] \in Messages BY <1>0
  <2>1. x \in Seq(Messages) /\ Len(x) = k - 1 /\ \A i \in 1..(k - 1) : x[i] = es[i]
    BY <2>0, <1>2, SubSeqProperties
  <2>2. y \in Seq(Messages) /\ Len(y) = Len(es) - k /\ \A i \in 1..(Len(es) - k) : y[i] = es[k + i]
    <3> DEFINE lo == k + 1
               hi == Len(es)
    <3>1. lo \in Int /\ hi \in Int /\ \A i \in lo..hi : es[i] \in Messages BY <2>0, <1>2
    <3>2. y = SubSeq(es, lo, hi) /\ lo = k + 1 /\ hi = Len(es) OBVIOUS
    <3> HIDE DEF lo, hi, y
    <3>3. /\ SubSeq(es, lo, hi) \in Seq(Messages)
          /\ Len(SubSeq(es, lo, hi)) = IF lo <= hi THEN hi - lo + 1 ELSE 0
          /\ \A i \in 1..(hi - lo + 1) : SubSeq(es, lo, hi)[i] = es[lo + i - 1]
      BY <3>1, SubSeqProperties
    <3> QED BY <3>2, <3>3, <1>2
  <2>3. e = x \o y BY <1>3
  <2> HIDE DEF x, y, e
  <2>4. /\ e \in Seq(Messages) /\ Len(e) = Len(x) + Len(y)
        /\ \A i \in 1..Len(x) : e[i] = x[i]
        /\ \A i \in 1..Len(y) : e[Len(x) + i] = y[i]
    <3>1. x \in Seq(Messages) /\ y \in Seq(Messages) BY <2>1, <2>2
    <3>2. Len(x) \in Nat /\ Len(y) \in Nat BY <3>1
    <3> QED BY <2>3, <3>1, <3>2, ConcatProperties
  <2>5. DOMAIN e = 1..(Len(es) - 1) BY <2>1, <2>2, <2>4, <1>2
  <2>6. ASSUME NEW i \in 1..(Len(es) - 1), i < k PROVE e[i] = es[i]
    BY <2>1, <2>4, <2>6, <1>2
  <2>7. ASSUME NEW i \in 1..(Len(es) - 1), ~(i < k) PROVE e[i] = es[i + 1]
    <3> DEFINE d == i - (k - 1)
    <3>1. d \in 1..(Len(es) - k) /\ i = (k - 1) + d /\ k + d = i + 1 BY <2>7, <1>2
    <3> HIDE DEF d
    <3> QED BY <3>1, <2>1, <2>2, <2>4
  <2> QED BY <2>4, <2>5, <2>6, <2>7
<1>5. \A i \in DOMAIN e : At(i) \in DOMAIN es /\ At(i) # k /\ e[i] = es[At(i)]
  BY <1>2, <1>4
<1>6. \A i, j \in DOMAIN e : /\ At(i) = At(j) => i = j
                             /\ i < j => At(i) < At(j)
  BY <1>2, <1>4
<1>7. /\ s \in [Messages -> {"none", "pending", "halted", "settled"}]
      /\ \A x \in Messages : x # m => s[x] = st[x]
  BY <1>1 DEF QueueOf
<1> HIDE DEF e, s, At
<1>8. \A i, j \in DOMAIN e : e[i] = e[j] => i = j BY <1>5, <1>6 DEF QueueOf
<1>9. \A i \in DOMAIN e : e[i] \in Range(b) BY <1>5 DEF QueueOf
<1>10. ASSUME NEW i \in Pending(e, s), NEW n \in Messages, Before(b, e[i], n)
       PROVE  at[n] = 0
  <2>1. i \in DOMAIN e /\ s[e[i]] = "pending" BY DEF Pending
  <2>2. e[i] # m /\ e[i] \in Messages BY <2>1, <1>1, <1>4, <1>5 DEF QueueOf
  <2>3. At(i) \in Pending(es, st) BY <2>1, <2>2, <1>5, <1>7 DEF Pending
  <2> QED BY <2>1, <2>3, <1>5, <1>10 DEF QueueOf
<1>11. \A i, j \in DOMAIN e : i < j => Before(b, e[i], e[j]) BY <1>5, <1>6 DEF QueueOf
<1> QED BY <1>0, <1>4, <1>7, <1>8, <1>9, <1>10, <1>11 DEF QueueOf, e, s

\* The outbox is emptied, or everything in it is frozen.
LEMMA QueueRests ==
  ASSUME QueueInv
  PROVE  /\ QueueOf(<<>>, [m \in Messages |-> "none"], born, attempts)
         /\ QueueOf(entries, Frozen, born, attempts)
<1>1. QueueOf(<<>>, [m \in Messages |-> "none"], born, attempts)
  <2>1. <<>> \in Seq(Messages) /\ DOMAIN <<>> = {} OBVIOUS
  <2> QED BY <2>1 DEF QueueInv, QueueOf, Pending
<1>2. Pending(entries, Frozen) = {}
  <2>1. \A m \in Messages : Frozen[m] # "pending" BY DEF Frozen
  <2>2. \A i \in DOMAIN entries : entries[i] \in Messages BY DEF QueueInv, QueueOf
  <2> QED BY <2>1, <2>2 DEF Pending
<1>3. Frozen \in [Messages -> {"none", "pending", "halted", "settled"}]
  BY DEF QueueInv, QueueOf, Frozen
<1> HIDE DEF Frozen
<1> QED BY <1>1, <1>2, <1>3 DEF QueueInv, QueueOf

\* A step that sends at most the head keeps the queue it leaves in order.
LEMMA QueueSends ==
  ASSUME QueueOf(entries', entryState', born', attempts), NEW m,
         m \in Messages => m = HeadOf(entries', entryState'),
         FireIfAny(m) \/ \E left : FireAfterStop(m, left)
  PROVE  QueueInv'
<1>1. \/ UNCHANGED attempts
      \/ m \in Messages /\ attempts' = [attempts EXCEPT ![m] = attempts[m] + 1]
  BY DEF FireIfAny, FireAfterStop, Fire, retryVars
<1>2. QueueOf(entries', entryState', born', attempts')
  <2> DEFINE es == entries'
             st == entryState'
             b  == born'
  <2>1. QueueOf(es, st, b, attempts) /\ (m \in Messages => m = HeadOf(es, st)) OBVIOUS
  <2> HIDE DEF es, st, b
  <2>2. QueueOf(es, st, b, attempts') BY <2>1, <1>1, QueueFires
  <2> QED BY <2>2 DEF es, st, b
<1> QED BY <1>2 DEF QueueInv

\* Every step of the client keeps the queue in order.
LEMMA QueueKeeps ==
  ASSUME QueueInv, ClientStep
  PROVE  QueueInv'
<1> USE DEF queueVars
<1>1. ASSUME UNCHANGED <<entries, entryState, born, attempts>> PROVE QueueInv'
  BY <1>1 DEF QueueInv
<1>2. NoMessage \notin Messages BY InputConstants
<1>3. \A p : ToRetry(p) \in Messages => ToRetry(p) = HeadOf(entries, entryState)
  BY <1>2 DEF ToRetry
<1>4. ASSUME Dispose \/ Halt \/ FreezePending \/ Pause PROVE QueueInv'
  <2>1. QueueOf(entries', entryState', born', attempts)
    BY <1>4, QueueRests DEF Dispose, Halt, FreezePending, Pause, QueueInv
  <2>2. \E left : FireAfterStop(NoMessage, left)
    BY <1>4 DEF Dispose, Halt, FreezePending, Pause, StopTimer
  <2> QED BY <2>1, <2>2, <1>2, QueueSends
<1>5. ASSUME NEW p, UNCHANGED <<entries, entryState, born>>,
             FireIfAny(ToRetry(p)) \/ \E left : FireAfterStop(ToRetry(p), left)
      PROVE  QueueInv'
  <2>1. QueueOf(entries', entryState', born', attempts) BY <1>5 DEF QueueInv
  <2> QED BY <2>1, <1>3, <1>5, QueueSends
<1>6. CASE SendInput \/ Dial \/ \E m \in Messages : WindowElapses(m)
  BY <1>1, <1>6 DEF SendInput, Dial, WindowElapses, outboxVars, retryVars
<1>7. CASE RetryDue BY <1>5, <1>7 DEF RetryDue
<1>8. CASE ReadError \/ Detach
  <2>1. CASE \E next : Disconnect(next) BY <2>1, <1>4 DEF Disconnect
  <2>2. CASE ~\E next : Disconnect(next)
    BY <2>2, <1>1, <1>8 DEF ReadError, Detach, outboxVars, retryVars
  <2> QED BY <2>1, <2>2
<1>9. CASE DisposeOnExit \/ PauseOnExit BY <1>4, <1>9 DEF DisposeOnExit, PauseOnExit
<1>10. \A es, st : ToKick(es, st) \in Messages => ToKick(es, st) = HeadOf(es, st)
  BY <1>2 DEF ToKick
<1>11. ASSUME NEW r \in Attempts, OnAck(r) PROVE QueueInv'
  <2>1. CASE Settles(r)
    <3>1. /\ entries' = Released(entries, r[1]) /\ entryState' = [entryState EXCEPT ![r[1]] = "settled"]
          /\ UNCHANGED born /\ r[1] \in Range(entries)
          /\ \E left : FireAfterStop(ToKick(entries', entryState'), left)
      BY <1>11, <2>1 DEF OnAck, Settles
    <3>2. QueueOf(entries', entryState', born', attempts) BY <3>1, QueueReleases DEF QueueInv
    <3> QED BY <3>1, <3>2, <1>10, QueueSends
  <2>2. CASE ~Settles(r) BY <2>2, <1>1, <1>11 DEF OnAck, outboxVars, retryVars
  <2> QED BY <2>1, <2>2
<1>12. CASE ReceiveEvent
  <2>1. CASE Resume BY <2>1, <1>5 DEF Resume
  <2>2. CASE FreezePending \/ Dispose \/ Halt BY <2>2, <1>4
  <2>3. CASE \E r \in Attempts : OnAck(r) BY <2>3, <1>11
  <2>4. Resume \/ FreezePending \/ Dispose \/ Halt \/ \E r \in Attempts : OnAck(r)
    BY <1>12 DEF ReceiveEvent
  <2> QED BY <2>1, <2>2, <2>3, <2>4
<1>13. ASSUME NEW m \in Messages, Accept(m) PROVE QueueInv'
  <2>1. CASE HasRoom
    <3>1. /\ entries' = Append(entries, m) /\ entryState' = [entryState EXCEPT ![m] = "pending"]
          /\ born' = Append(born, m) /\ m \notin Range(born)
          /\ FireIfAny(ToKick(entries', entryState'))
      BY <1>13, <2>1 DEF Accept
    <3>2. QueueOf(entries', entryState', born', attempts) BY <3>1, QueueAccepts DEF QueueInv
    <3> QED BY <3>1, <3>2, <1>10, QueueSends
  <2>2. CASE ~HasRoom BY <2>2, <1>1, <1>13 DEF Accept, outboxVars, retryVars
  <2> QED BY <2>1, <2>2
<1> QED BY <1>6, <1>7, <1>8, <1>9, <1>12, <1>13 DEF ClientStep

-----------------------------------------------------------------------------
(* What the client sends, and when                                         *)

\* The input m is sent once more, on the connection there is.
Sends(m) ==
  LET r == <<m, attempts[m] + 1>> IN
  /\ attempts' = [attempts EXCEPT ![m] = attempts[m] + 1]
  /\ via' = [via EXCEPT ![r] = conn]
  /\ toServer' = IF Linked THEN [toServer EXCEPT ![conn] = Append(@, InputFrame(r))] ELSE toServer

\* The client sends nothing but an attach, or an input that nothing accepted
\* after it was sent before, on a connection that the server has greeted.
SentInOrder ==
  \/ /\ UNCHANGED <<attempts, via>>
     /\ UNCHANGED toServer \/ \E c : toServer' = [toServer EXCEPT ![c] = <<AttachFrame>>]
  \/ \E m \in Messages :
       /\ Sends(m)
       /\ Linked => link[conn] # "waiting"
       /\ \A n \in Messages : Before(born', m, n) => attempts[n] = 0

\* Nothing accepted after the head was sent.
LEMMA HeadUnsent ==
  ASSUME NEW es, NEW st, NEW b, NEW at, QueueOf(es, st, b, at), NEW m \in Messages,
         m = HeadOf(es, st)
  PROVE  es # <<>> /\ \A n \in Messages : Before(b, m, n) => at[n] = 0
<1>1. es \in Seq(Messages) BY DEF QueueOf
<1>2. Pending(es, st) # {} BY InputConstants DEF HeadOf
<1>3. PICK i \in Pending(es, st) : m = es[i] BY <1>1, <1>2, HeadFirst
<1>4. es # <<>> BY <1>3 DEF Pending
<1> QED BY <1>3, <1>4 DEF QueueOf

\* What the outbox sends is the head.
LEMMA HeadIsSent ==
  ASSUME QueueOf(entries', entryState', born', attempts), NEW m,
         m \in Messages => m = HeadOf(entries', entryState'),
         m \in Messages /\ entries' # <<>> /\ Linked => link[conn] # "waiting",
         FireIfAny(m) \/ \E left : FireAfterStop(m, left)
  PROVE  SentInOrder
<1>1. CASE m \in Messages
  <2>1. Sends(m) BY <1>1 DEF FireIfAny, FireAfterStop, Fire, Sends
  <2>2. entries' # <<>> /\ \A n \in Messages : Before(born', m, n) => attempts[n] = 0
    <3> DEFINE es == entries'
               st == entryState'
               b  == born'
    <3>1. QueueOf(es, st, b, attempts) /\ m = HeadOf(es, st) BY <1>1
    <3> HIDE DEF es, st, b
    <3>2. es # <<>> /\ \A n \in Messages : Before(b, m, n) => attempts[n] = 0
      BY <1>1, <3>1, HeadUnsent
    <3> QED BY <3>2 DEF es, b
  <2> QED BY <1>1, <2>1, <2>2 DEF SentInOrder
<1>2. CASE m \notin Messages
  BY <1>2 DEF FireIfAny, FireAfterStop, retryVars, SentInOrder
<1> QED BY <1>1, <1>2

\* So is what the client sends.
LEMMA ClientSends ==
  ASSUME IInv, QueueInv, Pausing, Greeted, ClientStep
  PROVE  SentInOrder
<1> USE DEF queueVars
<1>1. ASSUME UNCHANGED <<attempts, via, toServer>> PROVE SentInOrder
  BY <1>1 DEF SentInOrder
<1>2. NoMessage \notin Messages BY InputConstants
<1>3. ASSUME StopTimer PROVE SentInOrder
  BY <1>1, <1>2, <1>3 DEF StopTimer, FireAfterStop
<1>4. CASE SendInput \/ \E m \in Messages : WindowElapses(m)
  BY <1>1, <1>4 DEF SendInput, WindowElapses, outboxVars, retryVars
<1>5. CASE Dial
  BY <1>5 DEF Dial, SentInOrder
<1>6. CASE ReadError \/ Detach \/ DisposeOnExit \/ PauseOnExit
  BY <1>1, <1>3, <1>6
     DEF ReadError, Detach, DisposeOnExit, PauseOnExit, Disconnect, Pause, Dispose, outboxVars, retryVars
<1>7. ~paused /\ (entries # <<>> \/ typing) /\ Linked => link[conn] # "waiting"
  BY DEF Pausing, Greeted, Linked
<1>8. \A p : ToRetry(p) \in Messages => ToRetry(p) = HeadOf(entries, entryState) /\ ~p
  BY <1>2 DEF ToRetry
<1>9. \A es, st : ToKick(es, st) \in Messages => ToKick(es, st) = HeadOf(es, st) /\ ~paused
  BY <1>2 DEF ToKick
<1>10. ASSUME NEW p, UNCHANGED <<entries, entryState, born>>,
              FireIfAny(ToRetry(p)) \/ \E left : FireAfterStop(ToRetry(p), left),
              ~p /\ entries # <<>> /\ Linked => link[conn] # "waiting"
       PROVE  SentInOrder
  <2>1. QueueOf(entries', entryState', born', attempts) BY <1>10 DEF QueueInv
  <2> QED BY <2>1, <1>8, <1>10, HeadIsSent
<1>11. CASE RetryDue BY <1>7, <1>10, <1>11 DEF RetryDue
<1>12. ASSUME NEW r \in Attempts, OnAck(r) PROVE SentInOrder
  <2>1. CASE Settles(r)
    <3>1. /\ entries' = Released(entries, r[1]) /\ entryState' = [entryState EXCEPT ![r[1]] = "settled"]
          /\ UNCHANGED born /\ r[1] \in Range(entries)
          /\ \E left : FireAfterStop(ToKick(entries', entryState'), left)
      BY <1>12, <2>1 DEF OnAck, Settles
    <3>2. QueueOf(entries', entryState', born', attempts) BY <3>1, QueueReleases DEF QueueInv
    <3>3. entries # <<>> BY <3>1 DEF Range
    <3> QED BY <3>1, <3>2, <3>3, <1>7, <1>9, HeadIsSent
  <2>2. CASE ~Settles(r) BY <2>2, <1>1, <1>12 DEF OnAck, outboxVars, retryVars
  <2> QED BY <2>1, <2>2
<1>13. CASE ReceiveEvent
  <2>0. /\ conn \in Conns /\ toClient[conn] # <<>> /\ toClient[conn] \in Seq(TrueEvents)
        /\ Head(toClient[conn]) = toClient[conn][1] /\ 1 \in DOMAIN toClient[conn]
    <3>1. conn \in Conns /\ toClient[conn] # <<>>
      BY <1>13 DEF ReceiveEvent, IInv, Dialled
    <3>2. toClient[conn] \in Seq(TrueEvents) BY <3>1 DEF IInv, AckInv
    <3> QED BY <3>1, <3>2, TailShape
  <2>1. CASE Head(toClient[conn]) = Attached /\ Resume
    <3>1. link[conn] # "waiting" BY <2>0, <2>1 DEF Greeted
    <3> QED BY <3>1, <2>1, <1>10 DEF Resume
  <2>2. CASE FreezePending \/ Dispose \/ Halt BY <2>2, <1>3 DEF FreezePending, Dispose, Halt
  <2>3. CASE \E r \in Attempts : OnAck(r) BY <2>3, <1>12
  <2> QED BY <1>13, <2>1, <2>2, <2>3 DEF ReceiveEvent
<1>14. ASSUME NEW m \in Messages, Accept(m) PROVE SentInOrder
  <2>1. CASE HasRoom
    <3>1. /\ entries' = Append(entries, m) /\ entryState' = [entryState EXCEPT ![m] = "pending"]
          /\ born' = Append(born, m) /\ m \notin Range(born) /\ typing
          /\ FireIfAny(ToKick(entries', entryState'))
      BY <1>14, <2>1 DEF Accept
    <3>2. QueueOf(entries', entryState', born', attempts) BY <3>1, QueueAccepts DEF QueueInv
    <3> QED BY <3>1, <3>2, <1>7, <1>9, HeadIsSent
  <2>2. CASE ~HasRoom BY <2>2, <1>1, <1>14 DEF Accept, outboxVars, retryVars
  <2> QED BY <2>1, <2>2
<1> QED BY <1>4, <1>5, <1>6, <1>11, <1>13, <1>14 DEF ClientStep

-----------------------------------------------------------------------------
(* The connections                                                         *)

\* The outbox is paused whenever the client is about to attach.
LEMMA PausingKept ==
  ASSUME Pausing, [Next]_vars
  PROVE  Pausing'
<1>1. CASE UNCHANGED <<client, paused, entries, typing>> BY <1>1 DEF Pausing
<1>2. CASE ClientStep
  <2> USE DEF Pausing
  <2>1. CASE SendInput BY <2>1 DEF SendInput, outboxVars, queueVars, flagVars
  <2>2. CASE RetryDue BY <2>2, <1>1 DEF RetryDue, queueVars, flagVars, loopVars
  <2>3. CASE Dial BY <2>3 DEF Dial, queueVars, flagVars
  <2>4. CASE ReadError BY <2>4 DEF ReadError, Disconnect, Pause
  <2>5. CASE Detach BY <2>5 DEF Detach, Disconnect
  <2>6. CASE DisposeOnExit \/ PauseOnExit BY <2>6 DEF DisposeOnExit, PauseOnExit
  <2>7. ASSUME NEW m \in Messages, Accept(m) PROVE Pausing'
    BY <2>7 DEF Accept, outboxVars, queueVars, flagVars
  <2>8. CASE \E m \in Messages : WindowElapses(m)
    BY <2>8, <1>1 DEF WindowElapses, queueVars, flagVars, loopVars
  <2>9. CASE ReceiveEvent
    <3>1. Linked /\ UNCHANGED typing BY <2>9 DEF ReceiveEvent
    <3>2. CASE client' = "attached" \/ client' = "ending" BY <3>2
    <3>3. CASE UNCHANGED client /\ FreezePending
      BY <1>1, <3>1, <3>3 DEF FreezePending, flagVars, Linked
    <3>4. ASSUME NEW r \in Attempts, OnAck(r), UNCHANGED client PROVE Pausing'
      <4>1. CASE Settles(r)
        <5>1. UNCHANGED paused BY <3>4, <4>1 DEF OnAck, flagVars
        <5>2. entries # <<>> BY <4>1 DEF Settles, Range
        <5> QED BY <3>1, <3>4, <5>1, <5>2 DEF Linked
      <4>2. CASE ~Settles(r)
        BY <1>1, <3>1, <3>4, <4>2
            DEF OnAck, outboxVars, queueVars, flagVars
      <4> QED BY <4>1, <4>2
    <3> QED BY <2>9, <3>2, <3>3, <3>4 DEF ReceiveEvent
  <2> QED BY <1>2, <2>1, <2>2, <2>3, <2>4, <2>5, <2>6, <2>7, <2>8, <2>9 DEF ClientStep
<1>3. CASE ~ClientStep
  <2> USE DEF outboxVars, queueVars, flagVars, loopVars
  <2>1. ASSUME NEW r \in Attempts, RawStep(r) \/ GateStep(r) PROVE Pausing'
    BY <1>1, <2>1
       DEF RawStep, Checkpoint, Reserve, BeginWrite, WriteSucceeds, WriteFails, CommitInput, GateStep,
           MintPermit, LaneTimeout, RawTimeout, FinishInput, UnchangedByRaw, UnchangedByServer
  <2>2. ASSUME NEW c \in Conns, ReadStep(c) PROVE Pausing'
    BY <1>1, <2>2 DEF ReadStep, HandleAttach, HandleInput, ServerDrop
  <2>3. CASE SessionStep
    BY <1>1, <2>3
       DEF SessionStep, LoseControl, GainControl, RestartSession, RemoveSession, UnchangedByServer
  <2>4. CASE UNCHANGED vars BY <1>1, <2>4 DEF vars, clientVars
  <2> QED BY <1>3, <2>1, <2>2, <2>3, <2>4 DEF Next
<1> QED BY <1>2, <1>3

\* What the server's links do: they are greeted once.
LEMMA LinksGoOn ==
  ASSUME Greeted, [Next]_vars
  PROVE  /\ link' \in [Conns -> {"waiting", "attached", "closed"}]
         /\ \A c \in Conns : link[c] # "waiting" => link'[c] # "waiting"
<1> USE DEF Greeted
<1>1. CASE UNCHANGED link BY <1>1
<1>2. ASSUME NEW r \in Attempts, RawStep(r) \/ GateStep(r) PROVE UNCHANGED link
  BY <1>2
     DEF RawStep, Checkpoint, Reserve, BeginWrite, WriteSucceeds, WriteFails, CommitInput, GateStep,
         MintPermit, LaneTimeout, RawTimeout, FinishInput, UnchangedByRaw, gateVars
<1>3. ASSUME NEW c \in Conns, HandleAttach(c)
      PROVE  link' = [link EXCEPT ![c] = "attached"]
  BY <1>3 DEF HandleAttach
<1>4. ASSUME NEW c \in Conns, NEW r \in Attempts, HandleInput(c, r)
      PROVE  UNCHANGED link
  BY <1>4 DEF HandleInput, gateVars
<1>5. ASSUME NEW c \in Conns, NEW final \in BOOLEAN, ServerDrop(c, final)
      PROVE  link' = [link EXCEPT ![c] = "closed"]
  BY <1>5 DEF ServerDrop
<1>6. CASE SessionStep
  <2>1. UNCHANGED link \/ link' = [c \in Conns |-> IF link[c] = "attached" THEN "closed" ELSE link[c]]
    BY <1>6 DEF SessionStep, LoseControl, GainControl, RestartSession, RemoveSession
  <2> QED BY <2>1
<1>7. CASE UNCHANGED serverVars BY <1>1, <1>7 DEF serverVars, gateVars
<1> QED BY <1>1, <1>2, <1>3, <1>4, <1>5, <1>6, <1>7 DEF Next, ReadStep, vars

\* What is in the channels to the client after a step was there before, or the
\* server has just put it there.
LEMMA EventsAreKnown ==
  ASSUME AckInv, Dialled, Greeted, [Next]_vars, NEW c \in Conns,
         NEW i \in DOMAIN toClient'[c], toClient'[c][i] = Attached
  PROVE  link'[c] # "waiting"
<1>1. toClient[c] \in Seq(TrueEvents) BY DEF AckInv
<1>2. (\E j \in DOMAIN toClient[c] : toClient[c][j] = Attached) => link'[c] # "waiting"
  BY LinksGoOn DEF Greeted
<1>3. CASE toClient'[c] = toClient[c] BY <1>2, <1>3
<1>4. ASSUME NEW e, e # Attached \/ link'[c] # "waiting", toClient'[c] = Append(toClient[c], e)
      PROVE  link'[c] # "waiting"
  <2>1. (i \in DOMAIN toClient[c] /\ toClient'[c][i] = toClient[c][i]) \/ toClient'[c][i] = e
    BY <1>1, <1>4
  <2> QED BY <1>2, <1>4, <2>1
<1>5. CASE toClient'[c] = <<>> BY <1>5
<1>6. CASE toClient[c] # <<>> /\ toClient'[c] = Tail(toClient[c])
  <2>1. i + 1 \in DOMAIN toClient[c] /\ toClient[c][i + 1] = Attached BY <1>1, <1>6, TailShape
  <2> QED BY <1>2, <2>1
<1>7. ASSUME NEW d, NEW e, Notify(d, e), e # Attached \/ d # c \/ link'[c] # "waiting"
      PROVE  link'[c] # "waiting"
  <2>1. UNCHANGED toClient \/ toClient' = [toClient EXCEPT ![d] = Append(@, e)]
    BY <1>7 DEF Notify
  <2>2. toClient \in [Conns -> Seq(TrueEvents)] BY DEF AckInv
  <2>3. toClient'[c] = toClient[c] \/ (d = c /\ toClient'[c] = Append(toClient[c], e))
    BY <2>1, <2>2
  <2> QED BY <1>3, <1>4, <1>7, <2>3
<1>8. CASE ClientStep
  <2> USE DEF AckInv
  <2>1. CASE UNCHANGED toClient BY <1>3, <2>1
  <2>2. ASSUME NEW next, Disconnect(next) PROVE link'[c] # "waiting"
    BY <1>3, <1>5, <2>2 DEF Disconnect
  <2>3. CASE ReceiveEvent BY <1>3, <1>6, <2>3 DEF ReceiveEvent
  <2>4. ClientStep => UNCHANGED toClient \/ (\E next : Disconnect(next)) \/ ReceiveEvent
    BY DEF ClientStep, SendInput, RetryDue, Dial, ReadError, Detach, DisposeOnExit,
         PauseOnExit, Accept,
           WindowElapses
  <2> QED BY <1>8, <2>1, <2>2, <2>3, <2>4
<1>9. ASSUME NEW r \in Attempts, RawStep(r) \/ GateStep(r) PROVE link'[c] # "waiting"
  <2>1. UNCHANGED toClient \/ Notify(via[r], Forbidden) \/ Notify(via[r], Ack(r))
    BY <1>9
       DEF RawStep, Checkpoint, Reserve, BeginWrite, WriteSucceeds, WriteFails, CommitInput, GateStep,
           MintPermit, LaneTimeout, RawTimeout, FinishInput
  <2>2. Ack(r) # Attached /\ Forbidden # Attached BY AckShape DEF Forbidden, Attached
  <2> QED BY <1>3, <1>7, <2>1, <2>2
<1>10. ASSUME NEW d \in Conns, ReadStep(d) PROVE link'[c] # "waiting"
  <2>1. CASE HandleAttach(d)
    <3>1. Notify(d, Attached) /\ link' = [link EXCEPT ![d] = "attached"]
      BY <2>1
          DEF HandleAttach
    <3>2. link'[d] # "waiting" BY <3>1 DEF Greeted
    <3> QED BY <1>7, <3>1, <3>2
  <2>2. ASSUME NEW r \in Attempts, HandleInput(d, r) PROVE link'[c] # "waiting"
    BY <1>3, <2>2 DEF HandleInput
  <2>3. ASSUME NEW final \in BOOLEAN, ServerDrop(d, final) PROVE link'[c] # "waiting"
    BY <1>3, <1>7, <2>3 DEF ServerDrop, Terminal, Attached
  <2> QED BY <1>10, <2>1, <2>2, <2>3 DEF ReadStep
<1>11. CASE SessionStep
  <2>1. UNCHANGED toClient \/ Notify(lease, Removed)
    BY <1>11 DEF SessionStep, LoseControl, GainControl, RestartSession, RemoveSession
  <2> QED BY <1>3, <1>7, <2>1 DEF Removed, Attached
<1>12. CASE UNCHANGED vars BY <1>3, <1>12 DEF vars, clientVars
<1> QED BY <1>8, <1>9, <1>10, <1>11, <1>12 DEF Next

\* A connection loses its first frame, or all it has, or nothing.
WireLoses ==
  \A c \in Conns :
    \/ toServer'[c] \in {toServer[c], <<>>, <<AttachFrame>>}
    \/ toServer[c] # <<>> /\ toServer'[c] = Tail(toServer[c])

\* Where an input waits after that, and behind what.
LEMMA LosesOnly ==
  ASSUME WireTypes, WireLoses, NEW c \in Conns, NEW r, NEW s
  PROVE  /\ Waits(r, c)' => Waits(r, c)
         /\ Behind(r, s, c)' => Behind(r, s, c)
<1>1. toServer[c] \in Seq(WireFrames) BY DEF WireTypes
<1>2. CASE toServer'[c] = toServer[c] BY <1>2 DEF Waits, Behind
<1>3. CASE toServer'[c] \in {<<>>, <<AttachFrame>>}
  <2>1. \A i \in DOMAIN toServer'[c] : toServer'[c][i] = AttachFrame BY <1>3
  <2> QED BY <2>1, FrameShape DEF Waits, Behind
<1>4. CASE toServer[c] # <<>> /\ toServer'[c] = Tail(toServer[c])
  <2> DEFINE q == toServer[c]
             p == toServer'[c]
  <2>1. \A i \in DOMAIN p : i \in Int /\ i + 1 \in DOMAIN q /\ p[i] = q[i + 1]
    <3>1. q \in Seq(WireFrames) /\ q # <<>> /\ p = Tail(q) BY <1>1, <1>4
    <3> HIDE DEF q, p
    <3> QED BY <3>1, TailShape
  <2>2. \A i, j \in DOMAIN p : i < j => i + 1 < j + 1 BY <2>1
  <2> QED BY <2>1, <2>2 DEF Waits, Behind
<1> QED BY <1>2, <1>3, <1>4 DEF WireLoses

\* Where an input that is sent waits, and behind what.
LEMMA SendsOnly ==
  ASSUME WireTypes, Dialled, NEW m \in Messages, Sends(m), NEW c \in Conns, NEW r, NEW s
  PROVE  /\ Waits(r, c)' => Waits(r, c) \/ (Linked /\ c = conn /\ r = <<m, attempts[m] + 1>>)
         /\ Behind(r, s, c)' => Behind(r, s, c) \/ (r = <<m, attempts[m] + 1>> /\ Waits(s, c))
<1> DEFINE q == toServer[c]
           p == toServer'[c]
           n == <<m, attempts[m] + 1>>
<1>1. q \in Seq(WireFrames) BY DEF WireTypes
<1>2. CASE toServer'[c] = toServer[c] BY <1>2 DEF Waits, Behind
<1>3. CASE Linked /\ c = conn /\ toServer'[c] = Append(toServer[c], InputFrame(n))
  <2>1. /\ Len(q) \in Nat /\ DOMAIN q = 1..Len(q) /\ DOMAIN p = 1..(Len(q) + 1)
        /\ \A i \in DOMAIN q : p[i] = q[i]
        /\ p[Len(q) + 1] = InputFrame(n)
    <3>1. p = Append(q, InputFrame(n)) BY <1>3
    <3> HIDE DEF p, q, n
    <3> QED BY <1>1, <3>1
  <2> HIDE DEF n
  <2>2. \A i \in DOMAIN p : i \in DOMAIN q \/ i = Len(q) + 1 BY <2>1
  <2>3. Waits(r, c)' => Waits(r, c) \/ r = n
    BY <2>1, <2>2, FrameShape DEF Waits
  <2>4. ASSUME NEW i \in DOMAIN p, NEW j \in DOMAIN p, i < j, p[i] = InputFrame(s), p[j] = InputFrame(r)
        PROVE  Behind(r, s, c) \/ (r = n /\ Waits(s, c))
    <3>1. i \in DOMAIN q /\ q[i] = InputFrame(s) BY <2>1, <2>4
    <3>2. CASE j \in DOMAIN q BY <2>1, <2>4, <3>1, <3>2 DEF Behind
    <3>3. CASE j = Len(q) + 1 BY <2>1, <2>4, <3>1, <3>3, FrameShape DEF Waits
    <3> QED BY <2>2, <3>2, <3>3
  <2>5. Behind(r, s, c)' => Behind(r, s, c) \/ (r = n /\ Waits(s, c)) BY <2>4 DEF Behind
  <2> QED BY <1>3, <2>3, <2>5 DEF n
<1>4. toServer'[c] = toServer[c]
      \/ (Linked /\ c = conn /\ toServer'[c] = Append(toServer[c], InputFrame(n)))
  BY DEF Sends, WireTypes
<1> QED BY <1>2, <1>3, <1>4

\* The server only takes frames from the connections.
LEMMA ServerReads ==
  ASSUME WireTypes, Next, ~ClientStep
  PROVE  UNCHANGED <<attempts, via, born>> /\ WireLoses
<1> USE DEF outboxVars, queueVars, retryVars
<1>1. ASSUME UNCHANGED toServer PROVE WireLoses BY <1>1 DEF WireLoses
<1>2. ASSUME NEW r \in Attempts, RawStep(r) \/ GateStep(r)
      PROVE  UNCHANGED <<attempts, via, born, toServer>>
  BY <1>2
     DEF RawStep, Checkpoint, Reserve, BeginWrite, WriteSucceeds, WriteFails, CommitInput, GateStep,
         MintPermit, LaneTimeout, RawTimeout, FinishInput, UnchangedByRaw, UnchangedByServer
<1>3. ASSUME NEW c \in Conns, ReadStep(c)
      PROVE  UNCHANGED <<attempts, via, born>> /\ WireLoses
  <2>1. /\ UNCHANGED <<attempts, via, born>>
        /\ \/ toServer[c] # <<>> /\ toServer' = [toServer EXCEPT ![c] = Tail(@)]
           \/ toServer' = [toServer EXCEPT ![c] = <<>>]
    BY <1>3 DEF ReadStep, HandleAttach, HandleInput, ServerDrop
  <2> QED BY <2>1 DEF WireLoses, WireTypes
<1>4. CASE SessionStep
  BY <1>1, <1>4
     DEF SessionStep, LoseControl, GainControl, RestartSession, RemoveSession, UnchangedByServer
<1> QED BY <1>1, <1>2, <1>3, <1>4 DEF Next

\* What the client does, as far as the order is concerned.
LEMMA ClientWrites ==
  ASSUME IInv, SentInOrder
  PROVE  \/ UNCHANGED <<attempts, via>> /\ WireLoses
         \/ \E m \in Messages : /\ Sends(m)
                                /\ Linked => link[conn] # "waiting"
                                /\ \A n \in Messages : Before(born', m, n) => attempts[n] = 0
BY DEF SentInOrder, WireLoses, IInv, WireInv, WireTypes

\* An attempt that was made stays on the connection it was written to.
LEMMA MadeStays ==
  ASSUME IInv, UNCHANGED <<attempts, via>> \/ \E m \in Messages : Sends(m), NEW r \in Attempts,
         r[2] <= attempts[r[1]]
  PROVE  via'[r] = via[r] /\ r[2] <= attempts'[r[1]]
<1>1. CASE UNCHANGED <<attempts, via>> BY <1>1
<1>2. ASSUME NEW m \in Messages, Sends(m) PROVE via'[r] = via[r] /\ r[2] <= attempts'[r[1]]
  <2>1. attempts \in [Messages -> Nat] /\ r[1] \in Messages /\ r[2] \in Nat
    BY AttemptShape DEF IInv, WireInv, WireTypes
  <2>2. /\ attempts' = [attempts EXCEPT ![m] = attempts[m] + 1]
        /\ via' = [via EXCEPT ![<<m, attempts[m] + 1>>] = conn]
    BY <1>2 DEF Sends
  <2>3. r # <<m, attempts[m] + 1>> BY <2>1
  <2>4. via'[r] = via[r] BY <2>2, <2>3 DEF IInv, WireInv, WireTypes
  <2>5. r[2] <= attempts'[r[1]] BY <2>1, <2>2
  <2> QED BY <2>4, <2>5
<1> QED BY <1>1, <1>2

\* What was read, and what waits, was made.
LEMMA KnownWasMade ==
  ASSUME IInv, NEW r \in Attempts, phase[r] # "none" \/ \E c \in Conns : Waits(r, c)
  PROVE  r[2] <= attempts[r[1]] /\ attempts[r[1]] # 0
<1>1. attempts[r[1]] \in Nat /\ r[2] \in Nat /\ r[2] # 0
  BY AttemptShape, InputConstants DEF Attempts, IInv, WireInv, WireTypes
<1>2. r[2] <= attempts[r[1]]
  BY <1>1 DEF IInv, WireInv, Unmade, FramesOnce, Waits
<1> QED BY <1>1, <1>2

\* A step reads at most the attempt that is first on its connection.
LEMMA ReadsFirst ==
  ASSUME IInv, [Next]_vars, NEW r \in Attempts, phase[r] = "none", phase'[r] # "none"
  PROVE  \E c \in Conns : HandleInput(c, r) /\ via[r] = c /\ Waits(r, c)
<1>1. phase \in [Attempts -> Phases] BY DEF IInv, WireInv, WireTypes
<1>2. ASSUME NEW s \in Attempts, RawStep(s) \/ GateStep(s) PROVE FALSE
  <2>1. phase[s] # "none" /\ (UNCHANGED phase \/ \E p : Move(s, p))
    BY <1>2
       DEF RawStep, Checkpoint, Reserve, BeginWrite, WriteSucceeds, WriteFails, CommitInput, GateStep,
           MintPermit, LaneTimeout, RawTimeout, FinishInput, OwnerPhases, callVars
  <2> QED BY <1>1, <2>1 DEF Move
<1>3. ASSUME UNCHANGED phase PROVE FALSE BY <1>3
<1>4. ASSUME NEW c \in Conns, ReadStep(c) PROVE HandleInput(c, r)
  <2>1. ASSUME NEW s \in Attempts, HandleInput(c, s) PROVE s = r
    BY <1>1, <2>1 DEF HandleInput, Move
  <2> QED BY <1>3, <1>4, <2>1 DEF ReadStep, HandleAttach, ServerDrop, callVars
<1>5. CASE SessionStep
  BY <1>3, <1>5
     DEF SessionStep, LoseControl, GainControl, RestartSession, RemoveSession, callVars
<1>6. PICK c \in Conns : HandleInput(c, r)
  BY <1>2, <1>3, <1>4, <1>5 DEF Next, vars, serverVars, callVars
<1>7. toServer[c] \in Seq(WireFrames) /\ toServer[c] # <<>> /\ Head(toServer[c]) = InputFrame(r)
  BY <1>6 DEF HandleInput, IInv, WireInv, WireTypes
<1>8. 1 \in DOMAIN toServer[c] /\ toServer[c][1] = InputFrame(r) BY <1>7, TailShape
<1> QED BY <1>6, <1>8 DEF IInv, WireInv, FramesOnce, Waits

\* Inputs stay on greeted connections.
LEMMA GreetedKept ==
  ASSUME IInv, QueueInv, Pausing, Greeted, [Next]_vars
  PROVE  Greeted'
<1>1. /\ link' \in [Conns -> {"waiting", "attached", "closed"}]
      /\ \A c \in Conns : link[c] # "waiting" => link'[c] # "waiting"
  BY LinksGoOn
<1>2. \A c \in Conns : (\E i \in DOMAIN toClient'[c] : toClient'[c][i] = Attached) => link'[c] # "waiting"
  BY EventsAreKnown DEF IInv
<1>3. client' = "attached" => link'[conn'] # "waiting"
  <2>1. CASE UNCHANGED <<client, conn>> BY <1>1, <2>1 DEF Greeted, IInv, Dialled, Linked
  <2>2. CASE ClientStep
    <3>1. CASE ReceiveEvent
      <4>0. conn \in Conns /\ UNCHANGED conn BY <3>1 DEF ReceiveEvent, IInv, Dialled
      <4>1. CASE Head(toClient[conn]) = Attached
        <5>1. toClient[conn] \in Seq(TrueEvents) /\ toClient[conn] # <<>>
          BY <3>1, <4>0 DEF ReceiveEvent, IInv, AckInv
        <5>2. 1 \in DOMAIN toClient[conn] /\ toClient[conn][1] = Attached
          BY <4>1, <5>1, TailShape
        <5> QED BY <1>1, <4>0, <5>2 DEF Greeted
      <4>2. CASE Head(toClient[conn]) # Attached
        BY <2>1, <3>1, <4>0, <4>2 DEF ReceiveEvent
      <4> QED BY <4>1, <4>2
    <3>2. CASE Dial \/ ReadError \/ Detach \/ DisposeOnExit \/ PauseOnExit
      BY <3>2 DEF Dial, ReadError, Detach, Disconnect, DisposeOnExit, PauseOnExit
    <3>3. CASE SendInput \/ RetryDue \/ \E m \in Messages : Accept(m) \/ WindowElapses(m)
      BY <2>1, <3>3 DEF SendInput, RetryDue, Accept, WindowElapses, loopVars
    <3> QED BY <2>2, <3>1, <3>2, <3>3 DEF ClientStep
  <2>3. CASE ~ClientStep
    <3> USE DEF loopVars
    <3>1. ASSUME NEW r \in Attempts, RawStep(r) \/ GateStep(r) PROVE UNCHANGED <<client, conn>>
      BY <3>1
         DEF RawStep, Checkpoint, Reserve, BeginWrite, WriteSucceeds, WriteFails, CommitInput, GateStep,
             MintPermit, LaneTimeout, RawTimeout, FinishInput, UnchangedByRaw, UnchangedByServer
    <3>2. ASSUME NEW c \in Conns, ReadStep(c) PROVE UNCHANGED <<client, conn>>
      BY <3>2 DEF ReadStep, HandleAttach, HandleInput, ServerDrop
    <3>3. ASSUME SessionStep PROVE UNCHANGED <<client, conn>>
      BY <3>3
         DEF SessionStep, LoseControl, GainControl, RestartSession, RemoveSession, UnchangedByServer
    <3>4. ASSUME UNCHANGED vars PROVE UNCHANGED <<client, conn>> BY <3>4 DEF vars, clientVars
    <3> QED BY <2>1, <2>3, <3>1, <3>2, <3>3, <3>4 DEF Next
  <2> QED BY <2>2, <2>3
<1>4. \/ UNCHANGED <<attempts, via>> /\ WireLoses
      \/ \E m \in Messages : Sends(m) /\ (Linked => link[conn] # "waiting")
  <2>1. CASE ClientStep BY <2>1, ClientSends, ClientWrites
  <2>2. CASE Next /\ ~ClientStep BY <2>2, ServerReads DEF IInv, WireInv
  <2>3. CASE UNCHANGED vars
    BY <2>3 DEF vars, clientVars, outboxVars, retryVars, WireLoses
  <2> QED BY <2>1, <2>2, <2>3
<1>5. ASSUME NEW c \in Conns, NEW r \in Attempts, Waits(r, c)' PROVE link'[c] # "waiting"
  <2>1. CASE Waits(r, c) BY <1>1, <2>1 DEF Greeted
  <2>2. CASE ~Waits(r, c)
    <3>1. c = conn /\ link[conn] # "waiting"
      BY <1>4, <1>5, <2>2, LosesOnly, SendsOnly DEF IInv, WireInv
    <3> QED BY <1>1, <3>1
  <2> QED BY <2>1, <2>2
<1>6. ASSUME NEW r \in Attempts, phase'[r] # "none" PROVE via'[r] \in Conns /\ link'[via'[r]] # "waiting"
  <2>1. CASE phase[r] # "none"
    <3>1. via'[r] = via[r] BY <1>4, <2>1, KnownWasMade, MadeStays
    <3> QED BY <1>1, <2>1, <3>1 DEF Greeted
  <2>2. CASE phase[r] = "none"
    <3>1. PICK c \in Conns : via[r] = c /\ Waits(r, c) BY <1>6, <2>2, ReadsFirst
    <3>2. via'[r] = via[r] BY <1>4, <3>1, KnownWasMade, MadeStays
    <3> QED BY <1>1, <3>1, <3>2 DEF Greeted
  <2> QED BY <2>1, <2>2
<1> QED BY <1>1, <1>2, <1>3, <1>5, <1>6 DEF Greeted

-----------------------------------------------------------------------------
(* The calls and the writes                                                *)

\* How far an attempt may come in a step.
GoesOn(r) ==
  \/ UNCHANGED phase[r]
  \/ phase[r] = "none" /\ phase'[r] = "lane"
  \/ phase[r] = "lane" /\ phase'[r] = "done"
  \/ phase[r] = "lane" /\ phase'[r] = "raw" /\ lane = NoAttempt /\ lease = via[r]
  \/ phase[r] \in {"raw", "checked", "owned"} /\ phase'[r] \in {"checked", "owned", "returned"}
  \/ /\ phase[r] = "owned" /\ phase'[r] = "writing"
     /\ r \notin cancelled /\ UNCHANGED delivered /\ target'[r] = run
  \/ phase[r] \in {"writing", "wrote"} /\ phase'[r] \in {"wrote", "returned"}

\* What is delivered, if anything is, is what an attempt was writing.
DeliversWrites ==
  \/ UNCHANGED delivered
  \/ \E r \in Attempts :
       phase[r] = "writing" /\ phase'[r] \in {"wrote", "returned"} /\ delivered' = Delivery(r)

\* An attempt has a new target when it begins to write.
TargetsStay == \A r \in Attempts : phase'[r] = "writing" /\ phase[r] = "writing" => UNCHANGED target[r]

\* The empty tuple is no attempt.
LEMMA NoAttemptIsNone == ASSUME NEW r \in Attempts PROVE r # NoAttempt
BY AttemptShape DEF NoAttempt

\* A goroutine, or a call, changes the phase of its own attempt.
LEMMA OthersRest ==
  ASSUME WireTypes, NEW r \in Attempts, NEW p, Move(r, p)
  PROVE  phase'[r] = p /\ \A s \in Attempts : s # r => UNCHANGED phase[s]
BY DEF WireTypes, Move

\* An input that is handled was not read before, and is from this connection.
LEMMA HandlesNew ==
  ASSUME IInv, NEW c \in Conns, NEW r \in Attempts, HandleInput(c, r)
  PROVE  phase[r] = "none" /\ via[r] = c
<1>1. toServer[c] \in Seq(WireFrames) /\ toServer[c] # <<>> /\ Head(toServer[c]) = InputFrame(r)
  BY DEF HandleInput, IInv, WireInv, WireTypes
<1>2. 1 \in DOMAIN toServer[c] /\ toServer[c][1] = InputFrame(r) BY <1>1, TailShape
<1> QED BY <1>2 DEF IInv, WireInv, FramesOnce

\* The goroutine of an attempt.
LEMMA RawGoesOn ==
  ASSUME WireTypes, target \in [Attempts -> Nat], NEW r \in Attempts, RawStep(r)
  PROVE  /\ UNCHANGED <<lane, run, quarantined, cancelled, lease, link, reading, via, born, attempts>>
         /\ phase[r] \in Running /\ phase'[r] \in Minted
         /\ \A s \in Attempts : s # r => UNCHANGED <<phase[s], target[s]>>
         /\ phase'[r] # "writing" => UNCHANGED target
         /\ \A s \in Attempts : GoesOn(s)
         /\ DeliversWrites
<1>1. UNCHANGED <<lane, run, quarantined, cancelled, lease, link, reading, via, born, attempts>>
  BY DEF RawStep, Checkpoint, Reserve, BeginWrite, WriteSucceeds, WriteFails, CommitInput,
       UnchangedByRaw,
         UnchangedByServer, gateVars, outboxVars, queueVars, retryVars
<1>2. ASSUME NEW p, Move(r, p),
             \/ phase[r] \in {"raw", "checked", "owned"} /\ p \in {"checked", "owned", "returned"}
             \/ /\ phase[r] = "owned" /\ p = "writing"
                /\ r \notin cancelled /\ UNCHANGED delivered /\ target'[r] = run
             \/ phase[r] \in {"writing", "wrote"} /\ p \in {"wrote", "returned"}
      PROVE  /\ phase[r] \in Running /\ phase'[r] \in Minted
             /\ \A s \in Attempts : s # r => UNCHANGED phase[s]
             /\ \A s \in Attempts : GoesOn(s)
             /\ phase'[r] = p
  <2>1. phase'[r] = p /\ \A s \in Attempts : s # r => UNCHANGED phase[s] BY <1>2, OthersRest
  <2>2. GoesOn(r) BY <1>2, <2>1 DEF GoesOn
  <2>3. \A s \in Attempts : s # r => GoesOn(s) BY <2>1 DEF GoesOn
  <2>4. phase[r] \in Running /\ p \in Minted BY <1>2 DEF Running, Minted, OwnerPhases
  <2> QED BY <2>1, <2>2, <2>3, <2>4
<1>3. CASE Checkpoint(r)
  <2>1. PICK p \in {"checked", "returned"} : Move(r, p) BY <1>3 DEF Checkpoint
  <2>2. phase[r] = "raw" /\ UNCHANGED <<target, delivered>> BY <1>3 DEF Checkpoint, ledgerVars
  <2> QED BY <1>1, <1>2, <2>1, <2>2 DEF DeliversWrites
<1>4. CASE Reserve(r)
  <2>1. PICK p \in {"owned", "returned"} : Move(r, p) BY <1>4 DEF Reserve
  <2>2. phase[r] = "checked" /\ UNCHANGED <<target, delivered>> BY <1>4 DEF Reserve
  <2> QED BY <1>1, <1>2, <2>1, <2>2 DEF DeliversWrites
<1>5. CASE BeginWrite(r)
  <2>0. phase[r] = "owned" /\ UNCHANGED delivered BY <1>5 DEF BeginWrite
  <2>1. CASE r \in cancelled \/ removed
    <3>1. Move(r, "returned") /\ UNCHANGED target BY <1>5, <2>1 DEF BeginWrite
    <3> QED BY <1>1, <1>2, <2>0, <3>1 DEF DeliversWrites
  <2>2. CASE ~(r \in cancelled \/ removed)
    <3>1. Move(r, "writing") /\ target' = [target EXCEPT ![r] = run]
      BY <1>5, <2>2
          DEF BeginWrite
    <3> QED BY <1>1, <1>2, <2>0, <2>2, <3>1 DEF DeliversWrites
  <2> QED BY <2>1, <2>2
<1>6. ASSUME NEW p \in {"wrote", "returned"}, Move(r, p), phase[r] \in {"writing", "wrote"}, UNCHANGED target,
             UNCHANGED delivered \/ (phase[r] = "writing" /\ delivered' = Delivery(r))
      PROVE  /\ phase[r] \in Running /\ phase'[r] \in Minted
             /\ \A s \in Attempts : s # r => UNCHANGED <<phase[s], target[s]>>
             /\ phase'[r] # "writing" => UNCHANGED target
             /\ \A s \in Attempts : GoesOn(s)
             /\ DeliversWrites
  <2>1. /\ phase[r] \in Running /\ phase'[r] \in Minted /\ phase'[r] = p
        /\ \A s \in Attempts : s # r => UNCHANGED phase[s]
        /\ \A s \in Attempts : GoesOn(s)
    BY <1>2, <1>6
  <2> QED BY <1>6, <2>1 DEF DeliversWrites
<1>7. CASE WriteSucceeds(r) BY <1>1, <1>6, <1>7 DEF WriteSucceeds
<1>8. CASE WriteFails(r) BY <1>1, <1>6, <1>8 DEF WriteFails
<1>9. CASE CommitInput(r) BY <1>1, <1>6, <1>9 DEF CommitInput
<1> QED BY <1>3, <1>4, <1>5, <1>7, <1>8, <1>9 DEF RawStep

\* Every attempt goes on as one should.
LEMMA AllGoOn ==
  ASSUME IInv, [Next]_vars
  PROVE  /\ \A s \in Attempts : GoesOn(s)
         /\ TargetsStay /\ DeliversWrites /\ cancelled \subseteq cancelled'
<1>1. WireTypes /\ target \in [Attempts -> Nat] BY DEF IInv, WireInv, LedgerInv, LedgerTypes
<1>2. \A s \in Attempts : UNCHANGED phase[s] => GoesOn(s) BY DEF GoesOn
<1>3. ASSUME UNCHANGED <<target, delivered>> PROVE TargetsStay /\ DeliversWrites
  BY <1>3 DEF TargetsStay, DeliversWrites
<1>4. ASSUME NEW r \in Attempts, RawStep(r)
      PROVE  /\ \A s \in Attempts : GoesOn(s)
             /\ TargetsStay /\ DeliversWrites /\ UNCHANGED cancelled
  <2>1. /\ \A s \in Attempts : GoesOn(s)
        /\ DeliversWrites /\ UNCHANGED cancelled
        /\ \A s \in Attempts : s # r => UNCHANGED target[s]
        /\ phase'[r] # "writing" => UNCHANGED target
    BY <1>1, <1>4, RawGoesOn
  <2>2. phase[r] = "writing" => phase'[r] # "writing"
    BY <1>1, <1>4, OthersRest
       DEF RawStep, Checkpoint, Reserve, BeginWrite, WriteSucceeds, WriteFails, CommitInput
  <2> QED BY <2>1, <2>2 DEF TargetsStay
<1>5. ASSUME NEW r \in Attempts, NEW p, Move(r, p), phase[r] = "lane",
             p = "done" \/ (p = "raw" /\ lane = NoAttempt /\ lease = via[r])
      PROVE  \A s \in Attempts : GoesOn(s)
  BY <1>1, <1>2, <1>5, OthersRest DEF GoesOn
<1> USE DEF gateVars, callVars, ledgerVars
<1>6. ASSUME NEW r \in Attempts, GateStep(r)
      PROVE  /\ \A s \in Attempts : GoesOn(s)
             /\ UNCHANGED <<target, delivered>> /\ cancelled \subseteq cancelled'
  <2>1. CASE MintPermit(r) BY <1>5, <2>1 DEF MintPermit
  <2>2. CASE LaneTimeout(r) BY <1>5, <2>2 DEF LaneTimeout
  <2>3. CASE RawTimeout(r) \/ FinishInput(r) BY <1>2, <2>3 DEF RawTimeout, FinishInput
  <2> QED BY <1>6, <2>1, <2>2, <2>3 DEF GateStep
<1>7. ASSUME NEW c \in Conns, ReadStep(c)
      PROVE  (\A s \in Attempts : GoesOn(s)) /\ UNCHANGED <<target, delivered, cancelled>>
  <2>1. ASSUME NEW r \in Attempts, HandleInput(c, r) PROVE \A s \in Attempts : GoesOn(s)
    <3>1. phase[r] = "none" BY <2>1, HandlesNew
    <3>2. Move(r, "lane") BY <2>1 DEF HandleInput
    <3> QED BY <1>1, <1>2, <3>1, <3>2, OthersRest DEF GoesOn
  <2> QED BY <1>2, <1>7, <2>1 DEF ReadStep, HandleAttach, HandleInput, ServerDrop
<1>8. CASE SessionStep
  BY <1>2, <1>3, <1>8 DEF SessionStep, LoseControl, GainControl, RestartSession, RemoveSession
<1>9. CASE UNCHANGED serverVars BY <1>2, <1>3, <1>9 DEF serverVars
<1> QED BY <1>3, <1>4, <1>6, <1>7, <1>8, <1>9 DEF Next, vars

\* The connection of an attempt that was read is settled.
LEMMA ViaStays ==
  ASSUME IInv, QueueInv, Pausing, Greeted, ClientStep
  PROVE  \A r \in Attempts : phase[r] # "none" => UNCHANGED via[r]
<1>1. UNCHANGED <<attempts, via>> \/ \E m \in Messages : Sends(m) BY ClientSends, ClientWrites
<1> QED BY <1>1, KnownWasMade, MadeStays

\* The read loop of an attempt waits for its call.
LEMMA CallsKept ==
  ASSUME IInv, QueueInv, Pausing, Greeted, Calls, [Next]_vars
  PROVE  Calls'
<1>1. WireTypes /\ reading \in [Conns -> Attempts \cup {NoAttempt}] BY DEF IInv, WireInv, Calls
<1>2. target \in [Attempts -> Nat] BY DEF IInv, LedgerInv, LedgerTypes
<1> USE DEF gateVars, callVars, outboxVars, retryVars, Running, Minted
<1>3. ASSUME UNCHANGED <<phase, reading, lane, cancelled>>,
             \A r \in Attempts : phase[r] # "none" => UNCHANGED via[r]
      PROVE  Calls'
  <2>1. \A r \in Attempts : phase[r] = "lane" \/ lane = r => UNCHANGED via[r]
    BY <1>3 DEF Calls, OwnerPhases
  <2> HIDE DEF Running, Minted
  <2> QED BY <1>3, <2>1 DEF Calls
<1>4. ASSUME NEW r \in Attempts, RawStep(r) PROVE Calls'
  <2>1. UNCHANGED <<reading, lane, cancelled, via>> BY <1>1, <1>2, <1>4, RawGoesOn
  <2>2. phase[r] \in Running /\ phase'[r] \in Minted BY <1>1, <1>2, <1>4, RawGoesOn
  <2>3. \A s \in Attempts : s # r => UNCHANGED phase[s] BY <1>1, <1>2, <1>4, RawGoesOn
  <2>4. \A s \in Attempts : phase'[s] \in Running => phase[s] \in Running BY <2>2, <2>3
  <2>5. \A s \in Attempts : phase[s] \in Minted <=> phase'[s] \in Minted BY <2>2, <2>3
  <2>6. \A s \in Attempts : phase'[s] = "lane" => phase[s] = "lane"
    BY <2>2, <2>3
        DEF OwnerPhases
  <2> HIDE DEF Running, Minted
  <2> QED BY <2>1, <2>4, <2>5, <2>6 DEF Calls
<1>5. ASSUME NEW r \in Attempts, GateStep(r) PROVE Calls'
  <2>0. UNCHANGED via
    BY <1>5 DEF GateStep, MintPermit, LaneTimeout, RawTimeout, FinishInput, UnchangedByServer
  <2>a. r # NoAttempt BY NoAttemptIsNone
  <2>1. ASSUME Move(r, "done"), Return(r), phase[r] = "lane", UNCHANGED <<lane, cancelled>> PROVE Calls'
    <3>1. phase'[r] = "done" /\ \A s \in Attempts : s # r => UNCHANGED phase[s]
      BY <1>1, <2>1, OthersRest
    <3>2. reading[via[r]] = r /\ lane # r /\ r \notin cancelled BY <2>1 DEF Calls, OwnerPhases
    <3>3. \A s \in Attempts : s # r /\ reading[via[s]] = s => reading'[via[s]] = s
      BY <1>1, <2>1, <3>2 DEF Return
    <3>4. reading' \in [Conns -> Attempts \cup {NoAttempt}] BY <1>1, <2>1 DEF Return
    <3> HIDE DEF Running, Minted
    <3>5. \A s \in Attempts : phase'[s] \in Running => lane' = s \/ s \in cancelled'
      BY <2>1, <3>1 DEF Calls, Running, OwnerPhases
    <3>6. \A s \in Attempts : lane' = s \/ s \in cancelled' => phase'[s] \in Minted
      BY <2>1, <3>1, <3>2 DEF Calls
    <3>7. \A s \in Attempts : phase'[s] = "lane" \/ lane' = s => reading'[via'[s]] = s
      BY <2>0, <2>1, <3>1, <3>2, <3>3 DEF Calls
    <3> QED BY <2>1, <3>4, <3>5, <3>6, <3>7 DEF Calls
  <2>2. CASE LaneTimeout(r) BY <2>1, <2>2 DEF LaneTimeout
  <2>3. CASE MintPermit(r)
    <3>1. CASE ~removed /\ ~quarantined /\ held /\ lease = via[r]
      <4>1. /\ phase[r] = "lane" /\ lane = NoAttempt /\ lane' = r /\ UNCHANGED <<reading, cancelled>>
            /\ Move(r, "raw")
        BY <2>3, <3>1 DEF MintPermit
      <4>2. phase'[r] = "raw" /\ \A s \in Attempts : s # r => UNCHANGED phase[s]
        BY <1>1, <4>1, OthersRest
      <4>3. r \notin cancelled BY <4>1 DEF Calls, OwnerPhases
      <4>4. \A s \in Attempts : lane # s BY <4>1, NoAttemptIsNone
      <4> QED BY <2>0, <4>1, <4>2, <4>3, <4>4 DEF Calls
    <3>2. CASE ~(~removed /\ ~quarantined /\ held /\ lease = via[r])
      BY <2>1, <2>3, <3>2 DEF MintPermit
    <3> QED BY <3>1, <3>2
  <2>4. ASSUME lane = r, Return(r), lane' = NoAttempt, UNCHANGED phase, phase[r] # "lane",
               \/ cancelled' = cancelled \cup {r}
               \/ UNCHANGED cancelled /\ phase[r] \notin Running
        PROVE  Calls'
    <3>1. reading[via[r]] = r BY <2>4 DEF Calls
    <3>2. \A s \in Attempts : s # r /\ reading[via[s]] = s => reading'[via[s]] = s
      BY <1>1, <2>4, <3>1 DEF Return
    <3>3. reading' \in [Conns -> Attempts \cup {NoAttempt}] BY <1>1, <2>4 DEF Return
    <3>4. \A s \in Attempts : lane' # s BY <2>4, NoAttemptIsNone
    <3> HIDE DEF Running, Minted
    <3>5. \A s \in Attempts : phase'[s] \in Running => s \in cancelled' BY <2>4 DEF Calls
    <3>6. \A s \in Attempts : s \in cancelled' => phase'[s] \in Minted BY <2>4 DEF Calls
    <3>7. \A s \in Attempts : phase'[s] = "lane" => reading'[via'[s]] = s
      BY <2>0, <2>4, <3>2 DEF Calls
    <3> QED BY <3>3, <3>4, <3>5, <3>6, <3>7 DEF Calls
  <2>5. CASE RawTimeout(r) BY <2>4, <2>5 DEF RawTimeout, OwnerPhases
  <2>6. CASE FinishInput(r) BY <2>4, <2>6 DEF FinishInput, OwnerPhases
  <2> QED BY <1>5, <2>2, <2>3, <2>5, <2>6 DEF GateStep
<1>6. ASSUME NEW c \in Conns, ReadStep(c) PROVE Calls'
  <2>1. ASSUME NEW r \in Attempts, HandleInput(c, r) PROVE Calls'
    <3>1. /\ reading[c] = NoAttempt /\ reading' = [reading EXCEPT ![c] = r]
          /\ Move(r, "lane") /\ UNCHANGED <<lane, cancelled, via>>
      BY <2>1 DEF HandleInput
    <3>2. phase[r] = "none" /\ via[r] = c BY <2>1, HandlesNew
    <3>3. phase'[r] = "lane" /\ \A s \in Attempts : s # r => UNCHANGED phase[s]
      BY <1>1, <3>1, OthersRest
    <3>4. \A s \in Attempts : reading[via[s]] = s => reading'[via[s]] = s
      BY <1>1, <3>1, NoAttemptIsNone
    <3>5. reading'[c] = r /\ reading' \in [Conns -> Attempts \cup {NoAttempt}] BY <1>1, <3>1
    <3>6. \A s \in Attempts : phase'[s] \in Running => phase[s] \in Running
      BY <3>3
          DEF OwnerPhases
    <3>7. \A s \in Attempts : phase[s] \in Minted => phase'[s] \in Minted
      BY <3>2, <3>3
          DEF OwnerPhases
    <3> HIDE DEF Running, Minted
    <3>8. \A s \in Attempts : phase'[s] = "lane" \/ lane' = s => reading'[via'[s]] = s
      BY <3>1, <3>2, <3>3, <3>4, <3>5 DEF Calls
    <3> QED BY <3>1, <3>5, <3>6, <3>7, <3>8 DEF Calls
  <2> QED BY <1>3, <1>6, <2>1 DEF ReadStep, HandleAttach, ServerDrop
<1>7. CASE SessionStep
  BY <1>3, <1>7
     DEF SessionStep, LoseControl, GainControl, RestartSession, RemoveSession, UnchangedByServer
<1>8. ASSUME UNCHANGED serverVars, \A r \in Attempts : phase[r] # "none" => UNCHANGED via[r] PROVE Calls'
  BY <1>3, <1>8 DEF serverVars
<1>9. CASE UNCHANGED vars BY <1>8, <1>9 DEF vars, clientVars
<1>10. CASE ClientStep /\ UNCHANGED serverVars
  <2>1. \A r \in Attempts : phase[r] # "none" => UNCHANGED via[r] BY <1>10, ViaStays
  <2> QED BY <1>8, <1>10, <2>1
<1> QED BY <1>4, <1>5, <1>6, <1>7, <1>9, <1>10 DEF Next

\* A write that outlived its call is to a run that is over, or that has no lane:
\* no other is under way there.
LEMMA WritersKept ==
  ASSUME IInv, Calls, Writers, [Next]_vars
  PROVE  Writers'
<1>1. WireTypes /\ target \in [Attempts -> Nat] /\ run \in Nat
  BY DEF IInv, WireInv, LedgerInv, LedgerTypes
<1> USE DEF gateVars, callVars
<1>2. ASSUME UNCHANGED <<phase, target, run, cancelled, quarantined>>, UNCHANGED lane \/ lane' = NoAttempt
      PROVE  Writers'
  BY <1>2 DEF Writers
<1>3. ASSUME NEW r \in Attempts, RawStep(r) PROVE Writers'
  <2>1. /\ UNCHANGED <<run, quarantined, lane, cancelled>>
        /\ \A s \in Attempts : s # r => UNCHANGED <<phase[s], target[s]>>
        /\ phase'[r] # "writing" => UNCHANGED target
        /\ GoesOn(r)
    BY <1>1, <1>3, RawGoesOn
  <2>2. CASE phase'[r] # "writing" BY <2>1, <2>2 DEF Writers
  <2>3. CASE phase'[r] = "writing"
    <3>1. phase[r] = "owned" /\ r \notin cancelled /\ target'[r] = run
      <4>1. phase[r] # "writing"
        BY <1>1, <1>3, <2>3, OthersRest
           DEF RawStep, Checkpoint, Reserve, BeginWrite, WriteSucceeds, WriteFails, CommitInput
      <4> QED BY <2>1, <2>3, <4>1 DEF GoesOn
    <3>2. lane = r BY <3>1 DEF Calls, Running, OwnerPhases
    <3>3. ASSUME NEW s \in Attempts, s # r, phase[s] = "writing", target[s] = run PROVE FALSE
      <4>1. s \in cancelled BY <3>2, <3>3 DEF Calls, Running, OwnerPhases
      <4>2. lane = NoAttempt BY <3>3, <4>1 DEF Writers
      <4> QED BY <3>2, <4>2, NoAttemptIsNone
    <3>4. \A s \in Attempts : s # r /\ phase'[s] = "writing" =>
            phase[s] = "writing" /\ target'[s] = target[s] /\ target[s] # run /\ target[s] <= run
      BY <2>1, <3>3 DEF Writers
    <3>5. \A s \in Attempts : phase'[s] = "writing" => target'[s] <= run'
      BY <1>1, <2>1, <3>1, <3>4
    <3>6. \A s \in Attempts : phase'[s] = "writing" /\ target'[s] = run' => s = r
      BY <2>1, <3>4
    <3>7. \A q, s \in Attempts :
            phase'[q] = "writing" /\ phase'[s] = "writing" /\ target'[q] = target'[s] => q = s
      BY <2>1, <3>1, <3>4 DEF Writers
    <3> QED BY <2>1, <3>1, <3>5, <3>6, <3>7 DEF Writers
  <2> QED BY <2>2, <2>3
<1>4. ASSUME NEW r \in Attempts, GateStep(r) PROVE Writers'
  <2>1. ASSUME NEW p, Move(r, p), phase[r] = "lane", p # "writing",
               UNCHANGED <<target, run, cancelled, quarantined>>,
               UNCHANGED lane \/ ~quarantined \/ lane' = NoAttempt
        PROVE  Writers'
    <3>1. \A s \in Attempts : phase'[s] = "writing" => phase[s] = "writing"
      BY <1>1, <2>1, OthersRest
    <3> QED BY <2>1, <3>1 DEF Writers
  <2>2. CASE MintPermit(r)
    <3>1. \E p \in {"raw", "done"} : Move(r, p) BY <2>2 DEF MintPermit
    <3>2. /\ phase[r] = "lane" /\ UNCHANGED <<target, run, cancelled, quarantined>>
          /\ UNCHANGED lane \/ ~quarantined
      BY <2>2 DEF MintPermit
    <3> QED BY <2>1, <3>1, <3>2
  <2>3. CASE LaneTimeout(r)
    <3>1. \A s \in Attempts : phase'[s] = "writing" => phase[s] = "writing"
      BY <1>1, <2>3, OthersRest DEF LaneTimeout
    <3>2. UNCHANGED <<target, run, cancelled, lane>> /\ (quarantined => quarantined')
      BY <2>3 DEF LaneTimeout, Quarantine
    <3> QED BY <3>1, <3>2 DEF Writers
  <2>4. CASE RawTimeout(r)
    <3>1. UNCHANGED <<phase, target, run>> /\ quarantined' /\ lane' = NoAttempt
      BY <2>4 DEF RawTimeout, Quarantine
    <3> QED BY <3>1 DEF Writers
  <2>5. CASE FinishInput(r) BY <1>2, <2>5 DEF FinishInput
  <2> QED BY <1>4, <2>2, <2>3, <2>4, <2>5 DEF GateStep
<1>5. ASSUME NEW c \in Conns, ReadStep(c) PROVE Writers'
  <2>1. ASSUME NEW r \in Attempts, HandleInput(c, r) PROVE Writers'
    <3>1. \A s \in Attempts : phase'[s] = "writing" => phase[s] = "writing"
      BY <1>1, <2>1, OthersRest DEF HandleInput
    <3>2. UNCHANGED <<target, run, cancelled, lane, quarantined>> BY <2>1 DEF HandleInput
    <3> QED BY <3>1, <3>2 DEF Writers
  <2> QED BY <1>2, <1>5, <2>1 DEF ReadStep, HandleAttach, ServerDrop
<1>6. CASE SessionStep
  <2>1. CASE RestartSession
    <3>1. UNCHANGED <<phase, target, cancelled>> /\ run' = run + 1 BY <2>1 DEF RestartSession
    <3>2. \A r \in Attempts : phase[r] = "writing" => target[r] < run' BY <1>1, <3>1 DEF Writers
    <3>3. \A r \in Attempts : phase[r] = "writing" => target[r] <= run' /\ target[r] # run'
      BY <1>1, <3>1, <3>2
    <3> QED BY <3>1, <3>3 DEF Writers
  <2> QED BY <1>2, <1>6, <2>1 DEF SessionStep, LoseControl, GainControl, RemoveSession
<1>7. CASE UNCHANGED serverVars BY <1>2, <1>7 DEF serverVars
<1> QED BY <1>3, <1>4, <1>5, <1>6, <1>7 DEF Next, vars

-----------------------------------------------------------------------------
(* The order is kept                                                       *)

\* What a step sends, and that it goes behind nothing accepted after it.
SendsInOrder ==
  \/ UNCHANGED <<attempts, via>> /\ WireLoses
  \/ \E m \in Messages : Sends(m) /\ \A n \in Messages : Before(born', m, n) => attempts[n] = 0

\* Every step sends in order.
LEMMA StepSends ==
  ASSUME IInv, QueueInv, Pausing, Greeted, [Next]_vars
  PROVE  SendsInOrder
<1>1. CASE ClientStep BY <1>1, ClientSends, ClientWrites DEF SendsInOrder
<1>2. CASE Next /\ ~ClientStep BY <1>2, ServerReads DEF IInv, WireInv, SendsInOrder
<1>3. CASE UNCHANGED vars
  BY <1>3 DEF vars, clientVars, outboxVars, retryVars, WireLoses, SendsInOrder
<1> QED BY <1>1, <1>2, <1>3

\* An input is accepted after all that were sent.
LEMMA BornGrows ==
  ASSUME WireTypes, QueueInv, [Next]_vars, NEW x, NEW y \in Messages, attempts[y] # 0, Before(born', x, y)
  PROVE  Before(born, x, y)
<1>1. CASE UNCHANGED born BY <1>1
<1>2. ASSUME NEW m \in Messages, born' = Append(born, m), m \notin Range(born) PROVE Before(born, x, y)
  <2>1. y # m BY <1>2 DEF QueueInv, QueueOf
  <2>2. born \in Seq(Messages) BY DEF QueueInv, QueueOf
  <2> QED BY <1>2, <2>1, <2>2, BeforeLast
<1>3. CASE ClientStep
  <2>1. ASSUME NEW m \in Messages, Accept(m) PROVE Before(born, x, y)
    <3>1. CASE HasRoom BY <1>2, <2>1, <3>1 DEF Accept
    <3>2. CASE ~HasRoom BY <1>1, <2>1, <3>2 DEF Accept, outboxVars, queueVars
    <3> QED BY <3>1, <3>2
  <2>2. CASE ReceiveEvent
    <3>1. ASSUME NEW r \in Attempts, OnAck(r) PROVE UNCHANGED born
      BY <3>1 DEF OnAck, outboxVars, queueVars
    <3> QED BY <1>1, <2>2, <3>1
            DEF ReceiveEvent, Resume, FreezePending, Dispose, Halt, StopTimer, FireAfterStop, queueVars
  <2> QED BY <1>1, <1>3, <2>1, <2>2
          DEF ClientStep, SendInput, RetryDue, Dial, ReadError, Detach, DisposeOnExit, PauseOnExit,
              WindowElapses, Disconnect, Pause, Dispose, outboxVars, queueVars
<1>4. CASE Next /\ ~ClientStep BY <1>1, <1>4, ServerReads
<1>5. CASE UNCHANGED vars BY <1>1, <1>5 DEF vars, clientVars, outboxVars, queueVars
<1> QED BY <1>3, <1>4, <1>5

\* On one connection inputs are sent, and read, in the order they were typed.
LEMMA FifoKept ==
  ASSUME IInv, QueueInv, Pausing, Greeted, Fifo, [Next]_vars
  PROVE  Fifo'
<1>0. WireTypes /\ Dialled /\ SendsInOrder BY StepSends DEF IInv, WireInv
<1>1. ASSUME NEW r \in Attempts, NEW s \in Attempts, attempts[s[1]] # 0, ~Before(born, r[1], s[1])
      PROVE  ~Before(born', r[1], s[1])
  BY <1>0, <1>1, BornGrows, AttemptShape
<1>2. ASSUME NEW r \in Attempts, NEW s \in Attempts, attempts[s[1]] # 0, NEW m \in Messages,
             Sends(m), r = <<m, attempts[m] + 1>>,
             \A n \in Messages : Before(born', m, n) => attempts[n] = 0
      PROVE  ~Before(born', r[1], s[1])
  BY <1>2, AttemptShape
<1>3. ASSUME NEW c \in Conns, NEW r \in Attempts, NEW s \in Attempts, Behind(r, s, c)'
      PROVE  ~Before(born', r[1], s[1])
  <2>1. CASE Behind(r, s, c)
    <3>1. Waits(s, c) BY <2>1 DEF Behind, Waits
    <3>2. attempts[s[1]] # 0 BY <3>1, KnownWasMade
    <3> QED BY <1>1, <2>1, <3>2 DEF Fifo
  <2>2. CASE ~Behind(r, s, c)
    <3>1. PICK m \in Messages : /\ Sends(m) /\ r = <<m, attempts[m] + 1>> /\ Waits(s, c)
                                /\ \A n \in Messages : Before(born', m, n) => attempts[n] = 0
      BY <1>0, <1>3, <2>2, LosesOnly, SendsOnly DEF SendsInOrder
    <3>2. attempts[s[1]] # 0 BY <3>1, KnownWasMade
    <3> QED BY <1>2, <3>1, <3>2
  <2> QED BY <2>1, <2>2
<1>4. ASSUME NEW r \in Attempts, NEW s \in Attempts, phase'[s] # "none", Waits(r, via[s])'
      PROVE  ~Before(born', r[1], s[1])
  <2>1. CASE phase[s] # "none"
    <3>1. attempts[s[1]] # 0 /\ UNCHANGED via[s]
      BY <1>0, <2>1, KnownWasMade, MadeStays DEF SendsInOrder
    <3>3. PICK c \in Conns : c = via[s] /\ Waits(r, c)' BY <1>4, <2>1, <3>1 DEF Greeted, Waits
    <3>4. CASE Waits(r, c) BY <1>1, <2>1, <3>1, <3>3, <3>4 DEF Fifo
    <3>5. CASE ~Waits(r, c)
      <4>1. PICK m \in Messages : /\ Sends(m) /\ r = <<m, attempts[m] + 1>>
                                  /\ \A n \in Messages : Before(born', m, n) => attempts[n] = 0
        BY <1>0, <3>3, <3>5, LosesOnly, SendsOnly DEF SendsInOrder
      <4> QED BY <1>2, <3>1, <4>1
    <3> QED BY <3>4, <3>5
  <2>2. CASE phase[s] = "none"
    <3>1. PICK c \in Conns : HandleInput(c, s) /\ via[s] = c /\ Waits(s, c)
      BY <1>4, <2>2, ReadsFirst
    <3>2. attempts[s[1]] # 0 BY <3>1, KnownWasMade
    <3>3. UNCHANGED via /\ toServer'[c] = Tail(toServer[c]) /\ toServer[c] # <<>>
          /\ toServer[c] \in Seq(WireFrames) /\ Head(toServer[c]) = InputFrame(s)
      BY <1>0, <3>1 DEF HandleInput, WireTypes
    <3>4. Behind(r, s, c)
      <4>1. PICK i \in DOMAIN toServer'[c] : toServer'[c][i] = InputFrame(r)
        BY <1>4, <3>1, <3>3 DEF Waits
      <4>2. /\ i + 1 \in DOMAIN toServer[c] /\ toServer[c][i + 1] = InputFrame(r)
            /\ 1 \in DOMAIN toServer[c] /\ toServer[c][1] = InputFrame(s) /\ 1 < i + 1
        BY <3>3, <4>1, TailShape
      <4> QED BY <4>2 DEF Behind
    <3> QED BY <1>1, <3>1, <3>2, <3>4 DEF Fifo
  <2> QED BY <2>1, <2>2
<1> QED BY <1>3, <1>4 DEF Fifo

\* An attachment that was replaced stays so.
LEMMA SupersededStays ==
  ASSUME Greeted, [Next]_vars, NEW c, Superseded(c)
  PROVE  Superseded(c)'
<1>1. c \in Conns /\ link'[c] # "waiting" BY LinksGoOn DEF Superseded
<1>2. ASSUME UNCHANGED lease PROVE Superseded(c)' BY <1>1, <1>2 DEF Superseded
<1> USE DEF gateVars
<1>3. ASSUME NEW r \in Attempts, RawStep(r) \/ GateStep(r) PROVE Superseded(c)'
  BY <1>2, <1>3
     DEF RawStep, Checkpoint, Reserve, BeginWrite, WriteSucceeds, WriteFails, CommitInput, UnchangedByRaw,
         GateStep, MintPermit, LaneTimeout, RawTimeout, FinishInput
<1>4. ASSUME NEW d \in Conns, ReadStep(d) PROVE Superseded(c)'
  <2>1. CASE HandleAttach(d)
    <3>1. d # c /\ lease' = d BY <2>1 DEF HandleAttach, Superseded
    <3> QED BY <1>1, <3>1 DEF Superseded
  <2>2. ASSUME NEW final \in BOOLEAN, ServerDrop(d, final) PROVE Superseded(c)'
    <3>1. lease' \in {lease, 0} BY <2>2 DEF ServerDrop
    <3>2. c # 0 BY <1>1 DEF Conns
    <3> QED BY <1>1, <3>1, <3>2 DEF Superseded
  <2> QED BY <1>2, <1>4, <2>1, <2>2 DEF ReadStep, HandleInput
<1>5. CASE SessionStep
  BY <1>2, <1>5 DEF SessionStep, LoseControl, GainControl, RestartSession, RemoveSession
<1>6. CASE UNCHANGED serverVars BY <1>2, <1>6 DEF serverVars
<1> QED BY <1>3, <1>4, <1>5, <1>6 DEF Next, vars

\* A step makes the attempts it sends.
LEMMA MadeBefore ==
  ASSUME WireTypes, SendsInOrder, NEW r \in Attempts, r[2] <= attempts'[r[1]]
  PROVE  \/ r[2] <= attempts[r[1]]
         \/ \A n \in Messages : Before(born', r[1], n) => attempts[n] = 0
<1>1. CASE UNCHANGED attempts BY <1>1
<1>2. ASSUME NEW m \in Messages, Sends(m), r[2] > attempts[r[1]] PROVE r[1] = m
  <2>1. r[1] \in Messages BY AttemptShape
  <2>2. attempts' = [attempts EXCEPT ![m] = attempts[m] + 1] BY <1>2 DEF Sends
  <2>3. r[1] # m => attempts'[r[1]] = attempts[r[1]] BY <2>1, <2>2 DEF WireTypes
  <2>4. attempts[r[1]] \in Nat /\ r[2] \in Nat BY AttemptShape DEF WireTypes
  <2> QED BY <1>2, <2>3, <2>4
<1>3. attempts[r[1]] \in Nat /\ r[2] \in Nat BY AttemptShape DEF WireTypes
<1> QED BY <1>1, <1>2, <1>3 DEF SendsInOrder

\* An attempt that was made and is spent stays so.
LEMMA SpentStays ==
  ASSUME IInv, QueueInv, Pausing, Greeted, [Next]_vars, NEW r \in Attempts, r[2] <= attempts[r[1]], Spent(r)
  PROVE  Spent(r)'
<1>0. WireTypes /\ Dialled /\ SendsInOrder BY StepSends DEF IInv, WireInv
<1>1. GoesOn(r) /\ cancelled \subseteq cancelled' BY AllGoOn
<1>2. UNCHANGED via[r] BY <1>0, MadeStays DEF SendsInOrder
<1>3. CASE phase[r] \in {"returned", "done", "writing", "wrote"} \/ r \in cancelled
  BY <1>1, <1>3 DEF Spent, GoesOn
<1>4. CASE phase[r] \in {"none", "lane"} /\ Superseded(via[r])
  <2>1. Superseded(via[r])'
    <3>1. PICK c : c = via[r] OBVIOUS
    <3>2. Superseded(c)' BY <1>4, <3>1, SupersededStays
    <3> QED BY <1>2, <3>1, <3>2 DEF Superseded
  <2>2. lease # via[r] BY <1>4 DEF Superseded
  <2>3. phase'[r] \in {"none", "lane", "done"} BY <1>1, <1>4, <2>2 DEF GoesOn
  <2> QED BY <2>1, <2>3 DEF Spent
<1>5. CASE phase[r] = "none" /\ \A c \in Conns : ~Waits(r, c)
  <2>1. phase'[r] = "none" BY <1>5, ReadsFirst
  <2>2. ASSUME NEW c \in Conns, Waits(r, c)' PROVE FALSE
    <3>1. \E m \in Messages : Sends(m) /\ r = <<m, attempts[m] + 1>>
      BY <1>0, <1>5, <2>2, LosesOnly, SendsOnly DEF SendsInOrder
    <3> QED BY <1>0, <3>1 DEF WireTypes
  <2> QED BY <2>1, <2>2 DEF Spent
<1> QED BY <1>3, <1>4, <1>5 DEF Spent

\* Whoever gets its permit overtakes no earlier input that could still be written.
LEMMA OvertakenKept ==
  ASSUME IInv, QueueInv, Pausing, Greeted, Calls, Fifo, Overtaken, [Next]_vars
  PROVE  Overtaken'
<1> SUFFICES ASSUME NEW r \in Attempts, NEW s \in Attempts, Before(born', r[1], s[1]),
                    phase'[s] \in Minted, r[2] <= attempts'[r[1]]
             PROVE  Spent(r)'
  BY DEF Overtaken
<1>0. WireTypes /\ SendsInOrder BY StepSends DEF IInv, WireInv
<1>1. phase[s] # "none"
  <2>1. GoesOn(s) BY AllGoOn
  <2> QED BY <2>1 DEF GoesOn, Minted, Running, OwnerPhases
<1>2. attempts[s[1]] # 0 /\ s[1] \in Messages BY <1>1, KnownWasMade, AttemptShape
<1>3. Before(born, r[1], s[1]) BY <1>0, <1>2, BornGrows
<1>4. r[2] <= attempts[r[1]] BY <1>0, <1>2, MadeBefore
<1>5. CASE phase[s] \in Minted
  <2>1. Spent(r) BY <1>3, <1>4, <1>5 DEF Overtaken
  <2> QED BY <1>4, <2>1, SpentStays
<1>6. CASE phase[s] \notin Minted
  <2>1. phase[s] = "lane" /\ lane = NoAttempt /\ lease = via[s]
    <3>1. GoesOn(s) BY AllGoOn
    <3> QED BY <1>6, <3>1 DEF GoesOn, Minted, Running, OwnerPhases
  <2>2. via[s] \in Conns /\ reading[via[s]] = s BY <2>1 DEF Calls, Greeted
  <2>3. r # s
    <3>1. r[1] # s[1] BY <1>3, BeforeOnce DEF QueueInv, QueueOf
    <3> QED BY <3>1
  <2>4. CASE phase[r] \in Running
    <3>1. lane # r BY <2>1, NoAttemptIsNone
    <3>2. r \in cancelled BY <2>4, <3>1 DEF Calls
    <3> QED BY <1>4, <3>2, SpentStays DEF Spent
  <2>5. CASE phase[r] \in {"returned", "done"} BY <1>4, <2>5, SpentStays DEF Spent
  <2>6. ASSUME phase[r] \in {"none", "lane"}, via[r] \in Conns, link[via[r]] # "waiting", via[r] # via[s]
        PROVE  Spent(r)'
    <3>1. Superseded(via[r]) BY <2>1, <2>6 DEF Superseded
    <3> QED BY <1>4, <2>6, <3>1, SpentStays DEF Spent
  <2>7. CASE phase[r] = "lane"
    <3>1. reading[via[r]] = r /\ via[r] \in Conns /\ link[via[r]] # "waiting"
      BY <2>7 DEF Calls, Greeted
    <3> QED BY <2>2, <2>3, <2>6, <2>7, <3>1
  <2>8. CASE phase[r] = "none"
    <3>1. CASE \E c \in Conns : Waits(r, c)
      <4>1. PICK c \in Conns : Waits(r, c) BY <3>1
      <4>2. via[r] = c BY <4>1 DEF Waits, IInv, WireInv, FramesOnce
      <4>3. link[c] # "waiting" BY <4>1 DEF Greeted
      <4>4. c # via[s] BY <1>1, <1>3, <4>1 DEF Fifo
      <4> QED BY <2>6, <2>8, <4>2, <4>3, <4>4
    <3>2. CASE \A c \in Conns : ~Waits(r, c) BY <1>4, <2>8, <3>2, SpentStays DEF Spent
    <3> QED BY <3>1, <3>2
  <2>9. phase[r] \in {"none", "lane", "returned", "done"} \cup Running
    BY <1>0 DEF WireTypes, Phases, Running, OwnerPhases
  <2> QED BY <2>4, <2>5, <2>7, <2>8, <2>9
<1> QED BY <1>5, <1>6

\* What a step delivers comes after the rest.
LEMMA DeliversLast ==
  ASSUME LedgerTypes, NEW d, delivered' = Append(delivered, d)
  PROVE  /\ Len(delivered) \in Nat /\ DOMAIN delivered = 1..Len(delivered)
         /\ DOMAIN delivered' = 1..(Len(delivered) + 1)
         /\ \A i \in DOMAIN delivered : delivered'[i] = delivered[i]
         /\ delivered'[Len(delivered) + 1] = d
<1> DEFINE q == delivered
           p == delivered'
<1>1. q \in Seq([msg : Messages, run : 1..MaxRuns]) /\ p = Append(q, d) BY DEF LedgerTypes
<1> HIDE DEF q, p
<1>2. /\ Len(q) \in Nat /\ DOMAIN q = 1..Len(q) /\ DOMAIN p = 1..(Len(q) + 1)
      /\ \A i \in DOMAIN q : p[i] = q[i]
      /\ p[Len(q) + 1] = d
  BY <1>1
<1> QED BY <1>2 DEF q, p

\* A write that has begun is of an input typed after all that its run was given,
\* so what it delivers is in order.
LEMMA DeliveriesKept ==
  ASSUME IInv, QueueInv, Calls, Writers, Overtaken, Deliveries, InOrder, [Next]_vars
  PROVE  Deliveries' /\ InOrder'
<1>1. WireTypes /\ LedgerTypes BY DEF IInv, WireInv, LedgerInv
<1>2. /\ \A s \in Attempts : GoesOn(s)
      /\ TargetsStay /\ DeliversWrites
  BY AllGoOn
<1>3. ASSUME NEW i \in DOMAIN delivered
      PROVE  \E s \in Attempts : /\ s[1] = delivered[i].msg /\ phase'[s] \in {"wrote", "returned"}
                                 /\ s[1] \in Messages /\ attempts[s[1]] # 0 /\ phase[s] \in Minted
  <2>1. PICK s \in Attempts : s[1] = delivered[i].msg /\ phase[s] \in {"wrote", "returned"}
    BY DEF Deliveries
  <2>2. phase'[s] \in {"wrote", "returned"} /\ phase[s] \in Minted
    <3>1. GoesOn(s) BY <1>2
    <3> QED BY <2>1, <3>1 DEF GoesOn, Minted, Running, OwnerPhases
  <2>3. attempts[s[1]] # 0 /\ s[1] \in Messages BY <2>1, KnownWasMade, AttemptShape
  <2> QED BY <2>1, <2>2, <2>3
<1>4. ASSUME NEW x, NEW i \in DOMAIN delivered, ~Before(born, x, delivered[i].msg)
      PROVE  ~Before(born', x, delivered[i].msg)
  BY <1>1, <1>3, <1>4, BornGrows
<1>5. ASSUME NEW r \in Attempts, phase'[r] = "writing", NEW i \in DOMAIN delivered,
             delivered[i].run = target'[r]
      PROVE  ~Before(born', r[1], delivered[i].msg)
  <2>1. CASE phase[r] = "writing"
    <3>1. target'[r] = target[r] BY <1>2, <1>5, <2>1 DEF TargetsStay
    <3> QED BY <1>4, <1>5, <2>1, <3>1 DEF Deliveries
  <2>2. CASE phase[r] # "writing"
    <3>1. phase[r] = "owned" /\ r \notin cancelled
      <4>1. GoesOn(r) BY <1>2
      <4> QED BY <1>5, <2>2, <4>1 DEF GoesOn
    <3>2. ~Spent(r) BY <3>1 DEF Spent
    <3>3. r[2] <= attempts[r[1]] BY <3>1, KnownWasMade
    <3>4. ~Before(born, r[1], delivered[i].msg) BY <1>3, <3>2, <3>3 DEF Overtaken
    <3> QED BY <1>4, <3>4
  <2> QED BY <2>1, <2>2
<1>6. InOrder <=> \A i, j \in DOMAIN delivered :
        i < j /\ delivered[i].run = delivered[j].run => ~Before(born, delivered[j].msg, delivered[i].msg)
  BY DEF InOrder, Before
<1>7. InOrder' <=> \A i, j \in DOMAIN delivered' :
        i < j /\ delivered'[i].run = delivered'[j].run => ~Before(born', delivered'[j].msg, delivered'[i].msg)
  BY DEF InOrder, Before
<1>8. CASE UNCHANGED delivered
  <2>1. Deliveries' BY <1>3, <1>5, <1>8 DEF Deliveries
  <2>2. InOrder' BY <1>4, <1>6, <1>7, <1>8
  <2> QED BY <2>1, <2>2
<1>9. ASSUME NEW s \in Attempts, phase[s] = "writing", phase'[s] \in {"wrote", "returned"},
             delivered' = Delivery(s)
      PROVE  Deliveries' /\ InOrder'
  <2> DEFINE n == Len(delivered) + 1
  <2>1. /\ n \in Nat /\ DOMAIN delivered = 1..(n - 1) /\ DOMAIN delivered' = 1..n
        /\ \A i \in DOMAIN delivered : delivered'[i] = delivered[i]
        /\ delivered'[n] = [msg |-> s[1], run |-> target[s]]
    BY <1>1, <1>9, DeliversLast DEF Delivery
  <2> HIDE DEF n
  <2>2. delivered'[n].msg = s[1] /\ delivered'[n].run = target[s] BY <2>1
  <2>3. \A i \in DOMAIN delivered' : i \in DOMAIN delivered \/ i = n BY <2>1
  <2>4. \A i \in DOMAIN delivered' : \E q \in Attempts :
          q[1] = delivered'[i].msg /\ phase'[q] \in {"wrote", "returned"}
    BY <1>3, <1>9, <2>1, <2>2, <2>3
  <2>5. ASSUME NEW r \in Attempts, phase'[r] = "writing", NEW i \in DOMAIN delivered',
               delivered'[i].run = target'[r]
        PROVE  ~Before(born', r[1], delivered'[i].msg)
    <3>1. CASE i \in DOMAIN delivered BY <1>5, <2>1, <2>5, <3>1
    <3>2. CASE i = n
      <4>1. phase[r] = "writing"
        <5>1. GoesOn(r) BY <1>2
        <5>2. delivered' # delivered BY <2>1
        <5> QED BY <2>5, <5>1, <5>2 DEF GoesOn
      <4>2. target[r] = target[s] BY <1>2, <2>2, <2>5, <3>2, <4>1 DEF TargetsStay
      <4>3. r = s BY <1>9, <4>1, <4>2 DEF Writers
      <4> QED BY <1>9, <2>5, <4>3
    <3> QED BY <2>3, <3>1, <3>2
  <2>6. ASSUME NEW i \in DOMAIN delivered', NEW j \in DOMAIN delivered', i < j,
               delivered'[i].run = delivered'[j].run
        PROVE  ~Before(born', delivered'[j].msg, delivered'[i].msg)
    <3>1. i \in DOMAIN delivered BY <2>1, <2>6
    <3>2. CASE j \in DOMAIN delivered BY <1>4, <1>6, <2>1, <2>6, <3>1, <3>2
    <3>3. CASE j = n
      <4>1. delivered[i].run = target[s] BY <2>1, <2>2, <2>6, <3>1, <3>3
      <4>2. ~Before(born, s[1], delivered[i].msg) BY <1>9, <3>1, <4>1 DEF Deliveries
      <4> QED BY <1>4, <2>1, <2>2, <3>1, <3>3, <4>2
    <3> QED BY <2>3, <3>2, <3>3
  <2> QED BY <1>7, <2>4, <2>5, <2>6 DEF Deliveries
<1> QED BY <1>2, <1>8, <1>9 DEF DeliversWrites

-----------------------------------------------------------------------------
(* The types                                                               *)

\* The part of the types that an attempt and its timer are about.
SendTypes ==
  /\ attempts \in [Messages -> 0..MaxAttempts] /\ via \in [Attempts -> 0..MaxConn]
  /\ timer \in BOOLEAN /\ due \in Nat /\ (timer => due > 0)
  /\ toServer \in [Conns -> Seq(Frames)]

LoopTypes ==
  /\ elapsed \subseteq Messages /\ confirmed \subseteq Messages
  /\ charged \in Nat /\ halted \in BOOLEAN /\ paused \in BOOLEAN
  /\ conn \in 0..MaxConn /\ client \in ClientStates /\ typing \in BOOLEAN

GateTypes ==
  /\ lease \in 0..MaxConn /\ held \in BOOLEAN /\ takes \in Nat /\ quarantined \in BOOLEAN
  /\ lane \in Attempts \cup {NoAttempt} /\ current \subseteq Attempts /\ cancelled \subseteq Attempts

\* An attempt is made of an input that may be tried again.
LEMMA FireTyped ==
  ASSUME SendTypes, conn \in 0..MaxConn, Dialled, NEW m \in Messages, attempts[m] < MaxAttempts,
         NEW left \in Nat, Fire(m, left)
  PROVE  SendTypes'
<1> DEFINE n == attempts[m] + 1
           r == <<m, n>>
<1>1. n \in 1..MaxAttempts /\ r \in Attempts BY InputConstants DEF SendTypes, Attempts
<1>2. /\ attempts' = [attempts EXCEPT ![m] = n]
      /\ via' = [via EXCEPT ![r] = conn]
      /\ toServer' = IF Linked THEN [toServer EXCEPT ![conn] = Append(@, InputFrame(r))] ELSE toServer
      /\ timer' \in BOOLEAN /\ due' \in {left, left + 1} /\ (timer' => due' = left + 1)
  BY DEF Fire
<1>3. InputFrame(r) \in Frames BY <1>1 DEF Frames
<1> HIDE DEF n, r
<1>4. \A q \in Seq(Frames) : Append(q, InputFrame(r)) \in Seq(Frames) BY <1>3, SeqSteps
<1>5. toServer' \in [Conns -> Seq(Frames)] BY <1>2, <1>4 DEF SendTypes, Dialled
<1>6. attempts' \in [Messages -> 0..MaxAttempts] /\ via' \in [Attempts -> 0..MaxConn]
  BY <1>1, <1>2 DEF SendTypes
<1> QED BY <1>2, <1>5, <1>6 DEF SendTypes

\* A timer that is stopped was armed.
LEMMA StoppedTyped == SendTypes => Stopped \subseteq Nat
BY DEF SendTypes, Stopped

\* The timer that an attempt arms is one more than were left.
LEMMA FireTimes ==
  ASSUME SendTypes, conn \in 0..MaxConn, Dialled, NEW m, m \in Messages => attempts[m] < MaxAttempts,
         \/ FireIfAny(m)
         \/ \E left \in Nat : FireAfterStop(m, left)
  PROVE  SendTypes'
<1>1. CASE m \in Messages
  <2>1. PICK left \in Nat : Fire(m, left) BY <1>1, StoppedTyped DEF FireIfAny, FireAfterStop
  <2> QED BY <1>1, <2>1, FireTyped
<1>2. CASE m \notin Messages BY <1>2 DEF FireIfAny, FireAfterStop, retryVars, SendTypes
<1> QED BY <1>1, <1>2

\* What the client does to its attempts and timers.
LEMMA SendsTyped ==
  ASSUME SendTypes, IInv, conn \in 0..MaxConn, ClientStep
  PROVE  SendTypes'
<1>0. Dialled /\ Stopped \subseteq Nat /\ NoMessage \notin Messages
  BY StoppedTyped, InputConstants DEF IInv
<1>1. ASSUME UNCHANGED <<attempts, via, timer, due, toServer>> PROVE SendTypes'
  BY <1>1 DEF SendTypes
<1>2. \A es, st : ToKick(es, st) \in Messages => attempts[ToKick(es, st)] < MaxAttempts
  BY <1>0, InputConstants DEF ToKick, SendTypes
<1>3. \A p : ToRetry(p) \in Messages => attempts[ToRetry(p)] < MaxAttempts
  BY <1>0, InputConstants DEF ToRetry, SendTypes
<1>4. ASSUME StopTimer PROVE SendTypes'
  BY <1>0, <1>4, FireTimes DEF StopTimer
<1> USE DEF outboxVars, retryVars
<1>5. CASE SendInput \/ \E m \in Messages : WindowElapses(m)
  BY <1>1, <1>5 DEF SendInput, WindowElapses
<1>6. CASE RetryDue
  <2>1. due - 1 \in Nat /\ FireAfterStop(ToRetry(paused), due - 1)
    BY <1>6 DEF RetryDue, SendTypes
  <2> QED BY <1>0, <1>3, <2>1, FireTimes
<1>7. CASE Dial
  <2>1. UNCHANGED <<attempts, via, timer, due>> /\ toServer' = [toServer EXCEPT ![conn + 1] = <<AttachFrame>>]
    BY <1>7 DEF Dial
  <2>2. <<AttachFrame>> \in Seq(Frames) BY DEF Frames
  <2> QED BY <2>1, <2>2 DEF SendTypes
<1>8. CASE ReadError \/ Detach \/ DisposeOnExit \/ PauseOnExit
  BY <1>1, <1>4, <1>8
     DEF ReadError, Detach, DisposeOnExit, PauseOnExit, Disconnect, Pause, Dispose
<1>9. CASE ReceiveEvent
  <2>1. CASE Resume BY <1>0, <1>3, <2>1, FireTimes DEF Resume
  <2>2. CASE FreezePending \/ Dispose \/ Halt BY <1>4, <2>2 DEF FreezePending, Dispose, Halt
  <2>3. ASSUME NEW r \in Attempts, OnAck(r) PROVE SendTypes'
    <3>1. CASE Settles(r)
      <4>1. PICK left \in Stopped : FireAfterStop(ToKick(entries', entryState'), left)
        BY <2>3, <3>1 DEF OnAck
      <4> QED BY <1>0, <1>2, <4>1, FireTimes
    <3>2. CASE ~Settles(r) BY <1>1, <2>3, <3>2 DEF OnAck
    <3> QED BY <3>1, <3>2
  <2> QED BY <1>9, <2>1, <2>2, <2>3 DEF ReceiveEvent
<1>10. ASSUME NEW m \in Messages, Accept(m) PROVE SendTypes'
  <2>1. CASE HasRoom
    <3>1. FireIfAny(ToKick(entries', entryState')) BY <1>10, <2>1 DEF Accept
    <3> QED BY <1>0, <1>2, <3>1, FireTimes
  <2>2. CASE ~HasRoom BY <1>1, <1>10, <2>2 DEF Accept
  <2> QED BY <2>1, <2>2
<1> QED BY <1>5, <1>6, <1>7, <1>8, <1>9, <1>10 DEF ClientStep

\* What the client does to the rest of its state.
LEMMA LoopTyped ==
  ASSUME LoopTypes, ClientStep
  PROVE  LoopTypes'
<1> USE DEF LoopTypes, outboxVars, queueVars, flagVars, loopVars, ClientStates
<1>1. CASE SendInput \/ RetryDue \/ \E m \in Messages : WindowElapses(m)
  BY <1>1 DEF SendInput, RetryDue, WindowElapses
<1>2. CASE Dial BY <1>2, InputConstants DEF Dial
<1>3. CASE ReadError \/ Detach
  <2>1. ASSUME NEW next \in ClientStates, Disconnect(next) PROVE LoopTypes'
    BY <2>1 DEF Disconnect, Pause
  <2>2. ReadError => \E next \in ClientStates : Disconnect(next)
    <3>1. CASE client = "attached" BY <3>1 DEF ReadError
    <3>2. CASE client # "attached" BY <3>2 DEF ReadError
    <3> QED BY <3>1, <3>2
  <2>3. CASE Detach /\ ~Disconnect("leaving") BY <2>3 DEF Detach
  <2> QED BY <1>3, <2>1, <2>2, <2>3
<1>6. CASE DisposeOnExit BY <1>6 DEF DisposeOnExit, Dispose
<1>7. CASE PauseOnExit BY <1>7 DEF PauseOnExit, Pause
<1>4. CASE ReceiveEvent
  <2>1. UNCHANGED <<conn, typing>> BY <1>4 DEF ReceiveEvent
  <2>2. CASE Resume /\ client' = "attached" BY <2>1, <2>2 DEF Resume
  <2>3. CASE FreezePending /\ UNCHANGED client BY <2>1, <2>3 DEF FreezePending
  <2>4. CASE Dispose /\ client' = "ending" BY <2>1, <2>4 DEF Dispose
  <2>5. CASE Halt /\ client' = "ending" BY <2>1, <2>5 DEF Halt
  <2>6. ASSUME NEW r \in Attempts, OnAck(r), UNCHANGED client PROVE LoopTypes'
    BY <2>1, <2>6, AttemptShape DEF OnAck, ChargeOf
  <2> QED BY <1>4, <2>2, <2>3, <2>4, <2>5, <2>6 DEF ReceiveEvent
<1>5. ASSUME NEW m \in Messages, Accept(m) PROVE LoopTypes'
  <2>1. CASE HasRoom
    <3>1. UNCHANGED <<conn, client, confirmed, flagVars, elapsed>> /\ typing' = FALSE /\ charged' = charged + 1
      BY <1>5, <2>1 DEF Accept
    <3>2. charged' \in Nat BY <3>1
    <3>3. halted' \in BOOLEAN /\ paused' \in BOOLEAN BY <3>1
    <3> QED BY <3>1, <3>2, <3>3
  <2>2. CASE ~HasRoom
    <3>1. UNCHANGED <<conn, client, outboxVars>> /\ typing' = FALSE BY <1>5, <2>2 DEF Accept
    <3> QED BY <3>1
  <2> QED BY <2>1, <2>2
<1> QED BY <1>1, <1>2, <1>3, <1>4, <1>5, <1>6, <1>7 DEF ClientStep

\* What the server does to the client's state: it takes frames.
LEMMA ServerTakes ==
  ASSUME SendTypes, LoopTypes, WireTypes, WireTypes', Next, ~ClientStep
  PROVE  SendTypes' /\ LoopTypes'
<1> DEFINE Rests == /\ UNCHANGED <<attempts, via, timer, due>>
                    /\ UNCHANGED <<elapsed, confirmed, charged, halted, paused, conn, client, typing>>
<1>1. Rests
  <2> USE DEF outboxVars, queueVars, flagVars, retryVars, loopVars
  <2>1. ASSUME NEW r \in Attempts, RawStep(r) \/ GateStep(r) PROVE Rests
    BY <2>1
       DEF RawStep, Checkpoint, Reserve, BeginWrite, WriteSucceeds, WriteFails, CommitInput, GateStep,
           MintPermit, LaneTimeout, RawTimeout, FinishInput, UnchangedByRaw, UnchangedByServer
  <2>2. ASSUME NEW c \in Conns, ReadStep(c) PROVE Rests
    BY <2>2 DEF ReadStep, HandleAttach, HandleInput, ServerDrop
  <2>3. CASE SessionStep
    BY <2>3
       DEF SessionStep, LoseControl, GainControl, RestartSession, RemoveSession, UnchangedByServer
  <2> QED BY <2>1, <2>2, <2>3 DEF Next
<1>2. WireLoses BY ServerReads
<1>3. ASSUME NEW c \in Conns PROVE toServer'[c] \in Seq(Frames)
  <2>1. toServer[c] \in Seq(Frames) BY DEF SendTypes
  <2>2. toServer[c] # <<>> => Tail(toServer[c]) \in Seq(Frames) BY <2>1, SeqSteps
  <2>3. <<>> \in Seq(Frames) /\ <<AttachFrame>> \in Seq(Frames) BY DEF Frames
  <2> QED BY <1>2, <2>1, <2>2, <2>3 DEF WireLoses
<1>4. toServer' \in [Conns -> Seq(Frames)] BY <1>3 DEF WireTypes
<1> QED BY <1>1, <1>4 DEF SendTypes, LoopTypes, loopVars

\* What a step does to the gate.
LEMMA GateTyped ==
  ASSUME GateTypes, [Next]_vars
  PROVE  GateTypes'
<1> USE DEF GateTypes, gateVars
<1>1. ASSUME NEW r \in Attempts, RawStep(r) PROVE GateTypes'
  BY <1>1
     DEF RawStep, Checkpoint, Reserve, BeginWrite, WriteSucceeds, WriteFails, CommitInput, UnchangedByRaw
<1>2. ASSUME NEW r \in Attempts, GateStep(r) PROVE GateTypes'
  BY <1>2 DEF GateStep, MintPermit, LaneTimeout, RawTimeout, FinishInput, Quarantine
<1>3. ASSUME NEW c \in Conns, ReadStep(c) PROVE GateTypes'
  <2>1. c \in 0..MaxConn /\ 0 \in 0..MaxConn BY InputConstants DEF Conns
  <2> QED BY <1>3, <2>1 DEF ReadStep, HandleAttach, HandleInput, ServerDrop
<1>4. CASE SessionStep
  <2>1. CASE LoseControl
    <3>1. /\ held' = FALSE /\ takes' = takes + 1 /\ current' = {}
          /\ UNCHANGED <<lease, quarantined, lane, cancelled>>
      BY <2>1 DEF LoseControl
    <3>2. takes' \in Nat BY <3>1
    <3>3. held' \in BOOLEAN /\ quarantined' \in BOOLEAN BY <3>1
    <3> QED BY <3>1, <3>2, <3>3
  <2>2. CASE GainControl BY <2>2 DEF GainControl
  <2>3. CASE RestartSession BY <2>3 DEF RestartSession
  <2>4. CASE RemoveSession BY <2>4 DEF RemoveSession
  <2> QED BY <1>4, <2>1, <2>2, <2>3, <2>4 DEF SessionStep
<1>5. CASE UNCHANGED serverVars BY <1>5 DEF serverVars
<1> QED BY <1>1, <1>2, <1>3, <1>4, <1>5 DEF Next, vars

-----------------------------------------------------------------------------
(* Theorems                                                                *)

\* The initial states satisfy the invariant and map to the promise's.
LEMMA InitHolds == Init => IInv /\ Promise!Init
<1> SUFFICES ASSUME Init PROVE IInv /\ Promise!Init
  OBVIOUS
<1> USE DEF Init, ClientInit, ServerInit
<1>1. \A m : ~Reached(m) BY DEF Reached, Promise!Reached
<1>2. WireInv BY InputConstants DEF WireInv, WireTypes, Unmade, FramesOnce, Phases
<1>3. LedgerInv
  <2>1. LedgerTypes /\ Orphans
    <3>1. run \in 1..MaxRuns BY LedgerConstants
    <3>2. delivered \in Seq([msg : Messages, run : 1..MaxRuns]) OBVIOUS
    <3>3. /\ ledger \in [Messages -> {"none", "pending", "committed", "indeterminate"}]
          /\ target \in [Attempts -> Nat] /\ removed \in BOOLEAN
      OBVIOUS
    <3> QED BY <3>1, <3>2, <3>3 DEF LedgerTypes, Orphans
  <2>2. Ownership /\ Owned BY DEF Ownership, Owned, Owns, OwnerPhases
  <2>3. Remembered /\ WritesOnce /\ CommittedReached
    BY <1>1 DEF Remembered, WritesOnce, CommittedReached
  <2> QED BY <2>1, <2>2, <2>3 DEF LedgerInv
<1>4. AckInv BY DEF AckInv
<1>5. Dialled BY DEF Dialled, Linked
<1> QED BY <1>2, <1>3, <1>4, <1>5 DEF IInv, Promise!Init

\* Every step keeps the invariant and is a step, or a stutter, of the promise.
LEMMA StepKeeps ==
  ASSUME IInv, [Next]_vars
  PROVE  IInv' /\ [Promise!Next]_(Promise!vars)
<1>1. ASSUME ServerEffect
      PROVE  IInv' /\ [Promise!Next]_(Promise!vars)
  BY <1>1 DEF ServerEffect, Promise!Next, Promise!vars, Promise!Deliver, Reached
<1>2. CASE ClientStep /\ UNCHANGED serverVars
  <2>1. ClientEffect BY <1>2, ClientKeeps DEF IInv
  <2>2. UNCHANGED <<phase, run, ledger, orphan, removed, target, delivered>>
    BY <1>2 DEF serverVars, gateVars, callVars, ledgerVars
  <2>3. run' \in 1..MaxRuns BY <2>2 DEF IInv, LedgerInv, LedgerTypes
  <2>4. LedgerInv' BY <2>2, <2>3, LedgerQuiet DEF IInv
  <2>5. [Promise!Next]_(Promise!vars)
    BY <2>1, <2>2 DEF ClientEffect, Promise!Next, Promise!vars, Promise!Confirm, Reached
  <2> QED BY <2>1, <2>4, <2>5 DEF ClientEffect, IInv
<1>3. CASE \E r \in Attempts : RawStep(r) \/ GateStep(r) BY <1>1, <1>3, RawKeeps, GateKeeps
<1>4. CASE \E c \in Conns : ReadStep(c) BY <1>1, <1>4, ReadKeeps
<1>5. CASE SessionStep BY <1>1, <1>5, SessionKeeps
<1>6. CASE UNCHANGED vars
  <2> USE <1>6 DEF vars, clientVars, serverVars, outboxVars, queueVars, flagVars, retryVars, loopVars,
                   gateVars, callVars, ledgerVars
  <2>1. UNCHANGED <<attempts, via, toServer, toClient, conn, client, phase, run, ledger, orphan, removed,
                   target, delivered, confirmed>>
    OBVIOUS
  <2>2. conn' \in Nat /\ run' \in 1..MaxRuns
    BY <2>1 DEF IInv, WireInv, WireTypes, LedgerInv, LedgerTypes
  <2>3. WireInv' /\ LedgerInv' /\ AckInv'
    BY <2>1, <2>2, WireQuiet, LedgerQuiet, PlainAck
        DEF IInv
  <2>4. Dialled' BY <2>1 DEF IInv, Dialled, Linked
  <2>5. UNCHANGED Promise!vars BY <2>1 DEF Promise!vars
  <2> QED BY <2>3, <2>4, <2>5 DEF IInv
<1> QED BY <1>2, <1>3, <1>4, <1>5, <1>6 DEF Next

\* The invariant the other theorems rest on.
THEOREM ExchangeInvariant == Spec => []IInv
<1>1. Init => IInv BY InitHolds
<1>2. IInv /\ [Next]_vars => IInv' BY StepKeeps
<1> QED BY <1>1, <1>2, PTL DEF Spec

\* The exchange implements the promise: no timeout, retry, reconnection, restart
\* or removal makes an input reach a terminal twice, and none settles an input
\* that reached no terminal.
THEOREM InputIsAtMostOnce == Spec => AtMostOnce
<1>1. Init => Promise!Init BY InitHolds
<1>2. IInv /\ [Next]_vars => [Promise!Next]_(Promise!vars) BY StepKeeps
<1> QED BY <1>1, <1>2, ExchangeInvariant, PTL DEF Spec, AtMostOnce, Promise!Spec

\* A pending entry has exactly one goroutine that will resolve it.
THEOREM PendingIsOwned == Spec => []PendingHasOwner
<1>1. IInv => PendingHasOwner
  <2> SUFFICES ASSUME IInv, NEW m \in Messages, ledger[m] = "pending"
               PROVE  Cardinality({r \in Attempts :
                         r[1] = m /\ phase[r] \in OwnerPhases /\ r \notin orphan}) = 1
    BY DEF PendingHasOwner
  <2>1. PICK r \in Attempts : r[1] = m /\ Owns(r) BY DEF IInv, LedgerInv, Owned
  <2>2. \A s \in Attempts : s[1] = m /\ Owns(s) => s = r BY <2>1 DEF IInv, LedgerInv, Ownership
  <2>3. {s \in Attempts : s[1] = m /\ phase[s] \in OwnerPhases /\ s \notin orphan} = {r}
    BY <2>1, <2>2 DEF Owns
  <2> QED BY <2>3, FS_Singleton
<1> QED BY <1>1, ExchangeInvariant, PTL

\* The queue is always in order: the client changes it one step at a time, and
\* the server cannot.
THEOREM QueueInvariant == Spec => []QueueInv
<1>1. Init => QueueInv
  <2> SUFFICES ASSUME Init PROVE QueueInv
    OBVIOUS
  <2>1. <<>> \in Seq(Messages) /\ DOMAIN <<>> = {} OBVIOUS
  <2> QED BY <2>1 DEF Init, ClientInit, QueueInv, QueueOf, Pending
<1>2. QueueInv /\ [Next]_vars => QueueInv'
  <2> SUFFICES ASSUME QueueInv, [Next]_vars PROVE QueueInv'
    OBVIOUS
  <2>1. CASE ClientStep BY <2>1, QueueKeeps
  <2>2. CASE UNCHANGED <<entries, entryState, born, attempts>> BY <2>2 DEF QueueInv
  <2> USE DEF outboxVars, queueVars, retryVars
  <2>3. ASSUME NEW r \in Attempts, RawStep(r) \/ GateStep(r)
        PROVE  UNCHANGED <<entries, entryState, born, attempts>>
    BY <2>3
       DEF RawStep, Checkpoint, Reserve, BeginWrite, WriteSucceeds, WriteFails, CommitInput,
         GateStep,
             MintPermit, LaneTimeout, RawTimeout, FinishInput, UnchangedByRaw, UnchangedByServer
  <2>4. ASSUME NEW c \in Conns, ReadStep(c)
        PROVE  UNCHANGED <<entries, entryState, born, attempts>>
    BY <2>4 DEF ReadStep, HandleAttach, HandleInput, ServerDrop
  <2>5. ASSUME SessionStep PROVE UNCHANGED <<entries, entryState, born, attempts>>
    BY <2>5
       DEF SessionStep, LoseControl, GainControl, RestartSession, RemoveSession,
         UnchangedByServer
  <2>6. ASSUME UNCHANGED vars PROVE UNCHANGED <<entries, entryState, born, attempts>>
    BY <2>6 DEF vars, clientVars
  <2> QED BY <2>1, <2>2, <2>3, <2>4, <2>5, <2>6 DEF Next
<1> QED BY <1>1, <1>2, PTL DEF Spec

\* Single flight: while an input has been sent and not yet settled or frozen,
\* nothing behind it has been sent.
THEOREM OneInFlight == Spec => []SingleFlight
<1>1. QueueInv => SingleFlight
  <2> SUFFICES ASSUME QueueInv, NEW m \in Range(entries), entryState[m] = "pending", attempts[m] > 0
               PROVE  m = HeadOf(entries, entryState)
    BY DEF SingleFlight
  <2>1. PICK j \in DOMAIN entries : m = entries[j] BY DEF Range
  <2>2. j \in Pending(entries, entryState) BY <2>1 DEF Pending
  <2>3. PICK i \in Pending(entries, entryState) :
          HeadOf(entries, entryState) = entries[i] /\ \A x \in Pending(entries, entryState) : i <= x
    BY <2>2, HeadFirst DEF QueueInv, QueueOf
  <2>4. i \in Int /\ j \in Int /\ attempts[m] \in Nat
    BY <2>1, <2>2, <2>3 DEF Pending, QueueInv, QueueOf
  <2>5. ~(i < j)
    <3>1. i < j => Before(born, entries[i], m) BY <2>1, <2>3 DEF Pending, QueueInv, QueueOf
    <3>2. Before(born, entries[i], m) => attempts[m] = 0
      BY <2>1, <2>3 DEF QueueInv, QueueOf
    <3> QED BY <2>4, <3>1, <3>2
  <2>6. i = j BY <2>2, <2>3, <2>4, <2>5
  <2> QED BY <2>1, <2>3, <2>6
<1> QED BY <1>1, QueueInvariant, PTL

\* The order is kept in every state.
THEOREM OrderInvariant == Spec => []OrderInv
<1>1. Init => OrderInv
  <2> SUFFICES ASSUME Init PROVE OrderInv
    OBVIOUS
  <2> USE DEF Init, ClientInit, ServerInit
  <2>1. Pausing BY DEF Pausing
  <2>2. \A c \in Conns : \A r : ~Waits(r, c) BY DEF Waits
  <2>3. \A c \in Conns : \A r, s : ~Behind(r, s, c) BY DEF Behind
  <2>4. Greeted BY <2>2 DEF Greeted
  <2>5. Calls BY NoAttemptIsNone DEF Calls, Running, OwnerPhases
  <2>6. Writers BY DEF Writers
  <2>7. Fifo BY <2>3 DEF Fifo
  <2>8. Overtaken BY DEF Overtaken, Minted, Running, OwnerPhases
  <2>9. Deliveries /\ InOrder BY DEF Deliveries, InOrder
  <2> QED BY <2>1, <2>4, <2>5, <2>6, <2>7, <2>8, <2>9 DEF OrderInv
<1>2. IInv /\ QueueInv /\ OrderInv /\ [Next]_vars => OrderInv'
  BY PausingKept, GreetedKept, CallsKept, WritersKept, FifoKept, OvertakenKept,
     DeliveriesKept
     DEF OrderInv
<1> QED BY <1>1, <1>2, ExchangeInvariant, QueueInvariant, PTL DEF Spec

\* The inputs that reach one terminal reach it in the order they were typed.
THEOREM InputsKeepOrder == Spec => []InOrder
<1>1. OrderInv => InOrder BY DEF OrderInv
<1> QED BY <1>1, OrderInvariant, PTL

\* Every variable of the exchange keeps its type.
THEOREM ExchangeTypes == Spec => []TypeOK
<1> DEFINE Typed == SendTypes /\ LoopTypes /\ GateTypes
<1>1. Init => Typed
  <2> SUFFICES ASSUME Init PROVE Typed
    OBVIOUS
  <2>0. ClientInit /\ ServerInit /\ 0 \in 0..MaxConn /\ 0 \in 0..MaxAttempts
    BY InputConstants DEF Init
  <2>1. SendTypes
    <3>1. <<>> \in Seq(Frames) OBVIOUS
    <3> QED BY <2>0, <3>1 DEF ClientInit, SendTypes
  <2>2. LoopTypes BY <2>0 DEF ClientInit, LoopTypes, ClientStates
  <2>3. GateTypes BY <2>0 DEF ServerInit, GateTypes
  <2> QED BY <2>1, <2>2, <2>3
<1>2. IInv /\ IInv' /\ Typed /\ [Next]_vars => Typed'
  <2> SUFFICES ASSUME IInv, IInv', Typed, [Next]_vars PROVE Typed'
    OBVIOUS
  <2>1. GateTypes' BY GateTyped
  <2>2. CASE ClientStep
    <3>1. SendTypes' BY <2>2, SendsTyped DEF LoopTypes
    <3> QED BY <2>1, <2>2, <3>1, LoopTyped
  <2>3. CASE Next /\ ~ClientStep BY <2>1, <2>3, ServerTakes DEF IInv, WireInv
  <2>4. CASE UNCHANGED vars
    BY <2>1, <2>4
       DEF vars, clientVars, outboxVars, queueVars, flagVars, retryVars, loopVars, SendTypes, LoopTypes
  <2> QED BY <2>2, <2>3, <2>4
<1>3. IInv /\ QueueInv /\ OrderInv /\ Typed => TypeOK
  <2> SUFFICES ASSUME IInv, QueueInv, OrderInv, Typed PROVE TypeOK
    OBVIOUS
  <2>1. toClient \in [Conns -> Seq(Events)]
    <3>1. TrueEvents \subseteq Events BY DEF TrueEvents, Events
    <3>2. \A c \in Conns : toClient[c] \in Seq(Events) BY <3>1, SeqGrows DEF IInv, AckInv
    <3> QED BY <3>2 DEF IInv, AckInv
  <2>2. ClientTypeOK BY <2>1 DEF ClientTypeOK, SendTypes, LoopTypes, QueueInv, QueueOf
  <2>3. delivered \in Seq([msg : Messages, run : Nat])
    <3> DEFINE S == [msg : Messages, run : 1..MaxRuns]
               T == [msg : Messages, run : Nat]
    <3>1. S \subseteq T OBVIOUS
    <3>2. delivered \in Seq(S) BY DEF IInv, LedgerInv, LedgerTypes
    <3> HIDE DEF S, T
    <3>3. delivered \in Seq(T) BY <3>1, <3>2, SeqGrows
    <3> QED BY <3>3 DEF T
  <2>4. ServerTypeOK
    BY <2>3
       DEF ServerTypeOK, GateTypes, OrderInv, Greeted, Calls, IInv, WireInv, WireTypes, LedgerInv, LedgerTypes
  <2> QED BY <2>2, <2>4 DEF TypeOK
<1> QED BY <1>1, <1>2, <1>3, ExchangeInvariant, QueueInvariant, OrderInvariant, PTL DEF Spec

=============================================================================
