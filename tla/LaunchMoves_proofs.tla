------------------------ MODULE LaunchMoves_proofs ------------------------
EXTENDS SharedLaunches, FiniteSetTheorems, SequenceTheorems, TLAPS

(***************************************************************************)
(* The inductive invariant of SharedLaunches, and how its steps move the   *)
(* launches and the releasers.  A launch is a list of steps, built once    *)
(* from its route and its kinds (the plans of session_authority_desktop.go *)
(* and app.go) and taken from the head; the first part shows that every    *)
(* list such a launch can come to is a program: its phases follow each     *)
(* other, it claims and commits once, and a lent lease is remembered right *)
(* away.  SharedLaunches_proofs proves the theorems.                       *)
(***************************************************************************)


\* The phases of a launch, whatever its route.
Rank(op) ==
  IF op \in {"claim", "fresh"} THEN 1
  ELSE IF op \in {"use", "effect", "mark", "verify", "close", "run"} THEN 2
  ELSE IF op \in {"pty", "lend", "remember"} THEN 3
  ELSE IF op = "lease" THEN 4
  ELSE IF op \in {"seal", "owners", "reserve"} THEN 5
  ELSE IF op = "commit" THEN 6
  ELSE 7

\* The two halves of the end of a lease transfer.
Resolves == {"resolve", "resolved"}

\* Step x may stand before step y.
Follows(x, y) ==
  /\ Rank(x[1]) <= Rank(y[1])
  /\ x[1] \in {"claim", "commit"} => y # x
  /\ x[1] = "fresh" => y # <<"claim", x[2]>>
  /\ x[1] \in Resolves => y[1] \notin Resolves

Ordered(s) == \A i, j \in 1..Len(s) : i < j => Follows(s[i], s[j])

\* Nothing comes between a lent lease and the entry of it.
Remembers(s) ==
  \A i \in 1..Len(s) : s[i][1] = "lend" =>
    i < Len(s) /\ s[i + 1] = <<"remember", s[i][2]>>

\* What a launch may have left to do.
Program(s) == s \in Seq(AllSteps) /\ Ordered(s) /\ Remembers(s)

LEMMA EmptyProgram == Program(<<>>) /\ ToSet(<<>>) = {}
BY DEF Program, Ordered, Remembers, ToSet

LEMMA OneProgram ==
  ASSUME NEW x \in AllSteps, x[1] # "lend"
  PROVE  Program(<<x>>) /\ ToSet(<<x>>) = {x}
<1>1. <<x>> \in Seq(AllSteps) /\ Len(<<x>>) = 1 /\ <<x>>[1] = x
  OBVIOUS
<1>2. Ordered(<<x>>) /\ Remembers(<<x>>)
  BY <1>1 DEF Ordered, Remembers
<1>3. ToSet(<<x>>) = {x}
  BY <1>1 DEF ToSet
<1> QED BY <1>1, <1>2, <1>3 DEF Program

\* Two programs make one when all of the first may stand before all of the second.
LEMMA ConcatProgram ==
  ASSUME NEW s, NEW t, Program(s), Program(t),
         \A x \in ToSet(s), y \in ToSet(t) : Follows(x, y)
  PROVE  Program(s \o t) /\ ToSet(s \o t) = ToSet(s) \cup ToSet(t)
<1> DEFINE u == s \o t
<1>1. /\ s \in Seq(AllSteps) /\ t \in Seq(AllSteps) /\ u \in Seq(AllSteps)
      /\ Len(s) \in Nat /\ Len(t) \in Nat /\ Len(u) = Len(s) + Len(t)
      /\ DOMAIN s = 1..Len(s) /\ DOMAIN t = 1..Len(t) /\ DOMAIN u = 1..Len(u)
      /\ \A i \in 1..Len(s) : u[i] = s[i]
      /\ \A i \in 1..Len(t) : u[i + Len(s)] = t[i]
      /\ \A i \in 1..Len(u) : i > Len(s) => u[i] = t[i - Len(s)] /\ i - Len(s) \in 1..Len(t)
  BY DEF Program
<1> HIDE DEF u
<1>2. ToSet(u) = ToSet(s) \cup ToSet(t)
  <2>1. ASSUME NEW i \in DOMAIN u PROVE u[i] \in ToSet(s) \cup ToSet(t)
    <3>1. CASE i <= Len(s) BY <1>1, <3>1 DEF ToSet
    <3>2. CASE i > Len(s) BY <1>1, <3>2 DEF ToSet
    <3> QED BY <1>1, <3>1, <3>2
  <2>2. ASSUME NEW i \in DOMAIN s PROVE s[i] \in ToSet(u)
    <3>1. i \in DOMAIN u /\ u[i] = s[i] BY <1>1
    <3> QED BY <3>1 DEF ToSet
  <2>3. ASSUME NEW i \in DOMAIN t PROVE t[i] \in ToSet(u)
    <3>1. i + Len(s) \in DOMAIN u /\ u[i + Len(s)] = t[i] BY <1>1
    <3> QED BY <3>1 DEF ToSet
  <2> QED BY <2>1, <2>2, <2>3 DEF ToSet
<1>3. Ordered(u)
  <2> SUFFICES ASSUME NEW i \in 1..Len(u), NEW j \in 1..Len(u), i < j
               PROVE  Follows(u[i], u[j])
    BY DEF Ordered
  <2>1. CASE j <= Len(s)
    BY <1>1, <2>1 DEF Program, Ordered
  <2>2. CASE i > Len(s)
    <3>1. i - Len(s) \in 1..Len(t) /\ j - Len(s) \in 1..Len(t)
            /\ i - Len(s) < j - Len(s)
      BY <1>1, <2>2
    <3> QED BY <1>1, <2>2, <3>1 DEF Program, Ordered
  <2>3. CASE i <= Len(s) /\ j > Len(s)
    <3>1. i \in DOMAIN s /\ u[i] = s[i]
      BY <1>1, <2>3
    <3>2. j - Len(s) \in DOMAIN t /\ u[j] = t[j - Len(s)]
      BY <1>1, <2>3
    <3>3. u[i] \in ToSet(s) /\ u[j] \in ToSet(t)
      BY <3>1, <3>2 DEF ToSet
    <3> QED BY <3>3
  <2> QED BY <1>1, <2>1, <2>2, <2>3
<1>4. Remembers(u)
  <2> SUFFICES ASSUME NEW i \in 1..Len(u), u[i][1] = "lend"
               PROVE  i < Len(u) /\ u[i + 1] = <<"remember", u[i][2]>>
    BY DEF Remembers
  <2>1. CASE i <= Len(s)
    <3>1. i \in 1..Len(s) /\ u[i] = s[i] BY <1>1, <2>1
    <3>2. i < Len(s) /\ s[i + 1] = <<"remember", s[i][2]>> BY <3>1 DEF Program, Remembers
    <3>3. i + 1 \in 1..Len(s) BY <1>1, <3>2
    <3> QED BY <1>1, <3>1, <3>2, <3>3
  <2>2. CASE i > Len(s)
    <3> DEFINE k == i - Len(s)
    <3>1. k \in 1..Len(t) /\ u[i] = t[k] BY <1>1, <2>2
    <3>2. k < Len(t) /\ t[k + 1] = <<"remember", t[k][2]>> BY <3>1 DEF Program, Remembers
    <3>3. k + 1 \in 1..Len(t) /\ i + 1 = (k + 1) + Len(s) BY <1>1, <3>1, <3>2
    <3>4. u[i + 1] = t[k + 1] /\ i < Len(u) BY <1>1, <3>2, <3>3
    <3> QED BY <3>1, <3>2, <3>4
  <2> QED BY <1>1, <2>1, <2>2
<1> QED BY <1>1, <1>2, <1>3, <1>4 DEF Program, u

\* What is left of a program is a program, and its head came before all of it.
LEMMA TailProgram ==
  ASSUME NEW s, Program(s), s # <<>>
  PROVE  /\ Program(Tail(s))
         /\ Head(s) \in AllSteps
         /\ ToSet(s) = {Head(s)} \cup ToSet(Tail(s))
         /\ \A y \in ToSet(Tail(s)) : Follows(Head(s), y)
         /\ Head(s)[1] = "lend" =>
              Tail(s) # <<>> /\ Head(Tail(s)) = <<"remember", Head(s)[2]>>
<1> DEFINE u == Tail(s)
<1>1. /\ s \in Seq(AllSteps) /\ u \in Seq(AllSteps) /\ Len(s) \in Nat \ {0}
      /\ Len(u) \in Nat /\ Len(s) = Len(u) + 1
      /\ DOMAIN s = 1..Len(s) /\ DOMAIN u = 1..Len(u)
      /\ \A i \in 1..Len(u) : u[i] = s[i + 1] /\ i + 1 \in 1..Len(s)
      /\ Head(s) = s[1] /\ 1 \in 1..Len(s)
  BY DEF Program
<1> HIDE DEF u
<1>2. Ordered(u)
  BY <1>1 DEF Program, Ordered
<1>3. Remembers(u)
  <2> SUFFICES ASSUME NEW i \in 1..Len(u), u[i][1] = "lend"
               PROVE  i < Len(u) /\ u[i + 1] = <<"remember", u[i][2]>>
    BY DEF Remembers
  <2>1. i + 1 \in 1..Len(s) /\ u[i] = s[i + 1] BY <1>1
  <2>2. i + 1 < Len(s) /\ s[i + 2] = <<"remember", s[i + 1][2]>>
    BY <1>1, <2>1 DEF Program, Remembers
  <2>3. i + 1 \in 1..Len(u) BY <1>1, <2>2
  <2> QED BY <1>1, <2>1, <2>2, <2>3
<1>4. ToSet(s) = {Head(s)} \cup ToSet(u)
  <2>1. ASSUME NEW i \in DOMAIN s PROVE s[i] \in {Head(s)} \cup ToSet(u)
    <3>1. CASE i = 1 BY <1>1, <3>1
    <3>2. CASE i # 1
      <4>1. i - 1 \in 1..Len(u) /\ u[i - 1] = s[i] BY <1>1, <3>2
      <4> QED BY <1>1, <4>1 DEF ToSet
    <3> QED BY <3>1, <3>2
  <2>2. ASSUME NEW i \in DOMAIN u PROVE u[i] \in ToSet(s)
    BY <1>1 DEF ToSet
  <2>3. Head(s) \in ToSet(s) BY <1>1 DEF ToSet
  <2> QED BY <2>1, <2>2, <2>3 DEF ToSet
<1>5. \A y \in ToSet(u) : Follows(Head(s), y)
  BY <1>1 DEF Program, Ordered, ToSet
<1>6. Head(s) \in AllSteps BY <1>1
<1>7. Head(s)[1] = "lend" => u # <<>> /\ Head(u) = <<"remember", Head(s)[2]>>
  BY <1>1 DEF Program, Remembers
<1> QED BY <1>1, <1>2, <1>3, <1>4, <1>5, <1>6, <1>7 DEF Program, u

\* SetToSeq lists each member of a finite set exactly once.
LEMMA Listed ==
  ASSUME NEW S, IsFiniteSet(S)
  PROVE  /\ Cardinality(S) \in Nat
         /\ SetToSeq(S) \in [1..Cardinality(S) -> S]
         /\ \A i, j \in 1..Cardinality(S) : SetToSeq(S)[i] = SetToSeq(S)[j] => i = j
         /\ \A x \in S : \E i \in 1..Cardinality(S) : SetToSeq(S)[i] = x
<1> DEFINE n == Cardinality(S)
           f == SetToSeq(S)
<1>1. n \in Nat /\ ExistsBijection(1..n, S)
  BY FS_CardinalityType
<1>2. \E g \in [1..n -> S] : IsInjective(g)
  BY <1>1 DEF ExistsBijection, Bijection, Injection
<1>3. f \in [1..n -> S] /\ IsInjective(f)
  BY <1>2 DEF SetToSeq
<1>4. IsFiniteSet(1..n) /\ Cardinality(1..n) = n
  BY <1>1, FS_Interval
<1>5. f \in Injection(1..n, S)
  BY <1>3 DEF Injection
<1>6. f \in Surjection(1..n, S)
  BY <1>4, <1>5, FS_Injection
<1> QED
  BY <1>1, <1>3, <1>6 DEF IsInjective, Surjection

\* A launch needs finitely many kinds: there are finitely many headrooms.
LEMMA KindsFinite == \A K \in SUBSET Kinds : IsFiniteSet(K)
BY KindsAssumption, FS_AddElement, FS_Subset DEF Kinds

\* A step for each of some kinds.
LEMMA EachProgram ==
  ASSUME NEW op \in KindSteps \ {"lend"}, NEW K \in SUBSET Kinds,
         op \in HeadroomSteps => K \subseteq Headrooms
  PROVE  Program(Each(op, K)) /\ ToSet(Each(op, K)) = {op} \X K
<1> DEFINE S == {op} \X K
           n == Cardinality(S)
           f == SetToSeq(S)
           pair == [k \in K |-> <<op, k>>]
<1>1. IsFiniteSet(S)
  <2>1. pair \in Surjection(K, S)
    BY DEF Surjection
  <2> QED BY <2>1, KindsFinite, FS_Surjection
<1>2. /\ n \in Nat /\ f \in [1..n -> S]
      /\ \A i, j \in 1..n : f[i] = f[j] => i = j
      /\ \A x \in S : \E i \in 1..n : f[i] = x
  <2> HIDE DEF S
  <2> QED BY <1>1, Listed
<1>3. S \subseteq AllSteps /\ \A x \in S : x[1] = op
  BY DEF AllSteps
<1>4. f = Each(op, K)
  BY DEF Each
<1> HIDE DEF S, n, f
<1>5. f \in Seq(AllSteps) /\ DOMAIN f = 1..n /\ Len(f) = n
  BY <1>2, <1>3
<1>6. Ordered(f)
  BY <1>2, <1>3, <1>5 DEF Ordered, Follows, Rank, Resolves, KindSteps
<1>7. Remembers(f)
  BY <1>2, <1>3, <1>5 DEF Remembers
<1>8. ToSet(f) = S
  BY <1>2, <1>5 DEF ToSet
<1> QED BY <1>4, <1>5, <1>6, <1>7, <1>8 DEF Program, S

\* The leases that a desktop launch lends, each remembered at once.
LEMMA LendProgram ==
  ASSUME NEW K \in SUBSET Kinds
  PROVE  /\ Program(LendEach(K))
         /\ ToSet(LendEach(K)) = {"lend", "remember"} \X K
<1> DEFINE n == Cardinality(K)
           q == SetToSeq(K)
           f == LendEach(K)
<1>1. /\ n \in Nat /\ q \in [1..n -> K]
      /\ \A x \in K : \E i \in 1..n : q[i] = x
  BY KindsFinite, Listed
<1>2. f = [i \in 1..(2 * n) |-> <<IF i % 2 = 1 THEN "lend" ELSE "remember", q[(i + 1) \div 2]>>]
  BY DEF LendEach
<1> HIDE DEF f, q, n
<1>3. \A i \in 1..(2 * n) : (i + 1) \div 2 \in 1..n
  BY <1>1
<1>4. \A i \in 1..(2 * n) : i % 2 = 1 => i < 2 * n /\ (i + 1) % 2 # 1
                                           /\ (i + 2) \div 2 = (i + 1) \div 2
  BY <1>1
<1>5. DOMAIN f = 1..(2 * n) /\ f \in [1..(2 * n) -> {"lend", "remember"} \X K]
  BY <1>1, <1>2, <1>3
<1>6. f \in Seq(AllSteps) /\ Len(f) = 2 * n
  <2>1. {"lend", "remember"} \X K \subseteq AllSteps
    BY DEF AllSteps, KindSteps, HeadroomSteps
  <2>2. 2 * n \in Nat BY <1>1
  <2>3. f \in [1..(2 * n) -> AllSteps] BY <1>5, <2>1
  <2> QED BY <2>2, <2>3
<1>7. Ordered(f)
  BY <1>5, <1>6 DEF Ordered, Follows, Rank, Resolves
<1>8. Remembers(f)
  <2> SUFFICES ASSUME NEW i \in 1..(2 * n), f[i][1] = "lend"
               PROVE  i < 2 * n /\ f[i + 1] = <<"remember", f[i][2]>>
    BY <1>6 DEF Remembers
  <2>1. i % 2 = 1 BY <1>2
  <2>2. i + 1 \in 1..(2 * n) BY <1>1, <1>4, <2>1
  <2>3. (i + 1) + 1 = i + 2 BY <1>1
  <2> QED BY <1>2, <1>4, <2>1, <2>2, <2>3
<1>9. ToSet(f) = {"lend", "remember"} \X K
  <2>1. ToSet(f) \subseteq {"lend", "remember"} \X K BY <1>5 DEF ToSet
  <2>2. ASSUME NEW x \in K PROVE <<"lend", x>> \in ToSet(f) /\ <<"remember", x>> \in ToSet(f)
    <3>1. PICK i \in 1..n : q[i] = x BY <1>1
    <3>2. /\ 2 * i - 1 \in 1..(2 * n) /\ 2 * i \in 1..(2 * n)
          /\ (2 * i - 1) % 2 = 1 /\ (2 * i) % 2 # 1
          /\ ((2 * i - 1) + 1) \div 2 = i /\ (2 * i + 1) \div 2 = i
      BY <1>1
    <3>3. f[2 * i - 1] = <<"lend", x>> /\ f[2 * i] = <<"remember", x>>
      BY <1>2, <3>1, <3>2
    <3> QED BY <1>5, <3>2, <3>3 DEF ToSet
  <2>3. {"lend", "remember"} \X K \subseteq ToSet(f)
    <3> SUFFICES ASSUME NEW y \in {"lend", "remember"}, NEW x \in K
                 PROVE  <<y, x>> \in ToSet(f)
      OBVIOUS
    <3> QED BY <2>2
  <2> QED BY <2>1, <2>3
<1> QED BY <1>6, <1>7, <1>8, <1>9 DEF Program, f

\* Steps without a kind.
Plain(ops) == ops \X {Off}

\* The ends of the plans, from the seal of the authority on, and of an undone
\* desktop launch.
CreateTail ==
  <<Step("reserve"), Step("seal"), Step("commit"), Step("open"), Step("resolve")>>

RestartTail ==
  <<Step("seal"), Step("owners"), Step("reserve"), Step("commit"), Step("open"),
    Step("resolve")>>

DesktopTail == <<Step("pty"), Step("seal"), Step("commit"), Step("open")>>

SweepTail == <<Step("sweep"), Step("swept")>>

\* The lists without a kind are programs, of the steps they name.
LEMMA PlainProgram ==
  /\ Program(<<>>) /\ ToSet(<<>>) = {}
  /\ \A op \in PlainSteps : Program(<<Step(op)>>) /\ ToSet(<<Step(op)>>) = Plain({op})
  /\ Program(CreateTail)
  /\ ToSet(CreateTail) = Plain({"reserve", "seal", "commit", "open", "resolve"})
  /\ Program(RestartTail)
  /\ ToSet(RestartTail) = Plain({"seal", "owners", "reserve", "commit", "open", "resolve"})
  /\ Program(DesktopTail)
  /\ ToSet(DesktopTail) = Plain({"pty", "seal", "commit", "open"})
  /\ Program(SweepTail)
  /\ ToSet(SweepTail) = Plain({"sweep", "swept"})
<1>1. ASSUME NEW op \in PlainSteps
      PROVE  Program(<<Step(op)>>) /\ ToSet(<<Step(op)>>) = Plain({op})
  <2>1. Step(op) \in AllSteps /\ Step(op)[1] # "lend"
    BY DEF AllSteps, PlainSteps, Step
  <2> QED BY <2>1, OneProgram DEF Plain, Step
<1>2. Program(CreateTail) /\ ToSet(CreateTail) = Plain({"reserve", "seal", "commit", "open", "resolve"})
  <2> USE DEF CreateTail, Step
  <2>1. CreateTail \in Seq(AllSteps) BY DEF AllSteps, PlainSteps
  <2>2. Ordered(CreateTail) BY DEF Ordered, Follows, Rank, Resolves
  <2>3. Remembers(CreateTail) BY DEF Remembers
  <2>4. ToSet(CreateTail) = Plain({"reserve", "seal", "commit", "open", "resolve"})
    BY DEF ToSet, Plain
  <2> QED BY <2>1, <2>2, <2>3, <2>4 DEF Program
<1>3. Program(RestartTail) /\ ToSet(RestartTail) = Plain({"seal", "owners", "reserve", "commit", "open", "resolve"})
  <2> USE DEF RestartTail, Step
  <2>1. RestartTail \in Seq(AllSteps) BY DEF AllSteps, PlainSteps
  <2>2. Ordered(RestartTail) BY DEF Ordered, Follows, Rank, Resolves
  <2>3. Remembers(RestartTail) BY DEF Remembers
  <2>4. ToSet(RestartTail) = Plain({"seal", "owners", "reserve", "commit", "open", "resolve"})
    BY DEF ToSet, Plain
  <2> QED BY <2>1, <2>2, <2>3, <2>4 DEF Program
<1>4. Program(DesktopTail) /\ ToSet(DesktopTail) = Plain({"pty", "seal", "commit", "open"})
  <2> USE DEF DesktopTail, Step
  <2>1. DesktopTail \in Seq(AllSteps) BY DEF AllSteps, PlainSteps
  <2>2. Ordered(DesktopTail) BY DEF Ordered, Follows, Rank, Resolves
  <2>3. Remembers(DesktopTail) BY DEF Remembers
  <2>4. ToSet(DesktopTail) = Plain({"pty", "seal", "commit", "open"}) BY DEF ToSet, Plain
  <2> QED BY <2>1, <2>2, <2>3, <2>4 DEF Program
<1>5. Program(SweepTail) /\ ToSet(SweepTail) = Plain({"sweep", "swept"})
  <2> USE DEF SweepTail, Step
  <2>1. SweepTail \in Seq(AllSteps) BY DEF AllSteps, PlainSteps
  <2>2. Ordered(SweepTail) BY DEF Ordered, Follows, Rank, Resolves
  <2>3. Remembers(SweepTail) BY DEF Remembers
  <2>4. ToSet(SweepTail) = Plain({"sweep", "swept"}) BY DEF ToSet, Plain
  <2> QED BY <2>1, <2>2, <2>3, <2>4 DEF Program
<1> QED BY EmptyProgram, <1>1, <1>2, <1>3, <1>4, <1>5

\* The steps that a launch begins with.
Forward(how, K) ==
  LET H == K \cap Headrooms
      C == K \ Headrooms
  IN  IF how = "create"
        THEN ({"claim", "lease"} \X K) \cup ({"fresh"} \X C) \cup ({"effect"} \X H)
               \cup Plain({"pty", "reserve", "seal", "commit", "open", "resolve"})
      ELSE IF how = "restart"
        THEN ({"claim", "lease", "unclaim"} \X K) \cup ({"fresh"} \X C)
               \cup ({"effect"} \X H)
               \cup Plain({"close", "pty", "seal", "owners", "reserve", "commit",
                           "open", "resolve"})
      ELSE ({"claim", "lend", "remember", "unclaim"} \X K) \cup ({"use"} \X H)
             \cup Plain({"run", "pty", "seal", "commit", "open", "watch"})

\* The plan of a launch is a program, of just these steps.
LEMMA ForwardProgram ==
  ASSUME NEW how \in {"create", "restart", "desktop"}, NEW K \in SUBSET Kinds
  PROVE  Program(Steps(how, K)) /\ ToSet(Steps(how, K)) = Forward(how, K)
<1> DEFINE H == K \cap Headrooms
           C == K \ Headrooms
<1>1. H \in SUBSET Kinds /\ C \in SUBSET Kinds /\ K = H \cup C /\ H \cap C = {}
  OBVIOUS
<1>2. \A op \in KindSteps \ {"lend"}, L \in {H, C, K} :
        op \notin HeadroomSteps \/ L = H =>
          Program(Each(op, L)) /\ ToSet(Each(op, L)) = {op} \X L
  BY <1>1, EachProgram
<1>3. Program(LendEach(K)) /\ ToSet(LendEach(K)) = {"lend", "remember"} \X K
  BY LendProgram
<1> HIDE DEF H, C
<1>4. ASSUME how = "create"
      PROVE  Program(Steps(how, K)) /\ ToSet(Steps(how, K)) = Forward(how, K)
  <2> DEFINE s1 == Each("claim", C)
             s2 == s1 \o Each("fresh", C)
             s3 == s2 \o Each("claim", H)
             s4 == s3 \o Each("effect", H)
             s5 == s4 \o <<Step("pty")>>
             s6 == s5 \o Each("lease", K)
             s7 == s6 \o CreateTail
  <2>1. Program(s1) /\ ToSet(s1) = ({"claim"} \X C)
    BY <1>2 DEF KindSteps, HeadroomSteps, PlainSteps
  <2> HIDE DEF s1
  <2>2. Program(s2) /\ ToSet(s2) = ToSet(s1) \cup ({"fresh"} \X C)
    <3>1. Program(Each("fresh", C)) /\ ToSet(Each("fresh", C)) = ({"fresh"} \X C)
      BY <1>2 DEF KindSteps, HeadroomSteps, PlainSteps
    <3>2. \A x \in ToSet(s1), y \in ({"fresh"} \X C) : Follows(x, y)
      BY <1>1, <2>1 DEF Follows, Rank, Resolves, Plain
    <3> QED BY <2>1, <3>1, <3>2, ConcatProgram
  <2> HIDE DEF s2
  <2>3. Program(s3) /\ ToSet(s3) = ToSet(s2) \cup ({"claim"} \X H)
    <3>1. Program(Each("claim", H)) /\ ToSet(Each("claim", H)) = ({"claim"} \X H)
      BY <1>2 DEF KindSteps, HeadroomSteps, PlainSteps
    <3>2. \A x \in ToSet(s2), y \in ({"claim"} \X H) : Follows(x, y)
      BY <1>1, <2>1, <2>2 DEF Follows, Rank, Resolves, Plain
    <3> QED BY <2>2, <3>1, <3>2, ConcatProgram
  <2> HIDE DEF s3
  <2>4. Program(s4) /\ ToSet(s4) = ToSet(s3) \cup ({"effect"} \X H)
    <3>1. Program(Each("effect", H)) /\ ToSet(Each("effect", H)) = ({"effect"} \X H)
      BY <1>2 DEF KindSteps, HeadroomSteps, PlainSteps
    <3>2. \A x \in ToSet(s3), y \in ({"effect"} \X H) : Follows(x, y)
      BY <1>1, <2>1, <2>2, <2>3 DEF Follows, Rank, Resolves, Plain
    <3> QED BY <2>3, <3>1, <3>2, ConcatProgram
  <2> HIDE DEF s4
  <2>5. Program(s5) /\ ToSet(s5) = ToSet(s4) \cup Plain({"pty"})
    <3>1. Program(<<Step("pty")>>) /\ ToSet(<<Step("pty")>>) = Plain({"pty"})
      BY PlainProgram DEF KindSteps, PlainSteps
    <3>2. \A x \in ToSet(s4), y \in Plain({"pty"}) : Follows(x, y)
      BY <1>1, <2>1, <2>2, <2>3, <2>4 DEF Follows, Rank, Resolves, Plain
    <3> QED BY <2>4, <3>1, <3>2, ConcatProgram
  <2> HIDE DEF s5
  <2>6. Program(s6) /\ ToSet(s6) = ToSet(s5) \cup ({"lease"} \X K)
    <3>1. Program(Each("lease", K)) /\ ToSet(Each("lease", K)) = ({"lease"} \X K)
      BY <1>2 DEF KindSteps, HeadroomSteps, PlainSteps
    <3>2. \A x \in ToSet(s5), y \in ({"lease"} \X K) : Follows(x, y)
      BY <1>1, <2>1, <2>2, <2>3, <2>4, <2>5 DEF Follows, Rank, Resolves, Plain
    <3> QED BY <2>5, <3>1, <3>2, ConcatProgram
  <2> HIDE DEF s6
  <2>7. /\ Program(s7)
        /\ ToSet(s7) = ToSet(s6) \cup Plain({"reserve", "seal", "commit", "open", "resolve"})
    <3>1. /\ Program(CreateTail)
          /\ ToSet(CreateTail) = Plain({"reserve", "seal", "commit", "open", "resolve"})
      BY PlainProgram DEF KindSteps, PlainSteps
    <3>2. \A x \in ToSet(s6), y \in Plain({"reserve", "seal", "commit", "open", "resolve"}) : Follows(x, y)
      BY <1>1, <2>1, <2>2, <2>3, <2>4, <2>5, <2>6 DEF Follows, Rank, Resolves, Plain
    <3> QED BY <2>6, <3>1, <3>2, ConcatProgram
  <2> HIDE DEF s7
  <2>8. Steps(how, K) = s7
    BY <1>4 DEF Steps, s1, s2, s3, s4, s5, s6, s7, H, C, CreateTail
  <2>9. ToSet(s7) = Forward(how, K)
    BY <1>4, <1>1, <2>1, <2>2, <2>3, <2>4, <2>5, <2>6, <2>7 DEF Forward, Plain, H, C
  <2> QED BY <2>7, <2>8, <2>9
<1>5. ASSUME how = "restart"
      PROVE  Program(Steps(how, K)) /\ ToSet(Steps(how, K)) = Forward(how, K)
  <2> DEFINE s1 == Each("claim", C)
             s2 == s1 \o Each("fresh", C)
             s3 == s2 \o Each("claim", H)
             s4 == s3 \o <<Step("close")>>
             s5 == s4 \o Each("effect", H)
             s6 == s5 \o <<Step("pty")>>
             s7 == s6 \o Each("lease", K)
             s8 == s7 \o RestartTail
             s9 == s8 \o Each("unclaim", K)
  <2>1. Program(s1) /\ ToSet(s1) = ({"claim"} \X C)
    BY <1>2 DEF KindSteps, HeadroomSteps, PlainSteps
  <2> HIDE DEF s1
  <2>2. Program(s2) /\ ToSet(s2) = ToSet(s1) \cup ({"fresh"} \X C)
    <3>1. Program(Each("fresh", C)) /\ ToSet(Each("fresh", C)) = ({"fresh"} \X C)
      BY <1>2 DEF KindSteps, HeadroomSteps, PlainSteps
    <3>2. \A x \in ToSet(s1), y \in ({"fresh"} \X C) : Follows(x, y)
      BY <1>1, <2>1 DEF Follows, Rank, Resolves, Plain
    <3> QED BY <2>1, <3>1, <3>2, ConcatProgram
  <2> HIDE DEF s2
  <2>3. Program(s3) /\ ToSet(s3) = ToSet(s2) \cup ({"claim"} \X H)
    <3>1. Program(Each("claim", H)) /\ ToSet(Each("claim", H)) = ({"claim"} \X H)
      BY <1>2 DEF KindSteps, HeadroomSteps, PlainSteps
    <3>2. \A x \in ToSet(s2), y \in ({"claim"} \X H) : Follows(x, y)
      BY <1>1, <2>1, <2>2 DEF Follows, Rank, Resolves, Plain
    <3> QED BY <2>2, <3>1, <3>2, ConcatProgram
  <2> HIDE DEF s3
  <2>4. Program(s4) /\ ToSet(s4) = ToSet(s3) \cup Plain({"close"})
    <3>1. Program(<<Step("close")>>) /\ ToSet(<<Step("close")>>) = Plain({"close"})
      BY PlainProgram DEF KindSteps, PlainSteps
    <3>2. \A x \in ToSet(s3), y \in Plain({"close"}) : Follows(x, y)
      BY <1>1, <2>1, <2>2, <2>3 DEF Follows, Rank, Resolves, Plain
    <3> QED BY <2>3, <3>1, <3>2, ConcatProgram
  <2> HIDE DEF s4
  <2>5. Program(s5) /\ ToSet(s5) = ToSet(s4) \cup ({"effect"} \X H)
    <3>1. Program(Each("effect", H)) /\ ToSet(Each("effect", H)) = ({"effect"} \X H)
      BY <1>2 DEF KindSteps, HeadroomSteps, PlainSteps
    <3>2. \A x \in ToSet(s4), y \in ({"effect"} \X H) : Follows(x, y)
      BY <1>1, <2>1, <2>2, <2>3, <2>4 DEF Follows, Rank, Resolves, Plain
    <3> QED BY <2>4, <3>1, <3>2, ConcatProgram
  <2> HIDE DEF s5
  <2>6. Program(s6) /\ ToSet(s6) = ToSet(s5) \cup Plain({"pty"})
    <3>1. Program(<<Step("pty")>>) /\ ToSet(<<Step("pty")>>) = Plain({"pty"})
      BY PlainProgram DEF KindSteps, PlainSteps
    <3>2. \A x \in ToSet(s5), y \in Plain({"pty"}) : Follows(x, y)
      BY <1>1, <2>1, <2>2, <2>3, <2>4, <2>5 DEF Follows, Rank, Resolves, Plain
    <3> QED BY <2>5, <3>1, <3>2, ConcatProgram
  <2> HIDE DEF s6
  <2>7. Program(s7) /\ ToSet(s7) = ToSet(s6) \cup ({"lease"} \X K)
    <3>1. Program(Each("lease", K)) /\ ToSet(Each("lease", K)) = ({"lease"} \X K)
      BY <1>2 DEF KindSteps, HeadroomSteps, PlainSteps
    <3>2. \A x \in ToSet(s6), y \in ({"lease"} \X K) : Follows(x, y)
      BY <1>1, <2>1, <2>2, <2>3, <2>4, <2>5, <2>6 DEF Follows, Rank, Resolves, Plain
    <3> QED BY <2>6, <3>1, <3>2, ConcatProgram
  <2> HIDE DEF s7
  <2>8. /\ Program(s8)
        /\ ToSet(s8) = ToSet(s7) \cup Plain({"seal", "owners", "reserve", "commit", "open", "resolve"})
    <3>1. /\ Program(RestartTail)
          /\ ToSet(RestartTail) = Plain({"seal", "owners", "reserve", "commit", "open", "resolve"})
      BY PlainProgram DEF KindSteps, PlainSteps
    <3>2. \A x \in ToSet(s7), y \in Plain({"seal", "owners", "reserve", "commit", "open", "resolve"}) : Follows(x, y)
      BY <1>1, <2>1, <2>2, <2>3, <2>4, <2>5, <2>6, <2>7 DEF Follows, Rank, Resolves, Plain
    <3> QED BY <2>7, <3>1, <3>2, ConcatProgram
  <2> HIDE DEF s8
  <2>9. Program(s9) /\ ToSet(s9) = ToSet(s8) \cup ({"unclaim"} \X K)
    <3>1. Program(Each("unclaim", K)) /\ ToSet(Each("unclaim", K)) = ({"unclaim"} \X K)
      BY <1>2 DEF KindSteps, HeadroomSteps, PlainSteps
    <3>2. \A x \in ToSet(s8), y \in ({"unclaim"} \X K) : Follows(x, y)
      BY <1>1, <2>1, <2>2, <2>3, <2>4, <2>5, <2>6, <2>7, <2>8 DEF Follows, Rank, Resolves, Plain
    <3> QED BY <2>8, <3>1, <3>2, ConcatProgram
  <2> HIDE DEF s9
  <2>10. Steps(how, K) = s9
    BY <1>5 DEF Steps, s1, s2, s3, s4, s5, s6, s7, s8, s9, H, C, RestartTail
  <2>11. ToSet(s9) = Forward(how, K)
    BY <1>5, <1>1, <2>1, <2>2, <2>3, <2>4, <2>5, <2>6, <2>7, <2>8, <2>9 DEF Forward, Plain, H, C
  <2> QED BY <2>9, <2>10, <2>11
<1>6. ASSUME how = "desktop"
      PROVE  Program(Steps(how, K)) /\ ToSet(Steps(how, K)) = Forward(how, K)
  <2> DEFINE s1 == Each("claim", C)
             s2 == s1 \o Each("claim", H)
             s3 == s2 \o Each("use", H)
             s4 == s3 \o <<Step("run")>>
             s5 == s4 \o LendEach(K)
             s6 == s5 \o DesktopTail
             s7 == s6 \o Each("unclaim", K)
             s8 == s7 \o <<Step("watch")>>
  <2>1. Program(s1) /\ ToSet(s1) = ({"claim"} \X C)
    BY <1>2 DEF KindSteps, HeadroomSteps, PlainSteps
  <2> HIDE DEF s1
  <2>2. Program(s2) /\ ToSet(s2) = ToSet(s1) \cup ({"claim"} \X H)
    <3>1. Program(Each("claim", H)) /\ ToSet(Each("claim", H)) = ({"claim"} \X H)
      BY <1>2 DEF KindSteps, HeadroomSteps, PlainSteps
    <3>2. \A x \in ToSet(s1), y \in ({"claim"} \X H) : Follows(x, y)
      BY <1>1, <2>1 DEF Follows, Rank, Resolves, Plain
    <3> QED BY <2>1, <3>1, <3>2, ConcatProgram
  <2> HIDE DEF s2
  <2>3. Program(s3) /\ ToSet(s3) = ToSet(s2) \cup ({"use"} \X H)
    <3>1. Program(Each("use", H)) /\ ToSet(Each("use", H)) = ({"use"} \X H)
      BY <1>2 DEF KindSteps, HeadroomSteps, PlainSteps
    <3>2. \A x \in ToSet(s2), y \in ({"use"} \X H) : Follows(x, y)
      BY <1>1, <2>1, <2>2 DEF Follows, Rank, Resolves, Plain
    <3> QED BY <2>2, <3>1, <3>2, ConcatProgram
  <2> HIDE DEF s3
  <2>4. Program(s4) /\ ToSet(s4) = ToSet(s3) \cup Plain({"run"})
    <3>1. Program(<<Step("run")>>) /\ ToSet(<<Step("run")>>) = Plain({"run"})
      BY PlainProgram DEF KindSteps, PlainSteps
    <3>2. \A x \in ToSet(s3), y \in Plain({"run"}) : Follows(x, y)
      BY <1>1, <2>1, <2>2, <2>3 DEF Follows, Rank, Resolves, Plain
    <3> QED BY <2>3, <3>1, <3>2, ConcatProgram
  <2> HIDE DEF s4
  <2>5. Program(s5) /\ ToSet(s5) = ToSet(s4) \cup ({"lend", "remember"} \X K)
    <3>1. Program(LendEach(K)) /\ ToSet(LendEach(K)) = ({"lend", "remember"} \X K)
      BY <1>3 DEF KindSteps, PlainSteps
    <3>2. \A x \in ToSet(s4), y \in ({"lend", "remember"} \X K) : Follows(x, y)
      BY <1>1, <2>1, <2>2, <2>3, <2>4 DEF Follows, Rank, Resolves, Plain
    <3> QED BY <2>4, <3>1, <3>2, ConcatProgram
  <2> HIDE DEF s5
  <2>6. Program(s6) /\ ToSet(s6) = ToSet(s5) \cup Plain({"pty", "seal", "commit", "open"})
    <3>1. /\ Program(DesktopTail)
          /\ ToSet(DesktopTail) = Plain({"pty", "seal", "commit", "open"})
      BY PlainProgram DEF KindSteps, PlainSteps
    <3>2. \A x \in ToSet(s5), y \in Plain({"pty", "seal", "commit", "open"}) : Follows(x, y)
      BY <1>1, <2>1, <2>2, <2>3, <2>4, <2>5 DEF Follows, Rank, Resolves, Plain
    <3> QED BY <2>5, <3>1, <3>2, ConcatProgram
  <2> HIDE DEF s6
  <2>7. Program(s7) /\ ToSet(s7) = ToSet(s6) \cup ({"unclaim"} \X K)
    <3>1. Program(Each("unclaim", K)) /\ ToSet(Each("unclaim", K)) = ({"unclaim"} \X K)
      BY <1>2 DEF KindSteps, HeadroomSteps, PlainSteps
    <3>2. \A x \in ToSet(s6), y \in ({"unclaim"} \X K) : Follows(x, y)
      BY <1>1, <2>1, <2>2, <2>3, <2>4, <2>5, <2>6 DEF Follows, Rank, Resolves, Plain
    <3> QED BY <2>6, <3>1, <3>2, ConcatProgram
  <2> HIDE DEF s7
  <2>8. Program(s8) /\ ToSet(s8) = ToSet(s7) \cup Plain({"watch"})
    <3>1. Program(<<Step("watch")>>) /\ ToSet(<<Step("watch")>>) = Plain({"watch"})
      BY PlainProgram DEF KindSteps, PlainSteps
    <3>2. \A x \in ToSet(s7), y \in Plain({"watch"}) : Follows(x, y)
      BY <1>1, <2>1, <2>2, <2>3, <2>4, <2>5, <2>6, <2>7 DEF Follows, Rank, Resolves, Plain
    <3> QED BY <2>7, <3>1, <3>2, ConcatProgram
  <2> HIDE DEF s8
  <2>9. Steps(how, K) = s8
    BY <1>6 DEF Steps, s1, s2, s3, s4, s5, s6, s7, s8, H, C, DesktopTail
  <2>10. ToSet(s8) = Forward(how, K)
    BY <1>6, <1>1, <2>1, <2>2, <2>3, <2>4, <2>5, <2>6, <2>7, <2>8 DEF Forward, Plain, H, C
  <2> QED BY <2>8, <2>9, <2>10
<1> QED BY <1>4, <1>5, <1>6

\* A list that only ends a launch.
Ending(s) == Program(s) /\ \A x \in ToSet(s) : Rank(x[1]) = 7

\* It resolves no lease transfer.
Quiet(s) == \A x \in ToSet(s) : x[1] \notin Resolves

\* Lists that only end a launch may be put together.
LEMMA EndingConcat ==
  ASSUME NEW s, NEW t, Ending(s), Ending(t), Quiet(s) \/ Quiet(t)
  PROVE  /\ Ending(s \o t)
         /\ ToSet(s \o t) = ToSet(s) \cup ToSet(t)
         /\ Quiet(s) /\ Quiet(t) => Quiet(s \o t)
<1>1. \A x \in ToSet(s), y \in ToSet(t) : Follows(x, y)
  BY DEF Ending, Quiet, Follows, Rank
<1>2. Program(s \o t) /\ ToSet(s \o t) = ToSet(s) \cup ToSet(t)
  BY <1>1, ConcatProgram DEF Ending
<1> QED BY <1>2 DEF Ending, Quiet

\* What undoes a failed launch only ends things, and gives back every pending
\* lease of a launch that may have made one.
LEMMA UndoProgram ==
  ASSUME NEW r \in Runs, needs[r] \in SUBSET Kinds,
         route[r] \in {"create", "restart", "desktop"}
  PROVE  /\ Ending(Undo(r))
         /\ route[r] # "desktop"
              /\ Rank(Head(todo[r])[1]) > 2 /\ Head(todo[r])[1] # "pty"
            => {"unlease"} \X needs[r] \subseteq ToSet(Undo(r))
<1> DEFINE op == Head(todo[r])[1]
           K == needs[r]
           early == op \in {"claim", "fresh", "use", "run", "close"}
           leased == IF early \/ op \in {"effect", "mark", "verify", "pty"}
                       THEN <<>> ELSE Each("unlease", K)
           stops == IF early \/ op = "verify"
                      THEN <<>> ELSE Each("authorize", K \cap Headrooms)
           unseal == IF op \in {"owners", "reserve", "commit"}
                       THEN <<Step("unseal")>> ELSE <<>>
           unclaims == Each("unclaim", K)
<1>1. \A o \in {"unlease", "unclaim", "authorize"}, L \in {K, K \cap Headrooms} :
        (o = "authorize" => L = K \cap Headrooms)
        => /\ Ending(Each(o, L)) /\ Quiet(Each(o, L))
           /\ ToSet(Each(o, L)) = {o} \X L
  <2> SUFFICES ASSUME NEW o \in {"unlease", "unclaim", "authorize"},
                      NEW L \in {K, K \cap Headrooms},
                      o = "authorize" => L = K \cap Headrooms
               PROVE  /\ Ending(Each(o, L)) /\ Quiet(Each(o, L))
                      /\ ToSet(Each(o, L)) = {o} \X L
    OBVIOUS
  <2>1. /\ o \in KindSteps \ {"lend"} /\ L \in SUBSET Kinds
        /\ o \in HeadroomSteps => L \subseteq Headrooms
    BY DEF KindSteps, HeadroomSteps
  <2>2. Program(Each(o, L)) /\ ToSet(Each(o, L)) = {o} \X L
    BY <2>1, EachProgram
  <2> QED BY <2>2 DEF Ending, Quiet, Rank, Resolves
<1>2. /\ Ending(<<>>) /\ Quiet(<<>>) /\ ToSet(<<>>) = {}
      /\ \A o \in {"unseal", "disown", "untoken", "reconcile"} :
           Ending(<<Step(o)>>) /\ Quiet(<<Step(o)>>)
      /\ Ending(<<Step("resolve")>>)
      /\ Ending(SweepTail)
      /\ Quiet(SweepTail)
  <2>1. /\ Ending(<<>>) /\ Quiet(<<>>) /\ ToSet(<<>>) = {}
        /\ \A o \in {"unseal", "disown", "untoken", "reconcile"} :
             Ending(<<Step(o)>>) /\ Quiet(<<Step(o)>>)
        /\ Ending(<<Step("resolve")>>)
    BY PlainProgram DEF Ending, Quiet, Rank, Resolves, Plain, PlainSteps
  <2>2. /\ Program(SweepTail)
        /\ ToSet(SweepTail) = Plain({"sweep", "swept"})
    BY PlainProgram
  <2> QED BY <2>1, <2>2 DEF Ending, Quiet, Rank, Resolves, Plain
<1>3. /\ Ending(leased) /\ Quiet(leased) /\ Ending(stops) /\ Quiet(stops)
      /\ Ending(unseal) /\ Quiet(unseal) /\ Ending(unclaims) /\ Quiet(unclaims)
      /\ Rank(op) > 2 /\ op # "pty" => ToSet(leased) = {"unlease"} \X K
  BY <1>1, <1>2 DEF Rank
<1> HIDE DEF leased, stops, unseal, unclaims
<1>4. CASE route[r] = "create" /\ op \notin {"seal", "commit"}
  <2>1. Undo(r) = leased \o unclaims \o stops
    BY <1>4 DEF Undo, leased, stops, unclaims
  <2>2. /\ Ending(leased \o unclaims) /\ Quiet(leased \o unclaims)
        /\ ToSet(leased \o unclaims) = ToSet(leased) \cup ToSet(unclaims)
    BY <1>3, EndingConcat
  <2> QED BY <1>3, <2>1, <2>2, EndingConcat
<1>5. CASE route[r] = "create" /\ op \in {"seal", "commit"}
  <2> DEFINE first == IF op = "commit" THEN <<Step("unseal")>> ELSE <<>>
             s2 == first \o <<Step("resolve")>>
             s3 == s2 \o leased
  <2>1. Undo(r) = s3 \o stops
    BY <1>5 DEF Undo, leased, stops, unclaims
  <2>2. Ending(first) /\ Quiet(first)
    BY <1>2
  <2> HIDE DEF first
  <2>3. Ending(s2)
    BY <1>2, <2>2, EndingConcat
  <2> HIDE DEF s2
  <2>4. Ending(s3) /\ ToSet(leased) \subseteq ToSet(s3)
    BY <1>3, <2>3, EndingConcat
  <2> HIDE DEF s3
  <2> QED BY <1>3, <2>1, <2>4, EndingConcat
<1>6. CASE route[r] = "restart"
  <2> DEFINE first == IF op = "commit" THEN <<Step("resolve")>> ELSE <<>>
             last == IF early THEN <<Step("untoken")>>
                       ELSE <<Step("disown"), Step("reconcile")>>
             s2 == first \o unseal
             s3 == s2 \o stops
             s4 == s3 \o leased
             s5 == s4 \o unclaims
  <2>1. Undo(r) = s5 \o last
    BY <1>6 DEF Undo, leased, stops, unclaims, unseal
  <2>2. Ending(first) /\ Ending(last) /\ Quiet(last)
    <3>1. <<Step("disown"), Step("reconcile")>>
            = <<Step("disown")>> \o <<Step("reconcile")>>
      OBVIOUS
    <3>2. LET two == <<Step("disown")>> \o <<Step("reconcile")>>
          IN  Ending(two) /\ Quiet(two)
      BY <1>2, EndingConcat
    <3> QED BY <1>2, <3>1, <3>2
  <2> HIDE DEF first, last
  <2>3. Ending(s2) BY <1>3, <2>2, EndingConcat
  <2> HIDE DEF s2
  <2>4. Ending(s3) BY <1>3, <2>3, EndingConcat
  <2> HIDE DEF s3
  <2>5. Ending(s4) /\ ToSet(leased) \subseteq ToSet(s4)
    BY <1>3, <2>4, EndingConcat
  <2> HIDE DEF s4
  <2>6. Ending(s5) /\ ToSet(leased) \subseteq ToSet(s5)
    BY <1>3, <2>5, EndingConcat
  <2> HIDE DEF s5
  <2> QED BY <1>2, <1>3, <2>1, <2>2, <2>6, EndingConcat
<1>7. CASE route[r] = "desktop"
  <2> DEFINE sweeps == IF early THEN <<>> ELSE SweepTail
             s2 == unseal \o sweeps
  <2>1. Undo(r) = s2 \o unclaims
    BY <1>7 DEF Undo, unclaims, unseal, SweepTail
  <2>2. Ending(sweeps) /\ Quiet(sweeps)
    BY <1>2
  <2> HIDE DEF sweeps
  <2>3. Ending(s2) /\ Quiet(s2) BY <1>3, <2>2, EndingConcat
  <2> HIDE DEF s2
  <2> QED BY <1>3, <1>7, <2>1, <2>3, EndingConcat
<1> QED BY <1>4, <1>5, <1>6, <1>7

-----------------------------------------------------------------------------
(* The inductive invariant                                                 *)

\* The steps that a launch has left.
Doing(r) == ToSet(todo[r])

\* The launch is past its commit, or on its way back.
Ended(r) == route[r] # "none" /\ \A x \in Doing(r) : Rank(x[1]) = 7

\* What a launch has left to do fits its route and its plan.
Programs ==
  \A r \in Runs :
    /\ Program(todo[r])
    /\ route[r] = "none" => todo[r] = <<>>
    /\ \A x \in Doing(r) : Rank(x[1]) < 7 =>
         x \in Forward(route[r], needs[r]) \cup ({"mark", "verify"} \X needs[r])

\* A launch that has not claimed a kind yet left no trace of it.
Unclaimed ==
  \A r \in Runs, k \in Kinds :
    route[r] = "none" \/ <<"claim", k>> \in Doing(r) =>
      /\ <<r, k>> \notin transactions \cup leases \cup promoted \cup sharedLeases
      /\ \A h \in Releasers : <<r, k>> \notin hand[h]

\* It uses or starts a service only while it has claimed it.
UsesClaimed ==
  \A r \in Runs, k \in Kinds :
    ~closed /\ (<<"use", k>> \in Doing(r) \/ <<"effect", k>> \in Doing(r)) =>
      <<"claim", k>> \in Doing(r) \/ <<r, k>> \in launchAdmissions

\* The coordinator's own view of who changes what is the callers'.
Exclusion ==
  ~closed =>
    /\ mutating \subseteq mutationAdmissions
    /\ \A c \in launchAdmissions \cup leases : KindOf(c) \notin mutationAdmissions
    /\ uninstall \in {"stopping", "removing"} => headroomDraining /\ HeadroomIdle
    /\ uninstall = "removing" => \A k \in Headrooms : service[k] = Off

\* What shutdown has cleared stays cleared.
Closed ==
  /\ closed <=> shutdown \in {"closed", "done"}
  /\ closed => launchAdmissions \cup transactions \cup leases = {}
  /\ shutdown \in {"closing", "closed", "done"} => sealed = {}
  /\ shutdown \in {"no", "fenced"} => hand[Shutdown] = {}

\* Claims of a kind were made for the same fingerprint; a lease is of the
\* configuration that its entry has.
Agreement ==
  /\ \A c, d \in launchAdmissions :
       KindOf(c) = KindOf(d) => fingerprint[c] = fingerprint[d]
  /\ launchAdmissions \cap (released \cup leases) = {}
  /\ \A c \in launchAdmissions :
       fingerprint[c] # Unbound => fingerprint[c] = want[c[1]][KindOf(c)]
  /\ \A l \in leases : want[l[1]][KindOf(l)] = entries[KindOf(l)]
  /\ \A c \in launchAdmissions, l \in leases :
       KindOf(c) = KindOf(l) /\ fingerprint[c] # Unbound
         => fingerprint[c] = entries[KindOf(l)]

\* What a remote launch does about the kind k between its claim and its lease.
Check(k) == <<IF k \in Headrooms THEN "effect" ELSE "fresh", k>>

\* A remote launch checks a service after it has claimed it, for what it planned,
\* and from then on the service stays what it leases.
Fitting ==
  \A r \in Runs, k \in Kinds :
    /\ route[r] # "desktop" /\ <<"claim", k>> \in Doing(r) => Check(k) \in Doing(r)
    /\ route[r] # "desktop" /\ <<r, k>> \in launchAdmissions
         => fingerprint[<<r, k>>] = want[r][k]
    /\ <<r, k>> \in launchAdmissions /\ <<"lease", k>> \in Doing(r)
       /\ Check(k) \notin Doing(r)
         => Serves(<<r, k>>)
    /\ <<r, k>> \in leases => Serves(<<r, k>>)

\* A claim of a remote launch becomes a lease before the launch commits, and a
\* launch that is to make a lease is to commit.
LeasesAhead ==
  \A r \in Runs, k \in Kinds :
    /\ /\ route[r] # "desktop" /\ Step("commit") \in Doing(r)
       /\ <<"claim", k>> \in Doing(r) \/ <<r, k>> \in launchAdmissions
       => <<"lease", k>> \in Doing(r)
    /\ <<"lease", k>> \in Doing(r) =>
         route[r] # "desktop" /\ Step("commit") \in Doing(r)

\* A lease is of a kind that its launch planned, the launch is past its claims,
\* and a lease not yet promoted is still given back or committed by its launch.
Leasing ==
  \A l \in leases :
    LET r == l[1]
    IN  /\ KindOf(l) \in needs[r]
        /\ \A x \in Doing(r) :
             Rank(x[1]) > 2 /\ (route[r] # "desktop" => x[1] # "pty")
        /\ l \notin promoted =>
             /\ route[r] # "desktop"
             /\ <<"unlease", KindOf(l)>> \in Doing(r) \/ Step("commit") \in Doing(r)

\* A promoted lease is in the registry, in the hand of a releaser, or about to
\* be remembered: no one forgets it.
Registered ==
  \A l \in leases \cap promoted :
    \/ l \in sharedLeases
    \/ \E h \in Releasers : l \in hand[h]
    \/ At(l[1], "remember") /\ Kind(l[1]) = KindOf(l)

\* At its commit a launch is sealed and holds a ready ticket, of its own leases
\* and promoted ones of the run before; a consumed ticket belongs to an ended launch.
Tickets ==
  \A r \in Runs :
    /\ Step("commit") \in Doing(r) /\ Step("seal") \notin Doing(r) => r \in sealed
    /\ Step("commit") \in Doing(r) /\ route[r] # "desktop" =>
         \A k \in Kinds : <<r, k>> \notin promoted
    /\ /\ ~closed /\ route[r] # "desktop"
       /\ Step("commit") \in Doing(r) /\ Step("reserve") \notin Doing(r)
       => /\ ticket[r].at = "ready" /\ ticket[r].new = Mine(r)
          /\ ticket[r].old \subseteq promoted
          /\ \A l \in ticket[r].old \cup ticket[r].new : <<l, r>> \in leaseTransfers
    /\ ~closed /\ ticket[r].at = "consumed" =>
         Ended(r) /\ \A x \in Doing(r) : x[1] \notin Resolves

\* The run r of session s is live or was: all of its leases are promoted.
RunEnded(r, s) ==
  /\ r \in Runs /\ sess[r] = s /\ Ended(r)
  /\ \A l \in leases : l[1] = r => l \in promoted

\* A releaser has only what it was called for: the leases of a run, or of a
\* session.
Hands ==
  \A r \in Runs :
    /\ \A l \in hand[Exact(r)] : l[1] = r
    /\ \A l \in hand[Whole(r)] : sess[l[1]] = r

\* A stop is of a run that was live, and holds the gate only after it has taken
\* all that is left of it.
Stopping ==
  \A s \in Runs :
    /\ live[s] # None => RunEnded(live[s], s)
    /\ stop[s][1] # "no" => RunEnded(stop[s][2], s)
    /\ gate[s] = "stop" => stop[s][1] = "whole"
    /\ stop[s][1] = "whole" =>
         \A l \in leases : l[1] = stop[s][2] => l \in hand[Whole(s)]

\* The inductive invariant.
SharedInv ==
  /\ TypeOK /\ Programs /\ Unclaimed /\ UsesClaimed /\ Exclusion /\ Closed
  /\ Agreement /\ Fitting /\ LeasesAhead /\ Leasing /\ Registered /\ Tickets /\ Hands /\ Stopping
  /\ StopDischarges

-----------------------------------------------------------------------------
(* How a launch moves                                                      *)

\* All that the launch r may do, once it has begun.
LaunchAct(r) ==
  LaunchStep(r) \/ StartFails(r) \/ CloseFails(r) \/ CommitFails(r)

OthersStay(r) == todo' = [todo EXCEPT ![r] = todo'[r]]

\* The launch takes its next step.
Proceeds(r) ==
  /\ todo[r] # <<>> /\ OthersStay(r) /\ Program(todo'[r])
  /\ Doing(r) \subseteq {Head(todo[r])} \cup Doing(r)'
  /\ Head(todo[r]) \in Doing(r)
  /\ \A x \in Doing(r)' :
       /\ Rank(Head(todo[r])[1]) <= Rank(x[1])
       /\ \/ x \in Doing(r)
          \/ x \in {"mark", "verify"} \X needs[r] /\ Rank(Head(todo[r])[1]) = 2
          \/ Rank(x[1]) = 7 /\ (x[1] \in Resolves => Head(todo[r])[1] = "resolve")

\* The launch is on its way back.
Backs(r) ==
  /\ todo[r] # <<>> /\ OthersStay(r) /\ Ending(todo'[r])
  /\ Rank(Head(todo[r])[1]) < 7 /\ Head(todo[r]) \in Doing(r)
  /\ Rank(Head(todo[r])[1]) > 2 /\ route[r] # "desktop" /\ Head(todo[r])[1] # "pty"
       => {"unlease"} \X needs[r] \subseteq Doing(r)'

\* Shutdown has cleared the coordinator under it.
GivesUp(r) == closed /\ OthersStay(r) /\ todo'[r] = <<>>

\* Taking the head off the list.
LEMMA GoesProceeds ==
  ASSUME TypeOK, Programs, NEW r \in Runs, todo[r] # <<>>, Goes(r)
  PROVE  /\ Proceeds(r) /\ Doing(r)' \subseteq Doing(r)
         /\ \A x \in Doing(r)' : Follows(Head(todo[r]), x)
         /\ Head(todo[r])[1] = "lend" =>
              todo'[r] # <<>> /\ Head(todo'[r]) = <<"remember", Head(todo[r])[2]>>
<1>1. Program(todo[r]) BY DEF Programs
<1>2. todo' = [todo EXCEPT ![r] = Tail(todo[r])] /\ todo'[r] = Tail(todo[r])
  BY DEF Goes, TypeOK
<1>3. Doing(r)' = ToSet(Tail(todo[r])) BY <1>2 DEF Doing
<1>4. OthersStay(r) BY <1>2 DEF OthersStay, TypeOK
<1> QED
  BY <1>1, <1>2, <1>3, <1>4, TailProgram DEF Proceeds, Doing, Follows

\* Putting one more step in its place.
LEMMA ThenProceeds ==
  ASSUME TypeOK, Programs, NEW r \in Runs, todo[r] # <<>>,
         NEW x \in AllSteps, Then(r, <<x>>), Rank(Head(todo[r])[1]) = Rank(x[1]),
         Head(todo[r])[1] \notin {"claim", "commit"},
         \/ x \in {"mark", "verify"} \X needs[r]
         \/ x[1] = "resolved" /\ Head(todo[r])[1] = "resolve"
         \/ x[1] = "stop"
  PROVE  Proceeds(r)
<1> DEFINE t == Tail(todo[r])
<1>1. Program(todo[r]) BY DEF Programs
<1>2. /\ Program(t) /\ ToSet(todo[r]) = {Head(todo[r])} \cup ToSet(t)
      /\ \A y \in ToSet(t) : Follows(Head(todo[r]), y)
  BY <1>1, TailProgram
<1>3. todo' = [todo EXCEPT ![r] = <<x>> \o t] /\ todo'[r] = <<x>> \o t
  BY DEF Then, TypeOK
<1> HIDE DEF t
<1>4. Program(<<x>>) /\ ToSet(<<x>>) = {x}
  BY OneProgram
<1>5. \A y \in ToSet(<<x>>), z \in ToSet(t) : Follows(y, z)
  BY <1>2, <1>4 DEF Follows, Resolves
<1>6. Program(<<x>> \o t) /\ ToSet(<<x>> \o t) = {x} \cup ToSet(t)
  BY <1>2, <1>4, <1>5, ConcatProgram
<1>7. Doing(r)' = {x} \cup ToSet(t) /\ Doing(r) = {Head(todo[r])} \cup ToSet(t)
  BY <1>2, <1>3, <1>6 DEF Doing
<1>8. OthersStay(r) BY <1>3 DEF OthersStay, TypeOK
<1>9. \/ x \in {"mark", "verify"} \X needs[r] /\ Rank(Head(todo[r])[1]) = 2
      \/ Rank(x[1]) = 7 /\ (x[1] \in Resolves => Head(todo[r])[1] = "resolve")
  BY DEF AllSteps, Rank, Resolves
<1>10. Rank(x[1]) \in Int
  BY DEF Rank
<1>11. ASSUME NEW y \in Doing(r)'
       PROVE  /\ Rank(Head(todo[r])[1]) <= Rank(y[1])
              /\ \/ y \in Doing(r)
                 \/ y \in {"mark", "verify"} \X needs[r] /\ Rank(Head(todo[r])[1]) = 2
                 \/ Rank(y[1]) = 7 /\ (y[1] \in Resolves => Head(todo[r])[1] = "resolve")
  <2>1. CASE y = x BY <1>9, <1>10, <2>1
  <2>2. CASE y \in ToSet(t) BY <1>2, <1>7, <2>2 DEF Follows
  <2> QED BY <1>7, <2>1, <2>2
<1> QED
  BY <1>3, <1>6, <1>7, <1>8, <1>11 DEF Proceeds

\* A step that is to come in the first phases belongs to the plan.
LEMMA Planned ==
  ASSUME TypeOK, Programs, NEW r \in Runs, NEW x \in Doing(r), Rank(x[1]) < 7
  PROVE  /\ route[r] \in {"create", "restart", "desktop"}
         /\ x \in Forward(route[r], needs[r]) \cup ({"mark", "verify"} \X needs[r])
<1>1. todo[r] # <<>> BY DEF Doing, ToSet
<1>2. route[r] # "none" BY <1>1 DEF Programs
<1>3. route[r] \in {"create", "restart", "desktop"}
  BY <1>2, LaunchesAssumption DEF TypeOK
<1> QED BY <1>3 DEF Programs

\* Failing before the end.
LEMMA FailsBacks ==
  ASSUME TypeOK, Programs, NEW r \in Runs, todo[r] # <<>>, Fails(r) \/ CloseFails(r),
         Rank(Head(todo[r])[1]) < 7
  PROVE  Backs(r)
<1>1. Head(todo[r]) \in Doing(r)
  BY TailProgram DEF Programs, Doing
<1>2. route[r] \in {"create", "restart", "desktop"} /\ needs[r] \in SUBSET Kinds
  BY <1>1, Planned DEF TypeOK
<1>3. todo' = [todo EXCEPT ![r] = Undo(r)] /\ todo'[r] = Undo(r)
  BY DEF Fails, CloseFails, TypeOK
<1> QED
  BY <1>1, <1>2, <1>3, UndoProgram DEF Backs, OthersStay, Doing, TypeOK

\* The step at the head, and its kind.
LEMMA AtStep ==
  ASSUME TypeOK, Programs, NEW r \in Runs, NEW op, At(r, op)
  PROVE  /\ todo[r] # <<>> /\ Head(todo[r]) \in Doing(r) /\ Head(todo[r])[1] = op
         /\ Head(todo[r]) \in AllSteps
         /\ op \in KindSteps => Kind(r) \in Kinds /\ Head(todo[r]) = <<op, Kind(r)>>
         /\ op \in PlainSteps => Head(todo[r]) = Step(op)
         /\ op \in HeadroomSteps => Kind(r) \in Headrooms
         /\ op \in KindSteps /\ Rank(op) < 7 => Kind(r) \in needs[r]
<1>1. /\ todo[r] # <<>> /\ Head(todo[r]) \in Doing(r) /\ Head(todo[r])[1] = op
      /\ Head(todo[r]) \in AllSteps
  BY TailProgram DEF Programs, Doing, At
<1>2. op \in KindSteps => Kind(r) \in Kinds /\ Head(todo[r]) = <<op, Kind(r)>>
  BY <1>1 DEF AllSteps, Kind, KindSteps, PlainSteps
<1>3. op \in PlainSteps => Head(todo[r]) = Step(op)
  BY <1>1 DEF AllSteps, Step, KindSteps, PlainSteps
<1>4. ASSUME op \in KindSteps, Rank(op) < 7 PROVE Kind(r) \in needs[r]
  <2>1. Head(todo[r]) \in Forward(route[r], needs[r]) \cup ({"mark", "verify"} \X needs[r])
    BY <1>1, <1>4, Planned
  <2> QED BY <1>2, <1>4, <2>1 DEF Forward, Plain, KindSteps
<1>5. op \in HeadroomSteps => Kind(r) \in Headrooms
  BY <1>1 DEF AllSteps, Kind, HeadroomSteps, PlainSteps
<1> QED BY <1>1, <1>2, <1>3, <1>4, <1>5

\* A launch proceeds, turns back, or gives up.
LEMMA Moves ==
  ASSUME TypeOK, Programs, Tickets, NEW r \in Runs, LaunchAct(r)
  PROVE  Proceeds(r) \/ Backs(r) \/ GivesUp(r)
<1> USE GoesProceeds, FailsBacks
<1>1. CASE ClaimKind(r) BY <1>1 DEF ClaimKind, At
<1>2. CASE ClaimRefused(r) BY <1>2, AtStep DEF ClaimRefused, Rank
<1>3. CASE Fresh(r) BY <1>3, AtStep DEF Fresh, Rank
<1>4. CASE Use(r) BY <1>4, AtStep DEF Use, Rank
<1>5. CASE Effect(r)
  <2>1. CASE Goes(r) BY <1>5, <2>1 DEF Effect, At
  <2>2. CASE Then(r, <<<<"mark", Kind(r)>>>>)
    <3> DEFINE x == <<"mark", Kind(r)>>
    <3>1. /\ todo[r] # <<>> /\ Head(todo[r])[1] = "effect" /\ Kind(r) \in Kinds
          /\ Kind(r) \in needs[r] /\ Kind(r) \in Headrooms
      BY <1>5, AtStep DEF Effect, KindSteps, HeadroomSteps, Rank
    <3>2. x \in AllSteps /\ x[1] = "mark" /\ x[2] \in needs[r]
      BY <3>1 DEF AllSteps, KindSteps
    <3>3. Then(r, <<x>>) /\ Rank(Head(todo[r])[1]) = Rank(x[1])
      BY <2>2, <3>1, <3>2 DEF Rank
    <3>4. x \in {"mark", "verify"} \X needs[r]
      BY <3>1
    <3>5. Head(todo[r])[1] \notin {"claim", "commit"} BY <3>1
    <3> HIDE DEF x
    <3>6. Proceeds(r) BY <3>1, <3>2, <3>3, <3>4, <3>5, ThenProceeds
    <3> QED BY <3>6
  <2> QED BY <1>5, <2>1, <2>2 DEF Effect
<1>6. CASE EffectFails(r) BY <1>6, AtStep DEF EffectFails, Rank
<1>7. CASE Mark(r)
  <2>1. /\ todo[r] # <<>> /\ Head(todo[r])[1] = "mark" /\ Kind(r) \in Kinds
        /\ Kind(r) \in needs[r] /\ Kind(r) \in Headrooms
    BY <1>7, AtStep DEF Mark, KindSteps, HeadroomSteps, Rank
  <2>2. CASE Fails(r) BY <2>1, <2>2 DEF Rank
  <2>3. CASE Then(r, <<>>)
    <3>1. Goes(r)
      <4>1. Program(Tail(todo[r])) BY <2>1, TailProgram DEF Programs
      <4>2. <<>> \o Tail(todo[r]) = Tail(todo[r]) BY <4>1 DEF Program
      <4> QED BY <2>3, <4>2 DEF Then, Goes
    <3> QED BY <2>1, <3>1
  <2>4. CASE Then(r, <<<<"verify", Kind(r)>>>>)
    <3> DEFINE x == <<"verify", Kind(r)>>
    <3>1. x \in AllSteps /\ x[1] = "verify" /\ x[2] \in needs[r]
      BY <2>1 DEF AllSteps, KindSteps
    <3>2. Then(r, <<x>>) /\ Rank(Head(todo[r])[1]) = Rank(x[1])
      BY <2>1, <2>4, <3>1 DEF Rank
    <3>4. x \in {"mark", "verify"} \X needs[r]
      BY <2>1
    <3>5. Head(todo[r])[1] \notin {"claim", "commit"} BY <2>1
    <3> HIDE DEF x
    <3>6. Proceeds(r) BY <2>1, <3>1, <3>2, <3>4, <3>5, ThenProceeds
    <3> QED BY <3>6
  <2> QED BY <1>7, <2>2, <2>3, <2>4 DEF Mark
<1>8. CASE Unverified(r)
  <2>1. /\ todo[r] # <<>> /\ Head(todo[r])[1] = "verify" /\ Kind(r) \in Kinds
        /\ Head(todo[r]) \in Doing(r) /\ Kind(r) \in Headrooms
    BY <1>8, AtStep DEF Unverified, KindSteps, HeadroomSteps
  <2>2. CASE Fails(r) BY <2>1, <2>2 DEF Rank
  <2>3. CASE todo' = [todo EXCEPT ![r] = <<<<"stop", Kind(r)>>>> \o Undo(r)]
    <3>1. route[r] \in {"create", "restart", "desktop"} /\ needs[r] \in SUBSET Kinds
      BY <2>1, Planned DEF Rank, TypeOK
    <3>2. Ending(Undo(r)) BY <3>1, UndoProgram
    <3>3. <<"stop", Kind(r)>> \in AllSteps BY <2>1 DEF AllSteps, KindSteps
    <3>4. Ending(<<<<"stop", Kind(r)>>>>) /\ Quiet(<<<<"stop", Kind(r)>>>>)
      BY <3>3, OneProgram DEF Ending, Quiet, Rank, Resolves
    <3>5. Ending(<<<<"stop", Kind(r)>>>> \o Undo(r))
      BY <3>2, <3>4, EndingConcat
    <3>6. todo'[r] = <<<<"stop", Kind(r)>>>> \o Undo(r) /\ OthersStay(r)
      BY <2>3 DEF OthersStay, TypeOK
    <3> QED BY <2>1, <3>5, <3>6 DEF Backs, Rank
  <2> QED BY <1>8, <2>2, <2>3 DEF Unverified
<1>9. CASE Authorize(r)
  <2>1. /\ todo[r] # <<>> /\ Head(todo[r])[1] = "authorize" /\ Kind(r) \in Kinds
        /\ Kind(r) \in Headrooms
    BY <1>9, AtStep DEF Authorize, KindSteps, HeadroomSteps
  <2>2. CASE Goes(r) BY <2>1, <2>2
  <2>3. CASE Then(r, <<<<"stop", Kind(r)>>>>)
    <3> DEFINE x == <<"stop", Kind(r)>>
    <3>1. x \in AllSteps /\ x[1] = "stop" BY <2>1 DEF AllSteps, KindSteps
    <3>2. Rank("stop") = Rank("authorize") BY DEF Rank
    <3> QED BY <2>1, <2>3, <3>1, <3>2, ThenProceeds
  <2> QED BY <1>9, <2>2, <2>3 DEF Authorize
<1>10. CASE RawStop(r) \/ CloseOld(r) \/ StartProcess(r) \/ Remember(r) \/ Seal(r)
              \/ Owners(r) \/ Commit(r) \/ Unseal(r) \/ Unlease(r) \/ Unclaim(r)
              \/ LaunchSweeps(r) \/ Disown(r) \/ Untoken(r) \/ Watch(r)
  BY <1>10 DEF RawStop, CloseOld, StartProcess, Remember, Seal, Owners, Commit, Unseal,
       Unlease, Unclaim, LaunchSweeps, Disown, Untoken, Watch, At
<1>11. CASE BeginRun(r) \/ Lease(r) \/ Lend(r) \/ Reserve(r)
  <2>1. CASE BeginRun(r) BY <2>1, AtStep DEF BeginRun, Rank
  <2>2. CASE Lease(r)
    <3>1. todo[r] # <<>> /\ Rank(Head(todo[r])[1]) < 7 BY <2>2, AtStep DEF Lease, Rank
    <3>2. Goes(r) \/ Fails(r) BY <2>2 DEF Lease
    <3> QED BY <3>1, <3>2
  <2>3. CASE Lend(r)
    <3>1. todo[r] # <<>> /\ Rank(Head(todo[r])[1]) < 7 BY <2>3, AtStep DEF Lend, Rank
    <3>2. Goes(r) \/ Fails(r) BY <2>3 DEF Lend
    <3> QED BY <3>1, <3>2
  <2>4. CASE Reserve(r) BY <2>4, AtStep DEF Reserve, Rank
  <2> QED BY <1>11, <2>1, <2>2, <2>3, <2>4
<1>12. CASE SealFails(r) \/ StartFails(r) \/ CommitFails(r)
  BY <1>12, AtStep DEF SealFails, StartFails, CommitFails, Rank
<1>15. CASE CloseFails(r)
  <2>1. todo[r] # <<>> /\ Head(todo[r])[1] = "close"
    BY <1>15, AtStep DEF CloseFails
  <2>2. Rank(Head(todo[r])[1]) < 7 BY <2>1 DEF Rank
  <2> QED BY <1>15, <2>1, <2>2, FailsBacks
<1>13. CASE Resolve(r)
  <2>1. CASE Goes(r) BY <1>13, <2>1 DEF Resolve, At
  <2>2. CASE Then(r, <<Step("resolved")>>)
    <3>1. Step("resolved") \in AllSteps /\ Step("resolved")[1] = "resolved"
      BY DEF AllSteps, PlainSteps, Step
    <3>2. todo[r] # <<>> /\ Head(todo[r])[1] = "resolve" BY <1>13 DEF Resolve, At
    <3>3. Rank("resolved") = Rank("resolve") BY DEF Rank
    <3> QED BY <2>2, <3>1, <3>2, <3>3, ThenProceeds
  <2> QED BY <1>13, <2>1, <2>2 DEF Resolve
<1>14. CASE Resolved(r)
  <2>1. CASE Goes(r) BY <1>14, <2>1 DEF Resolved, At
  <2>2. CASE ticket[r].at = "consumed"
    <3>1. Head(todo[r]) \in Doing(r) /\ Head(todo[r])[1] = "resolved"
      BY <1>14, AtStep DEF Resolved
    <3>2. closed BY <2>2, <3>1 DEF Tickets, Resolves
    <3> QED BY <1>14, <2>2, <3>2 DEF Resolved, GivesUp, OthersStay, TypeOK
  <2> QED BY <1>14, <2>1, <2>2 DEF Resolved
<1> QED
  BY <1>1, <1>2, <1>3, <1>4, <1>5, <1>6, <1>7, <1>8, <1>9, <1>10, <1>11, <1>12,
     <1>13, <1>14, <1>15 DEF LaunchAct, LaunchStep

-----------------------------------------------------------------------------
(* Types                                                                   *)

\* The operations of the coordinator keep its types.
LEMMA CoordTypes ==
  ASSUME CoordTypeOK, launchAdmissions \cap released = {}
  PROVE  /\ \A c \in Claim, f \in Configs \cup {Off, Unbound} :
              AcquireLaunchAdmission(c, f) => CoordTypeOK'
         /\ \A S \in SUBSET Claim : ReleaseLaunchAdmissions(S) => CoordTypeOK'
         /\ \A c \in Claim : Markable(c) /\ MarkLaunchTransactionStarted(c) => CoordTypeOK'
         /\ \A c \in Claim : AuthorizeCompensatingStop(c) => CoordTypeOK'
         /\ \A k \in Kinds, on \in BOOLEAN : SetMutation(k, on) => CoordTypeOK'
         /\ \A on \in BOOLEAN : SetDrain(on) => CoordTypeOK'
         /\ \A c \in Claim, f \in Configs \cup {Off}, promote \in BOOLEAN :
              Leasable(c, f) /\ AcquireLease(c, f, promote) => CoordTypeOK'
         /\ \A S \in SUBSET Claim : ReleaseExact(S) => CoordTypeOK'
         /\ \A r \in Runs, old, new \in SUBSET Claim :
              PrepareLeaseTransfer(r, old, new) => CoordTypeOK'
         /\ \A r \in Runs :
              ticket[r].new \cap launchAdmissions = {} /\ CommitLeaseTransfer(r)
                => CoordTypeOK'
         /\ \A r \in Runs : ResolveLeaseTransfer(r) => CoordTypeOK'
         /\ ClearAll => CoordTypeOK'
<1> USE DEF CoordTypeOK
<1>1. ASSUME NEW c \in Claim, NEW f \in Configs \cup {Off, Unbound},
             AcquireLaunchAdmission(c, f)
      PROVE  CoordTypeOK'
  BY <1>1 DEF AcquireLaunchAdmission
<1>2. ASSUME NEW S \in SUBSET Claim, ReleaseLaunchAdmissions(S) PROVE CoordTypeOK'
  BY <1>2 DEF ReleaseLaunchAdmissions
<1>3. ASSUME NEW c \in Claim, Markable(c), MarkLaunchTransactionStarted(c)
      PROVE  CoordTypeOK'
  BY <1>3 DEF MarkLaunchTransactionStarted, Markable
<1>4. ASSUME NEW c \in Claim, AuthorizeCompensatingStop(c) PROVE CoordTypeOK'
  BY <1>4 DEF AuthorizeCompensatingStop
<1>5. ASSUME NEW k \in Kinds, NEW on \in BOOLEAN, SetMutation(k, on) PROVE CoordTypeOK'
  BY <1>5 DEF SetMutation
<1>6. ASSUME NEW on \in BOOLEAN, SetDrain(on) PROVE CoordTypeOK'
  BY <1>6 DEF SetDrain
<1>7. ASSUME NEW c \in Claim, NEW f \in Configs \cup {Off}, NEW promote \in BOOLEAN,
             Leasable(c, f), AcquireLease(c, f, promote)
      PROVE  CoordTypeOK'
  BY <1>7 DEF AcquireLease, Leasable
<1>8. ASSUME NEW S \in SUBSET Claim, ReleaseExact(S) PROVE CoordTypeOK'
  BY <1>8 DEF ReleaseExact
<1>9. ASSUME NEW r \in Runs, NEW old \in SUBSET Claim, NEW new \in SUBSET Claim,
             PrepareLeaseTransfer(r, old, new)
      PROVE  CoordTypeOK'
  <2>1. leaseTransfers' \subseteq Claim \X Runs
    BY <1>9 DEF PrepareLeaseTransfer
  <2> QED BY <1>9, <2>1 DEF PrepareLeaseTransfer
<1>10. ASSUME NEW r \in Runs, ticket[r].new \cap launchAdmissions = {},
              CommitLeaseTransfer(r)
       PROVE  CoordTypeOK'
  <2>1. promoted' \subseteq Claim BY <1>10 DEF CommitLeaseTransfer
  <2> QED BY <1>10, <2>1 DEF CommitLeaseTransfer
<1>11. ASSUME NEW r \in Runs, ResolveLeaseTransfer(r) PROVE CoordTypeOK'
  BY <1>11 DEF ResolveLeaseTransfer
<1>12. ASSUME ClearAll PROVE CoordTypeOK'
  <2>1. ticket' \in [Runs -> [old : SUBSET Claim, new : SUBSET Claim,
                              at : {"none", "ready", "committed", "consumed"}]]
    BY <1>12 DEF ClearAll
  <2> QED BY <1>12, <2>1 DEF ClearAll
<1> HIDE DEF CoordTypeOK
<1> QED
  BY <1>1, <1>2, <1>3, <1>4, <1>5, <1>6, <1>7, <1>8, <1>9, <1>10, <1>11, <1>12

\* Every step keeps the types.
LEMMA MovesTyped ==
  ASSUME TypeOK, Programs, Tickets, NEW r \in Runs, LaunchAct(r)
  PROVE  todo' \in [Runs -> Seq(AllSteps)]
<1>1. OthersStay(r) /\ todo'[r] \in Seq(AllSteps)
  <2>1. Proceeds(r) \/ Backs(r) \/ GivesUp(r) BY Moves
  <2>2. <<>> \in Seq(AllSteps) OBVIOUS
  <2> QED BY <2>1, <2>2 DEF Proceeds, Backs, GivesUp, Ending, Program
<1> QED BY <1>1 DEF OthersStay, TypeOK

\* What is at the head of a list is not behind anything of a later phase.
LEMMA Behind ==
  ASSUME TypeOK, Programs, NEW r \in Runs, NEW op, At(r, op), NEW x \in Doing(r)
  PROVE  Rank(op) <= Rank(x[1])
<1>1. /\ Doing(r) = {Head(todo[r])} \cup ToSet(Tail(todo[r]))
      /\ \A y \in ToSet(Tail(todo[r])) : Follows(Head(todo[r]), y)
      /\ Head(todo[r])[1] = op
  BY TailProgram DEF Programs, Doing, At
<1>2. Rank(op) \in Int BY DEF Rank
<1> QED BY <1>1, <1>2 DEF Follows

LEMMA CommitComes ==
  ASSUME TypeOK, Programs, NEW r \in Runs, At(r, "commit")
  PROVE  /\ Step("commit") \in Doing(r) /\ Head(todo[r])[1] = "commit"
         /\ Step("reserve") \notin Doing(r) /\ Step("seal") \notin Doing(r)
         /\ \A k : <<"lease", k>> \notin Doing(r) /\ <<"claim", k>> \notin Doing(r)
<1>1. Step("commit") \in Doing(r) /\ Head(todo[r])[1] = "commit"
  BY AtStep DEF PlainSteps
<1> QED BY <1>1, Behind DEF Rank, Step

\* A close keeps the types, whatever it leaves of the process.
LEMMA ClosedTypes ==
  ASSUME TypeOK, NEW r, ClosedUnsure(r)
  PROVE  proc' \in [Runs -> {"none", "running", "exited", "ended", "gone"}]
<1>1. PICK p \in {proc[r], "exited", "gone"} : proc' = [proc EXCEPT ![r] = p]
  BY DEF ClosedUnsure
<1>2. CASE r \in Runs BY <1>1, <1>2 DEF TypeOK
<1>3. CASE r \notin Runs BY <1>1, <1>3 DEF TypeOK
<1> QED BY <1>2, <1>3

\* So do the steps of a launch,
LEMMA LaunchTypes ==
  ASSUME SharedInv, NEW r \in Runs, LaunchAct(r), troubles' \in 0..MaxTroubles
  PROVE  TypeOK'
<1>1. /\ TypeOK /\ CoordTypeOK /\ launchAdmissions \cap released = {}
      /\ todo' \in [Runs -> Seq(AllSteps)]
  BY MovesTyped DEF SharedInv, Agreement, TypeOK
<1>2. \A op : At(r, op) /\ op \in KindSteps => Kind(r) \in Kinds /\ <<r, Kind(r)>> \in Claim
  BY AtStep DEF SharedInv, Claim
<1>3. ASSUME UNCHANGED coord PROVE CoordTypeOK'
  BY <1>1, <1>3 DEF coord, CoordTypeOK
<1>4. CASE Fails(r)
  BY <1>1, <1>3, <1>4 DEF Fails, TypeOK, services, changers, registry, ends
<1>5. CASE ClaimRefused(r)
  BY <1>1, <1>2, <1>3, <1>4, <1>5
     DEF ClaimRefused, plan, runState, TypeOK, services, changers, registry, ends
<1>6. CASE Fresh(r)
  BY <1>1, <1>2, <1>3, <1>4, <1>6
     DEF Fresh, plan, runState, TypeOK, services, changers, registry, ends
<1>7. CASE Use(r)
  <2>1. Kind(r) \in Kinds /\ want[r][Kind(r)] \in Configs \cup {Off}
    BY <1>1, <1>2, <1>7 DEF Use, KindSteps, TypeOK
  <2>2. CASE ~Fails(r)
    <3>1. service' \in [Kinds -> Configs \cup {Off}] /\ UNCHANGED coord
      BY <1>1, <1>7, <2>1, <2>2 DEF Use, TypeOK
    <3>2. CoordTypeOK' BY <1>3, <3>1
    <3> QED BY <1>1, <1>7, <2>2, <3>1, <3>2
        DEF Use, plan, runState, TypeOK, services, changers, registry, ends
  <2> QED BY <1>4, <2>2
<1>8. CASE Effect(r)
  <2>1. Kind(r) \in Kinds /\ want[r][Kind(r)] \in Configs \cup {Off}
    BY <1>1, <1>2, <1>8 DEF Effect, KindSteps, TypeOK
  <2>2. CASE ~Fails(r)
    <3>1. service' \in [Kinds -> Configs \cup {Off}] /\ UNCHANGED coord
      BY <1>1, <1>8, <2>1, <2>2 DEF Effect, TypeOK
    <3>2. CoordTypeOK' BY <1>3, <3>1
    <3> QED BY <1>1, <1>8, <2>2, <3>1, <3>2
        DEF Effect, plan, runState, TypeOK, services, changers, registry, ends
  <2> QED BY <1>4, <2>2
<1>9. CASE EffectFails(r)
  BY <1>1, <1>2, <1>3, <1>4, <1>9
     DEF EffectFails, plan, runState, TypeOK, services, changers, registry, ends
<1>10. CASE BeginRun(r)
  BY <1>1, <1>2, <1>3, <1>4, <1>10
     DEF BeginRun, plan, runState, TypeOK, services, changers, registry, ends
<1>11. CASE RawStop(r)
  BY <1>1, <1>2, <1>3, <1>4, <1>11
     DEF RawStop, KindSteps, plan, runState, TypeOK, services, changers, registry, ends
<1>12. CASE CloseOld(r)
  BY <1>1, <1>2, <1>3, <1>4, <1>12
     DEF CloseOld, plan, runState, TypeOK, services, changers, registry, ends
<1>13. CASE StartProcess(r)
  BY <1>1, <1>2, <1>3, <1>4, <1>13
     DEF StartProcess, plan, runState, TypeOK, services, changers, registry, ends
<1>14. CASE Seal(r)
  BY <1>1, <1>2, <1>3, <1>4, <1>14
     DEF Seal, plan, runState, TypeOK, services, changers, registry, ends
<1>15. CASE SealFails(r)
  BY <1>1, <1>2, <1>3, <1>4, <1>15
     DEF SealFails, plan, runState, TypeOK, services, changers, registry, ends
<1>16. CASE Unseal(r)
  BY <1>1, <1>2, <1>3, <1>4, <1>16
     DEF Unseal, plan, runState, TypeOK, services, changers, registry, ends
<1>17. CASE Resolve(r)
  BY <1>1, <1>2, <1>3, <1>4, <1>17
     DEF Resolve, plan, runState, TypeOK, services, changers, registry, ends
<1>18. CASE Untoken(r)
  BY <1>1, <1>2, <1>3, <1>4, <1>18
     DEF Untoken, plan, runState, TypeOK, services, changers, registry, ends
<1>19. CASE Watch(r)
  BY <1>1, <1>2, <1>3, <1>4, <1>19
     DEF Watch, plan, runState, TypeOK, services, changers, registry, ends
<1>37. CASE CloseFails(r)
  <2>1. proc' \in [Runs -> {"none", "running", "exited", "ended", "gone"}]
    BY <1>1, <1>37, ClosedTypes DEF CloseFails
  <2> QED BY <1>1, <1>3, <1>37, <2>1
      DEF CloseFails, plan, TypeOK, services, changers, registry, ends
<1>20. CASE StartFails(r)
  BY <1>1, <1>2, <1>3, <1>4, <1>20
     DEF StartFails, plan, runState, TypeOK, services, changers, registry, ends
<1>21. CASE CommitFails(r)
  BY <1>1, <1>2, <1>3, <1>4, <1>21
     DEF CommitFails, plan, runState, TypeOK, services, changers, registry, ends
<1>22. CASE Owners(r)
  BY <1>1, <1>2, <1>3, <1>4, <1>22
     DEF Owners, plan, runState, TypeOK, services, changers, registry, ends
<1>23. CASE Remember(r)
  BY <1>1, <1>2, <1>3, <1>4, <1>23
     DEF Remember, KindSteps, plan, runState, TypeOK, services, changers, registry, ends
<1>24. CASE LaunchSweeps(r)
  <2>1. hand' \in [Releasers -> SUBSET Claim] /\ sharedLeases' \subseteq Claim
    <3>1. CASE Sweep(sess[r], "launch") BY <1>1, <3>1 DEF Sweep, Take, TypeOK
    <3>2. CASE Swept(sess[r], "launch") BY <1>1, <3>2 DEF Swept, TypeOK
    <3> QED BY <1>24, <3>1, <3>2 DEF LaunchSweeps
  <2>2. gate' \in [Runs -> {"free", "launch", "stop", "watcher"}]
    <3>1. CASE Sweep(sess[r], "launch") BY <1>1, <3>1 DEF Sweep, TypeOK
    <3>2. CASE Swept(sess[r], "launch") BY <1>1, <3>2 DEF Swept, TypeOK
    <3> QED BY <1>24, <3>1, <3>2 DEF LaunchSweeps
  <2>3. CoordTypeOK' BY <1>3, <1>24 DEF LaunchSweeps
  <2> QED BY <1>1, <1>24, <2>1, <2>2, <2>3
      DEF LaunchSweeps, plan, runState, TypeOK, services, changers, registry, ends
<1>25. CASE Disown(r)
  BY <1>1, <1>2, <1>3, <1>4, <1>25
     DEF Disown, Take, Releasers, Exact, plan, runState, TypeOK, services, changers,
       registry, ends
<1>26. CASE ClaimKind(r)
  <2>1. CoordTypeOK'
    BY <1>1, <1>2, <1>3, <1>4, <1>26, CoordTypes DEF ClaimKind, KindSteps, TypeOK
  <2> QED BY <1>1, <1>2, <1>4, <1>26, <2>1
      DEF ClaimKind, KindSteps, plan, runState, TypeOK, services, changers, registry, ends
<1>27. CASE Mark(r)
  <2>1. CoordTypeOK'
    <3>1. <<r, Kind(r)>> \in Claim BY <1>2, <1>27 DEF Mark, KindSteps
    <3>2. CASE Fails(r) BY <1>3, <3>2 DEF Fails
    <3>3. CASE ~Fails(r)
      <4>1. Markable(<<r, Kind(r)>>) /\ MarkLaunchTransactionStarted(<<r, Kind(r)>>)
        BY <1>27, <3>3 DEF Mark
      <4> QED BY <1>1, <3>1, <4>1, CoordTypes
    <3> QED BY <3>2, <3>3
  <2> QED BY <1>1, <1>2, <1>4, <1>27, <2>1
      DEF Mark, KindSteps, plan, runState, TypeOK, services, changers, registry, ends
<1>28. CASE Unverified(r)
  <2>1. CoordTypeOK'
    <3>1. <<r, Kind(r)>> \in Claim BY <1>2, <1>28 DEF Unverified, KindSteps
    <3>2. CASE Fails(r) BY <1>3, <3>2 DEF Fails
    <3>3. CASE ~Fails(r)
      <4>1. AuthorizeCompensatingStop(<<r, Kind(r)>>) BY <1>28, <3>3 DEF Unverified
      <4> QED BY <1>1, <3>1, <4>1, CoordTypes
    <3> QED BY <3>2, <3>3
  <2> QED BY <1>1, <1>2, <1>4, <1>28, <2>1
      DEF Unverified, KindSteps, plan, runState, TypeOK, services, changers, registry, ends
<1>29. CASE Authorize(r)
  <2>1. CoordTypeOK'
    BY <1>1, <1>2, <1>3, <1>4, <1>29, CoordTypes DEF Authorize, KindSteps
  <2> QED BY <1>1, <1>2, <1>4, <1>29, <2>1
      DEF Authorize, KindSteps, plan, runState, TypeOK, services, changers, registry, ends
<1>30. CASE Lease(r)
  <2>1. CoordTypeOK'
    <3>0. Kind(r) \in Kinds /\ <<r, Kind(r)>> \in Claim
      BY <1>2, <1>30 DEF Lease, KindSteps
    <3>1. /\ <<r, Kind(r)>> \in Claim /\ want[r][Kind(r)] \in Configs \cup {Off}
          /\ FALSE \in BOOLEAN
      BY <1>1, <3>0 DEF TypeOK
    <3>2. CASE Fails(r) BY <1>3, <3>2 DEF Fails
    <3>3. CASE ~Fails(r)
      <4>1. /\ Leasable(<<r, Kind(r)>>, want[r][Kind(r)])
            /\ AcquireLease(<<r, Kind(r)>>, want[r][Kind(r)], FALSE)
        BY <1>30, <3>3 DEF Lease
      <4> QED BY <1>1, <3>1, <4>1, CoordTypes
    <3> QED BY <3>2, <3>3
  <2> QED BY <1>1, <1>2, <1>4, <1>30, <2>1
      DEF Lease, KindSteps, plan, runState, TypeOK, services, changers, registry, ends
<1>31. CASE Lend(r)
  <2>1. CoordTypeOK'
    <3>0. Kind(r) \in Kinds /\ <<r, Kind(r)>> \in Claim
      BY <1>2, <1>31 DEF Lend, KindSteps
    <3>1. /\ <<r, Kind(r)>> \in Claim /\ service[Kind(r)] \in Configs \cup {Off}
          /\ TRUE \in BOOLEAN
      BY <1>1, <3>0 DEF TypeOK
    <3>2. CASE Fails(r) BY <1>3, <3>2 DEF Fails
    <3>3. CASE ~Fails(r)
      <4>1. /\ Leasable(<<r, Kind(r)>>, service[Kind(r)])
            /\ AcquireLease(<<r, Kind(r)>>, service[Kind(r)], TRUE)
        BY <1>31, <3>3 DEF Lend
      <4> QED BY <1>1, <3>1, <4>1, CoordTypes
    <3> QED BY <3>2, <3>3
  <2>2. CASE ~Fails(r)
    <3>1. want' \in [Runs -> [Kinds -> Configs \cup {Off}]]
      <4>1. Kind(r) \in Kinds BY <1>2, <1>31 DEF Lend, KindSteps
      <4>2. service[Kind(r)] \in Configs \cup {Off} BY <1>1, <4>1 DEF TypeOK
      <4>3. want' = [want EXCEPT ![r][Kind(r)] = service[Kind(r)]]
        BY <1>31, <2>2 DEF Lend
      <4>4. want \in [Runs -> [Kinds -> Configs \cup {Off}]] BY <1>1 DEF TypeOK
      <4> QED BY <4>1, <4>2, <4>3, <4>4
    <3> QED BY <1>1, <1>31, <2>1, <2>2, <3>1
        DEF Lend, plan, runState, TypeOK, services, changers, registry, ends
  <2> QED BY <1>4, <2>2
<1>32. CASE Reserve(r)
  <2>1. CoordTypeOK'
    <3>1. owners[r] \in SUBSET Claim /\ Mine(r) \in SUBSET Claim
      BY <1>1 DEF TypeOK, Mine, Claim
    <3>2. CASE Fails(r) BY <1>3, <3>2 DEF Fails
    <3>3. CASE ~Fails(r)
      <4>1. PrepareLeaseTransfer(r, owners[r], Mine(r)) BY <1>32, <3>3 DEF Reserve
      <4> QED BY <1>1, <3>1, <4>1, CoordTypes
    <3> QED BY <3>2, <3>3
  <2> QED BY <1>1, <1>2, <1>4, <1>32, <2>1
      DEF Reserve, KindSteps, plan, runState, TypeOK, services, changers, registry, ends
<1>33. CASE Resolved(r)
  <2>1. CoordTypeOK'
    BY <1>1, <1>2, <1>3, <1>4, <1>33, CoordTypes DEF Resolved
  <2> QED BY <1>1, <1>2, <1>4, <1>33, <2>1
      DEF Resolved, KindSteps, plan, runState, TypeOK, services, changers, registry, ends
<1>34. CASE Unlease(r)
  <2>1. CoordTypeOK'
    BY <1>1, <1>2, <1>3, <1>4, <1>34, CoordTypes DEF Unlease, KindSteps
  <2> QED BY <1>1, <1>2, <1>4, <1>34, <2>1
      DEF Unlease, KindSteps, plan, runState, TypeOK, services, changers, registry, ends
<1>35. CASE Unclaim(r)
  <2>1. CoordTypeOK'
    BY <1>1, <1>2, <1>3, <1>4, <1>35, CoordTypes DEF Unclaim, KindSteps
  <2> QED BY <1>1, <1>2, <1>4, <1>35, <2>1
      DEF Unclaim, KindSteps, plan, runState, TypeOK, services, changers, registry, ends
<1>36. CASE Commit(r)
  <2>1. CASE route[r] = "desktop"
    BY <1>1, <1>3, <1>36, <2>1
       DEF Commit, plan, runState, TypeOK, services, changers, registry, ends
  <2>2. CASE route[r] # "desktop"
    <3>1. CommitLeaseTransfer(r) /\ At(r, "commit") /\ ticket[r].at = "ready"
      BY <1>36, <2>2 DEF Commit, TicketIntact
    <3>2. /\ Step("commit") \in Doing(r) /\ Head(todo[r])[1] = "commit"
          /\ Step("reserve") \notin Doing(r) /\ \A k : <<"lease", k>> \notin Doing(r)
      BY <3>1, CommitComes DEF SharedInv
    <3>3. ticket[r].new \cap launchAdmissions = {}
      <4>1. CASE closed BY <4>1 DEF SharedInv, Closed
      <4>2. CASE ~closed
        <5>1. ticket[r].new = Mine(r) BY <2>2, <3>2, <4>2 DEF SharedInv, Tickets
        <5>2. \A k \in Kinds : <<r, k>> \notin launchAdmissions
          BY <2>2, <3>2 DEF SharedInv, LeasesAhead
        <5>3. needs[r] \subseteq Kinds BY <1>1 DEF TypeOK
        <5> QED BY <5>1, <5>2, <5>3 DEF Mine
      <4> QED BY <4>1, <4>2
    <3>4. CoordTypeOK' BY <1>1, <3>1, <3>3, CoordTypes
    <3>5. ticket[r].new \subseteq Claim BY <1>1 DEF CoordTypeOK
    <3> QED
      BY <1>1, <1>36, <2>2, <3>4, <3>5
         DEF Commit, plan, runState, TypeOK, services, changers, registry, ends
  <2> QED BY <2>1, <2>2
<1> QED
  BY <1>5, <1>6, <1>7, <1>8, <1>9, <1>10, <1>11, <1>12, <1>13, <1>14, <1>15, <1>16, <1>17,
     <1>18, <1>19, <1>20, <1>21, <1>22, <1>23, <1>24, <1>25, <1>26, <1>27, <1>28, <1>29,
     <1>30, <1>31, <1>32, <1>33, <1>34, <1>35, <1>36,
     <1>37 DEF LaunchAct, LaunchStep

\* its beginning,
LEMMA BeginTypes ==
  ASSUME TypeOK, NEW r \in Runs, NEW how \in Routes, NEW s \in Runs, NEW K \in Plans[r],
         NEW w \in [K \cap Headrooms -> Wishes[r]], Begin(r, how, s, K, Wanted(w)),
         UNCHANGED troubles
  PROVE  /\ TypeOK' /\ how \in {"create", "restart", "desktop"} /\ K \in SUBSET Kinds
         /\ OthersStay(r) /\ Program(todo'[r]) /\ Doing(r)' = Forward(how, K)
<1>1. how \in {"create", "restart", "desktop"} /\ K \in SUBSET Kinds
  BY LaunchesAssumption
<1>2. Program(Steps(how, K)) /\ ToSet(Steps(how, K)) = Forward(how, K)
  BY <1>1, ForwardProgram
<1>3. /\ todo' = [todo EXCEPT ![r] = Steps(how, K)] /\ todo'[r] = Steps(how, K)
      /\ todo' \in [Runs -> Seq(AllSteps)]
  BY <1>2 DEF Begin, TypeOK, Program
<1>4. Wanted(w) \in [Kinds -> Configs \cup {Off}]
  <2>1. Wishes[r] \subseteq Configs BY LaunchesAssumption
  <2>2. service \in [Kinds -> Configs \cup {Off}] BY DEF TypeOK
  <2> QED BY <2>1, <2>2 DEF Wanted
<1>5. CoordTypeOK'
  BY DEF Begin, coord, CoordTypeOK, TypeOK
<1>6. want' \in [Runs -> [Kinds -> Configs \cup {Off}]]
  <2> DEFINE v == Wanted(w)
  <2>1. v \in [Kinds -> Configs \cup {Off}] BY <1>4
  <2> HIDE DEF v
  <2>2. want' = [want EXCEPT ![r] = v] BY DEF Begin, v
  <2> QED BY <2>1, <2>2 DEF TypeOK
<1>7. TypeOK'
  BY <1>1, <1>3, <1>5, <1>6 DEF Begin, TypeOK, services, changers, registry, ends
<1> QED
  BY <1>1, <1>2, <1>3, <1>7 DEF OthersStay, Doing, TypeOK

HandTypes ==
  /\ hand \in [Releasers -> SUBSET Claim] /\ sharedLeases \subseteq Claim
  /\ gate \in [Runs -> {"free", "launch", "stop", "watcher"}]

StopTypes ==
  stop \in [Runs -> {"no", "asked", "exact", "taken", "whole", "done"} \X (Runs \cup {None})]

\* and the steps of who releases.
LEMMA ReleaserTypes ==
  ASSUME TypeOK
  PROVE  /\ \A h, S : Take(h, S) /\ UNCHANGED gate => HandTypes'
         /\ \A s \in Runs, who \in {"launch", "stop", "watcher"} :
              Sweep(s, who) \/ Swept(s, who) => HandTypes'
         /\ UNCHANGED registry => HandTypes'
         /\ \A s \in Runs, at \in {"no", "asked", "exact", "taken", "whole", "done"},
              r \in Runs \cup {None} : StopTo(s, at, r) => StopTypes'
<1>1. ASSUME NEW h, NEW S, Take(h, S)
      PROVE  hand' \in [Releasers -> SUBSET Claim] /\ sharedLeases' \subseteq Claim
  <2>1. hand \in [Releasers -> SUBSET Claim] /\ sharedLeases \subseteq Claim
    BY DEF TypeOK
  <2> QED BY <1>1, <2>1 DEF Take
<1>2. gate \in [Runs -> {"free", "launch", "stop", "watcher"}]
  BY DEF TypeOK
<1>3. ASSUME NEW s \in Runs, NEW who \in {"launch", "stop", "watcher"}, Sweep(s, who)
      PROVE  HandTypes'
  BY <1>1, <1>2, <1>3 DEF Sweep, HandTypes
<1>4. ASSUME NEW s \in Runs, NEW who \in {"launch", "stop", "watcher"}, Swept(s, who)
      PROVE  HandTypes'
  BY <1>2, <1>4 DEF Swept, HandTypes, TypeOK
<1>5. ASSUME NEW s \in Runs, NEW at \in {"no", "asked", "exact", "taken", "whole", "done"},
             NEW r \in Runs \cup {None}, StopTo(s, at, r)
      PROVE  StopTypes'
  BY <1>5 DEF StopTo, StopTypes, TypeOK
<1>6. UNCHANGED registry => HandTypes'
  BY DEF registry, HandTypes, TypeOK
<1>7. ASSUME NEW h, NEW S, Take(h, S), UNCHANGED gate PROVE HandTypes'
  BY <1>1, <1>2, <1>7 DEF HandTypes
<1> QED BY <1>3, <1>4, <1>5, <1>6, <1>7

\* Every step keeps the types.
LEMMA NextTypes ==
  ASSUME SharedInv, Next
  PROVE  TypeOK'
<1>1. /\ TypeOK /\ CoordTypeOK /\ launchAdmissions \cap released = {}
  BY DEF SharedInv, Agreement, TypeOK
<1>2. ASSUME UNCHANGED coord PROVE CoordTypeOK'
  BY <1>1, <1>2 DEF coord, CoordTypeOK
<1>3. troubles' \in 0..MaxTroubles
  <2>1. UNCHANGED troubles \/ (troubles < MaxTroubles /\ troubles' = troubles + 1)
    BY DEF Next, Work, Launch, RunEnds, Release, StopStep, WatcherStep, Closing, Changing,
         Trouble
  <2> QED BY <1>1, <2>1, LaunchesAssumption DEF TypeOK
<1> USE DEF services, changers, registry, ends, launchState, runState
<1>4. ASSUME NEW r \in Runs, Launch(r) PROVE TypeOK'
  BY <1>3, <1>4, LaunchTypes DEF Launch, LaunchAct
<1>5. ASSUME NEW r \in Runs, StartFails(r) \/ CloseFails(r) \/ CommitFails(r),
             troubles' = troubles + 1
      PROVE  TypeOK'
  BY <1>1, <1>2, <1>3, <1>5, LaunchTypes DEF LaunchAct
<1>6. ASSUME NEW r \in Runs, OfferExit(r) PROVE TypeOK'
  <2>1. HandTypes' BY <1>1, <1>6, ReleaserTypes DEF OfferExit
  <2> QED BY <1>1, <1>2, <1>3, <1>6, <2>1 DEF OfferExit, TypeOK, HandTypes
<1>7. ASSUME NEW r \in Runs, ProcessExits(r) PROVE TypeOK'
  BY <1>1, <1>2, <1>3, <1>7 DEF ProcessExits, TypeOK
<1>8. ASSUME NEW h \in Releasers, NEW l \in hand[h], Drop(h, l) PROVE TypeOK'
  <2>1. {l} \in SUBSET Claim BY <1>1 DEF TypeOK
  <2>2. CoordTypeOK' BY <1>1, <1>8, <2>1, CoordTypes DEF Drop
  <2> QED BY <1>1, <1>3, <1>8, <2>2 DEF Drop, TypeOK
<1>9. ASSUME NEW s \in Runs, Stop(s) PROVE TypeOK'
  <2>1. live[s] \in Runs \cup {None} BY <1>1 DEF TypeOK
  <2>2. StopTypes' BY <1>1, <1>9, <2>1, ReleaserTypes DEF Stop
  <2> QED BY <1>1, <1>2, <1>3, <1>9, <2>2 DEF Stop, TypeOK, StopTypes
<1>10. ASSUME NEW s \in Runs, StopCommits(s) PROVE TypeOK'
  <2>1. stop[s][2] \in Runs \cup {None} /\ None \in Runs \cup {None} BY <1>1 DEF TypeOK
  <2>2. StopTypes' BY <1>1, <1>10, <2>1, ReleaserTypes DEF StopCommits
  <2> QED BY <1>1, <1>2, <1>3, <1>10, <2>2 DEF StopCommits, TypeOK, StopTypes
<1>22. ASSUME NEW s \in Runs, StopFails(s) PROVE TypeOK'
  <2>1. stop[s][2] \in Runs \cup {None} /\ None \in Runs \cup {None} BY <1>1 DEF TypeOK
  <2>2. StopTypes' BY <1>1, <1>22, <2>1, ReleaserTypes DEF StopFails
  <2>3. proc' \in [Runs -> {"none", "running", "exited", "ended", "gone"}]
    BY <1>1, <1>22, ClosedTypes DEF StopFails
  <2> QED BY <1>1, <1>2, <1>3, <1>22, <2>2, <2>3 DEF StopFails, TypeOK, StopTypes
<1>11. ASSUME NEW s \in Runs, StopReleases(s) PROVE TypeOK'
  <2>1. stop[s][2] \in Runs \cup {None} BY <1>1 DEF TypeOK
  <2>2. StopTypes' BY <1>1, <1>11, <2>1, ReleaserTypes DEF StopReleases
  <2>3. HandTypes' BY <1>1, <1>11, ReleaserTypes DEF StopReleases
  <2>4. UNCHANGED <<coord, launchState, runState, services, watcher, shutdown>>
    BY <1>11 DEF StopReleases
  <2>5. CoordTypeOK' BY <1>2, <2>4
  <2> QED BY <1>1, <1>3, <2>2, <2>3, <2>4, <2>5 DEF TypeOK, StopTypes, HandTypes
<1>12. ASSUME NEW s \in Runs, Watcher(s) PROVE TypeOK'
  <2>1. HandTypes' BY <1>1, <1>12, ReleaserTypes DEF Watcher
  <2>2. UNCHANGED <<coord, launchState, runState, services, stop, shutdown>>
    BY <1>12 DEF Watcher
  <2>3. watcher' \in [Runs -> {"no", "polling", "saw", "done"}]
    BY <1>1, <1>12 DEF Watcher, TypeOK
  <2>4. CoordTypeOK' BY <1>2, <2>2
  <2> QED BY <1>1, <1>3, <2>1, <2>2, <2>3, <2>4 DEF TypeOK, HandTypes
<1>13. ASSUME NEW k \in Kinds, BeginMutation(k) PROVE TypeOK'
  <2>1. CoordTypeOK' BY <1>1, <1>13, CoordTypes DEF BeginMutation
  <2> QED BY <1>1, <1>3, <1>13, <2>1 DEF BeginMutation, TypeOK
<1>14. ASSUME NEW k \in Kinds, NEW f \in Configs \cup {Off}, EndMutation(k, f) PROVE TypeOK'
  <2>1. CoordTypeOK' BY <1>1, <1>14, CoordTypes DEF EndMutation
  <2> QED BY <1>1, <1>3, <1>14, <2>1 DEF EndMutation, TypeOK
<1>15. CASE BeginUninstall
  <2>1. CoordTypeOK' BY <1>1, <1>15, CoordTypes DEF BeginUninstall
  <2> QED BY <1>1, <1>3, <1>15, <2>1 DEF BeginUninstall, TypeOK
<1>16. CASE EndUninstall
  <2>1. CoordTypeOK' BY <1>1, <1>16, CoordTypes DEF EndUninstall
  <2> QED BY <1>1, <1>3, <1>16, <2>1 DEF EndUninstall, TypeOK
<1>17. CASE StopForUninstall
  BY <1>1, <1>2, <1>3, <1>17 DEF StopForUninstall, TypeOK
<1>18. ASSUME NEW k \in Kinds, ServiceStops(k) PROVE TypeOK'
  BY <1>1, <1>2, <1>3, <1>18 DEF ServiceStops, TypeOK
<1>19. CASE Fence
  BY <1>1, <1>2, <1>3, <1>19 DEF Fence, ShutdownTo, TypeOK
<1>20. CASE ShutdownStep
  <2>1. CoordTypeOK' BY <1>1, <1>2, <1>20, CoordTypes DEF ShutdownStep
  <2>2. hand' \in [Releasers -> SUBSET Claim]
    BY <1>1, <1>20 DEF ShutdownStep, TypeOK
  <2>3. service' \in [Kinds -> Configs \cup {Off}]
    BY <1>1, <1>20 DEF ShutdownStep, TypeOK
  <2> QED BY <1>1, <1>3, <1>20, <2>1, <2>2, <2>3 DEF ShutdownStep, ShutdownTo, TypeOK
<1>21. CASE BeginAny /\ UNCHANGED troubles
  <2>1. PICK r \in Runs : \E how \in Routes, s \in Runs, K \in Plans[r] :
          \E w \in [K \cap Headrooms -> Wishes[r]] : Begin(r, how, s, K, Wanted(w))
    BY <1>21 DEF BeginAny
  <2>2. PICK how \in Routes, s \in Runs, K \in Plans[r] :
          \E w \in [K \cap Headrooms -> Wishes[r]] : Begin(r, how, s, K, Wanted(w))
    BY <2>1
  <2>3. PICK w \in [K \cap Headrooms -> Wishes[r]] : Begin(r, how, s, K, Wanted(w))
    BY <2>2
  <2> QED BY <1>1, <1>21, <2>3, BeginTypes
<1> QED
  BY <1>4, <1>5, <1>6, <1>7, <1>8, <1>9, <1>10, <1>11, <1>12, <1>13, <1>14, <1>15,
     <1>16, <1>17, <1>18, <1>19, <1>20, <1>21, <1>22
     DEF Next, Work, RunEnds, Release, Drops, StopStep, WatcherStep, Closing, Changing,
         Trouble, Kinds

-----------------------------------------------------------------------------
(* What a step may change                                                  *)

\* A launch begins, with the plan of its route.
Begun(r, how, s, K, w) ==
  /\ r \in Runs /\ how \in {"create", "restart", "desktop"} /\ s \in Runs
  /\ K \in SUBSET Kinds /\ Begin(r, how, s, K, w)
  /\ OthersStay(r) /\ Program(todo'[r]) /\ Doing(r)' = Forward(how, K)

\* The actions that are no step of a launch.
Elsewhere ==
  \/ \E r \in Runs : OfferExit(r) \/ ProcessExits(r)
  \/ \E h \in Releasers : \E l \in hand[h] : Drop(h, l)
  \/ \E s \in Runs :
       Stop(s) \/ StopCommits(s) \/ StopFails(s) \/ StopReleases(s) \/ Watcher(s)
  \/ \E k \in Kinds : BeginMutation(k)
  \/ \E k \in Headrooms : ServiceStops(k)
  \/ \E k \in Kinds, f \in Configs \cup {Off} : EndMutation(k, f)
  \/ BeginUninstall \/ StopForUninstall \/ EndUninstall \/ Fence \/ ShutdownStep

\* The three kinds of step.
LEMMA NextCases ==
  ASSUME TypeOK, Next
  PROVE  \/ \E r \in Runs : LaunchAct(r)
         \/ \E r, how, s, K, w : Begun(r, how, s, K, w)
         \/ Elsewhere
<1>1. CASE BeginAny /\ UNCHANGED troubles
  <2>1. PICK r \in Runs : \E how \in Routes, s \in Runs, K \in Plans[r] :
          \E w \in [K \cap Headrooms -> Wishes[r]] : Begin(r, how, s, K, Wanted(w))
    BY <1>1 DEF BeginAny
  <2>2. PICK how \in Routes, s \in Runs, K \in Plans[r] :
          \E w \in [K \cap Headrooms -> Wishes[r]] : Begin(r, how, s, K, Wanted(w))
    BY <2>1
  <2>3. PICK w \in [K \cap Headrooms -> Wishes[r]] : Begin(r, how, s, K, Wanted(w))
    BY <2>2
  <2>4. Begun(r, how, s, K, Wanted(w))
    BY <1>1, <2>3, BeginTypes DEF Begun
  <2> QED BY <2>4
<1> QED
  BY <1>1 DEF Next, Work, Launch, RunEnds, Release, Drops, StopStep, WatcherStep, Closing,
     Changing, Trouble, Kinds, LaunchAct, Elsewhere

\* What a step of a launch leaves alone, and which steps do not.
LEMMA LaunchFrame ==
  ASSUME NEW r \in Runs, LaunchAct(r)
  PROVE  /\ UNCHANGED <<route, needs, sess, stop, shutdown, mutating, uninstall>>
         /\ want' = want \/ Lend(r)
         /\ sealed' = sealed \/ Seal(r) \/ Unseal(r)
         /\ live' = live \/ Commit(r) \/ Untoken(r)
         /\ service' = service \/ Use(r) \/ Effect(r) \/ RawStop(r)
         /\ \/ UNCHANGED coord
            \/ ClaimKind(r) \/ Mark(r) \/ Unverified(r) \/ Authorize(r) \/ Lease(r)
            \/ Lend(r) \/ Reserve(r) \/ Commit(r) \/ Resolved(r) \/ Unlease(r) \/ Unclaim(r)
         /\ \/ UNCHANGED <<sharedLeases, hand>>
            \/ Remember(r) \/ Commit(r) \/ LaunchSweeps(r) \/ Disown(r)
<1> USE DEF plan, runState, services, changers, registry, ends
<1>1. CASE ClaimKind(r) \/ ClaimRefused(r) \/ Fresh(r) \/ Use(r)
  BY <1>1 DEF ClaimKind, ClaimRefused, Fresh, Use, Fails
<1>2. CASE Effect(r) \/ EffectFails(r) \/ Mark(r) \/ Unverified(r)
  BY <1>2 DEF Effect, EffectFails, Mark, Unverified, Fails
<1>3. CASE Authorize(r) \/ RawStop(r) \/ CloseOld(r) \/ BeginRun(r)
  BY <1>3 DEF Authorize, RawStop, CloseOld, BeginRun, Fails
<1>4. CASE StartProcess(r) \/ Lease(r) \/ Lend(r) \/ Remember(r)
  BY <1>4 DEF StartProcess, Lease, Lend, Remember, Fails
<1>5. CASE Seal(r) \/ SealFails(r) \/ Owners(r) \/ Reserve(r)
  BY <1>5 DEF Seal, SealFails, Owners, Reserve, Fails
<1>6. CASE Commit(r) \/ Unseal(r) \/ Resolve(r) \/ Resolved(r)
  BY <1>6 DEF Commit, Unseal, Resolve, Resolved, Fails
<1>7. CASE Unlease(r) \/ Unclaim(r) \/ LaunchSweeps(r) \/ Disown(r)
  BY <1>7 DEF Unlease, Unclaim, LaunchSweeps, Disown, Fails
<1>8. CASE Untoken(r) \/ Watch(r) \/ StartFails(r) \/ CloseFails(r) \/ CommitFails(r)
  BY <1>8 DEF Untoken, Watch, StartFails, CloseFails, CommitFails, Fails
<1> QED
  BY <1>1, <1>2, <1>3, <1>4, <1>5, <1>6, <1>7, <1>8 DEF LaunchAct, LaunchStep

\* What the other steps leave alone, and which do not.
LEMMA ElsewhereFrame ==
  ASSUME Elsewhere
  PROVE  /\ UNCHANGED <<todo, route, needs, sess, want, sealed>>
         /\ \/ UNCHANGED coord
            \/ \E h \in Releasers : \E l \in hand[h] : Drop(h, l)
            \/ \E k \in Kinds : BeginMutation(k)
            \/ \E k \in Kinds, f \in Configs \cup {Off} : EndMutation(k, f)
            \/ BeginUninstall \/ EndUninstall \/ ShutdownStep
         /\ \/ UNCHANGED <<sharedLeases, hand>>
            \/ \E r \in Runs : OfferExit(r)
            \/ \E h \in Releasers : \E l \in hand[h] : Drop(h, l)
            \/ \E s \in Runs : StopReleases(s) \/ Watcher(s)
            \/ ShutdownStep
         /\ mutating' = mutating \/ (\E k \in Kinds : BeginMutation(k))
              \/ (\E k \in Kinds, f \in Configs \cup {Off} : EndMutation(k, f))
         /\ uninstall' = uninstall \/ BeginUninstall \/ StopForUninstall \/ EndUninstall
         /\ \/ service' = service \/ StopForUninstall \/ ShutdownStep
            \/ \E k \in Headrooms : ServiceStops(k)
            \/ \E k \in Kinds, f \in Configs \cup {Off} : EndMutation(k, f)
         /\ shutdown' = shutdown \/ Fence \/ ShutdownStep
         /\ \/ stop' = stop
            \/ \E s \in Runs : Stop(s) \/ StopCommits(s) \/ StopFails(s) \/ StopReleases(s)
         /\ \/ live' = live
            \/ \E r \in Runs : OfferExit(r)
            \/ \E s \in Runs : StopCommits(s)
<1> USE DEF launchState, runState, services, changers, registry, ends
<1>1. ASSUME NEW r \in Runs, OfferExit(r) \/ ProcessExits(r)
      PROVE  /\ UNCHANGED <<launchState, coord, services, ends>>
             /\ UNCHANGED <<sharedLeases, hand, live>> \/ OfferExit(r)
  BY <1>1 DEF OfferExit, ProcessExits
<1>2. ASSUME NEW h \in Releasers, NEW l \in hand[h], Drop(h, l)
      PROVE  UNCHANGED <<launchState, services, ends, live>>
  BY <1>2 DEF Drop
<1>3. ASSUME NEW s \in Runs,
             Stop(s) \/ StopCommits(s) \/ StopFails(s) \/ StopReleases(s) \/ Watcher(s)
      PROVE  /\ UNCHANGED <<launchState, coord, services, shutdown>>
             /\ UNCHANGED <<sharedLeases, hand>> \/ StopReleases(s) \/ Watcher(s)
             /\ stop' = stop \/ Stop(s) \/ StopCommits(s) \/ StopFails(s) \/ StopReleases(s)
             /\ live' = live \/ StopCommits(s)
  <2>1. CASE Stop(s) BY <2>1 DEF Stop
  <2>2. CASE StopCommits(s) BY <2>2 DEF StopCommits
  <2>3. CASE StopReleases(s) BY <2>3 DEF StopReleases
  <2>4. CASE Watcher(s) BY <2>4 DEF Watcher
  <2>5. CASE StopFails(s) BY <2>5 DEF StopFails
  <2> QED BY <1>3, <2>1, <2>2, <2>3, <2>4, <2>5
<1>4. ASSUME NEW k \in Kinds, BeginMutation(k)
      PROVE  UNCHANGED <<launchState, service, registry, ends, live, uninstall>>
  BY <1>4 DEF BeginMutation
<1>8. ASSUME NEW k \in Headrooms, ServiceStops(k)
      PROVE  UNCHANGED <<launchState, coord, mutating, registry, ends, live, uninstall>>
  BY <1>8 DEF ServiceStops
<1>5. ASSUME NEW k \in Kinds, NEW f \in Configs \cup {Off}, EndMutation(k, f)
      PROVE  UNCHANGED <<launchState, registry, ends, live, uninstall>>
  BY <1>5 DEF EndMutation
<1>6. ASSUME BeginUninstall \/ StopForUninstall \/ EndUninstall
      PROVE  /\ UNCHANGED <<launchState, registry, ends, live, mutating>>
             /\ UNCHANGED coord \/ BeginUninstall \/ EndUninstall
             /\ service' = service \/ StopForUninstall
  BY <1>6 DEF BeginUninstall, StopForUninstall, EndUninstall
<1>7. ASSUME Fence \/ ShutdownStep
      PROVE  /\ UNCHANGED <<launchState, mutating, uninstall, live, stop>>
             /\ UNCHANGED <<coord, sharedLeases, hand, service>> \/ ShutdownStep
  BY <1>7 DEF Fence, ShutdownStep, ShutdownTo
<1> QED
  BY <1>1, <1>2, <1>3, <1>4, <1>5, <1>6, <1>7, <1>8 DEF Elsewhere

=============================================================================
