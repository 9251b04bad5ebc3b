------------------------- MODULE ServerLifecycle_proofs -------------------------
(***************************************************************************)
(* That one run has the server at a time, that the registry and the        *)
(* pairing service accept for it alone, and that the service events come   *)
(* in order, for any number of callers and of runs.                        *)
(***************************************************************************)
EXTENDS ServerLifecycle, SequenceTheorems, FiniteSetTheorems, TLAPS

Opening   == {"listen", "publish"}
Following == {"publish", "accept", "restart", "emit"}
Over      == {"closing", "done"}

-----------------------------------------------------------------------------
(* The inductive invariant, in parts                                        *)

\* starting is the one starter's that is between the gate and publication, and
\* no run is current or shutting down beside it.
Gate ==
  /\ \A c \in Starter : start[c].at \in Opening =>
       starting /\ ~running /\ curRun = NoRun /\ stoppingRun = NoRun
  /\ \A c, d \in Starter : start[c].at \in Opening /\ start[d].at \in Opening => c = d

Current == curRun # NoRun => running /\ stoppingRun = NoRun /\ down[curRun] = "none"

\* A run is being published, current, the one that is stopping, or over.
Places ==
  \A r \in 1..opened :
    /\ down[r] = "none" =>
         r = curRun \/ \E c \in Starter : start[c].at = "publish" /\ start[c].run = r
    /\ down[r] \in {"fence", "suspend", "registry", "close", "tail"} => stoppingRun = r /\ running
    /\ down[r] \in {"emit", "clear"} => stoppingRun = r
    /\ down[r] # "none" => r \in same
    /\ r < opened => down[r] \in Over

Unopened == \A r \in Runs : r > opened => down[r] = "none"

\* The starter that publishes a run is the only one who knows it.
Publisher ==
  \A c \in Starter : start[c].at = "publish" =>
    /\ start[c].run = opened /\ opened # 0 /\ down[opened] = "none"
    /\ opened \notin pending
    /\ \A p \in Stopper : stop[p].run # opened

Followers ==
  /\ \A c, d \in Starter :
       start[c].at \in Following /\ start[d].at \in Following /\ start[c].run = start[d].run => c = d
  /\ \A c \in Starter :
       /\ start[c].at = "accept" => start[c].run \in (1..opened) \ pending
       /\ start[c].at \in {"restart", "emit"} => start[c].run \in pending \ startedDone
       /\ start[c].at = "recheck" => start[c].run \in startedDone

Stoppers == \A p \in Stopper : stop[p].at = "stopping" => stop[p].run # NoRun

\* An accepted run's shutdown does not get past its started event.
Awaited == \A r \in pending \ startedDone : down[r] \notin {"clear", "closing", "done"}

Listeners == \A r \in listening : down[r] \in {"none", "fence", "suspend", "registry", "close"}

Logged ==
  \A i \in DOMAIN events :
    /\ events[i].what = "started" => events[i].run \in startedDone
    /\ events[i].what = "stopped" => down[events[i].run] \in {"clear", "closing", "done"}

EventType == [what : {"started", "stopped"}, run : 1..opened]

Control == Gate /\ Current /\ Places /\ Unopened /\ Publisher /\ Followers /\ Stoppers
IInv == TypeOK /\ Control /\ Awaited /\ Listeners /\ Logged /\ AcceptsForARun /\ EventOrder

-----------------------------------------------------------------------------
(* Sequences                                                                *)

LEMMA Appended == ASSUME NEW S, NEW s \in Seq(S), NEW e \in S
  PROVE /\ Append(s, e) \in Seq(S) /\ DOMAIN Append(s, e) = DOMAIN s \cup {Len(s) + 1}
        /\ \A i \in DOMAIN s : Append(s, e)[i] = s[i] /\ i <= Len(s)
        /\ Append(s, e)[Len(s) + 1] = e
  OBVIOUS

LEMMA ElementsOf == ASSUME NEW S, NEW s \in Seq(S) PROVE \A i \in DOMAIN s : s[i] \in S
  OBVIOUS

LEMMA BeginStartStep == ASSUME IInv, NEW c \in Starter, BeginStart(c) PROVE IInv'
<1>1. TypeOK'
  <2>1. start' \in [Starter -> [at : StartPlaces, run : 0..opened]]
    BY DEF IInv, TypeOK, BeginStart, At, StartPlaces
  <2>2. QED
    BY <2>1 DEF IInv, TypeOK, runVars, recordVars, acceptVars, BeginStart
<1>2. Gate'
  BY DEF IInv, Control, Gate, BeginStart, runVars, At, Opening
<1>3. Places'
  BY DEF IInv, Control, Places, BeginStart, runVars, recordVars, At, Returned
<1>4. Publisher'
  BY DEF IInv, Control, Publisher, BeginStart, runVars, recordVars, At
<1>5. Followers'
  BY DEF IInv, Control, Followers, BeginStart, runVars, recordVars, At, Following
<1>6. (Current /\ Unopened /\ Stoppers /\ Awaited /\ Listeners /\ Logged /\ AcceptsForARun /\ EventOrder)'
  BY DEF IInv, Control, Current, Unopened, Stoppers, Awaited, Listeners, Logged, AcceptsForARun,
         EventOrder, BeginStart, runVars, acceptVars, recordVars
<1>7. QED
  BY <1>1, <1>2, <1>3, <1>4, <1>5, <1>6 DEF IInv, Control

LEMMA GiveUpStep == ASSUME IInv, NEW c \in Starter, GiveUp(c) PROVE IInv'
<1>1. TypeOK'
  <2>1. start' \in [Starter -> [at : StartPlaces, run : 0..opened]]
    BY DEF IInv, TypeOK, GiveUp, Return, StartPlaces, Returned, NoRun
  <2>2. QED
    BY <2>1 DEF IInv, TypeOK, runVars, recordVars, acceptVars, GiveUp
<1>2. Gate'
  BY DEF IInv, Control, Gate, GiveUp, runVars, Return, Opening
<1>3. Places'
  BY DEF IInv, Control, Places, GiveUp, runVars, recordVars, Return
<1>4. Publisher'
  BY DEF IInv, Control, Publisher, GiveUp, runVars, recordVars, Return
<1>5. Followers'
  BY DEF IInv, Control, Followers, GiveUp, runVars, recordVars, Return, Following
<1>6. (Current /\ Unopened /\ Stoppers /\ Awaited /\ Listeners /\ Logged /\ AcceptsForARun /\ EventOrder)'
  BY DEF IInv, Control, Current, Unopened, Stoppers, Awaited, Listeners, Logged, AcceptsForARun,
         EventOrder, GiveUp, runVars, acceptVars, recordVars
<1>7. QED
  BY <1>1, <1>2, <1>3, <1>4, <1>5, <1>6 DEF IInv, Control

LEMMA EnterStep == ASSUME IInv, NEW c \in Starter, Enter(c) PROVE IInv'
<1>1. /\ start \in [Starter -> [at : StartPlaces, run : 0..opened]]
      /\ start[c].at = "entry"
      /\ UNCHANGED <<opened, curRun, running, stoppingRun, stop, down, same, pending, startedDone, listening, serving, pairing, registry, control, events>>
  BY DEF IInv, TypeOK, Enter, acceptVars, recordVars
<1>2. CASE running /\ Return(c, "ok") /\ UNCHANGED starting
  <2>1. /\ start' = [start EXCEPT ![c] = [at |-> "ok", run |-> NoRun]]
        /\ UNCHANGED starting
        /\ running
    BY <1>2 DEF Return
  <2>2. start' \in [Starter -> [at : StartPlaces, run : 0..opened']]
    BY <1>1, <2>1 DEF StartPlaces, IInv, TypeOK, NoRun, Returned
  <2>3. TypeOK'
    BY <1>1, <1>2, <2>1, <2>2 DEF IInv, TypeOK
  <2>4. Gate'
    BY <1>1, <1>2, <2>1, <2>2 DEF IInv, Control, Gate, Opening
  <2>5. Places'
    BY <1>1, <1>2, <2>1, <2>2 DEF IInv, Control, Places
  <2>6. Publisher'
    BY <1>1, <1>2, <2>1, <2>2 DEF IInv, Control, Publisher
  <2>7. Followers'
    BY <1>1, <1>2, <2>1, <2>2 DEF IInv, Control, Followers, Following
  <2>8. (Current /\ Unopened /\ Stoppers /\ Awaited /\ Listeners /\ Logged /\ AcceptsForARun /\ EventOrder)'
    BY <1>1, <1>2, <2>1, <2>2
    DEF IInv, Control, Current, Unopened, Stoppers, Awaited, Listeners, Logged, AcceptsForARun,
        EventOrder
  <2>9. QED
    BY <2>3, <2>4, <2>5, <2>6, <2>7, <2>8 DEF IInv, Control
<1>3. CASE ~running /\ starting /\ Return(c, "failed") /\ UNCHANGED starting
  <2>1. /\ start' = [start EXCEPT ![c] = [at |-> "failed", run |-> NoRun]]
        /\ UNCHANGED starting
        /\ ~running
    BY <1>3 DEF Return
  <2>2. start' \in [Starter -> [at : StartPlaces, run : 0..opened']]
    BY <1>1, <2>1 DEF StartPlaces, IInv, TypeOK, NoRun, Returned
  <2>3. TypeOK'
    BY <1>1, <1>3, <2>1, <2>2 DEF IInv, TypeOK
  <2>4. Gate'
    BY <1>1, <1>3, <2>1, <2>2 DEF IInv, Control, Gate, Opening
  <2>5. Places'
    BY <1>1, <1>3, <2>1, <2>2 DEF IInv, Control, Places
  <2>6. Publisher'
    BY <1>1, <1>3, <2>1, <2>2 DEF IInv, Control, Publisher
  <2>7. Followers'
    BY <1>1, <1>3, <2>1, <2>2 DEF IInv, Control, Followers, Following
  <2>8. (Current /\ Unopened /\ Stoppers /\ Awaited /\ Listeners /\ Logged /\ AcceptsForARun /\ EventOrder)'
    BY <1>1, <1>3, <2>1, <2>2
    DEF IInv, Control, Current, Unopened, Stoppers, Awaited, Listeners, Logged, AcceptsForARun,
        EventOrder
  <2>9. QED
    BY <2>3, <2>4, <2>5, <2>6, <2>7, <2>8 DEF IInv, Control
<1>4. CASE /\ ~running /\ ~starting /\ stoppingRun # NoRun
          /\ start' = [start EXCEPT ![c] = [at |-> "wait", run |-> stoppingRun]]
          /\ UNCHANGED starting
  <2>1. /\ start' = [start EXCEPT ![c] = [at |-> "wait", run |-> stoppingRun]]
        /\ UNCHANGED starting
        /\ stoppingRun # NoRun
    BY <1>4
  <2>2. start' \in [Starter -> [at : StartPlaces, run : 0..opened']]
    BY <1>1, <2>1 DEF StartPlaces, IInv, TypeOK
  <2>3. TypeOK'
    BY <1>1, <1>4, <2>1, <2>2 DEF IInv, TypeOK
  <2>4. Gate'
    BY <1>1, <1>4, <2>1, <2>2 DEF IInv, Control, Gate, Opening
  <2>5. Places'
    BY <1>1, <1>4, <2>1, <2>2 DEF IInv, Control, Places
  <2>6. Publisher'
    BY <1>1, <1>4, <2>1, <2>2 DEF IInv, Control, Publisher
  <2>7. Followers'
    BY <1>1, <1>4, <2>1, <2>2 DEF IInv, Control, Followers, Following
  <2>8. (Current /\ Unopened /\ Stoppers /\ Awaited /\ Listeners /\ Logged /\ AcceptsForARun /\ EventOrder)'
    BY <1>1, <1>4, <2>1, <2>2
    DEF IInv, Control, Current, Unopened, Stoppers, Awaited, Listeners, Logged, AcceptsForARun,
        EventOrder
  <2>9. QED
    BY <2>3, <2>4, <2>5, <2>6, <2>7, <2>8 DEF IInv, Control
<1>5. CASE ~running /\ ~starting /\ stoppingRun = NoRun /\ starting' = TRUE /\ At(c, "listen")
  <2>1. /\ start' = [start EXCEPT ![c].at = "listen"]
        /\ starting' = TRUE
        /\ ~running /\ ~starting /\ stoppingRun = NoRun
    BY <1>5 DEF At
  <2>2. start' \in [Starter -> [at : StartPlaces, run : 0..opened']]
    BY <1>1, <2>1 DEF StartPlaces
  <2>3. TypeOK'
    BY <1>1, <1>5, <2>1, <2>2 DEF IInv, TypeOK
  <2>4. Gate'
    BY <1>1, <1>5, <2>1, <2>2 DEF IInv, Control, Gate, Current
  <2>5. Places'
    BY <1>1, <1>5, <2>1, <2>2 DEF IInv, Control, Places
  <2>6. Publisher'
    BY <1>1, <1>5, <2>1, <2>2 DEF IInv, Control, Publisher
  <2>7. Followers'
    BY <1>1, <1>5, <2>1, <2>2 DEF IInv, Control, Followers, Following
  <2>8. (Current /\ Unopened /\ Stoppers /\ Awaited /\ Listeners /\ Logged /\ AcceptsForARun /\ EventOrder)'
    BY <1>1, <1>5, <2>1, <2>2
    DEF IInv, Control, Current, Unopened, Stoppers, Awaited, Listeners, Logged, AcceptsForARun,
        EventOrder
  <2>9. QED
    BY <2>3, <2>4, <2>5, <2>6, <2>7, <2>8 DEF IInv, Control
<1>6. QED
  BY <1>2, <1>3, <1>4, <1>5 DEF Enter

LEMMA WakeStep == ASSUME IInv, NEW c \in Starter, Wake(c) PROVE IInv'
<1>1. TypeOK'
  <2>1. start' \in [Starter -> [at : StartPlaces, run : 0..opened]]
    BY DEF IInv, TypeOK, Wake, StartPlaces, NoRun
  <2>2. QED
    BY <2>1 DEF IInv, TypeOK, runVars, recordVars, acceptVars, Wake
<1>2. Gate'
  BY DEF IInv, Control, Gate, Wake, runVars, Opening
<1>3. Places'
  BY DEF IInv, Control, Places, Wake, runVars, recordVars
<1>4. Publisher'
  BY DEF IInv, Control, Publisher, Wake, runVars, recordVars
<1>5. Followers'
  BY DEF IInv, Control, Followers, Wake, runVars, recordVars, Following
<1>6. (Current /\ Unopened /\ Stoppers /\ Awaited /\ Listeners /\ Logged /\ AcceptsForARun /\ EventOrder)'
  BY DEF IInv, Control, Current, Unopened, Stoppers, Awaited, Listeners, Logged, AcceptsForARun,
         EventOrder, Wake, runVars, acceptVars, recordVars
<1>7. QED
  BY <1>1, <1>2, <1>3, <1>4, <1>5, <1>6 DEF IInv, Control

LEMMA ListenStep == ASSUME IInv, NEW c \in Starter, Listen(c) PROVE IInv'
<1>1. /\ start \in [Starter -> [at : StartPlaces, run : 0..opened]]
      /\ start[c].at = "listen"
      /\ UNCHANGED <<curRun, running, stoppingRun, stop, down, same, pending, startedDone, serving, pairing, registry, control, events>>
  BY DEF IInv, TypeOK, Listen, acceptVars
<1>2. CASE /\ opened < MaxRuns /\ opened' = opened + 1
          /\ start' = [start EXCEPT ![c] = [at |-> "publish", run |-> opened']]
          /\ listening' = listening \cup {opened'}
          /\ UNCHANGED starting
  <2>1. /\ start' = [start EXCEPT ![c] = [at |-> "publish", run |-> opened + 1]]
        /\ opened < MaxRuns /\ opened' = opened + 1
        /\ listening' = listening \cup {opened + 1}
        /\ UNCHANGED starting
    BY <1>2
  <2>2. start' \in [Starter -> [at : StartPlaces, run : 0..opened']]
    BY <1>1, <2>1 DEF StartPlaces, IInv, TypeOK
  <2>3. TypeOK'
    <3>1. EventType \subseteq EventType' /\ opened \in Nat
      BY <1>1, <2>1, RunsAssumption DEF IInv, TypeOK, EventType
    <3>2. events \in Seq(EventType')
      BY SeqMonotonic, <3>1 DEF IInv, TypeOK, EventType
    <3>3. stop \in [Stopper -> [at : {"returned", "stopping"}, run : 0..opened']]
      BY <1>1, <2>1 DEF IInv, TypeOK
    <3>4. QED
      BY <1>1, <1>2, <2>1, <2>2, <3>1, <3>2, <3>3, RunsAssumption DEF IInv, TypeOK, EventType
  <2>4. Gate'
    BY <1>1, <1>2, <2>1, <2>2 DEF IInv, Control, Gate, Opening
  <2>5. Places'
    <3>1. \A q \in 1..opened : down[q] \in Over
      BY <1>1 DEF IInv, Control, TypeOK, Places, Gate, Opening, Over, NoRun, DownPlaces, Runs
    <3>2. down[opened'] = "none" /\ opened' \in Runs
      BY <1>1, <2>1, RunsAssumption DEF IInv, Control, TypeOK, Unopened, Runs
    <3>3. ASSUME NEW q \in 1..opened', q = opened + 1
          PROVE down[q] = "none" /\ start'[c].at = "publish" /\ start'[c].run = q
      BY <1>1, <2>1, <3>2, <3>3
    <3>4. \A q \in 1..opened' : q = opened + 1 \/ q \in 1..opened
      BY <2>1, RunsAssumption DEF IInv, TypeOK
    <3>5. opened \in Nat /\ \A q \in 1..opened : q < opened + 1
      BY RunsAssumption DEF IInv, TypeOK
    <3>6. \A q \in 1..opened : 
            q \in same /\ down[q] \notin {"none", "fence", "suspend", "registry", "close", "tail", "emit", "clear"}
      BY <3>1 DEF IInv, Control, Places, Over
    <3>7. QED
      BY <1>1, <2>1, <3>1, <3>2, <3>3, <3>4, <3>5, <3>6 DEF Places
  <2>6. Unopened'
    BY <1>1, <1>2, <2>1, <2>2 DEF IInv, Control, TypeOK, Unopened, Runs
  <2>7. Publisher'
    <3>1. down[opened'] = "none" /\ opened' \in Runs
      BY <1>1, <2>1, RunsAssumption DEF IInv, Control, TypeOK, Unopened, Runs
    <3>2. \A d \in Starter : start'[d].at = "publish" => d = c
      BY <1>1, <2>1 DEF IInv, Control, Gate, Opening
    <3>3. opened' \notin pending /\ \A p \in Stopper : stop[p].run # opened'
      BY <1>1, <2>1 DEF IInv, TypeOK
    <3>4. QED
      BY <1>1, <1>2, <2>1, <2>2, <3>1, <3>2, <3>3 DEF Publisher, IInv, TypeOK
  <2>8. Followers'
    BY <1>1, <1>2, <2>1, <2>2 DEF IInv, Control, TypeOK, Followers
  <2>9. Listeners'
    <3>1. down[opened'] = "none" /\ opened' \in Runs
      BY <1>1, <2>1, RunsAssumption DEF IInv, Control, TypeOK, Unopened, Runs
    <3>2. QED
      BY <1>1, <1>2, <2>1, <2>2, <3>1 DEF IInv, Listeners
  <2>10. (Current /\ Stoppers /\ Awaited /\ Logged /\ AcceptsForARun /\ EventOrder)'
    BY <1>1, <1>2, <2>1, <2>2
    DEF IInv, Control, Current, Stoppers, Awaited, Logged, AcceptsForARun, EventOrder
  <2>11. QED
    BY <2>3, <2>4, <2>5, <2>6, <2>7, <2>8, <2>9, <2>10 DEF IInv, Control
<1>3. CASE /\ starting' = FALSE /\ Return(c, "failed")
          /\ UNCHANGED <<opened, listening>>
  <2>1. /\ start' = [start EXCEPT ![c] = [at |-> "failed", run |-> NoRun]]
        /\ starting' = FALSE
        /\ UNCHANGED <<opened, listening>>
    BY <1>3 DEF Return
  <2>2. start' \in [Starter -> [at : StartPlaces, run : 0..opened']]
    BY <1>1, <2>1 DEF StartPlaces, IInv, TypeOK, NoRun, Returned
  <2>3. TypeOK'
    BY <1>1, <1>3, <2>1, <2>2 DEF IInv, TypeOK
  <2>4. Gate'
    BY <1>1, <1>3, <2>1, <2>2 DEF IInv, Control, Gate, Opening
  <2>5. Places'
    BY <1>1, <1>3, <2>1, <2>2 DEF IInv, Control, Places
  <2>6. Unopened'
    BY <1>1, <1>3, <2>1, <2>2 DEF IInv, Control, Unopened
  <2>7. Publisher'
    BY <1>1, <1>3, <2>1, <2>2 DEF IInv, Control, Publisher
  <2>8. Followers'
    BY <1>1, <1>3, <2>1, <2>2 DEF IInv, Control, Followers, Following
  <2>9. Listeners'
    BY <1>1, <1>3, <2>1, <2>2 DEF IInv, Listeners
  <2>10. (Current /\ Stoppers /\ Awaited /\ Logged /\ AcceptsForARun /\ EventOrder)'
    BY <1>1, <1>3, <2>1, <2>2
    DEF IInv, Control, Current, Stoppers, Awaited, Logged, AcceptsForARun, EventOrder
  <2>11. QED
    BY <2>3, <2>4, <2>5, <2>6, <2>7, <2>8, <2>9, <2>10 DEF IInv, Control
<1>4. QED
  BY <1>2, <1>3 DEF Listen

LEMMA PublishStep == ASSUME IInv, NEW c \in Starter, Publish(c) PROVE IInv'
<1>1. TypeOK'
  <2>1. start' \in [Starter -> [at : StartPlaces, run : 0..opened]]
    BY DEF IInv, TypeOK, Publish, At, StartPlaces
  <2>2. QED
    BY <2>1 DEF IInv, TypeOK, recordVars, acceptVars, Publish
<1>2. Gate'
  BY DEF IInv, Control, TypeOK, Gate, Publish, At, Opening
<1>3. Current'
  BY DEF IInv, Control, Gate, Current, Publisher, Publish, Opening
<1>4. Places'
  BY DEF IInv, Control, Gate, Places, Publish, recordVars, NoRun, Opening
<1>5. Publisher'
  BY DEF IInv, Control, Publisher, Publish, recordVars, At
<1>6. Followers'
  BY DEF IInv, Control, TypeOK, Publisher, Followers, Publish, recordVars, At, Following
<1>7. (Unopened /\ Stoppers /\ Awaited /\ Listeners /\ Logged /\ AcceptsForARun /\ EventOrder)'
  BY DEF IInv, Control, Unopened, Stoppers, Awaited, Listeners, Logged, AcceptsForARun, EventOrder,
         Publish, acceptVars, recordVars
<1>8. QED
  BY <1>1, <1>2, <1>3, <1>4, <1>5, <1>6, <1>7 DEF IInv, Control

LEMMA AcceptStep == ASSUME IInv, NEW c \in Starter, Accept(c) PROVE IInv'
<1>1. /\ start \in [Starter -> [at : StartPlaces, run : 0..opened]]
      /\ start[c].at = "accept" /\ start[c].run \in (1..opened) \ pending
      /\ UNCHANGED <<opened, curRun, running, starting, stoppingRun, stop, down, same, startedDone, listening, serving, control, events>>
  BY DEF IInv, TypeOK, Control, Followers, Accept, runVars, acceptVars, recordVars, callVars
<1>2. CASE curRun = start[c].run /\ stoppingRun = NoRun
  <2>1. /\ start' = [start EXCEPT ![c].at = "restart"]
        /\ registry' = TRUE /\ pairing' = TRUE
        /\ pending' = pending \cup {start[c].run}
    BY <1>2 DEF Accept, At
  <2>2. start' \in [Starter -> [at : StartPlaces, run : 0..opened']]
    BY <1>1, <2>1 DEF StartPlaces
  <2>3. TypeOK'
    BY <1>1, <1>2, <2>1, <2>2 DEF IInv, TypeOK
  <2>4. Gate'
    BY <1>1, <1>2, <2>1, <2>2 DEF IInv, Control, Gate, Opening
  <2>5. Places'
    BY <1>1, <1>2, <2>1, <2>2 DEF IInv, Control, Places
  <2>6. Publisher'
    BY <1>1, <1>2, <2>1, <2>2 DEF IInv, Control, Publisher, Followers, Following
  <2>7. Followers'
    BY <1>1, <1>2, <2>1, <2>2 DEF IInv, Control, TypeOK, Followers, Following
  <2>8. Awaited'
    BY <1>1, <1>2, <2>1, <2>2 DEF IInv, Control, Current, Awaited, NoRun
  <2>9. AcceptsForARun'
    BY <1>1, <1>2, <2>1, <2>2 DEF IInv, Control, Current, AcceptsForARun, NoRun
  <2>10. (Current /\ Unopened /\ Stoppers /\ Listeners /\ Logged /\ EventOrder)'
    BY <1>1, <1>2, <2>1, <2>2
    DEF IInv, Control, Current, Unopened, Stoppers, Listeners, Logged, EventOrder
  <2>11. QED
    BY <2>3, <2>4, <2>5, <2>6, <2>7, <2>8, <2>9, <2>10 DEF IInv, Control
<1>3. CASE ~(curRun = start[c].run /\ stoppingRun = NoRun)
  <2>1. /\ start' = [start EXCEPT ![c] = [at |-> "ok", run |-> NoRun]]
        /\ UNCHANGED <<registry, pairing, pending>>
    BY <1>3 DEF Accept, Return
  <2>2. start' \in [Starter -> [at : StartPlaces, run : 0..opened']]
    BY <1>1, <2>1 DEF StartPlaces, IInv, TypeOK, NoRun, Returned
  <2>3. TypeOK'
    BY <1>1, <1>3, <2>1, <2>2 DEF IInv, TypeOK
  <2>4. Gate'
    BY <1>1, <1>3, <2>1, <2>2 DEF IInv, Control, Gate, Opening
  <2>5. Places'
    BY <1>1, <1>3, <2>1, <2>2 DEF IInv, Control, Places
  <2>6. Publisher'
    BY <1>1, <1>3, <2>1, <2>2 DEF IInv, Control, Publisher
  <2>7. Followers'
    BY <1>1, <1>3, <2>1, <2>2 DEF IInv, Control, Followers, Following
  <2>8. Awaited'
    BY <1>1, <1>3, <2>1, <2>2 DEF IInv, Awaited
  <2>9. AcceptsForARun'
    BY <1>1, <1>3, <2>1, <2>2 DEF IInv, AcceptsForARun
  <2>10. (Current /\ Unopened /\ Stoppers /\ Listeners /\ Logged /\ EventOrder)'
    BY <1>1, <1>3, <2>1, <2>2
    DEF IInv, Control, Current, Unopened, Stoppers, Listeners, Logged, EventOrder
  <2>11. QED
    BY <2>3, <2>4, <2>5, <2>6, <2>7, <2>8, <2>9, <2>10 DEF IInv, Control
<1>4. QED
  BY <1>1, <1>2, <1>3

LEMMA RestartRemoteStep == ASSUME IInv, NEW c \in Starter, RestartRemote(c) PROVE IInv'
<1>1. TypeOK'
  BY DEF IInv, TypeOK, RestartRemote, callVars, runVars, acceptVars, recordVars, At, Return,
         Returned, NoStop, Event, Next1, BeginShutdown, StartedIsIn, Runs, NoRun, StartPlaces,
         DownPlaces
<1>2. Gate'
  BY DEF IInv, Control, Gate, RestartRemote, runVars, At, Opening
<1>3. Places'
  BY DEF IInv, Control, Places, RestartRemote, runVars, recordVars, At
<1>4. Publisher'
  BY DEF IInv, Control, Publisher, RestartRemote, runVars, recordVars, At
<1>5. Followers'
  BY DEF IInv, Control, Followers, RestartRemote, runVars, recordVars, At, Following
<1>6. (Current /\ Unopened /\ Stoppers /\ Awaited /\ Listeners /\ Logged /\ AcceptsForARun /\ EventOrder)'
  BY DEF IInv, Control, Current, Unopened, Stoppers, Awaited, Listeners, Logged, AcceptsForARun,
         EventOrder, RestartRemote, runVars, recordVars
<1>7. QED
  BY <1>1, <1>2, <1>3, <1>4, <1>5, <1>6 DEF IInv, Control

LEMMA EmitStartedStep == ASSUME IInv, NEW c \in Starter, EmitStarted(c) PROVE IInv'
<1>1. TypeOK'
  <2>1. start' \in [Starter -> [at : StartPlaces, run : 0..opened]]
    BY DEF IInv, TypeOK, EmitStarted, At, StartPlaces
  <2>2. start[c].run \in pending
    BY DEF IInv, Control, Followers, EmitStarted
  <2>3. events' \in Seq(EventType)
    BY <2>2, Appended DEF IInv, TypeOK, EmitStarted, Event, EventType
  <2>4. QED
    BY <2>1, <2>2, <2>3 DEF IInv, TypeOK, runVars, recordVars, acceptVars, EmitStarted, EventType
<1>2. Gate'
  BY DEF IInv, Control, Gate, EmitStarted, runVars, At, Opening
<1>3. Places'
  BY DEF IInv, Control, Places, EmitStarted, runVars, At
<1>4. Publisher'
  BY DEF IInv, Control, Publisher, EmitStarted, runVars, At
<1>5. Followers'
  BY DEF IInv, Control, TypeOK, Followers, EmitStarted, runVars, At, Following
<1>6. Awaited'
  BY DEF IInv, Awaited, EmitStarted
<1>7. Logged'
  <2>1. start[c].run \in pending \ startedDone /\ start[c].run \in 1..opened
    BY DEF IInv, TypeOK, Control, Followers, EmitStarted
  <2>2. /\ events' \in Seq(EventType) /\ DOMAIN events' = DOMAIN events \cup {Len(events) + 1}
        /\ \A i \in DOMAIN events : events'[i] = events[i] /\ i <= Len(events)
        /\ events'[Len(events) + 1] = Event("started", start[c].run)
    BY <2>1, Appended DEF IInv, TypeOK, EmitStarted, Event, EventType
  <2>3. QED
    BY <2>1, <2>2 DEF IInv, Logged, EmitStarted, Event, recordVars
<1>8. EventOrder'
  <2>1. start[c].run \in pending \ startedDone /\ start[c].run \in 1..opened
    BY DEF IInv, TypeOK, Control, Followers, EmitStarted
  <2>2. /\ events' \in Seq(EventType) /\ DOMAIN events' = DOMAIN events \cup {Len(events) + 1}
        /\ \A i \in DOMAIN events : events'[i] = events[i] /\ i <= Len(events)
        /\ events'[Len(events) + 1] = Event("started", start[c].run)
    BY <2>1, Appended DEF IInv, TypeOK, EmitStarted, Event, EventType
  <2>3. \A i \in DOMAIN events : events[i] \in EventType
    BY ElementsOf DEF IInv, TypeOK, EventType
  <2>4. start[c].run = opened /\ opened \in Nat
    BY <2>1, RunsAssumption DEF IInv, TypeOK, Control, Places, Awaited, Over
  <2>5. \A i \in DOMAIN events : events[i].run # opened
    BY <2>1, <2>3, <2>4 DEF IInv, Awaited, Logged, EventType
  <2>6. \A i \in DOMAIN events : events[i].run < start[c].run
    BY <2>3, <2>4, <2>5 DEF EventType
  <2>7. QED
    BY <2>2, <2>3, <2>6 DEF IInv, EventOrder, Event
<1>9. (Current /\ Unopened /\ Stoppers /\ Listeners /\ AcceptsForARun)'
  BY DEF IInv, Control, Current, Unopened, Stoppers, Listeners, AcceptsForARun, EmitStarted,
         runVars, acceptVars
<1>10. QED
  BY <1>1, <1>2, <1>3, <1>4, <1>5, <1>6, <1>7, <1>8, <1>9 DEF IInv, Control

LEMMA RecheckStep == ASSUME IInv, NEW c \in Starter, Recheck(c) PROVE IInv'
<1>1. /\ start \in [Starter -> [at : StartPlaces, run : 0..opened]]
      /\ start[c].at = "recheck" /\ start[c].run \in startedDone
      /\ UNCHANGED <<opened, curRun, running, starting, stoppingRun, stop, down, same, pending, startedDone, listening, pairing, registry, control, events>>
  BY DEF IInv, TypeOK, Control, Followers, Recheck, runVars, acceptVars, recordVars, callVars
<1>2. CASE curRun = start[c].run /\ stoppingRun = NoRun
  <2>1. /\ start' = [start EXCEPT ![c] = [at |-> "ok", run |-> NoRun]]
        /\ serving' = serving \cup {start[c].run}
    BY <1>2 DEF Recheck, At, Return
  <2>2. start' \in [Starter -> [at : StartPlaces, run : 0..opened']]
    BY <1>1, <2>1 DEF StartPlaces, IInv, TypeOK, NoRun, Returned
  <2>3. TypeOK'
    BY <1>1, <1>2, <2>1, <2>2 DEF IInv, TypeOK
  <2>4. Gate'
    BY <1>1, <1>2, <2>1, <2>2 DEF IInv, Control, Gate, Opening
  <2>5. Places'
    BY <1>1, <1>2, <2>1, <2>2 DEF IInv, Control, Places
  <2>6. Publisher'
    BY <1>1, <1>2, <2>1, <2>2 DEF IInv, Control, Publisher
  <2>7. Followers'
    BY <1>1, <1>2, <2>1, <2>2 DEF IInv, Control, Followers, Following
  <2>8. (Current /\ Unopened /\ Stoppers /\ Awaited /\ Listeners /\ Logged /\ AcceptsForARun /\ EventOrder)'
    BY <1>1, <1>2, <2>1, <2>2
    DEF IInv, Control, Current, Unopened, Stoppers, Awaited, Listeners, Logged, AcceptsForARun,
        EventOrder
  <2>9. QED
    BY <2>3, <2>4, <2>5, <2>6, <2>7, <2>8 DEF IInv, Control
<1>3. CASE ~(curRun = start[c].run /\ stoppingRun = NoRun)
  <2>1. /\ start' = [start EXCEPT ![c] = [at |-> "failed", run |-> NoRun]]
        /\ UNCHANGED serving
    BY <1>3 DEF Recheck, At, Return
  <2>2. start' \in [Starter -> [at : StartPlaces, run : 0..opened']]
    BY <1>1, <2>1 DEF StartPlaces, IInv, TypeOK, NoRun, Returned
  <2>3. TypeOK'
    BY <1>1, <1>3, <2>1, <2>2 DEF IInv, TypeOK
  <2>4. Gate'
    BY <1>1, <1>3, <2>1, <2>2 DEF IInv, Control, Gate, Opening
  <2>5. Places'
    BY <1>1, <1>3, <2>1, <2>2 DEF IInv, Control, Places
  <2>6. Publisher'
    BY <1>1, <1>3, <2>1, <2>2 DEF IInv, Control, Publisher
  <2>7. Followers'
    BY <1>1, <1>3, <2>1, <2>2 DEF IInv, Control, Followers, Following
  <2>8. (Current /\ Unopened /\ Stoppers /\ Awaited /\ Listeners /\ Logged /\ AcceptsForARun /\ EventOrder)'
    BY <1>1, <1>3, <2>1, <2>2
    DEF IInv, Control, Current, Unopened, Stoppers, Awaited, Listeners, Logged, AcceptsForARun,
        EventOrder
  <2>9. QED
    BY <2>3, <2>4, <2>5, <2>6, <2>7, <2>8 DEF IInv, Control
<1>4. QED
  BY <1>1, <1>2, <1>3

LEMMA BeginStopStep == ASSUME IInv, NEW p \in Stopper, BeginStop(p) PROVE IInv'
<1>1. TypeOK'
  BY DEF IInv, TypeOK, BeginStop, runVars, acceptVars, recordVars
<1>2. Publisher'
  BY DEF IInv, Control, Gate, Publisher, BeginStop, Opening
<1>3. Stoppers'
  BY DEF IInv, Control, Stoppers, BeginStop
<1>4. (Gate /\ Current /\ Places /\ Unopened /\ Followers /\ Awaited /\ Listeners /\ Logged /\ AcceptsForARun /\ EventOrder)'
  BY DEF IInv, Control, Gate, Current, Places, Unopened, Followers, Awaited, Listeners, Logged,
         AcceptsForARun, EventOrder, BeginStop, runVars, acceptVars, recordVars
<1>5. QED
  BY <1>1, <1>2, <1>3, <1>4 DEF IInv, Control

LEMMA StopCallsStep == ASSUME IInv, NEW p \in Stopper, StopCalls(p) PROVE IInv'
<1>1. TypeOK'
  <2>1. stop[p].run \in 1..opened
    BY DEF IInv, TypeOK, Control, Stoppers, NoRun, StopCalls
  <2>2. down' \in [Runs -> DownPlaces]
    BY DEF IInv, TypeOK, StopCalls, BeginShutdown, DownPlaces
  <2>3. opened \in Nat /\ 0 \in 0..opened /\ stop[p].run \in 0..opened
    BY <2>1, RunsAssumption DEF IInv, TypeOK
  <2>4. curRun' \in 0..opened /\ stoppingRun' \in 0..opened /\ same' \subseteq 1..opened
    BY <2>1, <2>3 DEF IInv, TypeOK, StopCalls, BeginShutdown, NoRun
  <2>5. QED
    BY <2>2, <2>4 DEF IInv, TypeOK, callVars, acceptVars, BeginShutdown, StopCalls
<1>2. Gate'
  BY DEF IInv, Control, Gate, StopCalls, callVars, BeginShutdown
<1>3. Current'
  BY DEF IInv, Control, Current, StopCalls, BeginShutdown
<1>4. Places'
  BY DEF IInv, Control, TypeOK, Current, Places, Unopened, Publisher, Stoppers, StopCalls,
         BeginShutdown, Runs, NoRun, Over
<1>5. Unopened'
  BY DEF IInv, Control, TypeOK, Unopened, StopCalls, BeginShutdown
<1>6. Publisher'
  BY DEF IInv, Control, Publisher, StopCalls, callVars, BeginShutdown
<1>7. Awaited'
  BY DEF IInv, Awaited, StopCalls, BeginShutdown
<1>8. Listeners'
  BY DEF IInv, Listeners, StopCalls, BeginShutdown
<1>9. Logged'
  BY DEF IInv, Logged, StopCalls, BeginShutdown
<1>10. AcceptsForARun'
  BY DEF IInv, AcceptsForARun, StopCalls, acceptVars, BeginShutdown
<1>11. (Followers /\ Stoppers /\ EventOrder)'
  BY DEF IInv, Control, Followers, Stoppers, EventOrder, StopCalls, callVars, BeginShutdown
<1>12. QED
  BY <1>1, <1>2, <1>3, <1>4, <1>5, <1>6, <1>7, <1>8, <1>9, <1>10, <1>11 DEF IInv, Control

LEMMA StopReturnsStep == ASSUME IInv, NEW p \in Stopper, StopReturns(p) PROVE IInv'
<1>1. TypeOK'
  BY DEF IInv, TypeOK, StopReturns, runVars, acceptVars, recordVars, NoStop, NoRun
<1>2. Publisher'
  BY DEF IInv, Control, Publisher, StopReturns, runVars, recordVars, NoStop, NoRun
<1>3. Stoppers'
  BY DEF IInv, Control, Stoppers, StopReturns, NoStop
<1>4. (Gate /\ Current /\ Places /\ Unopened /\ Followers /\ Awaited /\ Listeners /\ Logged /\ AcceptsForARun /\ EventOrder)'
  BY DEF IInv, Control, Gate, Current, Places, Unopened, Followers, Awaited, Listeners, Logged,
         AcceptsForARun, EventOrder, StopReturns, runVars, acceptVars, recordVars
<1>5. QED
  BY <1>1, <1>2, <1>3, <1>4 DEF IInv, Control

LEMMA ServeEndsStep == ASSUME IInv, NEW r \in Runs, ServeEnds(r) PROVE IInv'
<1>1. TypeOK'
  <2>1. r \in 1..opened
    BY DEF IInv, TypeOK, ServeEnds
  <2>2. down' \in [Runs -> DownPlaces]
    BY DEF IInv, TypeOK, ServeEnds, BeginShutdown, DownPlaces
  <2>3. opened \in Nat /\ 0 \in 0..opened /\ r \in 0..opened
    BY <2>1, RunsAssumption DEF IInv, TypeOK
  <2>4. curRun' \in 0..opened /\ stoppingRun' \in 0..opened /\ same' \subseteq 1..opened
    BY <2>1, <2>3 DEF IInv, TypeOK, ServeEnds, BeginShutdown, NoRun
  <2>5. QED
    BY <2>2, <2>4 DEF IInv, TypeOK, callVars, acceptVars, BeginShutdown, ServeEnds
<1>2. Gate'
  BY DEF IInv, Control, Gate, ServeEnds, callVars, BeginShutdown
<1>3. Current'
  BY DEF IInv, Control, Current, ServeEnds, BeginShutdown
<1>4. Places'
  BY DEF IInv, Control, TypeOK, Current, Places, Publisher, ServeEnds, BeginShutdown, NoRun, Over
<1>5. Unopened'
  BY DEF IInv, Control, TypeOK, Unopened, ServeEnds, BeginShutdown
<1>6. Publisher'
  BY DEF IInv, Control, TypeOK, Publisher, ServeEnds, callVars, BeginShutdown
<1>7. Awaited'
  BY DEF IInv, Awaited, ServeEnds, BeginShutdown
<1>8. Listeners'
  BY DEF IInv, Listeners, ServeEnds, BeginShutdown
<1>9. Logged'
  BY DEF IInv, Logged, ServeEnds, BeginShutdown
<1>10. AcceptsForARun'
  BY DEF IInv, AcceptsForARun, ServeEnds, acceptVars, BeginShutdown
<1>11. (Followers /\ Stoppers /\ EventOrder)'
  BY DEF IInv, Control, Followers, Stoppers, EventOrder, ServeEnds, callVars, BeginShutdown
<1>12. QED
  BY <1>1, <1>2, <1>3, <1>4, <1>5, <1>6, <1>7, <1>8, <1>9, <1>10, <1>11 DEF IInv, Control

LEMMA FenceAllRemoteStep == ASSUME IInv, NEW r \in Runs, FenceAllRemote(r) PROVE IInv'
<1>1. TypeOK'
  BY DEF IInv, TypeOK, FenceAllRemote, callVars, runVars, recordVars, Next1, DownPlaces
<1>2. Current'
  BY DEF IInv, Control, Current, FenceAllRemote, runVars, Next1
<1>3. Places'
  BY DEF IInv, Control, Places, FenceAllRemote, callVars, runVars, recordVars, Next1, Over
<1>4. Unopened'
  BY DEF IInv, Control, Unopened, FenceAllRemote, runVars, Next1
<1>5. Publisher'
  BY DEF IInv, Control, Publisher, FenceAllRemote, callVars, runVars, recordVars, Next1
<1>6. Awaited'
  BY DEF IInv, Awaited, FenceAllRemote, recordVars, Next1
<1>7. Listeners'
  BY DEF IInv, Listeners, FenceAllRemote, recordVars, Next1
<1>8. Logged'
  BY DEF IInv, Logged, FenceAllRemote, recordVars, Next1
<1>9. AcceptsForARun'
  BY DEF IInv, AcceptsForARun, FenceAllRemote, recordVars, Next1
<1>10. (Gate /\ Followers /\ Stoppers /\ EventOrder)'
  BY DEF IInv, Control, Gate, Followers, Stoppers, EventOrder, FenceAllRemote, callVars, runVars,
         recordVars
<1>11. QED
  BY <1>1, <1>2, <1>3, <1>4, <1>5, <1>6, <1>7, <1>8, <1>9, <1>10 DEF IInv, Control

LEMMA SuspendStep == ASSUME IInv, NEW r \in Runs, Suspend(r) PROVE IInv'
<1>1. TypeOK'
  BY DEF IInv, TypeOK, Suspend, callVars, runVars, recordVars, Next1, DownPlaces
<1>2. Current'
  BY DEF IInv, Control, Current, Suspend, runVars, Next1
<1>3. Places'
  BY DEF IInv, Control, Places, Suspend, callVars, runVars, recordVars, Next1, Over
<1>4. Unopened'
  BY DEF IInv, Control, Unopened, Suspend, runVars, Next1
<1>5. Publisher'
  BY DEF IInv, Control, Publisher, Suspend, callVars, runVars, recordVars, Next1
<1>6. Awaited'
  BY DEF IInv, Awaited, Suspend, recordVars, Next1
<1>7. Listeners'
  BY DEF IInv, Listeners, Suspend, recordVars, Next1
<1>8. Logged'
  BY DEF IInv, Logged, Suspend, recordVars, Next1
<1>9. AcceptsForARun'
  BY DEF IInv, AcceptsForARun, Suspend, recordVars, Next1
<1>10. (Gate /\ Followers /\ Stoppers /\ EventOrder)'
  BY DEF IInv, Control, Gate, Followers, Stoppers, EventOrder, Suspend, callVars, runVars,
         recordVars
<1>11. QED
  BY <1>1, <1>2, <1>3, <1>4, <1>5, <1>6, <1>7, <1>8, <1>9, <1>10 DEF IInv, Control

LEMMA StopRegistryStep == ASSUME IInv, NEW r \in Runs, StopRegistry(r) PROVE IInv'
<1>1. TypeOK'
  BY DEF IInv, TypeOK, StopRegistry, callVars, runVars, recordVars, Next1, DownPlaces
<1>2. Current'
  BY DEF IInv, Control, Current, StopRegistry, runVars, Next1
<1>3. Places'
  BY DEF IInv, Control, Places, StopRegistry, callVars, runVars, recordVars, Next1, Over
<1>4. Unopened'
  BY DEF IInv, Control, Unopened, StopRegistry, runVars, Next1
<1>5. Publisher'
  BY DEF IInv, Control, Publisher, StopRegistry, callVars, runVars, recordVars, Next1
<1>6. Awaited'
  BY DEF IInv, Awaited, StopRegistry, recordVars, Next1
<1>7. Listeners'
  BY DEF IInv, Listeners, StopRegistry, recordVars, Next1
<1>8. Logged'
  BY DEF IInv, Logged, StopRegistry, recordVars, Next1
<1>9. AcceptsForARun'
  BY DEF IInv, AcceptsForARun, StopRegistry, recordVars, Next1
<1>10. (Gate /\ Followers /\ Stoppers /\ EventOrder)'
  BY DEF IInv, Control, Gate, Followers, Stoppers, EventOrder, StopRegistry, callVars, runVars,
         recordVars
<1>11. QED
  BY <1>1, <1>2, <1>3, <1>4, <1>5, <1>6, <1>7, <1>8, <1>9, <1>10 DEF IInv, Control

LEMMA CloseListenerStep == ASSUME IInv, NEW r \in Runs, CloseListener(r) PROVE IInv'
<1>1. TypeOK'
  BY DEF IInv, TypeOK, CloseListener, callVars, runVars, acceptVars, Next1, DownPlaces
<1>2. Current'
  BY DEF IInv, Control, Current, CloseListener, runVars, Next1
<1>3. Places'
  BY DEF IInv, Control, Places, CloseListener, callVars, runVars, Next1, Over
<1>4. Unopened'
  BY DEF IInv, Control, Unopened, CloseListener, runVars, Next1
<1>5. Publisher'
  BY DEF IInv, Control, Publisher, CloseListener, callVars, runVars, Next1
<1>6. Awaited'
  BY DEF IInv, Awaited, CloseListener, Next1
<1>7. Listeners'
  BY DEF IInv, Listeners, CloseListener, Next1
<1>8. Logged'
  BY DEF IInv, Logged, CloseListener, Next1
<1>9. AcceptsForARun'
  BY DEF IInv, AcceptsForARun, CloseListener, acceptVars, Next1
<1>10. (Gate /\ Followers /\ Stoppers /\ EventOrder)'
  BY DEF IInv, Control, Gate, Followers, Stoppers, EventOrder, CloseListener, callVars, runVars
<1>11. QED
  BY <1>1, <1>2, <1>3, <1>4, <1>5, <1>6, <1>7, <1>8, <1>9, <1>10 DEF IInv, Control

LEMMA NotRunningStep == ASSUME IInv, NEW r \in Runs, NotRunning(r) PROVE IInv'
<1>1. TypeOK'
  BY DEF IInv, TypeOK, NotRunning, callVars, acceptVars, recordVars, Next1, DownPlaces
<1>2. Gate'
  BY DEF IInv, Control, Gate, NotRunning, callVars
<1>3. Current'
  BY DEF IInv, Control, TypeOK, Current, Places, Unopened, NotRunning, Next1, Runs, NoRun
<1>4. Places'
  BY DEF IInv, Control, TypeOK, Places, Unopened, NotRunning, callVars, recordVars, Next1, Runs,
         Over
<1>5. Unopened'
  BY DEF IInv, Control, Unopened, NotRunning, Next1
<1>6. Publisher'
  BY DEF IInv, Control, Publisher, NotRunning, callVars, recordVars, Next1
<1>7. Awaited'
  BY DEF IInv, Awaited, NotRunning, recordVars, Next1
<1>8. Listeners'
  BY DEF IInv, Listeners, NotRunning, recordVars, Next1
<1>9. Logged'
  BY DEF IInv, Logged, NotRunning, recordVars, Next1
<1>10. AcceptsForARun'
  BY DEF IInv, AcceptsForARun, NotRunning, acceptVars, recordVars, Next1
<1>11. (Followers /\ Stoppers /\ EventOrder)'
  BY DEF IInv, Control, Followers, Stoppers, EventOrder, NotRunning, callVars, recordVars
<1>12. QED
  BY <1>1, <1>2, <1>3, <1>4, <1>5, <1>6, <1>7, <1>8, <1>9, <1>10, <1>11 DEF IInv, Control

LEMMA EmitStoppedStep == ASSUME IInv, NEW r \in Runs, EmitStopped(r) PROVE IInv'
<1>1. TypeOK'
  <2>1. r \in 1..opened
    BY RunsAssumption DEF IInv, TypeOK, Control, Unopened, EmitStopped, Next1, Runs
  <2>2. events' \in Seq(EventType)
    BY <2>1, Appended DEF IInv, TypeOK, EmitStopped, Event, EventType
  <2>3. down' \in [Runs -> DownPlaces]
    BY DEF IInv, TypeOK, EmitStopped, Next1, DownPlaces
  <2>4. QED
    BY <2>1, <2>2, <2>3
    DEF IInv, TypeOK, runVars, callVars, recordVars, acceptVars, EmitStopped, EventType
<1>2. Current'
  BY DEF IInv, Control, Current, EmitStopped, runVars, Next1
<1>3. Places'
  BY DEF IInv, Control, Places, EmitStopped, callVars, runVars, recordVars, Next1, Over
<1>4. Unopened'
  BY DEF IInv, Control, Unopened, EmitStopped, runVars, Next1
<1>5. Publisher'
  BY DEF IInv, Control, Publisher, EmitStopped, callVars, runVars, recordVars, Next1
<1>6. Awaited'
  BY DEF IInv, Control, TypeOK, Places, Awaited, EmitStopped, recordVars, Next1, StartedIsIn
<1>7. Listeners'
  BY DEF IInv, Listeners, EmitStopped, recordVars, Next1
<1>8. Logged'
  <2>1. r \in 1..opened
    BY RunsAssumption DEF IInv, TypeOK, Control, Unopened, EmitStopped, Next1, Runs
  <2>2. r \in same => /\ events' \in Seq(EventType) /\ DOMAIN events' = DOMAIN events \cup {Len(events) + 1}
        /\ \A i \in DOMAIN events : events'[i] = events[i] /\ i <= Len(events)
        /\ events'[Len(events) + 1] = Event("stopped", r)
    BY <2>1, Appended DEF IInv, TypeOK, EmitStopped, Event, EventType
  <2>3. QED
    BY <2>2 DEF IInv, Logged, TypeOK, EmitStopped, Event, recordVars, Next1
<1>9. AcceptsForARun'
  BY DEF IInv, AcceptsForARun, EmitStopped, acceptVars, recordVars, Next1
<1>10. EventOrder'
  <2>1. r \in 1..opened
    BY RunsAssumption DEF IInv, TypeOK, Control, Unopened, EmitStopped, Next1, Runs
  <2>2. r \in same => /\ events' \in Seq(EventType) /\ DOMAIN events' = DOMAIN events \cup {Len(events) + 1}
        /\ \A i \in DOMAIN events : events'[i] = events[i] /\ i <= Len(events)
        /\ events'[Len(events) + 1] = Event("stopped", r)
    BY <2>1, Appended DEF IInv, TypeOK, EmitStopped, Event, EventType
  <2>3. \A i \in DOMAIN events : events[i] \in EventType
    BY ElementsOf DEF IInv, TypeOK, EventType
  <2>4. r = opened /\ opened \in Nat
    BY <2>1, RunsAssumption DEF IInv, TypeOK, Control, Places, Over, EmitStopped, Next1
  <2>5. \A i \in DOMAIN events : events[i].run = opened => events[i].what = "started"
    BY <2>3, <2>4 DEF IInv, Logged, EmitStopped, Next1, EventType
  <2>6. \A i \in DOMAIN events : events[i].run < r \/ 
          (events[i].run = r /\ events[i].what = "started")
    BY <2>3, <2>4, <2>5 DEF EventType
  <2>7. QED
    BY <2>1, <2>2, <2>3, <2>6 DEF IInv, EventOrder, Event, TypeOK, EmitStopped
<1>11. (Gate /\ Followers /\ Stoppers)'
  BY DEF IInv, Control, Gate, Followers, Stoppers, EmitStopped, callVars, runVars, recordVars
<1>12. QED
  BY <1>1, <1>2, <1>3, <1>4, <1>5, <1>6, <1>7, <1>8, <1>9, <1>10, <1>11 DEF IInv, Control

LEMMA ClearStoppingStep == ASSUME IInv, NEW r \in Runs, ClearStopping(r) PROVE IInv'
<1>1. TypeOK'
  BY DEF IInv, TypeOK, ClearStopping, callVars, acceptVars, recordVars, Next1, NoRun, DownPlaces
<1>2. Gate'
  BY DEF IInv, Control, Gate, ClearStopping, callVars
<1>3. Current'
  BY DEF IInv, Control, Current, ClearStopping, Next1
<1>4. Places'
  BY DEF IInv, Control, TypeOK, Places, ClearStopping, callVars, recordVars, Next1, Over
<1>5. Unopened'
  BY DEF IInv, Control, Unopened, ClearStopping, Next1
<1>6. Publisher'
  BY DEF IInv, Control, Publisher, ClearStopping, callVars, recordVars, Next1
<1>7. Awaited'
  BY DEF IInv, Awaited, ClearStopping, recordVars, Next1
<1>8. Listeners'
  BY DEF IInv, Listeners, ClearStopping, recordVars, Next1
<1>9. Logged'
  BY DEF IInv, Logged, ClearStopping, recordVars, Next1
<1>10. AcceptsForARun'
  BY DEF IInv, AcceptsForARun, ClearStopping, acceptVars, recordVars, Next1
<1>11. (Followers /\ Stoppers /\ EventOrder)'
  BY DEF IInv, Control, Followers, Stoppers, EventOrder, ClearStopping, callVars, recordVars
<1>12. QED
  BY <1>1, <1>2, <1>3, <1>4, <1>5, <1>6, <1>7, <1>8, <1>9, <1>10, <1>11 DEF IInv, Control

LEMMA CloseDoneStep == ASSUME IInv, NEW r \in Runs, CloseDone(r) PROVE IInv'
<1>1. TypeOK'
  BY DEF IInv, TypeOK, CloseDone, callVars, runVars, acceptVars, recordVars, Next1, DownPlaces
<1>2. Current'
  BY DEF IInv, Control, Current, CloseDone, runVars, Next1
<1>3. Places'
  BY DEF IInv, Control, Places, CloseDone, callVars, runVars, recordVars, Next1, Over
<1>4. Unopened'
  BY DEF IInv, Control, Unopened, CloseDone, runVars, Next1
<1>5. Publisher'
  BY DEF IInv, Control, Publisher, CloseDone, callVars, runVars, recordVars, Next1
<1>6. Awaited'
  BY DEF IInv, Awaited, CloseDone, recordVars, Next1
<1>7. Listeners'
  BY DEF IInv, Listeners, CloseDone, recordVars, Next1
<1>8. Logged'
  BY DEF IInv, Logged, CloseDone, recordVars, Next1
<1>9. AcceptsForARun'
  BY DEF IInv, AcceptsForARun, CloseDone, acceptVars, recordVars, Next1
<1>10. (Gate /\ Followers /\ Stoppers /\ EventOrder)'
  BY DEF IInv, Control, Gate, Followers, Stoppers, EventOrder, CloseDone, callVars, runVars,
         recordVars
<1>11. QED
  BY <1>1, <1>2, <1>3, <1>4, <1>5, <1>6, <1>7, <1>8, <1>9, <1>10 DEF IInv, Control

-----------------------------------------------------------------------------
(* The theorems                                                             *)

LEMMA Initially == Init => IInv
<1> SUFFICES ASSUME Init PROVE IInv
  OBVIOUS
<1>1. TypeOK
  <2>1. 0 \in 0..opened /\ 0 \in 0..MaxRuns
    BY RunsAssumption DEF Init
  <2>2. start \in [Starter -> [at : StartPlaces, run : 0..opened]]
    BY <2>1 DEF Init, NoRun, Returned, StartPlaces
  <2>3. stop \in [Stopper -> [at : {"returned", "stopping"}, run : 0..opened]]
    BY <2>1 DEF Init, NoRun, NoStop
  <2>4. down \in [Runs -> DownPlaces]
    BY DEF Init, DownPlaces
  <2>5. events \in Seq([what : {"started", "stopped"}, run : 1..opened])
    BY EmptySeq DEF Init
  <2>6. QED
    BY <2>1, <2>2, <2>3, <2>4, <2>5 DEF Init, TypeOK, NoRun
<1>2. Control
  BY DEF Init, Control, Gate, Current, Places, Unopened, Publisher, Followers, Stoppers, NoStop,
         Opening, Following
<1>3. Awaited /\ Listeners /\ Logged /\ AcceptsForARun /\ EventOrder
  BY DEF Init, Awaited, Listeners, Logged, AcceptsForARun, EventOrder
<1>4. QED
  BY <1>1, <1>2, <1>3 DEF IInv

LEMMA OneStep == IInv /\ [Next]_vars => IInv'
<1> SUFFICES ASSUME IInv, [Next]_vars PROVE IInv'
  OBVIOUS
<1>1. ASSUME NEW c \in Starter, BeginStart(c) \/ GiveUp(c) \/ StartStep(c) PROVE IInv'
  BY <1>1, BeginStartStep, GiveUpStep, EnterStep, WakeStep, ListenStep, PublishStep, AcceptStep,
     RestartRemoteStep, EmitStartedStep, RecheckStep
  DEF StartStep
<1>2. ASSUME NEW p \in Stopper, BeginStop(p) \/ StopCalls(p) \/ StopReturns(p) PROVE IInv'
  BY <1>2, BeginStopStep, StopCallsStep, StopReturnsStep
<1>3. ASSUME NEW r \in Runs, ServeEnds(r) \/ ShutdownStep(r) PROVE IInv'
  BY <1>3, ServeEndsStep, FenceAllRemoteStep, SuspendStep, StopRegistryStep, CloseListenerStep,
     NotRunningStep, EmitStoppedStep, ClearStoppingStep, CloseDoneStep
  DEF ShutdownStep
<1>4. CASE UNCHANGED vars
  BY <1>4
  DEF vars, IInv, Control, TypeOK, Gate, Current, Places, Unopened, Publisher, Followers, Stoppers,
      Awaited, Listeners, Logged, AcceptsForARun, EventOrder, callVars, runVars, acceptVars,
      recordVars
<1>5. QED
  BY <1>1, <1>2, <1>3, <1>4 DEF Next

LEMMA Invariant == Spec => []IInv
  BY Initially, OneStep, PTL DEF Spec

\* What is running, listening or shutting down is the last run opened.
LEMMA LiveIsLast == IInv => OneRun
<1> SUFFICES ASSUME IInv PROVE OneRun
  OBVIOUS
<1>1. ASSUME NEW r \in Live PROVE r = opened
  <2>1. r \in 1..opened
    BY <1>1, RunsAssumption DEF IInv, TypeOK, Control, Unopened, Live, Runs
  <2>2. down[r] \notin Over
    BY <1>1 DEF IInv, Listeners, Live, Over
  <2>3. QED
    BY <2>1, <2>2, RunsAssumption DEF IInv, TypeOK, Control, Places
<1>2. Live \subseteq {opened}
  BY <1>1
<1>3. IsFiniteSet({opened}) /\ Cardinality({opened}) = 1
  BY FS_Singleton
<1>4. IsFiniteSet(Live) /\ Cardinality(Live) <= Cardinality({opened})
  BY <1>2, <1>3, FS_Subset
<1>5. QED
  BY <1>3, <1>4 DEF OneRun

\* Every variable of the server's life cycle keeps its type.
THEOREM ServerTypes == Spec => []TypeOK
  BY Invariant, PTL DEF IInv

\* The service events come run by run, started before stopped, however Start,
\* Stop and failing listeners overlap.
THEOREM EventsAreOrdered == Spec => []EventOrder
  BY Invariant, PTL DEF IInv

\* Between a run's listener and the end of its stopped event no other run has a
\* listener or a shutdown at work.
THEOREM RunsAreSerial == Spec => []OneRun
  BY Invariant, LiveIsLast, PTL

\* The pairing service and the registry accept only for a run that was accepted
\* and that no shutdown has reached.
THEOREM AcceptanceFollowsRuns == Spec => []AcceptsForARun
  BY Invariant, PTL DEF IInv

================================================================================
