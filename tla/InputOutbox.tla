------------------------------ MODULE InputOutbox ------------------------------
(***************************************************************************)
(* The client's half of the canonical input path (internal/remoteclient):  *)
(* the outbox of one session, which sends one input at a time and sends it *)
(* again until it is acknowledged, and the connection loop that pauses,    *)
(* resumes, freezes and disposes it. A wire attempt is the pair of an      *)
(* input's MessageID and the number of the attempt, which stands for its   *)
(* RequestID. The link is a pair of ordered channels per connection.       *)
(***************************************************************************)
EXTENDS Integers, FiniteSets, Sequences, SequencesExt

CONSTANTS
  Messages,     \* the logical inputs a user may type, each with its own MessageID
  NoMessage,    \* "no input"
  MaxEntries,   \* cfg.MaxEntries
  MaxTotal,     \* cfg.MaxTotalBytes, in inputs: every input is charged alike
  MaxAttempts,  \* cfg.MaxAttempts
  MaxConn       \* connections the client dials in this instance

Attempts == Messages \X (1..MaxAttempts)
Conns    == 1..MaxConn

ASSUME InputConstants ==
  /\ NoMessage \notin Messages
  /\ MaxEntries \in Nat /\ MaxTotal \in Nat
  /\ MaxAttempts \in Nat \ {0} /\ MaxConn \in Nat \ {0}

VARIABLES
  entries,      \* the FIFO of unsettled inputs
  entryState,   \* pending, halted (frozen) or settled, per input
  attempts,     \* wire attempts made, per input
  elapsed,      \* inputs whose 30 s window has passed
  charged,      \* bytes charged
  halted, paused,
  timer,        \* whether o.timer refers to a timer
  due,          \* timers armed, or running with their callback waiting for mu
  born,         \* the inputs accepted so far, in order
  confirmed,    \* the inputs settled so far
  conn, client, \* the connection dialled last; what the loop is doing with it
  typing,       \* a SendInput has passed its check of the connection state
  via,          \* the connection an attempt was written to
  toServer, toClient

queueVars  == <<entries, entryState, charged, born, confirmed>>
flagVars   == <<halted, paused>>
retryVars  == <<attempts, timer, due, via, toServer>>
loopVars   == <<conn, client, typing>>
outboxVars == <<queueVars, flagVars, retryVars, elapsed>>
clientVars == <<outboxVars, loopVars, toClient>>

AttachFrame   == <<"attach">>
InputFrame(r) == <<"input", r>>
Ack(r)        == <<"ack", r>>
Attached      == <<"attached">>
Forbidden     == <<"forbidden">>
Removed       == <<"removed">>
Terminal      == <<"terminal">>   \* auth.revoked, or close 1000, 1002, 1009

Linked == client \in {"attaching", "attached"}

-----------------------------------------------------------------------------
(* Under the outbox's mu                                                   *)

\* The places of the queue whose input is neither settled nor frozen.
Pending(es, st) == {i \in DOMAIN es : st[es[i]] = "pending"}

\* Mutant: the newest input goes first.
NewestOf(es, st) == IF Pending(es, st) = {} THEN NoMessage ELSE es[Max(Pending(es, st))]

\* headLocked: frozen inputs do not hold up the ones behind them.
HeadOf(es, st) == IF Pending(es, st) = {} THEN NoMessage ELSE es[Min(Pending(es, st))]

\* The input kickHeadLocked starts: the head, if it was never tried.
ToKick(es, st) ==
  LET h == HeadOf(es, st) IN
  IF halted \/ paused \/ h = NoMessage \/ attempts[h] > 0 THEN NoMessage ELSE h

\* Mutant: a retry takes the newest input.
RetryNewest(isPaused) ==
  LET n == NewestOf(entries, entryState) IN
  IF halted \/ isPaused \/ n = NoMessage \/ attempts[n] >= MaxAttempts \/ n \in elapsed
  THEN NoMessage ELSE n

\* The input retryHeadLocked tries again.
ToRetry(isPaused) ==
  LET h == HeadOf(entries, entryState) IN
  IF halted \/ isPaused \/ h = NoMessage \/ attempts[h] >= MaxAttempts \/ h \in elapsed
  THEN NoMessage ELSE h

\* stopTimerLocked: how many timers may be left. Stop does not recall a callback
\* that waits for mu.
Stopped == IF timer THEN {due, due - 1} ELSE {due}

\* fireAttemptLocked with scheduleNextLocked, when left timers are not stopped.
Fire(m, left) ==
  LET n == attempts[m] + 1
      r == <<m, n>>
  IN /\ attempts' = [attempts EXCEPT ![m] = n]
     /\ via' = [via EXCEPT ![r] = conn]
     /\ toServer' = IF Linked THEN [toServer EXCEPT ![conn] = Append(@, InputFrame(r))] ELSE toServer
     /\ IF n < MaxAttempts /\ m \notin elapsed
        THEN timer' = TRUE /\ due' = left + 1
        ELSE timer' = FALSE /\ due' = left

\* Whether or not there is something to send, the timer was dropped before.
FireAfterStop(m, left) ==
  IF m \in Messages
  THEN Fire(m, left)
  ELSE timer' = FALSE /\ due' = left /\ UNCHANGED <<attempts, via, toServer>>

\* Only an attempt that is made stops the timer.
FireIfAny(m) ==
  IF m \in Messages THEN \E left \in Stopped : Fire(m, left) ELSE UNCHANGED retryVars

StopTimer == \E left \in Stopped : FireAfterStop(NoMessage, left)

Frozen == [m \in Messages |-> IF entryState[m] = "pending" THEN "halted" ELSE entryState[m]]

Pause == paused' = TRUE /\ StopTimer /\ UNCHANGED <<queueVars, halted, elapsed>>

Dispose ==
  /\ entries' = <<>>
  /\ entryState' = [m \in Messages |-> "none"]
  /\ charged' = 0
  /\ halted' = FALSE /\ paused' = FALSE
  /\ StopTimer
  /\ UNCHANGED <<born, confirmed, elapsed>>

Halt ==
  /\ halted' = TRUE
  /\ entryState' = Frozen
  /\ StopTimer
  /\ UNCHANGED <<entries, charged, born, confirmed, paused, elapsed>>

FreezePending ==
  /\ entryState' = Frozen
  /\ StopTimer
  /\ UNCHANGED <<entries, charged, born, confirmed, flagVars, elapsed>>

Resume ==
  /\ paused' = FALSE
  /\ FireIfAny(ToRetry(FALSE))
  /\ UNCHANGED <<queueVars, halted, elapsed>>

\* What an entry gives back when it is released: Accept charges the outbox and
\* leaves the entry's own charge at zero.
ChargeOf(m) == 0

\* releaseEntryLocked: the queue closes up behind the entry.
Released(es, m) == RemoveAt(es, CHOOSE i \in DOMAIN es : es[i] = m)

\* Only an attempt of an entry that is still there settles it.
Settles(r) == r[1] \in Range(entries) /\ r[2] <= attempts[r[1]]

OnAck(r) ==
  LET m == r[1] IN
  IF Settles(r)
  THEN /\ entries' = Released(entries, m)
       /\ entryState' = [entryState EXCEPT ![m] = "settled"]
       /\ charged' = charged - ChargeOf(m)
       /\ confirmed' = confirmed \cup {m}
       /\ \E left \in Stopped : FireAfterStop(ToKick(entries', entryState'), left)
       /\ UNCHANGED <<born, flagVars, elapsed>>
  ELSE UNCHANGED outboxVars

-----------------------------------------------------------------------------
(* The user and the timers                                                 *)

\* SendInput looks at the connection state before it calls Accept; the state is
\* still attached while the loop waits to dial again.
SendInput ==
  /\ client \in {"attached", "backoff"} /\ ~typing
  /\ typing' = TRUE
  /\ UNCHANGED <<outboxVars, conn, client, toClient>>

HasRoom == ~halted /\ Len(entries) < MaxEntries /\ charged + 1 <= MaxTotal

Accept(m) ==
  /\ typing /\ m \notin Range(born)
  /\ typing' = FALSE
  /\ IF HasRoom
     THEN /\ entries' = Append(entries, m)
          /\ entryState' = [entryState EXCEPT ![m] = "pending"]
          /\ charged' = charged + 1
          /\ born' = Append(born, m)
          /\ FireIfAny(ToKick(entries', entryState'))
          /\ UNCHANGED <<confirmed, flagVars, elapsed>>
     ELSE UNCHANGED outboxVars
  /\ UNCHANGED <<conn, client, toClient>>

\* A timer's callback: it drops the outbox's reference, whichever timer that is.
RetryDue ==
  /\ due > 0
  /\ FireAfterStop(ToRetry(paused), due - 1)
  /\ UNCHANGED <<queueVars, flagVars, elapsed, loopVars, toClient>>

\* Noted only while it can still stop an attempt.
WindowElapses(m) ==
  /\ m \notin elapsed /\ m \in Range(entries) /\ entryState[m] = "pending"
  /\ attempts[m] > 0 /\ attempts[m] < MaxAttempts
  /\ elapsed' = elapsed \cup {m}
  /\ UNCHANGED <<queueVars, flagVars, retryVars, loopVars, toClient>>

-----------------------------------------------------------------------------
(* The connection loop                                                     *)

Dial ==
  /\ client \in {"down", "backoff"} /\ conn < MaxConn
  /\ conn' = conn + 1
  /\ client' = "attaching"
  /\ toServer' = [toServer EXCEPT ![conn + 1] = <<AttachFrame>>]
  /\ UNCHANGED <<queueVars, flagVars, attempts, timer, due, via, elapsed, typing, toClient>>

\* readPump ends: the outbox is paused until the next attach is confirmed.
Disconnect(next) ==
  /\ Linked
  /\ client' = next
  /\ toClient' = [toClient EXCEPT ![conn] = <<>>]
  /\ Pause
  /\ UNCHANGED <<conn, typing>>

ReadError == Disconnect(IF client = "attached" THEN "backoff" ELSE "down")

\* A session that waits to dial again has no connection to close.
Detach ==
  \/ Disconnect("leaving")
  \/ /\ client \in {"down", "backoff"}
     /\ client' = "leaving"
     /\ UNCHANGED <<outboxVars, conn, typing, toClient>>

\* run returns.
DisposeOnExit ==
  /\ client = "leaving"
  /\ client' = "stopped"
  /\ Dispose
  /\ UNCHANGED <<conn, typing, toClient>>

\* readPump's pause, after an event that ends the session.
PauseOnExit ==
  /\ client = "ending"
  /\ client' = "leaving"
  /\ Pause
  /\ UNCHANGED <<conn, typing, toClient>>

\* One event read from the connection.
ReceiveEvent ==
  /\ Linked /\ toClient[conn] # <<>>
  /\ toClient' = [toClient EXCEPT ![conn] = Tail(@)]
  /\ LET event == Head(toClient[conn]) IN
     \/ event = Attached  /\ Resume        /\ client' = "attached"
     \/ event = Forbidden /\ FreezePending /\ UNCHANGED client
     \/ event = Removed   /\ Dispose       /\ client' = "ending"
     \/ event = Terminal  /\ Halt          /\ client' = "ending"
     \/ \E r \in Attempts : event = Ack(r) /\ OnAck(r) /\ UNCHANGED client
  /\ UNCHANGED <<conn, typing>>

ClientStep ==
  SendInput \/ RetryDue \/ Dial \/ ReadError \/ Detach \/ DisposeOnExit \/ PauseOnExit \/ ReceiveEvent
    \/ \E m \in Messages : Accept(m) \/ WindowElapses(m)

ClientInit ==
  /\ entries = <<>> /\ entryState = [m \in Messages |-> "none"]
  /\ attempts = [m \in Messages |-> 0] /\ elapsed = {}
  /\ charged = 0 /\ halted = FALSE /\ paused = FALSE
  /\ timer = FALSE /\ due = 0
  /\ born = <<>> /\ confirmed = {}
  /\ conn = 0 /\ client = "down" /\ typing = FALSE
  /\ via = [r \in Attempts |-> 0]
  /\ toServer = [c \in Conns |-> <<>>] /\ toClient = [c \in Conns |-> <<>>]

=============================================================================
