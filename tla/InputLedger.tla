------------------------------ MODULE InputLedger ------------------------------
(***************************************************************************)
(* The server's half of the canonical input path (internal/remote): each   *)
(* connection's read loop hands an input to the gate, the gate runs its    *)
(* raw effect in a goroutine under the session's lane, and the goroutine   *)
(* asks the session's ledger before it writes. The gate appears as what an *)
(* input can tell of it: the lane, whether a permit is still current, the  *)
(* quarantine; ControlGate has it in full.                                 *)
(***************************************************************************)
EXTENDS InputOutbox

CONSTANTS
  LedgerMax,    \* sessionInputLedgerMaxEntries
  MaxRuns,      \* runs of the session in this instance
  MaxTakes      \* takeovers of the session by another party

NoAttempt == <<>>

ASSUME LedgerConstants == LedgerMax \in Nat /\ MaxRuns \in Nat \ {0} /\ MaxTakes \in Nat

VARIABLES
  link,         \* each connection, as the server sees it
  lease,        \* the connection whose attachment is live; 0 if there is none
  held,         \* whether this device controls the session
  takes,        \* takeovers so far
  quarantined, run, removed,
  lane,         \* the attempt whose call has the lane
  reading,      \* the attempt each read loop is busy with
  phase,        \* how far the goroutine of an attempt has come
  current,      \* attempts whose permit is still current
  cancelled,    \* attempts whose call gave up: their context is done
  target,       \* the run an attempt's write went to
  ledger,       \* the session's ledger, per input
  orphan,       \* attempts that reserved in a ledger since destroyed
  delivered     \* what reached a terminal: the input and the run, in order

gateVars   == <<link, lease, held, takes, quarantined, run, removed, lane, current, cancelled>>
callVars   == <<reading, phase, target>>
ledgerVars == <<ledger, orphan, delivered>>
serverVars == <<gateVars, callVars, ledgerVars>>

\* Where the goroutine of an attempt has reserved and not yet resolved its entry.
OwnerPhases == {"owned", "writing", "wrote"}

\* What the client does not see of a step of the server.
UnchangedByServer == UNCHANGED <<outboxVars, loopVars>>

\* writeServerEvent: an event for a connection that is gone is dropped.
Notify(c, event) ==
  toClient' = IF Linked /\ c = conn /\ link[c] # "closed"
              THEN [toClient EXCEPT ![c] = Append(@, event)] ELSE toClient

-----------------------------------------------------------------------------
(* The ledger                                                              *)

Entries == {m \in Messages : ledger[m] # "none"}

\* Mutant: an input whose outcome is unknown is written again.
IsNewOrUnknown(m) == ledger[m] \in {"none", "indeterminate"}

\* Reserve returns Owner or Full only for an input that is not in the ledger.
IsNew(m) == ledger[m] = "none"

\* Mutant: the entry of a write that failed is left pending.
LeftPending(r, to) ==
  IF to = "committed" /\ ledger[r[1]] = "pending" /\ r \notin orphan
  THEN [ledger EXCEPT ![r[1]] = to] ELSE ledger

\* Commit and MarkIndeterminate: only a pending entry of this very ledger.
Resolved(r, to) ==
  IF ledger[r[1]] = "pending" /\ r \notin orphan THEN [ledger EXCEPT ![r[1]] = to] ELSE ledger

Move(r, to) == phase' = [phase EXCEPT ![r] = to]

-----------------------------------------------------------------------------
(* The read loop of a connection and the gate                              *)

\* handleAttach: the new attachment fences the old one, and the holder's permits.
HandleAttach(c) ==
  /\ reading[c] = NoAttempt /\ toServer[c] # <<>> /\ Head(toServer[c]) = AttachFrame
  /\ link[c] = "waiting" /\ ~removed
  /\ toServer' = [toServer EXCEPT ![c] = Tail(@)]
  /\ link' = [link EXCEPT ![c] = "attached"]
  /\ lease' = c
  /\ current' = {}
  /\ Notify(c, Attached)
  /\ UNCHANGED <<queueVars, flagVars, attempts, timer, due, via, elapsed, loopVars, held, takes,
                 quarantined, run, removed, lane, cancelled, callVars, ledgerVars>>

\* handleInput, handleCanonicalInput: an input enters the gate. One that comes
\* after the connection was closed gets an answer nobody reads.
HandleInput(c, r) ==
  /\ reading[c] = NoAttempt /\ toServer[c] # <<>> /\ Head(toServer[c]) = InputFrame(r)
  /\ link[c] = "attached"
  /\ toServer' = [toServer EXCEPT ![c] = Tail(@)]
  /\ reading' = [reading EXCEPT ![c] = r]
  /\ Move(r, "lane")
  /\ UNCHANGED <<queueVars, flagVars, attempts, timer, due, via, elapsed, loopVars, gateVars, target,
                 ledgerVars, toClient>>

\* The call ends: the read loop goes on.
Return(r) == reading' = [reading EXCEPT ![via[r]] = NoAttempt]

\* createDevicePTYPermit, with the lane.
MintPermit(r) ==
  /\ phase[r] = "lane" /\ lane = NoAttempt
  /\ IF ~removed /\ ~quarantined /\ held /\ lease = via[r]
     THEN /\ lane' = r
          /\ current' = current \cup {r}
          /\ Move(r, "raw")
          /\ UNCHANGED <<reading, toClient>>
     ELSE /\ IF ~removed /\ ~(held /\ lease = via[r])
             THEN Notify(via[r], Forbidden) ELSE UNCHANGED toClient
          /\ Return(r) /\ Move(r, "done")
          /\ UNCHANGED <<lane, current>>
  /\ UnchangedByServer
  /\ UNCHANGED <<link, lease, held, takes, quarantined, run, removed, cancelled, target, ledgerVars>>

\* quarantineForBackendTimeout, seen from an input.
Quarantine == quarantined' = TRUE /\ current' = {}

\* acquireLaneOrQuarantine: a lane that was not free in time quarantines; a
\* context that ended first does not.
LaneTimeout(r) ==
  /\ phase[r] = "lane" /\ lane # NoAttempt
  /\ Return(r) /\ Move(r, "done")
  /\ Quarantine \/ UNCHANGED <<quarantined, current>>
  /\ UnchangedByServer
  /\ UNCHANGED <<link, lease, held, takes, run, removed, lane, cancelled, target, ledgerVars, toClient>>

\* runBoundedRawEffect gave up: the goroutine goes on with a context that is done.
RawTimeout(r) ==
  /\ lane = r /\ phase[r] \in {"raw", "checked"} \cup OwnerPhases
  /\ lane' = NoAttempt
  /\ cancelled' = cancelled \cup {r}
  /\ Return(r)
  /\ Quarantine
  /\ UnchangedByServer
  /\ UNCHANGED <<link, lease, held, takes, run, removed, phase, target, ledgerVars, toClient>>

\* finishOperation: neither a fenced permit, a full ledger nor a failed write is
\* answered with control.forbidden.
FinishInput(r) ==
  /\ lane = r /\ phase[r] = "returned"
  /\ lane' = NoAttempt
  /\ current' = current \ {r}
  /\ Return(r)
  /\ UnchangedByServer
  /\ UNCHANGED <<link, lease, held, takes, quarantined, run, removed, cancelled, phase, target, ledgerVars,
                 toClient>>

-----------------------------------------------------------------------------
(* The goroutine of an attempt                                             *)

\* What the goroutine leaves alone.
UnchangedByRaw == UnchangedByServer /\ UNCHANGED <<gateVars, reading>>

Checkpoint(r) ==
  /\ phase[r] = "raw"
  /\ Move(r, IF r \in current THEN "checked" ELSE "returned")
  /\ UnchangedByRaw
  /\ UNCHANGED <<target, ledgerVars, toClient>>

\* Reserve, in the ledger the registry has now.
Reserve(r) ==
  /\ phase[r] = "checked"
  /\ IF IsNew(r[1]) /\ Cardinality(Entries) < LedgerMax
     THEN /\ ledger' = [ledger EXCEPT ![r[1]] = "pending"]
          /\ Move(r, "owned")
          /\ UNCHANGED toClient
     ELSE /\ Move(r, "returned")
          /\ IF ledger[r[1]] = "committed" THEN Notify(via[r], Ack(r)) ELSE UNCHANGED toClient
          /\ UNCHANGED ledger
  /\ UnchangedByRaw
  /\ UNCHANGED <<target, orphan, delivered>>

\* WriteRaw looks at the context and for the session before it writes.
BeginWrite(r) ==
  /\ phase[r] = "owned"
  /\ IF r \in cancelled \/ removed
     THEN Move(r, "returned") /\ ledger' = Resolved(r, "indeterminate") /\ UNCHANGED target
     ELSE Move(r, "writing") /\ target' = [target EXCEPT ![r] = run] /\ UNCHANGED ledger
  /\ UnchangedByRaw
  /\ UNCHANGED <<orphan, delivered, toClient>>

Delivery(r) == Append(delivered, [msg |-> r[1], run |-> target[r]])

WriteSucceeds(r) ==
  /\ phase[r] = "writing"
  /\ Move(r, "wrote")
  /\ delivered' = Delivery(r)
  /\ UnchangedByRaw
  /\ UNCHANGED <<target, ledger, orphan, toClient>>

\* A write that fails may have reached the terminal all the same.
WriteFails(r) ==
  /\ phase[r] = "writing"
  /\ Move(r, "returned")
  /\ delivered' \in {delivered, Delivery(r)}
  /\ ledger' = Resolved(r, "indeterminate")
  /\ UnchangedByRaw
  /\ UNCHANGED <<target, orphan, toClient>>

\* Commit, then the acknowledgement to the connection that asked.
CommitInput(r) ==
  /\ phase[r] = "wrote"
  /\ Move(r, "returned")
  /\ ledger' = Resolved(r, "committed")
  /\ Notify(via[r], Ack(r))
  /\ UnchangedByRaw
  /\ UNCHANGED <<target, orphan, delivered>>

-----------------------------------------------------------------------------
(* The rest of the system, as an input meets it                            *)

\* The server gives a connection up, for good or not: a lost transport, a slow
\* consumer, a revocation, an attach that is refused.
ServerDrop(c, final) ==
  /\ c <= conn /\ link[c] # "closed"
  /\ link' = [link EXCEPT ![c] = "closed"]
  /\ toServer' = [toServer EXCEPT ![c] = <<>>]
  /\ lease' = IF lease = c THEN 0 ELSE lease
  /\ current' = IF lease = c THEN {} ELSE current
  /\ IF final THEN Notify(c, Terminal) ELSE UNCHANGED toClient
  /\ UNCHANGED <<queueVars, flagVars, attempts, timer, due, via, elapsed, loopVars, held, takes,
                 quarantined, run, removed, lane, cancelled, callVars, ledgerVars>>

\* Another party takes the session over; later the device acquires it again.
LoseControl ==
  /\ held /\ takes < MaxTakes
  /\ held' = FALSE /\ takes' = takes + 1 /\ current' = {}
  /\ UnchangedByServer
  /\ UNCHANGED <<link, lease, quarantined, run, removed, lane, cancelled, callVars, ledgerVars, toClient>>

GainControl ==
  /\ ~held /\ lease # 0 /\ ~removed
  /\ held' = TRUE
  /\ UnchangedByServer
  /\ UNCHANGED <<link, lease, takes, quarantined, run, removed, lane, current, cancelled, callVars,
                 ledgerVars, toClient>>

\* A restart of the session: a new process and a healthy backend, the same ledger.
RestartSession ==
  /\ lane = NoAttempt /\ ~removed /\ run < MaxRuns
  /\ run' = run + 1 /\ quarantined' = FALSE /\ current' = {}
  /\ UnchangedByServer
  /\ UNCHANGED <<link, lease, held, takes, removed, lane, cancelled, callVars, ledgerVars, toClient>>

\* A removal destroys the ledger; a goroutine keeps the one it reserved in.
RemoveSession ==
  /\ lane = NoAttempt /\ ~removed
  /\ removed' = TRUE /\ held' = FALSE /\ current' = {}
  /\ ledger' = [m \in Messages |-> "none"]
  /\ orphan' = {r \in Attempts : phase[r] \in OwnerPhases}
  /\ Notify(lease, Removed)
  /\ link' = [c \in Conns |-> IF link[c] = "attached" THEN "closed" ELSE link[c]]
  /\ UnchangedByServer
  /\ UNCHANGED <<lease, takes, quarantined, run, lane, cancelled, callVars, delivered>>

RawStep(r) ==
  Checkpoint(r) \/ Reserve(r) \/ BeginWrite(r) \/ WriteSucceeds(r) \/ WriteFails(r) \/ CommitInput(r)

GateStep(r) == MintPermit(r) \/ LaneTimeout(r) \/ RawTimeout(r) \/ FinishInput(r)

ReadStep(c) ==
  HandleAttach(c) \/ (\E r \in Attempts : HandleInput(c, r)) \/ (\E final \in BOOLEAN : ServerDrop(c, final))

SessionStep == LoseControl \/ GainControl \/ RestartSession \/ RemoveSession

ServerInit ==
  /\ link = [c \in Conns |-> "waiting"] /\ lease = 0 /\ held = TRUE /\ takes = 0
  /\ quarantined = FALSE /\ run = 1 /\ removed = FALSE
  /\ lane = NoAttempt /\ reading = [c \in Conns |-> NoAttempt]
  /\ phase = [r \in Attempts |-> "none"] /\ current = {} /\ cancelled = {}
  /\ target = [r \in Attempts |-> 0]
  /\ ledger = [m \in Messages |-> "none"] /\ orphan = {}
  /\ delivered = <<>>

=============================================================================
