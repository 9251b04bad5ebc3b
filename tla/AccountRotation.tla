---------------------------- MODULE AccountRotation ----------------------------
(***************************************************************************)
(* The transaction service of the account rotation                         *)
(* (internal/claudeaccounts.Service). One operation runs at a time, under  *)
(* withLocks; between its steps the native clients go on writing, a step   *)
(* may fail, and the process may crash, which loses everything but the     *)
(* stores. A step is a write to one store with the reads that decide it.   *)
(***************************************************************************)
EXTENDS AccountPool

VARIABLES
  pc, call,     \* the step the running operation is at, and what was asked
  mem,          \* the operation's copy of the pool
  seen,         \* the native slots as the operation last read them
  todo,         \* slots left to patch, or grants left to refresh
  next,         \* where the recovery of an older journal returns to
  journaled     \* Swap's own journal was saved: a failure recovers before it returns

localVars == <<call, mem, seen, todo, next, journaled>>
vars == <<storeVars, pc, localVars>>

NoCall   == [op |-> "none", target |-> NoAccount]
NoValues == [s \in Slots |-> [account |-> NoAccount, version |-> 0]]

Target  == call.target
Active  == mem.accounts[mem.active]
Journal == mem.txn

-----------------------------------------------------------------------------
(* Returning, failing and saving                                           *)

Released == IF nativeLock = "held" THEN "free" ELSE nativeLock

\* The operation returns and leaves pool in the store.
Leave(pool) ==
  /\ stored' = pool /\ mem' = pool /\ nativeLock' = Released
  /\ pc' = "idle" /\ call' = NoCall /\ seen' = NoValues /\ todo' = <<>>
  /\ next' = "idle" /\ journaled' = FALSE

\* Swap's deferred recovery, from the pool as it was stored.
Salvage(pool) ==
  /\ stored' = pool /\ mem' = pool /\ nativeLock' = Released
  /\ pc' = "reconcile" /\ seen' = NoValues /\ todo' = <<>>
  /\ next' = "idle" /\ journaled' = FALSE /\ UNCHANGED call

Fail(pool) == IF journaled THEN Salvage(pool) ELSE Leave(pool)

\* The step ends with pool saved, or with a save that took effect and failed
\* its read-back. A save that changed nothing is StepFails.
Save(pool, step) ==
  \/ stored' = pool /\ mem' = pool /\ step /\ UNCHANGED spent
  \/ Spend("faults") /\ Fail(pool)

Goto(l)   == pc' = l /\ UNCHANGED <<call, next, journaled>>
NoNative  == UNCHANGED <<native, issued>>
Stay      == UNCHANGED <<stored, mem, nativeLock, spent>>

\* Any read, write, request, gate or lock may fail before it changes anything.
StepFails ==
  /\ pc # "idle" /\ Spend("faults")
  /\ Fail(stored) /\ NoNative

Crash ==
  /\ pc # "idle" /\ Spend("crashes")
  /\ pc' = "idle" /\ mem' = stored /\ call' = NoCall /\ seen' = NoValues
  /\ todo' = <<>> /\ next' = "idle" /\ journaled' = FALSE
  /\ nativeLock' = IF nativeLock = "held" THEN "left" ELSE nativeLock
  /\ UNCHANGED stored /\ NoNative

-----------------------------------------------------------------------------
(* Operations                                                              *)

\* The request names the current generation or revision; others are refused.
Begin(op, target, l, after) ==
  /\ pc = "idle" /\ Spend("calls")
  /\ pc' = l /\ call' = [op |-> op, target |-> target] /\ next' = after
  /\ UNCHANGED <<stored, nativeLock, mem, seen, todo, journaled>> /\ NoNative

BeginSwap(a) ==
  /\ stored.active # NoAccount /\ a \in DOMAIN stored.accounts
  /\ Begin("swap", a, "reconcile", "body")

BeginEnrollment ==
  /\ stored.active # NoAccount /\ stored.txn = NoTxn
  /\ Begin("enroll", NoAccount, "harvest", "idle")

HarvestActive ==
  /\ stored.active # NoAccount /\ stored.txn = NoTxn
  /\ Begin("harvest", NoAccount, "harvest", "idle")

AdoptCurrentLogin ==
  /\ stored.txn = NoTxn
  /\ Begin("adopt", NoAccount, "adopt", "idle")

CaptureFirstAccount ==
  /\ stored.active = NoAccount /\ stored.txn = NoTxn
  /\ Begin("capture", NoAccount, "capture", "idle")

CaptureEnrolledAccount ==
  /\ stored.txn = Enrollment
  /\ Begin("capture", NoAccount, "capture", "idle")

\* An operation that writes only the pool, and writes it once, is one step.
PoolOnly(pool) ==
  /\ pc = "idle" /\ Spend("calls")
  /\ stored' = pool /\ mem' = pool
  /\ UNCHANGED <<nativeLock, pc, call, seen, todo, next, journaled>> /\ NoNative

CancelEnrollment ==
  /\ stored.txn = Enrollment
  /\ PoolOnly(IF native = stored.accounts[stored.active].value
              THEN [stored EXCEPT !.txn = NoTxn] ELSE stored)

\* Mutant: the active account may be removed.
AnyAccount(a) == a \in DOMAIN stored.accounts

Removable(a) == a \in DOMAIN stored.accounts \ {stored.active}

RemoveAccount(a) ==
  /\ Removable(a) /\ stored.txn = NoTxn
  /\ stored.intent # NoIntent => stored.intent[1] # a
  /\ PoolOnly([stored EXCEPT !.accounts = [x \in DOMAIN @ \ {a} |-> @[x]]])

\* The grant of a pending intent may have been refreshed: nobody knows.
IntentSettled(pool) ==
  IF pool.intent = NoIntent THEN pool
  ELSE [WithHealth(pool, pool.intent[1], pool.intent[2], "refresh-uncertain") EXCEPT !.intent = NoIntent]

\* RecoverAtStartup and RecoverTransaction. The gate may refuse the journal's part.
Recover ==
  /\ pc = "idle"
  /\ stored.intent # NoIntent \/ stored.txn.kind = "swap"
  /\ LET pool == IntentSettled(stored) IN
     \/ /\ stored' = pool /\ mem' = pool
        /\ IF stored.txn.kind = "swap" THEN pc' = "reconcile" ELSE pc' = "idle"
        /\ UNCHANGED <<nativeLock, call, seen, todo, next, journaled, spent>>
     \/ Spend("faults") /\ Leave(pool)
  /\ NoNative

-----------------------------------------------------------------------------
(* Harvest                                                                 *)

Ends ==
  /\ pc' = "idle" /\ call' = NoCall /\ seen' = NoValues /\ todo' = <<>>
  /\ next' = "idle" /\ journaled' = FALSE /\ nativeLock' = Released

Harvested(l) == Goto(l) /\ seen' = native /\ UNCHANGED <<todo, nativeLock>>

OfActive == Paired(native) /\ SameUser(native["cc"].account, mem.active)

\* harvestLocked: what the slots hold is kept, if the active account's user put it there.
Harvest(afterwards) ==
  \/ native = Active.value /\ afterwards /\ UNCHANGED <<stored, mem, spent>>
  \/ native # Active.value /\ OfActive /\ Save(Keeping(mem, mem.active, native), afterwards)
  \/ native # Active.value /\ ~OfActive /\ Fail(stored) /\ UNCHANGED spent

\* Swap's first harvest, unless the target is already in place.
SwapBody ==
  /\ pc = "body"
  /\ \/ Target = mem.active /\ native = Active.value /\ Leave(stored) /\ UNCHANGED spent
     \/ ~(Target = mem.active /\ native = Active.value) /\ Harvest(Harvested("prepare"))
  /\ NoNative

SwapHarvestAgain == pc = "again" /\ Harvest(Harvested("settle")) /\ NoNative

HarvestStep ==
  /\ pc = "harvest"
  /\ Harvest(IF call.op = "enroll" THEN Harvested("enroll") ELSE Ends)
  /\ NoNative

EnrollStep ==
  /\ pc = "enroll" /\ Leave([mem EXCEPT !.txn = Enrollment])
  /\ NoNative /\ UNCHANGED spent

\* AdoptCurrentLogin saves the active account first and harvests it then.
AdoptStep ==
  /\ pc = "adopt"
  /\ \/ /\ Paired(native)
        /\ \E a \in DOMAIN mem.accounts :
             /\ SameUser(a, native["cc"].account)
             /\ IF a = mem.active THEN Goto("harvest") /\ UNCHANGED <<seen, todo>> /\ Stay
                ELSE Save([mem EXCEPT !.active = a, !.generation = @ + 1],
                          Goto("harvest") /\ UNCHANGED <<seen, todo, nativeLock>>)
     \/ /\ Paired(native) => \A a \in DOMAIN mem.accounts : ~SameUser(a, native["cc"].account)
        /\ Leave(stored) /\ UNCHANGED spent
  /\ NoNative

\* captureLocked reads the slots, asks for both identities and reads them again.
CaptureRead ==
  /\ pc = "capture"
  /\ IF Paired(native) THEN Goto("captured") /\ seen' = native /\ UNCHANGED todo /\ Stay
     ELSE Leave(stored) /\ UNCHANGED spent
  /\ NoNative

CaptureStep ==
  /\ pc = "captured"
  /\ \/ native = seen /\ Leave(Captured(mem, seen["cc"].account, seen)) /\ UNCHANGED spent
     \/ native # seen /\ Goto("capture") /\ UNCHANGED <<seen, todo>> /\ Stay
     \/ native # seen /\ Leave(stored) /\ UNCHANGED spent
  /\ NoNative

-----------------------------------------------------------------------------
(* The target of a swap is made ready                                      *)

Candidate(a) == \A g \in Grants : mem.accounts[a].health[g] = "ready"

\* ensureTargetReadyLocked; any of the target's grants may have expired.
Prepare ==
  /\ pc = "prepare"
  /\ \/ Target = mem.active /\ Goto("recheck") /\ UNCHANGED <<seen, todo>> /\ Stay
     \/ /\ Target # mem.active /\ Candidate(Target)
        /\ todo' \in {<<>>, <<"pa">>, <<"cc">>, <<"pa", "cc">>}
        /\ Goto("refresh") /\ UNCHANGED seen /\ Stay
     \/ Target # mem.active /\ ~Candidate(Target) /\ Leave(stored) /\ UNCHANGED spent
  /\ NoNative

\* refreshStandbyGrantLocked saves its intent before it asks the server.
RefreshStep ==
  /\ pc = "refresh"
  /\ \/ todo = <<>> /\ Goto("verify") /\ UNCHANGED <<todo, seen>> /\ Stay
     \/ /\ todo # <<>>
        /\ Save([mem EXCEPT !.intent = <<Target, Head(todo)>>],
                Goto("post") /\ UNCHANGED <<todo, seen, nativeLock>>)
  /\ NoNative

\* The request for Pi's grant: answered, lost on either way, or refused. The
\* token that is sent is the snapshot's, whoever's account it is of.
PostPi ==
  /\ pc = "post" /\ Head(todo) = "pa"
  /\ LET held == mem.accounts[Target].value IN
     \/ /\ Newest(held, "pa") /\ held["pa"].version < MaxVersion
        /\ issued' = [issued EXCEPT ![held["pa"].account]["pa"] = @ + 1]
        /\ pc' \in {"granted", "uncertain"}
     \/ Newest(held, "pa") /\ pc' = "uncertain" /\ UNCHANGED issued
     \/ ~Newest(held, "pa") /\ pc' = "invalid" /\ UNCHANGED issued
  /\ UNCHANGED <<native, localVars>> /\ UNCHANGED <<stored, nativeLock, spent>>

\* The adapter for Claude Code's grant has no verified protocol and refuses;
\* without a refresh token it is not asked, and the intent stays.
PostClaude ==
  /\ pc = "post" /\ Head(todo) = "cc"
  /\ \/ pc' = "uncertain" /\ UNCHANGED localVars /\ UNCHANGED <<stored, nativeLock, spent>>
     \/ Leave(stored) /\ UNCHANGED spent
  /\ NoNative

\* The answer of the request is saved with the end of its intent.
RefreshResult ==
  /\ \/ /\ pc = "granted"
        /\ Save([mem EXCEPT !.accounts[Target].value["pa"].version = @ + 1, !.intent = NoIntent],
                Goto("refresh") /\ todo' = Tail(todo) /\ UNCHANGED <<seen, nativeLock>>)
     \/ /\ pc = "uncertain" /\ UNCHANGED spent
        /\ Leave(WithHealth(mem, Target, Head(todo), "refresh-uncertain"))
     \/ /\ pc = "invalid" /\ UNCHANGED spent
        /\ Leave([WithHealth(mem, Target, "pa", "needs-login") EXCEPT !.intent = NoIntent])
  /\ NoNative

\* verifyTargetGrantsLocked: the target's tokens answer, and answer as the target.
\* A token that was refreshed elsewhere may still answer.
VerifyTarget ==
  /\ pc = "verify"
  /\ LET held == mem.accounts[Target].value IN
     \/ /\ \A s \in Slots : held[s].account = Target
        /\ Goto("recheck") /\ UNCHANGED <<seen, todo>> /\ Stay
     \/ /\ \/ \E s \in Slots : held[s].account # Target
           \/ \E g \in Grants : ~Newest(held, g)
        /\ Leave(stored) /\ UNCHANGED spent
  /\ NoNative

-----------------------------------------------------------------------------
(* The journal and the patches                                             *)

SwapJournal ==
  [kind |-> "swap", source |-> mem.active, target |-> Target, from |-> mem.generation,
   before |-> seen, after |-> mem.accounts[Target].value, expected |-> seen]

Prepared ==
  Save([mem EXCEPT !.txn = SwapJournal],
       /\ pc' = "lock" /\ todo' = AllProjections /\ journaled' = TRUE
       /\ UNCHANGED <<call, next, seen, nativeLock>>)

\* The slots are read again: if they changed, they are harvested again, once.
Recheck ==
  /\ pc = "recheck"
  /\ IF native = seen THEN Prepared ELSE Goto("again") /\ UNCHANGED <<seen, todo>> /\ Stay
  /\ NoNative

Settle ==
  /\ pc = "settle"
  /\ IF native = seen THEN Prepared ELSE Leave(stored) /\ UNCHANGED spent
  /\ NoNative

\* Mutant: only the account of a slot is compared.
SameAccounts == \A s \in Slots : native[s].account = Journal.expected[s].account

\* applyAndCommitLocked: Pi's lock, and a last look at the slots under it.
Unchanged == native = Journal.expected

LockFirst ==
  /\ pc = "lock"
  /\ IF nativeLock = "free" /\ Unchanged
     THEN /\ nativeLock' = "held" /\ seen' = native
          /\ Goto("patch") /\ UNCHANGED <<stored, mem, todo, spent>>
     ELSE Fail(stored) /\ UNCHANGED spent
  /\ NoNative

\* Mutant: a recovery expects the progress the journal recorded.
AsRecorded == native = Journal.expected

AsClassified == native = seen

\* freezeRecoveryBaselineLocked: the slots must be those that were classified.
LockAgain ==
  /\ pc = "relock"
  /\ IF nativeLock = "free" /\ AsClassified
     THEN Save([mem EXCEPT !.txn.expected = native],
               /\ nativeLock' = "held" /\ todo' = PendingProjections(native, Journal)
               /\ Goto("patch") /\ UNCHANGED seen)
     ELSE Fail(stored) /\ UNCHANGED spent
  /\ NoNative

\* applyProjectionLocked: the slot, then, as a commit of its own, the progress.
Patch ==
  /\ pc = "patch" /\ todo # <<>>
  /\ native' = [native EXCEPT ![Head(todo)] = Journal.after[Head(todo)]]
  /\ \/ /\ mem' = [mem EXCEPT !.txn.expected[Head(todo)] = Journal.after[Head(todo)]]
        /\ Goto("progress") /\ UNCHANGED <<stored, nativeLock, seen, todo, spent>>
     \/ Spend("faults") /\ Fail(stored)
  /\ UNCHANGED issued

Progress ==
  /\ pc = "progress"
  /\ Save(mem, Goto("patch") /\ todo' = Tail(todo) /\ UNCHANGED <<seen, nativeLock>>)
  /\ NoNative

\* The recovery of an older journal inside a Swap goes on with the Swap.
Return ==
  IF next = "body" THEN /\ pc' = "body" /\ next' = "idle" /\ nativeLock' = Released
                        /\ seen' = NoValues /\ todo' = <<>> /\ UNCHANGED <<call, journaled>>
  ELSE Ends

\* Mutant: the slots are not read again.
TakenForGranted == TRUE

InPlace == native = Journal.after

Commit ==
  /\ pc = "patch" /\ todo = <<>>
  /\ IF InPlace THEN Save(Committed(mem), Return)
     ELSE Fail(stored) /\ UNCHANGED spent
  /\ NoNative

\* reconcileLocked
Reconcile ==
  /\ pc = "reconcile"
  /\ IF Journal.kind # "swap" THEN Return /\ UNCHANGED <<stored, mem, spent>>
     ELSE LET found == Classes(native, Journal) IN
       CASE "unknown" \in found -> Leave(stored) /\ UNCHANGED spent
         [] found = {"before"}  -> Save([mem EXCEPT !.txn = NoTxn], Return)
         [] found = {"after"}   -> Save(Committed(mem), Return)
         [] OTHER               -> /\ seen' = native /\ Goto("relock")
                                   /\ UNCHANGED todo /\ Stay
  /\ NoNative

-----------------------------------------------------------------------------

Step ==
  \/ SwapBody \/ SwapHarvestAgain \/ HarvestStep \/ EnrollStep \/ AdoptStep
  \/ CaptureRead \/ CaptureStep
  \/ Prepare \/ RefreshStep \/ PostPi \/ PostClaude \/ RefreshResult \/ VerifyTarget
  \/ Recheck \/ Settle \/ LockFirst \/ LockAgain \/ Patch \/ Progress \/ Commit \/ Reconcile

External ==
  \/ \E s \in Grants : NativeRefresh(s)
  \/ \E s \in Grants, a \in Accounts : Login(s, a)
  \/ ClearNativeLock

Next ==
  \/ \E a \in Accounts : BeginSwap(a) \/ RemoveAccount(a)
  \/ BeginEnrollment \/ CancelEnrollment \/ HarvestActive \/ AdoptCurrentLogin
  \/ CaptureFirstAccount \/ CaptureEnrolledAccount \/ Recover
  \/ Step \/ StepFails \/ Crash
  \/ External /\ UNCHANGED <<pc, localVars>>

Init ==
  /\ StoreInit
  /\ pc = "idle" /\ call = NoCall /\ mem = stored /\ seen = NoValues /\ todo = <<>>
  /\ next = "idle" /\ journaled = FALSE

Spec == Init /\ [][Next]_vars

\* An operation goes on to its next step; an open journal is recovered by the
\* next start or by the user; a lock a crash left is removed in the end.
FairSpec ==
  /\ Spec
  /\ WF_vars(Step /\ UNCHANGED spent)
  /\ WF_vars(Recover /\ UNCHANGED spent)
  /\ WF_vars(ClearNativeLock /\ UNCHANGED <<pc, localVars>>)

-----------------------------------------------------------------------------
(* Properties                                                              *)

\* The pool, in the store and in memory, is a document DecodePoolEnvelope accepts.
TypeOK ==
  /\ native \in Owned
  /\ issued \in [Accounts -> [Slots -> 0..MaxVersion]]
  /\ IsPool(stored) /\ IsPool(mem)
  /\ nativeLock \in {"free", "held", "left"}
  /\ seen = NoValues \/ seen \in Owned
  /\ journaled \in BOOLEAN

\* While nobody logs in natively, the three slots belong to the active account's
\* user unless a swap journal says that they are being moved. (A login that is
\* adopted may be taken for another organization's account of the same user.)
SlotsMoveTogether ==
  spent["logins"] = 0 /\ stored.txn.kind # "swap" =>
    stored.active = NoAccount \/ \A s \in Slots : SameUser(native[s].account, stored.active)

\* A snapshot holds the grants and the identity of its own user, whatever the
\* clients write between the reads of a harvest, a capture or a swap.
SnapshotsAreTheirOwn ==
  \A a \in DOMAIN stored.accounts : \A s \in Slots :
    SameUser(stored.accounts[a].value[s].account, a)

\* A patch replaces a value that a snapshot keeps, unless a client wrote the
\* slot after the last look at it under the lock.
OverwrittenIsKept ==
  [][\A s \in Slots :
       pc = "patch" /\ todo # <<>> /\ s = Head(todo) /\ native'[s] # native[s] /\ native[s] = seen[s] =>
         native[s] = stored.accounts[stored.txn.source].value[s]]_vars

\* A journal is closed only by slots that are all at its end, which makes its
\* target active, or all at its beginning, which leaves its source active.
JournalSettles ==
  [][stored.txn.kind = "swap" /\ stored'.txn.kind # "swap" =>
       \/ native = stored.txn.after /\ stored'.active = stored.txn.target
          /\ stored'.generation = stored.txn.from + 1
       \/ native = stored.txn.before /\ stored'.active = stored.txn.source
          /\ stored'.generation = stored.txn.from]_vars

\* An open journal is closed in the end, or a slot holds what it does not know.
JournalEnds ==
  stored.txn.kind = "swap" ~>
    stored.txn.kind # "swap" \/ "unknown" \in Classes(native, stored.txn)

\* A standby grant that was refreshed without its answer being stored is not
\* taken for ready: its health or a pending intent says so. Only the service
\* refreshes a standby, so this is asked while the native clients are still.
\* It does not hold: the intent of one account replaces that of another.
StaleGrantsAreMarked ==
  pc = "idle" /\ spent["logins"] = 0 /\ spent["refreshes"] = 0 =>
    \A a \in DOMAIN stored.accounts \ {stored.active} :
      Newest(stored.accounts[a].value, "pa")
      \/ stored.accounts[a].health["pa"] # "ready" \/ stored.intent = <<a, "pa">>
=============================================================================
