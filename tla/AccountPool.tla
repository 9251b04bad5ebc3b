------------------------------ MODULE AccountPool ------------------------------
(***************************************************************************)
(* The stores of the Claude account rotation (internal/claudeaccounts):    *)
(* the three native slots that Claude Code and Pi read and write on their  *)
(* own, the pool document that keeps a snapshot of every account, and the  *)
(* tokens the authorization server has issued. A slot holds the account a  *)
(* login belongs to and the version of its tokens; a refresh, by whomever, *)
(* makes the version before it worthless.                                  *)
(***************************************************************************)
EXTENDS Integers, FiniteSets, Sequences, SequencesExt

CONSTANTS
  Accounts, NoAccount,
  Twins,        \* accounts of one user in different organizations
  Pooled,       \* the accounts captured before the instance starts
  MaxVersion,   \* versions of a grant
  MaxRefreshes, MaxLogins,   \* refreshes and logins of the native clients
  MaxFaults, MaxCrashes,     \* failed reads, writes and requests; crashes
  MaxCalls                   \* operations asked for, recoveries not counted

Slots == {"cc", "cj", "pa"}  \* Claude Code's keychain item, .claude.json, Pi's auth.json
Grants == {"cc", "pa"}       \* the slots that hold tokens; "cj" is the identity beside them
AllProjections == <<"cc", "cj", "pa">>

Values  == [account : Accounts, version : 0..MaxVersion]
Owned   == [Slots -> Values]
Healths == {"ready", "needs-login", "refresh-uncertain"}
Snapshots == [value : Owned, health : [Grants -> Healths]]

NoTxn      == [kind |-> "none"]
Enrollment == [kind |-> "enrollment"]
Journals   == [kind : {"swap"}, source : Accounts, target : Accounts, from : Nat,
               before : Owned, after : Owned, expected : Owned]
NoIntent   == <<>>

IsPool(p) ==
  /\ DOMAIN p.accounts \subseteq Accounts
  /\ \A a \in DOMAIN p.accounts : p.accounts[a] \in Snapshots
  /\ p.active \in DOMAIN p.accounts \/ p.active = NoAccount
  /\ p.generation \in Nat
  /\ p.txn \in Journals \cup {NoTxn, Enrollment}
  /\ p.intent \in (Accounts \X Grants) \cup {NoIntent}

ASSUME AccountConstants ==
  /\ NoAccount \notin Accounts /\ Accounts # {}
  /\ Twins \subseteq Accounts /\ Pooled \subseteq Accounts /\ IsFiniteSet(Pooled)
  /\ {MaxVersion, MaxRefreshes, MaxLogins, MaxFaults, MaxCrashes, MaxCalls} \subseteq Nat

VARIABLES
  native,       \* the three native slots
  issued,       \* the newest version of each grant of an account
  stored,       \* the pool document
  nativeLock,   \* the lock directory beside auth.json: free, held, or left by a crash
  spent         \* how often each bounded event has happened

storeVars == <<native, issued, stored, nativeLock, spent>>

Limit(event) ==
  CASE event = "refreshes" -> MaxRefreshes
    [] event = "logins"    -> MaxLogins
    [] event = "faults"    -> MaxFaults
    [] event = "crashes"   -> MaxCrashes
    [] event = "calls"     -> MaxCalls

Events == {"refreshes", "logins", "faults", "crashes", "calls"}

Spend(event) ==
  /\ spent[event] < Limit(event)
  /\ spent' = [spent EXCEPT ![event] = @ + 1]

-----------------------------------------------------------------------------
(* Identities                                                              *)

\* FetchProfile's account UUIDs are equal; the organization may differ.
SameUser(a, b) == a = b \/ {a, b} \subseteq Twins

\* Mutant: Pi's token is not looked at.
PairedClaude(v) == SameUser(v["cc"].account, v["cj"].account)

\* VerifyPairedIdentities: both tokens and the local identity are one user's.
Paired(v) ==
  /\ SameUser(v["cc"].account, v["pa"].account)
  /\ SameUser(v["cc"].account, v["cj"].account)

Newest(v, s) == v[s].version = issued[v[s].account][s]

-----------------------------------------------------------------------------
(* The pool document                                                       *)

With(accounts, a, snapshot) ==
  [x \in DOMAIN accounts \cup {a} |-> IF x = a THEN snapshot ELSE accounts[x]]

Keeping(pool, a, owned) == [pool EXCEPT !.accounts[a].value = owned]

\* The capture of a full login as account a, which becomes the active one.
Captured(pool, a, owned) ==
  [pool EXCEPT !.accounts = With(@, a, [value |-> owned, health |-> [g \in Grants |-> "ready"]]),
               !.active = a, !.generation = @ + 1, !.txn = NoTxn]

WithHealth(pool, a, g, health) ==
  IF a \in DOMAIN pool.accounts THEN [pool EXCEPT !.accounts[a].health[g] = health] ELSE pool

\* The journal's target becomes the active account.
Committed(pool) ==
  [pool EXCEPT !.txn = NoTxn, !.active = pool.txn.target, !.generation = pool.txn.from + 1]

\* classifyProjection
Class(owned, journal, s) ==
  IF owned[s] = journal.before[s] THEN "before"
  ELSE IF owned[s] = journal.after[s] THEN "after" ELSE "unknown"

\* Mutant: Pi's entry is not classified.
ClaudeClasses(owned, journal) == {Class(owned, journal, s) : s \in {"cc", "cj"}}

Classes(owned, journal) == {Class(owned, journal, s) : s \in Slots}

PendingProjections(owned, journal) ==
  LET Pending(s) == IF Class(owned, journal, s) = "before" THEN <<s>> ELSE <<>>
  IN  Pending("cc") \o Pending("cj") \o Pending("pa")

-----------------------------------------------------------------------------
(* The native clients and the user                                         *)

\* Pi takes its lock before it writes auth.json.
Writable(s) == s = "pa" => nativeLock = "free"

\* A native client refreshes the tokens it finds in its slot.
NativeRefresh(s) ==
  /\ Writable(s) /\ Newest(native, s) /\ native[s].version < MaxVersion
  /\ Spend("refreshes")
  /\ native' = [native EXCEPT ![s].version = @ + 1]
  /\ issued' = [issued EXCEPT ![native[s].account][s] = @ + 1]
  /\ UNCHANGED <<stored, nativeLock>>

\* The user logs in as account a with one of the clients.
Login(g, a) ==
  /\ Writable(g) /\ issued[a][g] < MaxVersion
  /\ Spend("logins")
  /\ native' = [s \in Slots |-> CASE s = g -> [account |-> a, version |-> issued[a][g] + 1]
                                [] s = "cj" /\ g = "cc" -> [account |-> a, version |-> 0]
                                [] OTHER -> native[s]]
  /\ issued' = [issued EXCEPT ![a][g] = @ + 1]
  /\ UNCHANGED <<stored, nativeLock>>

\* The user, or Pi once the lock is stale, removes the directory a crash left.
ClearNativeLock ==
  /\ nativeLock = "left" /\ nativeLock' = "free"
  /\ UNCHANGED <<native, issued, stored, spent>>

Fresh(a) == [s \in Slots |-> [account |-> a, version |-> 0]]

\* The accounts of pooled have been captured, one after the other.
PoolOf(pooled, active) ==
  [accounts   |-> [p \in pooled |-> [value |-> Fresh(p), health |-> [g \in Grants |-> "ready"]]],
   active     |-> active,
   generation |-> Cardinality(pooled), txn |-> NoTxn, intent |-> NoIntent]

StoreInit ==
  /\ issued = [a \in Accounts |-> [s \in Slots |-> 0]]
  /\ \E a \in Accounts :
       /\ native = Fresh(a)
       /\ \E pooled \in SUBSET Pooled :
            \/ pooled = {} /\ stored = PoolOf({}, NoAccount)
            \/ a \in pooled /\ stored = PoolOf(pooled, a)
  /\ nativeLock = "free"
  /\ spent = [e \in Events |-> 0]
=============================================================================
