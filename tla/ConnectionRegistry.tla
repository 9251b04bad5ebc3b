--------------------------- MODULE ConnectionRegistry ---------------------------
(***************************************************************************)
(* The registry of the live v1 connections (connection_registry.go), the   *)
(* connections that use it (handleV1WebSocket) and what RevokeDevice and   *)
(* latchSecurity do with it once the device store has answered (device.go).*)
(* Everything here lives in memory and is lost in a crash. A connection is *)
(* served between its registration and its end; one that was detached from *)
(* the registry goes on until it is terminated, outside the registry's     *)
(* lock.                                                                   *)
(***************************************************************************)
EXTENDS DeviceFiles

CONSTANT Conn

VARIABLES
  accepting,     \* the registry takes registrations
  fence,         \* revokedFence
  conn,          \* what each connection is at, and for which device
  rev            \* the desktop's RevokeDevice call

accessVars == <<accepting, fence, conn, rev>>

NoConn == [at |-> "out", dev |-> NoDevice]
NoCall == [at |-> "idle", dev |-> NoDevice]

Registered == {"registered", "touching", "serving"}
Entries(d) == {c \in Conn : conn[c].dev = d /\ conn[c].at \in Registered}

\* The connections of gone, detached from the registry or ended.
Detached(gone) ==
  [c \in Conn |-> IF c \in gone THEN [conn[c] EXCEPT !.at = "detached"] ELSE conn[c]]
Ended(gone) == [c \in Conn |-> IF c \in gone THEN NoConn ELSE conn[c]]

-----------------------------------------------------------------------------
(* Connections                                                              *)

\* Register: a candidate that is refused is terminated. The epoch and the
\* duplicate check are left out: a connection draws its own random ID.
Register(c) ==
  /\ conn[c].at = "authenticated"
  /\ conn' = IF accepting /\ conn[c].dev \notin fence
             THEN [conn EXCEPT ![c].at = "registered"] ELSE Ended({c})
  /\ UNCHANGED <<accepting, fence, rev>>

\* The read loop ends: UnregisterV1Connection.
Disconnect(c) ==
  /\ conn[c].at = "serving"
  /\ conn' = Ended({c})
  /\ UNCHANGED <<accepting, fence, rev>>

-----------------------------------------------------------------------------
(* RevokeDevice and latchSecurity after the store's answer                  *)

\* An answer other than an indeterminate one is an answer without an error.
Answered(out) ==
  rev' = [rev EXCEPT !.at = IF out = "indeterminate" THEN "latch" ELSE "fence"]

\* Mutant: the device's connections are detached, the device is not fenced.
DetachDevice ==
  /\ rev.at = "fence"
  /\ conn' = Detached(Entries(rev.dev))
  /\ rev' = [rev EXCEPT !.at = "cut"]
  /\ UNCHANGED <<accepting, fence>>

FenceDevice ==
  /\ rev.at = "fence"
  /\ fence' = fence \cup {rev.dev}
  /\ conn' = Detached(Entries(rev.dev))
  /\ rev' = [rev EXCEPT !.at = "cut"]
  /\ UNCHANGED accepting

\* connectionRegistry.Stop under latchSecurity.
LatchRegistry ==
  /\ rev.at = "latch"
  /\ accepting' = FALSE
  /\ conn' = Detached(UNION {Entries(d) : d \in Device})
  /\ rev' = [rev EXCEPT !.at = "cut"]
  /\ UNCHANGED fence

\* Mutant: detached connections are left to end by themselves.
LeaveDetached == rev.at = "cut" /\ rev' = NoCall /\ UNCHANGED <<accepting, fence, conn>>

\* Terminate ends every connection that was detached, and the call returns.
Terminate ==
  /\ rev.at = "cut"
  /\ conn' = Ended({c \in Conn : conn[c].at = "detached"})
  /\ rev' = NoCall
  /\ UNCHANGED <<accepting, fence>>

AccessInit ==
  /\ accepting = FALSE /\ fence = {}
  /\ conn = [c \in Conn |-> NoConn]
  /\ rev = NoCall
=============================================================================
