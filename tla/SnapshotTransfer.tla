-------------------------- MODULE SnapshotTransfer --------------------------
(***************************************************************************)
(* The Snapshot RPC: full_snapshot (raft/network/grpc/v2.rs) streams one   *)
(* meta message and the data chunks to the snapshot handler                *)
(* (grpc/internal_service.rs), which collects them, hands the snapshot to  *)
(* its own Raft and answers once.                                          *)
(*                                                                         *)
(* A call is a client, a stream (HTTP/2 keeps it in order) and a handler.  *)
(* Calls run beside each other: after a failed one openraft makes a new    *)
(* one, with the snapshot it has then, while the handler of the old one    *)
(* may still be running.  The calls in Ours are those of full_snapshot,    *)
(* which awaits the response of client.snapshot() before it sends and ends *)
(* its stream by returning.  The handler serves whoever speaks             *)
(* internal.proto: the other calls are made by clients outside this        *)
(* repository, which send, end the stream and await.                       *)
(***************************************************************************)
EXTENDS Naturals, Sequences

CONSTANTS
  MaxCalls,    \* bound on the calls made
  MaxChunks,   \* bound on the chunks of a snapshot
  Ours         \* the calls made by full_snapshot

Calls == 1..MaxCalls

ASSUME SnapshotTransferAssumption ==
  MaxCalls \in Nat \ {0} /\ MaxChunks \in Nat /\ Ours \subseteq Calls

VARIABLES
  client,     \* [Calls -> phase of the client]
  size,       \* [Calls -> number of chunks of the snapshot sent]
  sent,       \* [Calls -> messages put on the stream, the meta first]
  closed,     \* [Calls -> has the client ended the stream?]
  broken,     \* [Calls -> was the connection lost?]
  handler,    \* [Calls -> phase of the handler]
  data,       \* [Calls -> snapshot_data_bytes: chunks the handler collected]
  installed   \* snapshots handed to install_full_snapshot, with their call

vars == <<client, size, sent, closed, broken, handler, data, installed>>

Init ==
  /\ client = [c \in Calls |-> "idle"]
  /\ size = [c \in Calls |-> 0]
  /\ sent = [c \in Calls |-> 0]
  /\ closed = [c \in Calls |-> FALSE]
  /\ broken = [c \in Calls |-> FALSE]
  /\ handler = [c \in Calls |-> "none"]
  /\ data = [c \in Calls |-> <<>>]
  /\ installed = {}

-----------------------------------------------------------------------------
(* The client.                                                             *)

\* The call is made; its handler starts on the headers, before any message.
Open(c, n) ==
  /\ client[c] = "idle"
  /\ client' = [client EXCEPT ![c] = "open"]
  /\ size' = [size EXCEPT ![c] = n]
  /\ handler' = [handler EXCEPT ![c] = "first"]
  /\ UNCHANGED <<sent, closed, broken, data, installed>>

\* full_snapshot awaits the response first; other clients need not.
MaySend(c) == client[c] = "open" /\ (c \in Ours => handler[c] = "answered")

\* Mutant: one chunk too many is taken from the data.
SendOneMore(c) ==
  /\ MaySend(c)
  /\ sent[c] < size[c] + 2
  /\ sent' = [sent EXCEPT ![c] = @ + 1]
  /\ UNCHANGED <<client, size, closed, broken, handler, data, installed>>

\* The meta (message 1) and the chunks, in order.
Send(c) ==
  /\ MaySend(c)
  /\ sent[c] < size[c] + 1
  /\ sent' = [sent EXCEPT ![c] = @ + 1]
  /\ UNCHANGED <<client, size, closed, broken, handler, data, installed>>

\* Another client has nothing more to send and ends its stream.
CloseStream(c) ==
  /\ c \notin Ours
  /\ MaySend(c)
  /\ sent[c] = size[c] + 1
  /\ ~closed[c]
  /\ closed' = [closed EXCEPT ![c] = TRUE]
  /\ UNCHANGED <<client, size, sent, broken, handler, data, installed>>

\* full_snapshot returns the response once everything is sent, which drops its sender;
\* another client returns it once it has ended its stream.
Return(c) ==
  /\ client[c] = "open"
  /\ sent[c] = size[c] + 1
  /\ c \notin Ours => closed[c]
  /\ handler[c] = "answered"
  /\ ~broken[c]
  /\ client' = [client EXCEPT ![c] = "done"]
  /\ closed' = [closed EXCEPT ![c] = TRUE]
  /\ UNCHANGED <<size, sent, broken, handler, data, installed>>

\* A lost connection or an error status is a NetworkError of the call.
Fail(c) ==
  /\ client[c] = "open"
  /\ broken[c] \/ handler[c] = "error"
  /\ client' = [client EXCEPT ![c] = "failed"]
  /\ UNCHANGED <<size, sent, closed, broken, handler, data, installed>>

Break(c) ==
  /\ client[c] = "open"
  /\ ~broken[c]
  /\ broken' = [broken EXCEPT ![c] = TRUE]
  /\ UNCHANGED <<client, size, sent, closed, handler, data, installed>>

-----------------------------------------------------------------------------
(* The handler.                                                            *)

\* The first message is the meta.
ReadMeta(c) ==
  /\ handler[c] = "first"
  /\ sent[c] >= 1
  /\ handler' = [handler EXCEPT ![c] = "reading"]
  /\ UNCHANGED <<client, size, sent, closed, broken, data, installed>>

ReadChunk(c) ==
  /\ handler[c] = "reading"
  /\ Len(data[c]) + 1 < sent[c]
  /\ data' = [data EXCEPT ![c] = Append(@, Len(@) + 1)]
  /\ UNCHANGED <<client, size, sent, closed, broken, handler, installed>>

\* stream.next() is None: the client has ended the stream and all of it was read.
ReadEnd(c) ==
  /\ handler[c] = "reading"
  /\ closed[c]
  /\ Len(data[c]) + 1 = sent[c]
  /\ handler' = [handler EXCEPT ![c] = "install"]
  /\ UNCHANGED <<client, size, sent, closed, broken, data, installed>>

\* Mutant: an error of the stream ends the loop as its end does.
ReadErrorAsEnd(c) ==
  /\ handler[c] \in {"first", "reading"}
  /\ broken[c]
  /\ handler' = [handler EXCEPT ![c] = IF @ = "reading" THEN "install" ELSE "error"]
  /\ UNCHANGED <<client, size, sent, closed, broken, data, installed>>

\* stream.next() is an error: the handler returns it.
ReadError(c) ==
  /\ handler[c] \in {"first", "reading"}
  /\ broken[c]
  /\ handler' = [handler EXCEPT ![c] = "error"]
  /\ UNCHANGED <<client, size, sent, closed, broken, data, installed>>

\* install_full_snapshot: Raft installs the snapshot, or refuses a stale leader;
\* either way the handler answers with the vote.
Install(c) ==
  /\ handler[c] = "install"
  /\ handler' = [handler EXCEPT ![c] = "answered"]
  /\ \/ installed' = installed \cup {[call |-> c, data |-> data[c]]}
     \/ UNCHANGED installed
  /\ UNCHANGED <<client, size, sent, closed, broken, data>>

\* The server drops the future of a handler whose connection is gone.
Drop(c) ==
  /\ broken[c]
  /\ handler[c] \in {"first", "reading", "install"}
  /\ handler' = [handler EXCEPT ![c] = "dropped"]
  /\ UNCHANGED <<client, size, sent, closed, broken, data, installed>>

-----------------------------------------------------------------------------
ClientStep(c) == Send(c) \/ CloseStream(c) \/ Return(c) \/ Fail(c)

HandlerStep(c) ==
  ReadMeta(c) \/ ReadChunk(c) \/ ReadEnd(c) \/ ReadError(c) \/ Install(c)

Next ==
  \E c \in Calls :
    \/ \E n \in 0..MaxChunks : Open(c, n)
    \/ ClientStep(c)
    \/ HandlerStep(c)
    \/ Break(c)
    \/ Drop(c)

Spec == Init /\ [][Next]_vars

\* Both tasks are polled while they can go on; connections need not break.
FairSpec == Spec /\ \A c \in Calls : WF_vars(ClientStep(c)) /\ WF_vars(HandlerStep(c))

-----------------------------------------------------------------------------
(* Properties.                                                             *)

\* The type of every variable.
TypeOK ==
  /\ client \in [Calls -> {"idle", "open", "done", "failed"}]
  /\ size \in [Calls -> 0..MaxChunks]
  /\ sent \in [Calls -> 0..MaxChunks + 1]
  /\ closed \in [Calls -> BOOLEAN]
  /\ broken \in [Calls -> BOOLEAN]
  /\ handler \in [Calls -> {"none", "first", "reading", "install", "answered",
                            "error", "dropped"}]
  /\ data \in [Calls -> Seq(1..MaxChunks)]
  /\ installed \subseteq [call : Calls, data : Seq(1..MaxChunks)]

\* The handler hands a snapshot to Raft only whole, whichever client sent it: nothing
\* in the meta says how long the data is, so a stream that is cut must never be taken
\* for one that ended.
InstalledSnapshotIsWhole ==
  \A s \in installed : s.data = [k \in 1..size[s.call] |-> k]

\* A snapshot call that was made comes to an end: an answer or an error.
SnapshotCallEnds == \A c \in Calls : client[c] = "open" ~> client[c] # "open"
=============================================================================
