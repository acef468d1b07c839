---------------------- MODULE SnapshotTransferProofs ----------------------
(***************************************************************************)
(* Proofs about SnapshotTransfer: for every number of calls and chunks,    *)
(* whichever of them full_snapshot makes, the handler gives Raft whole     *)
(* snapshots only.                                                         *)
(***************************************************************************)
EXTENDS SnapshotTransfer, TLAPS

-----------------------------------------------------------------------------
(* The inductive invariant.                                                *)

\* The first n chunks of a snapshot.
Chunks(n) == [k \in 1..n |-> k]

\* What was collected is a beginning of what was sent; it is complete when the
\* handler has read the end of the stream.
StreamInv(c) ==
  /\ data[c] = Chunks(Len(data[c]))
  /\ Len(data[c]) <= size[c]
  /\ sent[c] <= size[c] + 1
  /\ closed[c] => sent[c] = size[c] + 1
  /\ handler[c] = "install" => Len(data[c]) = size[c]

\* A call that was not made has sent and collected nothing.
UnopenedInv(c) ==
  client[c] = "idle" =>
    handler[c] = "none" /\ sent[c] = 0 /\ ~closed[c] /\ data[c] = <<>>

\* What was handed to Raft belongs to a call that was made, and is whole.
InstalledInv ==
  \A s \in installed : client[s.call] # "idle" /\ s.data = Chunks(size[s.call])

IInv ==
  /\ TypeOK
  /\ \A c \in Calls : StreamInv(c) /\ UnopenedInv(c)
  /\ InstalledInv

-----------------------------------------------------------------------------
\* Appending the next number to the first n numbers gives the first n + 1.
LEMMA NextChunk ==
  ASSUME NEW n \in Nat
  PROVE  /\ Chunks(n) \in Seq(Nat)
         /\ Len(Chunks(n)) = n
         /\ Append(Chunks(n), n + 1) = Chunks(n + 1)
<1>1. Chunks(n) \in Seq(Nat) /\ Len(Chunks(n)) = n
  BY DEF Chunks
<1>2. Chunks(n + 1) \in Seq(Nat) /\ Len(Chunks(n + 1)) = n + 1
  BY DEF Chunks
<1>3. \A k \in 1..n + 1 : Append(Chunks(n), n + 1)[k] = Chunks(n + 1)[k]
  BY <1>1 DEF Chunks
<1>4. Append(Chunks(n), n + 1) \in Seq(Nat) /\ Len(Append(Chunks(n), n + 1)) = n + 1
  BY <1>1
<1>5. QED
  BY <1>1, <1>2, <1>3, <1>4

-----------------------------------------------------------------------------
(* The invariant holds at the start and is kept by every step.             *)

LEMMA IInvInit == Init => IInv
<1> SUFFICES ASSUME Init PROVE IInv
  OBVIOUS
<1> USE SnapshotTransferAssumption
<1>1. TypeOK
  BY DEF Init, TypeOK
<1>2. \A c \in Calls : StreamInv(c) /\ UnopenedInv(c)
  <2>1. <<>> = Chunks(0)
    BY DEF Chunks
  <2>2. QED
    BY <2>1 DEF Init, StreamInv, UnopenedInv
<1>3. InstalledInv
  BY DEF Init, InstalledInv
<1>4. QED
  BY <1>1, <1>2, <1>3 DEF IInv

\* A new call has sent, collected and installed nothing.
LEMMA OpenStep ==
  ASSUME IInv, NEW c \in Calls, NEW n \in 0..MaxChunks, Open(c, n)
  PROVE  IInv'
<1> USE SnapshotTransferAssumption DEF IInv, Open
<1>1. TypeOK'
  BY DEF TypeOK
<1>2. ASSUME NEW d \in Calls PROVE StreamInv(d)' /\ UnopenedInv(d)'
  <2>1. CASE d = c
    BY <2>1 DEF TypeOK, StreamInv, UnopenedInv
  <2>2. CASE d # c
    BY <2>2 DEF TypeOK, StreamInv, UnopenedInv
  <2>3. QED
    BY <2>1, <2>2
<1>3. InstalledInv'
  BY DEF TypeOK, InstalledInv
<1>4. QED
  BY <1>1, <1>2, <1>3

LEMMA ClientSteps ==
  ASSUME IInv, NEW c \in Calls, ClientStep(c) \/ Break(c)
  PROVE  IInv'
<1> USE SnapshotTransferAssumption DEF IInv
<1>1. CASE Send(c)
  <2>1. TypeOK'
    BY <1>1 DEF Send, TypeOK
  <2>2. \A d \in Calls : StreamInv(d)' /\ UnopenedInv(d)'
    BY <1>1 DEF Send, MaySend, TypeOK, StreamInv, UnopenedInv
  <2>3. InstalledInv'
    BY <1>1 DEF Send, InstalledInv
  <2>4. QED
    BY <2>1, <2>2, <2>3
<1>2. CASE CloseStream(c)
  <2>1. TypeOK'
    BY <1>2 DEF CloseStream, TypeOK
  <2>2. \A d \in Calls : StreamInv(d)' /\ UnopenedInv(d)'
    BY <1>2 DEF CloseStream, MaySend, TypeOK, StreamInv, UnopenedInv
  <2>3. InstalledInv'
    BY <1>2 DEF CloseStream, InstalledInv
  <2>4. QED
    BY <2>1, <2>2, <2>3
<1>3. CASE Return(c)
  <2>1. TypeOK'
    BY <1>3 DEF Return, TypeOK
  <2>2. \A d \in Calls : StreamInv(d)' /\ UnopenedInv(d)'
    BY <1>3 DEF Return, TypeOK, StreamInv, UnopenedInv
  <2>3. InstalledInv'
    BY <1>3 DEF Return, TypeOK, InstalledInv
  <2>4. QED
    BY <2>1, <2>2, <2>3
<1>4. CASE Fail(c) \/ Break(c)
  <2>1. TypeOK'
    BY <1>4 DEF Fail, Break, TypeOK
  <2>2. \A d \in Calls : StreamInv(d)' /\ UnopenedInv(d)'
    BY <1>4 DEF Fail, Break, TypeOK, StreamInv, UnopenedInv
  <2>3. InstalledInv'
    BY <1>4 DEF Fail, Break, TypeOK, InstalledInv
  <2>4. QED
    BY <2>1, <2>2, <2>3
<1>5. QED
  BY <1>1, <1>2, <1>3, <1>4 DEF ClientStep

LEMMA ReadChunkStep ==
  ASSUME IInv, NEW c \in Calls, ReadChunk(c)
  PROVE  IInv'
<1> USE SnapshotTransferAssumption DEF IInv
<1> DEFINE n == Len(data[c])
<1>1. /\ data[c] \in Seq(1..MaxChunks) /\ n \in Nat
      /\ size[c] \in 0..MaxChunks /\ sent[c] \in 0..MaxChunks + 1
      /\ n + 1 < sent[c] /\ sent[c] <= size[c] + 1
      /\ data[c] = Chunks(n)
      /\ handler[c] = "reading"
  <2>1. data[c] \in Seq(1..MaxChunks)
    BY DEF TypeOK
  <2>2. size[c] \in 0..MaxChunks /\ sent[c] \in 0..MaxChunks + 1
    BY DEF TypeOK
  <2>3. n + 1 < sent[c] /\ handler[c] = "reading"
    BY DEF ReadChunk
  <2>4. sent[c] <= size[c] + 1 /\ data[c] = Chunks(n)
    BY DEF StreamInv
  <2>5. QED
    BY <2>1, <2>2, <2>3, <2>4
<1>2. n + 1 \in 1..MaxChunks /\ n + 1 <= size[c]
  BY <1>1
<1>3. DOMAIN data = Calls
  BY DEF TypeOK
<1>4. data'[c] = Append(data[c], n + 1)
  BY <1>3 DEF ReadChunk
<1>5. data'[c] \in Seq(1..MaxChunks) /\ Len(data'[c]) = n + 1 /\ data'[c] = Chunks(n + 1)
  <2>1. data'[c] \in Seq(1..MaxChunks) /\ Len(data'[c]) = n + 1
    BY <1>1, <1>2, <1>4
  <2>2. data'[c] = Chunks(n + 1)
    BY <1>1, <1>4, NextChunk
  <2>3. QED
    BY <2>1, <2>2
<1>6. \A d \in Calls : d # c => data'[d] = data[d]
  BY <1>3 DEF ReadChunk
<1>7. UNCHANGED <<client, size, sent, closed, broken, handler, installed>>
  BY DEF ReadChunk
<1>8. TypeOK'
  <2>1. data' \in [Calls -> Seq(1..MaxChunks)]
    BY <1>3, <1>4, <1>5 DEF TypeOK, ReadChunk
  <2>2. QED
    BY <2>1, <1>7 DEF TypeOK
<1>9. ASSUME NEW d \in Calls PROVE StreamInv(d)' /\ UnopenedInv(d)'
  <2>1. CASE d = c
    BY <2>1, <1>1, <1>2, <1>5, <1>7 DEF StreamInv, UnopenedInv
  <2>2. CASE d # c
    BY <2>2, <1>6, <1>7 DEF StreamInv, UnopenedInv
  <2>3. QED
    BY <2>1, <2>2
<1>10. InstalledInv'
  BY <1>7 DEF InstalledInv
<1>11. QED
  BY <1>8, <1>9, <1>10

LEMMA InstallStep ==
  ASSUME IInv, NEW c \in Calls, Install(c)
  PROVE  IInv'
<1> USE SnapshotTransferAssumption DEF IInv
<1>1. /\ handler[c] = "install"
      /\ handler' = [handler EXCEPT ![c] = "answered"]
      /\ UNCHANGED <<client, size, sent, closed, broken, data>>
      /\ installed' \subseteq installed \cup {[call |-> c, data |-> data[c]]}
  BY DEF Install
<1>2. TypeOK'
  <2>1. installed' \subseteq [call : Calls, data : Seq(1..MaxChunks)]
    BY <1>1 DEF TypeOK
  <2>2. handler' \in [Calls -> {"none", "first", "reading", "install", "answered",
                               "error", "dropped"}]
    BY <1>1 DEF TypeOK
  <2>3. QED
    BY <1>1, <2>1, <2>2 DEF TypeOK
<1>3. \A d \in Calls : StreamInv(d)' /\ UnopenedInv(d)'
  BY <1>1 DEF TypeOK, StreamInv, UnopenedInv
<1>4. client[c] # "idle" /\ data[c] = Chunks(size[c])
  <2>1. StreamInv(c) /\ UnopenedInv(c)
    OBVIOUS
  <2>2. QED
    BY <1>1, <2>1 DEF StreamInv, UnopenedInv
<1>5. InstalledInv'
  BY <1>1, <1>4 DEF InstalledInv
<1>6. QED
  BY <1>2, <1>3, <1>5

\* The other steps of the handler change nothing but where it is.
LEMMA HandlerSteps ==
  ASSUME IInv, NEW c \in Calls,
         ReadMeta(c) \/ ReadEnd(c) \/ ReadError(c) \/ Drop(c)
  PROVE  IInv'
<1> USE SnapshotTransferAssumption DEF IInv
<1>1. UNCHANGED <<client, size, sent, closed, broken, data, installed>>
  BY DEF ReadMeta, ReadEnd, ReadError, Drop
<1>2. TypeOK'
  BY <1>1 DEF TypeOK, ReadMeta, ReadEnd, ReadError, Drop
<1>3. \A d \in Calls : data[d] \in Seq(1..MaxChunks) /\ Len(data[d]) \in Nat
  BY DEF TypeOK
<1>4. \A d \in Calls : StreamInv(d)'
  <2>1. CASE ReadEnd(c)
    BY <1>1, <1>3, <2>1 DEF TypeOK, StreamInv, ReadEnd
  <2>2. CASE ReadMeta(c) \/ ReadError(c) \/ Drop(c)
    BY <1>1, <2>2 DEF TypeOK, StreamInv, ReadMeta, ReadError, Drop
  <2>3. QED
    BY <2>1, <2>2
<1>5. \A d \in Calls : UnopenedInv(d)'
  BY <1>1 DEF TypeOK, UnopenedInv, ReadMeta, ReadEnd, ReadError, Drop
<1>6. InstalledInv'
  BY <1>1 DEF InstalledInv
<1>7. QED
  BY <1>2, <1>4, <1>5, <1>6

LEMMA IInvStep == IInv /\ [Next]_vars => IInv'
<1> SUFFICES ASSUME IInv, [Next]_vars PROVE IInv'
  OBVIOUS
<1>1. CASE UNCHANGED vars
  BY <1>1 DEF vars, IInv, TypeOK, StreamInv, UnopenedInv, InstalledInv
<1>2. CASE Next
  <2>1. PICK c \in Calls :
          \/ \E n \in 0..MaxChunks : Open(c, n)
          \/ ClientStep(c)
          \/ HandlerStep(c)
          \/ Break(c)
          \/ Drop(c)
    BY <1>2 DEF Next
  <2>2. QED
    BY <2>1, OpenStep, ClientSteps, ReadChunkStep, InstallStep, HandlerSteps
    DEF HandlerStep
<1>3. QED
  BY <1>1, <1>2

-----------------------------------------------------------------------------
\* Every variable keeps its type, for every number of calls and chunks.
THEOREM SnapshotTransferTypeCorrect == Spec => []TypeOK
<1>1. IInv => TypeOK
  BY DEF IInv
<1>2. QED
  BY <1>1, IInvInit, IInvStep, PTL DEF Spec

\* The handler hands Raft whole snapshots only, however connections break and
\* however often the call is made again.
THEOREM OnlyWholeSnapshots == Spec => []InstalledSnapshotIsWhole
<1>1. IInv => InstalledSnapshotIsWhole
  BY DEF IInv, InstalledInv, InstalledSnapshotIsWhole, Chunks
<1>2. QED
  BY <1>1, IInvInit, IInvStep, PTL DEF Spec
=============================================================================
