------------------------------ MODULE SendQueue ------------------------------
(***************************************************************************)
(* The send side of CSocketOperation: asyncSend copies a message into      *)
(* chunks of at most MAX_SEND_LENGTH bytes and queues each under a new     *)
(* acquisition of m_sendMutex; the event loop sends the chunk at the front *)
(* as far as the socket takes it and pops it when it is complete.          *)
(*                                                                         *)
(* A byte is <<m, k>>, the k-th byte of the m-th message.                  *)
(***************************************************************************)
EXTENDS Integers, SequencesExt

CONSTANTS
  Senders,        \* threads that call asyncSend
  MaxSendLength,  \* MAX_SEND_LENGTH
  MaxSendBuffer,  \* MAX_SEND_BUFFER
  MsgSizes,       \* sizes of messages
  MaxMessages,    \* bound: messages sent
  MaxErrors       \* bound: calls of send() that fail

ASSUME SendAssumption ==
  /\ Senders # {} /\ IsFiniteSet(Senders)
  /\ MaxSendLength \in Nat \ {0} /\ MaxSendBuffer \in Nat
  /\ MsgSizes \subseteq Nat /\ \E n \in MsgSizes : \A m \in MsgSizes : m <= n
  /\ MaxMessages \in Nat /\ MaxErrors \in Nat

VARIABLES
  messages,      \* sizes of the messages accepted so far
  pushing,       \* per sender: [msg, off], or Idle
  m_sendQueue,   \* chunks [msg, off, total, completed]
  m_mallocSize,  \* bytes accounted to queued chunks
  wire,          \* bytes the socket has taken
  callbacks,     \* calls of pFunc: [msg, off, error, completed]
  failed         \* the peer is gone: send() fails from now on

vars == <<messages, pushing, m_sendQueue, m_mallocSize, wire, callbacks, failed>>

Idle == [msg |-> 0, off |-> 0]

Init ==
  /\ messages = <<>>
  /\ pushing = [s \in Senders |-> Idle]
  /\ m_sendQueue = <<>>
  /\ m_mallocSize = 0
  /\ wire = <<>> /\ callbacks = <<>>
  /\ failed = FALSE

(* Mutant of UnderLimit: the limit is not checked.                         *)
UnderLimitAlways == TRUE

(* The limit is checked once, without the mutex, before the whole message; *)
(* a message of no bytes is accepted and queues nothing.                   *)
UnderLimit == m_mallocSize <= MaxSendBuffer

AsyncSend(s, size) ==
  /\ pushing[s] = Idle
  /\ Len(messages) < MaxMessages
  /\ UnderLimit
  /\ messages' = Append(messages, size)
  /\ pushing' = [pushing EXCEPT ![s] =
       IF size = 0 THEN Idle ELSE [msg |-> Len(messages) + 1, off |-> 0]]
  /\ UNCHANGED <<m_sendQueue, m_mallocSize, wire, callbacks, failed>>

ChunkLen(remain) == IF remain > MaxSendLength THEN MaxSendLength ELSE remain

(* Mutant of LastChunk: a short last chunk is forgotten.                   *)
LastChunkFull(msg, end) == messages[msg] - end < MaxSendLength

LastChunk(msg, end) == end = messages[msg]

PushChunk(s) ==
  LET msg == pushing[s].msg
      off == pushing[s].off
      total == ChunkLen(messages[msg] - off)
  IN /\ pushing[s] # Idle
     /\ m_sendQueue' = Append(m_sendQueue,
          [msg |-> msg, off |-> off, total |-> total, completed |-> 0])
     /\ m_mallocSize' = m_mallocSize + total
     /\ pushing' = [pushing EXCEPT ![s] =
          IF LastChunk(msg, off + total) THEN Idle ELSE [msg |-> msg, off |-> off + total]]
     /\ UNCHANGED <<messages, wire, callbacks, failed>>

(* Mutant of Bytes: a chunk is sent from its start again.                  *)
BytesFromStart(chunk, n) == [k \in 1 .. n |-> <<chunk.msg, chunk.off + k>>]

(* The bytes of a chunk from its first uncompleted one, n of them.         *)
Bytes(chunk, n) == [k \in 1 .. n |-> <<chunk.msg, chunk.off + chunk.completed + k>>]
ToSend(chunk) == chunk.total - chunk.completed

(* Mutant of AfterPart: the rest of the chunk goes to the back.            *)
AfterPartRequeued(n) ==
  Append(Tail(m_sendQueue), [Head(m_sendQueue) EXCEPT !.completed = @ + n])

(* send() takes less than it was offered: the chunk stays at the front.    *)
AfterPart(n) == [m_sendQueue EXCEPT ![1].completed = @ + n]

SendPart(n) ==
  LET front == Head(m_sendQueue) IN
  /\ m_sendQueue # <<>> /\ ~failed
  /\ n < ToSend(front)
  /\ wire' = wire \o Bytes(front, n)
  /\ m_sendQueue' = AfterPart(n)
  /\ UNCHANGED <<messages, pushing, m_mallocSize, callbacks, failed>>

(* pFunc of a chunk; all chunks of a message share it.                     *)
Report(chunk, error, n) ==
  callbacks' = Append(callbacks,
    [msg |-> chunk.msg, off |-> chunk.off, error |-> error, completed |-> n])

(* Mutants of Freed: only the last part, or the message, is taken off.     *)
FreedPart(chunk)    == ToSend(chunk)
FreedMessage(chunk) == messages[chunk.msg]

(* send() takes the rest: callback, then popSendRequest.                   *)
Freed(chunk) == chunk.total

SendRest ==
  LET front == Head(m_sendQueue) IN
  /\ m_sendQueue # <<>> /\ ~failed
  /\ wire' = wire \o Bytes(front, ToSend(front))
  /\ Report(front, FALSE, front.total)
  /\ m_sendQueue' = Tail(m_sendQueue)
  /\ m_mallocSize' = m_mallocSize - Freed(front)
  /\ UNCHANGED <<messages, pushing, failed>>

(* Mutant of Failed: the error is reported with the size of the chunk.     *)
FailedWhole(chunk) == chunk.total

(* nCompletedBytes of a chunk whose send() fails.                          *)
Failed(chunk) == chunk.completed

Errors == SelectSeq(callbacks, LAMBDA c : c.error)

(* send() fails, this once (EAGAIN) or from now on: the callback of the    *)
(* front request is run with errno and the request stays where it is, to   *)
(* be tried, and reported, again.                                          *)
SendFails ==
  /\ m_sendQueue # <<>>
  /\ Len(Errors) < MaxErrors
  /\ Report(Head(m_sendQueue), TRUE, Failed(Head(m_sendQueue)))
  /\ \E lasting \in BOOLEAN : failed' = (failed \/ lasting)
  /\ UNCHANGED <<messages, pushing, m_sendQueue, m_mallocSize, wire>>

Next ==
  \/ \E s \in Senders, size \in MsgSizes : AsyncSend(s, size)
  \/ \E s \in Senders : PushChunk(s)
  \/ \E n \in 1 .. MaxSendLength : SendPart(n)
  \/ SendRest
  \/ SendFails

Spec == Init /\ [][Next]_vars

(* Senders finish their pushes; a writable socket takes bytes.             *)
FairSpec ==
  /\ Spec
  /\ \A s \in Senders : WF_vars(PushChunk(s))
  /\ WF_vars(SendRest)

-----------------------------------------------------------------------------
Chunks == [msg : Nat, off : Nat, total : Nat, completed : Nat]

TypeOK ==
  /\ messages \in Seq(MsgSizes)
  /\ pushing \in [Senders -> [msg : Nat, off : Nat]]
  /\ m_sendQueue \in Seq(Chunks)
  /\ m_mallocSize \in Nat
  /\ wire \in Seq(Nat \X Nat)
  /\ callbacks \in Seq([msg : Nat, off : Nat, error : BOOLEAN, completed : Nat])
  /\ failed \in BOOLEAN

(* What m_mallocSize accounts for is what the queue holds, with every      *)
(* chunk counted whole, and once, until it is popped.                      *)
ChunkBytes(chunk) == {<<chunk.msg, chunk.off + k>> : k \in 1 .. chunk.total}

QueuedBytes == UNION {ChunkBytes(m_sendQueue[i]) : i \in DOMAIN m_sendQueue}

MallocMatchesQueue == m_mallocSize = Cardinality(QueuedBytes)

(* "the send cache does not exceed 32M" (AsyncIO.cpp:7): a message is only *)
(* started while the limit is kept, so the excess is at most one message   *)
(* of each sender.                                                         *)
Largest == CHOOSE n \in MsgSizes : \A m \in MsgSizes : m <= n

ExcessBounded ==
  m_mallocSize <= MaxSendBuffer + Cardinality(Senders) * Largest

(* Before a byte goes out, exactly the earlier bytes of its message have,  *)
(* and what is queued continues what is ahead of it: no byte is lost,      *)
(* repeated or out of order, whatever part of a chunk each send() takes    *)
(* and however the chunks of other senders come between.                   *)
Numbers(bytes, msg) == {b[2] : b \in {x \in bytes : x[1] = msg}}

Rest(chunk) == ToSet(Bytes(chunk, ToSend(chunk)))

(* What goes out before the rest of the i-th chunk of the queue.           *)
Ahead(i) == ToSet(wire) \cup UNION {Rest(m_sendQueue[h]) : h \in 1 .. i - 1}

MessagesInOrder ==
  /\ \A j \in DOMAIN wire :
       Numbers({wire[h] : h \in 1 .. j - 1}, wire[j][1]) = 1 .. wire[j][2] - 1
  /\ \A i \in DOMAIN m_sendQueue :
       LET chunk == m_sendQueue[i]
       IN Numbers(Ahead(i), chunk.msg) = 1 .. chunk.off + chunk.completed

(* Senders interleave at chunk boundaries only.                            *)
EndsChunk(b) ==
  b[2] = messages[b[1]] \/ \E n \in 1 .. b[2] : b[2] = n * MaxSendLength

ChunksWhole ==
  \A j \in 1 .. Len(wire) - 1 : wire[j][1] # wire[j + 1][1] => EndsChunk(wire[j])

(* Each call of a callback, after a failure or at the end, tells how much  *)
(* of its chunk the socket has taken by then, whatever parts and failures  *)
(* came before; and once a chunk is complete it is not reported again.     *)
Taken(bytes, c) == {k \in 1 .. MaxSendLength : <<c.msg, c.off + k>> \in bytes}

ReportsTruthful ==
  [][callbacks' # callbacks =>
       LET c == Last(callbacks')
       IN /\ Taken(ToSet(wire'), c) = 1 .. c.completed
          /\ \A i \in DOMAIN callbacks :
               ~callbacks[i].error =>
                 <<callbacks[i].msg, callbacks[i].off>> # <<c.msg, c.off>>]_vars

(* A message accepted from a sender is completely reported to its callback *)
(* in the end, chunk by chunk, unless the peer goes away.                  *)
Reported(m) ==
  FoldLeft(LAMBDA sum, c : sum + (IF c.msg = m /\ ~c.error THEN c.completed ELSE 0), 0, callbacks)

SentEventually ==
  \A m \in 1 .. MaxMessages :
    m \in DOMAIN messages ~> (failed \/ (m \in DOMAIN messages /\ Reported(m) = messages[m]))

=============================================================================
