------------------------------ MODULE Session -------------------------------
(***************************************************************************)
(* CSession: one client connection of the server.                          *)
(*                                                                         *)
(* A session keeps a growing receive buffer, one outstanding asyncRecv     *)
(* that points into it, and cuts the byte stream into length-prefixed      *)
(* frames.  Each completion of the outstanding receive runs recvCallBack,  *)
(* which handles at most one frame, answers it with the blocking           *)
(* sendAndWait and re-arms the receive.                                    *)
(*                                                                         *)
(* A byte of the stream is <<i, k>>, the k-th byte of the i-th request:    *)
(* what the framing must keep apart and nothing more.  The sizes are       *)
(* scaled down by the constants; the order of the operations is the code's.*)
(***************************************************************************)
EXTENDS Integers, Sequences

CONSTANTS
  IntSize,      \* sizeof(int), the length prefix
  MaxBufSize,   \* MAX_BUF_SIZE, the first capacity of m_recvBuf
  FrameSizes,   \* sizes of whole frames, prefix included
  Kinds,        \* subset of {"reply", "badVersion", "silent", "unknown"}
  ReplySize,    \* bytes of a reply
  SndBuf,       \* bytes the socket's send buffer holds
  LowWater,     \* free bytes at which poll reports POLLWRNORM
  MaxRequests,  \* bound: requests a client writes
  MaxInFlight   \* requests a client writes without having their replies

ASSUME SessionAssumption ==
  /\ IntSize \in Nat \ {0}
  /\ MaxBufSize \in Nat /\ MaxBufSize >= IntSize
  /\ FrameSizes \subseteq {n \in Nat : n > IntSize}
  /\ Kinds \subseteq {"reply", "badVersion", "silent", "unknown"}
  /\ ReplySize \in Nat \ {0}
  /\ SndBuf \in Nat
  /\ LowWater \in Nat \ {0} /\ LowWater <= SndBuf
  /\ MaxRequests \in Nat /\ MaxInFlight \in Nat

VARIABLES
  reqs,         \* requests the client has written: [size, kind]
  net,          \* bytes written by the client, not yet received
  peerClosed,   \* the client has closed its end
  unread,       \* bytes of replies in the socket buffers, not read by the client
  replies,      \* history: the replies sent, [corr, kind, len]
  pc,           \* "loop": in epoll_wait; "send": recvCallBack is in sendAndWait
  open,         \* the session's socket is open and bound
  m_recvBuf,    \* the receive buffer, a function on 1 .. m_recvBufLen
  m_recvBufLen, \* its capacity
  m_hasRecvLen, \* how many of its bytes are valid
  m_recvQueue,  \* receive requests of the socket, executed at the head
  errno         \* errno of the session's thread: "EAGAIN" or "other"

vars == <<reqs, net, peerClosed, unread, replies, pc, open,
          m_recvBuf, m_recvBufLen, m_hasRecvLen, m_recvQueue, errno>>

Junk == <<0, 0>>   \* a byte malloc or realloc has not initialised

Frame(i, size) == [k \in 1 .. size |-> <<i, k>>]

(* The kinds sendAndWait puts bytes on the wire for: handled requests and  *)
(* requests of an unsupported version.  A "silent" request is one whose    *)
(* handle() returns 0; an "unknown" apiKey never reaches sendAndWait.      *)
Replying == Kinds \cap {"reply", "badVersion"}

(* Mutants of RecvRequest: the whole capacity asked for, the offset lost.  *)
RecvRequestWhole(cap, has) == [base |-> cap, off |-> has, len |-> cap]
RecvRequestAtStart(cap, has) == [base |-> cap, off |-> 0, len |-> cap - has]

(* asyncRecv(m_socket, m_recvBuf + has, m_recvBufLen - has): base names    *)
(* the block m_recvBuf points to, which realloc replaces exactly when the  *)
(* capacity changes.                                                       *)
RecvRequest(cap, has) == [base |-> cap, off |-> has, len |-> cap - has]

(* Mutant of Rearm: the callback returns without asyncRecv.                *)
RearmForgotten(cap, has) == m_recvQueue' = Tail(m_recvQueue)

(* The callback pushes the next receive before the loop pops the executed  *)
(* one, so the queue never runs empty and EPOLLIN stays registered.        *)
Rearm(cap, has) ==
  m_recvQueue' = Tail(Append(m_recvQueue, RecvRequest(cap, has)))

(* recv() copies n bytes to where the executed request points.             *)
Received(req, n) ==
  IF req.base = m_recvBufLen
  THEN [j \in DOMAIN m_recvBuf |->
          IF j \in req.off + 1 .. req.off + n THEN net[j - req.off] ELSE m_recvBuf[j]]
  ELSE m_recvBuf

AllSize(buf) == reqs[buf[1][1]].size
KindOf(buf)  == reqs[buf[1][1]].kind

(* Mutants of GrownLen: two bytes late, never, with room for a prefix.     *)
GrownLenLate(all)  == IF all > m_recvBufLen + 2 THEN all ELSE m_recvBufLen
GrownLenNever(all) == m_recvBufLen
GrownLenSlack(all) ==
  IF all + IntSize > m_recvBufLen THEN all + IntSize ELSE m_recvBufLen

(* realloc when the frame does not fit.                                    *)
GrownLen(all) == IF all > m_recvBufLen THEN all ELSE m_recvBufLen
Grown(buf, cap) ==
  [j \in 1 .. cap |-> IF j <= m_recvBufLen THEN buf[j] ELSE Junk]

(* Mutant of MemMoved: the tail is moved from one byte too early.          *)
MemMovedEarly(buf, has, all) ==
  [j \in DOMAIN buf |-> IF j <= has - all THEN buf[j + all - 1] ELSE buf[j]]

(* memmove(m_recvBuf, m_recvBuf + all, has - all).                         *)
MemMoved(buf, has, all) ==
  [j \in DOMAIN buf |-> IF j <= has - all THEN buf[j + all] ELSE buf[j]]

-----------------------------------------------------------------------------
Init ==
  /\ reqs = <<>> /\ net = <<>> /\ peerClosed = FALSE
  /\ unread = 0 /\ replies = <<>>
  /\ pc = "loop" /\ open = TRUE
  /\ m_recvBufLen = MaxBufSize
  /\ m_hasRecvLen = 0
  /\ m_recvBuf = [j \in 1 .. MaxBufSize |-> Junk]
  /\ m_recvQueue = <<RecvRequest(MaxBufSize, 0)>>
  /\ errno = "other"

InFlight == Len(SelectSeq(reqs, LAMBDA r : r.kind \in Replying)) - Len(replies)

(* The client writes one request; TCP delivers its bytes in any pieces.    *)
ClientSend(size, kind) ==
  /\ ~peerClosed
  /\ Len(reqs) < MaxRequests
  /\ InFlight < MaxInFlight
  /\ reqs' = Append(reqs, [size |-> size, kind |-> kind])
  /\ net' = net \o Frame(Len(reqs) + 1, size)
  /\ UNCHANGED <<peerClosed, unread, replies, pc, open,
                 m_recvBuf, m_recvBufLen, m_hasRecvLen, m_recvQueue, errno>>

ClientRead ==
  /\ unread > 0
  /\ unread' = 0
  /\ UNCHANGED <<reqs, net, peerClosed, replies, pc, open,
                 m_recvBuf, m_recvBufLen, m_hasRecvLen, m_recvQueue, errno>>

ClientClose ==
  /\ ~peerClosed
  /\ peerClosed' = TRUE
  /\ UNCHANGED <<reqs, net, unread, replies, pc, open,
                 m_recvBuf, m_recvBufLen, m_hasRecvLen, m_recvQueue, errno>>

-----------------------------------------------------------------------------
(* recvCallBack with nNumberOfBytes > 0, up to sendAndWait.                *)

PrefixIncomplete(buf, has) ==
  /\ has < IntSize
  /\ m_recvBuf' = buf
  /\ m_hasRecvLen' = has
  /\ Rearm(m_recvBufLen, has)
  /\ UNCHANGED <<m_recvBufLen, pc>>

FrameIncomplete(buf, has) ==
  /\ has >= IntSize
  /\ has < AllSize(buf)
  /\ m_recvBufLen' = GrownLen(AllSize(buf))
  /\ m_recvBuf' = Grown(buf, m_recvBufLen')
  /\ m_hasRecvLen' = has
  /\ Rearm(m_recvBufLen', has)
  /\ UNCHANGED pc

(* No handler for the apiKey: the frame is dropped without an answer.      *)
UnknownKey(buf, has) ==
  LET all == AllSize(buf) IN
  /\ has >= IntSize /\ has >= all
  /\ KindOf(buf) = "unknown"
  /\ m_recvBufLen' = GrownLen(all)
  /\ m_recvBuf' = MemMoved(Grown(buf, m_recvBufLen'), has, all)
  /\ m_hasRecvLen' = has - all
  /\ Rearm(m_recvBufLen', has - all)
  /\ UNCHANGED pc

(* The frame is handled, or refused for its version: m_sendBuf is filled   *)
(* and the callback enters sendAndWait.                                    *)
Handled(buf, has) ==
  LET all == AllSize(buf) IN
  /\ has >= IntSize /\ has >= all
  /\ KindOf(buf) # "unknown"
  /\ m_recvBufLen' = GrownLen(all)
  /\ m_recvBuf' = Grown(buf, m_recvBufLen')
  /\ m_hasRecvLen' = has
  /\ pc' = "send"
  /\ UNCHANGED m_recvQueue

(* EPOLLIN is registered while a receive request is queued.                *)
Receiving == open /\ pc = "loop" /\ m_recvQueue # <<>>

RecvData ==
  /\ Receiving
  /\ \E n \in 1 .. Head(m_recvQueue).len :
       /\ n <= Len(net)
       /\ net' = SubSeq(net, n + 1, Len(net))
       /\ LET buf == Received(Head(m_recvQueue), n)
              has == m_hasRecvLen + n
          IN \/ PrefixIncomplete(buf, has)
             \/ FrameIncomplete(buf, has)
             \/ UnknownKey(buf, has)
             \/ Handled(buf, has)
  /\ UNCHANGED <<reqs, peerClosed, unread, replies, open, errno>>

(* The thread calls recv or accept where there is nothing to return, for   *)
(* this descriptor or another one, or a call of its fails for good.        *)
CallFails ==
  /\ open /\ pc = "loop"
  /\ errno' \in {"EAGAIN", "other"}
  /\ UNCHANGED <<reqs, net, peerClosed, unread, replies, pc, open,
                 m_recvBuf, m_recvBufLen, m_hasRecvLen, m_recvQueue>>

(* The callback unbinds the socket, which drops its queued requests, and   *)
(* closes it.                                                              *)
CloseSession ==
  /\ open' = FALSE
  /\ m_recvQueue' = <<>>
  /\ UNCHANGED <<reqs, net, peerClosed, unread, replies, pc,
                 m_recvBuf, m_recvBufLen, m_hasRecvLen>>

(* recv() returns 0: everything has been received and the client has       *)
(* closed, or the request asks for no bytes.  It does not set errno, which *)
(* loop and callback test: after an EAGAIN nothing happens.                *)
EndOfStream ==
  /\ Receiving
  /\ \/ peerClosed /\ net = <<>>
     \/ Head(m_recvQueue).len = 0 /\ net # <<>>
  /\ errno # "EAGAIN"
  /\ CloseSession
  /\ UNCHANGED errno

(* recv() fails and sets errno: the connection has been reset, which may   *)
(* overtake bytes not yet received.                                        *)
RecvFails ==
  /\ Receiving /\ peerClosed
  /\ CloseSession
  /\ errno' = "other"

(* sendAndWait: poll waits without limit for POLLWRNORM; one send() writes *)
(* what fits and its result is ignored.  On a closed connection poll       *)
(* returns, nothing reaches the client, and send() may have set errno.     *)
Room == SndBuf - unread
Writable == Room >= LowWater
Written == IF ReplySize <= Room THEN ReplySize ELSE Room

SendAndWait ==
  /\ pc = "send"
  /\ LET buf  == m_recvBuf
         all  == AllSize(buf)
         kind == KindOf(buf)
     IN /\ \/ /\ Writable /\ kind \in Replying
              /\ replies' = Append(replies,
                              [corr |-> buf[1][1], kind |-> kind, len |-> Written])
              /\ unread' = unread + Written
              /\ UNCHANGED errno
           \/ /\ Writable /\ kind \notin Replying
              /\ UNCHANGED <<replies, unread, errno>>
           \/ /\ peerClosed
              /\ errno' \in {errno, "other"}
              /\ UNCHANGED <<replies, unread>>
        /\ m_recvBuf' = MemMoved(buf, m_hasRecvLen, all)
        /\ m_hasRecvLen' = m_hasRecvLen - all
        /\ Rearm(m_recvBufLen, m_hasRecvLen - all)
  /\ pc' = "loop"
  /\ UNCHANGED <<reqs, net, peerClosed, open, m_recvBufLen>>

-----------------------------------------------------------------------------
Server == RecvData \/ EndOfStream \/ SendAndWait

Next ==
  \/ \E size \in FrameSizes, kind \in Kinds : ClientSend(size, kind)
  \/ ClientRead \/ ClientClose
  \/ Server \/ RecvFails \/ CallFails

Spec == Init /\ [][Next]_vars

(* The epoll thread runs whenever its socket is ready, and a client reads  *)
(* the replies it has been sent.  No connection need be reset.             *)
FairSpec == Spec /\ WF_vars(Server) /\ WF_vars(ClientRead)

-----------------------------------------------------------------------------
Requests == [size : FrameSizes, kind : Kinds]

(* Types and ranges, of the receive buffer above all: m_hasRecvLen never   *)
(* leaves the block it indexes.                                            *)
TypeOK ==
  /\ reqs \in Seq(Requests)
  /\ net \in Seq(Nat \X Nat)
  /\ peerClosed \in BOOLEAN /\ open \in BOOLEAN
  /\ unread \in 0 .. SndBuf
  /\ replies \in Seq([corr : Nat, kind : Kinds, len : Nat])
  /\ pc \in {"loop", "send"}
  /\ m_recvBufLen \in Nat /\ m_hasRecvLen \in 0 .. m_recvBufLen
  /\ m_recvBuf \in [1 .. m_recvBufLen -> Nat \X Nat]
  /\ m_recvQueue \in Seq([base : Nat, off : Nat, len : Int])
  /\ errno \in {"EAGAIN", "other"}

(* Whenever the epoll thread may complete the receive of an open session   *)
(* there is exactly one, it points into the live block right behind the    *)
(* valid bytes and asks for at least one byte: a request for none would    *)
(* make recv() return 0 and the session would take it for the end of the   *)
(* stream.                                                                 *)
PendingRecvWellFormed ==
  open /\ pc = "loop" =>
    /\ m_recvQueue = <<RecvRequest(m_recvBufLen, m_hasRecvLen)>>
    /\ m_hasRecvLen < m_recvBufLen

(* The bytes that are not handled yet: the valid part of the buffer, then  *)
(* what the socket still holds.                                            *)
Unhandled ==
  [j \in 1 .. m_hasRecvLen + Len(net) |->
     IF j <= m_hasRecvLen THEN m_recvBuf[j] ELSE net[j - m_hasRecvLen]]

Successor(b) == IF b[2] < reqs[b[1]].size THEN <<b[1], b[2] + 1>> ELSE <<b[1] + 1, 1>>

(* Framing never loses its place: over any split of the stream into        *)
(* receives, growth of the buffer and moves of its tail, the unhandled     *)
(* bytes start at the first byte of a frame, follow the stream without a   *)
(* gap or a repetition, and end with its last byte.                        *)
BufferIsStreamSegment ==
  Unhandled # <<>> =>
    /\ Unhandled[1][2] = 1
    /\ \A j \in 1 .. Len(Unhandled) - 1 : Unhandled[j + 1] = Successor(Unhandled[j])
    /\ Successor(Unhandled[Len(Unhandled)]) = <<Len(reqs) + 1, 1>>

(* A session closes its socket only after its client has.                  *)
NoFalseClose == ~open => peerClosed

(* "The first 4 bytes give the total length" (ProduceHandle.cpp:85): what  *)
(* goes out of a reply is as long as the reply says it is.  sendAndWait    *)
(* calls send() once, on a socket bindSocket has made non-blocking, and    *)
(* ignores how much it wrote.                                              *)
RepliesWhole == \A i \in DOMAIN replies : replies[i].len = ReplySize

(* readBuf still points to the old block after realloc (Session.cpp:60-65):*)
(* a callback that grows the buffer never goes on to read a frame.         *)
NoParseAfterRealloc ==
  [][m_recvBufLen' # m_recvBufLen =>
       /\ pc' = "loop"
       /\ m_hasRecvLen' < AllSize(m_recvBuf')]_vars

(* The session implements RequestReply: requests are handled exactly once  *)
(* and in order, each reply carries its own request's correlation id, and  *)
(* a reply is dropped only once the client has hung up.                    *)
RR == INSTANCE RequestReply WITH
  sent    <- [i \in DOMAIN reqs |-> reqs[i].kind],
  handled <- IF Unhandled = <<>> THEN Len(reqs) ELSE Unhandled[1][1] - 1,
  replies <- [i \in DOMAIN replies |->
                [corr |-> replies[i].corr, kind |-> replies[i].kind]],
  gone    <- peerClosed

ImplementsRequestReply == RR!Spec

(* Every request that asks for a reply gets it, or its client hangs up.    *)
AnsweredEventually ==
  \A i \in 1 .. MaxRequests :
    (i <= Len(reqs) /\ reqs[i].kind \in Replying)
      ~> (peerClosed \/ \E j \in DOMAIN replies : replies[j].corr = i)

(* The same for a client that never writes a request while the server has  *)
(* one to handle.                                                          *)
OneAtATime == Unhandled # <<>> => Unhandled[1][1] = Len(reqs)

AnsweredOneAtATime == []OneAtATime => AnsweredEventually

(* A session whose client has hung up is closed, even from inside          *)
(* sendAndWait, unless an errno of EAGAIN comes back for ever or stays     *)
(* behind; what the session's own calls leave in errno does no harm.       *)
ClosedEventually == <>[](errno # "EAGAIN") => (peerClosed ~> ~open)

=============================================================================
