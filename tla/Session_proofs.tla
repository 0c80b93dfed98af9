--------------------------- MODULE Session_proofs ---------------------------
(***************************************************************************)
(* The receive buffer of CSession and the receive that points into it, for *)
(* every buffer capacity, prefix size, frame size and reply size.          *)
(***************************************************************************)
EXTENDS Session, SequenceTheorems, TLAPS

(* The bytes of the requests written so far: what recv() can return, and   *)
(* what AllSize and KindOf may be asked about.                             *)
StreamBytes == {b \in Nat \X Nat : b[1] \in 1 .. Len(reqs)}

(* Every byte the framing looks at has been received from the stream, not  *)
(* left behind by malloc or realloc.                                       *)
BytesReceived ==
  /\ net \in Seq(StreamBytes)
  /\ \A j \in 1 .. m_hasRecvLen : m_recvBuf[j] \in StreamBytes

(* The capacity never shrinks; sendAndWait is entered with a whole frame   *)
(* in the buffer and the executed receive still queued.                    *)
FrameFits ==
  /\ m_recvBufLen >= MaxBufSize
  /\ pc = "send" => /\ m_hasRecvLen >= IntSize
                    /\ m_hasRecvLen >= AllSize(m_recvBuf)
                    /\ open /\ Len(m_recvQueue) = 1

IInv == TypeOK /\ BytesReceived /\ FrameFits /\ PendingRecvWellFormed /\ NoFalseClose

-----------------------------------------------------------------------------
(* A byte of the stream belongs to a request, whose size includes the      *)
(* prefix and something more.                                              *)
LEMMA SizeOfFrame ==
  ASSUME TypeOK, NEW buf, buf[1] \in StreamBytes
  PROVE  AllSize(buf) \in Nat /\ AllSize(buf) > IntSize /\ KindOf(buf) \in Kinds
<1>1. buf[1][1] \in 1 .. Len(reqs) /\ reqs \in Seq(Requests)
  BY DEF TypeOK, StreamBytes
<1>2. reqs[buf[1][1]] \in Requests
  BY <1>1, ElementOfSeq
<1>. QED
  BY <1>2, SessionAssumption DEF AllSize, KindOf, Requests

(* Re-arming replaces the executed request by the new one.                 *)
LEMMA RearmQueue ==
  ASSUME NEW cap \in Nat, NEW has \in Nat,
         m_recvQueue \in Seq([base : Nat, off : Nat, len : Int]),
         Len(m_recvQueue) = 1, Rearm(cap, has)
  PROVE  /\ m_recvQueue' = <<RecvRequest(cap, has)>>
         /\ m_recvQueue' \in Seq([base : Nat, off : Nat, len : Int])
<1>. DEFINE Request == [base : Nat, off : Nat, len : Int]
            req == RecvRequest(cap, has)
            new == Tail(Append(m_recvQueue, req))
            one == <<req>>
<1>1. req \in Request
  BY DEF RecvRequest
<1>. HIDE DEF req, Request
<1>2. new \in Seq(Request) /\ Len(new) = 1 /\ new[1] = req
  <2>. DEFINE both == Append(m_recvQueue, req)
  <2>1. both \in Seq(Request) /\ Len(both) = 2 /\ both[2] = req
    <3>1. m_recvQueue \in Seq(Request)
      BY DEF Request
    <3>2. m_recvQueue \in Seq(Request) /\ Len(m_recvQueue) = 1
      BY <3>1
    <3>3. Len(both) = Len(m_recvQueue) + 1 /\ both[Len(m_recvQueue) + 1] = req
      BY ZenonT(40), <1>1, <3>1, AppendProperties
    <3>. QED
      BY <1>1, <3>2, <3>3, AppendProperties
  <2>. HIDE DEF both
  <2>2. both # <<>>
    BY <2>1
  <2>3. Tail(both) \in Seq(Request) /\ Len(Tail(both)) = 1 /\ Tail(both)[1] = req
    <3>. DEFINE rest == Tail(both)
    <3>1. /\ rest \in Seq(Request) /\ Len(rest) = Len(both) - 1
          /\ \A i \in 1 .. Len(rest) : rest[i] = both[i + 1]
      BY <2>1, <2>2, HeadTailProperties
    <3>. HIDE DEF rest
    <3>2. Len(rest) = 1 /\ rest[1] = req
      BY <2>1, <3>1
    <3>. QED
      BY <3>1, <3>2 DEF rest
  <2>. QED
    BY <2>3 DEF both
<1>3. one \in Seq(Request) /\ Len(one) = 1 /\ one[1] = req
  BY <1>1
<1>. HIDE DEF new, one
<1>4. new = one
  <2>1. \A i \in 1 .. Len(new) : new[i] = one[i]
    BY <1>2, <1>3
  <2>. QED
    BY <1>2, <1>3, <2>1, SeqEqual
<1>. QED
  BY <1>2, <1>4 DEF Rearm, new, one, req, Request

(* A new session has an empty buffer and its first receive armed.          *)
LEMMA InitIInv == Init => IInv
<1>. SUFFICES ASSUME Init PROVE IInv
  OBVIOUS
<1>. USE SessionAssumption DEF Init
<1>1. m_recvQueue \in Seq([base : Nat, off : Nat, len : Int])
  BY DEF RecvRequest
<1>2. m_recvBuf \in [1 .. m_recvBufLen -> Nat \X Nat]
  BY DEF Junk
<1>3. m_recvBufLen \in Nat /\ m_hasRecvLen \in 0 .. m_recvBufLen /\ unread \in 0 .. SndBuf
  OBVIOUS
<1>4. reqs \in Seq(Requests) /\ net \in Seq(Nat \X Nat)
      /\ replies \in Seq([corr : Nat, kind : Kinds, len : Nat])
  OBVIOUS
<1>5. TypeOK
  BY <1>1, <1>2, <1>3, <1>4 DEF TypeOK
<1>6. BytesReceived /\ FrameFits /\ PendingRecvWellFormed /\ NoFalseClose
  BY DEF BytesReceived, FrameFits, PendingRecvWellFormed, NoFalseClose, StreamBytes
<1>. QED
  BY <1>5, <1>6 DEF IInv

(* New requests extend the stream; the bytes of older ones keep their      *)
(* meaning.                                                                *)
LEMMA ClientSendStep ==
  ASSUME IInv, NEW size \in FrameSizes, NEW kind \in Kinds, ClientSend(size, kind)
  PROVE  IInv'
<1>. USE SessionAssumption
<1>. DEFINE new == [size |-> size, kind |-> kind]
<1>1. new \in Requests /\ reqs \in Seq(Requests) /\ reqs' = Append(reqs, new)
  BY DEF ClientSend, IInv, TypeOK, Requests
<1>. HIDE DEF new
<1>2. /\ reqs' \in Seq(Requests) /\ Len(reqs') = Len(reqs) + 1
      /\ \A i \in 1 .. Len(reqs) : reqs'[i] = reqs[i]
  BY <1>1
<1>3. StreamBytes \subseteq StreamBytes'
  BY <1>1, <1>2 DEF StreamBytes
<1>4. net' \in Seq(StreamBytes')
  <2>1. Frame(Len(reqs) + 1, size) \in Seq(StreamBytes')
    <3>1. size \in Nat /\ \A k \in 1 .. size : <<Len(reqs) + 1, k>> \in StreamBytes'
      BY <1>1, <1>2 DEF StreamBytes
    <3>. QED
      BY <3>1 DEF Frame
  <2>2. net \in Seq(StreamBytes')
    BY <1>3, SeqMonotonic DEF IInv, BytesReceived
  <2>. QED
    BY <2>1, <2>2 DEF ClientSend
<1>5. /\ net' \in Seq(Nat \X Nat)
  <2>1. StreamBytes' \subseteq Nat \X Nat
    BY DEF StreamBytes
  <2>. QED
    BY <1>4, <2>1, SeqMonotonic
<1>6. UNCHANGED <<peerClosed, unread, replies, pc, open,
                  m_recvBuf, m_recvBufLen, m_hasRecvLen, m_recvQueue, errno>>
  BY DEF ClientSend
<1>7. TypeOK'
  BY <1>2, <1>5, <1>6 DEF IInv, TypeOK
<1>8. BytesReceived'
  BY <1>3, <1>4, <1>6 DEF IInv, BytesReceived
<1>9. m_hasRecvLen >= IntSize => AllSize(m_recvBuf)' = AllSize(m_recvBuf)
  BY <1>2, <1>6 DEF IInv, TypeOK, BytesReceived, StreamBytes, AllSize
<1>10. FrameFits'
  BY <1>6, <1>9 DEF IInv, FrameFits, AllSize
<1>11. PendingRecvWellFormed' /\ NoFalseClose'
  BY <1>6 DEF IInv, PendingRecvWellFormed, NoFalseClose
<1>. QED
  BY <1>7, <1>8, <1>10, <1>11 DEF IInv

(* After the frame at the front is moved out, what is left has been        *)
(* received and the capacity has room for more.                            *)
LEMMA MovedBuffer ==
  ASSUME TypeOK, NEW cap \in Nat, NEW buf \in [1 .. cap -> Nat \X Nat],
         NEW has \in 0 .. cap, \A j \in 1 .. has : buf[j] \in StreamBytes,
         has >= IntSize, has >= AllSize(buf)
  PROVE  /\ AllSize(buf) \in Nat /\ has - AllSize(buf) \in 0 .. cap - 1
         /\ MemMoved(buf, has, AllSize(buf)) \in [1 .. cap -> Nat \X Nat]
         /\ \A j \in 1 .. has - AllSize(buf) :
              MemMoved(buf, has, AllSize(buf))[j] \in StreamBytes
<1>1. AllSize(buf) \in Nat /\ AllSize(buf) > IntSize /\ IntSize \in Nat
  <2>1. buf[1] \in StreamBytes
    BY SessionAssumption
  <2>. QED
    BY <2>1, SizeOfFrame, SessionAssumption
<1>. DEFINE all == AllSize(buf)
            moved == MemMoved(buf, has, all)
<1>2. has - all \in 0 .. cap - 1 /\ all \in Nat /\ has >= all
  BY <1>1
<1>. HIDE DEF all
<1>3. moved = [j \in 1 .. cap |-> IF j <= has - all THEN buf[j + all] ELSE buf[j]]
  BY DEF MemMoved
<1>. HIDE DEF moved
<1>4. \A j \in 1 .. has - all : j \in 1 .. cap /\ j + all \in 1 .. has
  BY <1>2
<1>5. moved \in [1 .. cap -> Nat \X Nat]
  <2>1. \A j \in 1 .. cap : j <= has - all => j + all \in 1 .. cap
    BY <1>2
  <2>. QED
    BY <1>3, <2>1
<1>6. \A j \in 1 .. has - all : moved[j] \in StreamBytes
  BY <1>3, <1>4
<1>. QED
  BY <1>1, <1>2, <1>5, <1>6 DEF all, moved

(* The buffer after n bytes have arrived, and after realloc.               *)
LEMMA ReceivedBuffer ==
  ASSUME TypeOK, BytesReceived, PendingRecvWellFormed, Receiving,
         NEW n \in 1 .. Head(m_recvQueue).len, n <= Len(net)
  PROVE  /\ m_hasRecvLen + n \in 1 .. m_recvBufLen /\ Len(m_recvQueue) = 1
         /\ Received(Head(m_recvQueue), n) \in [1 .. m_recvBufLen -> Nat \X Nat]
         /\ \A j \in 1 .. m_hasRecvLen + n :
              Received(Head(m_recvQueue), n)[j] \in StreamBytes
<1>1. /\ m_recvQueue = <<RecvRequest(m_recvBufLen, m_hasRecvLen)>>
      /\ m_hasRecvLen < m_recvBufLen
  BY DEF Receiving, PendingRecvWellFormed
<1>2. /\ Len(m_recvQueue) = 1
      /\ Head(m_recvQueue) = [base |-> m_recvBufLen, off |-> m_hasRecvLen,
                              len |-> m_recvBufLen - m_hasRecvLen]
  BY <1>1 DEF RecvRequest
<1>3. n \in Nat /\ n >= 1 /\ m_hasRecvLen + n \in 1 .. m_recvBufLen
  BY <1>1, <1>2 DEF TypeOK
<1>4. \A j \in 1 .. n : net[j] \in StreamBytes /\ net[j] \in Nat \X Nat
  BY <1>3 DEF BytesReceived, StreamBytes
<1>5. Received(Head(m_recvQueue), n) =
        [j \in 1 .. m_recvBufLen |->
           IF j \in m_hasRecvLen + 1 .. m_hasRecvLen + n
           THEN net[j - m_hasRecvLen] ELSE m_recvBuf[j]]
  <2>1. Head(m_recvQueue).base = m_recvBufLen /\ Head(m_recvQueue).off = m_hasRecvLen
    BY <1>2
  <2>2. DOMAIN m_recvBuf = 1 .. m_recvBufLen
    BY DEF TypeOK
  <2>. QED
    BY <2>1, <2>2 DEF Received
<1>. DEFINE got == Received(Head(m_recvQueue), n)
            merged == [j \in 1 .. m_recvBufLen |->
                         IF j \in m_hasRecvLen + 1 .. m_hasRecvLen + n
                         THEN net[j - m_hasRecvLen] ELSE m_recvBuf[j]]
<1>6. \A j \in m_hasRecvLen + 1 .. m_hasRecvLen + n : j - m_hasRecvLen \in 1 .. n
  BY <1>3 DEF TypeOK
<1>7. merged \in [1 .. m_recvBufLen -> Nat \X Nat]
  <2>1. \A j \in m_hasRecvLen + 1 .. m_hasRecvLen + n : net[j - m_hasRecvLen] \in Nat \X Nat
    BY <1>4, <1>6
  <2>2. m_recvBuf \in [1 .. m_recvBufLen -> Nat \X Nat]
    BY DEF TypeOK
  <2>. QED
    BY <2>1, <2>2
<1>8. ASSUME NEW j \in 1 .. m_hasRecvLen + n PROVE merged[j] \in StreamBytes
  <2>1. j \in 1 .. m_recvBufLen /\ m_hasRecvLen \in Nat
    BY <1>3 DEF TypeOK
  <2>2. CASE j \in m_hasRecvLen + 1 .. m_hasRecvLen + n
    BY <1>4, <1>6, <2>1, <2>2
  <2>3. CASE j \notin m_hasRecvLen + 1 .. m_hasRecvLen + n
    <3>1. j \in 1 .. m_hasRecvLen
      BY <1>3, <2>1, <2>3
    <3>. QED
      BY <2>1, <2>3, <3>1 DEF BytesReceived
  <2>. QED
    BY <2>2, <2>3
<1>. QED
  BY <1>2, <1>3, <1>5, <1>7, <1>8

(* realloc keeps the valid bytes and makes room for the whole frame.       *)
LEMMA GrownBuffer ==
  ASSUME TypeOK, NEW buf \in [1 .. m_recvBufLen -> Nat \X Nat],
         NEW has \in 1 .. m_recvBufLen, \A j \in 1 .. has : buf[j] \in StreamBytes
  PROVE  LET cap == GrownLen(AllSize(buf)) IN
         /\ cap \in Nat /\ cap >= m_recvBufLen /\ cap >= AllSize(buf)
         /\ Grown(buf, cap) \in [1 .. cap -> Nat \X Nat]
         /\ \A j \in 1 .. has : Grown(buf, cap)[j] = buf[j]
<1>1. AllSize(buf) \in Nat
  <2>1. buf[1] \in StreamBytes
    OBVIOUS
  <2>. QED
    BY <2>1, SizeOfFrame
<1>. QED
  BY SMTT(30), <1>1 DEF GrownLen, Grown, Junk, TypeOK

(* What recv() leaves in the socket is the end of what was there.          *)
LEMMA SubSeqOfStream ==
  ASSUME NEW S, NEW seq \in Seq(S), NEW n \in 1 .. Len(seq) + 1
  PROVE  SubSeq(seq, n, Len(seq)) \in Seq(S)
<1>1. \A i \in n .. Len(seq) : seq[i] \in S
  OBVIOUS
<1>. QED
  BY <1>1, SubSeqProperties

(* A callback that ends with a re-armed receive keeps the invariant.       *)
LEMMA BackInLoop ==
  ASSUME IInv, open, UNCHANGED <<reqs, peerClosed, open>>,
         net' \in Seq(StreamBytes), unread' \in 0 .. SndBuf,
         replies' \in Seq([corr : Nat, kind : Kinds, len : Nat]),
         pc' = "loop",
         m_recvBufLen' \in Nat, m_recvBufLen' >= MaxBufSize,
         m_hasRecvLen' \in Nat, m_hasRecvLen' < m_recvBufLen',
         m_recvBuf' \in [1 .. m_recvBufLen' -> Nat \X Nat],
         \A j \in 1 .. m_hasRecvLen' : m_recvBuf'[j] \in StreamBytes,
         Rearm(m_recvBufLen', m_hasRecvLen'), Len(m_recvQueue) = 1,
         errno' \in {"EAGAIN", "other"}
  PROVE  IInv'
<1>1. m_hasRecvLen' \in 0 .. m_recvBufLen'
  OBVIOUS
<1>2. /\ m_recvQueue' = <<RecvRequest(m_recvBufLen', m_hasRecvLen')>>
      /\ m_recvQueue' \in Seq([base : Nat, off : Nat, len : Int])
  BY <1>1, RearmQueue DEF IInv, TypeOK
<1>3. StreamBytes' = StreamBytes
  BY DEF StreamBytes
<1>4. net' \in Seq(Nat \X Nat)
  BY SeqMonotonic DEF StreamBytes
<1>5. TypeOK'
  BY <1>1, <1>2, <1>4 DEF IInv, TypeOK
<1>6. BytesReceived'
  BY <1>3 DEF BytesReceived
<1>7. FrameFits'
  BY DEF FrameFits
<1>8. PendingRecvWellFormed' /\ NoFalseClose'
  BY <1>1, <1>2 DEF PendingRecvWellFormed, NoFalseClose
<1>. QED
  BY <1>5, <1>6, <1>7, <1>8 DEF IInv

(* Each of the four outcomes of recvCallBack for received bytes keeps the  *)
(* invariant.                                                              *)
LEMMA RecvDataStep == ASSUME IInv, RecvData PROVE IInv'
<1>. USE SessionAssumption
<1>1. PICK n \in 1 .. Head(m_recvQueue).len :
        /\ n <= Len(net)
        /\ net' = SubSeq(net, n + 1, Len(net))
        /\ \/ PrefixIncomplete(Received(Head(m_recvQueue), n), m_hasRecvLen + n)
           \/ FrameIncomplete(Received(Head(m_recvQueue), n), m_hasRecvLen + n)
           \/ UnknownKey(Received(Head(m_recvQueue), n), m_hasRecvLen + n)
           \/ Handled(Received(Head(m_recvQueue), n), m_hasRecvLen + n)
  BY DEF RecvData
<1>. DEFINE buf == Received(Head(m_recvQueue), n)
            has == m_hasRecvLen + n
            all == AllSize(buf)
            cap == GrownLen(AllSize(buf))
<1>2. /\ Receiving /\ UNCHANGED <<reqs, peerClosed, unread, replies, open>>
      /\ open /\ pc = "loop" /\ errno' = errno /\ errno \in {"EAGAIN", "other"}
  BY DEF RecvData, Receiving, IInv, TypeOK
<1>3. /\ has \in 1 .. m_recvBufLen /\ Len(m_recvQueue) = 1
      /\ buf \in [1 .. m_recvBufLen -> Nat \X Nat]
      /\ \A j \in 1 .. has : buf[j] \in StreamBytes
  BY <1>1, <1>2, ReceivedBuffer DEF IInv
<1>4. /\ cap \in Nat /\ cap >= m_recvBufLen /\ cap >= all
      /\ Grown(buf, cap) \in [1 .. cap -> Nat \X Nat]
      /\ \A j \in 1 .. has : Grown(buf, cap)[j] = buf[j]
  BY <1>3, GrownBuffer DEF IInv
<1>5. all \in Nat /\ all > IntSize
  BY <1>3, SizeOfFrame DEF IInv
<1>6. net' \in Seq(StreamBytes) /\ net' \in Seq(Nat \X Nat) /\ StreamBytes' = StreamBytes
  <2>1. n \in Nat /\ n + 1 \in 1 .. Len(net) + 1
    BY <1>1, <1>3 DEF IInv, TypeOK
  <2>. QED
    BY <1>1, <1>2, <2>1, SubSeqOfStream DEF IInv, TypeOK, BytesReceived, StreamBytes
<1>7. m_recvBufLen \in Nat /\ m_recvBufLen >= MaxBufSize
  BY DEF IInv, TypeOK, FrameFits
<1>8. (PrefixIncomplete(buf, has) \/ FrameIncomplete(buf, has) \/ UnknownKey(buf, has) \/ Handled(buf, has))
  BY <1>1
<1>. HIDE DEF buf, has, cap, all
<1>9. CASE PrefixIncomplete(buf, has)
  <2>1. /\ m_recvBuf' = buf /\ m_hasRecvLen' = has /\ m_recvBufLen' = m_recvBufLen
        /\ has \in Nat /\ has < m_recvBufLen /\ pc' = "loop" /\ Rearm(m_recvBufLen, has)
    BY <1>2, <1>3, <1>7, <1>9 DEF PrefixIncomplete
  <2>. QED
    BY <1>2, <1>3, <1>6, <1>7, <2>1, BackInLoop DEF IInv, TypeOK
<1>10. CASE FrameIncomplete(buf, has)
  <2>1. /\ m_recvBufLen' = cap /\ m_recvBuf' = Grown(buf, cap) /\ m_hasRecvLen' = has
        /\ has < all /\ pc' = "loop" /\ Rearm(cap, has)
    BY <1>2, <1>10 DEF FrameIncomplete, cap, all
  <2>2. /\ has \in Nat /\ has < cap /\ cap >= MaxBufSize
        /\ \A j \in 1 .. has : Grown(buf, cap)[j] \in StreamBytes
    BY SMTT(30), <1>3, <1>4, <1>5, <1>7, <2>1
  <2>. QED
    BY <1>2, <1>3, <1>4, <1>6, <2>1, <2>2, BackInLoop DEF IInv, TypeOK
<1>11. CASE UnknownKey(buf, has)
  <2>1. /\ has >= IntSize /\ has >= all /\ pc' = "loop"
        /\ m_recvBufLen' = cap /\ m_recvBuf' = MemMoved(Grown(buf, cap), has, all)
        /\ m_hasRecvLen' = has - all /\ Rearm(cap, has - all)
    BY <1>2, <1>11 DEF UnknownKey, cap, all
  <2>2. AllSize(Grown(buf, cap)) = all
    BY <1>3, <1>4 DEF AllSize, all
  <2>3. /\ has - all \in 0 .. cap - 1
        /\ m_recvBuf' \in [1 .. cap -> Nat \X Nat]
        /\ \A j \in 1 .. has - all : m_recvBuf'[j] \in StreamBytes
    <3>1. has \in 0 .. cap /\ \A j \in 1 .. has : Grown(buf, cap)[j] \in StreamBytes
      BY <1>3, <1>4, <1>7
    <3>. QED
      BY <1>4, <2>1, <2>2, <3>1, MovedBuffer DEF IInv
  <2>4. /\ cap >= MaxBufSize /\ has - all \in Nat /\ has - all < cap
    BY <1>4, <1>7, <2>3
  <2>. QED
    BY <1>2, <1>3, <1>4, <1>6, <2>1, <2>3, <2>4, BackInLoop DEF IInv, TypeOK
<1>12. CASE Handled(buf, has)
  <2>1. /\ has >= IntSize /\ has >= all /\ pc' = "send"
        /\ m_recvBufLen' = cap /\ m_recvBuf' = Grown(buf, cap)
        /\ m_hasRecvLen' = has /\ m_recvQueue' = m_recvQueue
    BY <1>12 DEF Handled, cap, all
  <2>2. AllSize(m_recvBuf)' = all
    <3>1. m_recvBuf'[1] = buf[1]
      BY <1>3, <1>4, <2>1
    <3>. QED
      BY <1>2, <3>1 DEF AllSize, all
  <2>3. /\ cap >= MaxBufSize /\ has \in 0 .. cap
        /\ \A j \in 1 .. has : Grown(buf, cap)[j] \in StreamBytes
    BY <1>3, <1>4, <1>7
  <2>4. TypeOK'
    BY <1>2, <1>4, <1>6, <2>1, <2>3 DEF IInv, TypeOK
  <2>5. BytesReceived'
    BY <1>6, <2>1, <2>3 DEF BytesReceived
  <2>6. FrameFits'
    BY <1>2, <1>3, <2>1, <2>2, <2>3 DEF FrameFits
  <2>7. PendingRecvWellFormed' /\ NoFalseClose'
    BY <1>2, <2>1 DEF PendingRecvWellFormed, NoFalseClose
  <2>. QED
    BY <2>4, <2>5, <2>6, <2>7 DEF IInv
<1>. QED
  BY <1>8, <1>9, <1>10, <1>11, <1>12

(* An armed receive always asks for bytes, so only the client's end of     *)
(* stream, or a reset of its connection, closes the session.               *)
LEMMA CloseSessionStep ==
  ASSUME IInv, EndOfStream \/ RecvFails
  PROVE  IInv'
<1>1. peerClosed
  <2>1. Receiving => Head(m_recvQueue).len # 0
    BY DEF Receiving, IInv, TypeOK, PendingRecvWellFormed, RecvRequest
  <2>. QED
    BY <2>1 DEF EndOfStream, RecvFails
<1>2. /\ open' = FALSE /\ m_recvQueue' = <<>> /\ pc = "loop"
      /\ UNCHANGED <<reqs, net, peerClosed, unread, replies, pc,
                     m_recvBuf, m_recvBufLen, m_hasRecvLen>>
      /\ errno' \in {"EAGAIN", "other"}
  BY DEF EndOfStream, RecvFails, CloseSession, Receiving, IInv, TypeOK
<1>3. TypeOK'
  <2>1. <<>> \in Seq([base : Nat, off : Nat, len : Int])
    BY EmptySeq
  <2>. QED
    BY <1>2, <2>1 DEF IInv, TypeOK
<1>4. BytesReceived'
  BY <1>2 DEF IInv, BytesReceived, StreamBytes
<1>5. FrameFits' /\ PendingRecvWellFormed' /\ NoFalseClose'
  BY <1>1, <1>2 DEF IInv, FrameFits, PendingRecvWellFormed, NoFalseClose
<1>. QED
  BY <1>3, <1>4, <1>5 DEF IInv

(* After sendAndWait the frame is moved out and the receive re-armed       *)
(* behind the rest.                                                        *)
LEMMA SendAndWaitStep == ASSUME IInv, SendAndWait PROVE IInv'
<1>. USE SessionAssumption
<1>. DEFINE all == AllSize(m_recvBuf)
<1>1. /\ pc = "send" /\ pc' = "loop"
      /\ m_recvBuf' = MemMoved(m_recvBuf, m_hasRecvLen, all)
      /\ m_hasRecvLen' = m_hasRecvLen - all
      /\ Rearm(m_recvBufLen, m_hasRecvLen - all)
      /\ UNCHANGED <<reqs, net, peerClosed, open, m_recvBufLen>>
  BY DEF SendAndWait
<1>2. /\ m_hasRecvLen >= IntSize /\ m_hasRecvLen >= all
      /\ Len(m_recvQueue) = 1 /\ open
      /\ m_recvBuf[1] \in StreamBytes
  BY <1>1 DEF IInv, TypeOK, FrameFits, BytesReceived
<1>3. /\ replies' \in Seq([corr : Nat, kind : Kinds, len : Nat]) /\ unread' \in 0 .. SndBuf
      /\ errno' \in {"EAGAIN", "other"}
  <2>0. errno' \in {"EAGAIN", "other"}
    BY DEF SendAndWait, IInv, TypeOK
  <2>1. CASE UNCHANGED <<replies, unread>>
    BY <2>0, <2>1 DEF IInv, TypeOK
  <2>2. CASE /\ Writable
             /\ replies' = Append(replies, [corr |-> m_recvBuf[1][1],
                                            kind |-> KindOf(m_recvBuf), len |-> Written])
             /\ unread' = unread + Written
    <3>1. Written \in Nat /\ unread' \in 0 .. SndBuf
      BY <2>2 DEF IInv, TypeOK, Written, Room
    <3>2. m_recvBuf[1][1] \in Nat /\ KindOf(m_recvBuf) \in Kinds
      BY <1>2, SizeOfFrame DEF IInv, StreamBytes
    <3>. QED
      BY <2>0, <2>2, <3>1, <3>2 DEF IInv, TypeOK
  <2>. QED
    BY <2>0, <2>1, <2>2 DEF SendAndWait
<1>. HIDE DEF all
<1>4. /\ all \in Nat /\ m_hasRecvLen - all \in 0 .. m_recvBufLen - 1
      /\ m_recvBuf' \in [1 .. m_recvBufLen -> Nat \X Nat]
      /\ \A j \in 1 .. m_hasRecvLen - all : m_recvBuf'[j] \in StreamBytes
  BY <1>1, <1>2, MovedBuffer DEF all, IInv, TypeOK, BytesReceived
<1>5. net' \in Seq(StreamBytes) /\ m_recvBufLen \in Nat /\ m_recvBufLen >= MaxBufSize
  BY <1>1 DEF IInv, TypeOK, BytesReceived, FrameFits
<1>6. Rearm(m_recvBufLen, m_hasRecvLen - all)
  BY <1>1 DEF all
<1>. QED
  BY <1>1, <1>2, <1>3, <1>4, <1>5, <1>6, BackInLoop DEF all

-----------------------------------------------------------------------------
(* The invariant holds initially and is kept by every step of the client   *)
(* and of the session.                                                     *)
LEMMA IInvInductive == Spec => []IInv
<1>1. IInv /\ [Next]_vars => IInv'
  <2>. SUFFICES ASSUME IInv, [Next]_vars PROVE IInv'
    OBVIOUS
  <2>1. ASSUME NEW size \in FrameSizes, NEW kind \in Kinds, ClientSend(size, kind)
        PROVE  IInv'
    BY <2>1, ClientSendStep
  <2>2. CASE ClientRead \/ ClientClose \/ CallFails \/ UNCHANGED vars
    <3>1. /\ UNCHANGED <<reqs, net, replies, pc, open,
                         m_recvBuf, m_recvBufLen, m_hasRecvLen, m_recvQueue>>
          /\ unread' \in 0 .. SndBuf /\ peerClosed' \in BOOLEAN
          /\ peerClosed => peerClosed'
          /\ errno' \in {"EAGAIN", "other"}
      <4>1. CASE ClientRead
        BY <4>1, SessionAssumption DEF ClientRead, IInv, TypeOK
      <4>2. CASE ClientClose
        BY <4>2 DEF ClientClose, IInv, TypeOK
      <4>3. CASE CallFails
        BY <4>3 DEF CallFails, IInv, TypeOK
      <4>4. CASE UNCHANGED vars
        BY <4>4 DEF vars, IInv, TypeOK
      <4>. QED
        BY <2>2, <4>1, <4>2, <4>3, <4>4
    <3>2. TypeOK'
      BY <3>1 DEF IInv, TypeOK
    <3>3. BytesReceived' /\ FrameFits'
      BY <3>1 DEF IInv, BytesReceived, StreamBytes, FrameFits, AllSize
    <3>4. PendingRecvWellFormed' /\ NoFalseClose'
      BY <3>1 DEF IInv, PendingRecvWellFormed, NoFalseClose
    <3>. QED
      BY <3>2, <3>3, <3>4 DEF IInv
  <2>3. CASE Server \/ RecvFails
    BY <2>3, RecvDataStep, CloseSessionStep, SendAndWaitStep DEF Server
  <2>. QED
    BY <2>1, <2>2, <2>3 DEF Next
<1>. QED
  BY <1>1, InitIInv, PTL DEF Spec

(* For every sequence of requests, sizes and splits of the stream the      *)
(* valid bytes stay inside the receive buffer.                             *)
THEOREM TypeCorrect == Spec => []TypeOK
BY IInvInductive, PTL DEF IInv

(* The outstanding receive always points right behind the valid bytes of   *)
(* the live block and asks for at least one byte.                          *)
THEOREM RecvStaysArmed == Spec => []PendingRecvWellFormed
BY IInvInductive, PTL DEF IInv

(* The server closes a session only after its client has hung up: no size  *)
(* of buffer or frame makes it take a full buffer for the end of stream.   *)
THEOREM ClosedByClient == Spec => []NoFalseClose
BY IInvInductive, PTL DEF IInv

-----------------------------------------------------------------------------
(* recvCallBack grows the buffer only for a frame that is not complete: a  *)
(* complete one already fits, so readBuf is not used after realloc.        *)
LEMMA ReallocStep ==
  ASSUME IInv, RecvData, m_recvBufLen' # m_recvBufLen
  PROVE  pc' = "loop" /\ m_hasRecvLen' < AllSize(m_recvBuf')
<1>. DEFINE buf(n) == Received(Head(m_recvQueue), n)
<1>1. PICK n \in 1 .. Head(m_recvQueue).len :
        /\ n <= Len(net)
        /\ \/ PrefixIncomplete(buf(n), m_hasRecvLen + n)
           \/ FrameIncomplete(buf(n), m_hasRecvLen + n)
           \/ UnknownKey(buf(n), m_hasRecvLen + n)
           \/ Handled(buf(n), m_hasRecvLen + n)
  BY DEF RecvData
<1>. DEFINE has == m_hasRecvLen + n
            all == AllSize(buf(n))
            cap == GrownLen(all)
<1>2. Receiving /\ pc = "loop"
  BY DEF RecvData, Receiving
<1>3. /\ has \in 1 .. m_recvBufLen
      /\ buf(n) \in [1 .. m_recvBufLen -> Nat \X Nat]
      /\ \A j \in 1 .. has : buf(n)[j] \in StreamBytes
  BY <1>1, <1>2, ReceivedBuffer DEF IInv
<1>4. \A j \in 1 .. has : Grown(buf(n), cap)[j] = buf(n)[j]
  BY <1>3, GrownBuffer DEF IInv
<1>5. all \in Nat /\ m_recvBufLen \in Nat
  <2>1. buf(n)[1] \in StreamBytes
    BY <1>3
  <2>. QED
    BY <2>1, SizeOfFrame DEF IInv, TypeOK
<1>6. has >= all => GrownLen(all) = m_recvBufLen
  BY <1>3, <1>5 DEF GrownLen
<1>7. FrameIncomplete(buf(n), has)
  BY <1>1, <1>6 DEF PrefixIncomplete, UnknownKey, Handled
<1>8. /\ pc' = "loop" /\ m_hasRecvLen' = has /\ has < all
      /\ m_recvBuf' = Grown(buf(n), cap)
  BY <1>2, <1>7 DEF FrameIncomplete
<1>9. m_recvBuf'[1] = buf(n)[1]
  BY <1>3, <1>4, <1>8
<1>. QED
  BY <1>8, <1>9 DEF AllSize

(* However the frames and their pieces arrive, a callback that moves the   *)
(* receive buffer with realloc returns to the loop with an incomplete      *)
(* frame and never parses through the old pointer.                         *)
THEOREM ReallocIsLast == Spec => NoParseAfterRealloc
<1>. DEFINE Step == m_recvBufLen' # m_recvBufLen =>
                      pc' = "loop" /\ m_hasRecvLen' < AllSize(m_recvBuf')
<1>1. IInv /\ [Next]_vars => [Step]_vars
  <2>. SUFFICES ASSUME IInv, Next, m_recvBufLen' # m_recvBufLen PROVE Step
    BY DEF vars
  <2>1. RecvData
    BY DEF Next, Server, ClientSend, ClientRead, ClientClose, CallFails,
           EndOfStream, RecvFails, CloseSession, SendAndWait
  <2>. QED
    BY <2>1, ReallocStep
<1>. QED
  BY <1>1, IInvInductive, PTL DEF Spec, NoParseAfterRealloc

=============================================================================
