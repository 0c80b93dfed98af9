------------------------ MODULE Session_refinement ------------------------
(***************************************************************************)
(* The framing of CSession keeps its place, for every stream of requests   *)
(* and every split of it into receives, and with that a session implements *)
(* RequestReply: each request is handled exactly once, in order.           *)
(***************************************************************************)
EXTENDS Session_proofs

(* u[1], ..., u[n] is the end of the stream of the requests rs, from the   *)
(* first byte of one of them.  Stated for every byte of a frame from every *)
(* other one, not from one byte to the next, so that a whole frame can be  *)
(* taken off in one step.                                                  *)
StartsFrame(u, n) == n > 0 => u[1][2] = 1

InRequests(u, n, rs) ==
  \A j \in 1 .. n : /\ u[j] \in Nat \X Nat
                    /\ u[j][1] \in 1 .. Len(rs)
                    /\ u[j][2] \in 1 .. rs[u[j][1]].size

FramesWhole(u, n, rs) ==
  \A j \in 1 .. n, d \in Nat : u[j][2] + d <= rs[u[j][1]].size =>
    j + d <= n /\ u[j + d] = <<u[j][1], u[j][2] + d>>

FramesInOrder(u, n, rs) ==
  \A j \in 1 .. n : u[j][2] = rs[u[j][1]].size =>
    IF j = n THEN u[j][1] = Len(rs) ELSE u[j + 1] = <<u[j][1] + 1, 1>>

Segment(u, n, rs) ==
  StartsFrame(u, n) /\ InRequests(u, n, rs) /\ FramesWhole(u, n, rs) /\ FramesInOrder(u, n, rs)

UnhandledLen == m_hasRecvLen + Len(net)

SInv == Segment(Unhandled, UnhandledLen, reqs)

-----------------------------------------------------------------------------
(* A frame has its prefix and something more.                              *)
LEMMA RequestSize ==
  ASSUME NEW r \in Requests
  PROVE  r.size \in Nat /\ r.size > 0 /\ r.kind \in Kinds
<1>1. r.size \in FrameSizes /\ r.kind \in Kinds
  BY DEF Requests
<1>2. r.size > IntSize /\ r.size \in Nat
  BY <1>1, SessionAssumption
<1>3. IntSize \in Nat /\ IntSize > 0
  BY SessionAssumption
<1>. QED
  BY <1>1, <1>2, <1>3

(* Taking the frame at the front off.                                      *)
LEMMA DropFrame ==
  ASSUME NEW rs \in Seq(Requests), NEW n \in Nat, n > 0, NEW u, Segment(u, n, rs),
         NEW all \in Nat, rs[u[1][1]].size = all,
         NEW v, \A j \in 1 .. n - all : v[j] = u[j + all]
  PROVE  /\ all \in 1 .. n
         /\ Segment(v, n - all, rs)
         /\ IF n - all = 0 THEN u[1][1] = Len(rs) ELSE v[1][1] = u[1][1] + 1
<1>1. /\ u[1] \in Nat \X Nat /\ u[1][1] \in 1 .. Len(rs) /\ u[1][2] = 1 /\ 1 <= all
  BY DEF Segment, StartsFrame, InRequests
<1>3. all <= n /\ u[all] = <<u[1][1], all>>
  <2>1. all - 1 \in Nat /\ u[1][2] + (all - 1) <= rs[u[1][1]].size
    BY <1>1
  <2>2. 1 \in 1 .. n
    OBVIOUS
  <2>3. 1 + (all - 1) <= n /\ u[1 + (all - 1)] = <<u[1][1], u[1][2] + (all - 1)>>
    BY <2>1, <2>2 DEF Segment, FramesWhole
  <2>4. 1 + (all - 1) = all
    OBVIOUS
  <2>. QED
    BY <1>1, <2>3, <2>4
<1>4. all \in 1 .. n
  BY <1>1, <1>3
<1>5. IF n - all = 0 THEN u[1][1] = Len(rs) ELSE u[all + 1] = <<u[1][1] + 1, 1>>
  <2>1. u[all][1] = u[1][1] /\ u[all][2] = rs[u[all][1]].size
    BY <1>3
  <2>2. IF all = n THEN u[all][1] = Len(rs) ELSE u[all + 1] = <<u[all][1] + 1, 1>>
    BY <1>4, <2>1 DEF Segment, FramesInOrder
  <2>. QED
    BY <1>4, <2>1, <2>2
<1>6. \A j \in 1 .. n - all : j + all \in 1 .. n /\ v[j] = u[j + all]
  BY <1>4
<1>7. n - all > 0 => v[1] = <<u[1][1] + 1, 1>>
  <2>. SUFFICES ASSUME n - all > 0 PROVE v[1] = <<u[1][1] + 1, 1>>
    OBVIOUS
  <2>1. 1 \in 1 .. n - all /\ 1 + all = all + 1 /\ n - all # 0
    BY <1>4
  <2>. QED
    BY <1>5, <1>6, <2>1
<1>8. InRequests(v, n - all, rs)
  BY <1>6 DEF Segment, InRequests
<1>9. FramesWhole(v, n - all, rs)
  <2>. SUFFICES ASSUME NEW j \in 1 .. n - all, NEW d \in Nat,
                       v[j][2] + d <= rs[v[j][1]].size
                PROVE  j + d <= n - all /\ v[j + d] = <<v[j][1], v[j][2] + d>>
    BY DEF FramesWhole
  <2>1. j + all \in 1 .. n /\ v[j] = u[j + all]
    BY <1>6
  <2>2. u[j + all][2] + d <= rs[u[j + all][1]].size
    BY <2>1
  <2>3. (j + all) + d <= n /\ u[(j + all) + d] = <<u[j + all][1], u[j + all][2] + d>>
    BY <2>1, <2>2 DEF Segment, FramesWhole
  <2>4. j + d \in 1 .. n - all /\ (j + d) + all = (j + all) + d
    BY <1>4, <2>3
  <2>. QED
    BY <1>6, <2>1, <2>3, <2>4
<1>10. FramesInOrder(v, n - all, rs)
  <2>. SUFFICES ASSUME NEW j \in 1 .. n - all, v[j][2] = rs[v[j][1]].size
                PROVE  IF j = n - all THEN v[j][1] = Len(rs) ELSE v[j + 1] = <<v[j][1] + 1, 1>>
    BY DEF FramesInOrder
  <2>1. j + all \in 1 .. n /\ v[j] = u[j + all]
    BY <1>6
  <2>2. IF j + all = n THEN v[j][1] = Len(rs) ELSE u[(j + all) + 1] = <<v[j][1] + 1, 1>>
    BY <2>1 DEF Segment, FramesInOrder
  <2>3. CASE j = n - all
    <3>1. j + all = n
      BY <1>4, <2>3
    <3>. QED
      BY <2>2, <2>3, <3>1
  <2>4. CASE j # n - all
    <3>1. j + 1 \in 1 .. n - all /\ (j + 1) + all = (j + all) + 1 /\ j + all # n
      BY <1>4, <2>4
    <3>2. v[j + 1] = u[(j + all) + 1]
      BY <1>6, <3>1
    <3>. QED
      BY <2>2, <2>4, <3>1, <3>2
  <2>. QED
    BY <2>3, <2>4
<1>. QED
  BY <1>4, <1>5, <1>7, <1>8, <1>9, <1>10 DEF Segment, StartsFrame

(* Writing one more request.                                               *)
LEMMA AddFrame ==
  ASSUME NEW rs \in Seq(Requests), NEW new \in Requests, NEW n \in Nat,
         NEW u, Segment(u, n, rs),
         NEW v, \A j \in 1 .. n : v[j] = u[j],
         \A k \in 1 .. new.size : v[n + k] = <<Len(rs) + 1, k>>
  PROVE  Segment(v, n + new.size, Append(rs, new))
<1>. DEFINE more == Append(rs, new)
            m == n + new.size
            last == Len(rs) + 1
<1>1. new.size \in Nat /\ new.size > 0
  BY RequestSize
<1>2. /\ Len(more) = last /\ more[last] = new
      /\ \A i \in 1 .. Len(rs) : more[i] = rs[i]
      /\ Len(rs) \in Nat
  BY AppendProperties
<1>. HIDE DEF more
<1>3. ASSUME NEW j \in 1 .. n
      PROVE  /\ v[j] = u[j] /\ u[j] \in Nat \X Nat
             /\ u[j][1] \in 1 .. Len(rs) /\ u[j][2] \in 1 .. rs[u[j][1]].size
             /\ more[v[j][1]] = rs[u[j][1]] /\ j \in 1 .. m
  BY <1>1, <1>2 DEF Segment, InRequests
<1>4. ASSUME NEW j \in 1 .. m, j \notin 1 .. n
      PROVE  /\ j - n \in 1 .. new.size
             /\ v[j] = <<last, j - n>> /\ more[v[j][1]] = new
  <2>1. j - n \in 1 .. new.size /\ n + (j - n) = j
    BY <1>1, <1>4
  <2>. QED
    BY <1>2, <2>1
<1>5. StartsFrame(v, m)
  <2>1. CASE n > 0
    BY <1>3, <2>1 DEF Segment, StartsFrame
  <2>2. CASE n = 0
    <3>1. 1 \in 1 .. m /\ 1 \notin 1 .. n
      BY <1>1, <2>2
    <3>. QED
      BY <1>4, <2>2, <3>1 DEF StartsFrame
  <2>. QED
    BY <2>1, <2>2
<1>6. InRequests(v, m, more)
  <2>. SUFFICES ASSUME NEW j \in 1 .. m
                PROVE  /\ v[j] \in Nat \X Nat /\ v[j][1] \in 1 .. Len(more)
                       /\ v[j][2] \in 1 .. more[v[j][1]].size
    BY DEF InRequests
  <2>1. CASE j \in 1 .. n
    <3>1. /\ v[j] \in Nat \X Nat /\ v[j][1] \in 1 .. Len(rs)
          /\ v[j][2] \in 1 .. more[v[j][1]].size
      BY <1>3, <2>1
    <3>. QED
      BY <1>2, <3>1
  <2>2. CASE j \notin 1 .. n
    <3>1. /\ j - n \in 1 .. new.size /\ v[j] = <<last, j - n>>
          /\ more[v[j][1]] = new
      BY <1>4, <2>2
    <3>2. v[j] \in Nat \X Nat /\ v[j][1] = last /\ v[j][2] = j - n /\ last \in 1 .. last
      BY <1>2, <3>1
    <3>. QED
      BY <1>2, <3>1, <3>2
  <2>. QED
    BY <2>1, <2>2
<1>7. FramesWhole(v, m, more)
  <2>. SUFFICES ASSUME NEW j \in 1 .. m, NEW d \in Nat, v[j][2] + d <= more[v[j][1]].size
                PROVE  j + d <= m /\ v[j + d] = <<v[j][1], v[j][2] + d>>
    BY DEF FramesWhole
  <2>1. CASE j \in 1 .. n
    <3>1. u[j][2] + d <= rs[u[j][1]].size
      BY <1>3, <2>1
    <3>2. j + d <= n /\ u[j + d] = <<u[j][1], u[j][2] + d>>
      BY <2>1, <3>1 DEF Segment, FramesWhole
    <3>3. j + d \in 1 .. n
      BY <2>1, <3>2
    <3>. QED
      BY <1>1, <1>3, <2>1, <3>2, <3>3
  <2>2. CASE j \notin 1 .. n
    <3>1. (j - n) + d <= new.size
      BY <1>4, <2>2
    <3>2. j + d \in 1 .. m /\ j + d \notin 1 .. n /\ (j + d) - n = (j - n) + d
      BY <1>1, <1>4, <2>2, <3>1
    <3>. QED
      BY SMTT(30), <1>4, <2>2, <3>2
  <2>. QED
    BY <2>1, <2>2
<1>8. FramesInOrder(v, m, more)
  <2>. SUFFICES ASSUME NEW j \in 1 .. m, v[j][2] = more[v[j][1]].size
                PROVE  IF j = m THEN v[j][1] = Len(more) ELSE v[j + 1] = <<v[j][1] + 1, 1>>
    BY DEF FramesInOrder
  <2>1. CASE j \in 1 .. n
    <3>1. IF j = n THEN u[j][1] = Len(rs) ELSE u[j + 1] = <<u[j][1] + 1, 1>>
      BY <1>3, <2>1 DEF Segment, FramesInOrder
    <3>2. CASE j = n
      <4>1. j + 1 \in 1 .. m /\ j + 1 \notin 1 .. n /\ (j + 1) - n = 1 /\ j # m
        BY <1>1, <3>2
      <4>. QED
        BY <1>3, <1>4, <2>1, <3>1, <3>2, <4>1
    <3>3. CASE j # n
      <4>1. j + 1 \in 1 .. n /\ j # m
        BY <1>1, <2>1, <3>3
      <4>. QED
        BY <1>3, <2>1, <3>1, <3>3, <4>1
    <3>. QED
      BY <3>2, <3>3
  <2>2. CASE j \notin 1 .. n
    <3>1. j - n = new.size
      BY <1>4, <2>2
    <3>2. j = m
      BY <1>1, <3>1
    <3>. QED
      BY <1>2, <1>4, <2>2, <3>2
  <2>. QED
    BY <2>1, <2>2
<1>. QED
  BY <1>5, <1>6, <1>7, <1>8 DEF Segment, more

(* The same bytes in another place.                                        *)
LEMMA SameBytes ==
  ASSUME NEW n \in Nat, NEW rs, NEW u, Segment(u, n, rs),
         NEW v, \A j \in 1 .. n : v[j] = u[j]
  PROVE  Segment(v, n, rs)
<1>1. n > 0 => 1 \in 1 .. n
  OBVIOUS
<1>2. StartsFrame(v, n) /\ InRequests(v, n, rs)
  BY <1>1 DEF Segment, StartsFrame, InRequests
<1>3. FramesWhole(v, n, rs)
  <2>. SUFFICES ASSUME NEW j \in 1 .. n, NEW d \in Nat, v[j][2] + d <= rs[v[j][1]].size
                PROVE  j + d <= n /\ v[j + d] = <<v[j][1], v[j][2] + d>>
    BY DEF FramesWhole
  <2>1. j + d <= n /\ u[j + d] = <<u[j][1], u[j][2] + d>>
    BY DEF Segment, FramesWhole
  <2>2. j + d \in 1 .. n
    BY <2>1
  <2>. QED
    BY <2>1, <2>2
<1>4. FramesInOrder(v, n, rs)
  <2>. SUFFICES ASSUME NEW j \in 1 .. n, v[j][2] = rs[v[j][1]].size
                PROVE  IF j = n THEN v[j][1] = Len(rs) ELSE v[j + 1] = <<v[j][1] + 1, 1>>
    BY DEF FramesInOrder
  <2>1. j # n => j + 1 \in 1 .. n
    OBVIOUS
  <2>. QED
    BY <2>1 DEF Segment, FramesInOrder
<1>. QED
  BY <1>2, <1>3, <1>4 DEF Segment

-----------------------------------------------------------------------------
(* What a step can do to the bytes that are not handled yet.               *)
StreamStays ==
  /\ UnhandledLen' = UnhandledLen
  /\ \A j \in 1 .. UnhandledLen : Unhandled'[j] = Unhandled[j]

StreamDrops ==
  /\ UnhandledLen > 0
  /\ reqs[Unhandled[1][1]].size \in 1 .. UnhandledLen
  /\ UnhandledLen' = UnhandledLen - reqs[Unhandled[1][1]].size
  /\ \A j \in 1 .. UnhandledLen - reqs[Unhandled[1][1]].size :
       Unhandled'[j] = Unhandled[j + reqs[Unhandled[1][1]].size]

(* The unhandled bytes are a sequence of bytes of requests.                *)
LEMMA UnhandledSeq ==
  ASSUME TypeOK
  PROVE  /\ UnhandledLen \in Nat /\ m_hasRecvLen \in Nat /\ Len(net) \in Nat
         /\ Unhandled \in Seq(Nat \X Nat) /\ Len(Unhandled) = UnhandledLen
         /\ \A j \in 1 .. UnhandledLen :
              Unhandled[j] = IF j <= m_hasRecvLen THEN m_recvBuf[j] ELSE net[j - m_hasRecvLen]
<1>1. /\ m_hasRecvLen \in Nat /\ m_recvBufLen \in Nat /\ m_hasRecvLen <= m_recvBufLen
      /\ net \in Seq(Nat \X Nat) /\ m_recvBuf \in [1 .. m_recvBufLen -> Nat \X Nat]
  BY DEF TypeOK
<1>2. Len(net) \in Nat /\ \A i \in 1 .. Len(net) : net[i] \in Nat \X Nat
  BY <1>1, LenProperties, ElementOfSeq
<1>3. UnhandledLen \in Nat
  BY <1>1, <1>2 DEF UnhandledLen
<1>. DEFINE byte(j) == IF j <= m_hasRecvLen THEN m_recvBuf[j] ELSE net[j - m_hasRecvLen]
<1>4. ASSUME NEW j \in 1 .. UnhandledLen PROVE byte(j) \in Nat \X Nat
  <2>1. CASE j <= m_hasRecvLen
    <3>1. j \in 1 .. m_recvBufLen
      BY <1>1, <1>3, <2>1
    <3>. QED
      BY <1>1, <2>1, <3>1
  <2>2. CASE ~ (j <= m_hasRecvLen)
    <3>1. j - m_hasRecvLen \in 1 .. Len(net)
      BY <1>1, <1>2, <2>2 DEF UnhandledLen
    <3>. QED
      BY <1>2, <2>2, <3>1
  <2>. QED
    BY <2>1, <2>2
<1>5. Unhandled = [j \in 1 .. UnhandledLen |-> byte(j)]
  BY DEF Unhandled, UnhandledLen
<1>. HIDE DEF byte
<1>6. Unhandled \in Seq(Nat \X Nat) /\ Len(Unhandled) = UnhandledLen
  BY <1>3, <1>4, <1>5
<1>7. \A j \in 1 .. UnhandledLen : Unhandled[j] = byte(j)
  BY <1>5
<1>. QED
  BY <1>1, <1>2, <1>3, <1>6, <1>7 DEF byte

(* The client's next request goes to the end.                              *)
LEMMA ClientSendStream ==
  ASSUME IInv, IInv', NEW size \in FrameSizes, NEW kind \in Kinds, ClientSend(size, kind)
  PROVE  /\ UnhandledLen' = UnhandledLen + size
         /\ \A j \in 1 .. UnhandledLen : Unhandled'[j] = Unhandled[j]
         /\ \A k \in 1 .. size : Unhandled'[UnhandledLen + k] = <<Len(reqs) + 1, k>>
<1>. DEFINE frame == Frame(Len(reqs) + 1, size)
<1>1. size \in Nat /\ Len(reqs) \in Nat /\ net \in Seq(Nat \X Nat)
  BY SessionAssumption DEF IInv, TypeOK
<1>2. /\ frame \in Seq(Nat \X Nat) /\ Len(frame) = size
      /\ \A k \in 1 .. size : frame[k] = <<Len(reqs) + 1, k>>
  BY <1>1 DEF Frame
<1>3. net' = net \o frame /\ UNCHANGED <<m_hasRecvLen, m_recvBuf>>
  BY DEF ClientSend
<1>. HIDE DEF frame
<1>4. /\ Len(net') = Len(net) + size
      /\ \A i \in 1 .. Len(net) : net'[i] = net[i]
      /\ \A k \in 1 .. size : net'[Len(net) + k] = frame[k]
      /\ Len(net) \in Nat
  <2>1. \A i \in 1 .. Len(net) + size :
          (net \o frame)[i] = IF i <= Len(net) THEN net[i] ELSE frame[i - Len(net)]
    BY <1>1, <1>2, ConcatProperties
  <2>2. Len(net \o frame) = Len(net) + size /\ Len(net) \in Nat
    BY <1>1, <1>2, ConcatProperties, LenProperties
  <2>3. ASSUME NEW k \in 1 .. size PROVE (net \o frame)[Len(net) + k] = frame[k]
    <3>1. /\ Len(net) + k \in 1 .. Len(net) + size /\ ~ (Len(net) + k <= Len(net))
          /\ (Len(net) + k) - Len(net) = k
      BY <1>1, <2>2
    <3>. QED
      BY <2>1, <3>1
  <2>4. ASSUME NEW i \in 1 .. Len(net) PROVE (net \o frame)[i] = net[i]
    <3>1. i \in 1 .. Len(net) + size /\ i <= Len(net)
      BY <1>1, <2>2
    <3>. QED
      BY <2>1, <3>1
  <2>. QED
    BY <1>3, <2>2, <2>3, <2>4
<1>5. /\ UnhandledLen \in Nat /\ m_hasRecvLen \in Nat
      /\ \A j \in 1 .. UnhandledLen :
           Unhandled[j] = IF j <= m_hasRecvLen THEN m_recvBuf[j] ELSE net[j - m_hasRecvLen]
  BY UnhandledSeq DEF IInv
<1>6. \A j \in 1 .. UnhandledLen' :
        Unhandled'[j] = IF j <= m_hasRecvLen' THEN m_recvBuf'[j] ELSE net'[j - m_hasRecvLen']
  BY DEF Unhandled, UnhandledLen
<1>7. UnhandledLen' = UnhandledLen + size
  BY <1>1, <1>3, <1>4, <1>5 DEF UnhandledLen
<1>8. ASSUME NEW j \in 1 .. UnhandledLen PROVE Unhandled'[j] = Unhandled[j]
  <2>1. j \in 1 .. UnhandledLen'
    BY <1>1, <1>5, <1>7
  <2>2. ~ (j <= m_hasRecvLen) => j - m_hasRecvLen \in 1 .. Len(net)
    BY <1>4, <1>5 DEF UnhandledLen
  <2>. QED
    BY <1>3, <1>4, <1>5, <1>6, <2>1, <2>2
<1>9. ASSUME NEW k \in 1 .. size PROVE Unhandled'[UnhandledLen + k] = <<Len(reqs) + 1, k>>
  <2>1. /\ UnhandledLen + k \in 1 .. UnhandledLen' /\ ~ (UnhandledLen + k <= m_hasRecvLen)
        /\ (UnhandledLen + k) - m_hasRecvLen = Len(net) + k
    BY <1>1, <1>4, <1>5, <1>7 DEF UnhandledLen
  <2>. QED
    BY <1>2, <1>3, <1>4, <1>6, <2>1
<1>. QED
  BY <1>7, <1>8, <1>9

(* Received bytes follow the valid ones in the buffer and leave the socket.*)
LEMMA ReceivedStream ==
  ASSUME IInv, Receiving, NEW n \in 1 .. Head(m_recvQueue).len, n <= Len(net),
         SubSeq(net, n + 1, Len(net)) = net'
  PROVE  /\ Len(net') \in Nat /\ (m_hasRecvLen + n) + Len(net') = UnhandledLen
         /\ \A j \in 1 .. UnhandledLen :
              Unhandled[j] = IF j <= m_hasRecvLen + n
                             THEN Received(Head(m_recvQueue), n)[j]
                             ELSE net'[j - (m_hasRecvLen + n)]
<1>1. /\ m_recvQueue = <<RecvRequest(m_recvBufLen, m_hasRecvLen)>>
      /\ m_hasRecvLen \in Nat /\ m_recvBufLen \in Nat /\ net \in Seq(Nat \X Nat)
      /\ DOMAIN m_recvBuf = 1 .. m_recvBufLen
  BY DEF Receiving, IInv, TypeOK, PendingRecvWellFormed
<1>2. Head(m_recvQueue) = [base |-> m_recvBufLen, off |-> m_hasRecvLen,
                           len |-> m_recvBufLen - m_hasRecvLen]
  BY <1>1 DEF RecvRequest
<1>3. n \in Nat /\ n >= 1 /\ Len(net) \in Nat /\ n \in 1 .. m_recvBufLen - m_hasRecvLen
  BY <1>1, <1>2
<1>4. \A j \in 1 .. m_hasRecvLen + n :
        /\ j \in 1 .. m_recvBufLen
        /\ Received(Head(m_recvQueue), n)[j] =
             IF j <= m_hasRecvLen THEN m_recvBuf[j] ELSE net[j - m_hasRecvLen]
  <2>1. Received(Head(m_recvQueue), n) =
          [j \in 1 .. m_recvBufLen |->
             IF j \in m_hasRecvLen + 1 .. m_hasRecvLen + n
             THEN net[j - m_hasRecvLen] ELSE m_recvBuf[j]]
    <3>1. Head(m_recvQueue).base = m_recvBufLen /\ Head(m_recvQueue).off = m_hasRecvLen
      BY <1>2
    <3>. QED
      BY <1>1, <3>1 DEF Received
  <2>. HIDE DEF Received
  <2>. QED
    BY SMTT(30), <1>1, <1>3, <2>1
<1>5. /\ Len(net') = Len(net) - n
      /\ \A i \in 1 .. Len(net) - n : net'[i] = net[n + i]
  <2>1. \A i \in n + 1 .. Len(net) : net[i] \in Nat \X Nat
    BY <1>1, <1>3
  <2>2. n + 1 \in Int /\ Len(net) \in Int /\ n + 1 <= Len(net) + 1
    BY <1>3
  <2>3. Len(SubSeq(net, n + 1, Len(net))) = Len(net) - n
    BY <1>3, <2>1, <2>2, SubSeqProperties
  <2>4. ASSUME NEW i \in 1 .. Len(net) - n
        PROVE  SubSeq(net, n + 1, Len(net))[i] = net[n + i]
    <3>1. i \in 1 .. Len(net) - (n + 1) + 1 /\ (n + 1) + i - 1 = n + i
      BY <1>3
    <3>. QED
      BY <2>1, <2>2, <3>1, SubSeqProperties
  <2>. QED
    BY <2>3, <2>4
<1>6. (m_hasRecvLen + n) + Len(net') = UnhandledLen /\ Len(net') \in Nat /\ UnhandledLen \in Nat
  <2>1. Len(net) - n \in Nat /\ m_hasRecvLen + Len(net) \in Nat
        /\ (m_hasRecvLen + n) + (Len(net) - n) = m_hasRecvLen + Len(net)
    BY <1>1, <1>3
  <2>. QED
    BY <1>5, <2>1 DEF UnhandledLen
<1>7. \A j \in 1 .. UnhandledLen :
        Unhandled[j] = IF j <= m_hasRecvLen THEN m_recvBuf[j] ELSE net[j - m_hasRecvLen]
  BY DEF Unhandled, UnhandledLen
<1>8. ASSUME NEW j \in 1 .. UnhandledLen
      PROVE  Unhandled[j] = IF j <= m_hasRecvLen + n
                            THEN Received(Head(m_recvQueue), n)[j]
                            ELSE net'[j - (m_hasRecvLen + n)]
  <2>1. CASE j <= m_hasRecvLen + n
    <3>1. j \in 1 .. m_hasRecvLen + n
      BY <1>1, <1>3, <2>1
    <3>. QED
      BY <1>4, <1>7, <2>1, <3>1
  <2>2. CASE ~ (j <= m_hasRecvLen + n)
    <3>1. /\ j - (m_hasRecvLen + n) \in 1 .. Len(net) - n
          /\ n + (j - (m_hasRecvLen + n)) = j - m_hasRecvLen
          /\ ~ (j <= m_hasRecvLen)
      BY <1>1, <1>3, <2>2 DEF UnhandledLen
    <3>. QED
      BY <1>5, <1>7, <2>2, <3>1
  <2>. QED
    BY <2>1, <2>2
<1>. QED
  BY <1>6, <1>8

(* A receive that ends before a frame does leaves the stream alone; so does*)
(* one that completes a frame to be answered; one for an unknown apiKey    *)
(* drops its frame.                                                        *)
LEMMA RecvDataStream ==
  ASSUME IInv, RecvData
  PROVE  StreamStays \/ (StreamDrops /\ reqs[Unhandled[1][1]].kind = "unknown")
<1>. USE SessionAssumption
<1>1. PICK n \in 1 .. Head(m_recvQueue).len :
        /\ n <= Len(net)
        /\ net' = SubSeq(net, n + 1, Len(net))
        /\ \/ PrefixIncomplete(Received(Head(m_recvQueue), n), m_hasRecvLen + n)
           \/ FrameIncomplete(Received(Head(m_recvQueue), n), m_hasRecvLen + n)
           \/ UnknownKey(Received(Head(m_recvQueue), n), m_hasRecvLen + n)
           \/ Handled(Received(Head(m_recvQueue), n), m_hasRecvLen + n)
  BY DEF RecvData
<1>. DEFINE buf == Received(Head(m_recvQueue), n)
            has == m_hasRecvLen + n
            all == AllSize(buf)
            cap == GrownLen(AllSize(buf))
<1>2. Receiving /\ SubSeq(net, n + 1, Len(net)) = net'
  BY <1>1 DEF RecvData
<1>3. /\ has \in 1 .. m_recvBufLen
      /\ buf \in [1 .. m_recvBufLen -> Nat \X Nat]
      /\ \A j \in 1 .. has : buf[j] \in StreamBytes
  BY <1>1, <1>2, ReceivedBuffer DEF IInv
<1>4. /\ cap \in Nat /\ cap >= m_recvBufLen
      /\ Grown(buf, cap) \in [1 .. cap -> Nat \X Nat]
      /\ \A j \in 1 .. has : Grown(buf, cap)[j] = buf[j]
  BY <1>3, GrownBuffer DEF IInv
<1>5. all \in Nat /\ all > IntSize
  BY <1>3, SizeOfFrame DEF IInv
<1>6. /\ Len(net') \in Nat /\ has + Len(net') = UnhandledLen
      /\ \A j \in 1 .. UnhandledLen :
           Unhandled[j] = IF j <= has THEN buf[j] ELSE net'[j - has]
  BY <1>1, <1>2, ReceivedStream
<1>7. /\ UnhandledLen' = m_hasRecvLen' + Len(net')
      /\ \A j \in 1 .. UnhandledLen' :
           Unhandled'[j] = IF j <= m_hasRecvLen' THEN m_recvBuf'[j]
                           ELSE net'[j - m_hasRecvLen']
  BY DEF Unhandled, UnhandledLen
<1>8. \/ PrefixIncomplete(buf, has) \/ FrameIncomplete(buf, has)
      \/ UnknownKey(buf, has) \/ Handled(buf, has)
  BY <1>1
<1>9. has \in Nat /\ has > 0 /\ m_recvBufLen \in Nat
  BY <1>3 DEF IInv, TypeOK
<1>11. KindOf(buf) = reqs[buf[1][1]].kind /\ all = reqs[buf[1][1]].size
  BY DEF KindOf, AllSize
<1>. HIDE DEF buf, has, cap, all
<1>12. ASSUME m_hasRecvLen' = has, \A j \in 1 .. has : m_recvBuf'[j] = buf[j]
       PROVE  StreamStays
  <2>1. UnhandledLen' = UnhandledLen
    BY <1>6, <1>7, <1>12
  <2>2. ASSUME NEW j \in 1 .. UnhandledLen PROVE Unhandled'[j] = Unhandled[j]
    <3>1. j \in 1 .. UnhandledLen' /\ (j <= has => j \in 1 .. has)
      BY <1>9, <2>1
    <3>. QED
      BY <1>6, <1>7, <1>12, <3>1
  <2>. QED
    BY <2>1, <2>2 DEF StreamStays
<1>13. CASE PrefixIncomplete(buf, has)
  BY <1>12, <1>13 DEF PrefixIncomplete
<1>14. CASE FrameIncomplete(buf, has)
  <2>1. m_recvBuf' = Grown(buf, cap) /\ m_hasRecvLen' = has
    BY <1>14 DEF FrameIncomplete, cap
  <2>. QED
    BY <1>4, <1>12, <2>1
<1>15. CASE Handled(buf, has)
  <2>1. m_recvBuf' = Grown(buf, cap) /\ m_hasRecvLen' = has
    BY <1>15 DEF Handled, cap
  <2>. QED
    BY <1>4, <1>12, <2>1
<1>16. CASE UnknownKey(buf, has)
  <2>1. /\ has >= all /\ KindOf(buf) = "unknown"
        /\ m_recvBuf' = MemMoved(Grown(buf, cap), has, all)
        /\ m_hasRecvLen' = has - all
    BY <1>16 DEF UnknownKey, cap, all
  <2>2. UnhandledLen \in Nat /\ all \in 1 .. UnhandledLen
    BY <1>5, <1>6, <1>9, <2>1
  <2>3. UnhandledLen' = UnhandledLen - all
    BY <1>5, <1>6, <1>7, <1>9, <2>1
  <2>4. Unhandled[1] = buf[1]
    <3>1. 1 \in 1 .. UnhandledLen /\ 1 <= has
      BY <1>9, <2>2
    <3>. QED
      BY <1>6, <3>1
  <2>5. \A j \in 1 .. UnhandledLen :
          Unhandled[j] = IF j <= has THEN Grown(buf, cap)[j] ELSE net'[j - has]
    <3>1. \A j \in 1 .. UnhandledLen : j <= has => j \in 1 .. has
      BY <1>9
    <3>. QED
      BY <1>4, <1>6, <3>1
  <2>6. \A j \in 1 .. UnhandledLen - all :
          Unhandled[j + all] = IF j <= has - all THEN m_recvBuf'[j] ELSE net'[j - (has - all)]
    <3>. DEFINE grown == Grown(buf, cap)
    <3>1. \A j \in 1 .. has - all : m_recvBuf'[j] = grown[j + all]
      <4>1. has \in 0 .. cap /\ all <= has
        BY <1>3, <1>4, <1>5, <1>9, <2>1
      <4>. QED
        BY <1>4, <1>5, <2>1, <4>1 DEF MemMoved
    <3>. HIDE DEF grown
    <3>. SUFFICES ASSUME NEW j \in 1 .. UnhandledLen - all
                  PROVE  Unhandled[j + all] = IF j <= has - all THEN m_recvBuf'[j]
                                              ELSE net'[j - (has - all)]
      OBVIOUS
    <3>2. /\ j + all \in 1 .. UnhandledLen /\ (j + all <= has <=> j <= has - all)
          /\ (j + all) - has = j - (has - all)
          /\ (j <= has - all => j \in 1 .. has - all)
      BY <1>5, <1>9, <2>2
    <3>. QED
      BY <2>5, <3>1, <3>2 DEF grown
  <2>7. reqs[Unhandled[1][1]].size = all /\ reqs[Unhandled[1][1]].kind = "unknown"
    BY <1>11, <2>1, <2>4
  <2>8. \A j \in 1 .. UnhandledLen - all : Unhandled'[j] = Unhandled[j + all]
    BY <1>7, <2>1, <2>3, <2>6
  <2>9. UnhandledLen > 0
    BY <2>2
  <2>. QED
    BY <2>2, <2>3, <2>7, <2>8, <2>9 DEF StreamDrops
<1>. QED
  BY <1>8, <1>13, <1>14, <1>15, <1>16

(* sendAndWait takes the frame it answers off the front.                   *)
LEMMA SendAndWaitStream ==
  ASSUME IInv, SendAndWait
  PROVE  StreamDrops /\ Unhandled[1] = m_recvBuf[1]
<1>. USE SessionAssumption
<1>. DEFINE all == AllSize(m_recvBuf)
<1>1. /\ pc = "send" /\ net' = net
      /\ m_recvBuf' = MemMoved(m_recvBuf, m_hasRecvLen, all)
      /\ m_hasRecvLen' = m_hasRecvLen - all
  BY DEF SendAndWait
<1>2. /\ m_hasRecvLen \in 0 .. m_recvBufLen /\ m_hasRecvLen \in Nat /\ m_recvBufLen \in Nat
      /\ DOMAIN m_recvBuf = 1 .. m_recvBufLen
      /\ m_hasRecvLen >= IntSize /\ m_hasRecvLen >= all
      /\ m_recvBuf[1] \in StreamBytes
  BY <1>1 DEF IInv, TypeOK, FrameFits, BytesReceived
<1>3. all \in Nat /\ all > IntSize
  BY <1>2, SizeOfFrame DEF IInv
<1>4. /\ UnhandledLen \in Nat /\ UnhandledLen = m_hasRecvLen + Len(net) /\ Len(net) \in Nat
      /\ \A j \in 1 .. UnhandledLen :
           Unhandled[j] = IF j <= m_hasRecvLen THEN m_recvBuf[j] ELSE net[j - m_hasRecvLen]
  BY UnhandledSeq DEF IInv, UnhandledLen
<1>5. /\ UnhandledLen' = m_hasRecvLen' + Len(net')
      /\ \A j \in 1 .. UnhandledLen' :
           Unhandled'[j] = IF j <= m_hasRecvLen' THEN m_recvBuf'[j]
                           ELSE net'[j - m_hasRecvLen']
  BY DEF Unhandled, UnhandledLen
<1>6. all = reqs[m_recvBuf[1][1]].size
  BY DEF AllSize
<1>. HIDE DEF all
<1>7. /\ all \in 1 .. UnhandledLen /\ UnhandledLen \in Nat /\ UnhandledLen > 0
      /\ Unhandled[1] = m_recvBuf[1]
  <2>1. all \in 1 .. UnhandledLen /\ UnhandledLen > 0 /\ 1 \in 1 .. UnhandledLen
        /\ 1 <= m_hasRecvLen
    BY <1>2, <1>3, <1>4
  <2>. QED
    BY <1>4, <2>1
<1>8. UnhandledLen' = UnhandledLen - all
  BY <1>1, <1>2, <1>3, <1>4, <1>5
<1>9. \A j \in 1 .. UnhandledLen - all :
        Unhandled[j + all] = IF j <= m_hasRecvLen - all THEN m_recvBuf'[j]
                             ELSE net[j - (m_hasRecvLen - all)]
  <2>1. \A j \in 1 .. m_hasRecvLen - all : m_recvBuf'[j] = m_recvBuf[j + all]
    BY <1>1, <1>2, <1>3 DEF MemMoved
  <2>. SUFFICES ASSUME NEW j \in 1 .. UnhandledLen - all
                PROVE  Unhandled[j + all] = IF j <= m_hasRecvLen - all THEN m_recvBuf'[j]
                                            ELSE net[j - (m_hasRecvLen - all)]
    OBVIOUS
  <2>2. /\ j + all \in 1 .. UnhandledLen /\ (j + all <= m_hasRecvLen <=> j <= m_hasRecvLen - all)
        /\ (j + all) - m_hasRecvLen = j - (m_hasRecvLen - all)
        /\ (j <= m_hasRecvLen - all => j \in 1 .. m_hasRecvLen - all)
    BY <1>2, <1>3, <1>7
  <2>. QED
    BY <1>4, <2>1, <2>2
<1>10. \A j \in 1 .. UnhandledLen - all : Unhandled'[j] = Unhandled[j + all]
  BY <1>1, <1>5, <1>8, <1>9
<1>. QED
  BY <1>6, <1>7, <1>8, <1>10 DEF StreamDrops

-----------------------------------------------------------------------------
(* The requests handled so far, as RequestReply counts them.               *)
HandledCount == IF Unhandled = <<>> THEN Len(reqs) ELSE Unhandled[1][1] - 1

LEMMA EmptyUnhandled == TypeOK => (UnhandledLen \in Nat /\ (Unhandled = <<>> <=> UnhandledLen = 0))
<1>. SUFFICES ASSUME TypeOK PROVE UnhandledLen \in Nat /\ (Unhandled = <<>> <=> UnhandledLen = 0)
  OBVIOUS
<1>1. UnhandledLen \in Nat /\ Unhandled \in Seq(Nat \X Nat) /\ Len(Unhandled) = UnhandledLen
  BY UnhandledSeq
<1>2. \A s \in Seq(Nat \X Nat) : s = <<>> <=> Len(s) = 0
  <2>1. Len(<<>>) = 0 /\ \A s \in Seq(Nat \X Nat) : s # <<>> => Len(s) \in Nat \ {0}
    BY EmptySeq
  <2>. QED
    BY <2>1
<1>. QED
  BY <1>1, <1>2

LEMMA EmptyUnhandledNext == ASSUME IInv' PROVE (Unhandled = <<>> <=> UnhandledLen = 0)'
<1>1. TypeOK'
  BY DEF IInv
<1>. QED
  BY <1>1, EmptyUnhandled, PTL

(* Steps that leave the stream alone.                                      *)
LEMMA StaysSInv ==
  ASSUME IInv, IInv', SInv, StreamStays, reqs' = reqs
  PROVE  SInv' /\ HandledCount' = HandledCount
<1>1. UnhandledLen \in Nat /\ (Unhandled = <<>> <=> UnhandledLen = 0)
  BY EmptyUnhandled DEF IInv
<1>2. Unhandled' = <<>> <=> UnhandledLen' = 0
  BY EmptyUnhandledNext
<1>3. UnhandledLen' = UnhandledLen /\ \A j \in 1 .. UnhandledLen : Unhandled'[j] = Unhandled[j]
  BY DEF StreamStays
<1>4. SInv'
  BY <1>1, <1>3, SameBytes DEF SInv
<1>5. HandledCount' = HandledCount
  <2>1. UnhandledLen > 0 => 1 \in 1 .. UnhandledLen
    BY <1>1
  <2>. QED
    BY <1>1, <1>2, <1>3, <2>1 DEF HandledCount
<1>. QED
  BY <1>4, <1>5

(* Steps that take the first frame off.                                    *)
LEMMA DropsSInv ==
  ASSUME IInv, IInv', SInv, StreamDrops, reqs' = reqs
  PROVE  /\ SInv' /\ HandledCount' = HandledCount + 1
         /\ HandledCount < Len(reqs) /\ HandledCount \in Nat
         /\ Unhandled[1][1] = HandledCount + 1
<1>. DEFINE all == reqs[Unhandled[1][1]].size
<1>1. UnhandledLen \in Nat /\ (Unhandled = <<>> <=> UnhandledLen = 0)
  BY EmptyUnhandled DEF IInv
<1>2. Unhandled' = <<>> <=> UnhandledLen' = 0
  BY EmptyUnhandledNext
<1>3. /\ UnhandledLen > 0 /\ all \in 1 .. UnhandledLen
      /\ UnhandledLen' = UnhandledLen - all
      /\ \A j \in 1 .. UnhandledLen - all : Unhandled'[j] = Unhandled[j + all]
  BY DEF StreamDrops
<1>4. reqs \in Seq(Requests) /\ Len(reqs) \in Nat
  BY LenProperties DEF IInv, TypeOK
<1>5. Unhandled[1] \in Nat \X Nat /\ Unhandled[1][1] \in 1 .. Len(reqs)
  <2>1. 1 \in 1 .. UnhandledLen
    BY <1>1, <1>3
  <2>. QED
    BY <2>1 DEF SInv, Segment, InRequests
<1>. HIDE DEF all
<1>6. /\ Segment(Unhandled', UnhandledLen - all, reqs)
      /\ IF UnhandledLen - all = 0 THEN Unhandled[1][1] = Len(reqs)
         ELSE Unhandled'[1][1] = Unhandled[1][1] + 1
  <2>1. Segment(Unhandled, UnhandledLen, reqs) /\ reqs[Unhandled[1][1]].size = all
        /\ all \in Nat
    BY <1>1, <1>3 DEF SInv, all
  <2>. QED
    <3>1. PICK u : u = Unhandled
      OBVIOUS
    <3>2. PICK v : v = Unhandled'
      OBVIOUS
    <3>3. PICK n : n = UnhandledLen
      OBVIOUS
    <3>4. n \in Nat /\ n > 0 /\ Segment(u, n, reqs) /\ reqs[u[1][1]].size = all
      BY <1>1, <1>3, <2>1, <3>1, <3>3
    <3>5. \A j \in 1 .. n - all : v[j] = u[j + all]
      BY <1>3, <3>1, <3>2, <3>3
    <3>6. /\ Segment(v, n - all, reqs)
          /\ IF n - all = 0 THEN u[1][1] = Len(reqs) ELSE v[1][1] = u[1][1] + 1
      BY <1>4, <2>1, <3>4, <3>5, DropFrame
    <3>. QED
      BY <3>1, <3>2, <3>3, <3>6
<1>7. SInv'
  BY <1>3, <1>6 DEF SInv
<1>8. HandledCount = Unhandled[1][1] - 1
  BY <1>1, <1>3 DEF HandledCount
<1>9. HandledCount' = HandledCount + 1
  BY <1>2, <1>3, <1>5, <1>6, <1>8 DEF HandledCount
<1>. QED
  BY <1>4, <1>5, <1>7, <1>8, <1>9

(* A new request is not handled yet.                                       *)
LEMMA ClientSendSInv ==
  ASSUME IInv, IInv', SInv, NEW size \in FrameSizes, NEW kind \in Kinds,
         ClientSend(size, kind)
  PROVE  SInv' /\ HandledCount' = HandledCount
<1>. DEFINE new == [size |-> size, kind |-> kind]
<1>1. UnhandledLen \in Nat /\ (Unhandled = <<>> <=> UnhandledLen = 0)
  BY EmptyUnhandled DEF IInv
<1>2. Unhandled' = <<>> <=> UnhandledLen' = 0
  BY EmptyUnhandledNext
<1>3. /\ UnhandledLen' = UnhandledLen + size
      /\ \A j \in 1 .. UnhandledLen : Unhandled'[j] = Unhandled[j]
      /\ \A k \in 1 .. size : Unhandled'[UnhandledLen + k] = <<Len(reqs) + 1, k>>
  BY ClientSendStream
<1>4. new \in Requests /\ new.size = size /\ size \in Nat /\ size > 0
  <2>1. new \in Requests /\ new.size = size
    BY DEF Requests
  <2>. QED
    BY <2>1, RequestSize
<1>5. reqs \in Seq(Requests) /\ Len(reqs) \in Nat
  BY LenProperties DEF IInv, TypeOK
<1>6. reqs' = Append(reqs, new)
  BY DEF ClientSend
<1>. HIDE DEF new
<1>7. SInv'
  <2>1. Segment(Unhandled', UnhandledLen + new.size, Append(reqs, new))
    BY <1>1, <1>3, <1>4, <1>5, AddFrame DEF SInv
  <2>. QED
    BY <1>3, <1>4, <1>6, <2>1 DEF SInv
<1>8. HandledCount' = HandledCount
  <2>1. Unhandled' # <<>>
    BY <1>1, <1>2, <1>3, <1>4
  <2>2. CASE UnhandledLen = 0
    <3>1. 1 \in 1 .. size /\ UnhandledLen + 1 = 1
      BY <1>4, <2>2
    <3>2. Unhandled'[1] = <<Len(reqs) + 1, 1>>
      BY <1>3, <3>1
    <3>. QED
      BY <1>1, <1>5, <2>1, <2>2, <3>2 DEF HandledCount
  <2>3. CASE UnhandledLen # 0
    <3>1. 1 \in 1 .. UnhandledLen
      BY <1>1, <2>3
    <3>. QED
      BY <1>1, <1>3, <2>1, <2>3, <3>1 DEF HandledCount
  <2>. QED
    BY <2>2, <2>3
<1>. QED
  BY <1>7, <1>8

(* Everything else leaves the buffer and the socket's bytes alone.         *)
LEMMA QuietStream ==
  ASSUME UNCHANGED <<net, m_recvBuf, m_hasRecvLen>>
  PROVE  StreamStays
BY DEF StreamStays, Unhandled, UnhandledLen

LEMMA InitSInv == Init => SInv
<1>. SUFFICES ASSUME Init PROVE SInv
  OBVIOUS
<1>1. UnhandledLen = 0
  BY DEF Init, UnhandledLen
<1>. QED
  BY <1>1 DEF SInv, Segment, StartsFrame, InRequests, FramesWhole, FramesInOrder

LEMMA SInvStep == ASSUME IInv, IInv', SInv, [Next]_vars PROVE SInv'
<1>1. ASSUME NEW size \in FrameSizes, NEW kind \in Kinds, ClientSend(size, kind)
      PROVE  SInv'
  BY <1>1, ClientSendSInv
<1>2. CASE ClientRead \/ ClientClose \/ EndOfStream \/ RecvFails \/ CallFails \/ UNCHANGED vars
  <2>1. UNCHANGED <<reqs, net, m_recvBuf, m_hasRecvLen>>
    BY <1>2 DEF ClientRead, ClientClose, EndOfStream, RecvFails, CloseSession, CallFails, vars
  <2>. QED
    BY <2>1, QuietStream, StaysSInv
<1>3. CASE RecvData
  <2>1. reqs' = reqs
    BY <1>3 DEF RecvData
  <2>. QED
    BY <1>3, <2>1, RecvDataStream, StaysSInv, DropsSInv
<1>4. CASE SendAndWait
  <2>1. reqs' = reqs
    BY <1>4 DEF SendAndWait
  <2>. QED
    BY <1>4, <2>1, SendAndWaitStream, DropsSInv
<1>. QED
  BY <1>1, <1>2, <1>3, <1>4 DEF Next, Server

LEMMA SInvInductive == Spec => [](IInv /\ SInv)
<1>1. IInv /\ IInv' /\ SInv /\ [Next]_vars => SInv'
  BY SInvStep
<1>. QED
  BY <1>1, InitSInv, IInvInductive, PTL DEF Spec

(* However the stream is cut into receives, however large the frames: the  *)
(* bytes a session has not handled yet start at a frame, have no gap and   *)
(* no repetition, and end with the last byte its client wrote.             *)
THEOREM FramingKeepsPlace == Spec => []BufferIsStreamSegment
<1>1. IInv /\ SInv => BufferIsStreamSegment
  <2>. SUFFICES ASSUME IInv, SInv, Unhandled # <<>>
                PROVE  /\ Unhandled[1][2] = 1
                       /\ \A j \in 1 .. Len(Unhandled) - 1 :
                            Unhandled[j + 1] = Successor(Unhandled[j])
                       /\ Successor(Unhandled[Len(Unhandled)]) = <<Len(reqs) + 1, 1>>
    BY DEF BufferIsStreamSegment
  <2>1. UnhandledLen \in Nat /\ UnhandledLen > 0 /\ Len(Unhandled) = UnhandledLen
    BY EmptyUnhandled, UnhandledSeq DEF IInv
  <2>2. ASSUME NEW j \in 1 .. UnhandledLen
        PROVE  Successor(Unhandled[j]) =
                 IF j = UnhandledLen THEN <<Len(reqs) + 1, 1>> ELSE Unhandled[j + 1]
    <3>1. /\ Unhandled[j] \in Nat \X Nat /\ Unhandled[j][1] \in 1 .. Len(reqs)
          /\ Unhandled[j][2] \in 1 .. reqs[Unhandled[j][1]].size
      BY DEF SInv, Segment, InRequests
    <3>2. reqs[Unhandled[j][1]].size \in Nat
      BY <3>1, RequestSize, ElementOfSeq DEF IInv, TypeOK
    <3>3. CASE Unhandled[j][2] < reqs[Unhandled[j][1]].size
      <4>1. 1 \in Nat /\ Unhandled[j][2] + 1 <= reqs[Unhandled[j][1]].size
        BY <3>1, <3>2, <3>3
      <4>2. /\ j + 1 <= UnhandledLen
            /\ Unhandled[j + 1] = <<Unhandled[j][1], Unhandled[j][2] + 1>>
        BY <4>1 DEF SInv, Segment, FramesWhole
      <4>. QED
        BY <2>1, <3>3, <4>2 DEF Successor
    <3>4. CASE Unhandled[j][2] = reqs[Unhandled[j][1]].size
      <4>1. IF j = UnhandledLen THEN Unhandled[j][1] = Len(reqs)
            ELSE Unhandled[j + 1] = <<Unhandled[j][1] + 1, 1>>
        BY <3>4 DEF SInv, Segment, FramesInOrder
      <4>2. Successor(Unhandled[j]) = <<Unhandled[j][1] + 1, 1>>
        BY <3>2, <3>4 DEF Successor
      <4>. QED
        BY <4>1, <4>2
    <3>. QED
      BY <3>1, <3>2, <3>3, <3>4
  <2>3. Unhandled[1][2] = 1
    BY <2>1 DEF SInv, Segment, StartsFrame
  <2>4. ASSUME NEW j \in 1 .. UnhandledLen - 1
        PROVE  Unhandled[j + 1] = Successor(Unhandled[j])
    <3>1. j \in 1 .. UnhandledLen /\ j # UnhandledLen
      BY <2>1
    <3>. QED
      BY <2>2, <3>1
  <2>5. UnhandledLen \in 1 .. UnhandledLen
    BY <2>1
  <2>. QED
    BY <2>1, <2>2, <2>3, <2>4, <2>5
<1>. QED
  BY <1>1, SInvInductive, PTL

-----------------------------------------------------------------------------
(* What RequestReply sees of the requests and of the replies.              *)
KindsSent(rs) == [i \in DOMAIN rs |-> rs[i].kind]
RepliesSeen(rs) == [i \in DOMAIN rs |-> [corr |-> rs[i].corr, kind |-> rs[i].kind]]

LEMMA KindsAppend ==
  ASSUME NEW rs \in Seq(Requests), NEW new \in Requests
  PROVE  KindsSent(Append(rs, new)) = Append(KindsSent(rs), new.kind)
<1>. DEFINE more == Append(rs, new)
            a == KindsSent(more)
            b == Append(KindsSent(rs), new.kind)
<1>1. /\ more \in Seq(Requests) /\ Len(more) = Len(rs) + 1 /\ Len(rs) \in Nat
      /\ \A i \in 1 .. Len(rs) : more[i] = rs[i]
      /\ more[Len(rs) + 1] = new
  BY AppendProperties
<1>. HIDE DEF more
<1>2. new.kind \in Kinds /\ \A i \in 1 .. Len(rs) : rs[i].kind \in Kinds
  BY RequestSize, ElementOfSeq
<1>3. \A i \in 1 .. Len(more) : more[i].kind \in Kinds
  BY <1>1, RequestSize, ElementOfSeq
<1>4. /\ KindsSent(rs) \in Seq(Kinds) /\ Len(KindsSent(rs)) = Len(rs)
      /\ \A i \in 1 .. Len(rs) : KindsSent(rs)[i] = rs[i].kind
  BY <1>2 DEF KindsSent
<1>5. /\ a \in Seq(Kinds) /\ Len(a) = Len(rs) + 1
      /\ \A i \in 1 .. Len(rs) + 1 : a[i] = more[i].kind
  BY <1>1, <1>3 DEF KindsSent
<1>6. /\ b \in Seq(Kinds) /\ Len(b) = Len(rs) + 1
      /\ \A i \in 1 .. Len(rs) : b[i] = rs[i].kind
      /\ b[Len(rs) + 1] = new.kind
  BY <1>2, <1>4, AppendProperties
<1>. HIDE DEF a, b
<1>7. \A i \in 1 .. Len(rs) + 1 : a[i] = b[i]
  BY <1>1, <1>5, <1>6
<1>8. a = b
  BY <1>5, <1>6, <1>7, SeqEqual
<1>. QED
  BY <1>8 DEF a, b, more

LEMMA RepliesAppend ==
  ASSUME NEW rs \in Seq([corr : Nat, kind : Kinds, len : Nat]),
         NEW new \in [corr : Nat, kind : Kinds, len : Nat]
  PROVE  RepliesSeen(Append(rs, new)) =
           Append(RepliesSeen(rs), [corr |-> new.corr, kind |-> new.kind])
<1>. DEFINE R == [corr : Nat, kind : Kinds, len : Nat]
            S == [corr : Nat, kind : Kinds]
            seen(r) == [corr |-> r.corr, kind |-> r.kind]
            more == Append(rs, new)
            a == RepliesSeen(more)
            b == Append(RepliesSeen(rs), seen(new))
<1>1. /\ more \in Seq(R) /\ Len(more) = Len(rs) + 1 /\ Len(rs) \in Nat
      /\ \A i \in 1 .. Len(rs) : more[i] = rs[i]
      /\ more[Len(rs) + 1] = new
  BY AppendProperties
<1>2. \A r \in R : seen(r) \in S
  OBVIOUS
<1>3. /\ \A i \in 1 .. Len(rs) : rs[i] \in R
      /\ \A i \in 1 .. Len(more) : more[i] \in R
  BY <1>1, ElementOfSeq
<1>. HIDE DEF more, R, S
<1>4. /\ RepliesSeen(rs) = [i \in 1 .. Len(rs) |-> seen(rs[i])]
      /\ a = [i \in 1 .. Len(more) |-> seen(more[i])]
  BY <1>1, <1>3 DEF RepliesSeen, R
<1>. HIDE DEF seen, a
<1>5. /\ RepliesSeen(rs) \in Seq(S) /\ Len(RepliesSeen(rs)) = Len(rs)
      /\ \A i \in 1 .. Len(rs) : RepliesSeen(rs)[i] = seen(rs[i])
  BY <1>1, <1>2, <1>3, <1>4
<1>6. /\ a \in Seq(S) /\ Len(a) = Len(rs) + 1
      /\ \A i \in 1 .. Len(rs) + 1 : a[i] = seen(more[i])
  BY <1>1, <1>2, <1>3, <1>4
<1>7. /\ b \in Seq(S) /\ Len(b) = Len(rs) + 1
      /\ \A i \in 1 .. Len(rs) : b[i] = seen(rs[i])
      /\ b[Len(rs) + 1] = seen(new)
  <2>1. seen(new) \in S
    BY <1>2 DEF R
  <2>. QED
    BY <1>5, <2>1, AppendProperties
<1>. HIDE DEF b
<1>8. \A i \in 1 .. Len(rs) + 1 : a[i] = b[i]
  BY SMTT(30), <1>1, <1>6, <1>7
<1>9. a = b
  BY <1>6, <1>7, <1>8, SeqEqual
<1>. QED
  BY <1>9 DEF a, b, more, seen

-----------------------------------------------------------------------------
(* RequestReply's steps, in the terms of the session.                      *)
Unsent == UNCHANGED <<KindsSent(reqs), HandledCount, RepliesSeen(replies), peerClosed>>

LEMMA Stutter == Unsent => UNCHANGED RR!vars
BY DEF Unsent, RR!vars, KindsSent, RepliesSeen, HandledCount

LEMMA InitRefines == Init => RR!Init
<1>. SUFFICES ASSUME Init PROVE RR!Init
  OBVIOUS
<1>1. reqs = <<>> /\ replies = <<>> /\ peerClosed = FALSE /\ UnhandledLen = 0
  BY DEF Init, UnhandledLen
<1>2. Unhandled = <<>>
  <2>1. Unhandled = [j \in 1 .. 0 |-> IF j <= m_hasRecvLen THEN m_recvBuf[j]
                                      ELSE net[j - m_hasRecvLen]]
    BY <1>1 DEF Unhandled, UnhandledLen
  <2>. QED
    BY <2>1
<1>3. KindsSent(reqs) = <<>> /\ RepliesSeen(replies) = <<>>
  BY <1>1 DEF KindsSent, RepliesSeen
<1>. QED
  BY <1>1, <1>2, <1>3 DEF RR!Init, KindsSent, RepliesSeen

LEMMA ClientSendRefines ==
  ASSUME IInv, IInv', SInv, NEW size \in FrameSizes, NEW kind \in Kinds,
         ClientSend(size, kind)
  PROVE  RR!Send(kind)
<1>. DEFINE new == [size |-> size, kind |-> kind]
<1>1. /\ new \in Requests /\ reqs \in Seq(Requests) /\ reqs' = Append(reqs, new)
      /\ new.kind = kind
  BY DEF IInv, TypeOK, Requests, ClientSend
<1>. HIDE DEF new
<1>2. KindsSent(reqs)' = Append(KindsSent(reqs), kind)
  BY <1>1, KindsAppend
<1>3. HandledCount' = HandledCount
  BY ClientSendSInv
<1>4. ~peerClosed /\ UNCHANGED <<replies, peerClosed>>
  BY DEF ClientSend
<1>. QED
  BY <1>2, <1>3, <1>4 DEF RR!Send, KindsSent, RepliesSeen, HandledCount

(* An unknown apiKey: handled, and not answered.                           *)
LEMMA UnknownRefines ==
  ASSUME IInv, IInv', SInv, RecvData, StreamDrops,
         reqs[Unhandled[1][1]].kind = "unknown"
  PROVE  RR!Handle
<1>1. UNCHANGED <<reqs, replies, peerClosed>>
  BY DEF RecvData
<1>2. /\ HandledCount' = HandledCount + 1 /\ HandledCount < Len(reqs) /\ HandledCount \in Nat
      /\ Unhandled[1][1] = HandledCount + 1
  BY <1>1, DropsSInv
<1>3. /\ Len(KindsSent(reqs)) = Len(reqs)
      /\ KindsSent(reqs)[HandledCount + 1] = "unknown"
  <2>1. reqs \in Seq(Requests) /\ DOMAIN reqs = 1 .. Len(reqs) /\ Len(reqs) \in Nat
    BY LenProperties DEF IInv, TypeOK
  <2>2. HandledCount + 1 \in DOMAIN reqs /\ reqs[HandledCount + 1].kind = "unknown"
    BY <1>2, <2>1
  <2>. QED
    BY <2>1, <2>2 DEF KindsSent
<1>4. "unknown" \notin Replying
  BY DEF Replying
<1>. HIDE DEF KindsSent, RepliesSeen, HandledCount
<1>5. /\ HandledCount < Len(KindsSent(reqs))
      /\ HandledCount' = HandledCount + 1
      /\ KindsSent(reqs)[HandledCount + 1] \notin Replying
      /\ UNCHANGED <<KindsSent(reqs), RepliesSeen(replies), peerClosed>>
  BY <1>1, <1>2, <1>3, <1>4
<1>. QED
  BY <1>5 DEF RR!Handle, KindsSent, RepliesSeen, HandledCount

(* sendAndWait: the request at the front of the buffer is handled, with    *)
(* its reply on the wire unless it asks for none or the client is gone.    *)
LEMMA SendAndWaitRefines ==
  ASSUME IInv, IInv', SInv, SendAndWait
  PROVE  RR!Handle
<1>1. UNCHANGED <<reqs, peerClosed>>
  BY DEF SendAndWait
<1>2. StreamDrops /\ Unhandled[1] = m_recvBuf[1]
  BY SendAndWaitStream
<1>3. /\ HandledCount' = HandledCount + 1 /\ HandledCount < Len(reqs) /\ HandledCount \in Nat
      /\ m_recvBuf[1][1] = HandledCount + 1
  BY <1>1, <1>2, DropsSInv
<1>. DEFINE kind == KindOf(m_recvBuf)
<1>4. /\ Len(KindsSent(reqs)) = Len(reqs)
      /\ KindsSent(reqs)[HandledCount + 1] = kind /\ kind \in Kinds
  <2>1. reqs \in Seq(Requests) /\ DOMAIN reqs = 1 .. Len(reqs) /\ Len(reqs) \in Nat
    BY LenProperties DEF IInv, TypeOK
  <2>2. HandledCount + 1 \in 1 .. Len(reqs)
    BY <1>3, <2>1
  <2>3. reqs[HandledCount + 1].kind = kind /\ kind \in Kinds
    BY <1>3, <2>1, <2>2, RequestSize, ElementOfSeq DEF KindOf
  <2>. QED
    BY <2>1, <2>2, <2>3 DEF KindsSent
<1>5. \/ /\ kind \in Replying
         /\ RepliesSeen(replies)' =
              Append(RepliesSeen(replies), [corr |-> HandledCount + 1, kind |-> kind])
      \/ kind \notin Replying /\ UNCHANGED RepliesSeen(replies)
      \/ peerClosed /\ UNCHANGED RepliesSeen(replies)
  <2>1. CASE UNCHANGED replies /\ (kind \notin Replying \/ peerClosed)
    BY <2>1
  <2>2. CASE /\ kind \in Replying
             /\ replies' = Append(replies, [corr |-> m_recvBuf[1][1], kind |-> kind, len |-> Written])
             /\ Writable
    <3>. DEFINE new == [corr |-> m_recvBuf[1][1], kind |-> kind, len |-> Written]
    <3>1. Written \in Nat
      BY <2>2, SessionAssumption DEF IInv, TypeOK, Written, Writable, Room
    <3>2. new \in [corr : Nat, kind : Kinds, len : Nat]
      BY <1>3, <1>4, <3>1
    <3>3. new.corr = HandledCount + 1 /\ new.kind = kind
      BY <1>3
    <3>4. replies \in Seq([corr : Nat, kind : Kinds, len : Nat]) /\ replies' = Append(replies, new)
      BY <2>2 DEF IInv, TypeOK
    <3>. HIDE DEF new, RepliesSeen, kind
    <3>. QED
      BY <2>2, <3>2, <3>3, <3>4, RepliesAppend
  <2>. QED
    BY <2>1, <2>2 DEF SendAndWait
<1>. HIDE DEF kind
<1>6. /\ HandledCount < Len(KindsSent(reqs))
      /\ HandledCount' = HandledCount + 1
      /\ UNCHANGED <<KindsSent(reqs), peerClosed>>
  BY <1>1, <1>3, <1>4 DEF KindsSent
<1>. QED
  BY <1>4, <1>5, <1>6 DEF RR!Handle, KindsSent, RepliesSeen, HandledCount

(* A session implements RequestReply, for every stream of requests: each   *)
(* is handled exactly once and in order, no reply is correlated with       *)
(* another request, and none is dropped before the client has hung up.     *)
THEOREM SessionRefines == Spec => ImplementsRequestReply
<1>1. IInv /\ IInv' /\ SInv /\ [Next]_vars => [RR!Next]_(RR!vars)
  <2>. SUFFICES ASSUME IInv, IInv', SInv, [Next]_vars PROVE [RR!Next]_(RR!vars)
    OBVIOUS
  <2>1. ASSUME NEW size \in FrameSizes, NEW kind \in Kinds, ClientSend(size, kind)
        PROVE  RR!Next
    BY <2>1, ClientSendRefines DEF RR!Next
  <2>2. CASE ClientRead \/ EndOfStream \/ RecvFails \/ CallFails \/ UNCHANGED vars
    <3>1. UNCHANGED <<reqs, net, replies, peerClosed, m_recvBuf, m_hasRecvLen>>
      BY <2>2 DEF ClientRead, EndOfStream, RecvFails, CloseSession, CallFails, vars
    <3>2. HandledCount' = HandledCount
      BY <3>1, QuietStream, StaysSInv
    <3>. QED
      BY <3>1, <3>2, Stutter DEF Unsent, KindsSent, RepliesSeen
  <2>3. CASE ClientClose
    <3>1. UNCHANGED <<reqs, net, replies, m_recvBuf, m_hasRecvLen>> /\ ~peerClosed /\ peerClosed'
      BY <2>3 DEF ClientClose
    <3>2. HandledCount' = HandledCount
      BY <3>1, QuietStream, StaysSInv
    <3>3. peerClosed' = TRUE
      BY <2>3 DEF ClientClose
    <3>4. RR!HangUp
      BY <3>1, <3>2, <3>3 DEF RR!HangUp, HandledCount
    <3>. QED
      BY <3>4 DEF RR!Next
  <2>4. CASE RecvData
    <3>1. UNCHANGED <<reqs, replies, peerClosed>>
      BY <2>4 DEF RecvData
    <3>2. CASE StreamStays
      <4>1. HandledCount' = HandledCount
        BY <3>1, <3>2, StaysSInv
      <4>. QED
        BY <3>1, <4>1, Stutter DEF Unsent, KindsSent, RepliesSeen
    <3>3. CASE StreamDrops /\ reqs[Unhandled[1][1]].kind = "unknown"
      BY <2>4, <3>3, UnknownRefines DEF RR!Next
    <3>. QED
      BY <2>4, <3>2, <3>3, RecvDataStream
  <2>5. CASE SendAndWait
    BY <2>5, SendAndWaitRefines DEF RR!Next
  <2>. QED
    BY <2>1, <2>2, <2>3, <2>4, <2>5 DEF Next, Server
<1>. QED
  BY <1>1, InitRefines, SInvInductive, IInvInductive, PTL
     DEF Spec, ImplementsRequestReply, RR!Spec

=============================================================================
