-------------------------- MODULE SendQueue_proofs --------------------------
(***************************************************************************)
(* The send queue keeps its account, its limit and the order of the bytes, *)
(* for any number of senders, any sizes of messages and any limits.        *)
(***************************************************************************)
EXTENDS SendQueue, SequenceTheorems, FunctionTheorems, FiniteSetTheorems, TLAPS

(* asyncSend cuts a message at multiples of MAX_SEND_LENGTH.               *)
OnBoundary(msg, off) ==
  /\ msg \in DOMAIN messages
  /\ off < messages[msg]
  /\ \E n \in Nat : off = n * MaxSendLength

PushesOnBoundary ==
  /\ \A s \in Senders :
       pushing[s] # Idle => OnBoundary(pushing[s].msg, pushing[s].off)
  /\ \A s, t \in Senders :
       pushing[s] # Idle /\ pushing[s].msg = pushing[t].msg => s = t

(* Only the chunk at the front has been sent in part.                      *)
ChunksOnBoundary ==
  \A i \in DOMAIN m_sendQueue :
    LET chunk == m_sendQueue[i]
    IN /\ OnBoundary(chunk.msg, chunk.off)
       /\ chunk.total = ChunkLen(messages[chunk.msg] - chunk.off)
       /\ chunk.completed < chunk.total
       /\ i > 1 => chunk.completed = 0

WireAccepted == \A j \in DOMAIN wire : wire[j][1] \in DOMAIN messages

(* A sender continues its message where the queue ends it.                 *)
PushesInOrder ==
  \A s \in Senders : pushing[s] # Idle =>
    Numbers(Ahead(Len(m_sendQueue) + 1), pushing[s].msg) = 1 .. pushing[s].off

(* The last byte of the wire is the last of a chunk, unless the chunk at   *)
(* the front has been sent in part: then it is the last of that part.      *)
Begun == m_sendQueue # <<>> /\ m_sendQueue[1].completed > 0

LastByte ==
  /\ Begun =>
       /\ wire # <<>>
       /\ wire[Len(wire)] = <<m_sendQueue[1].msg, m_sendQueue[1].off + m_sendQueue[1].completed>>
  /\ wire # <<>> /\ ~Begun => EndsChunk(wire[Len(wire)])

QueueFinite == IsFiniteSet(QueuedBytes)

(* A chunk reported complete has its last byte on the wire.                *)
SuccessesOut ==
  \A i \in DOMAIN callbacks :
    LET c == callbacks[i]
    IN ~c.error => /\ c.msg \in DOMAIN messages
                   /\ c.completed = ChunkLen(messages[c.msg] - c.off)
                   /\ \E j \in DOMAIN wire : wire[j] = <<c.msg, c.off + c.completed>>

(* The bytes the senders have still to queue of the messages they have     *)
(* begun: m_mallocSize can yet grow by as many.                            *)
Pending ==
  {p \in Senders \X (1 .. Largest) :
     /\ pushing[p[1]] # Idle
     /\ pushing[p[1]].off < p[2]
     /\ p[2] <= messages[pushing[p[1]].msg]}

PendingBounded ==
  m_mallocSize + Cardinality(Pending) <= MaxSendBuffer + Cardinality(Senders) * Largest

IInv ==
  /\ TypeOK
  /\ PushesOnBoundary
  /\ ChunksOnBoundary
  /\ WireAccepted
  /\ MessagesInOrder
  /\ PushesInOrder
  /\ LastByte
  /\ ChunksWhole
  /\ QueueFinite
  /\ MallocMatchesQueue
  /\ SuccessesOut
  /\ PendingBounded

-----------------------------------------------------------------------------
(* Sets of bytes.  The order is stated of any wire w and queue q, so that  *)
(* it can be used of the state before a step and of the one after it.      *)
AheadIn(w, q, i) == ToSet(w) \cup UNION {Rest(q[h]) : h \in 1 .. i - 1}

WireInOrder(w) ==
  \A j \in DOMAIN w : Numbers({w[h] : h \in 1 .. j - 1}, w[j][1]) = 1 .. w[j][2] - 1

QueueInOrder(w, q) ==
  \A i \in DOMAIN q : Numbers(AheadIn(w, q, i), q[i].msg) = 1 .. q[i].off + q[i].completed

LEMMA Ordered ==
  MessagesInOrder <=> WireInOrder(wire) /\ QueueInOrder(wire, m_sendQueue)
BY DEF MessagesInOrder, WireInOrder, QueueInOrder, Ahead, AheadIn

LEMMA ChunkLenOf ==
  ASSUME NEW r \in Nat, r > 0
  PROVE  /\ ChunkLen(r) \in 1 .. MaxSendLength
         /\ ChunkLen(r) <= r
         /\ ChunkLen(r) = MaxSendLength \/ ChunkLen(r) = r
BY SendAssumption DEF ChunkLen

LEMMA LargestOf == Largest \in MsgSizes /\ Largest \in Nat /\ \A m \in MsgSizes : m \in Nat /\ m <= Largest
BY SendAssumption DEF Largest

LEMMA NumbersOf ==
  ASSUME NEW B \in SUBSET (Nat \X Nat), NEW m, NEW k
  PROVE  k \in Numbers(B, m) <=> <<m, k>> \in B
<1>1. ASSUME k \in Numbers(B, m) PROVE <<m, k>> \in B
  <2>1. PICK b \in B : b[1] = m /\ b[2] = k
    BY <1>1 DEF Numbers
  <2>2. b = <<b[1], b[2]>>
    OBVIOUS
  <2>. QED
    BY <2>1, <2>2
<1>2. ASSUME <<m, k>> \in B PROVE k \in Numbers(B, m)
  <2>. DEFINE b == <<m, k>>
  <2>1. b \in {x \in B : x[1] = m} /\ b[2] = k
    BY <1>2
  <2>. QED
    BY <2>1 DEF Numbers
<1>. QED
  BY <1>1, <1>2

LEMMA NumbersUnion ==
  ASSUME NEW A, NEW B, NEW m
  PROVE  Numbers(A \cup B, m) = Numbers(A, m) \cup Numbers(B, m)
BY DEF Numbers

(* The bytes of a part of a chunk.                                         *)
LEMMA BytesOf ==
  ASSUME NEW chunk \in Chunks, NEW n \in Nat
  PROVE  /\ Bytes(chunk, n) \in Seq(Nat \X Nat)
         /\ Len(Bytes(chunk, n)) = n
         /\ \A k \in 1 .. n : Bytes(chunk, n)[k] = <<chunk.msg, chunk.off + chunk.completed + k>>
         /\ ToSet(Bytes(chunk, n)) = {<<chunk.msg, chunk.off + chunk.completed + k>> : k \in 1 .. n}
         /\ ToSet(Bytes(chunk, n)) \in SUBSET (Nat \X Nat)
<1>. DEFINE b == Bytes(chunk, n)
<1>1. chunk.msg \in Nat /\ chunk.off \in Nat /\ chunk.completed \in Nat
  BY DEF Chunks
<1>2. b = [k \in 1 .. n |-> <<chunk.msg, chunk.off + chunk.completed + k>>]
  BY DEF Bytes
<1>3. \A k \in 1 .. n : <<chunk.msg, chunk.off + chunk.completed + k>> \in Nat \X Nat
  BY <1>1
<1>4. b \in [1 .. n -> Nat \X Nat]
  BY <1>2, <1>3
<1>5. b \in Seq(Nat \X Nat) /\ Len(b) = n /\ DOMAIN b = 1 .. n
  <2>1. b \in UNION {[1 .. i -> Nat \X Nat] : i \in Nat}
    BY <1>4
  <2>2. b \in Seq(Nat \X Nat)
    BY <2>1, SeqDef
  <2>. QED
    BY <1>4, <2>2, LenProperties
<1>6. ToSet(b) = {<<chunk.msg, chunk.off + chunk.completed + k>> : k \in 1 .. n}
  BY <1>2, <1>5 DEF ToSet
<1>. QED
  BY <1>2, <1>3, <1>5, <1>6

LEMMA BytesNumbers ==
  ASSUME NEW chunk \in Chunks, NEW n \in Nat, NEW m
  PROVE  Numbers(ToSet(Bytes(chunk, n)), m) =
           IF m = chunk.msg
             THEN chunk.off + chunk.completed + 1 .. chunk.off + chunk.completed + n
             ELSE {}
<1>. DEFINE start == chunk.off + chunk.completed
            B == {<<chunk.msg, start + k>> : k \in 1 .. n}
<1>1. start \in Nat
  BY DEF Chunks
<1>2. ToSet(Bytes(chunk, n)) = B
  BY BytesOf
<1>3. CASE m # chunk.msg
  BY <1>2, <1>3 DEF Numbers
<1>4. CASE m = chunk.msg
  <2>1. {x \in B : x[1] = m} = B
    BY <1>4
  <2>2. Numbers(B, m) = {start + k : k \in 1 .. n}
    <3>1. \A b \in B : b[2] \in {start + k : k \in 1 .. n}
      OBVIOUS
    <3>2. ASSUME NEW k \in 1 .. n PROVE \E b \in B : b[2] = start + k
      <4>1. <<chunk.msg, start + k>> \in B
        OBVIOUS
      <4>. QED
        BY <4>1
    <3>3. Numbers(B, m) = {b[2] : b \in B}
      <4>. HIDE DEF B
      <4>. QED
        BY <2>1 DEF Numbers
    <3>. HIDE DEF B
    <3>. QED
      BY <3>1, <3>2, <3>3
  <2>. HIDE DEF start
  <2>3. {start + k : k \in 1 .. n} = start + 1 .. start + n
    <3>1. ASSUME NEW x \in start + 1 .. start + n PROVE x \in {start + k : k \in 1 .. n}
      <4>1. x - start \in 1 .. n /\ x = start + (x - start)
        BY <1>1
      <4>. QED
        BY <4>1
    <3>. QED
      BY <1>1, <3>1
  <2>. QED
    BY <1>2, <1>4, <2>2, <2>3 DEF start
<1>. QED
  BY <1>3, <1>4

LEMMA ConcatSet ==
  ASSUME NEW S, NEW w \in Seq(S), NEW b \in Seq(S)
  PROVE  ToSet(w \o b) = ToSet(w) \cup ToSet(b)
<1>. DEFINE all == w \o b
<1>1. /\ all \in Seq(S) /\ Len(all) = Len(w) + Len(b) /\ Len(w) \in Nat /\ Len(b) \in Nat
      /\ \A i \in 1 .. Len(w) + Len(b) : all[i] = IF i <= Len(w) THEN w[i] ELSE b[i - Len(w)]
      /\ DOMAIN all = 1 .. Len(w) + Len(b) /\ DOMAIN w = 1 .. Len(w) /\ DOMAIN b = 1 .. Len(b)
  BY ConcatProperties, LenProperties
<1>. HIDE DEF all
<1>2. ASSUME NEW i \in DOMAIN all PROVE all[i] \in ToSet(w) \cup ToSet(b)
  <2>1. CASE i <= Len(w)
    BY <1>1, <2>1 DEF ToSet
  <2>2. CASE i > Len(w)
    <3>1. i - Len(w) \in DOMAIN b /\ all[i] = b[i - Len(w)]
      BY <1>1, <2>2
    <3>. QED
      BY <3>1 DEF ToSet
  <2>. QED
    BY <1>1, <2>1, <2>2
<1>3. ASSUME NEW i \in DOMAIN w PROVE w[i] \in ToSet(all)
  <2>1. i \in DOMAIN all /\ all[i] = w[i]
    BY <1>1
  <2>. QED
    BY <2>1 DEF ToSet
<1>4. ASSUME NEW i \in DOMAIN b PROVE b[i] \in ToSet(all)
  <2>1. Len(w) + i \in DOMAIN all /\ all[Len(w) + i] = b[i]
    BY <1>1
  <2>. QED
    BY <2>1 DEF ToSet
<1>5. ToSet(all) = ToSet(w) \cup ToSet(b)
  BY <1>2, <1>3, <1>4 DEF ToSet
<1>. QED
  BY <1>5 DEF all

(* The bytes that remain of a chunk, of which some have been sent.         *)
LEMMA RestNumbers ==
  ASSUME NEW chunk \in Chunks, chunk.completed <= chunk.total, NEW m
  PROVE  Numbers(Rest(chunk), m) =
           IF m = chunk.msg
             THEN chunk.off + chunk.completed + 1 .. chunk.off + chunk.total
             ELSE {}
<1>1. /\ ToSend(chunk) \in Nat
      /\ chunk.off + chunk.completed + ToSend(chunk) = chunk.off + chunk.total
  BY DEF ToSend, Chunks
<1>. QED
  BY <1>1, BytesNumbers DEF Rest

(* The first bytes of a chunk go out after the earlier ones of its message.*)
LEMMA WireExtends ==
  ASSUME NEW w \in Seq(Nat \X Nat), WireInOrder(w), NEW chunk \in Chunks, NEW n \in Nat,
         Numbers(ToSet(w), chunk.msg) = 1 .. chunk.off + chunk.completed
  PROVE  WireInOrder(w \o Bytes(chunk, n))
<1>. DEFINE b == Bytes(chunk, n)
            all == w \o b
            start == chunk.off + chunk.completed
<1>1. /\ b \in Seq(Nat \X Nat) /\ Len(b) = n
      /\ \A k \in 1 .. n : b[k] = <<chunk.msg, start + k>>
  BY BytesOf
<1>2. start \in Nat
  BY DEF Chunks
<1>. HIDE DEF b, start
<1>3. /\ Len(w) \in Nat
      /\ DOMAIN all = 1 .. Len(w) + n /\ DOMAIN w = 1 .. Len(w)
      /\ \A i \in 1 .. Len(w) : all[i] = w[i]
      /\ \A k \in 1 .. n : all[Len(w) + k] = <<chunk.msg, start + k>>
  <2>1. /\ all \in Seq(Nat \X Nat) /\ Len(all) = Len(w) + n /\ Len(w) \in Nat
        /\ \A i \in 1 .. Len(w) + n : all[i] = IF i <= Len(w) THEN w[i] ELSE b[i - Len(w)]
    BY <1>1, ConcatProperties, LenProperties
  <2>. HIDE DEF all
  <2>2. ASSUME NEW k \in 1 .. n PROVE all[Len(w) + k] = <<chunk.msg, start + k>>
    <3>1. Len(w) + k \in 1 .. Len(w) + n /\ ~(Len(w) + k <= Len(w)) /\ (Len(w) + k) - Len(w) = k
      BY <2>1
    <3>2. all[Len(w) + k] = b[(Len(w) + k) - Len(w)]
      BY <2>1, <3>1
    <3>. QED
      BY <1>1, <3>1, <3>2
  <2>3. DOMAIN all = 1 .. Len(w) + n /\ DOMAIN w = 1 .. Len(w)
    BY <2>1, LenProperties
  <2>4. ASSUME NEW i \in 1 .. Len(w) PROVE all[i] = w[i]
    <3>1. i \in 1 .. Len(w) + n /\ i <= Len(w)
      BY <2>1
    <3>. QED
      BY <2>1, <3>1
  <2>. QED
    BY <2>1, <2>2, <2>3, <2>4
<1>. HIDE DEF all
<1>. SUFFICES ASSUME NEW j \in DOMAIN all
              PROVE  Numbers({all[h] : h \in 1 .. j - 1}, all[j][1]) = 1 .. all[j][2] - 1
  BY DEF WireInOrder, all, b
<1>4. CASE j <= Len(w)
  <2>1. j \in DOMAIN w /\ all[j] = w[j] /\ \A h \in 1 .. j - 1 : all[h] = w[h]
    BY <1>3, <1>4
  <2>2. {all[h] : h \in 1 .. j - 1} = {w[h] : h \in 1 .. j - 1}
    BY <2>1
  <2>. QED
    BY <2>1, <2>2 DEF WireInOrder
<1>5. CASE j > Len(w)
  <2>. DEFINE k == j - Len(w)
  <2>1. k \in 1 .. n /\ j = Len(w) + k /\ k - 1 \in Nat
    BY <1>3, <1>5
  <2>2. all[j] = <<chunk.msg, start + k>>
    BY <1>3, <2>1
  <2>3. {all[h] : h \in 1 .. j - 1} = ToSet(w) \cup ToSet(Bytes(chunk, k - 1))
    <3>1. ToSet(Bytes(chunk, k - 1)) = {<<chunk.msg, start + i>> : i \in 1 .. k - 1}
      BY <2>1, BytesOf DEF start
    <3>. HIDE DEF k
    <3>2. ASSUME NEW h \in 1 .. j - 1
          PROVE  all[h] \in ToSet(w) \/ all[h] \in {<<chunk.msg, start + i>> : i \in 1 .. k - 1}
      <4>1. CASE h <= Len(w)
        <5>1. h \in DOMAIN w /\ all[h] = w[h]
          BY <1>3, <4>1
        <5>. QED
          BY <5>1 DEF ToSet
      <4>2. CASE h > Len(w)
        <5>1. h - Len(w) \in 1 .. k - 1 /\ h - Len(w) \in 1 .. n /\ Len(w) + (h - Len(w)) = h
          BY <1>3, <2>1, <4>2
        <5>. QED
          BY <1>3, <5>1
      <4>. QED
        BY <1>3, <4>1, <4>2
    <3>3. ASSUME NEW h \in DOMAIN w PROVE w[h] \in {all[g] : g \in 1 .. j - 1}
      <4>1. h \in 1 .. j - 1 /\ all[h] = w[h]
        BY <1>3, <2>1
      <4>. QED
        BY <4>1
    <3>4. ASSUME NEW i \in 1 .. k - 1
          PROVE  <<chunk.msg, start + i>> \in {all[g] : g \in 1 .. j - 1}
      <4>1. i \in 1 .. n /\ Len(w) + i \in 1 .. j - 1
        BY <1>3, <2>1
      <4>2. all[Len(w) + i] = <<chunk.msg, start + i>>
        BY <1>3, <4>1
      <4>. QED
        BY <4>1, <4>2
    <3>. QED
      BY <3>1, <3>2, <3>3, <3>4 DEF ToSet
  <2>4. Numbers(ToSet(Bytes(chunk, k - 1)), chunk.msg) = start + 1 .. start + (k - 1)
    BY <2>1, BytesNumbers DEF start
  <2>5. (1 .. start) \cup (start + 1 .. start + (k - 1)) = 1 .. (start + k) - 1
    BY <1>2, <2>1
  <2>6. Numbers(ToSet(w), chunk.msg) = 1 .. start
    BY DEF start
  <2>. HIDE DEF k
  <2>7. all[j][1] = chunk.msg /\ all[j][2] = start + k
    BY <2>2
  <2>8. Numbers(ToSet(w) \cup ToSet(Bytes(chunk, k - 1)), chunk.msg) = 1 .. (start + k) - 1
    <3>. DEFINE A == ToSet(w)
                B == ToSet(Bytes(chunk, k - 1))
    <3>1. Numbers(A, chunk.msg) = 1 .. start /\ Numbers(B, chunk.msg) = start + 1 .. start + (k - 1)
      BY <2>4, <2>6
    <3>. HIDE DEF A, B
    <3>2. Numbers(A \cup B, chunk.msg) = Numbers(A, chunk.msg) \cup Numbers(B, chunk.msg)
      BY NumbersUnion
    <3>3. Numbers(A \cup B, chunk.msg) = 1 .. (start + k) - 1
      BY <2>5, <3>1, <3>2
    <3>. QED
      BY <3>3 DEF A, B
  <2>. QED
    BY <2>3, <2>7, <2>8
<1>. QED
  BY <1>3, <1>4, <1>5

LEMMA ChunkBytesCount ==
  ASSUME NEW chunk \in Chunks
  PROVE  IsFiniteSet(ChunkBytes(chunk)) /\ Cardinality(ChunkBytes(chunk)) = chunk.total
<1>. DEFINE S == 1 .. chunk.total
            T == ChunkBytes(chunk)
            f == [k \in S |-> <<chunk.msg, chunk.off + k>>]
<1>1. chunk.msg \in Nat /\ chunk.off \in Nat /\ chunk.total \in Nat
  BY DEF Chunks
<1>2. IsFiniteSet(S) /\ Cardinality(S) = chunk.total
  <2>. DEFINE n == chunk.total
  <2>1. n \in Nat /\ 1 \in Int /\ n \in Int
    BY <1>1
  <2>. HIDE DEF n
  <2>2. IsFiniteSet(1 .. n) /\ Cardinality(1 .. n) = IF 1 > n THEN 0 ELSE n - 1 + 1
    BY <2>1, FS_Interval
  <2>3. Cardinality(1 .. n) = n
    BY <2>1, <2>2
  <2>. QED
    BY <2>2, <2>3 DEF n
<1>3. T = {<<chunk.msg, chunk.off + k>> : k \in S}
  BY DEF ChunkBytes
<1>4. f \in [S -> T] /\ \A k \in S : f[k] = <<chunk.msg, chunk.off + k>>
  BY <1>3
<1>5. \A a, b \in S : f[a] = f[b] => a = b
  BY <1>1
<1>6. \A t \in T : \E k \in S : f[k] = t
  BY <1>3
<1>. HIDE DEF f, S, T
<1>7. f \in Bijection(S, T)
  BY <1>4, <1>5, <1>6, Fun_IsBij
<1>8. ExistsBijection(S, T)
  BY <1>7 DEF ExistsBijection
<1>. QED
  BY <1>2, <1>8, FS_Bijection DEF T

-----------------------------------------------------------------------------
(* What the invariant says of a chunk of the queue, and of a push.         *)
LEMMA ChunkOf ==
  ASSUME TypeOK, ChunksOnBoundary, NEW i \in DOMAIN m_sendQueue
  PROVE  LET c == m_sendQueue[i]
         IN /\ c \in Chunks
            /\ c.msg \in DOMAIN messages /\ messages[c.msg] \in Nat /\ c.msg \in Nat \ {0}
            /\ c.off \in Nat /\ c.off < messages[c.msg]
            /\ \E n \in Nat : c.off = n * MaxSendLength
            /\ c.total = ChunkLen(messages[c.msg] - c.off)
            /\ c.total \in 1 .. MaxSendLength
            /\ c.off + c.total <= messages[c.msg]
            /\ c.total = MaxSendLength \/ c.off + c.total = messages[c.msg]
            /\ c.completed \in Nat /\ c.completed < c.total
            /\ ToSend(c) \in 1 .. MaxSendLength /\ c.completed + ToSend(c) = c.total
            /\ i > 1 => c.completed = 0
<1>. DEFINE c == m_sendQueue[i]
            size == messages[c.msg]
<1>1. c \in Chunks
  BY LenProperties, ElementOfSeq DEF TypeOK
<1>2. c.msg \in Nat /\ c.off \in Nat /\ c.total \in Nat /\ c.completed \in Nat
  BY <1>1 DEF Chunks
<1>3. /\ c.msg \in DOMAIN messages /\ c.off < size /\ \E n \in Nat : c.off = n * MaxSendLength
      /\ c.total = ChunkLen(size - c.off) /\ c.completed < c.total
      /\ i > 1 => c.completed = 0
  BY DEF ChunksOnBoundary, OnBoundary
<1>4. messages \in Seq(MsgSizes) /\ DOMAIN messages = 1 .. Len(messages) /\ Len(messages) \in Nat
  BY LenProperties DEF TypeOK
<1>5. size \in Nat /\ c.msg \in Nat \ {0}
  <2>1. size \in MsgSizes
    BY <1>3, <1>4, ElementOfSeq
  <2>2. c.msg \in Nat \ {0}
    BY <1>3, <1>4
  <2>. QED
    BY <2>1, <2>2, LargestOf
<1>6. size - c.off \in Nat /\ size - c.off > 0
  BY <1>2, <1>3, <1>5
<1>7. /\ c.total \in 1 .. MaxSendLength /\ c.total <= size - c.off
      /\ c.total = MaxSendLength \/ c.total = size - c.off
  BY <1>3, <1>6, ChunkLenOf
<1>8. ToSend(c) = c.total - c.completed
  BY DEF ToSend
<1>9. /\ c.off + c.total <= size
      /\ c.total = MaxSendLength \/ c.off + c.total = size
      /\ ToSend(c) \in 1 .. MaxSendLength /\ c.completed + ToSend(c) = c.total
  <2>. HIDE DEF c
  <2>. QED
    BY <1>2, <1>3, <1>5, <1>7, <1>8, SendAssumption
<1>. QED
  BY <1>1, <1>2, <1>3, <1>5, <1>7, <1>9

LEMMA PushOf ==
  ASSUME TypeOK, PushesOnBoundary, NEW s \in Senders, pushing[s] # Idle
  PROVE  LET msg == pushing[s].msg
             off == pushing[s].off
             total == ChunkLen(messages[msg] - off)
         IN /\ msg \in DOMAIN messages /\ messages[msg] \in MsgSizes /\ messages[msg] \in Nat
            /\ msg \in Nat \ {0}
            /\ off \in Nat /\ off < messages[msg]
            /\ \E n \in Nat : off = n * MaxSendLength
            /\ total \in 1 .. MaxSendLength
            /\ off + total <= messages[msg]
            /\ total = MaxSendLength \/ off + total = messages[msg]
<1>. DEFINE msg == pushing[s].msg
            off == pushing[s].off
            size == messages[msg]
            total == ChunkLen(size - off)
<1>1. msg \in Nat /\ off \in Nat
  BY DEF TypeOK
<1>2. msg \in DOMAIN messages /\ off < size /\ \E n \in Nat : off = n * MaxSendLength
  BY DEF PushesOnBoundary, OnBoundary
<1>3. messages \in Seq(MsgSizes) /\ DOMAIN messages = 1 .. Len(messages) /\ Len(messages) \in Nat
  BY LenProperties DEF TypeOK
<1>4. size \in MsgSizes /\ size \in Nat /\ msg \in Nat \ {0}
  <2>1. size \in MsgSizes
    BY <1>2, <1>3, ElementOfSeq
  <2>2. msg \in Nat \ {0}
    BY <1>2, <1>3
  <2>. QED
    BY <2>1, <2>2, LargestOf
<1>5. size - off \in Nat /\ size - off > 0
  BY <1>1, <1>2, <1>4
<1>6. total \in 1 .. MaxSendLength /\ total <= size - off /\ (total = MaxSendLength \/ total = size - off)
  BY <1>5, ChunkLenOf
<1>7. off + total <= size /\ (total = MaxSendLength \/ off + total = size)
  <2>. HIDE DEF off, total, size
  <2>. QED
    BY <1>1, <1>4, <1>6, SendAssumption
<1>. QED
  BY <1>1, <1>2, <1>4, <1>6, <1>7

(* What is ahead of a place in the queue holds the last byte of every      *)
(* chunk before that place.                                                *)
LEMMA LastByteAhead ==
  ASSUME TypeOK, ChunksOnBoundary, NEW i \in Nat, NEW h \in DOMAIN m_sendQueue, h < i,
         NEW k, Numbers(Ahead(i), m_sendQueue[h].msg) = 1 .. k, k \in Nat
  PROVE  m_sendQueue[h].off + m_sendQueue[h].total <= k
<1>. DEFINE c == m_sendQueue[h]
<1>1. c \in Chunks /\ c.completed < c.total /\ c.completed \in Nat /\ c.total \in Nat /\ c.off \in Nat
  BY ChunkOf
<1>2. h \in 1 .. i - 1
  BY LenProperties DEF TypeOK
<1>3. Rest(c) \in SUBSET Ahead(i)
  BY <1>2 DEF Ahead
<1>4. Numbers(Rest(c), c.msg) = c.off + c.completed + 1 .. c.off + c.total
  BY <1>1, RestNumbers
<1>. HIDE DEF c
<1>5. c.off + c.total \in Numbers(Rest(c), c.msg)
  BY <1>1, <1>4
<1>6. Numbers(Rest(c), c.msg) \in SUBSET Numbers(Ahead(i), c.msg)
  BY <1>3 DEF Numbers
<1>7. c.off + c.total \in 1 .. k
  BY <1>5, <1>6 DEF c
<1>. QED
  BY <1>7 DEF c

LEMMA EarlierEnds ==
  ASSUME TypeOK, ChunksOnBoundary, MessagesInOrder,
         NEW i \in DOMAIN m_sendQueue, NEW h \in DOMAIN m_sendQueue, h < i,
         m_sendQueue[h].msg = m_sendQueue[i].msg
  PROVE  m_sendQueue[h].off + m_sendQueue[h].total <= m_sendQueue[i].off
<1>1. i \in Nat /\ h \in Nat /\ i > 1
  BY LenProperties DEF TypeOK
<1>2. m_sendQueue[i].completed = 0 /\ m_sendQueue[i].off \in Nat
  BY <1>1, ChunkOf
<1>3. Numbers(Ahead(i), m_sendQueue[h].msg) = 1 .. m_sendQueue[i].off
  BY <1>2 DEF MessagesInOrder
<1>. QED
  BY <1>1, <1>2, <1>3, LastByteAhead

LEMMA EarlierEndsPush ==
  ASSUME TypeOK, ChunksOnBoundary, PushesInOrder,
         NEW s \in Senders, pushing[s] # Idle, NEW h \in DOMAIN m_sendQueue,
         m_sendQueue[h].msg = pushing[s].msg
  PROVE  m_sendQueue[h].off + m_sendQueue[h].total <= pushing[s].off
<1>1. Len(m_sendQueue) + 1 \in Nat /\ h < Len(m_sendQueue) + 1
  BY LenProperties DEF TypeOK
<1>2. pushing[s].off \in Nat
  BY DEF TypeOK
<1>3. Numbers(Ahead(Len(m_sendQueue) + 1), m_sendQueue[h].msg) = 1 .. pushing[s].off
  BY DEF PushesInOrder
<1>. QED
  BY <1>1, <1>2, <1>3, LastByteAhead

LEMMA PendingSize ==
  ASSUME NEW P \in SUBSET (Senders \X (1 .. Largest))
  PROVE  /\ IsFiniteSet(P) /\ Cardinality(P) \in Nat
         /\ Cardinality(P) <= Cardinality(Senders) * Largest
<1>. DEFINE n == Largest
            all == Senders \X (1 .. n)
<1>1. n \in Nat /\ 1 \in Int /\ n \in Int
  BY LargestOf
<1>. HIDE DEF n
<1>2. IsFiniteSet(1 .. n) /\ Cardinality(1 .. n) = IF 1 > n THEN 0 ELSE n - 1 + 1
  BY <1>1, FS_Interval
<1>3. Cardinality(1 .. n) = n
  BY <1>1, <1>2
<1>4. IsFiniteSet(Senders)
  BY SendAssumption
<1>5. IsFiniteSet(all) /\ Cardinality(all) = Cardinality(Senders) * n
  BY <1>2, <1>3, <1>4, FS_Product
<1>6. P \in SUBSET all
  BY DEF n
<1>. HIDE DEF all
<1>7. IsFiniteSet(P) /\ Cardinality(P) <= Cardinality(all)
  BY <1>5, <1>6, FS_Subset
<1>8. Cardinality(P) \in Nat
  BY <1>7, FS_CardinalityType
<1>. QED
  BY <1>5, <1>7, <1>8 DEF n

-----------------------------------------------------------------------------
(* A new message: no byte of it is on its way.                             *)
LEMMA NothingOfNew ==
  ASSUME TypeOK, ChunksOnBoundary, WireAccepted, NEW i \in 1 .. Len(m_sendQueue) + 1
  PROVE  Numbers(Ahead(i), Len(messages) + 1) = {}
<1>. DEFINE new == Len(messages) + 1
<1>1. new \notin DOMAIN messages
  BY LenProperties DEF TypeOK
<1>2. ASSUME NEW b \in ToSet(wire) PROVE b[1] # new
  BY <1>1 DEF ToSet, WireAccepted
<1>3. ASSUME NEW h \in 1 .. i - 1, NEW b \in Rest(m_sendQueue[h]) PROVE b[1] # new
  <2>1. h \in DOMAIN m_sendQueue
    BY LenProperties DEF TypeOK
  <2>2. /\ m_sendQueue[h] \in Chunks /\ m_sendQueue[h].msg \in DOMAIN messages
        /\ m_sendQueue[h].completed <= m_sendQueue[h].total
    <3>1. /\ m_sendQueue[h] \in Chunks /\ m_sendQueue[h].msg \in DOMAIN messages
          /\ m_sendQueue[h].completed < m_sendQueue[h].total
      BY <2>1, ChunkOf
    <3>. QED
      BY <3>1 DEF Chunks
  <2>3. m_sendQueue[h].msg # new
    BY <1>1, <2>2
  <2>4. Numbers(Rest(m_sendQueue[h]), new) = {}
    BY <2>2, <2>3, RestNumbers
  <2>. HIDE DEF new
  <2>. QED
    BY <2>4 DEF Numbers
<1>. HIDE DEF new
<1>4. \A b \in Ahead(i) : b[1] # new
  BY <1>2, <1>3 DEF Ahead
<1>5. Numbers(Ahead(i), new) = {}
  BY <1>4 DEF Numbers
<1>. QED
  BY <1>5 DEF new

LEMMA AsyncSendKeeps ==
  ASSUME IInv, NEW s \in Senders, NEW size \in MsgSizes, AsyncSend(s, size)
  PROVE  IInv'
<1>. DEFINE new == Len(messages) + 1
            len == Len(m_sendQueue)
<1>. USE DEF IInv
<1>1. /\ size \in Nat /\ pushing[s] = Idle /\ m_mallocSize <= MaxSendBuffer
      /\ messages' = Append(messages, size)
      /\ pushing' = [pushing EXCEPT ![s] = IF size = 0 THEN Idle ELSE [msg |-> new, off |-> 0]]
      /\ UNCHANGED <<m_sendQueue, m_mallocSize, wire, callbacks, failed>>
  BY LargestOf DEF AsyncSend, UnderLimit
<1>2. /\ messages \in Seq(MsgSizes) /\ Len(messages) \in Nat /\ DOMAIN messages = 1 .. Len(messages)
      /\ messages' \in Seq(MsgSizes) /\ DOMAIN messages' = 1 .. new
      /\ \A m \in DOMAIN messages : messages'[m] = messages[m]
      /\ messages'[new] = size
      /\ DOMAIN messages \subseteq DOMAIN messages' /\ new \in DOMAIN messages' /\ new \notin DOMAIN messages
  <2>1. messages \in Seq(MsgSizes) /\ Len(messages) \in Nat /\ DOMAIN messages = 1 .. Len(messages)
    BY LenProperties DEF TypeOK
  <2>2. /\ messages' \in Seq(MsgSizes) /\ Len(messages') = new
        /\ \A m \in 1 .. Len(messages) : messages'[m] = messages[m]
        /\ messages'[new] = size
    BY <1>1, <2>1, AppendProperties
  <2>3. DOMAIN messages' = 1 .. new
    BY <2>2, LenProperties
  <2>. QED
    BY <2>1, <2>2, <2>3
<1>3. /\ pushing \in [Senders -> [msg : Nat, off : Nat]]
      /\ pushing' \in [Senders -> [msg : Nat, off : Nat]]
      /\ \A t \in Senders : t # s => pushing'[t] = pushing[t]
      /\ IF size = 0 THEN pushing'[s] = Idle ELSE pushing'[s] = [msg |-> new, off |-> 0]
  BY <1>1, <1>2 DEF TypeOK, Idle
<1>4. \A t \in Senders : pushing[t] # Idle => pushing[t].msg \in DOMAIN messages
  BY DEF PushesOnBoundary, OnBoundary
<1>5. 0 \notin DOMAIN messages /\ Idle.msg = 0 /\ Idle.off = 0 /\ new # 0
  BY <1>2 DEF Idle
<1>. HIDE DEF new
<1>6. \A t \in Senders : pushing'[t] # Idle =>
        \/ t # s /\ pushing'[t] = pushing[t] /\ pushing[t].msg \in DOMAIN messages
        \/ t = s /\ size # 0 /\ pushing'[s].msg = new /\ pushing'[s].off = 0
  BY <1>3, <1>4
<1>10. TypeOK'
  BY <1>1, <1>2, <1>3 DEF TypeOK
<1>11. PushesOnBoundary'
  <2>1. ASSUME NEW t \in Senders, pushing'[t] # Idle
        PROVE  OnBoundary(pushing[t].msg, pushing[t].off)'
    <3>1. CASE t # s
      BY <1>2, <1>6, <2>1, <3>1 DEF PushesOnBoundary, OnBoundary
    <3>2. CASE t = s
      <4>1. size # 0 /\ pushing'[t].msg = new /\ pushing'[t].off = 0
        BY <1>6, <2>1, <3>2
      <4>2. 0 < size /\ 0 = 0 * MaxSendLength
        BY <1>1, <4>1, SendAssumption
      <4>. QED
        BY <1>2, <4>1, <4>2 DEF OnBoundary
    <3>. QED
      BY <3>1, <3>2
  <2>2. ASSUME NEW t \in Senders, NEW u \in Senders, pushing'[t] # Idle,
               pushing'[t].msg = pushing'[u].msg
        PROVE  t = u
    <3>1. pushing'[t].msg # 0
      BY <1>5, <1>6, <2>2
    <3>2. pushing'[u] # Idle
      BY <1>5, <2>2, <3>1
    <3>. QED
      BY <1>2, <1>6, <2>2, <3>2 DEF PushesOnBoundary
  <2>. QED
    BY <2>1, <2>2 DEF PushesOnBoundary
<1>12. ChunksOnBoundary'
  BY <1>1, <1>2 DEF ChunksOnBoundary, OnBoundary
<1>13. WireAccepted'
  BY <1>1, <1>2 DEF WireAccepted
<1>14. MessagesInOrder'
  BY ZenonT(40), <1>1 DEF MessagesInOrder, Ahead
<1>15. PushesInOrder'
  <2>. SUFFICES ASSUME NEW t \in Senders, pushing'[t] # Idle
                PROVE  Numbers(Ahead(len + 1), pushing'[t].msg) = 1 .. pushing'[t].off
    BY <1>1 DEF PushesInOrder, Ahead
  <2>1. CASE t # s
    BY <1>6, <2>1 DEF PushesInOrder
  <2>2. CASE t = s
    <3>1. pushing'[t].msg = new /\ pushing'[t].off = 0
      BY <1>6, <2>2
    <3>2. len + 1 \in 1 .. len + 1
      BY LenProperties DEF TypeOK
    <3>3. Numbers(Ahead(len + 1), new) = {}
      BY <3>2, NothingOfNew DEF new
    <3>. QED
      BY <3>1, <3>3
  <2>. QED
    BY <2>1, <2>2
<1>16. LastByte'
  <2>1. wire # <<>> => wire[Len(wire)][1] \in DOMAIN messages
    <3>1. wire # <<>> => Len(wire) \in DOMAIN wire
      BY EmptySeq, LenProperties DEF TypeOK
    <3>. QED
      BY <3>1 DEF WireAccepted
  <2>. QED
    BY <1>1, <1>2, <2>1 DEF LastByte, Begun, EndsChunk
<1>17. ChunksWhole'
  <2>1. \A j \in 1 .. Len(wire) - 1 : wire[j][1] \in DOMAIN messages
    BY SMTT(30), LenProperties DEF TypeOK, WireAccepted
  <2>. QED
    BY <1>1, <1>2, <2>1 DEF ChunksWhole, EndsChunk
<1>18. QueueFinite' /\ MallocMatchesQueue'
  BY <1>1 DEF QueueFinite, MallocMatchesQueue, QueuedBytes
<1>19. SuccessesOut'
  BY <1>1, <1>2 DEF SuccessesOut
<1>20. PendingBounded'
  <2>1. Pending' \in SUBSET (Senders \X (1 .. Largest))
    BY DEF Pending
  <2>. DEFINE P == Pending'
              most == Cardinality(Senders) * Largest
  <2>2. Cardinality(P) \in Nat /\ Cardinality(P) <= most
    BY <2>1, PendingSize
  <2>3. most \in Nat /\ m_mallocSize \in Nat /\ MaxSendBuffer \in Nat
    <3>1. Cardinality(Senders) \in Nat
      BY SendAssumption, FS_CardinalityType
    <3>2. Largest \in Nat
      BY LargestOf
    <3>3. most \in Nat
      BY <3>1, <3>2
    <3>. QED
      BY <3>3, SendAssumption DEF TypeOK
  <2>. HIDE DEF P, most
  <2>4. m_mallocSize + Cardinality(P) <= MaxSendBuffer + most
    BY <1>1, <2>2, <2>3
  <2>. QED
    BY <1>1, <2>4 DEF PendingBounded, P, most
<1>. QED
  BY <1>10, <1>11, <1>12, <1>13, <1>14, <1>15, <1>16, <1>17, <1>18, <1>19, <1>20

(* One chunk after another.                                                *)
LEMMA NextBoundary ==
  ASSUME NEW n \in Nat
  PROVE  n * MaxSendLength + MaxSendLength = (n + 1) * MaxSendLength
         /\ n + 1 \in 1 .. (n + 1) * MaxSendLength
<1>1. MaxSendLength \in Nat /\ MaxSendLength >= 1
  BY SendAssumption
<1>2. n * MaxSendLength + MaxSendLength = (n + 1) * MaxSendLength
  BY <1>1
<1>3. (n + 1) * MaxSendLength >= n + 1 /\ (n + 1) * MaxSendLength \in Nat
  BY <1>1
<1>. QED
  BY <1>2, <1>3

LEMMA InChunkBytes ==
  ASSUME NEW chunk \in Chunks, NEW b
  PROVE  b \in ChunkBytes(chunk) <=>
           \E k \in chunk.off + 1 .. chunk.off + chunk.total : b = <<chunk.msg, k>>
<1>. DEFINE off == chunk.off
            total == chunk.total
<1>1. off \in Nat /\ total \in Nat
  BY DEF Chunks
<1>2. ChunkBytes(chunk) = {<<chunk.msg, off + k>> : k \in 1 .. total}
  BY DEF ChunkBytes
<1>. HIDE DEF off, total
<1>3. ASSUME NEW k \in off + 1 .. off + total, b = <<chunk.msg, k>>
      PROVE  b \in {<<chunk.msg, off + i>> : i \in 1 .. total}
  <2>1. k - off \in 1 .. total /\ off + (k - off) = k
    BY <1>1
  <2>2. <<chunk.msg, off + (k - off)>> \in {<<chunk.msg, off + i>> : i \in 1 .. total}
    BY <2>1
  <2>. QED
    BY <1>3, <2>1, <2>2
<1>4. ASSUME NEW i \in 1 .. total, b = <<chunk.msg, off + i>>
      PROVE  \E k \in off + 1 .. off + total : b = <<chunk.msg, k>>
  BY <1>1, <1>4
<1>. QED
  BY <1>2, <1>3, <1>4 DEF off, total

LEMMA PushChunkKeeps ==
  ASSUME IInv, NEW s \in Senders, PushChunk(s)
  PROVE  IInv'
<1>1. PICK msg, off, total, new, len :
        /\ msg = pushing[s].msg /\ off = pushing[s].off /\ total = ChunkLen(messages[msg] - off)
        /\ new = [msg |-> msg, off |-> off, total |-> total, completed |-> 0]
        /\ len = Len(m_sendQueue)
  OBVIOUS
<1>1a. /\ pushing[s] # Idle
       /\ m_sendQueue' = Append(m_sendQueue, new)
       /\ m_mallocSize' = m_mallocSize + total
       /\ pushing' = [pushing EXCEPT ![s] =
            IF LastChunk(msg, off + total) THEN Idle ELSE [msg |-> msg, off |-> off + total]]
       /\ UNCHANGED <<messages, wire, callbacks, failed>>
  BY <1>1 DEF PushChunk
<1>2. /\ pushing[s] # Idle
      /\ m_mallocSize' = m_mallocSize + total
      /\ UNCHANGED <<messages, wire, callbacks, failed>>
      /\ msg \in DOMAIN messages /\ messages[msg] \in MsgSizes /\ messages[msg] \in Nat
      /\ msg \in Nat \ {0}
      /\ off \in Nat /\ off < messages[msg]
      /\ \E n \in Nat : off = n * MaxSendLength
      /\ total \in 1 .. MaxSendLength
      /\ off + total <= messages[msg]
      /\ total = MaxSendLength \/ off + total = messages[msg]
      /\ new \in Chunks
  <2>1. /\ msg \in DOMAIN messages /\ messages[msg] \in MsgSizes /\ messages[msg] \in Nat
        /\ msg \in Nat \ {0}
        /\ off \in Nat /\ off < messages[msg]
        /\ \E n \in Nat : off = n * MaxSendLength
        /\ total \in 1 .. MaxSendLength
        /\ off + total <= messages[msg]
        /\ total = MaxSendLength \/ off + total = messages[msg]
    BY <1>1, <1>1a, PushOf DEF IInv
  <2>2. new \in Chunks
    BY <1>1, <2>1 DEF Chunks
  <2>. QED
    BY <1>1a, <2>1, <2>2
<1>3. /\ len \in Nat /\ DOMAIN m_sendQueue = 1 .. len
      /\ m_sendQueue' \in Seq(Chunks)
      /\ Len(m_sendQueue') = len + 1
      /\ DOMAIN m_sendQueue' = 1 .. len + 1
      /\ \A i \in 1 .. len : m_sendQueue'[i] = m_sendQueue[i]
      /\ m_sendQueue'[len + 1] = new
  <2>1. m_sendQueue \in Seq(Chunks)
    BY DEF IInv, TypeOK
  <2>2. Append(m_sendQueue, new) \in Seq(Chunks)
    BY <1>2, <2>1, AppendProperties
  <2>. QED
    BY <1>1, <1>1a, <1>2, <2>1, <2>2, AppendProperties, LenProperties
<1>4. /\ pushing' \in [Senders -> [msg : Nat, off : Nat]]
      /\ \A t \in Senders : t # s => pushing'[t] = pushing[t]
      /\ pushing'[s] = IF off + total = messages[msg] THEN Idle ELSE [msg |-> msg, off |-> off + total]
      /\ Idle.msg = 0
  <2>1. pushing \in [Senders -> [msg : Nat, off : Nat]]
    BY DEF IInv, TypeOK
  <2>2. off + total \in Nat /\ Idle \in [msg : Nat, off : Nat] /\ [msg |-> msg, off |-> off + total] \in [msg : Nat, off : Nat]
    BY <1>2, SendAssumption DEF Idle
  <2>. QED
    BY <1>1a, <2>1, <2>2 DEF LastChunk, Idle
<1>. USE DEF IInv
<1>5. total \in Nat /\ total > 0 /\ off + total \in Nat
  BY <1>2, SendAssumption
<1>6. new.msg = msg /\ new.off = off /\ new.total = total /\ new.completed = 0
  BY <1>1
<1>7. \A t \in Senders : pushing'[t] # Idle =>
        \/ t # s /\ pushing'[t] = pushing[t] /\ pushing[t].msg # msg
        \/ t = s /\ off + total # messages[msg] /\ pushing'[s].msg = msg /\ pushing'[s].off = off + total
  <2>. SUFFICES ASSUME NEW t \in Senders, pushing'[t] # Idle
                PROVE  \/ t # s /\ pushing'[t] = pushing[t] /\ pushing[t].msg # msg
                       \/ t = s /\ off + total # messages[msg] /\ pushing'[s].msg = msg /\ pushing'[s].off = off + total
    OBVIOUS
  <2>1. CASE t # s
    <3>1. pushing'[t] = pushing[t] /\ pushing[t] # Idle
      BY <1>4, <2>1
    <3>2. pushing[t].msg # pushing[s].msg
      BY <2>1, <3>1 DEF PushesOnBoundary
    <3>. QED
      BY <1>1, <2>1, <3>1, <3>2
  <2>2. CASE t = s
    <3>1. off + total # messages[msg] /\ pushing'[s] = [msg |-> msg, off |-> off + total]
      BY <1>4, <2>2
    <3>2. pushing'[s].msg = msg /\ pushing'[s].off = off + total
      BY <3>1
    <3>. QED
      BY <2>2, <3>1, <3>2
  <2>. QED
    BY <2>1, <2>2
<1>8. \A i \in 1 .. len + 1 : Ahead(i)' = Ahead(i)
  <2>. SUFFICES ASSUME NEW i \in 1 .. len + 1 PROVE Ahead(i)' = Ahead(i)
    OBVIOUS
  <2>1. \A h \in 1 .. i - 1 : m_sendQueue'[h] = m_sendQueue[h]
    BY <1>3
  <2>. QED
    BY <1>2, <2>1 DEF Ahead
<1>10. TypeOK'
  BY <1>2, <1>3, <1>4, <1>5 DEF TypeOK
<1>11. PushesOnBoundary'
  <2>1. ASSUME NEW t \in Senders, pushing'[t] # Idle
        PROVE  OnBoundary(pushing[t].msg, pushing[t].off)'
    <3>1. CASE t # s
      BY <1>2, <1>7, <2>1, <3>1 DEF PushesOnBoundary, OnBoundary
    <3>2. CASE t = s
      <4>1. total = MaxSendLength /\ off + total < messages[msg]
            /\ pushing'[t].msg = msg /\ pushing'[t].off = off + total
        <5>1. off + total # messages[msg] /\ pushing'[t].msg = msg /\ pushing'[t].off = off + total
          BY <1>7, <2>1, <3>2
        <5>2. /\ total = MaxSendLength \/ off + total = messages[msg]
              /\ off + total <= messages[msg]
              /\ messages[msg] \in Nat
          BY <1>2
        <5>. QED
          BY <1>5, <5>1, <5>2
      <4>2. PICK n \in Nat : off = n * MaxSendLength
        BY <1>2
      <4>3. n + 1 \in Nat /\ off + total = (n + 1) * MaxSendLength
        BY <4>1, <4>2, NextBoundary
      <4>. QED
        BY <1>2, <4>1, <4>3 DEF OnBoundary
    <3>. QED
      BY <3>1, <3>2
  <2>2. ASSUME NEW t \in Senders, NEW u \in Senders, pushing'[t] # Idle,
               pushing'[t].msg = pushing'[u].msg
        PROVE  t = u
    <3>1. pushing'[t].msg # 0
      <4>1. CASE t = s
        BY <1>2, <1>7, <2>2, <4>1
      <4>2. CASE t # s
        BY <1>7, <2>2, <4>2, PushOf
      <4>. QED
        BY <4>1, <4>2
    <3>2. pushing'[u] # Idle
      BY <1>4, <2>2, <3>1
    <3>. QED
      BY <1>7, <2>2, <3>2 DEF PushesOnBoundary
  <2>. QED
    BY <2>1, <2>2 DEF PushesOnBoundary
<1>12. ChunksOnBoundary'
  <2>. SUFFICES ASSUME NEW i \in 1 .. len + 1
                PROVE  LET c == m_sendQueue'[i]
                       IN /\ OnBoundary(c.msg, c.off)
                          /\ c.total = ChunkLen(messages[c.msg] - c.off)
                          /\ c.completed < c.total
                          /\ i > 1 => c.completed = 0
    BY <1>2, <1>3 DEF ChunksOnBoundary, OnBoundary
  <2>1. CASE i \in 1 .. len
    BY <1>3, <2>1 DEF ChunksOnBoundary
  <2>2. CASE i = len + 1
    <3>1. m_sendQueue'[i] = new
      BY <1>3, <2>2
    <3>. QED
      BY <1>1, <1>2, <1>5, <1>6, <3>1 DEF OnBoundary
  <2>. QED
    BY <1>3, <2>1, <2>2
<1>13. WireAccepted'
  BY <1>2 DEF WireAccepted
<1>14. MessagesInOrder'
  <2>1. \A i \in 1 .. len + 1 :
          Numbers(Ahead(i), m_sendQueue'[i].msg) = 1 .. m_sendQueue'[i].off + m_sendQueue'[i].completed
    <3>. SUFFICES ASSUME NEW i \in 1 .. len + 1
                  PROVE  Numbers(Ahead(i), m_sendQueue'[i].msg) = 1 .. m_sendQueue'[i].off + m_sendQueue'[i].completed
      OBVIOUS
    <3>1. CASE i \in 1 .. len
      BY <1>3, <3>1 DEF MessagesInOrder
    <3>2. CASE i = len + 1
      <4>1. m_sendQueue'[i] = new /\ off + 0 = off
        BY <1>2, <1>3, <3>2
      <4>2. Numbers(Ahead(len + 1), msg) = 1 .. off
        BY <1>1, <1>2 DEF PushesInOrder
      <4>. QED
        BY <1>6, <3>2, <4>1, <4>2
    <3>. QED
      BY <1>3, <3>1, <3>2
  <2>2. \A i \in DOMAIN m_sendQueue' :
          Numbers(Ahead(i)', m_sendQueue'[i].msg) = 1 .. m_sendQueue'[i].off + m_sendQueue'[i].completed
    BY <1>3, <1>8, <2>1
  <2>. QED
    BY ZenonT(40), <1>2, <2>2 DEF MessagesInOrder
<1>15. PushesInOrder'
  <2>1. Ahead(len + 2)' = Ahead(len + 1) \cup Rest(new)
    <3>1. 1 .. (len + 2) - 1 = (1 .. (len + 1) - 1) \cup {len + 1}
      BY <1>3
    <3>2. \A h \in 1 .. (len + 1) - 1 : m_sendQueue'[h] = m_sendQueue[h]
      BY <1>3
    <3>. QED
      BY SMTT(30), <1>2, <1>3, <3>1, <3>2 DEF Ahead
  <2>2. \A m : Numbers(Ahead(len + 2)', m) = Numbers(Ahead(len + 1), m) \cup Numbers(Rest(new), m)
    BY <2>1, NumbersUnion
  <2>3. \A m : Numbers(Rest(new), m) = IF m = msg THEN off + 1 .. off + total ELSE {}
    <3>1. new.completed <= new.total /\ off + 0 + 1 = off + 1
      BY <1>2, <1>5, <1>6
    <3>. QED
      BY <1>2, <1>6, <3>1, RestNumbers
  <2>. SUFFICES ASSUME NEW t \in Senders, pushing'[t] # Idle
                PROVE  Numbers(Ahead(len + 2)', pushing'[t].msg) = 1 .. pushing'[t].off
    <3>1. Len(m_sendQueue') + 1 = len + 2
      BY <1>3
    <3>. QED
      BY <3>1 DEF PushesInOrder
  <2>4. CASE t # s
    <3>1. Numbers(Rest(new), pushing'[t].msg) = {}
      BY <1>7, <2>3, <2>4
    <3>2. Numbers(Ahead(len + 1), pushing[t].msg) = 1 .. pushing[t].off
      BY <1>1, <1>7, <2>4 DEF PushesInOrder
    <3>. QED
      BY <1>7, <2>2, <2>4, <3>1, <3>2
  <2>5. CASE t = s
    <3>1. pushing'[t].msg = msg /\ pushing'[t].off = off + total
      BY <1>7, <2>5
    <3>2. Numbers(Ahead(len + 1), msg) = 1 .. off
      BY <1>1, <1>2 DEF PushesInOrder
    <3>3. (1 .. off) \cup (off + 1 .. off + total) = 1 .. off + total
      BY <1>2, <1>5
    <3>. QED
      BY <2>2, <2>3, <3>1, <3>2, <3>3
  <2>. QED
    BY <2>4, <2>5
<1>16. LastByte'
  <2>1. m_sendQueue # <<>> <=> len > 0
    BY <1>1, <1>3, EmptySeq DEF TypeOK
  <2>2. m_sendQueue' # <<>>
    BY <1>3, EmptySeq
  <2>3. CASE m_sendQueue # <<>>
    <3>1. m_sendQueue'[1] = m_sendQueue[1]
      BY <1>3, <2>1, <2>3
    <3>. QED
      BY <1>2, <2>2, <2>3, <3>1 DEF LastByte, Begun, EndsChunk
  <2>4. CASE m_sendQueue = <<>>
    <3>1. m_sendQueue'[1].completed = 0
      BY <1>3, <1>6, <2>1, <2>4
    <3>. QED
      BY <1>2, <2>4, <3>1 DEF LastByte, Begun, EndsChunk
  <2>. QED
    BY <2>3, <2>4
<1>17. ChunksWhole'
  BY <1>2 DEF ChunksWhole, EndsChunk
<1>18. QueueFinite' /\ MallocMatchesQueue'
  <2>. DEFINE A == QueuedBytes
              B == ChunkBytes(new)
  <2>1. QueuedBytes' = A \cup B
    BY <1>3 DEF QueuedBytes
  <2>2. A \cap B = {}
    <3>. SUFFICES ASSUME NEW b \in B, NEW h \in DOMAIN m_sendQueue, b \in ChunkBytes(m_sendQueue[h])
                  PROVE  FALSE
      BY DEF QueuedBytes
    <3>1. PICK k \in off + 1 .. off + total : b = <<msg, k>>
      BY <1>2, <1>6, InChunkBytes
    <3>2. /\ m_sendQueue[h] \in Chunks /\ m_sendQueue[h].off \in Nat
          /\ m_sendQueue[h].total \in Nat
      BY ChunkOf, SendAssumption DEF Chunks
    <3>3. PICK i \in m_sendQueue[h].off + 1 .. m_sendQueue[h].off + m_sendQueue[h].total :
            b = <<m_sendQueue[h].msg, i>>
      BY <3>2, InChunkBytes
    <3>4. m_sendQueue[h].msg = msg /\ i = k
      BY <3>1, <3>3
    <3>5. m_sendQueue[h].off + m_sendQueue[h].total <= off
      BY <1>1, <1>2, <3>4, EarlierEndsPush
    <3>. QED
      BY <1>2, <3>2, <3>4, <3>5
  <2>3. IsFiniteSet(A) /\ m_mallocSize = Cardinality(A) /\ Cardinality(A) \in Nat
    BY FS_CardinalityType DEF QueueFinite, MallocMatchesQueue
  <2>4. IsFiniteSet(B) /\ Cardinality(B) = total
    BY <1>2, <1>6, ChunkBytesCount
  <2>. HIDE DEF A, B
  <2>5. /\ IsFiniteSet(A \cup B)
        /\ Cardinality(A \cup B) = Cardinality(A) + Cardinality(B) - Cardinality({})
    BY <2>2, <2>3, <2>4, FS_Union
  <2>6. Cardinality(A \cup B) = m_mallocSize + total
    BY <1>5, <2>3, <2>4, <2>5, FS_EmptySet
  <2>. QED
    BY <1>2, <2>1, <2>5, <2>6 DEF QueueFinite, MallocMatchesQueue
<1>19. SuccessesOut'
  BY <1>2 DEF SuccessesOut
<1>20. PendingBounded'
  <2>. DEFINE P == Pending
              Q == Pending'
              L == Largest
              D == {s} \X (off + 1 .. off + total)
  <2>1. P \in SUBSET (Senders \X (1 .. L)) /\ Q \in SUBSET (Senders \X (1 .. L))
    BY DEF Pending
  <2>2. P = Q \cup D
    <3>1. ASSUME NEW t \in Senders, NEW k \in 1 .. L PROVE <<t, k>> \in P <=> <<t, k>> \in Q \/ <<t, k>> \in D
      <4>1. <<t, k>> \in P <=> pushing[t] # Idle /\ pushing[t].off < k /\ k <= messages[pushing[t].msg]
        BY DEF Pending
      <4>2. <<t, k>> \in Q <=> pushing'[t] # Idle /\ pushing'[t].off < k /\ k <= messages[pushing'[t].msg]
        BY <1>2 DEF Pending
      <4>3. CASE t # s
        BY <1>4, <4>1, <4>2, <4>3
      <4>4. CASE t = s
        <5>1. <<t, k>> \in P <=> off < k /\ k <= messages[msg]
          BY <1>1, <1>2, <4>1, <4>4
        <5>2. <<t, k>> \in D <=> off < k /\ k <= off + total
          BY <1>2, <1>5, <4>4, LargestOf
        <5>3. <<t, k>> \in Q <=> off + total < k /\ k <= messages[msg]
          <6>1. k \in Nat
            BY LargestOf
          <6>2. CASE off + total = messages[msg]
            BY <1>2, <1>4, <1>5, <4>2, <4>4, <6>1, <6>2
          <6>3. CASE off + total # messages[msg]
            <7>1. pushing'[s] # Idle /\ pushing'[s].msg = msg /\ pushing'[s].off = off + total
              BY <1>2, <1>4, <6>3
            <7>. QED
              BY <4>2, <4>4, <7>1
          <6>. QED
            BY <6>2, <6>3
        <5>4. k \in Nat
          BY LargestOf
        <5>. QED
          BY <1>2, <1>5, <5>1, <5>2, <5>3, <5>4
      <4>. QED
        BY <4>3, <4>4
    <3>2. D \in SUBSET (Senders \X (1 .. L))
      <4>1. messages[msg] <= L /\ L \in Nat
        BY <1>2, LargestOf
      <4>2. off + 1 .. off + total \in SUBSET (1 .. L)
        BY <1>2, <1>5, <4>1
      <4>. QED
        BY <4>2
    <3>. HIDE DEF P, Q, D, L
    <3>. QED
      BY <2>1, <3>1, <3>2
  <2>3. Q \cap D = {}
    <3>. SUFFICES ASSUME NEW k \in off + 1 .. off + total, <<s, k>> \in Q PROVE FALSE
      OBVIOUS
    <3>1. pushing'[s] # Idle /\ pushing'[s].off < k
      BY DEF Pending
    <3>2. pushing'[s].off = off + total
      BY <1>7, <3>1
    <3>. QED
      BY <1>2, <1>5, <3>1, <3>2
  <2>4. IsFiniteSet(P) /\ IsFiniteSet(Q) /\ Cardinality(P) \in Nat /\ Cardinality(Q) \in Nat
    BY <2>1, PendingSize
  <2>5. IsFiniteSet(D) /\ Cardinality(D) = total
    <3>. DEFINE I == off + 1 .. off + total
    <3>1. off + 1 \in Int /\ off + total \in Int /\ ~(off + 1 > off + total) /\ (off + total) - (off + 1) + 1 = total
      <4>1. off \in Nat
        BY <1>2
      <4>. QED
        BY <1>5, <4>1
    <3>2. IsFiniteSet(I) /\ Cardinality(I) = total
      BY <3>1, FS_Interval
    <3>. HIDE DEF I
    <3>3. IsFiniteSet({s}) /\ Cardinality({s}) = 1
      BY FS_Singleton
    <3>4. IsFiniteSet({s} \X I) /\ Cardinality({s} \X I) = Cardinality({s}) * Cardinality(I)
      BY <3>2, <3>3, FS_Product
    <3>5. Cardinality({s} \X I) = total
      BY <1>5, <3>2, <3>3, <3>4
    <3>. QED
      BY <3>4, <3>5 DEF I
  <2>6. m_mallocSize \in Nat
    BY DEF TypeOK
  <2>7. m_mallocSize + Cardinality(P) <= MaxSendBuffer + Cardinality(Senders) * Largest
    BY DEF PendingBounded
  <2>. HIDE DEF P, Q, D
  <2>8. Cardinality(Q \cup D) = Cardinality(Q) + Cardinality(D) - Cardinality({})
    BY <2>3, <2>4, <2>5, FS_Union
  <2>9. m_mallocSize' + Cardinality(Q) = m_mallocSize + Cardinality(P)
    BY <1>2, <1>5, <2>2, <2>4, <2>5, <2>6, <2>8, FS_EmptySet
  <2>. QED
    BY <2>7, <2>9 DEF PendingBounded, Q
<1>. QED
  BY <1>10, <1>11, <1>12, <1>13, <1>14, <1>15, <1>16, <1>17, <1>18, <1>19, <1>20


(* send() takes n bytes of the chunk at the front.                         *)
LEMMA FrontOf ==
  ASSUME TypeOK, ChunksOnBoundary, MessagesInOrder, m_sendQueue # <<>>
  PROVE  /\ Len(m_sendQueue) \in Nat \ {0} /\ DOMAIN m_sendQueue = 1 .. Len(m_sendQueue)
         /\ 1 \in DOMAIN m_sendQueue /\ Head(m_sendQueue) = m_sendQueue[1]
         /\ Numbers(ToSet(wire), m_sendQueue[1].msg) =
              1 .. m_sendQueue[1].off + m_sendQueue[1].completed
<1>1. m_sendQueue \in Seq(Chunks)
  BY DEF TypeOK
<1>2. Len(m_sendQueue) \in Nat \ {0} /\ DOMAIN m_sendQueue = 1 .. Len(m_sendQueue)
  BY <1>1, EmptySeq, LenProperties
<1>3. 1 \in DOMAIN m_sendQueue /\ Head(m_sendQueue) = m_sendQueue[1]
  BY <1>1, <1>2
<1>4. Ahead(1) = ToSet(wire)
  <2>1. 1 .. 1 - 1 = {}
    OBVIOUS
  <2>. QED
    BY <2>1 DEF Ahead
<1>5. Numbers(Ahead(1), m_sendQueue[1].msg) = 1 .. m_sendQueue[1].off + m_sendQueue[1].completed
  BY <1>3 DEF MessagesInOrder
<1>. QED
  BY <1>2, <1>3, <1>4, <1>5

LEMMA TakeKeeps ==
  ASSUME IInv, m_sendQueue # <<>>, NEW n \in 1 .. ToSend(m_sendQueue[1]),
         wire \o Bytes(m_sendQueue[1], n) = wire', messages = messages'
  PROVE  /\ wire' \in Seq(Nat \X Nat)
         /\ WireAccepted'
         /\ WireInOrder(wire')
         /\ ChunksWhole'
         /\ wire' # <<>> /\ Len(wire') \in DOMAIN wire'
         /\ wire'[Len(wire')] =
              <<m_sendQueue[1].msg, m_sendQueue[1].off + m_sendQueue[1].completed + n>>
         /\ ToSet(wire') = ToSet(wire) \cup ToSet(Bytes(m_sendQueue[1], n))
         /\ \A j \in DOMAIN wire : j \in DOMAIN wire' /\ wire'[j] = wire[j]
<1>1. PICK chunk, len, start :
        chunk = m_sendQueue[1] /\ len = Len(wire) /\ start = chunk.off + chunk.completed
  OBVIOUS
<1>2. /\ chunk \in Chunks /\ chunk.msg \in DOMAIN messages
      /\ start \in Nat /\ n \in Nat /\ n > 0
      /\ Numbers(ToSet(wire), chunk.msg) = 1 .. chunk.off + chunk.completed
      /\ wire \in Seq(Nat \X Nat) /\ len \in Nat /\ DOMAIN wire = 1 .. len
      /\ wire # <<>> <=> len > 0
  <2>1. /\ chunk \in Chunks /\ chunk.msg \in DOMAIN messages
        /\ ToSend(chunk) \in 1 .. MaxSendLength
        /\ Numbers(ToSet(wire), chunk.msg) = 1 .. chunk.off + chunk.completed
    BY <1>1, FrontOf, ChunkOf DEF IInv
  <2>2. start \in Nat
    BY <1>1, <2>1 DEF Chunks
  <2>3. n \in Nat /\ n > 0
    BY <1>1, <2>1, SendAssumption
  <2>4. wire \in Seq(Nat \X Nat) /\ len \in Nat /\ DOMAIN wire = 1 .. len /\ (wire # <<>> <=> len > 0)
    BY <1>1, LenProperties, EmptySeq DEF TypeOK, IInv
  <2>. QED
    BY <2>1, <2>2, <2>3, <2>4
<1>3. PICK b : b = Bytes(chunk, n)
  OBVIOUS
<1>4. /\ b \in Seq(Nat \X Nat) /\ Len(b) = n
      /\ \A k \in 1 .. n : b[k] = <<chunk.msg, start + k>>
  BY ZenonT(40), <1>1, <1>2, <1>3, BytesOf
<1>5. wire \o b = wire'
  BY <1>1, <1>3
<1>6. /\ wire' \in Seq(Nat \X Nat) /\ Len(wire') = len + n /\ DOMAIN wire' = 1 .. len + n
      /\ \A i \in 1 .. len + n : wire'[i] = IF i <= len THEN wire[i] ELSE b[i - len]
  <2>1. /\ wire \o b \in Seq(Nat \X Nat) /\ Len(wire \o b) = len + n
        /\ \A i \in 1 .. len + n : (wire \o b)[i] = IF i <= len THEN wire[i] ELSE b[i - len]
    BY ZenonT(40), <1>1, <1>2, <1>4, ConcatProperties
  <2>. QED
    BY <1>5, <2>1, LenProperties
<1>7. \A i \in 1 .. len : i \in 1 .. len + n /\ wire'[i] = wire[i]
  <2>. SUFFICES ASSUME NEW i \in 1 .. len PROVE i \in 1 .. len + n /\ wire'[i] = wire[i]
    OBVIOUS
  <2>1. i \in 1 .. len + n /\ i <= len
    BY <1>2
  <2>. QED
    BY <1>6, <2>1
<1>8. \A i \in len + 1 .. len + n : wire'[i] = <<chunk.msg, start + (i - len)>>
  <2>. SUFFICES ASSUME NEW i \in len + 1 .. len + n
                PROVE  wire'[i] = <<chunk.msg, start + (i - len)>>
    OBVIOUS
  <2>1. i \in 1 .. len + n /\ ~(i <= len) /\ i - len \in 1 .. n
    BY <1>2
  <2>. QED
    BY <1>4, <1>6, <2>1
<1>9. ToSet(wire') = ToSet(wire) \cup ToSet(b)
  <2>1. ToSet(wire \o b) = ToSet(wire) \cup ToSet(b)
    BY <1>2, <1>4, ConcatSet
  <2>. QED
    BY <1>5, <2>1
<1>10. WireInOrder(wire')
  BY <1>2, <1>3, <1>5, WireExtends, Ordered DEF IInv
<1>11. WireAccepted'
  <2>. SUFFICES ASSUME NEW j \in 1 .. len + n PROVE wire'[j][1] \in DOMAIN messages
    BY <1>6 DEF WireAccepted
  <2>1. CASE j \in 1 .. len
    BY <1>2, <1>7, <2>1 DEF WireAccepted, IInv
  <2>2. CASE j \in len + 1 .. len + n
    BY <1>2, <1>8, <2>2
  <2>. QED
    BY <1>2, <2>1, <2>2
<1>12. wire' # <<>> /\ Len(wire') \in DOMAIN wire' /\ wire'[Len(wire')] = <<chunk.msg, start + n>>
  <2>1. len + n \in 1 .. len + n /\ len + n \in len + 1 .. len + n /\ (len + n) - len = n
    BY <1>2
  <2>2. wire'[len + n] = <<chunk.msg, start + n>>
    BY <1>8, <2>1
  <2>3. wire' # <<>>
    BY <1>6, <2>1, EmptySeq
  <2>. QED
    BY <1>6, <2>1, <2>2, <2>3
<1>13. ChunksWhole'
  <2>. SUFFICES ASSUME NEW j \in 1 .. Len(wire') - 1, wire'[j][1] # wire'[j + 1][1]
                PROVE  EndsChunk(wire[j])'
    BY DEF ChunksWhole
  <2>. SUFFICES EndsChunk(wire'[j])
    BY DEF EndsChunk
  <2>0. j \in 1 .. len + n - 1
    <3>1. Len(wire') - 1 = len + n - 1
      BY <1>2, <1>6
    <3>. QED
      BY <3>1
  <2>1. CASE j < len
    <3>1. j \in 1 .. len /\ j + 1 \in 1 .. len /\ j \in 1 .. Len(wire) - 1
      <4>1. len - 1 = Len(wire) - 1
        BY <1>1
      <4>2. j \in 1 .. len /\ j + 1 \in 1 .. len /\ j \in 1 .. len - 1
        BY <1>2, <2>0, <2>1
      <4>. QED
        BY <4>1, <4>2
    <3>. QED
      BY <1>7, <3>1 DEF ChunksWhole, IInv
  <2>2. CASE j = len
    <3>1. len \in 1 .. len /\ len + 1 \in len + 1 .. len + n /\ len > 0
      BY <1>2, <2>0, <2>2
    <3>2. wire'[j] = wire[len] /\ wire'[j + 1] = <<chunk.msg, start + ((len + 1) - len)>>
      BY <1>7, <1>8, <2>2, <3>1
    <3>3. wire[len][1] # chunk.msg
      BY <3>2
    <3>4. ~Begun
      BY <1>1, <3>3 DEF LastByte, IInv
    <3>. QED
      BY <1>1, <1>2, <3>1, <3>2, <3>4 DEF LastByte, IInv
  <2>3. CASE j > len
    <3>1. j \in len + 1 .. len + n /\ j + 1 \in len + 1 .. len + n
      BY <1>2, <2>0, <2>3
    <3>2. wire'[j][1] = chunk.msg /\ wire'[j + 1][1] = chunk.msg
      BY <1>8, <3>1
    <3>. QED
      BY <3>2
  <2>. QED
    BY <1>2, <2>0, <2>1, <2>2, <2>3
<1>. QED
  BY <1>1, <1>2, <1>3, <1>6, <1>7, <1>9, <1>10, <1>11, <1>12, <1>13

LEMMA BytesSplit ==
  ASSUME NEW c \in Chunks, NEW d \in Chunks, NEW n \in Nat, NEW m \in Nat,
         d.msg = c.msg, d.off = c.off, d.completed = c.completed + n
  PROVE  ToSet(Bytes(c, n + m)) = ToSet(Bytes(c, n)) \cup ToSet(Bytes(d, m))
<1>. DEFINE start == c.off + c.completed
            msg == c.msg
<1>2. start \in Nat /\ d.off + d.completed = start + n
  BY DEF Chunks
<1>3. /\ ToSet(Bytes(c, n + m)) = {<<msg, start + k>> : k \in 1 .. n + m}
      /\ ToSet(Bytes(c, n)) = {<<msg, start + k>> : k \in 1 .. n}
      /\ ToSet(Bytes(d, m)) = {<<msg, (start + n) + k>> : k \in 1 .. m}
  <2>1. /\ ToSet(Bytes(c, n + m)) = {<<c.msg, c.off + c.completed + k>> : k \in 1 .. n + m}
        /\ ToSet(Bytes(c, n)) = {<<c.msg, c.off + c.completed + k>> : k \in 1 .. n}
    <3>1. n + m \in Nat
      OBVIOUS
    <3>. QED
      BY <3>1, BytesOf
  <2>2. ToSet(Bytes(d, m)) = {<<d.msg, d.off + d.completed + k>> : k \in 1 .. m}
    BY BytesOf
  <2>3. {<<d.msg, d.off + d.completed + k>> : k \in 1 .. m} = {<<msg, (start + n) + k>> : k \in 1 .. m}
    BY <1>2
  <2>. QED
    BY <2>1, <2>2, <2>3
<1>. HIDE DEF start, msg
<1>4. ASSUME NEW k \in 1 .. n + m
      PROVE  <<msg, start + k>> \in {<<msg, start + i>> : i \in 1 .. n}
               \cup {<<msg, (start + n) + i>> : i \in 1 .. m}
  <2>1. CASE k <= n
    <3>1. k \in 1 .. n
      BY <2>1
    <3>. QED
      BY <3>1
  <2>2. CASE k > n
    <3>1. k - n \in 1 .. m /\ (start + n) + (k - n) = start + k
      BY <1>2, <2>2
    <3>2. <<msg, (start + n) + (k - n)>> \in {<<msg, (start + n) + i>> : i \in 1 .. m}
      BY <3>1
    <3>. QED
      BY <3>1, <3>2
  <2>. QED
    BY <2>1, <2>2
<1>5. ASSUME NEW k \in 1 .. m PROVE <<msg, (start + n) + k>> \in {<<msg, start + i>> : i \in 1 .. n + m}
  <2>1. n + k \in 1 .. n + m /\ start + (n + k) = (start + n) + k
    BY <1>2
  <2>2. <<msg, start + (n + k)>> \in {<<msg, start + i>> : i \in 1 .. n + m}
    BY <2>1
  <2>. QED
    BY <2>1, <2>2
<1>6. \A k \in 1 .. n : k \in 1 .. n + m
  OBVIOUS
<1>. QED
  BY <1>3, <1>4, <1>5, <1>6

LEMMA SendPartKeeps ==
  ASSUME IInv, NEW n \in 1 .. MaxSendLength, SendPart(n)
  PROVE  IInv'
<1>. USE DEF IInv
<1>1. /\ m_sendQueue # <<>> /\ n < ToSend(Head(m_sendQueue))
      /\ wire' = wire \o Bytes(Head(m_sendQueue), n)
      /\ m_sendQueue' = [m_sendQueue EXCEPT ![1].completed = @ + n]
      /\ UNCHANGED <<messages, pushing, m_mallocSize, callbacks, failed>>
  BY DEF SendPart, AfterPart
<1>2. PICK c, part, len :
        /\ c = m_sendQueue[1] /\ part = [m_sendQueue[1] EXCEPT !.completed = @ + n]
        /\ len = Len(m_sendQueue)
  OBVIOUS
<1>3. /\ len \in Nat /\ len > 0 /\ DOMAIN m_sendQueue = 1 .. len /\ 1 \in DOMAIN m_sendQueue
      /\ Head(m_sendQueue) = c
      /\ Numbers(ToSet(wire), c.msg) = 1 .. c.off + c.completed
  BY <1>1, <1>2, FrontOf
<1>4. /\ c \in Chunks /\ c.msg \in DOMAIN messages /\ messages[c.msg] \in Nat
      /\ c.off \in Nat /\ c.completed \in Nat
      /\ c.total \in Nat /\ c.completed + ToSend(c) = c.total /\ ToSend(c) \in Nat
      /\ c.total = ChunkLen(messages[c.msg] - c.off)
      /\ OnBoundary(c.msg, c.off)
  BY <1>2, <1>3, ChunkOf, SendAssumption DEF ChunksOnBoundary, Chunks
<1>5. n \in Nat /\ n > 0 /\ n < ToSend(c) /\ n \in 1 .. ToSend(c)
  BY SMTT(30), <1>1, <1>3, <1>4, SendAssumption
<1>6. /\ part \in Chunks /\ part.msg = c.msg /\ part.off = c.off /\ part.total = c.total
      /\ part.completed = c.completed + n /\ part.completed < part.total
  BY SMTT(30), <1>2, <1>4, <1>5 DEF Chunks
<1>7. /\ m_sendQueue' \in Seq(Chunks) /\ Len(m_sendQueue') = len /\ DOMAIN m_sendQueue' = 1 .. len
      /\ m_sendQueue'[1] = part
      /\ \A i \in 1 .. len : i # 1 => m_sendQueue'[i] = m_sendQueue[i]
  <2>1. m_sendQueue \in Seq(Chunks) /\ 1 \in 1 .. Len(m_sendQueue)
    BY <1>2, <1>3 DEF TypeOK
  <2>2. m_sendQueue' = [m_sendQueue EXCEPT ![1] = part]
    BY <1>1, <1>2
  <2>3. /\ [m_sendQueue EXCEPT ![1] = part] \in Seq(Chunks)
        /\ Len([m_sendQueue EXCEPT ![1] = part]) = Len(m_sendQueue)
        /\ \A j \in 1 .. Len(m_sendQueue) :
             [m_sendQueue EXCEPT ![1] = part][j] = IF j = 1 THEN part ELSE m_sendQueue[j]
    BY <1>6, <2>1, ExceptSeq
  <2>. QED
    BY <1>2, <2>1, <2>2, <2>3, LenProperties
<1>8. /\ wire' \in Seq(Nat \X Nat)
      /\ WireAccepted' /\ WireInOrder(wire') /\ ChunksWhole'
      /\ wire' # <<>> /\ Len(wire') \in DOMAIN wire'
      /\ wire'[Len(wire')] = <<c.msg, c.off + c.completed + n>>
      /\ ToSet(wire') = ToSet(wire) \cup ToSet(Bytes(c, n))
      /\ \A j \in DOMAIN wire : j \in DOMAIN wire' /\ wire'[j] = wire[j]
  <2>1. wire \o Bytes(m_sendQueue[1], n) = wire' /\ n \in 1 .. ToSend(m_sendQueue[1])
    BY <1>1, <1>2, <1>3, <1>5
  <2>. HIDE DEF IInv
  <2>. QED
    BY <1>1, <1>2, <2>1, TakeKeeps
<1>9. Rest(c) = ToSet(Bytes(c, n)) \cup Rest(part)
  <2>1. PICK m : m = ToSend(c) - n
    OBVIOUS
  <2>2. m \in Nat /\ ToSend(c) = n + m /\ ToSend(part) = m
    BY <1>4, <1>5, <1>6, <2>1 DEF ToSend
  <2>3. ToSet(Bytes(c, n + m)) = ToSet(Bytes(c, n)) \cup ToSet(Bytes(part, m))
    BY <1>4, <1>5, <1>6, <2>2, BytesSplit
  <2>. QED
    BY <2>2, <2>3 DEF Rest
<1>10. \A i \in 2 .. len + 1 : Ahead(i)' = Ahead(i)
  <2>. SUFFICES ASSUME NEW i \in 2 .. len + 1 PROVE Ahead(i)' = Ahead(i)
    OBVIOUS
  <2>1. 1 .. i - 1 = {1} \cup (2 .. i - 1)
    OBVIOUS
  <2>2. \A h \in 2 .. i - 1 : m_sendQueue'[h] = m_sendQueue[h]
    BY <1>3, <1>7
  <2>3. UNION {Rest(m_sendQueue[h]) : h \in 1 .. i - 1} =
          Rest(c) \cup UNION {Rest(m_sendQueue[h]) : h \in 2 .. i - 1}
    BY <1>2, <2>1
  <2>4. UNION {Rest(m_sendQueue'[h]) : h \in 1 .. i - 1} =
          Rest(part) \cup UNION {Rest(m_sendQueue[h]) : h \in 2 .. i - 1}
    BY <1>7, <2>1, <2>2
  <2>5. Ahead(i) = ToSet(wire) \cup UNION {Rest(m_sendQueue[h]) : h \in 1 .. i - 1}
    BY DEF Ahead
  <2>6. Ahead(i)' = ToSet(wire') \cup UNION {Rest(m_sendQueue'[h]) : h \in 1 .. i - 1}
    BY DEF Ahead
  <2>. QED
    BY <1>8, <1>9, <2>3, <2>4, <2>5, <2>6
<1>11. Ahead(1)' = ToSet(wire')
  <2>1. 1 .. 1 - 1 = {}
    OBVIOUS
  <2>. QED
    BY <2>1 DEF Ahead
<1>20. TypeOK'
  BY <1>1, <1>7, <1>8 DEF TypeOK
<1>21. PushesOnBoundary'
  BY <1>1 DEF PushesOnBoundary, OnBoundary
<1>22. ChunksOnBoundary'
  <2>. SUFFICES ASSUME NEW i \in 1 .. len
                PROVE  LET d == m_sendQueue'[i]
                       IN /\ OnBoundary(d.msg, d.off)
                          /\ d.total = ChunkLen(messages[d.msg] - d.off)
                          /\ d.completed < d.total
                          /\ i > 1 => d.completed = 0
    BY <1>1, <1>7 DEF ChunksOnBoundary, OnBoundary
  <2>1. CASE i = 1
    BY <1>4, <1>6, <1>7, <2>1
  <2>2. CASE i # 1
    BY <1>3, <1>7, <2>2 DEF ChunksOnBoundary
  <2>. QED
    BY <2>1, <2>2
<1>23. MessagesInOrder'
  <2>. SUFFICES ASSUME NEW i \in 1 .. len
                PROVE  Numbers(Ahead(i)', m_sendQueue'[i].msg) =
                         1 .. m_sendQueue'[i].off + m_sendQueue'[i].completed
    BY <1>7, <1>8 DEF MessagesInOrder, WireInOrder
  <2>1. CASE i = 1
    <3>1. Numbers(ToSet(Bytes(c, n)), c.msg) = c.off + c.completed + 1 .. c.off + c.completed + n
      BY <1>4, <1>5, BytesNumbers
    <3>2. Numbers(ToSet(wire'), c.msg) = Numbers(ToSet(wire), c.msg) \cup Numbers(ToSet(Bytes(c, n)), c.msg)
      BY <1>8, NumbersUnion
    <3>3. (1 .. c.off + c.completed) \cup (c.off + c.completed + 1 .. c.off + c.completed + n)
            = 1 .. c.off + (c.completed + n)
      BY <1>4, <1>5
    <3>. QED
      BY <1>3, <1>6, <1>7, <1>11, <2>1, <3>1, <3>2, <3>3
  <2>2. CASE i # 1
    <3>1. i \in 2 .. len + 1
      BY <1>3, <2>2
    <3>. QED
      BY <1>3, <1>7, <1>10, <2>2, <3>1 DEF MessagesInOrder
  <2>. QED
    BY <2>1, <2>2
<1>24. PushesInOrder'
  <2>1. Len(m_sendQueue') + 1 = len + 1 /\ Len(m_sendQueue) + 1 = len + 1 /\ len + 1 \in 2 .. len + 1
    BY <1>2, <1>3, <1>7
  <2>2. Ahead(len + 1)' = Ahead(len + 1)
    BY <1>10, <2>1
  <2>. QED
    BY <1>1, <2>1, <2>2 DEF PushesInOrder
<1>25. LastByte'
  <2>1. m_sendQueue' # <<>>
    BY <1>3, <1>7, EmptySeq
  <2>2. part.completed > 0 /\ c.off + c.completed + n = part.off + part.completed
    BY <1>4, <1>5, <1>6
  <2>. QED
    BY <1>6, <1>7, <1>8, <2>1, <2>2 DEF LastByte, Begun
<1>26. QueueFinite' /\ MallocMatchesQueue'
  <2>1. \A i \in 1 .. len : ChunkBytes(m_sendQueue'[i]) = ChunkBytes(m_sendQueue[i])
    <3>1. ChunkBytes(part) = ChunkBytes(c)
      BY <1>6 DEF ChunkBytes
    <3>. QED
      BY <1>2, <1>7, <3>1
  <2>2. QueuedBytes' = QueuedBytes
    BY <1>3, <1>7, <2>1 DEF QueuedBytes
  <2>. QED
    BY <1>1, <2>2 DEF QueueFinite, MallocMatchesQueue
<1>27. SuccessesOut'
  BY ZenonT(40), <1>1, <1>8 DEF SuccessesOut
<1>28. PendingBounded'
  BY <1>1 DEF PendingBounded, Pending
<1>. QED
  BY <1>8, <1>20, <1>21, <1>22, <1>23, <1>24, <1>25, <1>26, <1>27, <1>28


(* A new call of a callback is the last one.                               *)
LEMMA ReportAdds ==
  ASSUME TypeOK, NEW c \in Chunks, NEW error \in BOOLEAN, NEW n \in Nat, Report(c, error, n)
  PROVE  /\ callbacks' \in Seq([msg : Nat, off : Nat, error : BOOLEAN, completed : Nat])
         /\ DOMAIN callbacks' = 1 .. Len(callbacks) + 1 /\ Len(callbacks) \in Nat
         /\ DOMAIN callbacks = 1 .. Len(callbacks)
         /\ \A i \in 1 .. Len(callbacks) : callbacks'[i] = callbacks[i]
         /\ callbacks'[Len(callbacks) + 1] =
              [msg |-> c.msg, off |-> c.off, error |-> error, completed |-> n]
         /\ Last(callbacks') = callbacks'[Len(callbacks) + 1]
<1>. DEFINE S == [msg : Nat, off : Nat, error : BOOLEAN, completed : Nat]
            r == [msg |-> c.msg, off |-> c.off, error |-> error, completed |-> n]
<1>1. r \in S
  BY DEF Chunks
<1>2. callbacks \in Seq(S)
  BY DEF TypeOK
<1>3. Append(callbacks, r) = callbacks'
  BY DEF Report
<1>. HIDE DEF S, r
<1>4. /\ callbacks' \in Seq(S) /\ Len(callbacks') = Len(callbacks) + 1
      /\ \A i \in 1 .. Len(callbacks) : callbacks'[i] = callbacks[i]
      /\ callbacks'[Len(callbacks) + 1] = r
  <2>1. /\ Append(callbacks, r) \in Seq(S)
        /\ Len(Append(callbacks, r)) = Len(callbacks) + 1
        /\ \A i \in 1 .. Len(callbacks) : Append(callbacks, r)[i] = callbacks[i]
        /\ Append(callbacks, r)[Len(callbacks) + 1] = r
    BY <1>1, <1>2, AppendProperties
  <2>. QED
    BY <1>3, <2>1
<1>5. /\ DOMAIN callbacks' = 1 .. Len(callbacks) + 1 /\ Len(callbacks) \in Nat
      /\ DOMAIN callbacks = 1 .. Len(callbacks)
  BY <1>2, <1>4, LenProperties
<1>6. Last(callbacks') = callbacks'[Len(callbacks) + 1]
  BY <1>4 DEF Last
<1>. QED
  BY <1>4, <1>5, <1>6 DEF S, r

LEMMA SendRestKeeps ==
  ASSUME IInv, SendRest
  PROVE  IInv'
<1>1. /\ m_sendQueue # <<>>
      /\ wire \o Bytes(Head(m_sendQueue), ToSend(Head(m_sendQueue))) = wire'
      /\ Report(Head(m_sendQueue), FALSE, Head(m_sendQueue).total)
      /\ m_sendQueue' = Tail(m_sendQueue)
      /\ m_mallocSize' = m_mallocSize - Head(m_sendQueue).total
      /\ UNCHANGED <<messages, pushing, failed>>
  BY DEF SendRest, Freed
<1>2. PICK c, len : c = m_sendQueue[1] /\ len = Len(m_sendQueue)
  OBVIOUS
<1>3. /\ len \in Nat /\ len > 0 /\ DOMAIN m_sendQueue = 1 .. len /\ 1 \in DOMAIN m_sendQueue
      /\ Head(m_sendQueue) = c
      /\ Numbers(ToSet(wire), c.msg) = 1 .. c.off + c.completed
  BY <1>1, <1>2, FrontOf DEF IInv
<1>4. /\ c \in Chunks /\ c.msg \in DOMAIN messages /\ messages[c.msg] \in Nat
      /\ c.off \in Nat /\ c.completed \in Nat /\ c.total \in Nat /\ c.msg \in Nat
      /\ c.completed + ToSend(c) = c.total /\ ToSend(c) \in Nat /\ ToSend(c) > 0
      /\ c.total = ChunkLen(messages[c.msg] - c.off)
      /\ \E n \in Nat : c.off = n * MaxSendLength
      /\ c.total = MaxSendLength \/ c.off + c.total = messages[c.msg]
  <2>1. /\ c \in Chunks /\ c.msg \in DOMAIN messages /\ messages[c.msg] \in Nat
        /\ c.completed + ToSend(c) = c.total /\ ToSend(c) \in 1 .. MaxSendLength
        /\ c.total = ChunkLen(messages[c.msg] - c.off)
        /\ \E n \in Nat : c.off = n * MaxSendLength
        /\ c.total = MaxSendLength \/ c.off + c.total = messages[c.msg]
    BY <1>2, <1>3, ChunkOf DEF IInv
  <2>2. c.off \in Nat /\ c.completed \in Nat /\ c.total \in Nat /\ c.msg \in Nat
    BY <2>1 DEF Chunks
  <2>3. ToSend(c) \in Nat /\ ToSend(c) > 0
    BY <2>1, SendAssumption
  <2>. QED
    BY <2>1, <2>2, <2>3
<1>5. /\ m_sendQueue' \in Seq(Chunks) /\ Len(m_sendQueue') = len - 1
      /\ DOMAIN m_sendQueue' = 1 .. len - 1
      /\ \A i \in 1 .. len - 1 : i + 1 \in 2 .. len /\ m_sendQueue'[i] = m_sendQueue[i + 1]
  <2>1. m_sendQueue \in Seq(Chunks)
    BY DEF IInv, TypeOK
  <2>2. /\ Tail(m_sendQueue) \in Seq(Chunks) /\ Len(Tail(m_sendQueue)) = Len(m_sendQueue) - 1
        /\ \A i \in 1 .. Len(Tail(m_sendQueue)) : Tail(m_sendQueue)[i] = m_sendQueue[i + 1]
    BY <1>1, <2>1, HeadTailProperties
  <2>3. \A i \in 1 .. len - 1 : i + 1 \in 2 .. len
    BY <1>3
  <2>. QED
    BY <1>1, <1>2, <2>2, <2>3, LenProperties
<1>6. /\ wire' \in Seq(Nat \X Nat)
      /\ WireAccepted' /\ WireInOrder(wire') /\ ChunksWhole'
      /\ wire' # <<>> /\ Len(wire') \in DOMAIN wire'
      /\ wire'[Len(wire')] = <<c.msg, c.off + c.total>>
      /\ ToSet(wire') = ToSet(wire) \cup Rest(c)
      /\ \A j \in DOMAIN wire : j \in DOMAIN wire' /\ wire'[j] = wire[j]
  <2>1. ToSend(m_sendQueue[1]) \in 1 .. ToSend(m_sendQueue[1])
    BY <1>2, <1>4
  <2>2. wire \o Bytes(m_sendQueue[1], ToSend(m_sendQueue[1])) = wire' /\ messages = messages'
    BY <1>1, <1>2, <1>3
  <2>3. /\ wire' \in Seq(Nat \X Nat)
        /\ WireAccepted' /\ WireInOrder(wire') /\ ChunksWhole'
        /\ wire' # <<>> /\ Len(wire') \in DOMAIN wire'
        /\ wire'[Len(wire')] = <<c.msg, c.off + c.completed + ToSend(c)>>
        /\ ToSet(wire') = ToSet(wire) \cup ToSet(Bytes(c, ToSend(c)))
        /\ \A j \in DOMAIN wire : j \in DOMAIN wire' /\ wire'[j] = wire[j]
    BY <1>1, <1>2, <2>1, <2>2, TakeKeeps
  <2>4. c.off + c.completed + ToSend(c) = c.off + c.total
    BY <1>4
  <2>. QED
    BY <2>3, <2>4 DEF Rest
<1>7. \A i \in 1 .. len : Ahead(i)' = Ahead(i + 1)
  <2>. SUFFICES ASSUME NEW i \in 1 .. len PROVE Ahead(i)' = Ahead(i + 1)
    OBVIOUS
  <2>1. /\ 1 .. (i + 1) - 1 = {1} \cup (2 .. i)
        /\ \A h \in 1 .. i - 1 : h + 1 \in 2 .. i /\ h \in 1 .. len - 1
        /\ \A h \in 2 .. i : h - 1 \in 1 .. i - 1 /\ (h - 1) + 1 = h
    BY <1>3
  <2>2. UNION {Rest(m_sendQueue[h]) : h \in 1 .. (i + 1) - 1} =
          Rest(c) \cup UNION {Rest(m_sendQueue[h]) : h \in 2 .. i}
    BY <1>2, <2>1
  <2>3. {Rest(m_sendQueue'[h]) : h \in 1 .. i - 1} = {Rest(m_sendQueue[h]) : h \in 2 .. i}
    <3>1. ASSUME NEW h \in 1 .. i - 1
          PROVE  Rest(m_sendQueue'[h]) \in {Rest(m_sendQueue[g]) : g \in 2 .. i}
      <4>1. m_sendQueue'[h] = m_sendQueue[h + 1] /\ h + 1 \in 2 .. i
        BY <1>5, <2>1
      <4>. QED
        BY <4>1
    <3>2. ASSUME NEW h \in 2 .. i
          PROVE  Rest(m_sendQueue[h]) \in {Rest(m_sendQueue'[g]) : g \in 1 .. i - 1}
      <4>1. h - 1 \in 1 .. i - 1 /\ (h - 1) + 1 = h /\ h - 1 \in 1 .. len - 1
        BY <2>1
      <4>2. m_sendQueue'[h - 1] = m_sendQueue[h]
        BY <1>5, <4>1
      <4>. QED
        BY <4>1, <4>2
    <3>. QED
      BY <3>1, <3>2
  <2>4. Ahead(i + 1) = ToSet(wire) \cup UNION {Rest(m_sendQueue[h]) : h \in 1 .. (i + 1) - 1}
    BY DEF Ahead
  <2>5. Ahead(i)' = ToSet(wire') \cup UNION {Rest(m_sendQueue'[h]) : h \in 1 .. i - 1}
    BY DEF Ahead
  <2>. QED
    BY <1>6, <2>2, <2>3, <2>4, <2>5
<1>8. /\ callbacks' \in Seq([msg : Nat, off : Nat, error : BOOLEAN, completed : Nat])
      /\ DOMAIN callbacks' = 1 .. Len(callbacks) + 1 /\ Len(callbacks) \in Nat
      /\ DOMAIN callbacks = 1 .. Len(callbacks)
      /\ \A i \in 1 .. Len(callbacks) : callbacks'[i] = callbacks[i]
      /\ callbacks'[Len(callbacks) + 1] =
           [msg |-> c.msg, off |-> c.off, error |-> FALSE, completed |-> c.total]
  <2>1. Report(c, FALSE, c.total)
    BY <1>1, <1>3
  <2>. QED
    BY <1>4, <2>1, ReportAdds DEF IInv
<1>9. /\ IsFiniteSet(QueuedBytes') /\ Cardinality(QueuedBytes') \in Nat
      /\ m_mallocSize' = Cardinality(QueuedBytes')
  <2>. DEFINE A == QueuedBytes
              B == ChunkBytes(c)
              Q == QueuedBytes'
  <2>1. Q = UNION {ChunkBytes(m_sendQueue[i]) : i \in 2 .. len}
    <3>1. ASSUME NEW h \in 1 .. len - 1
          PROVE  ChunkBytes(m_sendQueue'[h]) \in {ChunkBytes(m_sendQueue[g]) : g \in 2 .. len}
      <4>1. m_sendQueue'[h] = m_sendQueue[h + 1] /\ h + 1 \in 2 .. len
        BY <1>5
      <4>. QED
        BY <4>1
    <3>2. ASSUME NEW h \in 2 .. len
          PROVE  ChunkBytes(m_sendQueue[h]) \in {ChunkBytes(m_sendQueue'[g]) : g \in 1 .. len - 1}
      <4>1. h - 1 \in 1 .. len - 1 /\ (h - 1) + 1 = h
        BY <1>3
      <4>2. m_sendQueue'[h - 1] = m_sendQueue[h]
        BY <1>5, <4>1
      <4>. QED
        BY <4>1, <4>2
    <3>3. {ChunkBytes(m_sendQueue'[i]) : i \in 1 .. len - 1} = {ChunkBytes(m_sendQueue[i]) : i \in 2 .. len}
      BY <3>1, <3>2
    <3>4. Q = UNION {ChunkBytes(m_sendQueue'[i]) : i \in 1 .. len - 1}
      BY <1>5 DEF QueuedBytes
    <3>. QED
      BY <3>3, <3>4
  <2>2. A = Q \cup B
    <3>1. 1 .. len = {1} \cup (2 .. len)
      BY <1>3
    <3>2. A = UNION {ChunkBytes(m_sendQueue[i]) : i \in 1 .. len}
      BY <1>3 DEF QueuedBytes
    <3>. HIDE DEF A, Q
    <3>. QED
      BY <1>2, <2>1, <3>1, <3>2
  <2>3. Q \cap B = {}
    <3>. SUFFICES ASSUME NEW b \in B, NEW i \in 2 .. len, b \in ChunkBytes(m_sendQueue[i])
                  PROVE  FALSE
      <4>. HIDE DEF B, Q
      <4>. QED
        BY <2>1
    <3>1. PICK k \in c.off + 1 .. c.off + c.total : b = <<c.msg, k>>
      BY <1>4, InChunkBytes
    <3>2. i \in DOMAIN m_sendQueue /\ 1 < i
      BY <1>3
    <3>3. /\ m_sendQueue[i] \in Chunks /\ m_sendQueue[i].off \in Nat /\ m_sendQueue[i].total \in Nat
      <4>1. m_sendQueue[i] \in Chunks
        BY <3>2, ChunkOf DEF IInv
      <4>. QED
        BY <4>1 DEF Chunks
    <3>4. PICK j \in m_sendQueue[i].off + 1 .. m_sendQueue[i].off + m_sendQueue[i].total :
            b = <<m_sendQueue[i].msg, j>>
      BY <3>3, InChunkBytes
    <3>5. m_sendQueue[i].msg = c.msg /\ j = k
      BY <3>1, <3>4
    <3>6. c.off + c.total <= m_sendQueue[i].off
      BY <1>2, <1>3, <3>2, <3>5, EarlierEnds DEF IInv
    <3>. QED
      BY <1>4, <3>3, <3>5, <3>6
  <2>4. IsFiniteSet(A) /\ m_mallocSize = Cardinality(A)
    BY DEF IInv, QueueFinite, MallocMatchesQueue
  <2>5. IsFiniteSet(B) /\ Cardinality(B) = c.total
    BY <1>4, ChunkBytesCount
  <2>6. m_mallocSize' = m_mallocSize - c.total
    BY <1>1, <1>3
  <2>. HIDE DEF A, B, Q
  <2>7. IsFiniteSet(Q)
    <3>1. Q \in SUBSET A
      BY <2>2
    <3>. QED
      BY <2>4, <3>1, FS_Subset
  <2>8. Cardinality(Q \cup B) = Cardinality(Q) + Cardinality(B) - Cardinality({})
    BY <2>3, <2>5, <2>7, FS_Union
  <2>9. Cardinality(Q) \in Nat
    BY <2>7, FS_CardinalityType
  <2>10. m_mallocSize' = Cardinality(Q)
    BY <1>4, <2>2, <2>4, <2>5, <2>6, <2>8, <2>9, FS_EmptySet
  <2>. QED
    BY <2>7, <2>9, <2>10 DEF Q
<1>. USE DEF IInv
<1>20. TypeOK'
  BY <1>1, <1>5, <1>6, <1>8, <1>9 DEF TypeOK
<1>21. PushesOnBoundary'
  BY <1>1 DEF PushesOnBoundary, OnBoundary
<1>22. ChunksOnBoundary' /\ (m_sendQueue' # <<>> => m_sendQueue'[1].completed = 0)
  <2>1. \A i \in 1 .. len - 1 :
          LET d == m_sendQueue'[i]
          IN /\ OnBoundary(d.msg, d.off)
             /\ d.total = ChunkLen(messages[d.msg] - d.off)
             /\ d.completed < d.total
             /\ d.completed = 0
    <3>. SUFFICES ASSUME NEW i \in 1 .. len - 1
                  PROVE  LET d == m_sendQueue'[i]
                         IN /\ OnBoundary(d.msg, d.off)
                            /\ d.total = ChunkLen(messages[d.msg] - d.off)
                            /\ d.completed < d.total
                            /\ d.completed = 0
      OBVIOUS
    <3>1. m_sendQueue'[i] = m_sendQueue[i + 1] /\ i + 1 \in DOMAIN m_sendQueue /\ i + 1 > 1
      BY <1>3, <1>5
    <3>. QED
      BY <3>1 DEF ChunksOnBoundary
  <2>2. m_sendQueue' # <<>> => 1 \in 1 .. len - 1
    BY <1>5, EmptySeq
  <2>. QED
    BY <1>1, <1>5, <2>1, <2>2 DEF ChunksOnBoundary, OnBoundary
<1>23. MessagesInOrder'
  <2>. SUFFICES ASSUME NEW i \in 1 .. len - 1
                PROVE  Numbers(Ahead(i)', m_sendQueue'[i].msg) =
                         1 .. m_sendQueue'[i].off + m_sendQueue'[i].completed
    BY <1>5, <1>6 DEF MessagesInOrder, WireInOrder
  <2>1. m_sendQueue'[i] = m_sendQueue[i + 1] /\ i + 1 \in DOMAIN m_sendQueue /\ i \in 1 .. len
    BY <1>3, <1>5
  <2>2. Ahead(i)' = Ahead(i + 1)
    BY <1>7, <2>1
  <2>. QED
    BY <2>1, <2>2 DEF MessagesInOrder
<1>24. PushesInOrder'
  <2>1. Len(m_sendQueue') + 1 = len /\ Len(m_sendQueue) + 1 = len + 1 /\ len \in 1 .. len
    BY <1>2, <1>3, <1>5
  <2>2. Ahead(len)' = Ahead(len + 1)
    BY <1>7, <2>1
  <2>. QED
    BY <1>1, <2>1, <2>2 DEF PushesInOrder
<1>25. LastByte'
  <2>1. ~Begun'
    BY <1>22 DEF Begun
  <2>2. EndsChunk(<<c.msg, c.off + c.total>>)
    <3>1. CASE c.off + c.total = messages[c.msg]
      BY <3>1 DEF EndsChunk
    <3>2. CASE c.total = MaxSendLength
      <4>1. PICK n \in Nat : c.off = n * MaxSendLength
        BY <1>4
      <4>2. /\ c.off + c.total = (n + 1) * MaxSendLength
            /\ n + 1 \in 1 .. c.off + c.total
        BY <3>2, <4>1, NextBoundary
      <4>. QED
        BY <4>2 DEF EndsChunk
    <3>. QED
      BY <1>4, <3>1, <3>2
  <2>. QED
    BY <1>1, <1>6, <2>1, <2>2 DEF LastByte, EndsChunk
<1>26. QueueFinite' /\ MallocMatchesQueue'
  BY <1>9 DEF QueueFinite, MallocMatchesQueue
<1>27. SuccessesOut'
  <2>. SUFFICES ASSUME NEW i \in 1 .. Len(callbacks) + 1, ~callbacks'[i].error
                PROVE  LET d == callbacks'[i]
                       IN /\ d.msg \in DOMAIN messages
                          /\ d.completed = ChunkLen(messages[d.msg] - d.off)
                          /\ \E j \in DOMAIN wire' : wire'[j] = <<d.msg, d.off + d.completed>>
    BY <1>1, <1>8 DEF SuccessesOut
  <2>1. CASE i \in 1 .. Len(callbacks)
    <3>1. callbacks'[i] = callbacks[i] /\ i \in DOMAIN callbacks
      BY <1>8, <2>1
    <3>. QED
      BY <1>6, <3>1 DEF SuccessesOut
  <2>2. CASE i = Len(callbacks) + 1
    <3>1. callbacks'[i] = [msg |-> c.msg, off |-> c.off, error |-> FALSE, completed |-> c.total]
      BY <1>8, <2>2
    <3>2. callbacks'[i].msg = c.msg /\ callbacks'[i].off = c.off /\ callbacks'[i].completed = c.total
      BY <3>1
    <3>3. wire'[Len(wire')] = <<callbacks'[i].msg, callbacks'[i].off + callbacks'[i].completed>>
      BY <1>6, <3>2
    <3>. QED
      BY <1>4, <1>6, <3>2, <3>3
  <2>. QED
    BY <1>8, <2>1, <2>2
<1>28. PendingBounded'
  <2>. DEFINE p == Cardinality(Pending)
              most == MaxSendBuffer + Cardinality(Senders) * Largest
  <2>1. Pending' = Pending /\ Largest' = Largest
    BY <1>1 DEF Pending
  <2>2. p \in Nat
    <3>1. Pending \in SUBSET (Senders \X (1 .. Largest))
      BY DEF Pending
    <3>. QED
      BY <3>1, PendingSize
  <2>3. most \in Nat
    <3>1. Cardinality(Senders) \in Nat /\ Largest \in Nat
      BY SendAssumption, FS_CardinalityType, LargestOf
    <3>. QED
      BY <3>1, SendAssumption
  <2>4. m_mallocSize + p <= most
    BY DEF PendingBounded
  <2>5. m_mallocSize \in Nat /\ m_mallocSize' = m_mallocSize - c.total
    BY <1>1, <1>3 DEF TypeOK
  <2>. HIDE DEF p, most
  <2>6. m_mallocSize' + p <= most
    BY <1>4, <2>2, <2>3, <2>4, <2>5
  <2>. QED
    BY <2>1, <2>6 DEF PendingBounded, p, most
<1>. QED
  BY <1>6, <1>20, <1>21, <1>22, <1>23, <1>24, <1>25, <1>26, <1>27, <1>28

LEMMA SendFailsKeeps ==
  ASSUME IInv, SendFails
  PROVE  IInv'
<1>1. /\ m_sendQueue # <<>>
      /\ Report(Head(m_sendQueue), TRUE, Head(m_sendQueue).completed)
      /\ \E lasting \in BOOLEAN : failed' = (failed \/ lasting)
      /\ UNCHANGED <<messages, pushing, m_sendQueue, m_mallocSize, wire>>
  BY DEF SendFails, Failed
<1>2. Head(m_sendQueue) \in Chunks /\ Head(m_sendQueue).completed \in Nat
  <2>1. m_sendQueue[1] \in Chunks /\ Head(m_sendQueue) = m_sendQueue[1]
    BY <1>1, FrontOf, ChunkOf DEF IInv
  <2>. QED
    BY <2>1 DEF Chunks
<1>3. /\ callbacks' \in Seq([msg : Nat, off : Nat, error : BOOLEAN, completed : Nat])
      /\ DOMAIN callbacks' = 1 .. Len(callbacks) + 1 /\ Len(callbacks) \in Nat
      /\ DOMAIN callbacks = 1 .. Len(callbacks)
      /\ \A i \in 1 .. Len(callbacks) : callbacks'[i] = callbacks[i]
      /\ callbacks'[Len(callbacks) + 1].error = TRUE
  <2>1. /\ callbacks' \in Seq([msg : Nat, off : Nat, error : BOOLEAN, completed : Nat])
        /\ DOMAIN callbacks' = 1 .. Len(callbacks) + 1 /\ Len(callbacks) \in Nat
        /\ DOMAIN callbacks = 1 .. Len(callbacks)
        /\ \A i \in 1 .. Len(callbacks) : callbacks'[i] = callbacks[i]
        /\ callbacks'[Len(callbacks) + 1] =
             [msg |-> Head(m_sendQueue).msg, off |-> Head(m_sendQueue).off,
              error |-> TRUE, completed |-> Head(m_sendQueue).completed]
    BY <1>1, <1>2, ReportAdds DEF IInv
  <2>. QED
    BY <2>1
<1>. USE DEF IInv
<1>4. TypeOK'
  <2>1. failed' \in BOOLEAN
    BY <1>1 DEF TypeOK
  <2>. QED
    BY <1>1, <1>3, <2>1 DEF TypeOK
<1>5. PushesOnBoundary' /\ ChunksOnBoundary' /\ WireAccepted'
  BY <1>1 DEF PushesOnBoundary, ChunksOnBoundary, OnBoundary, WireAccepted
<1>6. MessagesInOrder' /\ PushesInOrder'
  <2>1. MessagesInOrder'
    BY ZenonT(40), <1>1 DEF MessagesInOrder, Ahead
  <2>2. PushesInOrder'
    BY <1>1 DEF PushesInOrder, Ahead
  <2>. QED
    BY <2>1, <2>2
<1>7. LastByte' /\ ChunksWhole'
  BY <1>1 DEF LastByte, Begun, ChunksWhole, EndsChunk
<1>8. QueueFinite' /\ MallocMatchesQueue'
  BY <1>1 DEF QueueFinite, MallocMatchesQueue, QueuedBytes
<1>9. SuccessesOut'
  <2>. SUFFICES ASSUME NEW i \in 1 .. Len(callbacks) + 1, ~callbacks'[i].error
                PROVE  LET d == callbacks'[i]
                       IN /\ d.msg \in DOMAIN messages
                          /\ d.completed = ChunkLen(messages[d.msg] - d.off)
                          /\ \E j \in DOMAIN wire : wire[j] = <<d.msg, d.off + d.completed>>
    BY <1>1, <1>3 DEF SuccessesOut
  <2>1. i \in 1 .. Len(callbacks)
    BY <1>3
  <2>2. callbacks'[i] = callbacks[i] /\ i \in DOMAIN callbacks
    BY <1>3, <2>1
  <2>. QED
    BY <2>2 DEF SuccessesOut
<1>10. PendingBounded'
  BY <1>1 DEF PendingBounded, Pending
<1>. QED
  BY <1>4, <1>5, <1>6, <1>7, <1>8, <1>9, <1>10


LEMMA StutterKeeps ==
  ASSUME IInv, UNCHANGED vars
  PROVE  IInv'
<1>. USE DEF IInv, vars
<1>1. TypeOK'
  BY DEF TypeOK
<1>2. PushesOnBoundary' /\ ChunksOnBoundary' /\ WireAccepted'
  BY DEF PushesOnBoundary, ChunksOnBoundary, OnBoundary, WireAccepted
<1>3. MessagesInOrder'
  BY ZenonT(40) DEF MessagesInOrder, Ahead
<1>4. PushesInOrder'
  BY DEF PushesInOrder, Ahead
<1>5. LastByte' /\ ChunksWhole'
  BY DEF LastByte, Begun, ChunksWhole, EndsChunk
<1>6. QueueFinite' /\ MallocMatchesQueue'
  BY DEF QueueFinite, MallocMatchesQueue, QueuedBytes
<1>7. SuccessesOut' /\ PendingBounded'
  BY DEF SuccessesOut, PendingBounded, Pending
<1>. QED
  BY <1>1, <1>2, <1>3, <1>4, <1>5, <1>6, <1>7

LEMMA IInvInit ==
  ASSUME Init
  PROVE  IInv
<1>1. /\ messages = <<>> /\ m_sendQueue = <<>> /\ wire = <<>> /\ callbacks = <<>>
      /\ m_mallocSize = 0 /\ failed = FALSE
      /\ pushing = [s \in Senders |-> Idle]
  BY DEF Init
<1>2. /\ Len(wire) = 0 /\ DOMAIN wire = {} /\ Len(m_sendQueue) = 0 /\ DOMAIN m_sendQueue = {}
      /\ DOMAIN callbacks = {} /\ 1 .. Len(wire) - 1 = {}
  BY <1>1
<1>3. \A s \in Senders : pushing[s] = Idle
  BY <1>1
<1>4. TypeOK
  <2>1. pushing \in [Senders -> [msg : Nat, off : Nat]]
    BY <1>1 DEF Idle
  <2>2. messages \in Seq(MsgSizes) /\ m_sendQueue \in Seq(Chunks) /\ wire \in Seq(Nat \X Nat)
    BY <1>1, EmptySeq
  <2>3. callbacks \in Seq([msg : Nat, off : Nat, error : BOOLEAN, completed : Nat])
    BY <1>1, EmptySeq
  <2>. QED
    BY <1>1, <2>1, <2>2, <2>3 DEF TypeOK
<1>5. PushesOnBoundary /\ ChunksOnBoundary /\ WireAccepted
  BY <1>2, <1>3 DEF PushesOnBoundary, ChunksOnBoundary, WireAccepted
<1>6. MessagesInOrder /\ PushesInOrder
  BY <1>2, <1>3 DEF MessagesInOrder, PushesInOrder
<1>7. LastByte /\ ChunksWhole /\ SuccessesOut
  BY <1>1, <1>2 DEF LastByte, Begun, ChunksWhole, SuccessesOut
<1>8. QueueFinite /\ MallocMatchesQueue
  <2>1. QueuedBytes = {}
    BY <1>2 DEF QueuedBytes
  <2>. QED
    BY <1>1, <2>1, FS_EmptySet DEF QueueFinite, MallocMatchesQueue
<1>9. PendingBounded
  <2>1. Pending = {}
    BY <1>3 DEF Pending
  <2>2. Cardinality(Senders) \in Nat /\ Largest \in Nat /\ MaxSendBuffer \in Nat
    BY SendAssumption, FS_CardinalityType, LargestOf
  <2>3. 0 + 0 <= MaxSendBuffer + Cardinality(Senders) * Largest
    BY <2>2
  <2>. QED
    BY <1>1, <2>1, <2>3, FS_EmptySet DEF PendingBounded
<1>. QED
  BY <1>4, <1>5, <1>6, <1>7, <1>8, <1>9 DEF IInv

LEMMA IInvNext ==
  ASSUME IInv, [Next]_vars
  PROVE  IInv'
<1>1. ASSUME NEW s \in Senders, NEW size \in MsgSizes, AsyncSend(s, size) PROVE IInv'
  BY <1>1, AsyncSendKeeps
<1>2. ASSUME NEW s \in Senders, PushChunk(s) PROVE IInv'
  BY <1>2, PushChunkKeeps
<1>3. ASSUME NEW n \in 1 .. MaxSendLength, SendPart(n) PROVE IInv'
  BY <1>3, SendPartKeeps
<1>4. CASE SendRest
  BY <1>4, SendRestKeeps
<1>5. CASE SendFails
  BY <1>5, SendFailsKeeps
<1>6. CASE UNCHANGED vars
  BY <1>6, StutterKeeps
<1>. QED
  BY <1>1, <1>2, <1>3, <1>4, <1>5, <1>6 DEF Next

LEMMA IInvAlways == Spec => []IInv
<1>1. Init => IInv
  BY IInvInit
<1>2. IInv /\ [Next]_vars => IInv'
  BY IInvNext
<1>. QED
  BY <1>1, <1>2, PTL DEF Spec

-----------------------------------------------------------------------------
(* Every variable keeps its type: m_mallocSize, for one, is never negative *)
(* although popSendRequest takes off what asyncSend added.                 *)
THEOREM TypeCorrect == Spec => []TypeOK
<1>1. IInv => TypeOK
  BY DEF IInv
<1>. QED
  BY <1>1, IInvAlways, PTL

(* m_mallocSize is the number of the bytes the queued chunks were made of, *)
(* no byte counted twice.                                                  *)
THEOREM AccountHolds == Spec => []MallocMatchesQueue
<1>1. IInv => MallocMatchesQueue
  BY DEF IInv
<1>. QED
  BY <1>1, IInvAlways, PTL

(* The queue grows beyond MAX_SEND_BUFFER by no more than one message of   *)
(* each sender, since a sender that has passed the check of asyncSend has  *)
(* only its own message left to push.                                      *)
THEOREM LimitHolds == Spec => []ExcessBounded
<1>1. IInv => ExcessBounded
  <2>. SUFFICES ASSUME IInv PROVE ExcessBounded
    OBVIOUS
  <2>1. Pending \in SUBSET (Senders \X (1 .. Largest))
    BY DEF Pending
  <2>2. Cardinality(Pending) \in Nat
    BY <2>1, PendingSize
  <2>3. Cardinality(Senders) \in Nat /\ Largest \in Nat /\ MaxSendBuffer \in Nat
    BY SendAssumption, FS_CardinalityType, LargestOf
  <2>4. m_mallocSize \in Nat
        /\ m_mallocSize + Cardinality(Pending) <= MaxSendBuffer + Cardinality(Senders) * Largest
    BY DEF IInv, TypeOK, PendingBounded
  <2>. QED
    BY <2>2, <2>3, <2>4 DEF ExcessBounded
<1>. QED
  BY <1>1, IInvAlways, PTL

(* The bytes of a message go out in order and each once, however the parts *)
(* a send() takes fall and however the chunks of other senders come between*)
(* them.                                                                   *)
THEOREM OrderHolds == Spec => []MessagesInOrder
<1>1. IInv => MessagesInOrder
  BY DEF IInv
<1>. QED
  BY <1>1, IInvAlways, PTL

(* The bytes of two messages meet at the end of a chunk only: a chunk that *)
(* has been sent in part stays at the front until popSendRequest.          *)
THEOREM ChunksStayWhole == Spec => []ChunksWhole
<1>1. IInv => ChunksWhole
  BY DEF IInv
<1>. QED
  BY <1>1, IInvAlways, PTL

(* How far the socket is with the chunk at the front.                      *)
LEMMA TakenOf ==
  ASSUME NEW c, NEW d, c.msg = d.msg, c.off = d.off, NEW w \in Seq(Nat \X Nat),
         d.off \in Nat, NEW n \in 0 .. MaxSendLength,
         Numbers(ToSet(w), d.msg) = 1 .. d.off + n
  PROVE  Taken(ToSet(w), c) = 1 .. n
<1>1. ToSet(w) \in SUBSET (Nat \X Nat)
  BY LenProperties DEF ToSet
<1>2. MaxSendLength \in Nat /\ n \in Nat /\ n <= MaxSendLength
  BY SendAssumption
<1>3. \A k \in 1 .. MaxSendLength : <<c.msg, c.off + k>> \in ToSet(w) <=> k \in 1 .. n
  <2>. SUFFICES ASSUME NEW k \in 1 .. MaxSendLength
                PROVE  <<d.msg, d.off + k>> \in ToSet(w) <=> k \in 1 .. n
    OBVIOUS
  <2>1. <<d.msg, d.off + k>> \in ToSet(w) <=> d.off + k \in Numbers(ToSet(w), d.msg)
    BY <1>1, NumbersOf
  <2>2. d.off + k \in 1 .. d.off + n <=> k \in 1 .. n
    BY <1>2
  <2>. QED
    BY <2>1, <2>2
<1>4. \A k \in 1 .. n : k \in 1 .. MaxSendLength
  BY <1>2
<1>. QED
  BY <1>3, <1>4 DEF Taken

LEMMA NotReportedYet ==
  ASSUME IInv, m_sendQueue # <<>>, NEW i \in DOMAIN callbacks, ~callbacks[i].error
  PROVE  <<callbacks[i].msg, callbacks[i].off>> # <<m_sendQueue[1].msg, m_sendQueue[1].off>>
<1>. SUFFICES ASSUME callbacks[i].msg = m_sendQueue[1].msg, callbacks[i].off = m_sendQueue[1].off
              PROVE  FALSE
  OBVIOUS
<1>1. PICK c : c = m_sendQueue[1]
  OBVIOUS
<1>2. /\ c \in Chunks /\ c.total = ChunkLen(messages[c.msg] - c.off)
      /\ c.completed < c.total /\ c.off \in Nat /\ c.total \in Nat /\ c.completed \in Nat
      /\ Numbers(ToSet(wire), c.msg) = 1 .. c.off + c.completed
  <2>1. /\ c \in Chunks /\ c.total = ChunkLen(messages[c.msg] - c.off) /\ c.completed < c.total
        /\ Numbers(ToSet(wire), c.msg) = 1 .. c.off + c.completed
    BY <1>1, FrontOf, ChunkOf DEF IInv
  <2>. QED
    BY <2>1 DEF Chunks
<1>3. PICK j \in DOMAIN wire : wire[j] = <<c.msg, c.off + c.total>>
  BY <1>1, <1>2 DEF IInv, SuccessesOut
<1>4. ToSet(wire) \in SUBSET (Nat \X Nat) /\ <<c.msg, c.off + c.total>> \in ToSet(wire)
  <2>1. wire \in Seq(Nat \X Nat)
    BY DEF IInv, TypeOK
  <2>. QED
    BY <1>3, <2>1, LenProperties DEF ToSet
<1>5. c.off + c.total \in 1 .. c.off + c.completed
  BY <1>2, <1>4, NumbersOf
<1>. QED
  BY <1>2, <1>5

LEMMA ReportsStep ==
  ASSUME IInv, [Next]_vars, callbacks' # callbacks
  PROVE  /\ Taken(ToSet(wire'), Last(callbacks')) = 1 .. Last(callbacks').completed
         /\ \A i \in DOMAIN callbacks :
              ~callbacks[i].error =>
                <<callbacks[i].msg, callbacks[i].off>> # <<Last(callbacks').msg, Last(callbacks').off>>
<1>1. SendRest \/ SendFails
  BY DEF Next, vars, AsyncSend, PushChunk, SendPart
<1>2. m_sendQueue # <<>>
  BY <1>1 DEF SendRest, SendFails
<1>3. PICK c : c = m_sendQueue[1]
  OBVIOUS
<1>4. /\ Head(m_sendQueue) = c /\ c \in Chunks
      /\ c.completed \in Nat /\ c.total \in Nat /\ c.off \in Nat
      /\ c.total \in 1 .. MaxSendLength /\ c.completed < c.total
      /\ c.completed + ToSend(c) = c.total /\ ToSend(c) \in 1 .. MaxSendLength
      /\ Numbers(ToSet(wire), c.msg) = 1 .. c.off + c.completed
      /\ wire \in Seq(Nat \X Nat)
  <2>1. /\ Head(m_sendQueue) = c /\ c \in Chunks
        /\ c.total \in 1 .. MaxSendLength /\ c.completed < c.total
        /\ c.completed + ToSend(c) = c.total /\ ToSend(c) \in 1 .. MaxSendLength
        /\ Numbers(ToSet(wire), c.msg) = 1 .. c.off + c.completed
    BY <1>2, <1>3, FrontOf, ChunkOf DEF IInv
  <2>2. wire \in Seq(Nat \X Nat)
    BY DEF IInv, TypeOK
  <2>. QED
    BY <2>1, <2>2 DEF Chunks
<1>5. c.completed \in 0 .. MaxSendLength /\ c.total \in 0 .. MaxSendLength /\ ToSend(c) \in Nat
  BY <1>4, SendAssumption
<1>6. PICK n \in 0 .. MaxSendLength :
        /\ Last(callbacks').msg = c.msg /\ Last(callbacks').off = c.off
        /\ Last(callbacks').completed = n
        /\ wire' \in Seq(Nat \X Nat)
        /\ Numbers(ToSet(wire'), c.msg) = 1 .. c.off + n
  <2>1. CASE SendRest
    <3>1. /\ Report(c, FALSE, c.total)
          /\ wire \o Bytes(c, ToSend(c)) = wire'
      BY <1>4, <2>1 DEF SendRest
    <3>2. Last(callbacks') = [msg |-> c.msg, off |-> c.off, error |-> FALSE, completed |-> c.total]
      BY <1>4, <3>1, ReportAdds DEF IInv
    <3>3. Bytes(c, ToSend(c)) \in Seq(Nat \X Nat)
      BY <1>4, <1>5, BytesOf
    <3>4. /\ wire \o Bytes(c, ToSend(c)) \in Seq(Nat \X Nat)
          /\ ToSet(wire \o Bytes(c, ToSend(c))) = ToSet(wire) \cup ToSet(Bytes(c, ToSend(c)))
      BY <1>4, <3>3, ConcatProperties, ConcatSet
    <3>5. wire' \in Seq(Nat \X Nat) /\ ToSet(wire') = ToSet(wire) \cup ToSet(Bytes(c, ToSend(c)))
      BY <3>1, <3>4
    <3>6. Numbers(ToSet(Bytes(c, ToSend(c))), c.msg) =
            c.off + c.completed + 1 .. c.off + c.completed + ToSend(c)
      BY <1>4, <1>5, BytesNumbers
    <3>7. (1 .. c.off + c.completed) \cup (c.off + c.completed + 1 .. c.off + c.completed + ToSend(c))
            = 1 .. c.off + c.total
      BY <1>4, <1>5
    <3>8. Numbers(ToSet(wire'), c.msg) = 1 .. c.off + c.total
      <4>1. Numbers(ToSet(wire'), c.msg) =
              Numbers(ToSet(wire), c.msg) \cup Numbers(ToSet(Bytes(c, ToSend(c))), c.msg)
        BY <3>5, NumbersUnion
      <4>. QED
        BY <1>4, <3>6, <3>7, <4>1
    <3>9. /\ Last(callbacks').msg = c.msg /\ Last(callbacks').off = c.off
          /\ Last(callbacks').completed = c.total
      BY <3>2
    <3>. QED
      BY <1>5, <3>5, <3>8, <3>9
  <2>2. CASE SendFails
    <3>1. Report(c, TRUE, c.completed) /\ wire' = wire
      BY <1>4, <2>2 DEF SendFails, Failed
    <3>2. Last(callbacks') = [msg |-> c.msg, off |-> c.off, error |-> TRUE, completed |-> c.completed]
      BY <1>4, <3>1, ReportAdds DEF IInv
    <3>3. /\ Last(callbacks').msg = c.msg /\ Last(callbacks').off = c.off
          /\ Last(callbacks').completed = c.completed
      BY <3>2
    <3>. QED
      BY <1>4, <1>5, <3>1, <3>3
  <2>. QED
    BY <1>1, <2>1, <2>2
<1>7. Taken(ToSet(wire'), Last(callbacks')) = 1 .. n
  BY <1>4, <1>6, TakenOf
<1>. QED
  BY <1>2, <1>3, <1>6, <1>7, NotReportedYet

(* What a callback is told is what the socket has taken of the chunk, and  *)
(* a chunk reported complete is not reported again.                        *)
THEOREM ReportsHold == Spec => ReportsTruthful
<1>1. IInv /\ [Next]_vars =>
        [callbacks' # callbacks =>
           LET c == Last(callbacks')
           IN /\ Taken(ToSet(wire'), c) = 1 .. c.completed
              /\ \A i \in DOMAIN callbacks :
                   ~callbacks[i].error =>
                     <<callbacks[i].msg, callbacks[i].off>> # <<c.msg, c.off>>]_vars
  BY ReportsStep
<1>. QED
  BY <1>1, IInvAlways, PTL DEF Spec, ReportsTruthful
=============================================================================
