---------------------------- MODULE Server_proofs ----------------------------
(***************************************************************************)
(* What the connections of a server are promised, for every set of         *)
(* descriptors, number of threads and set of requests: one callback to a   *)
(* thread, the versions that were advertised, acknowledgements to those    *)
(* who ask for them, and the order of a GSSAPI exchange, connection by     *)
(* connection.                                                             *)
(***************************************************************************)
EXTENDS Server, SequenceTheorems, TLAPS

AllRequests == UNION {Requests[s] : s \in Sockets}

SessionStates ==
  [mechanism : {""} \cup {r.mechanism : r \in {q \in AllRequests : q.key = SaslHandshake}},
   authStatus : {0, 1}]

Bodies ==
  {<<>>, ArrayApiVersion, 17001}
    \cup {r.topics : r \in {q \in AllRequests : q.key = Metadata}}
    \cup {r.mechanism : r \in {q \in AllRequests : q.key = SaslHandshake}}
    \cup {ReadOf[r].map : r \in ProduceRequests}

ReplyKinds == {"UnsupportedVersion", "versions", "metadata", "producerId", "acks",
               "handshake", "challenge", "final", "plain"}

(* The replies of a connection; a version is refused only if its handler   *)
(* does not accept it, and only requests that need it are acknowledged.    *)
RepliesTo(s) ==
  {reply \in [corr : Requests[s], kind : ReplyKinds, body : Bodies] :
     /\ reply.kind = "UnsupportedVersion" =>
          reply.corr.key \in Handled /\ ~Accepts(reply.corr.key, reply.corr.version)
     /\ reply.kind = "acks" => reply.corr \in NeedingRespond}

Buffered(s, kind) == m_sendBuf[s] # NoReply /\ m_sendBuf[s].kind = kind

(* Connections by their descriptors.                                       *)
Shape ==
  /\ m_threadNum \in Threads /\ running \in BOOLEAN
  /\ status \in [Sockets -> {"closed", "open", "hungup"}]
  /\ DOMAIN request = Sockets /\ DOMAIN session = Sockets
  /\ DOMAIN m_sendBuf = Sockets /\ DOMAIN inbox = Sockets /\ DOMAIN sent = Sockets
  /\ sending \subseteq Sockets
  /\ \A s, d \in sending : ThreadOf(s) = ThreadOf(d) => s = d

(* bindSocket is called for an open descriptor, from a thread that runs no *)
(* other callback.                                                         *)
Binding ==
  /\ binding \in Sockets \cup {NoSocket}
  /\ binding # NoSocket =>
       /\ status[binding] # "closed"
       /\ \A d \in sending : ThreadOf(d) # ThreadOf(ListenFd)
  /\ stale \subseteq 0 .. m_threadNum - 1

(* A callback has the request it answers in its buffer, and no reply to a  *)
(* produce request only when none is needed; a closed descriptor has no    *)
(* request.                                                                *)
Connection(s) ==
  /\ request[s] \in Requests[s] \cup {NoRequest}
  /\ session[s] \in SessionStates
  /\ status[s] \in {"closed", "open", "hungup"}
  /\ inbox[s] \in Seq(RepliesTo(s)) /\ Len(inbox[s]) <= SndRoom
  /\ sent[s] \subseteq Noted
  /\ m_sendBuf[s] \in RepliesTo(s) \cup {NoReply}
  /\ s \in sending => request[s] # NoRequest
  /\ s \notin sending => m_sendBuf[s] = NoReply
  /\ s \in sending /\ Handles(s, Produce) /\ m_sendBuf[s] = NoReply =>
       request[s] \notin NeedingRespond
  /\ status[s] = "closed" => request[s] = NoRequest

(* While its client is there: authStatus is 1 exactly when the challenge   *)
(* has been sent or is about to be, and the tokens in the send buffer are  *)
(* of the mechanism chosen last and in their order.                        *)
Authentication(s) ==
  status[s] = "open" =>
    /\ session[s].authStatus = 1 => "challenge" \in sent[s] \/ Buffered(s, "challenge")
    /\ "challenge" \in sent[s] => session[s].authStatus = 1
    /\ Buffered(s, "challenge") => /\ session[s].authStatus = 1
                                   /\ session[s].mechanism = "GSSAPI"
                                   /\ "challenge" \notin sent[s]
    /\ Buffered(s, "final") => /\ session[s].mechanism = "GSSAPI"
                               /\ "challenge" \in sent[s]

IInv == Shape /\ Binding /\ \A s \in Sockets : Connection(s) /\ Authentication(s)

-----------------------------------------------------------------------------
(* The two tables agree: an advertised version of an api that has a        *)
(* handler is one its handler accepts.                                     *)
LEMMA TablesAgree ==
  ASSUME NEW key \in Handled, NEW version, Advertised(key, version)
  PROVE  Accepts(key, version)
<1>. USE DEF Produce, Metadata, SaslHandshake, ApiVersions, InitProducerId, SaslAuthenticate
<1>1. version \in 0 .. ArrayApiVersion[key + 1]
  BY DEF Advertised
<1>2. ArrayApiVersion[key + 1] \in Nat /\ ArrayApiVersion[key + 1] <= MaxVersion(key)
      /\ MaxVersion(key) \in Nat
  BY DEF Handled, ArrayApiVersion, MaxVersion
<1>. QED
  BY <1>1, <1>2 DEF Accepts

(* acks is two bytes of the body, behind the two of the transaction id.    *)
LEMMA Int16Bytes == ASSUME NEW v \in Int PROVE Int16(v) \in Seq(0 .. 255) /\ Len(Int16(v)) = 2
<1>1. (v \div 256) % 256 \in 0 .. 255 /\ v % 256 \in 0 .. 255
  <2>1. v \div 256 \in Int
    OBVIOUS
  <2>. QED
    BY <2>1
<1>. QED
  BY <1>1 DEF Int16

(* -1 in two bytes, and its last two bits.                                 *)
LEMMA MinusOne ==
  ASSUME NEW a \in Int, a + 1 = 0
  PROVE  /\ a % 4 = 3 /\ a % 256 = 255 /\ (a \div 256) % 256 = 255
         /\ 256 * (255 - 256) + 255 = a
<1>1. a % 4 = 3 /\ a % 256 = 255
  OBVIOUS
<1>2. a \div 256 \in Int /\ a = 256 * (a \div 256) + 255
  BY <1>1
<1>3. a \div 256 + 1 = 0
  BY <1>2
<1>. QED
  BY <1>1, <1>2, <1>3

LEMMA Behind ==
  ASSUME NEW S, NEW first \in Seq(S), Len(first) = 2, NEW second \in Seq(S), Len(second) >= 2
  PROVE  LET both == first \o second
         IN /\ Len(both) \in Nat /\ Len(both) >= 4 /\ DOMAIN both = 1 .. Len(both)
            /\ both[3] = second[1] /\ both[4] = second[2]
<1>1. /\ first \o second \in Seq(S) /\ Len(first \o second) = 2 + Len(second)
      /\ Len(second) \in Nat
  BY ConcatProperties, LenProperties
<1>2. \A i \in 1 .. Len(first) + Len(second) :
        (first \o second)[i] = IF i <= Len(first) THEN first[i] ELSE second[i - Len(first)]
  BY ConcatProperties
<1>3. /\ 3 \in 1 .. Len(first) + Len(second) /\ 4 \in 1 .. Len(first) + Len(second)
      /\ ~(3 <= Len(first)) /\ ~(4 <= Len(first))
  BY <1>1
<1>4. 3 - Len(first) = 1 /\ 4 - Len(first) = 2
  OBVIOUS
<1>5. DOMAIN (first \o second) = 1 .. Len(first \o second)
  BY <1>1, LenProperties
<1>. QED
  BY <1>1, <1>2, <1>3, <1>4, <1>5

LEMMA RespondsAsAsked ==
  ASSUME NEW r \in ProduceRequests
  PROVE  r \in NeedingRespond <=> r.acks # 0
<1>. DEFINE rest == Int32(0) \o (Int32(Len(r.topics)) \o WrittenTopics(r))
            tail == Int16(r.acks) \o rest
            body == Int16(-1) \o tail
<1>1. /\ r.acks \in {-1, 0, 1} /\ Len(r.topics) \in Nat
      /\ WrittenTopics(r) \in Seq(0 .. 255)
  BY ProduceAssumption
<1>2. rest \in Seq(0 .. 255)
  <2>1. ASSUME NEW v \in Int PROVE Int32(v) \in Seq(0 .. 255)
    <3>1. v \div 65536 \in Int /\ v % 65536 \in Int
      OBVIOUS
    <3>. QED
      BY <3>1, Int16Bytes, ConcatProperties DEF Int32
  <2>2. Int32(0) \in Seq(0 .. 255) /\ Int32(Len(r.topics)) \in Seq(0 .. 255)
    BY <1>1, <2>1
  <2>. QED
    BY <1>1, <2>2, ConcatProperties
<1>. HIDE DEF rest
<1>3. /\ tail \in Seq(0 .. 255) /\ Len(tail) \in Nat /\ Len(tail) >= 2
      /\ tail[1] = (r.acks \div 256) % 256 /\ tail[2] = r.acks % 256
  <2>1. Int16(r.acks) \in Seq(0 .. 255) /\ Len(Int16(r.acks)) = 2
    BY <1>1, Int16Bytes
  <2>2. /\ tail \in Seq(0 .. 255) /\ Len(tail) = 2 + Len(rest) /\ Len(rest) \in Nat
        /\ tail[1] = Int16(r.acks)[1] /\ tail[2] = Int16(r.acks)[2]
    BY <1>2, <2>1, ConcatProperties, LenProperties
  <2>. QED
    BY <2>2 DEF Int16
<1>. HIDE DEF tail
<1>4. /\ Len(body) \in Nat /\ Len(body) >= 4 /\ DOMAIN body = 1 .. Len(body)
      /\ body[3] = tail[1] /\ body[4] = tail[2]
  <2>1. Int16(-1) \in Seq(0 .. 255) /\ Len(Int16(-1)) = 2
    BY Int16Bytes
  <2>. QED
    BY <1>3, <2>1, Behind
<1>5. Written(r) = body
  BY DEF Written, body, tail, rest
<1>. HIDE DEF body
<1>6. /\ Byte(Written(r), 3) = (r.acks \div 256) % 256
      /\ Byte(Written(r), 4) = r.acks % 256
  BY <1>3, <1>4, <1>5 DEF Byte
<1>7. Responds(Written(r)) <=> r.acks # 0
  <2>1. readShort(Written(r), 3) =
          256 * Signed((r.acks \div 256) % 256) + (r.acks % 256)
    BY <1>6 DEF readShort
  <2>2. CASE r.acks = 0
    <3>1. (0 \div 256) % 256 = 0 /\ 0 % 256 = 0 /\ 0 % 4 = 0
      OBVIOUS
    <3>. QED
      BY <2>1, <2>2, <3>1 DEF Signed, Responds, NeedRespond
  <2>3. CASE r.acks = 1
    <3>1. (1 \div 256) % 256 = 0 /\ 1 % 256 = 1 /\ 1 % 4 = 1
      OBVIOUS
    <3>. QED
      BY <2>1, <2>3, <3>1 DEF Signed, Responds, NeedRespond
  <2>4. CASE r.acks = -1
    <3>1. /\ r.acks % 4 = 3 /\ r.acks % 256 = 255 /\ (r.acks \div 256) % 256 = 255
          /\ 256 * (255 - 256) + 255 = r.acks
      <4>1. r.acks \in Int /\ r.acks + 1 = 0
        BY <2>4
      <4>. QED
        BY <4>1, MinusOne
    <3>. QED
      BY <2>1, <3>1 DEF Signed, Responds, NeedRespond
  <2>. QED
    BY <1>1, <2>2, <2>3, <2>4
<1>. QED
  BY <1>7 DEF NeedingRespond

LEMMA InitIInv == Init => IInv
<1>. SUFFICES ASSUME Init PROVE IInv
  OBVIOUS
<1>1. Shape /\ Binding
  BY DEF Init, Shape, Binding
<1>2. ASSUME NEW s \in Sockets PROVE Connection(s) /\ Authentication(s)
  <2>1. session[s] \in SessionStates
    BY DEF Init, SessionStates
  <2>2. inbox[s] = <<>> /\ <<>> \in Seq(RepliesTo(s)) /\ Len(<<>>) = 0
    BY EmptySeq DEF Init
  <2>3. Len(inbox[s]) <= SndRoom
    BY <2>2, ServerAssumption
  <2>4. /\ request[s] = NoRequest /\ status[s] = "closed" /\ sent[s] = {} /\ sending = {}
        /\ m_sendBuf[s] = NoReply
    BY DEF Init
  <2>5. Connection(s)
    BY <2>1, <2>2, <2>3, <2>4 DEF Connection
  <2>6. Authentication(s)
    BY <2>4 DEF Authentication
  <2>. QED
    BY <2>5, <2>6
<1>. QED
  BY <1>1, <1>2 DEF IInv

(* A step of one connection leaves the others alone.                       *)
OnlyOf(s) ==
  /\ m_threadNum' = m_threadNum
  /\ status' \in [Sockets -> {"closed", "open", "hungup"}]
  /\ DOMAIN request' = Sockets /\ DOMAIN session' = Sockets
  /\ DOMAIN m_sendBuf' = Sockets /\ DOMAIN inbox' = Sockets /\ DOMAIN sent' = Sockets
  /\ \A d \in Sockets \ {s} :
       /\ status'[d] = status[d] /\ request'[d] = request[d] /\ session'[d] = session[d]
       /\ m_sendBuf'[d] = m_sendBuf[d] /\ inbox'[d] = inbox[d] /\ sent'[d] = sent[d]
       /\ d \in sending' <=> d \in sending

LEMMA OneConnectionBound ==
  ASSUME IInv, NEW s \in Sockets, OnlyOf(s), running' \in BOOLEAN, Binding',
         sending' \subseteq Sockets, s \in sending' => s \in sending \/ ThreadIdle(s),
         Connection(s)', Authentication(s)'
  PROVE  IInv'
<1>1. Shape'
  <2>1. ASSUME NEW c \in sending', NEW d \in sending', c % m_threadNum = d % m_threadNum
        PROVE  c = d
    <3>1. ASSUME NEW e \in sending', e # s PROVE e \in sending
      BY <3>1 DEF OnlyOf
    <3>2. CASE s \in sending \/ s \notin sending'
      BY <2>1, <3>1, <3>2 DEF IInv, Shape, ThreadOf
    <3>3. CASE s \in sending' /\ s \notin sending
      BY <2>1, <3>1, <3>3 DEF IInv, Shape, ThreadOf, ThreadIdle
    <3>. QED
      BY <3>2, <3>3
  <2>. QED
    BY <2>1 DEF IInv, Shape, OnlyOf, ThreadOf
<1>2. ASSUME NEW d \in Sockets PROVE (Connection(d) /\ Authentication(d))'
  <2>1. CASE d = s
    BY <2>1
  <2>2. CASE d # s
    <3>1. Connection(d) /\ Authentication(d)
      BY DEF IInv
    <3>2. /\ status'[d] = status[d] /\ request'[d] = request[d] /\ session'[d] = session[d]
          /\ m_sendBuf'[d] = m_sendBuf[d] /\ inbox'[d] = inbox[d] /\ sent'[d] = sent[d]
          /\ d \in sending' <=> d \in sending
      BY <2>2 DEF OnlyOf
    <3>. QED
      BY <3>1, <3>2 DEF Connection, Authentication, Buffered, Handles
  <2>. QED
    BY <2>1, <2>2
<1>. QED
  BY <1>1, <1>2 DEF IInv

(* Most steps leave the listener's thread in or out of bindSocket.         *)
BindingStays(s) ==
  /\ binding' = binding /\ stale' \subseteq 0 .. m_threadNum - 1
  /\ s = binding => status'[s] # "closed"

LEMMA OneConnection ==
  ASSUME IInv, NEW s \in Sockets, OnlyOf(s), running' \in BOOLEAN, BindingStays(s),
         sending' \subseteq Sockets, s \in sending' => s \in sending \/ ThreadIdle(s),
         Connection(s)', Authentication(s)'
  PROVE  IInv'
<1>1. Binding'
  <2>1. binding # NoSocket => status'[binding] # "closed"
    BY DEF IInv, Binding, BindingStays, OnlyOf
  <2>2. ASSUME binding # NoSocket, NEW d \in sending'
        PROVE  ThreadOf(d)' # ThreadOf(ListenFd)'
    <3>1. d \in sending \/ (d = s /\ ThreadIdle(s))
      BY DEF OnlyOf
    <3>2. ThreadOf(d)' = ThreadOf(d) /\ ThreadOf(ListenFd)' = ThreadOf(ListenFd)
      BY DEF OnlyOf, ThreadOf
    <3>. QED
      BY <2>2, <3>1, <3>2 DEF IInv, Binding, ThreadIdle
  <2>. QED
    BY <2>1, <2>2 DEF IInv, Binding, BindingStays, OnlyOf
<1>. QED
  BY <1>1, OneConnectionBound

-----------------------------------------------------------------------------
(* The steps of a connection's client, and the end of the connection.      *)
LEMMA ClientStep ==
  ASSUME IInv, NEW s \in Sockets,
         \/ Accept(s) \/ Bind(s) \/ Read(s) \/ HangUp(s)
         \/ EndOfStream(s) \/ RecvFails(s) \/ CallFails(s)
         \/ \E r \in Requests[s] : Write(s, r)
  PROVE  IInv'
<1>. USE DEF Connection, Authentication, Buffered, Handles
<1>1. /\ Connection(s) /\ Authentication(s) /\ Binding /\ ThreadOf(s) \in 0 .. m_threadNum - 1
      /\ s # NoSocket
  BY ServerAssumption DEF IInv, Shape, ThreadOf
<1>2. CASE Accept(s)
  <2>1. /\ OnlyOf(s) /\ running' \in BOOLEAN /\ sending' = sending
        /\ status'[s] = "open" /\ session'[s] = NewSession(s) /\ sent'[s] = {}
        /\ request'[s] = request[s] /\ m_sendBuf'[s] = m_sendBuf[s] /\ inbox'[s] = inbox[s]
    BY <1>2 DEF Accept, OnlyOf, IInv, Shape
  <2>2. NewSession(s) \in SessionStates /\ NewSession(s).authStatus = 0
    BY DEF NewSession, SessionStates
  <2>3. s \notin sending /\ m_sendBuf[s] = NoReply
    BY <1>1, <1>2 DEF Accept
  <2>4. Connection(s)' /\ Authentication(s)'
    BY <1>1, <2>1, <2>2, <2>3
  <2>5. Binding'
    <3>1. \A d \in sending : ThreadOf(d) # ThreadOf(ListenFd)
      BY <1>2 DEF Accept, ThreadIdle
    <3>2. binding' = s /\ stale' = stale /\ m_threadNum' = m_threadNum
      BY <1>2 DEF Accept
    <3>. QED
      BY <1>1, <2>1, <3>1, <3>2 DEF Binding, ThreadOf
  <2>. QED
    BY <2>1, <2>4, <2>5, OneConnectionBound DEF IInv, Shape
<1>3. CASE Read(s)
  <2>1. /\ OnlyOf(s) /\ BindingStays(s) /\ running' \in BOOLEAN /\ sending' = sending
        /\ status'[s] = status[s] /\ session'[s] = session[s] /\ sent'[s] = sent[s]
        /\ request'[s] = request[s] /\ m_sendBuf'[s] = m_sendBuf[s]
        /\ inbox'[s] = Tail(inbox[s]) /\ inbox[s] # <<>>
    BY <1>3 DEF Read, OnlyOf, IInv, Shape, Binding, BindingStays
  <2>2. inbox'[s] \in Seq(RepliesTo(s)) /\ Len(inbox'[s]) <= SndRoom
    <3>1. inbox[s] \in Seq(RepliesTo(s)) /\ Len(inbox[s]) <= SndRoom /\ SndRoom \in Nat
      BY <1>1, ServerAssumption
    <3>. HIDE DEF RepliesTo
    <3>2. /\ Tail(inbox[s]) \in Seq(RepliesTo(s))
          /\ Len(Tail(inbox[s])) = Len(inbox[s]) - 1 /\ Len(inbox[s]) \in Nat
      BY <2>1, <3>1, HeadTailProperties, LenProperties
    <3>. QED
      BY <2>1, <3>1, <3>2
  <2>3. Connection(s)' /\ Authentication(s)'
    BY <1>1, <2>1, <2>2
  <2>. QED
    BY <2>1, <2>3, OneConnection DEF IInv, Shape
<1>4. CASE HangUp(s)
  <2>1. /\ OnlyOf(s) /\ BindingStays(s) /\ running' \in BOOLEAN /\ sending' = sending
        /\ status'[s] = "hungup" /\ session'[s] = session[s] /\ sent'[s] = sent[s]
        /\ request'[s] = request[s] /\ m_sendBuf'[s] = m_sendBuf[s] /\ inbox'[s] = <<>>
    BY <1>4 DEF HangUp, OnlyOf, IInv, Shape, Binding, BindingStays
  <2>2. <<>> \in Seq(RepliesTo(s)) /\ Len(<<>>) <= SndRoom
    BY EmptySeq, ServerAssumption
  <2>3. Connection(s)' /\ Authentication(s)'
    BY <1>1, <2>1, <2>2
  <2>. QED
    BY <2>1, <2>3, OneConnection DEF IInv, Shape
<1>5. CASE EndOfStream(s) \/ RecvFails(s)
  <2>1. /\ OnlyOf(s) /\ BindingStays(s) /\ running' \in BOOLEAN /\ sending' = sending
        /\ status'[s] = "closed" /\ session'[s] = session[s] /\ sent'[s] = sent[s]
        /\ request'[s] = NoRequest /\ m_sendBuf'[s] = m_sendBuf[s] /\ inbox'[s] = inbox[s]
    BY <1>5 DEF EndOfStream, RecvFails, CloseSession, Serves, OnlyOf, IInv, Shape,
                Binding, BindingStays
  <2>2. s \notin sending
    BY <1>5 DEF EndOfStream, RecvFails, Serves, ThreadIdle
  <2>3. Connection(s)' /\ Authentication(s)'
    BY <1>1, <2>1, <2>2
  <2>. QED
    BY <2>1, <2>3, OneConnection DEF IInv, Shape
<1>6. ASSUME NEW r \in Requests[s], Write(s, r) PROVE IInv'
  <2>1. /\ OnlyOf(s) /\ BindingStays(s) /\ running' \in BOOLEAN /\ sending' = sending
        /\ status[s] = "open" /\ request[s] = NoRequest
        /\ status'[s] = status[s] /\ session'[s] = session[s] /\ sent'[s] = sent[s]
        /\ request'[s] = r /\ m_sendBuf'[s] = m_sendBuf[s] /\ inbox'[s] = inbox[s]
    BY <1>6 DEF Write, OnlyOf, IInv, Shape, Binding, BindingStays
  <2>2. r # NoRequest /\ s \notin sending
    BY <1>1, <2>1, ServerAssumption
  <2>3. Connection(s)' /\ Authentication(s)'
    BY <1>1, <2>1, <2>2
  <2>. QED
    BY <2>1, <2>3, OneConnection DEF IInv, Shape
<1>7. CASE Bind(s) \/ CallFails(s)
  <2>1. /\ OnlyOf(s) /\ running' \in BOOLEAN /\ sending' = sending
        /\ status'[s] = status[s] /\ session'[s] = session[s] /\ sent'[s] = sent[s]
        /\ request'[s] = request[s] /\ m_sendBuf'[s] = m_sendBuf[s] /\ inbox'[s] = inbox[s]
    BY <1>7 DEF Bind, CallFails, OnlyOf, IInv, Shape
  <2>2. Connection(s)' /\ Authentication(s)'
    BY <1>1, <2>1
  <2>3. Binding'
    <3>1. CASE Bind(s)
      BY <1>1, <3>1 DEF Bind, Binding
    <3>2. CASE CallFails(s)
      BY <1>1, <3>2 DEF CallFails, Binding, ThreadOf
    <3>. QED
      BY <1>7, <3>1, <3>2
  <2>. QED
    BY <2>1, <2>2, <2>3, OneConnectionBound DEF IInv, Shape
<1>. QED
  BY <1>2, <1>3, <1>4, <1>5, <1>6, <1>7

(* A handler's reply goes to the send buffer: GSSAPI's tokens only in      *)
(* their turn, and authStatus is set exactly with the challenge.           *)
LEMMA SendStep ==
  ASSUME IInv, NEW s \in Sockets, Receiving(s),
         NEW reply \in RepliesTo(s) \cup {NoReply}, Send(s, reply),
         Handles(s, Produce) /\ reply = NoReply => request[s] \notin NeedingRespond,
         UNCHANGED <<m_threadNum, status, inbox, sent, binding, stale>>,
         NEW state \in SessionStates, DOMAIN session' = Sockets,
         \A d \in Sockets : session'[d] = IF d = s THEN state ELSE session[d],
         state.authStatus = 1 =>
           session[s].authStatus = 1 \/ (reply # NoReply /\ reply.kind = "challenge"),
         session[s].authStatus = 1 => state.authStatus = 1,
         reply # NoReply /\ reply.kind = "challenge" =>
           state.mechanism = "GSSAPI" /\ state.authStatus = 1 /\ session[s].authStatus = 0,
         reply # NoReply /\ reply.kind = "final" =>
           state.mechanism = "GSSAPI" /\ session[s].authStatus = 1
  PROVE  IInv'
<1>1. Connection(s) /\ Authentication(s)
  BY DEF IInv
<1>2. s \notin sending /\ ThreadIdle(s) /\ request[s] # NoRequest /\ running /\ s # binding
  BY DEF Receiving, Serves, ThreadIdle
<1>3. m_sendBuf[s] = NoReply
  BY <1>1, <1>2 DEF Connection
<1>4. /\ OnlyOf(s) /\ BindingStays(s) /\ running' \in BOOLEAN /\ sending' = sending \cup {s}
      /\ status'[s] = status[s] /\ session'[s] = state /\ sent'[s] = sent[s]
      /\ request'[s] = request[s] /\ m_sendBuf'[s] = reply /\ inbox'[s] = inbox[s]
      /\ sending' \subseteq Sockets
  BY <1>2 DEF Send, OnlyOf, IInv, Shape, Binding, BindingStays
<1>5. Connection(s)'
  BY <1>1, <1>2, <1>4 DEF Connection, Handles
<1>6. Authentication(s)'
  BY <1>1, <1>3, <1>4 DEF Authentication, Buffered
<1>. QED
  BY <1>2, <1>4, <1>5, <1>6, OneConnection

(* Any reply but those two.                                                *)
LEMMA ReplyType ==
  ASSUME NEW s \in Sockets, request[s] \in Requests[s],
         NEW kind \in ReplyKinds \ {"UnsupportedVersion", "acks"}, NEW body \in Bodies
  PROVE  Reply(s, kind, body) \in RepliesTo(s) /\ Reply(s, kind, body).kind = kind
BY DEF Reply, RepliesTo

LEMMA ReceiveStep == ASSUME IInv, NEW s \in Sockets, Receive(s) PROVE IInv'
<1>1. Connection(s) /\ Authentication(s)
  BY DEF IInv
<1>2. /\ Receiving(s) /\ s \notin sending /\ ThreadIdle(s) /\ running
      /\ UNCHANGED <<m_threadNum, status, inbox, sent, binding, stale>>
      /\ request[s] # NoRequest /\ s # binding /\ BindingStays(s)
  BY DEF Receive, Receiving, Serves, ThreadIdle, IInv, Binding, BindingStays
<1>3. request[s] \in Requests[s] /\ session[s] \in SessionStates /\ DOMAIN session = Sockets
  BY <1>1, <1>2 DEF Connection, IInv, Shape
<1>. DEFINE req == request[s]
<1>0. <<>> \in Bodies /\ ReplyKinds \ {"UnsupportedVersion", "acks"} =
        {"versions", "metadata", "producerId", "handshake", "challenge", "final", "plain"}
  BY DEF Bodies, ReplyKinds
<1>4. ASSUME NEW kind \in ReplyKinds \ {"UnsupportedVersion", "acks", "challenge", "final"},
             NEW body \in Bodies, Send(s, Reply(s, kind, body)), UNCHANGED session,
             request[s].key # Produce
      PROVE  IInv'
  <2>1. /\ Reply(s, kind, body) \in RepliesTo(s) \cup {NoReply}
        /\ Reply(s, kind, body).kind \notin {"challenge", "final"}
        /\ ~Handles(s, Produce)
    BY <1>3, <1>4, ReplyType DEF Handles
  <2>2. /\ DOMAIN session' = Sockets
        /\ \A d \in Sockets : session'[d] = IF d = s THEN session[s] ELSE session[d]
    BY <1>3, <1>4
  <2>. HIDE DEF Reply, RepliesTo
  <2>. QED
    BY <1>2, <1>3, <1>4, <2>1, <2>2, SendStep
<1>5. ASSUME Send(s, NoReply), UNCHANGED session,
             Handles(s, Produce) => request[s] \notin NeedingRespond
      PROVE  IInv'
  <2>1. /\ DOMAIN session' = Sockets
        /\ \A d \in Sockets : session'[d] = IF d = s THEN session[s] ELSE session[d]
    BY <1>3, <1>5
  <2>. QED
    BY <1>2, <1>3, <1>5, <2>1, SendStep
<1>6. ASSUME HandleSaslHandshake(s) \/ HandleSaslAuthenticate(s)
      PROVE  request[s].key # Produce /\ ~Handles(s, Produce)
  BY <1>6 DEF HandleSaslHandshake, HandleSaslAuthenticate, Handles,
              Produce, SaslHandshake, SaslAuthenticate
<1>7. CASE DropUnknown(s)
  <2>1. /\ OnlyOf(s) /\ running' \in BOOLEAN /\ sending' = sending
        /\ status'[s] = status[s] /\ session'[s] = session[s] /\ sent'[s] = sent[s]
        /\ request'[s] = NoRequest /\ m_sendBuf'[s] = m_sendBuf[s] /\ inbox'[s] = inbox[s]
    BY <1>2, <1>7 DEF DropUnknown, OnlyOf, IInv, Shape
  <2>2. Connection(s)' /\ Authentication(s)'
    BY <1>1, <1>2, <2>1 DEF Connection, Authentication, Buffered, Handles
  <2>. QED
    BY <1>2, <2>1, <2>2, OneConnection DEF IInv, Shape
<1>8. CASE Refuse(s)
  <2>. DEFINE reply == Reply(s, "UnsupportedVersion", <<>>)
  <2>1. /\ reply \in RepliesTo(s) /\ reply.kind \notin {"challenge", "final"}
        /\ ~Handles(s, Produce)
    BY <1>3, <1>8 DEF Refuse, Reply, RepliesTo, ReplyKinds, Bodies, Handles
  <2>2. /\ DOMAIN session' = Sockets /\ Send(s, reply)
        /\ \A d \in Sockets : session'[d] = IF d = s THEN session[s] ELSE session[d]
    BY <1>3, <1>8 DEF Refuse
  <2>. HIDE DEF reply
  <2>. QED
    BY <1>2, <1>3, <2>1, <2>2, SendStep
<1>9. CASE HandleApiVersions(s)
  BY <1>4, <1>9 DEF HandleApiVersions, Handles, Produce, ApiVersions, Metadata,
       InitProducerId, ReplyKinds, Bodies
<1>10. CASE HandleMetadata(s)
  <2>1. req.topics \in Bodies
    BY <1>3, <1>10 DEF HandleMetadata, Handles, Bodies, AllRequests
  <2>. QED
    BY <1>4, <1>10, <2>1 DEF HandleMetadata, Handles, Produce, ApiVersions, Metadata,
       InitProducerId, ReplyKinds
<1>11. CASE HandleInitProducerId(s)
  BY <1>4, <1>11 DEF HandleInitProducerId, Handles, Produce, ApiVersions, Metadata,
       InitProducerId, ReplyKinds, Bodies
<1>12. CASE HandleProduce(s)
  <2>. DEFINE reply == Reply(s, "acks", ReadOf[req].map)
  <2>1. req \in ProduceRequests
    BY <1>3, <1>12 DEF HandleProduce, Handles, ProduceRequests
  <2>. HIDE DEF ReadOf, NeedingRespond
  <2>2. req \in NeedingRespond => reply \in RepliesTo(s) /\ reply.kind = "acks"
    <3>1. ReadOf[req].map \in Bodies /\ "acks" \in ReplyKinds
      BY <2>1 DEF Bodies, ReplyKinds
    <3>. QED
      BY <1>3, <3>1 DEF Reply, RepliesTo
  <2>3. reply # NoReply
    BY <2>1, NoReplyAssumption DEF Reply
  <2>4. CASE running' = FALSE /\ UNCHANGED <<request, sending, m_sendBuf>>
    <3>1. /\ OnlyOf(s) /\ running' \in BOOLEAN /\ sending' = sending
          /\ status'[s] = status[s] /\ session'[s] = session[s] /\ sent'[s] = sent[s]
          /\ request'[s] = request[s] /\ m_sendBuf'[s] = m_sendBuf[s]
          /\ inbox'[s] = inbox[s]
      BY <1>2, <1>12, <2>4 DEF HandleProduce, OnlyOf, IInv, Shape
    <3>2. Connection(s)' /\ Authentication(s)'
      BY <1>1, <3>1 DEF Connection, Authentication, Buffered, Handles
    <3>. QED
      BY <1>2, <3>1, <3>2, OneConnection DEF IInv, Shape
  <2>5. CASE Send(s, IF req \in NeedingRespond THEN reply ELSE NoReply)
    <3>1. /\ UNCHANGED session /\ DOMAIN session' = Sockets
          /\ \A d \in Sockets : session'[d] = IF d = s THEN session[s] ELSE session[d]
      BY <1>3, <1>12 DEF HandleProduce
    <3>. HIDE DEF reply
    <3>2. CASE req \in NeedingRespond
      <4>1. Send(s, reply) /\ reply \in RepliesTo(s) /\ reply.kind \notin {"challenge", "final"}
        BY <2>2, <2>5, <3>2
      <4>. QED
        BY <1>2, <1>3, <2>3, <3>1, <4>1, SendStep
    <3>3. CASE req \notin NeedingRespond
      BY <1>5, <2>5, <3>1, <3>3
    <3>. QED
      BY <3>2, <3>3
  <2>. QED
    BY <1>12, <2>4, <2>5 DEF HandleProduce
<1>13. CASE HandleSaslHandshake(s)
  <2>. DEFINE state == [session[s] EXCEPT !.mechanism = req.mechanism]
              reply == Reply(s, "handshake", req.mechanism)
  <2>1. req.mechanism \in Bodies /\ state \in SessionStates
        /\ state.authStatus = session[s].authStatus
    <3>1. req \in {q \in AllRequests : q.key = SaslHandshake}
      BY <1>3, <1>13 DEF HandleSaslHandshake, Handles, AllRequests
    <3>2. req.mechanism \in Bodies
      BY <3>1 DEF Bodies
    <3>3. req.mechanism \in {r.mechanism : r \in {q \in AllRequests : q.key = SaslHandshake}}
      BY <3>1
    <3>. QED
      BY <1>3, <3>2, <3>3 DEF SessionStates
  <2>2. reply \in RepliesTo(s) /\ reply.kind = "handshake"
    BY <1>3, <2>1, ReplyType DEF ReplyKinds
  <2>3. /\ DOMAIN session' = Sockets /\ Send(s, reply)
        /\ \A d \in Sockets : session'[d] = IF d = s THEN state ELSE session[d]
    BY <1>3, <1>13 DEF HandleSaslHandshake
  <2>. HIDE DEF state, reply
  <2>. QED
    BY <1>2, <1>3, <1>6, <1>13, <2>1, <2>2, <2>3, SendStep
<1>14. CASE HandleSaslAuthenticate(s) /\ AcceptContext(s)
  <2>1. PICK accepted \in BOOLEAN, wrapped \in BOOLEAN :
          /\ session' = [session EXCEPT ![s].authStatus = AuthStatusAfter(accepted, wrapped)]
          /\ Send(s, IF accepted /\ wrapped THEN Reply(s, "challenge", <<>>) ELSE NoReply)
    BY <1>14 DEF AcceptContext
  <2>. DEFINE state == [session[s] EXCEPT !.authStatus = AuthStatusAfter(accepted, wrapped)]
              reply == Reply(s, "challenge", <<>>)
  <2>2. session[s].mechanism = "GSSAPI" /\ session[s].authStatus = 0
    BY <1>14 DEF AcceptContext
  <2>3. /\ state \in SessionStates /\ state.mechanism = "GSSAPI"
        /\ state.authStatus = IF accepted /\ wrapped THEN 1 ELSE 0
    BY <1>3, <2>2 DEF SessionStates, AuthStatusAfter
  <2>4. reply \in RepliesTo(s) /\ reply.kind = "challenge" /\ reply # NoReply
    <3>1. reply \in RepliesTo(s) /\ reply.kind = "challenge"
      BY <1>0, <1>3, ReplyType
    <3>2. /\ reply \in [corr : {req}, kind : {"UnsupportedVersion", "challenge"}, body : {<<>>}]
          /\ req \in UNION {Requests[d] : d \in Sockets}
      BY <1>3 DEF Reply
    <3>. QED
      BY <3>1, <3>2, NoReplyAssumption
  <2>5. /\ DOMAIN session' = Sockets
        /\ \A d \in Sockets : session'[d] = IF d = s THEN state ELSE session[d]
        /\ Send(s, IF accepted /\ wrapped THEN reply ELSE NoReply)
    BY <1>3, <2>1
  <2>. HIDE DEF state, reply
  <2>6. CASE accepted /\ wrapped
    <3>1. Send(s, reply) /\ state.authStatus = 1
      BY <2>3, <2>5, <2>6
    <3>. QED
      BY <1>2, <1>6, <1>14, <2>2, <2>3, <2>4, <2>5, <3>1, SendStep
  <2>7. CASE ~(accepted /\ wrapped)
    <3>1. Send(s, NoReply) /\ state.authStatus = 0
      BY <2>3, <2>5, <2>7
    <3>. QED
      BY <1>2, <1>6, <1>14, <2>2, <2>3, <2>5, <3>1, SendStep
  <2>. QED
    BY <2>6, <2>7
<1>15. CASE HandleSaslAuthenticate(s) /\ FinishGssapi(s)
  <2>. DEFINE reply == Reply(s, "final", <<>>)
  <2>1. reply \in RepliesTo(s) /\ reply.kind = "final"
    BY <1>0, <1>3, ReplyType
  <2>2. /\ DOMAIN session' = Sockets /\ Send(s, reply)
        /\ \A d \in Sockets : session'[d] = IF d = s THEN session[s] ELSE session[d]
        /\ session[s].mechanism = "GSSAPI" /\ session[s].authStatus = 1
    BY <1>3, <1>15 DEF FinishGssapi
  <2>. HIDE DEF reply
  <2>. QED
    BY <1>2, <1>3, <1>6, <1>15, <2>1, <2>2, SendStep
<1>16. CASE HandleSaslAuthenticate(s) /\ AuthenticatePlain(s)
  BY <1>4, <1>6, <1>16 DEF AuthenticatePlain, ReplyKinds, Bodies
<1>17. CASE HandleSaslAuthenticate(s) /\ AuthenticateOther(s)
  BY <1>5, <1>6, <1>17 DEF AuthenticateOther
<1>. QED
  BY <1>7, <1>8, <1>9, <1>10, <1>11, <1>12, <1>13, <1>14, <1>15, <1>16, <1>17
     DEF Receive, HandleSaslAuthenticate

(* sendAndWait sends the reply once there is room and the client is there, *)
(* and leaves the connection without a request.                            *)
LEMMA SendAndWaitStep == ASSUME IInv, NEW s \in Sockets, SendAndWait(s) PROVE IInv'
<1>1. Connection(s) /\ Authentication(s) /\ Shape
  BY DEF IInv
<1>2. /\ s \in sending /\ PollReturns(s) /\ sending' = sending \ {s}
      /\ m_sendBuf' = [m_sendBuf EXCEPT ![s] = NoReply]
      /\ request' = [request EXCEPT ![s] = NoRequest]
      /\ UNCHANGED <<m_threadNum, running, status, session, binding, stale>>
  BY DEF SendAndWait
<1>5. BindingStays(s)
  BY <1>2, ServerAssumption DEF IInv, Binding, BindingStays
<1>3. CASE status[s] = "open" /\ m_sendBuf[s] # NoReply
  <2>1. /\ inbox' = [inbox EXCEPT ![s] = Append(@, m_sendBuf[s])]
        /\ sent' = [sent EXCEPT ![s] = @ \cup ({m_sendBuf[s].kind} \cap Noted)]
    BY <1>3 DEF SendAndWait
  <2>2. OnlyOf(s)
    BY <1>1, <1>2, <2>1 DEF OnlyOf, Shape
  <2>3. /\ status'[s] = status[s] /\ session'[s] = session[s]
        /\ request'[s] = NoRequest /\ m_sendBuf'[s] = NoReply
        /\ inbox'[s] = Append(inbox[s], m_sendBuf[s])
        /\ sent'[s] = sent[s] \cup ({m_sendBuf[s].kind} \cap Noted)
    BY <1>1, <1>2, <2>1 DEF Shape
  <2>4. inbox'[s] \in Seq(RepliesTo(s)) /\ Len(inbox'[s]) <= SndRoom
    <3>1. /\ inbox[s] \in Seq(RepliesTo(s)) /\ m_sendBuf[s] \in RepliesTo(s)
          /\ Len(inbox[s]) < SndRoom /\ SndRoom \in Nat
      BY <1>1, <1>2, <1>3, ServerAssumption DEF Connection, PollReturns
    <3>. HIDE DEF RepliesTo
    <3>2. /\ Append(inbox[s], m_sendBuf[s]) \in Seq(RepliesTo(s))
          /\ Len(Append(inbox[s], m_sendBuf[s])) = Len(inbox[s]) + 1 /\ Len(inbox[s]) \in Nat
      BY <3>1, AppendProperties, LenProperties
    <3>. QED
      BY <2>3, <3>1, <3>2
  <2>5. Connection(s)'
    BY <1>1, <1>2, <2>3, <2>4 DEF Connection, Handles
  <2>6. Authentication(s)'
    BY <1>1, <1>3, <2>3 DEF Authentication, Buffered, Noted
  <2>. QED
    BY <1>1, <1>2, <1>5, <2>2, <2>5, <2>6, OneConnection DEF Shape
<1>4. CASE ~(status[s] = "open" /\ m_sendBuf[s] # NoReply)
  <2>1. UNCHANGED <<inbox, sent>>
    BY <1>4 DEF SendAndWait
  <2>2. OnlyOf(s)
    BY <1>1, <1>2, <2>1 DEF OnlyOf, Shape
  <2>3. /\ status'[s] = status[s] /\ session'[s] = session[s]
        /\ request'[s] = NoRequest /\ m_sendBuf'[s] = NoReply
        /\ inbox'[s] = inbox[s] /\ sent'[s] = sent[s]
    BY <1>1, <1>2, <2>1 DEF Shape
  <2>4. Connection(s)'
    BY <1>1, <1>2, <2>3 DEF Connection, Handles
  <2>5. Authentication(s)'
    BY <1>1, <1>4, <2>3 DEF Authentication, Buffered
  <2>. QED
    BY <1>1, <1>2, <1>5, <2>2, <2>4, <2>5, OneConnection DEF Shape
<1>. QED
  BY <1>3, <1>4

LEMMA IInvInductive == Spec => []IInv
<1>1. IInv /\ [Next]_vars => IInv'
  <2>. SUFFICES ASSUME IInv, [Next]_vars PROVE IInv'
    OBVIOUS
  <2>1. CASE UNCHANGED vars
    BY <2>1 DEF vars, IInv, Shape, Binding, Connection, Authentication, Buffered, Handles, ThreadOf
  <2>2. ASSUME NEW s \in Sockets,
               \/ Accept(s) \/ Bind(s) \/ Read(s) \/ HangUp(s)
               \/ \E r \in Requests[s] : Write(s, r)
               \/ Receive(s) \/ SendAndWait(s)
               \/ EndOfStream(s) \/ RecvFails(s) \/ CallFails(s)
        PROVE  IInv'
    BY <2>2, ClientStep, ReceiveStep, SendAndWaitStep
  <2>. QED
    BY <2>1, <2>2 DEF Next
<1>. QED
  BY <1>1, InitIInv, PTL DEF Spec

(* For every number of threads and set of connections: no two callbacks of *)
(* one thread are in sendAndWait at once, and a callback that is there has *)
(* the request it answers.                                                 *)
THEOREM TypeCorrect == Spec => []TypeOK
<1>1. IInv => TypeOK
  BY DEF IInv, Shape, Binding, Connection, SessionStates, TypeOK
<1>. QED
  BY <1>1, IInvInductive, PTL

(* A client is never refused a version it has been told: for every set of  *)
(* requests the table of ApiVersions and the maxima of the handlers agree. *)
THEOREM NegotiationHolds == Spec => []NegotiatedVersionServed
<1>1. IInv => NegotiatedVersionServed
  <2>. SUFFICES ASSUME IInv, NEW s \in Sockets, NEW reply \in Replies(s),
                       reply.kind = "UnsupportedVersion",
                       Advertised(reply.corr.key, reply.corr.version)
                PROVE  FALSE
    BY DEF NegotiatedVersionServed
  <2>1. PICK i \in DOMAIN inbox[s] : reply = inbox[s][i]
    BY DEF Replies
  <2>2. inbox[s] \in Seq(RepliesTo(s))
    BY DEF IInv, Connection
  <2>3. reply \in RepliesTo(s)
    BY <2>1, <2>2, ElementOfSeq
  <2>. QED
    BY <2>3, TablesAgree DEF RepliesTo
<1>. QED
  BY <1>1, IInvInductive, PTL

(* A produce request is acknowledged if its acks asks for it and left      *)
(* without an answer if not, for every set of requests, whatever surrounds *)
(* acks in the body, and whatever the other connections of the thread do.  *)
THEOREM AcknowledgementsAsked == Spec => []AcknowledgedAsAsked
<1>1. IInv => AcknowledgedAsAsked
  <2>. SUFFICES ASSUME IInv PROVE AcknowledgedAsAsked
    OBVIOUS
  <2>. HIDE DEF NeedingRespond
  <2>1. ASSUME NEW s \in Sockets, NEW reply \in Replies(s), reply.kind = "acks"
        PROVE  reply.corr.acks # 0
    <3>1. PICK i \in DOMAIN inbox[s] : reply = inbox[s][i]
      BY DEF Replies
    <3>2. inbox[s] \in Seq(RepliesTo(s))
      BY DEF IInv, Connection
    <3>3. reply \in RepliesTo(s)
      BY <3>1, <3>2, ElementOfSeq
    <3>4. reply.corr \in NeedingRespond
      BY <2>1, <3>3 DEF RepliesTo
    <3>5. reply.corr \in ProduceRequests
      BY <3>4 DEF NeedingRespond
    <3>. QED
      BY <3>4, <3>5, RespondsAsAsked
  <2>2. ASSUME NEW s \in Sockets, s \in sending, Handles(s, Produce), m_sendBuf[s] = NoReply
        PROVE  request[s].acks = 0
    <3>1. request[s] \in ProduceRequests /\ request[s] \notin NeedingRespond
      BY <2>2 DEF IInv, Connection, ProduceRequests, Handles
    <3>. QED
      BY <3>1, RespondsAsAsked
  <2>. QED
    BY <2>1, <2>2 DEF AcknowledgedAsAsked
<1>. QED
  BY <1>1, IInvInductive, PTL

-----------------------------------------------------------------------------
(* What SaslExchange sees of the connections.                              *)
MechanismsOf == [s \in Sockets |-> session[s].mechanism]
TokensOf == [s \in Sockets |-> sent[s] \ {"versions"}]

(* A step of one connection, seen through the mapping.                     *)
LEMMA MappedStep ==
  ASSUME IInv, NEW s \in Sockets, OnlyOf(s)
  PROVE  /\ MechanismsOf' = [MechanismsOf EXCEPT ![s] = session'[s].mechanism]
         /\ TokensOf' = [TokensOf EXCEPT ![s] = sent'[s] \ {"versions"}]
         /\ session'[s].mechanism = session[s].mechanism => MechanismsOf' = MechanismsOf
         /\ sent'[s] \ {"versions"} = sent[s] \ {"versions"} => TokensOf' = TokensOf
<1>1. /\ MechanismsOf' = [d \in Sockets |-> session'[d].mechanism]
      /\ TokensOf' = [d \in Sockets |-> sent'[d] \ {"versions"}]
  BY DEF MechanismsOf, TokensOf
<1>2. \A d \in Sockets \ {s} : session'[d] = session[d] /\ sent'[d] = sent[d]
  BY DEF OnlyOf
<1>. QED
  BY <1>1, <1>2 DEF MechanismsOf, TokensOf

LEMMA StutterMapped ==
  MechanismsOf' = MechanismsOf /\ TokensOf' = TokensOf => UNCHANGED Exchange!vars
BY DEF Exchange!vars, MechanismsOf, TokensOf

(* A connection's client, and the end of a connection.                     *)
LEMMA ClientRefines ==
  ASSUME IInv, NEW s \in Sockets,
         \/ Accept(s) \/ Bind(s) \/ Read(s) \/ HangUp(s)
         \/ EndOfStream(s) \/ RecvFails(s) \/ CallFails(s)
         \/ \E r \in Requests[s] : Write(s, r)
  PROVE  [Exchange!Next]_(Exchange!vars)
<1>1. CASE Accept(s)
  <2>1. /\ OnlyOf(s) /\ session'[s] = NewSession(s) /\ sent'[s] = {}
    BY <1>1 DEF Accept, OnlyOf, IInv, Shape
  <2>2. session'[s].mechanism = ""
    <3>1. NewSession(s).mechanism = ""
      BY DEF NewSession
    <3>. QED
      BY <2>1, <3>1
  <2>3. /\ MechanismsOf' = [MechanismsOf EXCEPT ![s] = ""]
        /\ TokensOf' = [TokensOf EXCEPT ![s] = {} \ {"versions"}]
    BY <2>1, <2>2, MappedStep
  <2>4. {} \ {"versions"} = {}
    OBVIOUS
  <2>5. Exchange!Reconnect(s)
    BY <2>3, <2>4 DEF Exchange!Reconnect, MechanismsOf, TokensOf
  <2>. QED
    BY <2>5 DEF Exchange!Next
<1>2. CASE ~Accept(s)
  <2>1. session' = session /\ sent' = sent
    BY <1>2 DEF Bind, Read, HangUp, EndOfStream, RecvFails, CloseSession, CallFails, Write
  <2>2. MechanismsOf' = MechanismsOf /\ TokensOf' = TokensOf
    BY <2>1 DEF MechanismsOf, TokensOf
  <2>. QED
    BY <2>2, StutterMapped
<1>. QED
  BY <1>1, <1>2

(* Of the handlers only the one of SaslHandshake changes the mechanism.    *)
LEMMA ReceiveRefines ==
  ASSUME IInv, NEW s \in Sockets, Receive(s)
  PROVE  [Exchange!Next]_(Exchange!vars)
<1>1. /\ Connection(s) /\ DOMAIN session = Sockets
      /\ UNCHANGED sent /\ request[s] \in Requests[s]
  BY DEF IInv, Shape, Connection, Receive, Receiving, Serves
<1>2. TokensOf' = TokensOf
  BY <1>1 DEF TokensOf
<1>3. CASE HandleSaslHandshake(s)
  <2>1. /\ session' = [session EXCEPT ![s].mechanism = request[s].mechanism]
        /\ request[s].key = SaslHandshake
    BY <1>3 DEF HandleSaslHandshake, Handles
  <2>2. MechanismsOf' = [MechanismsOf EXCEPT ![s] = request[s].mechanism]
    <3>1. "mechanism" \in DOMAIN session[s]
      BY <1>1 DEF Connection, SessionStates
    <3>2. \A d \in Sockets :
            session'[d].mechanism = IF d = s THEN request[s].mechanism
                                    ELSE session[d].mechanism
      BY <1>1, <2>1, <3>1
    <3>3. MechanismsOf' = [d \in Sockets |-> session'[d].mechanism]
      BY DEF MechanismsOf
    <3>. QED
      BY <3>2, <3>3 DEF MechanismsOf
  <2>3. PICK m \in {r.mechanism : r \in {q \in UNION {Requests[d] : d \in Sockets} :
                                          q.key = SaslHandshake}} : request[s].mechanism = m
    BY <1>1, <2>1
  <2>4. Exchange!Choose(s, m)
    BY <1>2, <2>2, <2>3 DEF Exchange!Choose, MechanismsOf, TokensOf
  <2>. QED
    BY <2>4 DEF Exchange!Next
<1>4. CASE ~HandleSaslHandshake(s)
  <2>1. MechanismsOf' = MechanismsOf
    <3>1. CASE session' = session
      BY <3>1 DEF MechanismsOf
    <3>2. CASE AcceptContext(s)
      <4>1. PICK accepted \in BOOLEAN, wrapped \in BOOLEAN :
              session' = [session EXCEPT ![s].authStatus = AuthStatusAfter(accepted, wrapped)]
        BY <3>2 DEF AcceptContext
      <4>2. "mechanism" \in DOMAIN session[s]
        BY <1>1 DEF Connection, SessionStates
      <4>3. \A d \in Sockets : session'[d].mechanism = session[d].mechanism
        BY <1>1, <4>1, <4>2
      <4>. QED
        BY <4>3 DEF MechanismsOf
    <3>. QED
      BY <1>4, <3>1, <3>2
         DEF Receive, DropUnknown, Refuse, HandleApiVersions, HandleMetadata,
             HandleInitProducerId, HandleProduce, HandleSaslAuthenticate,
             FinishGssapi, AuthenticatePlain, AuthenticateOther
  <2>. QED
    BY <1>2, <2>1, StutterMapped
<1>. QED
  BY <1>3, <1>4

(* A token reaches the client while its mechanism is still chosen and in   *)
(* its turn.                                                               *)
LEMMA SendAndWaitRefines ==
  ASSUME IInv, NEW s \in Sockets, SendAndWait(s)
  PROVE  [Exchange!Next]_(Exchange!vars)
<1>1. Connection(s) /\ Authentication(s) /\ Shape
  BY DEF IInv
<1>2. MechanismsOf' = MechanismsOf
  BY DEF SendAndWait, MechanismsOf
<1>3. CASE /\ status[s] = "open" /\ m_sendBuf[s] # NoReply
           /\ m_sendBuf[s].kind \in {"challenge", "final"}
  <2>. DEFINE token == m_sendBuf[s].kind
  <2>1. sent' = [sent EXCEPT ![s] = @ \cup ({token} \cap Noted)]
    BY <1>3 DEF SendAndWait
  <2>2. \A d \in Sockets :
          sent'[d] \ {"versions"} = IF d = s THEN (sent[s] \ {"versions"}) \cup {token}
                                    ELSE sent[d] \ {"versions"}
    BY <1>1, <1>3, <2>1 DEF Shape, Noted
  <2>3. TokensOf' = [TokensOf EXCEPT ![s] = @ \cup {token}]
    <3>1. TokensOf' = [d \in Sockets |-> sent'[d] \ {"versions"}]
      BY DEF TokensOf
    <3>. QED
      BY <2>2, <3>1 DEF TokensOf
  <2>4. MechanismsOf[s] = session[s].mechanism /\ TokensOf[s] = sent[s] \ {"versions"}
    BY DEF MechanismsOf, TokensOf
  <2>5. /\ MechanismsOf[s] = "GSSAPI"
        /\ token = "challenge" => "challenge" \notin TokensOf[s]
        /\ token = "final" => "challenge" \in TokensOf[s]
    BY <1>1, <1>3, <2>4 DEF Authentication, Buffered
  <2>. HIDE DEF token
  <2>6. Exchange!Challenge(s) \/ Exchange!Finish(s)
    <3>1. token \in {"challenge", "final"}
      BY <1>3 DEF token
    <3>2. CASE token = "challenge"
      <4>1. TokensOf' = [TokensOf EXCEPT ![s] = @ \cup {"challenge"}]
        BY <2>3, <3>2
      <4>. QED
        BY <1>2, <2>5, <3>2, <4>1
           DEF Exchange!Challenge, Exchange!Grant, MechanismsOf, TokensOf
    <3>3. CASE token = "final"
      <4>1. TokensOf' = [TokensOf EXCEPT ![s] = @ \cup {"final"}]
        BY <2>3, <3>3
      <4>. QED
        BY <1>2, <2>5, <3>3, <4>1
           DEF Exchange!Finish, Exchange!Grant, MechanismsOf, TokensOf
    <3>. QED
      BY <3>1, <3>2, <3>3
  <2>. QED
    BY <2>6 DEF Exchange!Next
<1>4. CASE ~(/\ status[s] = "open" /\ m_sendBuf[s] # NoReply
             /\ m_sendBuf[s].kind \in {"challenge", "final"})
  <2>1. \A d \in Sockets : sent'[d] \ {"versions"} = sent[d] \ {"versions"}
    <3>1. CASE UNCHANGED sent
      BY <3>1
    <3>2. CASE /\ m_sendBuf[s].kind \notin {"challenge", "final"}
               /\ sent' = [sent EXCEPT ![s] = @ \cup ({m_sendBuf[s].kind} \cap Noted)]
      BY <1>1, <3>2 DEF Shape, Noted
    <3>. QED
      BY <1>4, <3>1, <3>2 DEF SendAndWait
  <2>2. TokensOf' = TokensOf
    BY <2>1 DEF TokensOf
  <2>. QED
    BY <1>2, <2>2, StutterMapped
<1>. QED
  BY <1>3, <1>4

(* Every connection implements SaslExchange, whatever else the clients of  *)
(* the server ask: the challenge goes out once to a client that has chosen *)
(* GSSAPI on this connection, the final token only behind it.              *)
THEOREM SaslRefines == Spec => ImplementsSasl
<1>1. Init => Exchange!Init
  <2>. SUFFICES ASSUME Init PROVE Exchange!Init
    OBVIOUS
  <2>1. \A s \in Sockets : session[s].mechanism = "" /\ sent[s] \ {"versions"} = {}
    BY DEF Init
  <2>. QED
    BY <2>1 DEF Exchange!Init
<1>2. IInv /\ [Next]_vars => [Exchange!Next]_(Exchange!vars)
  <2>. SUFFICES ASSUME IInv, [Next]_vars PROVE [Exchange!Next]_(Exchange!vars)
    OBVIOUS
  <2>1. CASE UNCHANGED vars
    BY <2>1, StutterMapped DEF vars, MechanismsOf, TokensOf
  <2>2. ASSUME NEW s \in Sockets,
               \/ Accept(s) \/ Bind(s) \/ Read(s) \/ HangUp(s)
               \/ \E r \in Requests[s] : Write(s, r)
               \/ Receive(s) \/ SendAndWait(s)
               \/ EndOfStream(s) \/ RecvFails(s) \/ CallFails(s)
        PROVE  [Exchange!Next]_(Exchange!vars)
    BY <2>2, ClientRefines, ReceiveRefines, SendAndWaitRefines
  <2>. QED
    BY <2>1, <2>2 DEF Next
<1>. QED
  BY <1>1, <1>2, IInvInductive, PTL DEF Spec, ImplementsSasl, Exchange!Spec

=============================================================================
