------------------------------- MODULE Server -------------------------------
(***************************************************************************)
(* Several connections on the epoll threads of one server: dispatch of     *)
(* whole requests to the handlers, and the blocking sendAndWait, during    *)
(* which a thread serves no other connection.                              *)
(*                                                                         *)
(* A connection is named by its descriptor.  How requests are cut from the *)
(* stream is the subject of Session, how descriptors are accepted and      *)
(* bound that of AsyncIO; here a request is a record and arrives whole.    *)
(* The correlation id of a reply is the request it answers.                *)
(***************************************************************************)
EXTENDS Handlers

CONSTANTS
  ListenFd,    \* the listening descriptor
  Sockets,     \* descriptors of the connections
  Threads,     \* numbers of epoll threads the server may be created with
  Requests,    \* descriptor -> the requests its client may send
  SndRoom,     \* bound: replies a socket holds before poll finds it full
  NoRequest,   \* not a request
  NoReply,     \* handle() returned 0: nothing to send
  NoSocket     \* not a descriptor

ASSUME ServerAssumption ==
  /\ Sockets \subseteq Nat /\ ListenFd \in Nat
  /\ Threads \subseteq Nat \ {0}
  /\ SndRoom \in Nat \ {0}
  /\ NoSocket \notin Sockets
  /\ \A s \in Sockets : NoRequest \notin Requests[s]

VARIABLES
  m_threadNum,  \* epoll threads
  running,      \* the process has not been terminated
  status,       \* descriptor -> "closed", "open", or "hungup" by its client
  request,      \* descriptor -> the request in its receive buffer
  session,      \* descriptor -> m_mechanism and m_authStatus of its CSession
  sending,      \* descriptors whose recvCallBack is in sendAndWait
  m_sendBuf,    \* descriptor -> the reply sendAndWait is to send
  inbox,        \* descriptor -> replies sent and not read by the client
  sent,         \* history: descriptor -> kinds of replies sent (of Noted)
  printed,      \* descriptor -> the values its running callback has printed
  binding,      \* the descriptor acceptCallBack is in bindSocket with, or NoSocket
  stale         \* threads whose errno is EAGAIN

vars == <<m_threadNum, running, status, request, session, sending, m_sendBuf,
          inbox, sent, printed, binding, stale>>

(* Mutant of ThreadOf: every connection on the first thread.               *)
ThreadOfFirst(s) == 0

(* bindSocket: the thread a descriptor belongs to.                         *)
ThreadOf(s) == s % m_threadNum

(* Mutant of ThreadIdle: a thread leaves the callback while poll waits.     *)
ThreadIdleInPoll(s) == s \notin sending

(* A thread runs one callback at a time; the listener's thread waits in    *)
(* acceptCallBack as others do in sendAndWait.                             *)
ThreadIdle(s) ==
  /\ \A d \in sending : ThreadOf(d) # ThreadOf(s)
  /\ binding # NoSocket => ThreadOf(s) # ThreadOf(ListenFd)

(* CSession's constructor.                                                 *)
NewSession(s) == [mechanism |-> "", authStatus |-> 0]

Noted == {"versions", "challenge", "final"}

Init ==
  /\ m_threadNum \in Threads
  /\ running = TRUE
  /\ status    = [s \in Sockets |-> "closed"]
  /\ request   = [s \in Sockets |-> NoRequest]
  /\ session   = [s \in Sockets |-> [mechanism |-> "", authStatus |-> 0]]
  /\ sending   = {}
  /\ m_sendBuf = [s \in Sockets |-> NoReply]
  /\ inbox     = [s \in Sockets |-> <<>>]
  /\ sent      = [s \in Sockets |-> {}]
  /\ printed   = [s \in Sockets |-> <<>>]
  /\ binding   = NoSocket
  /\ stale     = {}

-----------------------------------------------------------------------------
(* The clients.                                                            *)

(* A client connects and the listener's thread runs acceptCallBack: a free *)
(* descriptor, a new session, whose constructor calls bindSocket.          *)
Accept(s) ==
  /\ running /\ ThreadIdle(ListenFd) /\ status[s] = "closed"
  /\ status' = [status EXCEPT ![s] = "open"]
  /\ session' = [session EXCEPT ![s] = NewSession(s)]
  /\ sent' = [sent EXCEPT ![s] = {}]
  /\ binding' = s
  /\ UNCHANGED <<m_threadNum, running, request, sending, m_sendBuf, inbox,
                 printed, stale>>

(* bindSocket takes the epollMutex of the descriptor's thread, which that  *)
(* thread keeps through its callbacks and the listener's may already hold; *)
(* then the receive is armed and acceptCallBack returns.                   *)
Bind(s) ==
  /\ running /\ binding = s
  /\ \A d \in sending : ThreadOf(d) # ThreadOf(s)
  /\ binding' = NoSocket
  /\ UNCHANGED <<m_threadNum, running, status, request, session, sending,
                 m_sendBuf, inbox, sent, printed, stale>>

Write(s, r) ==
  /\ running /\ status[s] = "open" /\ request[s] = NoRequest
  /\ request' = [request EXCEPT ![s] = r]
  /\ UNCHANGED <<m_threadNum, running, status, session, sending, m_sendBuf,
                 inbox, sent, printed, binding, stale>>

Read(s) ==
  /\ status[s] = "open" /\ inbox[s] # <<>>
  /\ inbox' = [inbox EXCEPT ![s] = Tail(@)]
  /\ UNCHANGED <<m_threadNum, running, status, request, session, sending,
                 m_sendBuf, sent, printed, binding, stale>>

HangUp(s) ==
  /\ running /\ status[s] = "open"
  /\ status' = [status EXCEPT ![s] = "hungup"]
  /\ inbox' = [inbox EXCEPT ![s] = <<>>]
  /\ UNCHANGED <<m_threadNum, running, request, session, sending, m_sendBuf,
                 sent, printed, binding, stale>>

-----------------------------------------------------------------------------
(* recvCallBack up to sendAndWait.                                         *)

Serves(s) == running /\ ThreadIdle(s) /\ s # binding

Receiving(s) == Serves(s) /\ request[s] # NoRequest

(* No handler for the key: the request is dropped without an answer.       *)
DropUnknown(s) ==
  /\ request[s].key \notin Handled
  /\ request' = [request EXCEPT ![s] = NoRequest]
  /\ UNCHANGED <<running, session, sending, m_sendBuf, printed>>

(* Each reply carries the correlation id of its request.                   *)
Reply(s, kind, body) == [corr |-> request[s], kind |-> kind, body |-> body]

(* The callback goes on to sendAndWait with this reply, or with none.      *)
Send(s, reply) ==
  /\ sending' = sending \cup {s}
  /\ m_sendBuf' = [m_sendBuf EXCEPT ![s] = reply]
  /\ UNCHANGED <<running, request>>

Refuse(s) ==
  /\ request[s].key \in Handled
  /\ ~Accepts(request[s].key, request[s].version)
  /\ Send(s, Reply(s, "UnsupportedVersion", <<>>))
  /\ UNCHANGED <<session, printed>>

Handles(s, key) ==
  /\ request[s].key = key
  /\ Accepts(key, request[s].version)

HandleApiVersions(s) ==
  /\ Handles(s, ApiVersions)
  /\ Send(s, Reply(s, "versions", ArrayApiVersion))
  /\ UNCHANGED <<session, printed>>

(* Every topic asked for exists and has one partition.                     *)
HandleMetadata(s) ==
  /\ Handles(s, Metadata)
  /\ Send(s, Reply(s, "metadata", request[s].topics))
  /\ UNCHANGED <<session, printed>>

(* One producer id for everybody.                                          *)
HandleInitProducerId(s) ==
  /\ Handles(s, InitProducerId)
  /\ Send(s, Reply(s, "producerId", 17001))
  /\ UNCHANGED <<session, printed>>

ProduceRequests == {r \in UNION {Requests[s] : s \in Sockets} : r.key = Produce}

ASSUME ProduceAssumption ==
  \A r \in ProduceRequests :
    r.acks \in {-1, 0, 1} /\ Len(r.topics) \in Nat /\ WrittenTopics(r) \in Seq(0 .. 255)

(* What the handler reads from the body of each produce request, and the   *)
(* requests it is to answer.                                               *)
ReadOf == [r \in ProduceRequests |-> ReadProduce(Written(r))]
NeedingRespond == {r \in ProduceRequests : Responds(Written(r))}

(* NoReply is none of the replies.                                         *)
ASSUME NoReplyAssumption ==
  /\ \A r \in UNION {Requests[s] : s \in Sockets} :
       NoReply \notin [corr : {r}, kind : {"UnsupportedVersion", "challenge"}, body : {<<>>}]
  /\ \A r \in ProduceRequests :
       NoReply # [corr |-> r, kind |-> "acks", body |-> ReadOf[r].map]

(* An exception leaves the thread's function and ends the process; reading *)
(* behind the frame may or may not end it.                                 *)
HandleProduce(s) ==
  /\ Handles(s, Produce)
  /\ printed' = [printed EXCEPT ![s] = ReadOf[request[s]].values]
  /\ \/ /\ ReadOf[request[s]].outcome # "reading"
        /\ running' = FALSE
        /\ UNCHANGED <<request, sending, m_sendBuf>>
     \/ /\ ReadOf[request[s]].outcome # "thrown"
        /\ Send(s, IF request[s] \in NeedingRespond
                   THEN Reply(s, "acks", ReadOf[request[s]].map) ELSE NoReply)
  /\ UNCHANGED session

(* Any mechanism is accepted.                                              *)
HandleSaslHandshake(s) ==
  /\ Handles(s, SaslHandshake)
  /\ session' = [session EXCEPT ![s].mechanism = request[s].mechanism]
  /\ Send(s, Reply(s, "handshake", request[s].mechanism))
  /\ UNCHANGED printed

(* Mutant of AuthStatusAfter: SetAuthStatus(1) before gss_wrap.            *)
AuthStatusAfterAccept(accepted, wrapped) == IF accepted THEN 1 ELSE 0

AuthStatusAfter(accepted, wrapped) == IF accepted /\ wrapped THEN 1 ELSE 0

(* GSSAPI's first leg.  accepted: gss_accept_sec_context is complete with  *)
(* this one token; wrapped: gss_wrap succeeds.  Otherwise no answer.       *)
AcceptContext(s) ==
  /\ session[s].mechanism = "GSSAPI" /\ session[s].authStatus = 0
  /\ \E accepted, wrapped \in BOOLEAN :
       /\ session' = [session EXCEPT ![s].authStatus = AuthStatusAfter(accepted, wrapped)]
       /\ Send(s, IF accepted /\ wrapped THEN Reply(s, "challenge", <<>>) ELSE NoReply)

FinishGssapi(s) ==
  /\ session[s].mechanism = "GSSAPI" /\ session[s].authStatus = 1
  /\ Send(s, Reply(s, "final", <<>>))
  /\ UNCHANGED session

AuthenticatePlain(s) ==
  /\ session[s].mechanism = "PLAIN"
  /\ Send(s, Reply(s, "plain", <<>>))
  /\ UNCHANGED session

AuthenticateOther(s) ==
  /\ session[s].mechanism \notin {"GSSAPI", "PLAIN"}
  /\ Send(s, NoReply)
  /\ UNCHANGED session

HandleSaslAuthenticate(s) ==
  /\ Handles(s, SaslAuthenticate)
  /\ AcceptContext(s) \/ FinishGssapi(s) \/ AuthenticatePlain(s) \/ AuthenticateOther(s)
  /\ UNCHANGED printed

Receive(s) ==
  /\ Receiving(s)
  /\ \/ DropUnknown(s) \/ Refuse(s)
     \/ HandleApiVersions(s) \/ HandleMetadata(s) \/ HandleInitProducerId(s)
     \/ HandleProduce(s) \/ HandleSaslHandshake(s) \/ HandleSaslAuthenticate(s)
  /\ UNCHANGED <<m_threadNum, status, inbox, sent, binding, stale>>

(* Mutant of PollReturns: a connection that is gone never becomes writable.*)
PollReturnsOnRoom(s) == status[s] = "open" /\ Len(inbox[s]) < SndRoom

(* poll waits without limit for room, or for the client to hang up.        *)
PollReturns(s) == status[s] = "open" => Len(inbox[s]) < SndRoom

(* The rest of the callback; poll waits also when there is nothing to send.*)
SendAndWait(s) ==
  /\ running /\ s \in sending
  /\ PollReturns(s)
  /\ IF status[s] = "open" /\ m_sendBuf[s] # NoReply
     THEN /\ inbox' = [inbox EXCEPT ![s] = Append(@, m_sendBuf[s])]
          /\ sent' = [sent EXCEPT ![s] = @ \cup ({m_sendBuf[s].kind} \cap Noted)]
     ELSE UNCHANGED <<inbox, sent>>
  /\ sending' = sending \ {s}
  /\ m_sendBuf' = [m_sendBuf EXCEPT ![s] = NoReply]
  /\ request' = [request EXCEPT ![s] = NoRequest]
  /\ printed' = [printed EXCEPT ![s] = <<>>]
  /\ UNCHANGED <<m_threadNum, running, status, session, binding, stale>>

CloseSession(s) ==
  /\ status' = [status EXCEPT ![s] = "closed"]
  /\ request' = [request EXCEPT ![s] = NoRequest]
  /\ UNCHANGED <<m_threadNum, running, session, sending, m_sendBuf,
                 inbox, sent, printed, binding>>

(* recv() returns 0 behind the last request and leaves errno as it is: the *)
(* loop takes no notice of it while that is EAGAIN.                        *)
EndOfStream(s) ==
  /\ Serves(s) /\ status[s] = "hungup" /\ request[s] = NoRequest
  /\ ThreadOf(s) \notin stale
  /\ CloseSession(s)
  /\ UNCHANGED stale

(* recv() fails: a reset, which overtakes a request not yet received.      *)
RecvFails(s) ==
  /\ Serves(s) /\ status[s] = "hungup"
  /\ CloseSession(s)
  /\ stale' = stale \ {ThreadOf(s)}

(* Another call of s's thread that fails: with nothing to return, or for   *)
(* good.                                                                   *)
CallFails(s) ==
  /\ running /\ ThreadIdle(s)
  /\ stale' \in {stale \cup {ThreadOf(s)}, stale \ {ThreadOf(s)}}
  /\ UNCHANGED <<m_threadNum, running, status, request, session, sending,
                 m_sendBuf, inbox, sent, printed, binding>>

-----------------------------------------------------------------------------
Next ==
  \E s \in Sockets :
    \/ Accept(s) \/ Bind(s) \/ Read(s) \/ HangUp(s)
    \/ \E r \in Requests[s] : Write(s, r)
    \/ Receive(s) \/ SendAndWait(s)
    \/ EndOfStream(s) \/ RecvFails(s) \/ CallFails(s)

Spec == Init /\ [][Next]_vars

(* A thread that waits in poll returns once there is room.  An idle thread *)
(* gets all its ready descriptors in one epoll_wait and serves each, so    *)
(* none of them is passed over for ever.                                   *)
(* The mutex is given to the listener's thread when nobody else wants it,  *)
(* and no sooner; no connection need be reset.                             *)
FairSpec ==
  /\ Spec
  /\ \A s \in Sockets : /\ WF_vars(SendAndWait(s)) /\ WF_vars(Bind(s))
                        /\ SF_vars(Receive(s) \/ EndOfStream(s))

-----------------------------------------------------------------------------
Replies(s) == {inbox[s][i] : i \in DOMAIN inbox[s]}

(* Types and ranges; sendAndWait is entered with the request it answers    *)
(* still in the buffer, by one descriptor of a thread at a time, and never *)
(* by the listener's thread while it waits in acceptCallBack.              *)
TypeOK ==
  /\ m_threadNum \in Threads /\ running \in BOOLEAN
  /\ status \in [Sockets -> {"closed", "open", "hungup"}]
  /\ \A s \in Sockets :
       /\ request[s] \in Requests[s] \cup {NoRequest}
       /\ session[s].authStatus \in {0, 1}
       /\ Len(inbox[s]) <= SndRoom
       /\ sent[s] \subseteq Noted
       /\ s \in sending => request[s] # NoRequest
       /\ s \notin sending => m_sendBuf[s] = NoReply
  /\ \A s, d \in sending : ThreadOf(s) = ThreadOf(d) => s = d
  /\ binding \in Sockets \cup {NoSocket}
  /\ binding # NoSocket =>
       /\ status[binding] # "closed"
       /\ \A d \in sending : ThreadOf(d) # ThreadOf(ListenFd)
  /\ stale \subseteq 0 .. m_threadNum - 1

(* A client that has been told the versions of an api is never refused one *)
(* of them: ArrayApiVersion and the maxima of the handlers, two tables in  *)
(* different files, agree.                                                 *)
NegotiatedVersionServed ==
  \A s \in Sockets : \A reply \in Replies(s) :
    reply.kind = "UnsupportedVersion" /\ "versions" \in sent[s] =>
      ~Advertised(reply.corr.key, reply.corr.version)

(* What the client of each produce request means by it.                    *)
MeantBy ==
  [r \in ProduceRequests |->
     [values |-> Values(r),
      partitions |-> [name \in NamesOf(r) |-> PartitionsOf(r, name)]]]

(* "0 - no answer needed; 1, -1 - answer needed" (ProduceHandle.cpp:39): a *)
(* produce request is acknowledged exactly when its acks, two bytes in the *)
(* middle of the body and signed, ask for it.                              *)
AcknowledgedAsAsked ==
  \A s \in Sockets :
    /\ \A reply \in Replies(s) : reply.kind = "acks" => reply.corr.acks # 0
    /\ s \in sending /\ Handles(s, Produce) /\ m_sendBuf[s] = NoReply => request[s].acks = 0

(* The values the handler takes from the bytes of a produce request are    *)
(* the ones its client put in, and the acknowledgement names each of its   *)
(* partitions once, under its own topic, also when a topic occurs twice:   *)
(* no length, varint or loop of the request throws the reading off its     *)
(* place.                                                                  *)
ProducedAsWritten ==
  \A s \in Sockets :
    /\ s \in sending /\ Handles(s, Produce) => printed[s] = MeantBy[request[s]].values
    /\ \A reply \in Replies(s) :
         reply.kind = "acks" => reply.body = MeantBy[reply.corr].partitions

(* Each connection implements SaslExchange, whatever mechanisms it tries,  *)
(* in whatever order, and over whichever descriptor it comes back.         *)
Exchange == INSTANCE SaslExchange WITH
  Connections <- Sockets,
  Mechanisms  <- {r.mechanism : r \in {q \in UNION {Requests[s] : s \in Sockets} :
                                         q.key = SaslHandshake}},
  mechanism   <- [s \in Sockets |-> session[s].mechanism],
  tokens      <- [s \in Sockets |-> sent[s] \ {"versions"}]

ImplementsSasl == Exchange!Spec

(* A thread is held up by its own connections, and the listener's also by  *)
(* those of the thread whose mutex bindSocket waits for.  If the clients   *)
(* of a connection's thread go on emptying their sockets, and bindSocket   *)
(* does not keep it waiting for another thread for ever, every request the *)
(* code answers at all is answered, whatever the clients of other threads  *)
(* do; unless its client hangs up or a record without a value ends the     *)
(* process.  With one thread, as main creates it, bindSocket never waits.  *)
Waiting(s) ==
  LET r == request[s]
  IN /\ r # NoRequest /\ r.key \in Handled
     /\ Accepts(r.key, r.version) =>
          r.key # SaslAuthenticate /\ (r.key = Produce => r.acks # 0)

Answered(s) == ~Waiting(s) /\ inbox[s] # <<>>

Ended(s) == status[s] # "open" \/ ~running

Reads(d) == inbox[d] = <<>> \/ status[d] # "open"

NeighboursRead(s) ==
  \A d \in Sockets : []<>(d % m_threadNum # s % m_threadNum \/ Reads(d))

HeldByBind(s) ==
  /\ binding # NoSocket /\ ThreadOf(binding) # ThreadOf(ListenFd)
  /\ s = binding \/ ThreadOf(s) = ThreadOf(ListenFd)

AnsweredIfNeighboursRead ==
  \A s \in Sockets :
    NeighboursRead(s) /\ []<>~HeldByBind(s) => (Waiting(s) ~> Answered(s) \/ Ended(s))

(* A connection whose client has hung up is closed and its descriptor      *)
(* given back, also from inside sendAndWait, under the same conditions,    *)
(* unless an errno of EAGAIN comes back to its thread for ever or stays.   *)
ClosedIfNeighboursRead ==
  \A s \in Sockets :
    NeighboursRead(s) /\ []<>~HeldByBind(s) /\ <>[](s % m_threadNum \notin stale) =>
      (status[s] = "hungup" ~> status[s] = "closed" \/ ~running)

=============================================================================
