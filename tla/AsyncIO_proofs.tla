--------------------------- MODULE AsyncIO_proofs ----------------------------
(***************************************************************************)
(* The table, the descriptors, the queues and the threads of CAsyncIO      *)
(* agree, for every number of epoll threads and every set of descriptors.  *)
(*                                                                         *)
(* The properties of AsyncIO say what may not happen in one state; none is *)
(* inductive.  The invariant below says of every descriptor which step of  *)
(* its life it is in: what the table and its queue hold while its own      *)
(* thread runs its callback, while the listener's thread installs it, and  *)
(* while nobody touches it.                                                *)
(***************************************************************************)
EXTENDS AsyncIO, SequenceTheorems, TLAPS

Listener == ThreadOf(ListenFd)

Slot(fd, object, queue) ==
  m_socketOpertion[fd] = object /\ m_recvQueue[fd] = queue

(* The queues that occur: a request waits, it is executed, and it is       *)
(* executed while its callback has queued the next.                        *)
Armed   == <<"armed">>
Running == <<"done">>
Rearmed == <<"done", "armed">>

(* fd is handled by its own thread, fd is installed by the listener's.     *)
Handled(fd) == pc[ThreadOf(fd)] \in InCallback /\ cur[ThreadOf(fd)] = fd
Installed(fd) == pc[Listener] \in {"bind", "publish", "first"} /\ newFd[Listener] = fd

(* Threads handle descriptors of their own, and only the listener's runs   *)
(* acceptCallBack.                                                         *)
ThreadInv(t) ==
  /\ batch[t] \subseteq {fd \in Fds : ThreadOf(fd) = t}
  /\ pc[t] \in InCallback => cur[t] \in Fds /\ ThreadOf(cur[t]) = t
  /\ pc[t] \in {"bind", "publish", "first", "rearm"} => cur[t] = ListenFd
  /\ pc[t] \in {"recv", "unbind", "clear", "close"} => cur[t] \in SessionFds
  /\ pc[t] \in {"publish", "first"} => newFd[t] # None

(* The life of a session descriptor.                                       *)
BeingHandled(fd) ==
  \/ /\ pc[ThreadOf(fd)] \in {"recv", "unbind"}
     /\ Slot(fd, "live", Running) /\ fd \in fdOpen /\ ~Installed(fd)
  \/ /\ pc[ThreadOf(fd)] = "clear"
     /\ Slot(fd, "freed", <<>>) /\ fd \in fdOpen /\ ~Installed(fd)
  \/ /\ pc[ThreadOf(fd)] = "close"
     /\ Slot(fd, "null", <<>>) /\ fd \in fdOpen /\ ~Installed(fd)
  \/ /\ pc[ThreadOf(fd)] = "pop"
     /\ Slot(fd, "live", Rearmed) /\ fd \in fdOpen /\ ~Installed(fd)
  \/ /\ pc[ThreadOf(fd)] = "pop"
     /\ Slot(fd, "null", <<>>) /\ (fd \in fdOpen <=> Installed(fd))
     /\ Installed(fd) => pc[Listener] \in {"bind", "publish"}

BeingInstalled(fd) ==
  /\ fd \in fdOpen
  /\ \/ pc[Listener] \in {"bind", "publish"} /\ Slot(fd, "null", <<>>)
     \/ pc[Listener] = "first" /\ Slot(fd, "live", <<>>)

AtRest(fd) ==
  \/ fd \in fdOpen /\ Slot(fd, "live", Armed)
  \/ fd \notin fdOpen /\ Slot(fd, "null", <<>>)

SessionInv(fd) ==
  /\ Handled(fd) => BeingHandled(fd)
  /\ ~Handled(fd) /\ Installed(fd) => BeingInstalled(fd)
  /\ ~Handled(fd) /\ ~Installed(fd) => AtRest(fd)

(* The life of the listening descriptor.                                   *)
ListenerInv ==
  /\ mainPc = "bind" => Slot(ListenFd, "null", <<>>) /\ ~Handled(ListenFd)
  /\ mainPc = "accept" => Slot(ListenFd, "live", <<>>) /\ ~Handled(ListenFd)
  /\ mainPc = "idle" =>
       \/ Slot(ListenFd, "live", Armed) /\ ~Handled(ListenFd)
       \/ /\ Slot(ListenFd, "live", Running) /\ Handled(ListenFd)
          /\ pc[Listener] \in {"bind", "publish", "first", "rearm"}
       \/ /\ Slot(ListenFd, "live", Rearmed) /\ Handled(ListenFd)
          /\ pc[Listener] = "pop"

IInv ==
  /\ Types
  /\ \A t \in Threads : ThreadInv(t)
  /\ \A fd \in SessionFds : SessionInv(fd)
  /\ ListenerInv

-----------------------------------------------------------------------------
(* Every descriptor has a thread.                                          *)
LEMMA ThreadOfInThreads == \A fd \in Fds : ThreadOf(fd) \in Threads
BY AsyncIOAssumption DEF Fds, ThreadOf, Threads

(* What pushes, executions and pops make of the queues that occur.         *)
LEMMA QueueSteps ==
  /\ Append(<<>>, "armed") = Armed
  /\ Append(Running, "armed") = Rearmed
  /\ <<"done">> \o Tail(Armed) = Running
  /\ Tail(Rearmed) = Armed
  /\ Armed # <<>> /\ Running # <<>> /\ Rearmed # <<>>
  /\ Head(Rearmed) = "done"
  /\ {<<>>, Armed, Running, Rearmed} \subseteq Seq({"armed", "done"})
<1>1. Append(<<"done">>, "armed") = <<"done", "armed">>
  <2>. DEFINE pushed == Append(<<"done">>, "armed")
              both == <<"done", "armed">>
  <2>1. pushed \in Seq({"armed", "done"}) /\ both \in Seq({"armed", "done"})
    OBVIOUS
  <2>2. /\ Len(pushed) = 2 /\ pushed[1] = "done" /\ pushed[2] = "armed"
        /\ Len(both) = 2 /\ both[1] = "done" /\ both[2] = "armed"
    OBVIOUS
  <2>. HIDE DEF pushed, both
  <2>3. \A i \in 1 .. Len(pushed) : pushed[i] = both[i]
    BY <2>2
  <2>4. pushed = both
    BY <2>1, <2>2, <2>3, SeqEqual
  <2>. QED
    BY <2>4 DEF pushed, both
<1>2. /\ Append(<<>>, "armed") = <<"armed">>
      /\ <<"done">> \o Tail(<<"armed">>) = <<"done">>
      /\ Tail(<<"done", "armed">>) = <<"armed">>
  OBVIOUS
<1>3. /\ <<"armed">> # <<>> /\ <<"done">> # <<>> /\ <<"done", "armed">> # <<>>
      /\ Head(<<"done", "armed">>) = "done"
      /\ {<<>>, <<"armed">>, <<"done">>, <<"done", "armed">>} \subseteq Seq({"armed", "done"})
  OBVIOUS
<1>. QED
  BY <1>1, <1>2, <1>3 DEF Armed, Running, Rearmed

(* Initially no descriptor is handled, installed or open.                  *)
LEMMA InitIInv == Init => IInv
<1> SUFFICES ASSUME Init PROVE IInv
  OBVIOUS
<1> USE AsyncIOAssumption, ThreadOfInThreads DEF Init
<1>1. Types
  BY QueueSteps DEF Types, InCallback, Fds
<1>2. \A t \in Threads : pc[t] = "wait" /\ ThreadInv(t)
  BY DEF ThreadInv, InCallback
<1>3. \A fd \in Fds : ~Handled(fd) /\ ~Installed(fd)
  BY <1>2 DEF Handled, Installed, Listener, InCallback, Fds
<1>4. \A fd \in SessionFds : SessionInv(fd)
  BY <1>3 DEF SessionInv, AtRest, Slot, Fds
<1>5. ListenerInv
  BY <1>3 DEF ListenerInv, Slot, Fds
<1>. QED
  BY <1>1, <1>2, <1>4, <1>5 DEF IInv

-----------------------------------------------------------------------------
(* main() and the clients. Each step keeps the invariant.                  *)

(* main publishes the listening descriptor before anything is queued on    *)
(* it.                                                                     *)
LEMMA MainBindStep == ASSUME IInv, MainBind PROVE IInv'
<1>. USE AsyncIOAssumption, ThreadOfInThreads, QueueSteps
<1>1. Types'
  BY DEF MainBind, IInv, Types, envVars, threadVars, Fds
<1>2. ASSUME NEW u \in Threads PROVE ThreadInv(u)'
  BY DEF MainBind, IInv, Types, ThreadInv, threadVars
<1>3. ASSUME NEW f \in SessionFds PROVE SessionInv(f)'
  BY SMTT(30) DEF MainBind, IInv, Types, SessionInv, Handled, Installed, BeingHandled, BeingInstalled, AtRest, Slot, Listener, InCallback, envVars, threadVars, Fds
<1>4. ListenerInv'
  BY DEF MainBind, IInv, Types, ListenerInv, Handled, Slot, Listener, InCallback, threadVars, Fds
<1>. QED
  BY <1>1, <1>2, <1>3, <1>4 DEF IInv

(* main arms the first accept on an empty queue.                           *)
LEMMA MainAcceptStep == ASSUME IInv, MainAccept PROVE IInv'
<1>. USE AsyncIOAssumption, ThreadOfInThreads, QueueSteps
<1>1. Types'
  BY DEF MainAccept, IInv, Types, Push, envVars, threadVars, Fds
<1>2. ASSUME NEW u \in Threads PROVE ThreadInv(u)'
  BY DEF MainAccept, IInv, Types, ThreadInv, threadVars
<1>3. ASSUME NEW f \in SessionFds PROVE SessionInv(f)'
  <2>1. m_recvQueue'[f] = m_recvQueue[f]
    BY DEF MainAccept, Push, IInv, Types, Fds
  <2>. QED
    BY <2>1 DEF MainAccept, IInv, SessionInv, Handled, Installed, BeingHandled, BeingInstalled, AtRest, Slot, envVars, threadVars
<1>4. ListenerInv'
  BY DEF MainAccept, IInv, Types, ListenerInv, Handled, Slot, Listener, InCallback, Push, threadVars, Fds
<1>. QED
  BY <1>1, <1>2, <1>3, <1>4 DEF IInv

(* A connection waits in the kernel; nothing of the server changes.        *)
LEMMA ConnectStep == ASSUME IInv, Connect PROVE IInv'
<1>. USE AsyncIOAssumption, ThreadOfInThreads, QueueSteps
<1>1. Types'
  BY DEF Connect, IInv, Types, ioVars, threadVars
<1>2. ASSUME NEW u \in Threads PROVE ThreadInv(u)'
  BY DEF Connect, IInv, Types, ThreadInv, threadVars
<1>3. ASSUME NEW f \in SessionFds PROVE SessionInv(f)'
  BY DEF Connect, IInv, Types, SessionInv, Handled, Installed, BeingHandled, BeingInstalled, AtRest, Slot, Listener, InCallback, ioVars, threadVars
<1>4. ListenerInv'
  BY DEF Connect, IInv, Types, ListenerInv, Handled, Slot, Listener, InCallback, ioVars, threadVars
<1>. QED
  BY <1>1, <1>2, <1>3, <1>4 DEF IInv

(* A client's bytes, or the end of its stream, change no table.            *)
LEMMA ClientWritesStep == ASSUME IInv, NEW fd \in SessionFds, ClientWrites(fd) PROVE IInv'
<1>. USE AsyncIOAssumption, ThreadOfInThreads
<1>1. /\ input' \in [SessionFds -> {"none", "data", "eof"}]
      /\ UNCHANGED <<ioVars, backlog, fdOpen, threadVars>>
  <2>1. PICK what \in {"data", "eof"} : input' = [input EXCEPT ![fd] = what]
    BY DEF ClientWrites
  <2>. QED
    BY <2>1 DEF ClientWrites, IInv, Types
<1>2. Types'
  BY <1>1 DEF IInv, Types, ioVars, threadVars
<1>3. ASSUME NEW u \in Threads PROVE ThreadInv(u)'
  BY <1>1 DEF IInv, ThreadInv, threadVars
<1>4. ASSUME NEW f \in SessionFds PROVE SessionInv(f)'
  BY <1>1 DEF IInv, SessionInv, Handled, Installed, BeingHandled, BeingInstalled, AtRest, Slot, ioVars, threadVars
<1>5. ListenerInv'
  BY <1>1 DEF IInv, ListenerInv, Handled, Slot, ioVars, threadVars
<1>. QED
  BY <1>2, <1>3, <1>4, <1>5 DEF IInv

-----------------------------------------------------------------------------
(* epollThreadProc. Each step keeps the invariant.                         *)

(* A batch holds descriptors of its own thread only.                       *)
LEMMA EpollWaitStep == ASSUME IInv, NEW t \in Threads, EpollWait(t) PROVE IInv'
<1>. USE AsyncIOAssumption, ThreadOfInThreads
<1>1. Types'
  BY DEF EpollWait, IInv, Types, ioVars, envVars, Goto, Ready, InCallback
<1>2. ASSUME NEW u \in Threads PROVE ThreadInv(u)'
  BY DEF EpollWait, IInv, Types, ThreadInv, Goto, Ready, InCallback
<1>3. \A f \in Fds :
        /\ (Handled(f)' <=> Handled(f)) /\ (Installed(f)' <=> Installed(f))
        /\ Handled(f) => pc'[ThreadOf(f)] = pc[ThreadOf(f)]
        /\ Installed(f) => pc'[Listener] = pc[Listener]
  BY DEF EpollWait, Goto, Handled, Installed, Listener, InCallback, IInv, Types
<1>4. ASSUME NEW f \in SessionFds PROVE SessionInv(f)'
  BY <1>3 DEF EpollWait, IInv, SessionInv, BeingHandled, BeingInstalled, AtRest, Slot, ioVars, envVars, Fds
<1>5. ListenerInv'
  BY <1>3 DEF EpollWait, IInv, ListenerInv, Slot, Goto, Types, Listener, InCallback, ioVars, Fds
<1>. QED
  BY <1>1, <1>2, <1>4, <1>5 DEF IInv

(* Taking the epollMutex starts no callback.                               *)
LEMMA LockEpollStep == ASSUME IInv, NEW t \in Threads, LockEpoll(t) PROVE IInv'
<1>. USE AsyncIOAssumption, ThreadOfInThreads
<1>1. Types'
  BY DEF LockEpoll, IInv, Types, ioVars, envVars, Goto, InCallback
<1>2. ASSUME NEW u \in Threads PROVE ThreadInv(u)'
  BY DEF LockEpoll, IInv, Types, ThreadInv, Goto, InCallback
<1>3. \A f \in Fds :
        /\ (Handled(f)' <=> Handled(f)) /\ (Installed(f)' <=> Installed(f))
        /\ Handled(f) => pc'[ThreadOf(f)] = pc[ThreadOf(f)]
        /\ Installed(f) => pc'[Listener] = pc[Listener]
  BY DEF LockEpoll, Goto, Handled, Installed, Listener, InCallback, IInv, Types
<1>4. ASSUME NEW f \in SessionFds PROVE SessionInv(f)'
  BY <1>3 DEF LockEpoll, IInv, SessionInv, BeingHandled, BeingInstalled, AtRest, Slot, ioVars, envVars, Fds
<1>5. ListenerInv'
  BY <1>3 DEF LockEpoll, IInv, ListenerInv, Slot, Goto, Types, Listener, InCallback, ioVars, Fds
<1>. QED
  BY <1>1, <1>2, <1>4, <1>5 DEF IInv

(* Releasing the epollMutex ends no callback: each ended with its pop.     *)
LEMMA EndBatchStep == ASSUME IInv, NEW t \in Threads, EndBatch(t) PROVE IInv'
<1>. USE AsyncIOAssumption, ThreadOfInThreads
<1>1. Types'
  BY DEF EndBatch, IInv, Types, ioVars, envVars, Goto, InCallback
<1>2. ASSUME NEW u \in Threads PROVE ThreadInv(u)'
  BY DEF EndBatch, IInv, Types, ThreadInv, Goto, InCallback
<1>3. \A f \in Fds :
        /\ (Handled(f)' <=> Handled(f)) /\ (Installed(f)' <=> Installed(f))
        /\ Handled(f) => pc'[ThreadOf(f)] = pc[ThreadOf(f)]
        /\ Installed(f) => pc'[Listener] = pc[Listener]
  BY DEF EndBatch, Goto, Handled, Installed, Listener, InCallback, IInv, Types
<1>4. ASSUME NEW f \in SessionFds PROVE SessionInv(f)'
  BY <1>3 DEF EndBatch, IInv, SessionInv, BeingHandled, BeingInstalled, AtRest, Slot, ioVars, envVars, Fds
<1>5. ListenerInv'
  BY <1>3 DEF EndBatch, IInv, ListenerInv, Slot, Goto, Types, Listener, InCallback, ioVars, Fds
<1>. QED
  BY <1>1, <1>2, <1>4, <1>5 DEF IInv

(* A descriptor accept() returns was closed, so its slot is empty; its own *)
(* thread may still have to pop for the session that had it.               *)
LEMMA AcceptStep == ASSUME IInv, NEW t \in Threads, Accept(t) PROVE IInv'
<1>. USE AsyncIOAssumption, ThreadOfInThreads, QueueSteps
<1>1. /\ t = Listener /\ pc[t] = "next" /\ mainPc = "idle"
      /\ Slot(ListenFd, "live", Armed)
  <2>1. ListenFd \in batch[t] /\ pc[t] = "next" /\ HasRequest(ListenFd)
    BY DEF Accept, Execute, Event
  <2>2. t = Listener /\ ~Handled(ListenFd)
    BY <2>1 DEF IInv, ThreadInv, Listener, Handled, InCallback
  <2>. QED
    BY <2>1, <2>2 DEF IInv, Types, ListenerInv, Slot, HasRequest
<1>2. /\ m_recvQueue' = [m_recvQueue EXCEPT ![ListenFd] = Running]
      /\ batch' = [batch EXCEPT ![t] = @ \ {ListenFd}]
      /\ cur' = [cur EXCEPT ![t] = ListenFd]
      /\ pc' = [pc EXCEPT ![t] = "bind"]
      /\ UNCHANGED <<mainPc, m_socketOpertion>>
  <2>1. <<"done">> \o Tail(m_recvQueue[ListenFd]) = Running
    BY <1>1 DEF Slot
  <2>. QED
    BY <2>1 DEF Accept, Execute, Event, Goto
<1>3. \/ \E f \in SessionFds \ fdOpen :
           /\ newFd' = [newFd EXCEPT ![t] = f]
           /\ fdOpen' = fdOpen \cup {f}
           /\ input' = [input EXCEPT ![f] = "none"]
           /\ backlog' = backlog - 1 /\ backlog > 0
           /\ UNCHANGED errno
      \/ /\ newFd' = [newFd EXCEPT ![t] = None]
         /\ errno' = [errno EXCEPT ![t] = "other"]
         /\ UNCHANGED <<backlog, fdOpen, input>>
  BY DEF Accept, Readable, envVars
<1>4. Types'
  <2>. USE <1>2 DEF Types, Fds, InCallback, IInv
  <2>1. CASE \E f \in SessionFds \ fdOpen :
           /\ newFd' = [newFd EXCEPT ![t] = f]
           /\ fdOpen' = fdOpen \cup {f}
           /\ input' = [input EXCEPT ![f] = "none"]
           /\ backlog' = backlog - 1 /\ backlog > 0
           /\ UNCHANGED errno
    BY <2>1
  <2>2. CASE /\ newFd' = [newFd EXCEPT ![t] = None]
             /\ errno' = [errno EXCEPT ![t] = "other"]
             /\ UNCHANGED <<backlog, fdOpen, input>>
    BY <2>2
  <2>. QED
    BY <1>3, <2>1, <2>2
<1>5. ASSUME NEW u \in Threads PROVE ThreadInv(u)'
  BY <1>1, <1>2 DEF IInv, Types, ThreadInv, InCallback, Listener, Fds
<1>6. ASSUME NEW f \in SessionFds PROVE SessionInv(f)'
  <2>1. /\ ~Installed(f) /\ (Handled(f)' <=> Handled(f)) /\ Slot(f, m_socketOpertion[f], m_recvQueue[f])'
        /\ m_recvQueue'[f] = m_recvQueue[f] /\ m_socketOpertion'[f] = m_socketOpertion[f]
        /\ Handled(f) => pc'[ThreadOf(f)] = pc[ThreadOf(f)]
    BY <1>1, <1>2 DEF IInv, Types, Handled, Installed, Slot, InCallback, Listener, Fds
  <2>2. (Installed(f)' <=> newFd'[t] = f) /\ pc'[Listener] = "bind"
    BY <1>1, <1>2 DEF IInv, Types, Installed, Listener
  <2>3. SessionInv(f)
    BY DEF IInv
  <2>4. CASE newFd'[t] = f
    <3>1. f \notin fdOpen /\ f \in fdOpen'
      BY <1>3, <2>4, f # None DEF IInv, Types, None
    <3>. QED
      BY <2>1, <2>2, <2>3, <2>4, <3>1 DEF SessionInv, BeingHandled, BeingInstalled, AtRest, Slot
  <2>5. CASE newFd'[t] # f
    <3>1. f \in fdOpen' <=> f \in fdOpen
      BY <1>3, <2>5 DEF IInv, Types
    <3>. QED
      BY <2>1, <2>2, <2>3, <2>5, <3>1 DEF SessionInv, BeingHandled, BeingInstalled, AtRest, Slot
  <2>. QED
    BY <2>4, <2>5
<1>7. ListenerInv'
  BY <1>1, <1>2 DEF IInv, Types, ListenerInv, Slot, Handled, InCallback, Listener, Fds
<1>. QED
  BY <1>4, <1>5, <1>6, <1>7 DEF IInv

(* Only a session at rest is received from, and its armed request is       *)
(* executed.                                                               *)
LEMMA RecvStep ==
  ASSUME IInv, NEW t \in Threads, NEW fd \in Fds, Recv(t, fd) PROVE IInv'
<1>. USE AsyncIOAssumption, ThreadOfInThreads, QueueSteps
<1>1. /\ fd \in SessionFds /\ ThreadOf(fd) = t /\ pc[t] = "next"
      /\ ~Handled(fd) /\ HasRequest(fd)
  BY DEF Recv, Execute, Event, IInv, ThreadInv, Handled, InCallback, Fds
<1>2. fd \in fdOpen /\ Slot(fd, "live", Armed) /\ ~Installed(fd)
  BY <1>1 DEF IInv, SessionInv, BeingInstalled, AtRest, Slot, HasRequest
<1>3. /\ m_recvQueue' = [m_recvQueue EXCEPT ![fd] = Running]
      /\ batch' = [batch EXCEPT ![t] = @ \ {fd}]
      /\ cur' = [cur EXCEPT ![t] = fd]
      /\ UNCHANGED <<mainPc, m_socketOpertion, backlog, fdOpen, newFd, errno>>
  <2>1. <<"done">> \o Tail(m_recvQueue[fd]) = Running
    BY <1>2 DEF Slot
  <2>. QED
    BY <2>1 DEF Recv, Execute, Event
<1>4. /\ pc' = [pc EXCEPT ![t] = AfterRecv(fd)] /\ AfterRecv(fd) \in {"recv", "unbind"}
      /\ input' \in [SessionFds -> {"none", "data", "eof"}]
  BY <1>1 DEF Recv, Goto, AfterRecv, IInv, Types
<1>5. Types'
  BY <1>1, <1>3, <1>4 DEF IInv, Types, InCallback, Fds
<1>6. ASSUME NEW u \in Threads PROVE ThreadInv(u)'
  BY <1>1, <1>3, <1>4 DEF IInv, Types, ThreadInv, InCallback, Fds
<1>7. ASSUME NEW f \in SessionFds PROVE SessionInv(f)'
  <2>1. SessionInv(f) /\ UNCHANGED <<fdOpen, m_socketOpertion, newFd>>
    BY <1>3 DEF IInv
  <2>2. (Installed(f)' <=> Installed(f)) /\ (Installed(f) => pc'[Listener] = pc[Listener])
    BY <1>1, <1>3, <1>4 DEF IInv, Types, Installed, Listener, Fds
  <2>3. CASE f = fd
    <3>1. /\ m_recvQueue'[f] = Running /\ Handled(f)'
          /\ pc'[ThreadOf(f)] \in {"recv", "unbind"}
      BY <1>1, <1>3, <1>4, <2>3 DEF IInv, Types, Handled, InCallback, Fds
    <3>. QED
      BY <1>2, <2>1, <2>2, <2>3, <3>1 DEF SessionInv, BeingHandled, Slot
  <2>4. CASE f # fd
    <3>1. /\ m_recvQueue'[f] = m_recvQueue[f] /\ (Handled(f)' <=> Handled(f))
          /\ Handled(f) => pc'[ThreadOf(f)] = pc[ThreadOf(f)]
      BY <1>1, <1>3, <1>4, <2>4 DEF IInv, Types, Handled, InCallback, Fds
    <3>. QED
      BY <2>1, <2>2, <3>1 DEF SessionInv, BeingHandled, BeingInstalled, AtRest, Slot
  <2>. QED
    BY <2>3, <2>4
<1>8. ListenerInv'
  BY <1>1, <1>3, <1>4 DEF IInv, Types, ListenerInv, Slot, Handled, InCallback, Listener, Fds
<1>. QED
  BY <1>5, <1>6, <1>7, <1>8 DEF IInv

(* An event that executes nothing leaves every queue as it is.             *)
LEMMA ContinueStep ==
  ASSUME IInv, NEW t \in Threads, NEW fd \in Fds, Continue(t, fd) PROVE IInv'
<1>. USE AsyncIOAssumption, ThreadOfInThreads
<1>1. /\ pc[t] = "next"
      /\ batch' = [batch EXCEPT ![t] = @ \ {fd}]
      /\ cur' = [cur EXCEPT ![t] = fd]
      /\ UNCHANGED <<ioVars, envVars, pc, newFd>>
  BY DEF Continue, Event
<1>2. Types'
  <2>1. errno' \in [Threads -> {"ok", "EAGAIN", "other"}]
    BY DEF Continue, IInv, Types
  <2>. QED
    BY <1>1, <2>1 DEF IInv, Types, ioVars, envVars
<1>3. ASSUME NEW u \in Threads PROVE ThreadInv(u)'
  BY <1>1 DEF IInv, Types, ThreadInv, InCallback
<1>4. \A f \in Fds : (Handled(f)' <=> Handled(f)) /\ (Installed(f)' <=> Installed(f))
  BY <1>1 DEF IInv, Types, Handled, Installed, InCallback
<1>5. ASSUME NEW f \in SessionFds PROVE SessionInv(f)'
  BY <1>1, <1>4 DEF IInv, SessionInv, BeingHandled, BeingInstalled, AtRest, Slot, ioVars, envVars, Fds
<1>6. ListenerInv'
  BY <1>1, <1>4 DEF IInv, ListenerInv, Slot, ioVars, Fds
<1>. QED
  BY <1>2, <1>3, <1>5, <1>6 DEF IInv

(* The callback has queued the next request, or has unbound its own        *)
(* session.                                                                *)
LEMMA PopStep == ASSUME IInv, NEW t \in Threads, Pop(t) PROVE IInv'
<1>. USE AsyncIOAssumption, ThreadOfInThreads, QueueSteps
<1>. DEFINE fd == cur[t]
<1>1. fd \in Fds /\ ThreadOf(fd) = t /\ Handled(fd) /\ pc[t] = "pop"
  BY DEF Pop, IInv, ThreadInv, Handled, InCallback
<1>2. \/ /\ Slot(fd, "live", Rearmed)
         /\ m_recvQueue' = [m_recvQueue EXCEPT ![fd] = Armed]
      \/ fd # ListenFd /\ Slot(fd, "null", <<>>) /\ UNCHANGED m_recvQueue
  <2>1. Slot(fd, "live", Rearmed) \/ (fd # ListenFd /\ Slot(fd, "null", <<>>))
    <3>1. CASE fd = ListenFd
      BY <1>1, <3>1 DEF IInv, Types, ListenerInv, Listener
    <3>2. CASE fd \in SessionFds
      BY <1>1, <3>2 DEF IInv, SessionInv, BeingHandled
    <3>. QED
      BY <1>1, <3>1, <3>2 DEF Fds
  <2>. QED
    BY <2>1 DEF Pop, Slot
<1>3. pc' = [pc EXCEPT ![t] = "next"] /\ UNCHANGED <<mainPc, m_socketOpertion, envVars, batch, cur, newFd, errno>>
  BY DEF Pop, Goto
<1>4. Types'
  BY <1>1, <1>2, <1>3 DEF IInv, Types, envVars, InCallback
<1>5. ASSUME NEW u \in Threads PROVE ThreadInv(u)'
  BY <1>3 DEF IInv, Types, ThreadInv, InCallback
<1>6. ASSUME NEW f \in SessionFds PROVE SessionInv(f)'
  <2>1. SessionInv(f) /\ fdOpen' = fdOpen /\ m_socketOpertion' = m_socketOpertion
    BY <1>3 DEF IInv, envVars
  <2>2. (Installed(f)' <=> Installed(f)) /\ (Installed(f) => pc'[Listener] = pc[Listener])
    BY <1>1, <1>3 DEF IInv, Types, Installed, Listener, Fds
  <2>3. CASE f = fd
    <3>1. ~Handled(f)'
      BY <1>1, <1>3, <2>3 DEF IInv, Types, Handled, InCallback
    <3>2. CASE Slot(fd, "live", Rearmed) /\ m_recvQueue' = [m_recvQueue EXCEPT ![fd] = Armed]
      <4>1. m_recvQueue'[f] = Armed
        BY <1>1, <2>3, <3>2 DEF IInv, Types
      <4>. QED
        BY <1>1, <2>1, <2>2, <2>3, <3>1, <3>2, <4>1 DEF SessionInv, BeingHandled, AtRest, Slot
    <3>3. CASE Slot(fd, "null", <<>>) /\ UNCHANGED m_recvQueue
      BY <1>1, <2>1, <2>2, <2>3, <3>1, <3>3 DEF SessionInv, BeingHandled, BeingInstalled, AtRest, Slot
    <3>. QED
      BY <1>2, <3>2, <3>3
  <2>4. CASE f # fd
    <3>1. m_recvQueue'[f] = m_recvQueue[f]
      BY <1>2, <2>4 DEF IInv, Types, Fds
    <3>2. (Handled(f)' <=> Handled(f)) /\ (Handled(f) => pc'[ThreadOf(f)] = pc[ThreadOf(f)])
      BY <1>1, <1>3, <2>4 DEF IInv, Types, Handled, InCallback, Fds
    <3>. QED
      BY <2>1, <2>2, <3>1, <3>2 DEF SessionInv, BeingHandled, BeingInstalled, AtRest, Slot
  <2>. QED
    BY <2>3, <2>4
<1>7. ListenerInv'
  BY <1>1, <1>2, <1>3 DEF IInv, Types, ListenerInv, Slot, Handled, InCallback, Listener, Fds
<1>. QED
  BY <1>4, <1>5, <1>6, <1>7 DEF IInv

-----------------------------------------------------------------------------
(* acceptCallBack and the constructor of CSession. Each step keeps the invariant. *)

(* A slot that is being installed is empty, so bindSocket refuses only -1. *)
LEMMA BindSocketStep == ASSUME IInv, NEW t \in Threads, BindSocket(t) PROVE IInv'
<1>. USE AsyncIOAssumption, ThreadOfInThreads
<1>1. /\ t = Listener /\ pc[t] = "bind" /\ cur[t] = ListenFd
      /\ UNCHANGED <<ioVars, envVars, batch, cur, newFd, errno>>
  BY DEF BindSocket, IInv, ThreadInv, Listener, InCallback
<1>2. \/ pc' = [pc EXCEPT ![t] = "publish"] /\ newFd[t] # None
      \/ /\ pc' = [pc EXCEPT ![t] = "rearm"]
         /\ newFd[t] = None \/ m_socketOpertion[newFd[t]] # "null"
  BY DEF BindSocket, Goto
<1>3. Types'
  <2>1. pc' \in [Threads -> InCallback \cup {"wait", "lock", "next"}]
    BY <1>2 DEF IInv, Types, InCallback
  <2>. QED
    BY <1>1, <2>1 DEF IInv, Types, ioVars, envVars
<1>4. ASSUME NEW u \in Threads PROVE ThreadInv(u)'
  BY <1>1, <1>2 DEF IInv, Types, ThreadInv, InCallback
<1>5. ASSUME NEW f \in SessionFds PROVE SessionInv(f)'
  <2>1. SessionInv(f) /\ UNCHANGED <<m_socketOpertion, m_recvQueue, fdOpen, cur, newFd>>
    BY <1>1 DEF IInv, ioVars, envVars
  <2>2. (Handled(f)' <=> Handled(f)) /\ (Handled(f) => pc'[ThreadOf(f)] = pc[ThreadOf(f)])
    BY <1>1, <1>2 DEF IInv, Types, Handled, InCallback, Listener, Fds
  <2>3. CASE Installed(f)
    <3>1. newFd[t] = f /\ newFd[t] # None /\ m_socketOpertion[f] = "null"
      BY <1>1, <2>1, <2>3, f # None DEF SessionInv, BeingHandled, BeingInstalled, Installed, Slot, None
    <3>2. pc'[Listener] = "publish" /\ Installed(f)'
      BY <1>1, <1>2, <3>1 DEF IInv, Types, Installed
    <3>. QED
      BY <1>1, <2>1, <2>2, <2>3, <3>1, <3>2 DEF SessionInv, BeingHandled, BeingInstalled, Slot
  <2>4. CASE ~Installed(f)
    <3>1. ~Installed(f)'
      BY <1>1, <1>2, <2>4 DEF IInv, Types, Installed
    <3>. QED
      BY <2>1, <2>2, <2>4, <3>1 DEF SessionInv, BeingHandled, BeingInstalled, AtRest, Slot
  <2>. QED
    BY <2>3, <2>4
<1>6. ListenerInv'
  BY <1>1, <1>2 DEF IInv, Types, ListenerInv, Slot, Handled, InCallback, Listener, ioVars
<1>. QED
  BY <1>3, <1>4, <1>5, <1>6 DEF IInv

(* With the epollMutex free, the thread of the new descriptor is in no     *)
(* callback.                                                               *)
LEMMA PublishStep == ASSUME IInv, NEW t \in Threads, Publish(t) PROVE IInv'
<1>. USE AsyncIOAssumption, ThreadOfInThreads, QueueSteps
<1>. DEFINE fd == newFd[t]
<1>1. /\ t = Listener /\ pc[t] = "publish" /\ cur[t] = ListenFd
      /\ fd \in SessionFds /\ Installed(fd)
  BY DEF Publish, IInv, Types, ThreadInv, Listener, InCallback, Installed
<1>2. ~Handled(fd) /\ fd \in fdOpen
  <2>1. ~HoldsMutex(ThreadOf(fd)) \/ ThreadOf(fd) = t
    BY DEF Publish, CanLock
  <2>2. ~Handled(fd)
    BY <1>1, <2>1 DEF Handled, HoldsMutex, InCallback
  <2>. QED
    BY <1>1, <2>2 DEF IInv, SessionInv, BeingInstalled
<1>3. /\ m_socketOpertion' = [m_socketOpertion EXCEPT ![fd] = "live"]
      /\ m_recvQueue' = [m_recvQueue EXCEPT ![fd] = <<>>]
      /\ pc' = [pc EXCEPT ![t] = "first"]
      /\ UNCHANGED <<mainPc, envVars, batch, cur, newFd, errno>>
  BY DEF Publish, Goto
<1>4. Types'
  BY <1>1, <1>3 DEF IInv, Types, envVars, InCallback, Fds
<1>5. ASSUME NEW u \in Threads PROVE ThreadInv(u)'
  BY <1>1, <1>3 DEF IInv, Types, ThreadInv, InCallback
<1>6. ASSUME NEW f \in SessionFds PROVE SessionInv(f)'
  <2>1. SessionInv(f) /\ UNCHANGED <<fdOpen, cur, newFd>>
    BY <1>3 DEF IInv, envVars
  <2>2. /\ (Handled(f)' <=> Handled(f)) /\ (Installed(f)' <=> Installed(f))
        /\ Handled(f) => pc'[ThreadOf(f)] = pc[ThreadOf(f)]
    BY <1>1, <1>3 DEF IInv, Types, Handled, Installed, InCallback, Listener, Fds
  <2>3. CASE f = fd
    <3>1. Slot(f, "live", <<>>)' /\ pc'[Listener] = "first"
      BY <1>1, <1>3, <2>3 DEF IInv, Types, Slot, Fds
    <3>. QED
      BY <1>1, <1>2, <2>1, <2>2, <2>3, <3>1 DEF SessionInv, BeingInstalled
  <2>4. CASE f # fd
    <3>1. /\ m_recvQueue'[f] = m_recvQueue[f] /\ m_socketOpertion'[f] = m_socketOpertion[f]
          /\ ~Installed(f)
      BY <1>1, <1>3, <2>4 DEF IInv, Types, Installed, Fds
    <3>. QED
      BY <2>1, <2>2, <3>1 DEF SessionInv, BeingHandled, AtRest, Slot
  <2>. QED
    BY <2>3, <2>4
<1>7. ListenerInv'
  BY <1>1, <1>3 DEF IInv, Types, ListenerInv, Slot, Handled, InCallback, Listener, Fds
<1>. QED
  BY <1>4, <1>5, <1>6, <1>7 DEF IInv

(* The new session gets its first receive; it is then at rest.             *)
LEMMA FirstRecvStep == ASSUME IInv, NEW t \in Threads, FirstRecv(t) PROVE IInv'
<1>. USE AsyncIOAssumption, ThreadOfInThreads, QueueSteps
<1>. DEFINE fd == newFd[t]
<1>1. /\ t = Listener /\ pc[t] = "first" /\ cur[t] = ListenFd
      /\ fd \in SessionFds /\ Installed(fd)
  BY DEF FirstRecv, IInv, Types, ThreadInv, Listener, InCallback, Installed
<1>2. ~Handled(fd) /\ fd \in fdOpen /\ Slot(fd, "live", <<>>)
  BY <1>1 DEF IInv, SessionInv, BeingHandled, BeingInstalled
<1>3. /\ m_recvQueue' = [m_recvQueue EXCEPT ![fd] = Armed]
      /\ pc' = [pc EXCEPT ![t] = "rearm"]
      /\ UNCHANGED <<mainPc, m_socketOpertion, envVars, batch, cur, newFd, errno>>
  BY <1>2 DEF FirstRecv, Goto, Push, Slot
<1>4. Types'
  BY <1>1, <1>3 DEF IInv, Types, envVars, InCallback, Fds
<1>5. ASSUME NEW u \in Threads PROVE ThreadInv(u)'
  BY <1>1, <1>3 DEF IInv, Types, ThreadInv, InCallback
<1>6. ASSUME NEW f \in SessionFds PROVE SessionInv(f)'
  <2>1. SessionInv(f) /\ UNCHANGED <<fdOpen, m_socketOpertion, cur, newFd>>
    BY <1>3 DEF IInv, envVars
  <2>2. (Handled(f)' <=> Handled(f)) /\ (Handled(f) => pc'[ThreadOf(f)] = pc[ThreadOf(f)])
    BY <1>1, <1>3 DEF IInv, Types, Handled, InCallback, Listener, Fds
  <2>3. ~Installed(f)'
    BY <1>1, <1>3 DEF IInv, Types, Installed
  <2>4. CASE f = fd
    <3>1. m_recvQueue'[f] = Armed
      BY <1>3, <2>4 DEF IInv, Types, Fds
    <3>. QED
      BY <1>2, <2>1, <2>2, <2>3, <2>4, <3>1 DEF SessionInv, AtRest, Slot
  <2>5. CASE f # fd
    <3>1. m_recvQueue'[f] = m_recvQueue[f] /\ ~Installed(f)
      BY <1>1, <1>3, <2>5 DEF IInv, Types, Installed, Fds
    <3>. QED
      BY <2>1, <2>2, <2>3, <3>1 DEF SessionInv, BeingHandled, AtRest, Slot
  <2>. QED
    BY <2>4, <2>5
<1>7. ListenerInv'
  BY <1>1, <1>3 DEF IInv, Types, ListenerInv, Slot, Handled, InCallback, Listener, Fds
<1>. QED
  BY <1>4, <1>5, <1>6, <1>7 DEF IInv

(* acceptCallBack queues the next accept behind the executed one.          *)
LEMMA RearmAcceptStep == ASSUME IInv, NEW t \in Threads, RearmAccept(t) PROVE IInv'
<1>. USE AsyncIOAssumption, ThreadOfInThreads, QueueSteps
<1>1. Types'
  BY DEF RearmAccept, IInv, Types, envVars, Goto, Push, InCallback, Fds
<1>2. ASSUME NEW u \in Threads PROVE ThreadInv(u)'
  BY DEF RearmAccept, IInv, Types, ThreadInv, Goto, InCallback
<1>3. ASSUME NEW f \in SessionFds PROVE SessionInv(f)'
  BY SMTT(30) DEF RearmAccept, IInv, Types, SessionInv, Handled, Installed, BeingHandled, BeingInstalled, AtRest, Slot, Listener, InCallback, Goto, Push, envVars, ThreadInv, Fds
<1>4. ListenerInv'
  BY DEF RearmAccept, IInv, Types, ListenerInv, Handled, Slot, Listener, InCallback, Goto, Push, ThreadInv, Fds
<1>. QED
  BY <1>1, <1>2, <1>3, <1>4 DEF IInv

-----------------------------------------------------------------------------
(* recvCallBack. Each step keeps the invariant.                            *)

(* recvCallBack queues the next receive behind the executed one.           *)
LEMMA AsyncRecvStep == ASSUME IInv, NEW t \in Threads, AsyncRecv(t) PROVE IInv'
<1>. USE AsyncIOAssumption, ThreadOfInThreads, QueueSteps
<1>. DEFINE fd == cur[t]
<1>1. /\ fd \in SessionFds /\ ThreadOf(fd) = t /\ Handled(fd) /\ pc[t] = "recv"
  BY DEF AsyncRecv, IInv, ThreadInv, Handled, InCallback
<1>2. fd \in fdOpen /\ Slot(fd, "live", Running) /\ ~Installed(fd)
  BY <1>1 DEF IInv, SessionInv, BeingHandled
<1>3. /\ m_recvQueue' = [m_recvQueue EXCEPT ![fd] = Rearmed]
      /\ pc' = [pc EXCEPT ![t] = "pop"]
      /\ UNCHANGED <<mainPc, m_socketOpertion, envVars, batch, cur, newFd, errno>>
  BY <1>2 DEF AsyncRecv, Goto, Push, Slot
<1>4. Types'
  BY <1>1, <1>3 DEF IInv, Types, envVars, InCallback, Fds
<1>5. ASSUME NEW u \in Threads PROVE ThreadInv(u)'
  BY <1>1, <1>3 DEF IInv, Types, ThreadInv, InCallback, Fds
<1>6. ASSUME NEW f \in SessionFds PROVE SessionInv(f)'
  <2>1. SessionInv(f) /\ UNCHANGED <<fdOpen, m_socketOpertion, cur, newFd>>
    BY <1>3 DEF IInv, envVars
  <2>2. (Handled(f)' <=> Handled(f)) /\ (Installed(f)' <=> Installed(f))
    BY <1>1, <1>3 DEF IInv, Types, Handled, Installed, InCallback, Listener, Fds
  <2>3. Installed(f) => pc'[Listener] = pc[Listener]
    BY <1>1, <1>3 DEF IInv, Types, Installed, Listener, Fds
  <2>4. CASE f = fd
    <3>1. m_recvQueue'[f] = Rearmed /\ pc'[ThreadOf(f)] = "pop"
      BY <1>1, <1>3, <2>4 DEF IInv, Types, Fds
    <3>. QED
      BY <1>1, <1>2, <2>1, <2>2, <2>4, <3>1 DEF SessionInv, BeingHandled, Slot
  <2>5. CASE f # fd
    <3>1. /\ m_recvQueue'[f] = m_recvQueue[f]
          /\ Handled(f) => pc'[ThreadOf(f)] = pc[ThreadOf(f)]
      BY <1>1, <1>3, <2>5 DEF IInv, Types, Handled, Fds
    <3>. QED
      BY <2>1, <2>2, <2>3, <3>1 DEF SessionInv, BeingHandled, BeingInstalled, AtRest, Slot
  <2>. QED
    BY <2>4, <2>5
<1>7. ListenerInv'
  BY <1>1, <1>3 DEF IInv, Types, ListenerInv, Slot, Handled, InCallback, Listener, Fds
<1>. QED
  BY <1>4, <1>5, <1>6, <1>7 DEF IInv

(* The object of the thread's own session is deleted.                      *)
LEMMA UnbindDeleteStep == ASSUME IInv, NEW t \in Threads, UnbindDelete(t) PROVE IInv'
<1>. USE AsyncIOAssumption, ThreadOfInThreads, QueueSteps
<1>1. Types'
  BY DEF UnbindDelete, IInv, Types, envVars, Goto, InCallback, ThreadInv, Fds
<1>2. ASSUME NEW u \in Threads PROVE ThreadInv(u)'
  BY DEF UnbindDelete, IInv, Types, ThreadInv, Goto, InCallback
<1>3. ASSUME NEW f \in SessionFds PROVE SessionInv(f)'
  <2>. DEFINE own == cur[t]
  <2>1. /\ pc[t] = "unbind" /\ pc'[t] = "clear" /\ own \in SessionFds
        /\ Handled(own) /\ ThreadOf(own) = t
        /\ UNCHANGED <<cur, newFd>>
        /\ \A u \in Threads : u # t => pc'[u] = pc[u]
    BY DEF UnbindDelete, IInv, Types, ThreadInv, InCallback, Handled, Goto, envVars
  <2>2. /\ SessionInv(f) /\ Listener \in Threads /\ ThreadOf(f) \in Threads
    BY DEF IInv, Listener, Fds
  <2>3. /\ Handled(f)' <=> Handled(f)
        /\ Installed(f)' <=> Installed(f)
        /\ pc'[Listener] \in {"bind", "publish"} <=> pc[Listener] \in {"bind", "publish"}
        /\ (pc'[Listener] = "first") <=> (pc[Listener] = "first")
    BY <2>1, <2>2 DEF Handled, Installed, InCallback
  <2>4. CASE f = own
    <3>1. Slot(f, "live", Running) /\ f \in fdOpen /\ ~Installed(f)
      BY <2>1, <2>2, <2>4 DEF SessionInv, BeingHandled
    <3>2. Slot(f, "freed", <<>>)' /\ f \in fdOpen'
      BY <2>1, <2>4, <3>1 DEF UnbindDelete, IInv, Types, Slot, Fds, envVars
    <3>. QED
      BY <2>1, <2>3, <2>4, <3>1, <3>2 DEF SessionInv, BeingHandled, Slot
  <2>5. CASE f # own
    <3>1. /\ m_socketOpertion'[f] = m_socketOpertion[f] /\ m_recvQueue'[f] = m_recvQueue[f]
          /\ f \in fdOpen' <=> f \in fdOpen
      BY <2>5 DEF UnbindDelete, IInv, Types, Fds, envVars
    <3>2. Handled(f) => pc'[ThreadOf(f)] = pc[ThreadOf(f)]
      BY <2>1, <2>2, <2>5 DEF Handled
    <3>3. BeingHandled(f) /\ Handled(f) => BeingHandled(f)'
      BY <2>3, <3>1, <3>2 DEF BeingHandled, Slot
    <3>. QED
      BY <2>2, <2>3, <3>1, <3>3 DEF SessionInv, BeingInstalled, AtRest, Slot
  <2>. QED
    BY <2>4, <2>5
<1>4. ListenerInv'
  BY DEF UnbindDelete, IInv, Types, ListenerInv, Handled, Slot, Listener, InCallback, Goto, ThreadInv, Fds
<1>. QED
  BY <1>1, <1>2, <1>3, <1>4 DEF IInv

(* Its slot is cleared while the descriptor is still open.                 *)
LEMMA UnbindClearStep == ASSUME IInv, NEW t \in Threads, UnbindClear(t) PROVE IInv'
<1>. USE AsyncIOAssumption, ThreadOfInThreads, QueueSteps
<1>1. Types'
  BY DEF UnbindClear, IInv, Types, envVars, Goto, InCallback, ThreadInv, Fds
<1>2. ASSUME NEW u \in Threads PROVE ThreadInv(u)'
  BY DEF UnbindClear, IInv, Types, ThreadInv, Goto, InCallback
<1>3. ASSUME NEW f \in SessionFds PROVE SessionInv(f)'
  <2>. DEFINE own == cur[t]
  <2>1. /\ pc[t] = "clear" /\ pc'[t] = "close" /\ own \in SessionFds
        /\ Handled(own) /\ ThreadOf(own) = t
        /\ UNCHANGED <<cur, newFd>>
        /\ \A u \in Threads : u # t => pc'[u] = pc[u]
    BY DEF UnbindClear, IInv, Types, ThreadInv, InCallback, Handled, Goto, envVars
  <2>2. /\ SessionInv(f) /\ Listener \in Threads /\ ThreadOf(f) \in Threads
    BY DEF IInv, Listener, Fds
  <2>3. /\ Handled(f)' <=> Handled(f)
        /\ Installed(f)' <=> Installed(f)
        /\ pc'[Listener] \in {"bind", "publish"} <=> pc[Listener] \in {"bind", "publish"}
        /\ (pc'[Listener] = "first") <=> (pc[Listener] = "first")
    BY <2>1, <2>2 DEF Handled, Installed, InCallback
  <2>4. CASE f = own
    <3>1. Slot(f, "freed", <<>>) /\ f \in fdOpen /\ ~Installed(f)
      BY <2>1, <2>2, <2>4 DEF SessionInv, BeingHandled
    <3>2. Slot(f, "null", <<>>)' /\ f \in fdOpen'
      BY <2>1, <2>4, <3>1 DEF UnbindClear, IInv, Types, Slot, Fds, envVars
    <3>. QED
      BY <2>1, <2>3, <2>4, <3>1, <3>2 DEF SessionInv, BeingHandled, Slot
  <2>5. CASE f # own
    <3>1. /\ m_socketOpertion'[f] = m_socketOpertion[f] /\ m_recvQueue'[f] = m_recvQueue[f]
          /\ f \in fdOpen' <=> f \in fdOpen
      BY <2>5 DEF UnbindClear, IInv, Types, Fds, envVars
    <3>2. Handled(f) => pc'[ThreadOf(f)] = pc[ThreadOf(f)]
      BY <2>1, <2>2, <2>5 DEF Handled
    <3>3. BeingHandled(f) /\ Handled(f) => BeingHandled(f)'
      BY <2>3, <3>1, <3>2 DEF BeingHandled, Slot
    <3>. QED
      BY <2>2, <2>3, <3>1, <3>3 DEF SessionInv, BeingInstalled, AtRest, Slot
  <2>. QED
    BY <2>4, <2>5
<1>4. ListenerInv'
  BY DEF UnbindClear, IInv, Types, ListenerInv, Handled, Slot, Listener, InCallback, Goto, ThreadInv, Fds
<1>. QED
  BY <1>1, <1>2, <1>3, <1>4 DEF IInv

(* The descriptor is closed once its slot is empty.                        *)
LEMMA CloseSocketStep == ASSUME IInv, NEW t \in Threads, CloseSocket(t) PROVE IInv'
<1>. USE AsyncIOAssumption, ThreadOfInThreads, QueueSteps
<1>1. Types'
  BY DEF CloseSocket, IInv, Types, ioVars, Goto, InCallback
<1>2. ASSUME NEW u \in Threads PROVE ThreadInv(u)'
  BY DEF CloseSocket, IInv, Types, ThreadInv, Goto, InCallback
<1>3. ASSUME NEW f \in SessionFds PROVE SessionInv(f)'
  <2>. DEFINE own == cur[t]
  <2>1. /\ pc[t] = "close" /\ pc'[t] = "pop" /\ own \in SessionFds
        /\ Handled(own) /\ ThreadOf(own) = t
        /\ UNCHANGED <<cur, newFd>>
        /\ \A u \in Threads : u # t => pc'[u] = pc[u]
    BY DEF CloseSocket, IInv, Types, ThreadInv, InCallback, Handled, Goto, ioVars
  <2>2. /\ SessionInv(f) /\ Listener \in Threads /\ ThreadOf(f) \in Threads
    BY DEF IInv, Listener, Fds
  <2>3. /\ Handled(f)' <=> Handled(f)
        /\ Installed(f)' <=> Installed(f)
        /\ pc'[Listener] \in {"bind", "publish"} <=> pc[Listener] \in {"bind", "publish"}
        /\ (pc'[Listener] = "first") <=> (pc[Listener] = "first")
    BY <2>1, <2>2 DEF Handled, Installed, InCallback
  <2>4. CASE f = own
    <3>1. Slot(f, "null", <<>>) /\ f \in fdOpen /\ ~Installed(f)
      BY <2>1, <2>2, <2>4 DEF SessionInv, BeingHandled
    <3>2. Slot(f, "null", <<>>)' /\ f \notin fdOpen'
      BY <2>1, <2>4, <3>1 DEF CloseSocket, IInv, Types, Slot, Fds, ioVars
    <3>. QED
      BY <2>1, <2>3, <2>4, <3>1, <3>2 DEF SessionInv, BeingHandled, Slot
  <2>5. CASE f # own
    <3>1. /\ m_socketOpertion'[f] = m_socketOpertion[f] /\ m_recvQueue'[f] = m_recvQueue[f]
          /\ f \in fdOpen' <=> f \in fdOpen
      BY <2>5 DEF CloseSocket, IInv, Types, Fds, ioVars
    <3>2. Handled(f) => pc'[ThreadOf(f)] = pc[ThreadOf(f)]
      BY <2>1, <2>2, <2>5 DEF Handled
    <3>3. BeingHandled(f) /\ Handled(f) => BeingHandled(f)'
      BY <2>3, <3>1, <3>2 DEF BeingHandled, Slot
    <3>. QED
      BY <2>2, <2>3, <3>1, <3>3 DEF SessionInv, BeingInstalled, AtRest, Slot
  <2>. QED
    BY <2>4, <2>5
<1>4. ListenerInv'
  BY DEF CloseSocket, IInv, Types, ListenerInv, Handled, Slot, Listener, InCallback, Goto, ioVars, ThreadInv, Fds
<1>. QED
  BY <1>1, <1>2, <1>3, <1>4 DEF IInv

-----------------------------------------------------------------------------
(* The invariant holds initially and is kept by every step of main, of the *)
(* clients and of the threads.                                             *)
LEMMA IInvInductive == Spec => []IInv
<1>1. IInv /\ [Next]_vars => IInv'
  <2> SUFFICES ASSUME IInv, [Next]_vars PROVE IInv'
    OBVIOUS
  <2>1. CASE MainBind \/ MainAccept \/ Connect
    BY <2>1, MainBindStep, MainAcceptStep, ConnectStep
  <2>2. ASSUME NEW fd \in SessionFds, ClientWrites(fd) PROVE IInv'
    BY <2>2, ClientWritesStep
  <2>3. ASSUME NEW t \in Threads, EpollWait(t) \/ LockEpoll(t) \/ EndBatch(t) PROVE IInv'
    BY <2>3, EpollWaitStep, LockEpollStep, EndBatchStep
  <2>4. ASSUME NEW t \in Threads, Handler(t) PROVE IInv'
    <3>1. ASSUME NEW fd \in Fds, Recv(t, fd) \/ Continue(t, fd) PROVE IInv'
      BY <3>1, RecvStep, ContinueStep
    <3>2. CASE Accept(t) \/ Pop(t) \/ BindSocket(t) \/ Publish(t) \/ FirstRecv(t) \/ RearmAccept(t)
      BY <3>2, AcceptStep, PopStep, BindSocketStep, PublishStep, FirstRecvStep, RearmAcceptStep
    <3>3. CASE AsyncRecv(t) \/ UnbindDelete(t) \/ UnbindClear(t) \/ CloseSocket(t)
      BY <3>3, AsyncRecvStep, UnbindDeleteStep, UnbindClearStep, CloseSocketStep
    <3>. QED
      BY <2>4, <3>1, <3>2, <3>3 DEF Handler
  <2>5. CASE UNCHANGED vars
    <3>. USE <2>5 DEF vars, ioVars, envVars, threadVars, IInv
    <3>1. Types' /\ ListenerInv'
      BY DEF Types, ListenerInv, Slot, Handled
    <3>2. \A t \in Threads : ThreadInv(t)'
      BY DEF ThreadInv
    <3>3. \A fd \in SessionFds : SessionInv(fd)'
      BY DEF SessionInv, Handled, Installed, BeingHandled, BeingInstalled, AtRest, Slot
    <3>. QED
      BY <3>1, <3>2, <3>3
  <2>. QED
    BY <2>1, <2>2, <2>3, <2>4, <2>5 DEF Next, EpollThread
<1>. QED
  BY <1>1, InitIInv, PTL DEF Spec

(* The shared table, the queues and the program counters of all threads    *)
(* keep their ranges, and a callback runs on the thread of its descriptor. *)
THEOREM TypeCorrect == Spec => []TypeOK
<1>1. IInv => TypeOK
  BY DEF IInv, TypeOK, ThreadInv
<1>. QED
  BY <1>1, IInvInductive, PTL

(* However descriptors are closed, returned by accept() again and bound by *)
(* another thread meanwhile, the loop that pops after a callback pops the  *)
(* request it executed.                                                    *)
THEOREM PopsTheExecuted == Spec => []PopsOwnRequest
<1>1. IInv => PopsOwnRequest
  <2> SUFFICES ASSUME IInv, NEW t \in Threads,
                      pc[t] = "pop", m_socketOpertion[cur[t]] # "null"
               PROVE Slot(cur[t], "live", Rearmed)
    BY QueueSteps DEF PopsOwnRequest, Slot
  <2>1. cur[t] \in Fds /\ ThreadOf(cur[t]) = t /\ Handled(cur[t])
    BY DEF IInv, ThreadInv, Handled, InCallback
  <2>2. CASE cur[t] = ListenFd
    BY <2>1, <2>2 DEF IInv, Types, ListenerInv, Listener
  <2>3. CASE cur[t] \in SessionFds
    BY <2>1, <2>3 DEF IInv, SessionInv, BeingHandled, Slot
  <2>. QED
    BY <2>1, <2>2, <2>3 DEF Fds
<1>. QED
  BY <1>1, IInvInductive, PTL

(* No descriptor is closed, and so none given to a new connection, while   *)
(* the table still has an object for it.                                   *)
THEOREM ClosedIsUnbound == Spec => []BoundIsOpen
<1>1. IInv => BoundIsOpen
  BY DEF IInv, BoundIsOpen, SessionInv, BeingHandled, BeingInstalled, AtRest, Slot
<1>. QED
  BY <1>1, IInvInductive, PTL

(* Every accepted connection is being installed, is in its callback or is  *)
(* bound with exactly one receive armed.                                   *)
THEOREM NoConnectionForgotten == Spec => []EveryConnectionServed
<1>1. IInv => EveryConnectionServed
  <2> SUFFICES ASSUME IInv, NEW fd \in fdOpen, ~Handling(fd), ~Installing(fd)
               PROVE Slot(fd, "live", Armed)
    BY DEF EveryConnectionServed, Slot, Armed
  <2>1. fd \in SessionFds /\ SessionInv(fd)
    BY DEF IInv, Types
  <2>2. ~Handled(fd) /\ ~Installed(fd)
    BY <2>1, ThreadOfInThreads DEF Handling, Installing, Handled, Installed, Listener, Fds
  <2>. QED
    BY <2>1, <2>2 DEF SessionInv, AtRest
<1>. QED
  BY <1>1, IInvInductive, PTL

(* Once main has armed it, exactly one accept is pending outside the       *)
(* listener's own callback, whether accept() succeeds or fails.            *)
THEOREM ListenerStaysArmed == Spec => []ListenerArmed
<1>1. IInv => ListenerArmed
  BY ThreadOfInThreads DEF IInv, ListenerArmed, ListenerInv, Slot, Handling, Handled, Armed, Fds
<1>. QED
  BY <1>1, IInvInductive, PTL

(* Two epoll threads never wait for each other's epollMutex: whoever is in *)
(* bindSocket handles the listening descriptor, which one thread serves.   *)
THEOREM NoDeadlockOfMutexes == Spec => []NoCircularWait
<1>1. IInv => NoCircularWait
  BY DEF IInv, NoCircularWait, ThreadInv, InCallback
<1>. QED
  BY <1>1, IInvInductive, PTL

=============================================================================
