------------------------------ MODULE AsyncIO -------------------------------
(***************************************************************************)
(* CAsyncIO under the load main.cpp and CSession put on it: N epoll        *)
(* threads, the table of socket operations they share, a listening socket  *)
(* and the sessions it accepts.                                            *)
(*                                                                         *)
(* fd % N picks the thread that serves a descriptor.  A thread holds its   *)
(* epollMutex for a whole batch of events, bindSocket takes the mutex of   *)
(* the new descriptor's thread only to publish the finished object, and    *)
(* the table is otherwise read without a lock.                             *)
(***************************************************************************)
EXTENDS Integers, Sequences, FiniteSets

CONSTANTS
  N,               \* m_threadNum, the number of epoll threads
  ListenFd,        \* listenfd
  SessionFds,      \* the descriptors accept() can return
  MaxBacklog,      \* bound: connections that wait to be accepted
  SpuriousWakeups  \* epoll may report a descriptor that is not readable

ASSUME AsyncIOAssumption ==
  /\ N \in Nat \ {0}
  /\ ListenFd \in Nat /\ SessionFds \subseteq Nat
  /\ ListenFd \notin SessionFds
  /\ MaxBacklog \in Nat
  /\ SpuriousWakeups \in BOOLEAN

Fds == {ListenFd} \cup SessionFds
Threads == 0 .. N - 1
ThreadOf(fd) == fd % N
None == -1

VARIABLES
  mainPc,            \* main(): "bind", "accept", "idle"
  backlog,           \* connections the kernel has ready for accept()
  fdOpen,            \* the session descriptors in use
  input,             \* per session fd: "none", "data", "eof"
  m_socketOpertion,  \* per fd: "null", "live", or "freed" (deleted, not yet nulled)
  m_recvQueue,       \* per fd: its requests, "armed" or "done" (executed, not popped)
  pc, batch,         \* per thread: where it is, the events of the batch left
  cur, newFd,        \* per thread: the event being handled, accept()'s result
  errno              \* per thread: "ok", "EAGAIN", "other"

ioVars == <<mainPc, m_socketOpertion, m_recvQueue>>
envVars == <<backlog, fdOpen, input>>
threadVars == <<pc, batch, cur, newFd, errno>>
vars == <<ioVars, envVars, threadVars>>

(* Thread t owns its epollMutex from the end of epoll_wait to the end of   *)
(* the batch.  The mutex is recursive: t itself never waits for it.        *)
HoldsMutex(t) == pc[t] \notin {"wait", "lock"}
(* Mutant of CanLock: bindSocket publishes without the mutex.              *)
CanLockAlways(t, fd) == TRUE

CanLock(t, fd) == ThreadOf(fd) = t \/ ~HoldsMutex(ThreadOf(fd))

Push(fd) == m_recvQueue' = [m_recvQueue EXCEPT ![fd] = Append(@, "armed")]
Goto(t, label) == pc' = [pc EXCEPT ![t] = label]

Init ==
  /\ mainPc = "bind"
  /\ backlog = 0
  /\ fdOpen = {}
  /\ input = [fd \in SessionFds |-> "none"]
  /\ m_socketOpertion = [fd \in Fds |-> "null"]
  /\ m_recvQueue = [fd \in Fds |-> <<>>]
  /\ pc = [t \in Threads |-> "wait"]
  /\ batch = [t \in Threads |-> {}]
  /\ cur = [t \in Threads |-> None]
  /\ newFd = [t \in Threads |-> None]
  /\ errno = [t \in Threads |-> "ok"]

-----------------------------------------------------------------------------
(* main() and the clients.                                                 *)

MainBind ==
  /\ mainPc = "bind"
  /\ ~HoldsMutex(ThreadOf(ListenFd))
  /\ m_socketOpertion' = [m_socketOpertion EXCEPT ![ListenFd] = "live"]
  /\ mainPc' = "accept"
  /\ UNCHANGED <<m_recvQueue, envVars, threadVars>>

MainAccept ==
  /\ mainPc = "accept"
  /\ Push(ListenFd)
  /\ mainPc' = "idle"
  /\ UNCHANGED <<m_socketOpertion, envVars, threadVars>>

Connect ==
  /\ backlog < MaxBacklog
  /\ backlog' = backlog + 1
  /\ UNCHANGED <<ioVars, fdOpen, input, threadVars>>

(* A client sends, or closes its end after what it sent has been read.     *)
ClientWrites(fd) ==
  /\ fd \in fdOpen /\ input[fd] = "none"
  /\ \E what \in {"data", "eof"} : input' = [input EXCEPT ![fd] = what]
  /\ UNCHANGED <<ioVars, backlog, fdOpen, threadVars>>

-----------------------------------------------------------------------------
(* epollThreadProc.                                                        *)

Readable(fd) == IF fd = ListenFd THEN backlog > 0 ELSE input[fd] # "none"

(* Mutant of Ready: one epoll descriptor for all threads.                  *)
ReadyShared(t) ==
  {fd \in Fds : m_recvQueue[fd] # <<>> /\ (Readable(fd) \/ SpuriousWakeups)}

(* EPOLLIN is registered while requests are queued.                        *)
Ready(t) ==
  {fd \in Fds : /\ ThreadOf(fd) = t
                /\ m_recvQueue[fd] # <<>>
                /\ Readable(fd) \/ SpuriousWakeups}

EpollWait(t) ==
  /\ pc[t] = "wait"
  /\ Ready(t) # {}
  /\ batch' = [batch EXCEPT ![t] = Ready(t)]
  /\ Goto(t, "lock")
  /\ UNCHANGED <<ioVars, envVars, cur, newFd, errno>>

LockEpoll(t) ==
  /\ pc[t] = "lock"
  /\ Goto(t, "next")
  /\ UNCHANGED <<ioVars, envVars, batch, cur, newFd, errno>>

EndBatch(t) ==
  /\ pc[t] = "next" /\ batch[t] = {}
  /\ Goto(t, "wait")
  /\ UNCHANGED <<ioVars, envVars, batch, cur, newFd, errno>>

(* The next event of the batch; iRet is settled by the caller.             *)
Event(t, fd) ==
  /\ pc[t] = "next"
  /\ fd \in batch[t]
  /\ batch' = [batch EXCEPT ![t] = @ \ {fd}]
  /\ cur' = [cur EXCEPT ![t] = fd]

HasRequest(fd) == m_socketOpertion[fd] # "null" /\ m_recvQueue[fd] # <<>>

(* The front request is executed; it leaves the queue after its callback.  *)
Execute(t, fd) ==
  /\ Event(t, fd)
  /\ HasRequest(fd)
  /\ m_recvQueue' = [m_recvQueue EXCEPT ![fd] = <<"done">> \o Tail(@)]
  /\ UNCHANGED <<mainPc, m_socketOpertion>>

(* Nothing is executed: no request; nothing to accept or receive, which    *)
(* sets errno; or the end of the stream while errno is EAGAIN, left by an  *)
(* earlier call that had nothing to return.                                *)
EofMissed(t, fd) == fd # ListenFd /\ input[fd] = "eof" /\ errno[t] = "EAGAIN"

Continue(t, fd) ==
  /\ Event(t, fd)
  /\ HasRequest(fd) /\ Readable(fd) => EofMissed(t, fd)
  /\ errno' = IF HasRequest(fd) /\ ~Readable(fd)
              THEN [errno EXCEPT ![t] = "EAGAIN"] ELSE errno
  /\ UNCHANGED <<ioVars, envVars, pc, newFd>>

(* accept() returns a free descriptor, or -1 when there is none; the       *)
(* callback is called with either and ignores the error code.              *)
Accept(t) ==
  /\ Execute(t, ListenFd)
  /\ Readable(ListenFd)
  /\ \/ \E fd \in SessionFds \ fdOpen :
          /\ newFd' = [newFd EXCEPT ![t] = fd]
          /\ fdOpen' = fdOpen \cup {fd}
          /\ input' = [input EXCEPT ![fd] = "none"]
          /\ backlog' = backlog - 1
          /\ UNCHANGED errno
     \/ /\ SessionFds \subseteq fdOpen
        /\ newFd' = [newFd EXCEPT ![t] = None]
        /\ errno' = [errno EXCEPT ![t] = "other"]
        /\ UNCHANGED envVars
  /\ Goto(t, "bind")

(* Mutants of AfterRecv: closed without unbind, the end taken for data.    *)
AfterRecvClose(fd)  == IF input[fd] = "eof" THEN "close" ELSE "recv"

(* The branch recvCallBack takes.                                          *)
AfterRecv(fd) == IF input[fd] = "eof" THEN "unbind" ELSE "recv"

(* recv() returns bytes or 0, the end of the stream.                       *)
Recv(t, fd) ==
  /\ fd # ListenFd /\ Readable(fd)
  /\ ~EofMissed(t, fd)
  /\ Execute(t, fd)
  /\ input' = [input EXCEPT ![fd] = IF @ = "data" THEN "none" ELSE @]
  /\ Goto(t, AfterRecv(fd))
  /\ UNCHANGED <<backlog, fdOpen, newFd, errno>>

(* After the callback: the slot is read again, the request popped.         *)
Pop(t) ==
  /\ pc[t] = "pop"
  /\ m_recvQueue' = IF m_socketOpertion[cur[t]] = "null" THEN m_recvQueue
                    ELSE [m_recvQueue EXCEPT ![cur[t]] = Tail(@)]
  /\ Goto(t, "next")
  /\ UNCHANGED <<mainPc, m_socketOpertion, envVars, batch, cur, newFd, errno>>

-----------------------------------------------------------------------------
(* acceptCallBack and the constructor of CSession.                         *)

(* bindSocket up to the mutex: refused for -1 and for a slot in use, else  *)
(* the object is constructed.                                              *)
BindSocket(t) ==
  /\ pc[t] = "bind"
  /\ IF newFd[t] = None \/ m_socketOpertion[newFd[t]] # "null"
     THEN Goto(t, "rearm") ELSE Goto(t, "publish")
  /\ UNCHANGED <<ioVars, envVars, batch, cur, newFd, errno>>

Publish(t) ==
  /\ pc[t] = "publish"
  /\ CanLock(t, newFd[t])
  /\ m_socketOpertion' = [m_socketOpertion EXCEPT ![newFd[t]] = "live"]
  /\ m_recvQueue' = [m_recvQueue EXCEPT ![newFd[t]] = <<>>]
  /\ Goto(t, "first")
  /\ UNCHANGED <<mainPc, envVars, batch, cur, newFd, errno>>

(* Mutant of FirstRecv: the session is bound but not armed.                *)
FirstRecvForgotten(t) ==
  pc[t] = "first" /\ Goto(t, "rearm") /\ UNCHANGED <<ioVars, envVars, batch, cur, newFd, errno>>

FirstRecv(t) ==
  /\ pc[t] = "first"
  /\ IF m_socketOpertion[newFd[t]] = "null" THEN UNCHANGED m_recvQueue
     ELSE Push(newFd[t])
  /\ Goto(t, "rearm")
  /\ UNCHANGED <<mainPc, m_socketOpertion, envVars, batch, cur, newFd, errno>>

(* Mutant of RearmAccept: the callback returns early when accept() failed. *)
RearmAcceptOnSuccess(t) ==
  /\ pc[t] = "rearm"
  /\ IF newFd[t] = None THEN UNCHANGED m_recvQueue ELSE Push(ListenFd)
  /\ Goto(t, "pop")
  /\ UNCHANGED <<mainPc, m_socketOpertion, envVars, batch, cur, newFd, errno>>

RearmAccept(t) ==
  /\ pc[t] = "rearm"
  /\ Push(ListenFd)
  /\ Goto(t, "pop")
  /\ UNCHANGED <<mainPc, m_socketOpertion, envVars, batch, cur, newFd, errno>>

-----------------------------------------------------------------------------
(* CSession::recvCallBack.                                                 *)

AsyncRecv(t) ==
  /\ pc[t] = "recv"
  /\ Push(cur[t])
  /\ Goto(t, "pop")
  /\ UNCHANGED <<mainPc, m_socketOpertion, envVars, batch, cur, newFd, errno>>

(* unbindSocket deletes the object, then clears the slot.                  *)
UnbindDelete(t) ==
  /\ pc[t] = "unbind"
  /\ m_socketOpertion' = [m_socketOpertion EXCEPT ![cur[t]] = "freed"]
  /\ m_recvQueue' = [m_recvQueue EXCEPT ![cur[t]] = <<>>]
  /\ Goto(t, "clear")
  /\ UNCHANGED <<mainPc, envVars, batch, cur, newFd, errno>>

UnbindClear(t) ==
  /\ pc[t] = "clear"
  /\ m_socketOpertion' = [m_socketOpertion EXCEPT ![cur[t]] = "null"]
  /\ Goto(t, "close")
  /\ UNCHANGED <<mainPc, m_recvQueue, envVars, batch, cur, newFd, errno>>

CloseSocket(t) ==
  /\ pc[t] = "close"
  /\ fdOpen' = fdOpen \ {cur[t]}
  /\ Goto(t, "pop")
  /\ UNCHANGED <<ioVars, backlog, input, batch, cur, newFd, errno>>

-----------------------------------------------------------------------------
Handler(t) ==
  \/ Accept(t) \/ Pop(t)
  \/ \E fd \in Fds : \/ Recv(t, fd) \/ Continue(t, fd)
  \/ BindSocket(t) \/ Publish(t) \/ FirstRecv(t) \/ RearmAccept(t)
  \/ AsyncRecv(t) \/ UnbindDelete(t) \/ UnbindClear(t) \/ CloseSocket(t)

EpollThread(t) == EpollWait(t) \/ LockEpoll(t) \/ EndBatch(t) \/ Handler(t)

Next ==
  \/ MainBind \/ MainAccept \/ Connect
  \/ \E fd \in SessionFds : ClientWrites(fd)
  \/ \E t \in Threads : EpollThread(t)

Spec == Init /\ [][Next]_vars

(* Every thread is scheduled.  A mutex that keeps being free may still be  *)
(* lost to its owner each time: nothing stronger than weak fairness.       *)
FairSpec ==
  /\ Spec
  /\ WF_vars(MainBind \/ MainAccept)
  /\ \A t \in Threads : WF_vars(EpollThread(t))

-----------------------------------------------------------------------------
InCallback == {"bind", "publish", "first", "rearm", "recv",
               "unbind", "clear", "close", "pop"}

Types ==
  /\ mainPc \in {"bind", "accept", "idle"}
  /\ backlog \in 0 .. MaxBacklog
  /\ fdOpen \subseteq SessionFds
  /\ input \in [SessionFds -> {"none", "data", "eof"}]
  /\ m_socketOpertion \in [Fds -> {"null", "live", "freed"}]
  /\ m_recvQueue \in [Fds -> Seq({"armed", "done"})]
  /\ pc \in [Threads -> InCallback \cup {"wait", "lock", "next"}]
  /\ batch \in [Threads -> SUBSET Fds]
  /\ cur \in [Threads -> Fds \cup {None}]
  /\ newFd \in [Threads -> SessionFds \cup {None}]
  /\ errno \in [Threads -> {"ok", "EAGAIN", "other"}]

(* Types, and the partition of the descriptors among the threads: each of  *)
(* them is registered with one epoll descriptor, so a callback always runs *)
(* on the thread whose mutex guards its slot.                              *)
TypeOK == Types /\ \A t \in Threads : pc[t] \in InCallback => ThreadOf(cur[t]) = t

Handling(fd)   == \E t \in Threads : pc[t] \in InCallback /\ cur[t] = fd
Installing(fd) == \E t \in Threads : pc[t] \in {"bind", "publish", "first"} /\ newFd[t] = fd

(* The loop reads the slot of its descriptor again after the callback and  *)
(* pops whatever is at the front: the object there is the one whose        *)
(* request it executed, never one bound meanwhile to a descriptor that was *)
(* closed and accepted again.                                              *)
PopsOwnRequest ==
  \A t \in Threads :
    pc[t] = "pop" /\ m_socketOpertion[cur[t]] # "null" =>
      /\ m_socketOpertion[cur[t]] = "live"
      /\ m_recvQueue[cur[t]] # <<>> /\ Head(m_recvQueue[cur[t]]) = "done"

(* A bound session slot belongs to an open descriptor: nothing is closed   *)
(* while the table still sends events and calls to it.                     *)
BoundIsOpen ==
  \A fd \in SessionFds : m_socketOpertion[fd] # "null" => fd \in fdOpen

(* No connection is forgotten: an open session descriptor is in the hands  *)
(* of a thread that installs it or runs its callback, or it is bound and   *)
(* waits with exactly one armed receive.                                   *)
EveryConnectionServed ==
  \A fd \in fdOpen :
    \/ Handling(fd) \/ Installing(fd)
    \/ m_socketOpertion[fd] = "live" /\ m_recvQueue[fd] = <<"armed">>

(* The listener keeps accepting: once main has armed it there is always    *)
(* exactly one accept pending, also after accept() has failed.             *)
ListenerArmed ==
  mainPc = "idle" => \/ m_recvQueue[ListenFd] = <<"armed">>
                     \/ Handling(ListenFd)

(* Only one thread ever waits for the epollMutex of another while it holds *)
(* its own, so no two of them wait for each other.                         *)
NoCircularWait ==
  \A t, u \in Threads : pc[t] = "publish" /\ pc[u] = "publish" => t = u

(* bindSocket waits for the mutex of another thread, which may take it     *)
(* again each time it is free.  With one thread this is never the case.    *)
BindWaits == \E t \in Threads : pc[t] = "publish" /\ ThreadOf(newFd[t]) # t

(* accept() has just returned a connection.                                *)
Accepted(t) == pc[t] = "bind" /\ newFd[t] # None

(* A connection that waits leads to a new session while a descriptor is    *)
(* free, if bindSocket does not wait for ever (it could: while it waits to *)
(* publish one descriptor, others keep the thread of that one busy).  This *)
(* and the next property are about callbacks that come to an end:          *)
(* recvCallBack waits in sendAndWait without limit while its client does   *)
(* not read (module Server).                                               *)
AcceptedEventually ==
  []<>~BindWaits =>
    (backlog > 0 ~> (SessionFds \subseteq fdOpen \/ \E t \in Threads : Accepted(t)))

(* A session whose client has closed its end is closed.                    *)
EofClosesSession ==
  \A fd \in SessionFds : (fd \in fdOpen /\ input[fd] = "eof") ~> fd \notin fdOpen


=============================================================================
