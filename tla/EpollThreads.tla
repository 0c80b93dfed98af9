---------------------------- MODULE EpollThreads ----------------------------
(***************************************************************************)
(* The life of the epoll threads: CAsyncIO::create starts them one by one, *)
(* each loops in epollThreadProc until its bQuit flag is set, and destroy  *)
(* sets the flag, joins every thread and frees the array they live in.     *)
(***************************************************************************)
EXTENDS Integers

CONSTANT N  \* create is asked for 1 to N threads

ASSUME ThreadsAssumption == N \in Nat \ {0}

Threads == 0 .. N - 1

VARIABLES
  m_threadNum,  \* create's argument
  main,     \* "create", "run", "quit", "join", "done", "failed", "terminated"
  next,     \* the index of create's, then of destroy's loops
  array,    \* m_epollThread is allocated
  bQuit,    \* per thread
  epollFd,  \* per thread: its epoll descriptor is open
  loop      \* per thread: "none", "check", "wait", "batch", "exited"

vars == <<m_threadNum, main, next, array, bQuit, epollFd, loop>>

Init ==
  /\ m_threadNum \in 1 .. N
  /\ main = "create" /\ next = 0 /\ array = TRUE
  /\ bQuit = [t \in Threads |-> FALSE]
  /\ epollFd = [t \in Threads |-> FALSE]
  /\ loop = [t \in Threads |-> "none"]

(* Mutant of MoreThreads: one turn too many.                               *)
MoreThreadsTooFar == next <= m_threadNum

(* i < m_threadNum                                                         *)
MoreThreads == next < m_threadNum

(* One turn of create's loop.                                              *)
CreateThread ==
  /\ main = "create" /\ MoreThreads
  /\ epollFd' = [epollFd EXCEPT ![next] = TRUE]
  /\ loop' = [loop EXCEPT ![next] = "check"]
  /\ next' = next + 1
  /\ UNCHANGED <<m_threadNum, main, array, bQuit>>

(* epoll_create fails: the array is deleted.  Deleting a std::thread that  *)
(* runs terminates the program.                                            *)
CreateFails ==
  /\ main = "create" /\ MoreThreads
  /\ IF next = 0 THEN main' = "failed" /\ array' = FALSE
     ELSE main' = "terminated" /\ UNCHANGED array
  /\ UNCHANGED <<m_threadNum, next, bQuit, epollFd, loop>>

Created ==
  /\ main = "create" /\ next = m_threadNum
  /\ main' = "run"
  /\ UNCHANGED <<m_threadNum, next, array, bQuit, epollFd, loop>>

StartDestroy ==
  /\ main = "run"
  /\ main' = "quit" /\ next' = 0
  /\ UNCHANGED <<m_threadNum, array, bQuit, epollFd, loop>>

(* Mutant of Flagged: always the last thread.                              *)
FlaggedLast(i) == m_threadNum - 1

(* The loop runs over i but sets m_epollThread->bQuit each time.           *)
Flagged(i) == 0

SetQuit ==
  /\ main = "quit" /\ MoreThreads
  /\ bQuit' = [bQuit EXCEPT ![Flagged(next)] = TRUE]
  /\ next' = next + 1
  /\ UNCHANGED <<m_threadNum, main, array, epollFd, loop>>

AllFlagged ==
  /\ main = "quit" /\ next = m_threadNum
  /\ main' = "join" /\ next' = 0
  /\ UNCHANGED <<m_threadNum, array, bQuit, epollFd, loop>>

(* Mutant of Joined: the threads are detached.                             *)
JoinedAlways(t) == TRUE

(* thread.join() returns once the thread has ended.                        *)
Joined(t) == loop[t] = "exited"

JoinThread ==
  /\ main = "join" /\ MoreThreads
  /\ Joined(next)
  /\ epollFd' = [epollFd EXCEPT ![next] = FALSE]
  /\ next' = next + 1
  /\ UNCHANGED <<m_threadNum, main, array, bQuit, loop>>

DeleteArray ==
  /\ main = "join" /\ next = m_threadNum
  /\ array' = FALSE
  /\ main' = "done"
  /\ UNCHANGED <<m_threadNum, next, bQuit, epollFd, loop>>

-----------------------------------------------------------------------------
Move(t, from, to) ==
  /\ main # "terminated"
  /\ loop[t] = from
  /\ loop' = [loop EXCEPT ![t] = to]
  /\ UNCHANGED <<m_threadNum, main, next, array, bQuit, epollFd>>

(* epoll_wait returns within 500 ms, with events or without.               *)
CheckQuit(t) == Move(t, "check", IF bQuit[t] THEN "exited" ELSE "wait")
WaitReturns(t) == Move(t, "wait", "batch") \/ Move(t, "wait", "check")
EndBatch(t) == Move(t, "batch", "check")

EpollThreadProc(t) == CheckQuit(t) \/ WaitReturns(t) \/ EndBatch(t)

Main == CreateThread \/ Created \/ SetQuit \/ AllFlagged \/ JoinThread \/ DeleteArray

Next ==
  \/ Main \/ CreateFails \/ StartDestroy
  \/ \E t \in Threads : EpollThreadProc(t)

Spec == Init /\ [][Next]_vars

(* All threads run; callbacks end.                                         *)
FairSpec ==
  /\ Spec
  /\ WF_vars(Main)
  /\ \A t \in Threads : WF_vars(EpollThreadProc(t))

-----------------------------------------------------------------------------
TypeOK ==
  /\ m_threadNum \in 1 .. N
  /\ main \in {"create", "run", "quit", "join", "done", "failed", "terminated"}
  /\ next \in 0 .. m_threadNum
  /\ array \in BOOLEAN
  /\ bQuit \in [Threads -> BOOLEAN]
  /\ epollFd \in [Threads -> BOOLEAN]
  /\ loop \in [Threads -> {"none", "check", "wait", "batch", "exited"}]

Running(t) == loop[t] \notin {"none", "exited"}

(* A thread reads its bQuit, its epollFd and its event buffer in every     *)
(* turn: the array is there and the descriptor open as long as it runs.    *)
ThreadsKeepTheirState ==
  \A t \in Threads : Running(t) => array /\ epollFd[t]

(* destroy gets the first thread to stop, once the callbacks of the batch  *)
(* it is in have come to an end: one that waits in sendAndWait for a       *)
(* client to read is not cut off (module Server).  With one thread, as     *)
(* main creates it, this is all there is to join.                          *)
FirstThreadStops == main = "quit" ~> loop[0] = "exited"

(* Every thread has an exit flag of its own (AsyncIO.h:16), and destroy    *)
(* ends.                                                                   *)
DestroyEnds == main = "quit" ~> main = "done"

=============================================================================
