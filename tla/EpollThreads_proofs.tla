------------------------- MODULE EpollThreads_proofs -------------------------
(***************************************************************************)
(* No epoll thread outlives the state it works on, for every number of     *)
(* threads.                                                                *)
(***************************************************************************)
EXTENDS EpollThreads, TLAPS

(* How far main has got, and what that says of the threads.                *)
Progress ==
  /\ main \in {"create", "run", "quit", "join"} => array
  /\ \A t \in Threads : t >= m_threadNum => loop[t] = "none"
  /\ main = "create" => \A t \in Threads : t >= next => loop[t] = "none"
  /\ main = "join" => \A t \in Threads : t < next => loop[t] = "exited"
  /\ main \in {"done", "failed"} => \A t \in Threads : ~Running(t)

IInv == TypeOK /\ Progress /\ ThreadsKeepTheirState

(* The invariant holds initially and is kept by every step of create,      *)
(* destroy and the threads.                                                *)
LEMMA IInvInductive == Spec => []IInv
<1>1. Init => IInv
  BY ThreadsAssumption
     DEF Init, IInv, TypeOK, Progress, ThreadsKeepTheirState, Running, Threads
<1>2. IInv /\ [Next]_vars => IInv'
  <2> SUFFICES ASSUME IInv, [Next]_vars PROVE IInv'
    OBVIOUS
  <2> USE ThreadsAssumption
      DEF IInv, TypeOK, Progress, ThreadsKeepTheirState, Running, Threads
  <2>1. CASE CreateThread
    BY <2>1 DEF CreateThread, MoreThreads
  <2>2. CASE CreateFails
    <3>1. CASE next = 0
      <4>1. \A t \in Threads : loop[t] = "none"
        BY <2>2, <3>1 DEF CreateFails
      <4>. QED
        BY <2>2, <3>1, <4>1 DEF CreateFails
    <3>2. CASE next # 0
      BY <2>2, <3>2 DEF CreateFails
    <3>. QED
      BY <3>1, <3>2
  <2>3. CASE Created
    BY <2>3 DEF Created
  <2>4. CASE StartDestroy
    BY <2>4 DEF StartDestroy
  <2>5. CASE SetQuit
    BY <2>5 DEF SetQuit, MoreThreads, Flagged
  <2>6. CASE AllFlagged
    BY <2>6 DEF AllFlagged
  <2>7. CASE JoinThread
    BY <2>7 DEF JoinThread, MoreThreads, Joined
  <2>8. CASE DeleteArray
    <3>1. \A t \in Threads : ~Running(t)
      BY <2>8 DEF DeleteArray
    <3>. QED
      BY <2>8, <3>1 DEF DeleteArray
  <2>9. ASSUME NEW t \in Threads, EpollThreadProc(t) PROVE IInv'
    BY <2>9 DEF EpollThreadProc, CheckQuit, WaitReturns, EndBatch, Move
  <2>10. CASE UNCHANGED vars
    BY <2>10 DEF vars
  <2>. QED
    BY <2>1, <2>2, <2>3, <2>4, <2>5, <2>6, <2>7, <2>8, <2>9, <2>10 DEF Next, Main
<1>. QED
  BY <1>1, <1>2, PTL DEF Spec

(* The variables of create, destroy and the threads keep their ranges.     *)
THEOREM TypeCorrect == Spec => []TypeOK
BY IInvInductive, PTL DEF IInv

(* Whatever the number of threads and whenever destroy is called, a thread *)
(* that runs finds its EPOLL_THREAD allocated and its descriptor open.     *)
THEOREM ThreadsSafe == Spec => []ThreadsKeepTheirState
BY IInvInductive, PTL DEF IInv

=============================================================================
