--------------------------- MODULE SocketOperation ---------------------------
(***************************************************************************)
(* CSocketOperation: the two request queues of one socket and the epoll    *)
(* registration that is kept in step with them.                            *)
(*                                                                         *)
(* Each queue has a mutex of its own, but both sides change the same       *)
(* m_events: changeEpollOpt reads it, calls epoll_ctl and writes it back   *)
(* under whichever of the two mutexes its caller holds.  The epoll thread  *)
(* executes requests and pops them; the callers of each side push new ones.*)
(***************************************************************************)
EXTENDS Integers, FiniteSets

CONSTANTS
  Epoll,        \* the epoll thread of the socket
  Threads,      \* all threads that use the socket
  AnyCallers,   \* its two sides are used from any threads
  MaxQueue,     \* MAX_RECV_QUEUE; for sends, the bound that stands for m_mallocSize
  None          \* no thread

Sides == {"IN", "OUT"}
ASSUME SocketAssumption ==
  /\ Epoll \in Threads /\ None \notin Threads /\ IsFiniteSet(Threads)
  /\ AnyCallers \in BOOLEAN
  /\ MaxQueue \in Nat \ {0}

VARIABLES
  callers,   \* per side: the threads that push to it; never changes
  m_events,  \* subset of {"HUP", "IN", "OUT"}; {} is 0
  kernel,    \* what epoll watches the descriptor for
  queued,    \* per side: requests in the queue
  owner,     \* per side: the thread that holds its mutex, or None
  step,      \* per thread: where its push or pop is
  arg,       \* per thread: [side, mask, ctl] of its changeEpollOpt
  loop,      \* the epoll thread: "wait", "front", "callback", "pop", "gone"
  event      \* the side of the event it handles

vars == <<callers, m_events, kernel, queued, owner, step, arg, loop, event>>

Unregistered == {"NONE"}
Bit(side) == {side}
Steps == {"idle", "lock", "pushctl", "popctl", "pushstore", "popstore"}

(* The way the program uses a socket: everything on the epoll thread, or   *)
(* one of the two sides only.                                              *)
SingleWriter ==
  \/ callers["IN"] \cup callers["OUT"] \subseteq {Epoll}
  \/ callers["IN"] = {} \/ callers["OUT"] = {}

(* The constructor has registered the descriptor, and whoever bound it may *)
(* have pushed its first receive, as acceptCallBack and main do.           *)
Init ==
  /\ callers \in [Sides -> SUBSET Threads]
  /\ AnyCallers \/ SingleWriter
  /\ \/ queued = [s \in Sides |-> 0] /\ m_events = {"HUP"}
     \/ callers["IN"] # {} /\ queued = [IN |-> 1, OUT |-> 0] /\ m_events = {"HUP", "IN"}
  /\ kernel = m_events
  /\ owner = [s \in Sides |-> None]
  /\ step = [t \in Threads |-> "idle"]
  /\ arg = [t \in Threads |-> [side |-> "IN", mask |-> {}, ctl |-> "MOD"]]
  /\ loop = "wait" /\ event = "IN"

Lock(t, s)   == owner[s] = None /\ owner' = [owner EXCEPT ![s] = t]
Go(t, label) == step' = [step EXCEPT ![t] = label]
Prepare(t, s, mask, ctl) ==
  arg' = [arg EXCEPT ![t] = [side |-> s, mask |-> mask, ctl |-> ctl]]

-----------------------------------------------------------------------------
(* Mutant of HasRoom: the limit is off by one.                             *)
HasRoomLate(s) == queued[s] <= MaxQueue

HasRoom(s) == queued[s] < MaxQueue

(* The size check of a push, made before its mutex is taken.  The epoll    *)
(* thread pushes from its callbacks.                                       *)
CheckPush(t, s) ==
  /\ t \in callers[s] /\ step[t] = "idle" /\ loop # "gone"
  /\ t = Epoll => loop = "callback"
  /\ HasRoom(s)
  /\ Go(t, "lock")
  /\ Prepare(t, s, {}, "MOD")
  /\ UNCHANGED <<callers, m_events, kernel, queued, owner, loop, event>>

(* Into a queue with requests: nothing to register.                        *)
PushBehind(t) ==
  LET s == arg[t].side IN
  /\ step[t] = "lock"
  /\ owner[s] = None
  /\ queued[s] > 0
  /\ queued' = [queued EXCEPT ![s] = @ + 1]
  /\ Go(t, "idle")
  /\ UNCHANGED <<callers, m_events, kernel, owner, arg, loop, event>>

(* Mutant of AddCtl: always EPOLL_CTL_ADD.                                 *)
AddCtlAdds == "ADD"

AddCtl == IF m_events = {} THEN "ADD" ELSE "MOD"

(* Into an empty queue: ADDREAD or ADDWRITE, with the mask from m_events.  *)
PushFirst(t) ==
  LET s == arg[t].side IN
  /\ step[t] = "lock"
  /\ queued[s] = 0
  /\ Lock(t, s)
  /\ Prepare(t, s, m_events \cup Bit(s), AddCtl)
  /\ Go(t, "pushctl")
  /\ UNCHANGED <<callers, m_events, kernel, queued, loop, event>>

(* Mutants: popped by the callback and again by the loop; the interest is  *)
(* kept; the interest of the other side goes too.                          *)
PoppedTwice(s)  == queued[s] - 2
ClearedNone(s)  == m_events
ClearedBoth(s)  == m_events \ Sides

Popped(s)  == queued[s] - 1
Cleared(s) == m_events \ Bit(s)

(* popRecvRequest and popSendRequest: the last one out clears the interest.*)
Pop ==
  /\ loop = "pop" /\ step[Epoll] = "idle"
  /\ queued' = [queued EXCEPT ![event] = Popped(event)]
  /\ IF queued[event] = 1
     THEN /\ Lock(Epoll, event)
          /\ Prepare(Epoll, event, Cleared(event), "MOD")
          /\ Go(Epoll, "popctl")
     ELSE owner[event] = None /\ UNCHANGED <<owner, arg, step>>
  /\ loop' = "wait"
  /\ UNCHANGED <<callers, m_events, kernel, event>>

(* epoll_ctl: EPOLL_CTL_ADD fails on a registered descriptor, EPOLL_CTL_MOD*)
(* on one that is not, and a failure leaves m_events alone.                *)
Applies(ctl) == (ctl = "ADD") <=> (kernel = Unregistered)

EpollCtl(t) ==
  /\ step[t] \in {"pushctl", "popctl"}
  /\ IF Applies(arg[t].ctl)
     THEN kernel' = arg[t].mask /\ UNCHANGED arg
     ELSE Prepare(t, arg[t].side, m_events, arg[t].ctl) /\ UNCHANGED kernel
  /\ Go(t, IF step[t] = "pushctl" THEN "pushstore" ELSE "popstore")
  /\ UNCHANGED <<callers, m_events, queued, owner, loop, event>>

StoreEvents(t) ==
  LET s == arg[t].side IN
  /\ step[t] \in {"pushstore", "popstore"}
  /\ m_events' = arg[t].mask
  /\ queued' = IF step[t] = "pushstore" THEN [queued EXCEPT ![s] = @ + 1] ELSE queued
  /\ owner' = [owner EXCEPT ![s] = None]
  /\ Go(t, "idle")
  /\ UNCHANGED <<callers, kernel, arg, loop, event>>

-----------------------------------------------------------------------------
(* epollThreadProc for this socket: an event, its front request, the I/O   *)
(* and the callback, the pop.                                              *)
TakeEvent(s) ==
  /\ loop = "wait" /\ step[Epoll] = "idle"
  /\ s \in kernel
  /\ event' = s /\ loop' = "front"
  /\ UNCHANGED <<callers, m_events, kernel, queued, owner, step, arg>>

Front ==
  /\ loop = "front"
  /\ owner[event] = None
  /\ loop' = IF queued[event] = 0 THEN "wait" ELSE "callback"
  /\ UNCHANGED <<callers, m_events, kernel, queued, owner, step, arg, event>>

EndCallback ==
  /\ loop = "callback" /\ step[Epoll] = "idle"
  /\ loop' = "pop"
  /\ UNCHANGED <<callers, m_events, kernel, queued, owner, step, arg, event>>

(* The callback unbinds the socket: the destructor drops both queues and   *)
(* removes the descriptor.  No other thread is using it.                   *)
Destroy ==
  /\ loop = "callback"
  /\ \A t \in Threads : step[t] = "idle"
  /\ queued' = [s \in Sides |-> 0]
  /\ m_events' = {} /\ kernel' = Unregistered
  /\ loop' = "gone"
  /\ UNCHANGED <<callers, owner, step, arg, event>>

Operation(t) == PushBehind(t) \/ PushFirst(t) \/ EpollCtl(t) \/ StoreEvents(t)
Loop == Front \/ EndCallback \/ Pop

Next ==
  \/ \E t \in Threads, s \in Sides : CheckPush(t, s)
  \/ \E t \in Threads : Operation(t)
  \/ \E s \in Sides : TakeEvent(s)
  \/ Loop \/ Destroy

Spec == Init /\ [][Next]_vars

(* Threads run; a socket that stays registered for a side is ready for it  *)
(* again and again, and epoll reports both sides.  Nobody need push, but a *)
(* callback ends.                                                          *)
FairSpec ==
  /\ Spec
  /\ WF_vars(Loop)
  /\ \A t \in Threads : WF_vars(Operation(t))
  /\ \A s \in Sides : SF_vars(TakeEvent(s))

-----------------------------------------------------------------------------
Masks == SUBSET {"HUP", "IN", "OUT"}

TypeOK ==
  /\ callers \in [Sides -> SUBSET Threads]
  /\ m_events \in Masks
  /\ kernel \in Masks \cup {Unregistered}
  /\ queued \in [Sides -> Nat]
  /\ owner \in [Sides -> Threads \cup {None}]
  /\ step \in [Threads -> Steps]
  /\ arg \in [Threads -> [side : Sides, mask : Masks, ctl : {"ADD", "MOD"}]]
  /\ loop \in {"wait", "front", "callback", "pop", "gone"}
  /\ event \in Sides

(* While nobody is changing a side, epoll watches the socket for it        *)
(* exactly when its queue has requests: with less a request is stuck, with *)
(* more the level-triggered loop spins.                                    *)
InterestFollowsQueue ==
  \A s \in Sides : owner[s] = None => (s \in kernel <=> queued[s] > 0)

(* m_events is what the kernel has, so the next ADD or MOD is the right    *)
(* one and no epoll_ctl of a push or a pop fails.                          *)
EventsMirrorKernel ==
  /\ \A t \in Threads : step[t] \in {"pushctl", "popctl"} => Applies(arg[t].ctl)
  /\ (\A s \in Sides : owner[s] = None) /\ loop # "gone" => m_events = kernel

(* The size of a queue is checked without its mutex: all callers can be    *)
(* past the check when the last place is taken, and no more.               *)
QueueBounded ==
  \A s \in Sides :
    callers[s] # {} => queued[s] <= MaxQueue - 1 + Cardinality(callers[s])

(* Every queued request is executed, unless the socket is unbound.         *)
Waiting(s) ==
  queued[s] > (IF loop \in {"callback", "pop"} /\ event = s THEN 1 ELSE 0)

EveryRequestExecuted ==
  \A s \in Sides : Waiting(s) ~> ((loop = "callback" /\ event = s) \/ loop = "gone")

=============================================================================
