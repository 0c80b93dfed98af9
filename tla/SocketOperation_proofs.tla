----------------------- MODULE SocketOperation_proofs ------------------------
(***************************************************************************)
(* The two queues of a socket and its epoll registration agree, for every  *)
(* number of threads and every limit, as long as the socket is used the    *)
(* way the program uses it; the bound on the queues holds for any use.     *)
(***************************************************************************)
EXTENDS SocketOperation, FiniteSetTheorems, TLAPS

(* Steps of a push, and steps under a mutex.                               *)
PushSteps == {"lock", "pushctl", "pushstore"}
BusySteps == {"pushctl", "popctl", "pushstore", "popstore"}

Busy(t) == step[t] \in BusySteps
Pushing(s) == {t \in Threads : step[t] \in PushSteps /\ arg[t].side = s}

(* Pushes are made by the callers of a side, pops by the epoll thread.     *)
PushersAreCallers ==
  /\ \A t \in Threads : step[t] \in PushSteps => t \in callers[arg[t].side]
  /\ \A t \in Threads : step[t] \in {"popctl", "popstore"} => t = Epoll

(* The request that is executed stays in its queue until it is popped.     *)
ExecutedIsQueued ==
  /\ loop \in {"callback", "pop"} => queued[event] > 0
  /\ loop = "pop" => step[Epoll] = "idle"

(* Every push past its check has its place.                                *)
PlacesTaken ==
  \A s \in Sides :
    callers[s] # {} =>
      queued[s] + Cardinality(Pushing(s)) <= MaxQueue - 1 + Cardinality(callers[s])

(* Only what is pushed is in a queue; the constructor's caller pushes too. *)
OnlyCallersPush == \A s \in Sides : callers[s] = {} => queued[s] = 0

BaseInv ==
  TypeOK /\ PushersAreCallers /\ ExecutedIsQueued /\ PlacesTaken /\ OnlyCallersPush

-----------------------------------------------------------------------------
(* The pushes of a side are at most its callers.                           *)
LEMMA PushingFinite ==
  ASSUME BaseInv, NEW s \in Sides
  PROVE  /\ IsFiniteSet(Pushing(s)) /\ Cardinality(Pushing(s)) \in Nat
         /\ IsFiniteSet(callers[s]) /\ Cardinality(callers[s]) \in Nat
         /\ Pushing(s) \subseteq callers[s]
<1>1. Pushing(s) \subseteq callers[s] /\ callers[s] \subseteq Threads
  BY DEF BaseInv, TypeOK, PushersAreCallers, Pushing
<1>2. IsFiniteSet(callers[s]) /\ IsFiniteSet(Pushing(s))
  BY <1>1, SocketAssumption, FS_Subset
<1>. QED
  BY <1>1, <1>2, FS_CardinalityType

(* A step that starts no push and queues nothing takes no place.           *)
LEMMA PlacesKept ==
  ASSUME BaseInv, UNCHANGED callers, queued' \in [Sides -> Nat],
         \A s \in Sides : queued'[s] <= queued[s] /\ Pushing(s)' = Pushing(s)
  PROVE  PlacesTaken'
<1> SUFFICES ASSUME NEW s \in Sides, callers[s] # {}
             PROVE  queued'[s] + Cardinality(Pushing(s)') <= MaxQueue - 1 + Cardinality(callers[s])
  BY DEF PlacesTaken
<1>. QED
  BY PushingFinite, SocketAssumption DEF BaseInv, TypeOK, PlacesTaken

(* A push that ends gives its place to its request.                        *)
LEMMA PlaceFilled ==
  ASSUME BaseInv, NEW t \in Threads, step[t] \in PushSteps, UNCHANGED <<callers, arg>>,
         step' = [step EXCEPT ![t] = "idle"],
         queued' = [queued EXCEPT ![arg[t].side] = @ + 1]
  PROVE  PlacesTaken'
<1> SUFFICES ASSUME NEW s \in Sides, callers[s] # {}
             PROVE  queued'[s] + Cardinality(Pushing(s)') <= MaxQueue - 1 + Cardinality(callers[s])
  BY DEF PlacesTaken
<1>1. arg[t].side \in Sides
  BY DEF BaseInv, TypeOK
<1>2. CASE s = arg[t].side
  <2>1. Pushing(s)' = Pushing(s) \ {t} /\ t \in Pushing(s)
    BY <1>2 DEF Pushing, PushSteps, BaseInv, TypeOK
  <2>2. Cardinality(Pushing(s)') = Cardinality(Pushing(s)) - 1
    BY <2>1, PushingFinite, FS_RemoveElement
  <2>3. queued'[s] = queued[s] + 1
    BY <1>1, <1>2 DEF BaseInv, TypeOK
  <2>. QED
    BY <2>2, <2>3, PushingFinite, SocketAssumption DEF BaseInv, TypeOK, PlacesTaken
<1>3. CASE s # arg[t].side
  <2>1. Pushing(s)' = Pushing(s) /\ queued'[s] = queued[s]
    BY <1>1, <1>3 DEF Pushing, PushSteps, BaseInv, TypeOK
  <2>. QED
    BY <2>1 DEF BaseInv, PlacesTaken
<1>. QED
  BY <1>2, <1>3

(* The size check finds at most MaxQueue - 1 requests and the pushes of    *)
(* the other callers.                                                      *)
LEMMA CheckPushBase ==
  ASSUME BaseInv, NEW t \in Threads, NEW s \in Sides, CheckPush(t, s)
  PROVE  BaseInv'
<1>1. TypeOK'
  BY DEF CheckPush, Go, Prepare, BaseInv, TypeOK, Steps, Masks
<1>2. /\ step[t] = "idle" /\ step' = [step EXCEPT ![t] = "lock"]
      /\ arg' = [arg EXCEPT ![t] = [side |-> s, mask |-> {}, ctl |-> "MOD"]]
      /\ t \in callers[s] /\ queued[s] < MaxQueue
      /\ loop # "pop" \/ t # Epoll
      /\ UNCHANGED <<callers, queued, loop, event>>
  BY DEF CheckPush, Go, Prepare, HasRoom
<1>3. PushersAreCallers'
  BY <1>2 DEF BaseInv, TypeOK, PushersAreCallers, PushSteps
<1>4. ExecutedIsQueued' /\ OnlyCallersPush'
  BY <1>2, SocketAssumption DEF BaseInv, TypeOK, ExecutedIsQueued, OnlyCallersPush
<1>5. ASSUME NEW r \in Sides, callers[r] # {}
      PROVE  queued[r] + Cardinality(Pushing(r)') <= MaxQueue - 1 + Cardinality(callers[r])
  <2>1. CASE r = s
    <3>1. Pushing(s)' = Pushing(s) \cup {t} /\ t \notin Pushing(s)
      BY <1>2 DEF Pushing, PushSteps, BaseInv, TypeOK
    <3>2. Pushing(s)' \subseteq callers[s]
      BY <1>2, <3>1, PushingFinite
    <3>3. Cardinality(Pushing(s)') <= Cardinality(callers[s]) /\ Cardinality(Pushing(s)') \in Nat
      BY <3>2, PushingFinite, FS_Subset, FS_CardinalityType
    <3>. QED
      BY <1>2, <2>1, <3>3, PushingFinite, SocketAssumption DEF BaseInv, TypeOK
  <2>2. CASE r # s
    <3>1. Pushing(r)' = Pushing(r)
      BY <1>2, <2>2 DEF Pushing, PushSteps, BaseInv, TypeOK
    <3>. QED
      BY <1>5, <3>1 DEF BaseInv, PlacesTaken
  <2>. QED
    BY <2>1, <2>2
<1>6. PlacesTaken'
  BY <1>2, <1>5 DEF PlacesTaken
<1>. QED
  BY <1>1, <1>3, <1>4, <1>6 DEF BaseInv

(* A push into a queue with requests.                                      *)
LEMMA PushBehindBase == ASSUME BaseInv, NEW t \in Threads, PushBehind(t) PROVE BaseInv'
<1>. USE DEF BaseInv
<1>1. /\ step[t] = "lock" /\ step' = [step EXCEPT ![t] = "idle"]
      /\ queued' = [queued EXCEPT ![arg[t].side] = @ + 1]
      /\ UNCHANGED <<callers, m_events, kernel, owner, arg, loop, event>>
  BY DEF PushBehind, Go
<1>2. arg[t].side \in Sides /\ t \in callers[arg[t].side]
  BY <1>1 DEF TypeOK, PushersAreCallers, PushSteps
<1>3. TypeOK' /\ PushersAreCallers'
  BY <1>1, <1>2 DEF TypeOK, PushersAreCallers, PushSteps, Steps
<1>4. ExecutedIsQueued' /\ OnlyCallersPush'
  BY <1>1, <1>2 DEF TypeOK, ExecutedIsQueued, OnlyCallersPush
<1>5. PlacesTaken'
  BY <1>1, PlaceFilled DEF PushSteps
<1>. QED
  BY <1>3, <1>4, <1>5

(* A push into an empty queue.                                             *)
LEMMA PushFirstBase == ASSUME BaseInv, NEW t \in Threads, PushFirst(t) PROVE BaseInv'
<1>. USE DEF BaseInv
<1>1. arg[t].side \in Sides /\ arg[t].mask \in Masks
  BY DEF TypeOK
<1>2. /\ step[t] = "lock" /\ step' = [step EXCEPT ![t] = "pushctl"]
      /\ arg' = [arg EXCEPT ![t] = [side |-> arg[t].side,
                                    mask |-> m_events \cup Bit(arg[t].side), ctl |-> AddCtl]]
      /\ owner' = [owner EXCEPT ![arg[t].side] = t]
      /\ UNCHANGED <<callers, m_events, kernel, queued, loop, event>>
  BY DEF PushFirst, Go, Prepare, Lock
<1>3. m_events \cup Bit(arg[t].side) \in Masks /\ AddCtl \in {"ADD", "MOD"}
  BY <1>1 DEF TypeOK, Masks, Bit, Sides, AddCtl
<1>4. TypeOK'
  BY <1>1, <1>2, <1>3 DEF TypeOK, Steps
<1>5. PushersAreCallers' /\ ExecutedIsQueued' /\ OnlyCallersPush'
  BY <1>1, <1>2 DEF TypeOK, PushersAreCallers, PushSteps, ExecutedIsQueued, OnlyCallersPush
<1>6. \A s \in Sides : Pushing(s)' = Pushing(s)
  BY <1>1, <1>2 DEF TypeOK, Pushing, PushSteps
<1>7. PlacesTaken'
  BY <1>2, <1>6, PlacesKept DEF TypeOK
<1>. QED
  BY <1>4, <1>5, <1>7

(* epoll_ctl, whether it succeeds or not.                                  *)
LEMMA EpollCtlBase == ASSUME BaseInv, NEW t \in Threads, EpollCtl(t) PROVE BaseInv'
<1>. USE DEF BaseInv
<1>1. arg[t] \in [side : Sides, mask : Masks, ctl : {"ADD", "MOD"}]
  BY DEF TypeOK
<1>2. /\ step[t] \in {"pushctl", "popctl"}
      /\ step' = [step EXCEPT ![t] = IF step[t] = "pushctl" THEN "pushstore" ELSE "popstore"]
      /\ UNCHANGED <<callers, m_events, queued, owner, loop, event>>
  BY DEF EpollCtl, Go
<1>3. /\ kernel' \in Masks \cup {Unregistered}
      /\ arg' \in [Threads -> [side : Sides, mask : Masks, ctl : {"ADD", "MOD"}]]
      /\ \A u \in Threads : arg'[u].side = arg[u].side
  <2>1. CASE Applies(arg[t].ctl)
    <3>1. kernel' = arg[t].mask /\ arg' = arg
      BY <2>1 DEF EpollCtl
    <3>2. kernel' \in Masks
      BY <1>1, <3>1
    <3>3. arg' \in [Threads -> [side : Sides, mask : Masks, ctl : {"ADD", "MOD"}]]
      BY <3>1 DEF TypeOK
    <3>. QED
      BY <3>1, <3>2, <3>3
  <2>2. CASE ~Applies(arg[t].ctl)
    <3>1. /\ UNCHANGED kernel
          /\ arg' = [arg EXCEPT ![t] = [side |-> arg[t].side, mask |-> m_events, ctl |-> arg[t].ctl]]
      BY <2>2 DEF EpollCtl, Prepare
    <3>2. [side |-> arg[t].side, mask |-> m_events, ctl |-> arg[t].ctl]
            \in [side : Sides, mask : Masks, ctl : {"ADD", "MOD"}]
      BY <1>1 DEF TypeOK
    <3>3. \A u \in Threads : arg'[u].side = arg[u].side
      BY <3>1 DEF TypeOK
    <3>. QED
      BY <3>1, <3>2, <3>3 DEF TypeOK
  <2>. QED
    BY <2>1, <2>2
<1>4. TypeOK'
  BY <1>2, <1>3 DEF TypeOK, Steps
<1>5. PushersAreCallers' /\ ExecutedIsQueued' /\ OnlyCallersPush'
  BY <1>2, <1>3 DEF TypeOK, PushersAreCallers, PushSteps, ExecutedIsQueued, OnlyCallersPush
<1>6. \A s \in Sides : Pushing(s)' = Pushing(s)
  BY <1>2, <1>3 DEF TypeOK, Pushing, PushSteps
<1>7. PlacesTaken'
  BY <1>2, <1>6, PlacesKept DEF TypeOK
<1>. QED
  BY <1>4, <1>5, <1>7

(* The end of a push, which queues its request, or of a pop.               *)
LEMMA StoreEventsBase == ASSUME BaseInv, NEW t \in Threads, StoreEvents(t) PROVE BaseInv'
<1>. USE DEF BaseInv
<1>1. /\ arg[t].side \in Sides /\ arg[t].mask \in Masks
      /\ step[t] \in {"pushstore", "popstore"}
      /\ m_events' = arg[t].mask
      /\ step' = [step EXCEPT ![t] = "idle"]
      /\ owner' = [owner EXCEPT ![arg[t].side] = None]
      /\ UNCHANGED <<callers, kernel, arg, loop, event>>
  BY DEF StoreEvents, Go, TypeOK
<1>2. CASE step[t] = "pushstore"
  <2>1. queued' = [queued EXCEPT ![arg[t].side] = @ + 1] /\ t \in callers[arg[t].side]
    BY <1>2 DEF StoreEvents, PushersAreCallers, PushSteps
  <2>2. TypeOK' /\ PushersAreCallers' /\ ExecutedIsQueued' /\ OnlyCallersPush'
    BY <1>1, <2>1 DEF TypeOK, PushersAreCallers, PushSteps, Steps, ExecutedIsQueued, OnlyCallersPush
  <2>3. PlacesTaken'
    BY <1>1, <1>2, <2>1, PlaceFilled DEF PushSteps
  <2>. QED
    BY <2>2, <2>3
<1>3. CASE step[t] = "popstore"
  <2>1. queued' = queued
    BY <1>3 DEF StoreEvents
  <2>2. TypeOK' /\ PushersAreCallers' /\ ExecutedIsQueued' /\ OnlyCallersPush'
    BY <1>1, <2>1 DEF TypeOK, PushersAreCallers, PushSteps, Steps, ExecutedIsQueued, OnlyCallersPush
  <2>3. \A s \in Sides : Pushing(s)' = Pushing(s)
    BY <1>1, <1>3 DEF TypeOK, Pushing, PushSteps
  <2>4. PlacesTaken'
    BY <1>1, <2>1, <2>3, PlacesKept DEF TypeOK
  <2>. QED
    BY <2>2, <2>4
<1>. QED
  BY <1>1, <1>2, <1>3

(* The pop of the executed request.                                        *)
LEMMA PopBase == ASSUME BaseInv, Pop PROVE BaseInv'
<1>. USE SocketAssumption DEF BaseInv
<1>1. /\ loop = "pop" /\ loop' = "wait" /\ step[Epoll] = "idle" /\ queued[event] > 0
      /\ queued' = [queued EXCEPT ![event] = queued[event] - 1]
      /\ UNCHANGED <<callers, m_events, kernel, event>>
  BY DEF Pop, Popped, ExecutedIsQueued
<1>2. /\ step' \in [Threads -> Steps] /\ owner' \in [Sides -> Threads \cup {None}]
      /\ arg' \in [Threads -> [side : Sides, mask : Masks, ctl : {"ADD", "MOD"}]]
      /\ \A u \in Threads : u # Epoll => step'[u] = step[u] /\ arg'[u] = arg[u]
      /\ step'[Epoll] \in {"idle", "popctl"}
  <2>1. CASE queued[event] = 1
    <3>1. Cleared(event) \in Masks
      BY DEF TypeOK, Masks, Cleared, Bit
    <3>. QED
      BY SMTT(30), <1>1, <2>1, <3>1 DEF Pop, Lock, Prepare, Go, TypeOK, Steps
  <2>2. CASE queued[event] # 1
    BY <1>1, <2>2 DEF Pop, TypeOK
  <2>. QED
    BY <2>1, <2>2
<1>3. TypeOK' /\ ExecutedIsQueued' /\ OnlyCallersPush'
  <2>1. queued' \in [Sides -> Nat] /\ event \in Sides
    BY <1>1 DEF TypeOK
  <2>2. TypeOK'
    BY <1>1, <1>2, <2>1 DEF TypeOK
  <2>3. OnlyCallersPush'
    BY <1>1, <2>1 DEF TypeOK, OnlyCallersPush
  <2>. QED
    BY <1>1, <2>2, <2>3 DEF ExecutedIsQueued
<1>4. PushersAreCallers'
  BY <1>1, <1>2 DEF PushersAreCallers, PushSteps
<1>5. \A s \in Sides : queued'[s] <= queued[s] /\ Pushing(s)' = Pushing(s)
  BY <1>1, <1>2 DEF TypeOK, Pushing, PushSteps
<1>6. PlacesTaken'
  BY <1>1, <1>3, <1>5, PlacesKept DEF TypeOK
<1>. QED
  BY <1>3, <1>4, <1>6

(* The loop between an event and the end of its callback, and the          *)
(* destructor.                                                             *)
LEMMA LoopBase ==
  ASSUME BaseInv, (\E s \in Sides : TakeEvent(s)) \/ Front \/ EndCallback \/ Destroy
  PROVE  BaseInv'
<1>. USE SocketAssumption DEF BaseInv
<1>1. UNCHANGED <<callers, owner, step, arg>> /\ TypeOK'
  <2>1. CASE Destroy
    BY <2>1 DEF Destroy, TypeOK, Masks
  <2>2. CASE Front
    BY <2>2 DEF Front, TypeOK
  <2>3. CASE EndCallback
    BY <2>3 DEF EndCallback, TypeOK
  <2>4. CASE \E s \in Sides : TakeEvent(s)
    BY <2>4 DEF TakeEvent, TypeOK
  <2>. QED
    BY <2>1, <2>2, <2>3, <2>4
<1>2. PushersAreCallers' /\ ExecutedIsQueued' /\ OnlyCallersPush'
  BY DEF TakeEvent, Front, EndCallback, Destroy, TypeOK, PushersAreCallers,
         ExecutedIsQueued, OnlyCallersPush
<1>3. \A s \in Sides : queued'[s] <= queued[s] /\ Pushing(s)' = Pushing(s)
  BY <1>1 DEF TakeEvent, Front, EndCallback, Destroy, TypeOK, Pushing
<1>4. PlacesTaken'
  BY <1>1, <1>3, PlacesKept DEF TypeOK
<1>. QED
  BY <1>1, <1>2, <1>4

(* Nobody has passed a size check when the socket is created.              *)
LEMMA InitBase == Init => BaseInv
<1> SUFFICES ASSUME Init PROVE BaseInv
  OBVIOUS
<1>1. TypeOK
  BY SocketAssumption DEF Init, TypeOK, Masks, Steps, Sides
<1>2. PushersAreCallers /\ ExecutedIsQueued /\ OnlyCallersPush
  BY DEF Init, PushersAreCallers, ExecutedIsQueued, OnlyCallersPush, PushSteps, Sides
<1>3. ASSUME NEW s \in Sides, callers[s] # {}
      PROVE  queued[s] + Cardinality(Pushing(s)) <= MaxQueue - 1 + Cardinality(callers[s])
  <2>1. Cardinality(Pushing(s)) = 0
    <3>1. Pushing(s) = {}
      BY DEF Init, Pushing, PushSteps
    <3>. QED
      BY <3>1, FS_EmptySet
  <2>2. Cardinality(callers[s]) \in Nat /\ Cardinality(callers[s]) # 0
    <3>1. IsFiniteSet(callers[s])
      BY <1>1, SocketAssumption, FS_Subset DEF TypeOK
    <3>. QED
      BY <1>3, <3>1, FS_CardinalityType, FS_EmptySet
  <2>3. queued[s] \in 0 .. 1
    BY DEF Init, Sides
  <2>. QED
    BY <2>1, <2>2, <2>3, SocketAssumption
<1>. QED
  BY <1>1, <1>2, <1>3 DEF BaseInv, PlacesTaken

(* Any threads may use both sides here.                                    *)
LEMMA BaseInductive == Spec => []BaseInv
<1>1. BaseInv /\ [Next]_vars => BaseInv'
  <2> SUFFICES ASSUME BaseInv, [Next]_vars PROVE BaseInv'
    OBVIOUS
  <2>1. ASSUME NEW t \in Threads, NEW s \in Sides, CheckPush(t, s) PROVE BaseInv'
    BY <2>1, CheckPushBase
  <2>2. ASSUME NEW t \in Threads, Operation(t) PROVE BaseInv'
    BY <2>2, PushBehindBase, PushFirstBase, EpollCtlBase, StoreEventsBase DEF Operation
  <2>3. CASE (\E s \in Sides : TakeEvent(s)) \/ Loop \/ Destroy
    BY <2>3, LoopBase, PopBase DEF Loop
  <2>4. CASE UNCHANGED vars
    BY <2>4 DEF vars, BaseInv, TypeOK, PushersAreCallers, ExecutedIsQueued, PlacesTaken,
                OnlyCallersPush, Pushing
  <2>. QED
    BY <2>1, <2>2, <2>3, <2>4 DEF Next
<1>. QED
  BY <1>1, InitBase, PTL DEF Spec

(* The registration, the queues and the steps of all threads keep their    *)
(* ranges, whoever uses the socket.                                        *)
THEOREM TypeCorrect == Spec => []TypeOK
BY BaseInductive, PTL DEF BaseInv

(* However many threads are past the unlocked size check, a queue exceeds  *)
(* its limit by less than their number.                                    *)
THEOREM LimitNearlyKept == Spec => []QueueBounded
<1>1. BaseInv => QueueBounded
  <2> SUFFICES ASSUME BaseInv, NEW s \in Sides, callers[s] # {}
               PROVE  queued[s] <= MaxQueue - 1 + Cardinality(callers[s])
    BY DEF QueueBounded
  <2>. QED
    BY PushingFinite, SocketAssumption DEF BaseInv, TypeOK, PlacesTaken
<1>. QED
  BY <1>1, BaseInductive, PTL

-----------------------------------------------------------------------------
(* The owner of a mutex is the thread in one of its steps, and only one    *)
(* thread of the socket is.                                                *)
OwnerIsBusy ==
  /\ \A t \in Threads : Busy(t) => owner[arg[t].side] = t
  /\ \A s \in Sides : owner[s] # None => Busy(owner[s]) /\ arg[owner[s]].side = s

OneBusy == \A t, u \in Threads : Busy(t) /\ Busy(u) => t = u

Follows(mask, s) == s \in mask <=> queued[s] > 0

AtRest == m_events = kernel /\ \A s \in Sides : Follows(kernel, s)

(* A change under way: the queue of its side is empty, or will be once the *)
(* push has stored its request.                                            *)
InChange(t) ==
  LET s == arg[t].side IN
  /\ queued[s] = 0 /\ callers[s] # {}
  /\ \A r \in Sides \ {s} : Follows(kernel, r)
  /\ "HUP" \in arg[t].mask /\ arg[t].ctl = "MOD"
  /\ step[t] = "pushctl" => m_events = kernel /\ arg[t].mask = kernel \cup {s}
  /\ step[t] = "popctl"  => m_events = kernel /\ arg[t].mask = kernel \ {s}
  /\ step[t] = "pushstore" => kernel = arg[t].mask /\ s \in kernel
  /\ step[t] = "popstore"  => kernel = arg[t].mask /\ s \notin kernel

Registration ==
  IF loop = "gone"
  THEN /\ \A t \in Threads : step[t] = "idle"
       /\ m_events = {} /\ kernel = Unregistered /\ queued = [s \in Sides |-> 0]
  ELSE /\ kernel # Unregistered /\ "HUP" \in m_events
       /\ \A t \in Threads : Busy(t) => InChange(t)
       /\ (\A t \in Threads : ~Busy(t)) => AtRest

IInv == BaseInv /\ OwnerIsBusy /\ OneBusy /\ Registration /\ SingleWriter

-----------------------------------------------------------------------------
(* A thread that wants the mutex of a side finds it held by the thread     *)
(* that is in a step, if there is one: either both are the epoll thread,   *)
(* or only this side is used.                                              *)
LEMMA MutexOfTheBusy ==
  ASSUME IInv, NEW t \in Threads, NEW u \in Threads, NEW s \in Sides,
         Busy(u), ~Busy(t), callers[s] # {}, t \in callers[s] \/ t = Epoll
  PROVE  owner[s] = u
<1>1. /\ arg[u].side \in Sides /\ owner[arg[u].side] = u
      /\ u \in callers[arg[u].side] \/ u = Epoll
  BY DEF IInv, BaseInv, TypeOK, OwnerIsBusy, PushersAreCallers, PushSteps, Busy, BusySteps
<1>2. callers[arg[u].side] # {}
  BY DEF IInv, Registration, InChange, Busy, BusySteps
<1>3. t # u
  OBVIOUS
<1>4. CASE callers["IN"] \cup callers["OUT"] \subseteq {Epoll}
  BY <1>1, <1>3, <1>4 DEF Sides
<1>5. CASE callers["IN"] = {} \/ callers["OUT"] = {}
  BY <1>1, <1>2, <1>5 DEF Sides
<1>. QED
  BY <1>4, <1>5 DEF IInv, SingleWriter

(* Steps that leave the registration, the mutexes and the threads in them  *)
(* alone, and empty or fill no queue.                                      *)
LEMMA QuietStep ==
  ASSUME IInv, BaseInv', loop # "gone", loop' # "gone",
         UNCHANGED <<callers, m_events, kernel, owner>>,
         \A s \in Sides : queued'[s] > 0 <=> queued[s] > 0,
         \A t \in Threads : Busy(t)' <=> Busy(t),
         \A t \in Threads : Busy(t) => step'[t] = step[t] /\ arg'[t] = arg[t]
  PROVE  IInv'
<1>1. \A s \in Sides : queued[s] \in Nat /\ queued'[s] \in Nat
  BY DEF IInv, BaseInv, TypeOK
<1>2. OwnerIsBusy'
  <2>1. ASSUME NEW s \in Sides, owner[s] # None PROVE owner[s] \in Threads
    BY <2>1 DEF IInv, BaseInv, TypeOK
  <2>. QED
    BY <2>1 DEF IInv, OwnerIsBusy
<1>3. OneBusy' /\ SingleWriter'
  BY DEF IInv, OneBusy, SingleWriter
<1>4. ASSUME NEW t \in Threads, Busy(t) PROVE InChange(t)'
  <2>1. InChange(t) /\ step'[t] = step[t] /\ arg'[t] = arg[t] /\ arg[t].side \in Sides
    BY <1>4 DEF IInv, BaseInv, TypeOK, Registration
  <2>2. queued'[arg[t].side] = 0
    BY <1>1, <2>1 DEF InChange
  <2>3. \A r \in Sides : Follows(kernel, r) => Follows(kernel, r)'
    BY DEF Follows
  <2>. QED
    BY <2>1, <2>2, <2>3 DEF InChange, Follows
<1>5. Registration'
  BY <1>4 DEF IInv, Registration, AtRest, Follows
<1>. QED
  BY <1>2, <1>3, <1>5 DEF IInv

(* The epoll thread between an event and the end of its callback.          *)
LEMMA LoopStep ==
  ASSUME IInv, (\E s \in Sides : TakeEvent(s)) \/ Front \/ EndCallback
  PROVE  IInv'
<1>1. BaseInv'
  BY LoopBase DEF IInv
<1>2. /\ loop # "gone" /\ loop' # "gone"
      /\ UNCHANGED <<callers, m_events, kernel, queued, owner, step, arg>>
  BY DEF TakeEvent, Front, EndCallback
<1>. QED
  BY <1>1, <1>2, QuietStep DEF Busy

(* The size check takes no mutex.                                          *)
LEMMA CheckPushStep ==
  ASSUME IInv, NEW t \in Threads, NEW s \in Sides, CheckPush(t, s)
  PROVE  IInv'
<1>1. BaseInv'
  BY CheckPushBase DEF IInv
<1>2. /\ step[t] = "idle" /\ step' = [step EXCEPT ![t] = "lock"]
      /\ loop # "gone" /\ \A u \in Threads : u # t => arg'[u] = arg[u]
      /\ UNCHANGED <<callers, m_events, kernel, queued, owner, loop>>
  BY DEF CheckPush, Go, Prepare, IInv, BaseInv, TypeOK
<1>3. \A u \in Threads : (Busy(u)' <=> Busy(u)) /\ (u # t => step'[u] = step[u])
  BY <1>2 DEF Busy, BusySteps, IInv, BaseInv, TypeOK
<1>4. ~Busy(t)
  BY <1>2 DEF Busy, BusySteps
<1>. QED
  BY <1>1, <1>2, <1>3, <1>4, QuietStep

(* A push behind others leaves the queue not empty.                        *)
LEMMA PushBehindStep == ASSUME IInv, NEW t \in Threads, PushBehind(t) PROVE IInv'
<1>1. BaseInv'
  BY PushBehindBase DEF IInv
<1>2. /\ step[t] = "lock" /\ step' = [step EXCEPT ![t] = "idle"]
      /\ queued[arg[t].side] > 0 /\ queued' = [queued EXCEPT ![arg[t].side] = @ + 1]
      /\ UNCHANGED <<callers, m_events, kernel, owner, arg, loop>>
  BY DEF PushBehind, Go
<1>3. \A u \in Threads : (Busy(u)' <=> Busy(u)) /\ (u # t => step'[u] = step[u])
  BY <1>2 DEF Busy, BusySteps, IInv, BaseInv, TypeOK
<1>4. ~Busy(t) /\ loop # "gone"
  BY <1>2 DEF Busy, BusySteps, IInv, Registration
<1>5. \A s \in Sides : queued'[s] > 0 <=> queued[s] > 0
  BY <1>2 DEF IInv, BaseInv, TypeOK
<1>. QED
  BY <1>1, <1>2, <1>3, <1>4, <1>5, QuietStep

(* A thread takes the mutex of a side and prepares its epoll_ctl.          *)
LEMMA ChangeStarts ==
  ASSUME IInv, BaseInv', NEW t \in Threads, NEW s \in Sides, NEW mask,
         ~Busy(t), callers[s] # {}, t \in callers[s] \/ t = Epoll,
         owner[s] = None, owner' = [owner EXCEPT ![s] = t],
         loop # "gone", loop' # "gone",
         UNCHANGED <<callers, m_events, kernel>>,
         arg' = [arg EXCEPT ![t] = [side |-> s, mask |-> mask, ctl |-> "MOD"]],
         queued'[s] = 0, \A r \in Sides \ {s} : queued'[r] = queued[r],
         \/ step' = [step EXCEPT ![t] = "pushctl"] /\ mask = m_events \cup {s}
         \/ step' = [step EXCEPT ![t] = "popctl"] /\ mask = m_events \ {s}
  PROVE  IInv'
<1>1. \A u \in Threads : ~Busy(u)
  BY MutexOfTheBusy, SocketAssumption
<1>2. /\ AtRest /\ "HUP" \in m_events /\ kernel # Unregistered
      /\ \A r \in Sides : owner[r] = None
  BY <1>1 DEF IInv, BaseInv, TypeOK, Registration, OwnerIsBusy
<1>3. \A u \in Threads : Busy(u)' <=> u = t
  BY <1>1 DEF Busy, BusySteps, IInv, BaseInv, TypeOK
<1>4. arg'[t] = [side |-> s, mask |-> mask, ctl |-> "MOD"]
  BY DEF IInv, BaseInv, TypeOK
<1>5. OwnerIsBusy' /\ OneBusy' /\ SingleWriter'
  BY <1>2, <1>3, <1>4, SocketAssumption
     DEF OwnerIsBusy, OneBusy, SingleWriter, IInv, BaseInv, TypeOK
<1>6. InChange(t)'
  <2>1. \A r \in Sides \ {s} : Follows(kernel, r)'
    BY <1>2 DEF AtRest, Follows
  <2>2. m_events' = kernel' /\ "HUP" \in mask
    BY <1>2 DEF AtRest, Sides
  <2>3. /\ step'[t] = "pushctl" => mask = kernel' \cup {s}
        /\ step'[t] = "popctl"  => mask = kernel' \ {s}
        /\ step'[t] \in {"pushctl", "popctl"}
    BY <2>2 DEF IInv, BaseInv, TypeOK
  <2>. QED
    BY <1>4, <2>1, <2>2, <2>3 DEF InChange, Follows
<1>7. Registration'
  BY <1>2, <1>3, <1>6 DEF Registration
<1>. QED
  BY <1>5, <1>7 DEF IInv

(* A push into an empty queue asks for EPOLL_CTL_MOD: m_events is not 0.   *)
LEMMA PushFirstStep == ASSUME IInv, NEW t \in Threads, PushFirst(t) PROVE IInv'
<1>. DEFINE s == arg[t].side
            mask == m_events \cup {s}
<1>1. BaseInv'
  BY PushFirstBase DEF IInv
<1>2. /\ s \in Sides /\ step[t] = "lock" /\ queued[s] = 0 /\ owner[s] = None
      /\ owner' = [owner EXCEPT ![s] = t]
      /\ arg' = [arg EXCEPT ![t] = [side |-> s, mask |-> mask, ctl |-> AddCtl]]
      /\ step' = [step EXCEPT ![t] = "pushctl"]
      /\ UNCHANGED <<callers, m_events, kernel, queued, loop>>
  BY DEF PushFirst, Lock, Prepare, Go, Bit, IInv, BaseInv, TypeOK
<1>3. ~Busy(t) /\ loop # "gone" /\ AddCtl = "MOD"
  BY <1>2 DEF Busy, BusySteps, AddCtl, IInv, Registration
<1>4. t \in callers[s] /\ callers[s] # {}
  BY <1>2 DEF IInv, BaseInv, PushersAreCallers, PushSteps
<1>. HIDE DEF s, mask
<1>. QED
  BY <1>1, <1>2, <1>3, <1>4, ChangeStarts DEF mask

(* The pop of the last request starts a change, any other is quiet.        *)
LEMMA PopStep == ASSUME IInv, Pop PROVE IInv'
<1>. USE SocketAssumption
<1>1. BaseInv'
  BY PopBase DEF IInv
<1>2. /\ event \in Sides /\ queued[event] > 0 /\ queued[event] \in Nat
      /\ loop = "pop" /\ loop' = "wait"
      /\ queued' = [queued EXCEPT ![event] = queued[event] - 1]
      /\ UNCHANGED <<callers, m_events, kernel, event>>
  BY DEF Pop, Popped, IInv, BaseInv, TypeOK, ExecutedIsQueued
<1>3. ~Busy(Epoll) /\ callers[event] # {}
  BY <1>2 DEF Pop, Busy, BusySteps, IInv, BaseInv, OnlyCallersPush
<1>4. CASE queued[event] = 1
  <2>. DEFINE mask == m_events \ {event}
  <2>1. /\ owner[event] = None /\ owner' = [owner EXCEPT ![event] = Epoll]
        /\ arg' = [arg EXCEPT ![Epoll] = [side |-> event, mask |-> mask, ctl |-> "MOD"]]
        /\ step' = [step EXCEPT ![Epoll] = "popctl"]
    BY <1>4 DEF Pop, Lock, Prepare, Go, Cleared, Bit
  <2>2. queued'[event] = 0 /\ \A r \in Sides \ {event} : queued'[r] = queued[r]
    BY <1>2, <1>4 DEF IInv, BaseInv, TypeOK
  <2>. HIDE DEF mask
  <2>. QED
    BY <1>1, <1>2, <1>3, <2>1, <2>2, ChangeStarts DEF mask
<1>5. CASE queued[event] # 1
  <2>1. UNCHANGED <<owner, arg, step>>
    BY <1>5 DEF Pop
  <2>2. \A s \in Sides : queued'[s] > 0 <=> queued[s] > 0
    BY <1>2, <1>5 DEF IInv, BaseInv, TypeOK
  <2>. QED
    BY <1>1, <1>2, <2>1, <2>2, QuietStep DEF Busy
<1>. QED
  BY <1>4, <1>5

(* epoll_ctl succeeds.                                                     *)
LEMMA EpollCtlStep == ASSUME IInv, NEW t \in Threads, EpollCtl(t) PROVE IInv'
<1>. DEFINE s == arg[t].side
<1>1. BaseInv'
  BY EpollCtlBase DEF IInv
<1>2. Busy(t) /\ loop # "gone" /\ kernel # Unregistered /\ InChange(t) /\ s \in Sides
  BY DEF EpollCtl, Busy, BusySteps, IInv, BaseInv, TypeOK, Registration
<1>3. /\ step[t] \in {"pushctl", "popctl"}
      /\ kernel' = arg[t].mask
      /\ step' = [step EXCEPT ![t] = IF step[t] = "pushctl" THEN "pushstore" ELSE "popstore"]
      /\ UNCHANGED <<callers, m_events, queued, owner, arg, loop>>
  BY <1>2 DEF EpollCtl, Go, Applies, InChange
<1>4. \A u \in Threads : (Busy(u) <=> u = t) /\ (Busy(u)' <=> u = t)
  BY <1>2, <1>3 DEF Busy, BusySteps, IInv, OneBusy, BaseInv, TypeOK
<1>5. OwnerIsBusy' /\ OneBusy' /\ SingleWriter'
  BY <1>3, <1>4 DEF OwnerIsBusy, OneBusy, SingleWriter, IInv, BaseInv, TypeOK
<1>6. InChange(t)'
  <2>1. \A r \in Sides \ {s} : Follows(kernel, r)'
    BY <1>2, <1>3 DEF InChange, Follows
  <2>2. /\ step'[t] = "pushstore" => s \in kernel'
        /\ step'[t] = "popstore" => s \notin kernel'
        /\ step'[t] \in {"pushstore", "popstore"}
    BY <1>2, <1>3 DEF InChange, IInv, BaseInv, TypeOK
  <2>. QED
    BY <1>2, <1>3, <2>1, <2>2 DEF InChange, Follows
<1>7. Registration'
  <2>1. kernel' # Unregistered /\ "HUP" \in m_events'
    BY <1>2, <1>3 DEF InChange, Unregistered, IInv, Registration
  <2>. QED
    BY <1>2, <1>3, <1>4, <1>6, <2>1 DEF Registration
<1>. QED
  BY <1>1, <1>5, <1>7 DEF IInv

(* m_events follows the kernel, and the queue of a push its new interest.  *)
LEMMA StoreEventsStep == ASSUME IInv, NEW t \in Threads, StoreEvents(t) PROVE IInv'
<1>. DEFINE s == arg[t].side
<1>1. BaseInv'
  BY StoreEventsBase DEF IInv
<1>2. Busy(t) /\ loop # "gone" /\ kernel # Unregistered /\ InChange(t) /\ s \in Sides
  BY DEF StoreEvents, Busy, BusySteps, IInv, BaseInv, TypeOK, Registration
<1>3. /\ step[t] \in {"pushstore", "popstore"}
      /\ m_events' = arg[t].mask /\ kernel = arg[t].mask
      /\ queued' = IF step[t] = "pushstore" THEN [queued EXCEPT ![s] = @ + 1] ELSE queued
      /\ owner' = [owner EXCEPT ![s] = None]
      /\ step' = [step EXCEPT ![t] = "idle"]
      /\ UNCHANGED <<callers, kernel, arg, loop>>
  BY <1>2 DEF StoreEvents, Go, InChange
<1>4. \A u \in Threads : (Busy(u) <=> u = t) /\ ~Busy(u)'
  BY <1>2, <1>3 DEF Busy, BusySteps, IInv, OneBusy, BaseInv, TypeOK
<1>5. \A r \in Sides : owner'[r] = None
  BY <1>2, <1>3, <1>4, SocketAssumption DEF OwnerIsBusy, IInv, BaseInv, TypeOK
<1>6. OwnerIsBusy' /\ OneBusy' /\ SingleWriter'
  BY <1>3, <1>4, <1>5 DEF OwnerIsBusy, OneBusy, SingleWriter, IInv
<1>7. ASSUME NEW r \in Sides PROVE Follows(kernel, r)'
  <2>1. CASE r # s
    BY <1>2, <1>3, <2>1 DEF InChange, Follows, IInv, BaseInv, TypeOK
  <2>2. CASE r = s
    BY <1>2, <1>3, <2>2 DEF InChange, Follows, IInv, BaseInv, TypeOK
  <2>. QED
    BY <2>1, <2>2
<1>8. Registration'
  BY <1>2, <1>3, <1>4, <1>7 DEF Registration, AtRest, InChange
<1>. QED
  BY <1>1, <1>6, <1>8 DEF IInv

(* The destructor finds nobody in a step.                                  *)
LEMMA DestroyStep == ASSUME IInv, Destroy PROVE IInv'
<1>1. BaseInv'
  BY LoopBase DEF IInv
<1>2. OwnerIsBusy' /\ OneBusy' /\ SingleWriter'
  BY DEF Destroy, OwnerIsBusy, OneBusy, SingleWriter, Busy, BusySteps, IInv, BaseInv, TypeOK
<1>3. Registration'
  BY DEF Destroy, Registration
<1>. QED
  BY <1>1, <1>2, <1>3 DEF IInv

(* The invariant holds from the constructor on, as long as one side or one *)
(* thread uses the socket.                                                 *)
LEMMA IInvInductive == ASSUME AnyCallers = FALSE PROVE Spec => []IInv
<1>1. Init => IInv
  <2> SUFFICES ASSUME Init PROVE IInv
    OBVIOUS
  <2>1. \A t \in Threads : ~Busy(t)
    BY DEF Init, Busy, BusySteps
  <2>2. OwnerIsBusy /\ OneBusy /\ SingleWriter
    BY <2>1 DEF Init, OwnerIsBusy, OneBusy
  <2>3. AtRest /\ "HUP" \in m_events /\ kernel # Unregistered /\ loop # "gone"
    BY SMTT(30) DEF Init, AtRest, Follows, Sides, Unregistered
  <2>. QED
    BY <2>1, <2>2, <2>3, InitBase DEF IInv, Registration
<1>2. IInv /\ [Next]_vars => IInv'
  <2> SUFFICES ASSUME IInv, [Next]_vars PROVE IInv'
    OBVIOUS
  <2>1. ASSUME NEW t \in Threads, NEW s \in Sides, CheckPush(t, s) PROVE IInv'
    BY <2>1, CheckPushStep
  <2>2. ASSUME NEW t \in Threads, Operation(t) PROVE IInv'
    BY <2>2, PushBehindStep, PushFirstStep, EpollCtlStep, StoreEventsStep DEF Operation
  <2>3. CASE (\E s \in Sides : TakeEvent(s)) \/ Loop \/ Destroy
    BY <2>3, LoopStep, PopStep, DestroyStep DEF Loop
  <2>4. CASE UNCHANGED vars
    <3>. USE <2>4 DEF vars
    <3>1. BaseInv'
      BY DEF IInv, BaseInv, TypeOK, PushersAreCallers, ExecutedIsQueued, PlacesTaken,
             OnlyCallersPush, Pushing
    <3>2. OwnerIsBusy' /\ OneBusy' /\ SingleWriter'
      BY DEF IInv, OwnerIsBusy, OneBusy, SingleWriter, Busy
    <3>3. Registration'
      BY DEF IInv, Registration, InChange, AtRest, Follows, Busy
    <3>. QED
      BY <3>1, <3>2, <3>3 DEF IInv
  <2>. QED
    BY <2>1, <2>2, <2>3, <2>4 DEF Next
<1>. QED
  BY <1>1, <1>2, PTL DEF Spec

(* Used the way the program uses it, a socket is never watched for a side  *)
(* without requests nor left unwatched for one with requests, outside the  *)
(* critical section that changes it.                                       *)
THEOREM WatchedWhenQueued ==
  ASSUME AnyCallers = FALSE
  PROVE  Spec => []InterestFollowsQueue
<1>1. IInv => InterestFollowsQueue
  <2> SUFFICES ASSUME IInv, NEW s \in Sides, owner[s] = None
               PROVE  Follows(kernel, s)
    BY DEF InterestFollowsQueue, Follows
  <2>1. CASE loop = "gone"
    BY <2>1 DEF IInv, Registration, Follows, Unregistered, Sides
  <2>2. ASSUME loop # "gone", NEW t \in Threads, Busy(t) PROVE Follows(kernel, s)
    <3>1. InChange(t) /\ owner[arg[t].side] = t
      BY <2>2 DEF IInv, Registration, OwnerIsBusy
    <3>. QED
      BY <3>1, SocketAssumption DEF InChange
  <2>3. CASE loop # "gone" /\ \A t \in Threads : ~Busy(t)
    BY <2>3 DEF IInv, Registration, AtRest
  <2>. QED
    BY <2>1, <2>2, <2>3
<1>. QED
  BY <1>1, IInvInductive, PTL

(* Used that way, m_events is the kernel's mask between operations and no  *)
(* epoll_ctl of a push or a pop fails.                                     *)
THEOREM NoCtlFails ==
  ASSUME AnyCallers = FALSE
  PROVE  Spec => []EventsMirrorKernel
<1>1. IInv => EventsMirrorKernel
  <2> SUFFICES ASSUME IInv PROVE EventsMirrorKernel
    OBVIOUS
  <2>1. ASSUME NEW t \in Threads, step[t] \in {"pushctl", "popctl"} PROVE Applies(arg[t].ctl)
    BY <2>1 DEF IInv, Registration, Busy, BusySteps, InChange, Applies
  <2>2. ASSUME \A s \in Sides : owner[s] = None, loop # "gone" PROVE m_events = kernel
    <3>1. \A t \in Threads : ~Busy(t)
      BY <2>2, SocketAssumption DEF IInv, BaseInv, TypeOK, OwnerIsBusy
    <3>. QED
      BY <2>2, <3>1 DEF IInv, Registration, AtRest
  <2>. QED
    BY <2>1, <2>2 DEF EventsMirrorKernel
<1>. QED
  BY <1>1, IInvInductive, PTL

=============================================================================
