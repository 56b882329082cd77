------------------------------- MODULE PCQueue -------------------------------
(***************************************************************************)
(* ProducerConsumerQueue<T> (util/producer_consumer_queue.h): a deque       *)
(* behind one absl::Mutex with two condition variables.                     *)
(*                                                                          *)
(* A method body runs with mu_ held, so it is atomic from one acquisition   *)
(* of mu_ to the next release: an action is one pass through the method,    *)
(* from entry (or from the return of a wait) to the return (or to the next  *)
(* wait).  Threads race for mu_ between those passes: a caller that enters  *)
(* late may take the element or the slot a woken thread was signalled for.  *)
(* A thread that timed out and one that was signalled are told apart by     *)
(* nothing but the queue they find and the time they have left.             *)
(***************************************************************************)
EXTENDS Integers, Sequences, FiniteSets

CONSTANTS Producers,  \* threads that push
          Consumers,  \* threads that pop; a thread may be both
          Capacity,   \* capacity_
          IntMax,     \* std::numeric_limits<int>::max()
          MaxItems    \* bound: elements the producers ever make

\* The constructor aborts the program on a capacity <= 0.
ASSUME CapacityAssumption == Capacity \in Nat \ {0}

ASSUME ThreadsAssumption == IsFiniteSet(Producers) /\ IsFiniteSet(Consumers)

ASSUME BoundAssumption == MaxItems \in Nat

VARIABLES q,         \* q_, oldest element first
          op,        \* the method a thread is in
          pc,        \* where in that method
          timeLeft,  \* "time_left > 0" of the timed methods
          hand,      \* the element a producer owns and has not handed over
          made,      \* number of elements made so far
          pushed,    \* history: elements accepted by the queue, in order
          popped     \* history: elements given out, in order

vars == <<q, op, pc, timeLeft, hand, made, pushed, popped>>

Threads == Producers \cup Consumers
Items   == 1 .. MaxItems
NoItem  == 0

PushOps  == {"Emplace", "TryEmplace", "TryPush"}
PopOps   == {"Pop", "TryPop"}
TimedOps == {"TryPush", "TryPop"}

IsLimitedCapacity == Capacity # IntMax

\* Mutant: one element too many (> for >=).
FullOffByOne == IsLimitedCapacity /\ Len(q) > Capacity

Full == IsLimitedCapacity /\ Len(q) >= Capacity

\* The waiters of the two condition variables, and the threads a wait has
\* returned in and that contend for mu_ again.
cv_not_full  == {t \in Threads : pc[t] = "wait_not_full"}
cv_not_empty == {t \in Threads : pc[t] = "wait_not_empty"}
WokenPushers == {t \in Threads : pc[t] = "woken" /\ op[t] \in PushOps}
WokenPoppers == {t \in Threads : pc[t] = "woken" /\ op[t] \in PopOps}

Init == /\ q = <<>>
        /\ op = [t \in Threads |-> "none"]
        /\ pc = [t \in Threads |-> "idle"]
        /\ timeLeft = [t \in Threads |-> FALSE]
        /\ hand = [t \in Threads |-> NoItem]
        /\ made = 0
        /\ pushed = <<>>
        /\ popped = <<>>

-----------------------------------------------------------------------------
(* The callers.                                                             *)

\* A producer with empty hands makes the next element.
Make(t) ==
    /\ pc[t] = "idle" /\ hand[t] = NoItem /\ made < MaxItems
    /\ made' = made + 1
    /\ hand' = [hand EXCEPT ![t] = made + 1]
    /\ UNCHANGED <<q, op, pc, timeLeft, pushed, popped>>

\* A thread calls method o; TryPush and TryPop take a timeout, which is zero
\* in the overloads without one.
Call(t, o) ==
    /\ pc[t] = "idle"
    /\ o \in PushOps => hand[t] # NoItem
    /\ op' = [op EXCEPT ![t] = o]
    /\ pc' = [pc EXCEPT ![t] = "entry"]
    /\ \E positive \in (IF o \in TimedOps THEN BOOLEAN ELSE {FALSE}) :
          timeLeft' = [timeLeft EXCEPT ![t] = positive]
    /\ UNCHANGED <<q, hand, made, pushed, popped>>

-----------------------------------------------------------------------------
(* The methods.                                                             *)

\* Thread t holds mu_ inside method o.
Inside(t, o) == op[t] = o /\ pc[t] \in {"entry", "woken"}

\* Thread t returns; Signal wakes one of the waiters cv, if it has any.
ReturnAndSignal(t, cv) ==
    /\ op' = [op EXCEPT ![t] = "none"]
    /\ timeLeft' = [timeLeft EXCEPT ![t] = FALSE]
    /\ \/ cv = {} /\ pc' = [pc EXCEPT ![t] = "idle"]
       \/ \E w \in cv : pc' = [pc EXCEPT ![t] = "idle", ![w] = "woken"]

Wait(t, where) ==
    /\ pc' = [pc EXCEPT ![t] = where]
    /\ UNCHANGED <<q, op, timeLeft, hand, made, pushed, popped>>

\* The method returns false and leaves everything as it found it.
GiveUp(t) ==
    /\ op' = [op EXCEPT ![t] = "none"]
    /\ timeLeft' = [timeLeft EXCEPT ![t] = FALSE]
    /\ pc' = [pc EXCEPT ![t] = "idle"]
    /\ UNCHANGED <<q, hand, made, pushed, popped>>

InternalEmplace(t) ==
    /\ q' = Append(q, hand[t])
    /\ pushed' = Append(pushed, hand[t])
    /\ hand' = [hand EXCEPT ![t] = NoItem]
    /\ ReturnAndSignal(t, cv_not_empty)
    /\ UNCHANGED <<made, popped>>

\* Mutant: the newest element is taken (back for front).
InternalPopBack(t) ==
    /\ popped' = Append(popped, q[Len(q)])
    /\ q' = SubSeq(q, 1, Len(q) - 1)
    /\ ReturnAndSignal(t, cv_not_full)
    /\ UNCHANGED <<hand, made, pushed>>

\* Mutant: the free slot is not signalled.
InternalPopSilent(t) ==
    /\ popped' = Append(popped, Head(q))
    /\ q' = Tail(q)
    /\ ReturnAndSignal(t, {})
    /\ UNCHANGED <<hand, made, pushed>>

InternalPop(t) ==
    /\ popped' = Append(popped, Head(q))
    /\ q' = Tail(q)
    /\ ReturnAndSignal(t, cv_not_full)
    /\ UNCHANGED <<hand, made, pushed>>

Emplace(t) ==
    /\ Inside(t, "Emplace")
    /\ \/ Full /\ Wait(t, "wait_not_full")
       \/ ~Full /\ InternalEmplace(t)

TryEmplace(t) ==
    /\ Inside(t, "TryEmplace")
    /\ \/ Full /\ GiveUp(t)
       \/ ~Full /\ InternalEmplace(t)

\* Mutant: p is released before the last check of the capacity.
TryPushReleasesFirst(t) ==
    /\ Inside(t, "TryPush")
    /\ \/ Full /\ timeLeft[t] /\ Wait(t, "wait_not_full")
       \/ /\ Full /\ ~timeLeft[t]
          /\ op' = [op EXCEPT ![t] = "none"]
          /\ pc' = [pc EXCEPT ![t] = "idle"]
          /\ hand' = [hand EXCEPT ![t] = NoItem]
          /\ UNCHANGED <<q, timeLeft, made, pushed, popped>>
       \/ ~Full /\ InternalEmplace(t)

TryPush(t) ==
    /\ Inside(t, "TryPush")
    /\ \/ Full /\ timeLeft[t] /\ Wait(t, "wait_not_full")
       \/ Full /\ ~timeLeft[t] /\ GiveUp(t)
       \/ ~Full /\ InternalEmplace(t)

Pop(t) ==
    /\ Inside(t, "Pop")
    /\ \/ q = <<>> /\ Wait(t, "wait_not_empty")
       \/ q # <<>> /\ InternalPop(t)

\* Mutant: a wait that ran out of time returns false without another look at
\* the queue, and swallows a signal that came at the last moment.
TryPopNoRecheck(t) ==
    /\ Inside(t, "TryPop")
    /\ \/ q = <<>> /\ timeLeft[t] /\ Wait(t, "wait_not_empty")
       \/ (q = <<>> \/ pc[t] = "woken") /\ ~timeLeft[t] /\ GiveUp(t)
       \/ q # <<>> /\ (pc[t] = "entry" \/ timeLeft[t]) /\ InternalPop(t)

\* Mutant: time_left is not recomputed after a wait.
TryPopForever(t) ==
    /\ Inside(t, "TryPop")
    /\ \/ q = <<>> /\ (timeLeft[t] \/ pc[t] = "woken") /\ Wait(t, "wait_not_empty")
       \/ q = <<>> /\ ~timeLeft[t] /\ pc[t] = "entry" /\ GiveUp(t)
       \/ q # <<>> /\ InternalPop(t)

TryPop(t) ==
    /\ Inside(t, "TryPop")
    /\ \/ q = <<>> /\ timeLeft[t] /\ Wait(t, "wait_not_empty")
       \/ q = <<>> /\ ~timeLeft[t] /\ GiveUp(t)
       \/ q # <<>> /\ InternalPop(t)

Method(t) == Emplace(t) \/ TryEmplace(t) \/ TryPush(t) \/ Pop(t) \/ TryPop(t)

-----------------------------------------------------------------------------
(* Time, and what absl::CondVar may do on its own.                          *)

Waiting(t) == pc[t] \in {"wait_not_full", "wait_not_empty"}

\* The deadline passes while t waits, or after its wait returned and before
\* it has mu_ again: time_left is recomputed only then.
Expire(t) ==
    /\ timeLeft[t] /\ (Waiting(t) \/ pc[t] = "woken")
    /\ timeLeft' = [timeLeft EXCEPT ![t] = FALSE]
    /\ UNCHANGED <<q, op, pc, hand, made, pushed, popped>>

Wake(t) ==
    /\ Waiting(t)
    /\ pc' = [pc EXCEPT ![t] = "woken"]
    /\ UNCHANGED <<q, op, timeLeft, hand, made, pushed, popped>>

\* WaitWithTimeout returns because the deadline passed.
TimeoutWake(t) == op[t] \in TimedOps /\ ~timeLeft[t] /\ Wake(t)

\* A wait may return without a signal.
SpuriousWake(t) == Wake(t)

Next ==
    \/ \E t \in Producers : Make(t) \/ \E o \in PushOps : Call(t, o)
    \/ \E t \in Consumers, o \in PopOps : Call(t, o)
    \/ \E t \in Threads : Method(t) \/ Expire(t) \/ TimeoutWake(t) \/ SpuriousWake(t)

Spec == Init /\ [][Next]_vars

\* A thread inside a method gets mu_ in the end, deadlines pass, and a timed
\* wait returns once its deadline has.  Nobody has to call anything.
Fairness ==
    \A t \in Threads : WF_vars(Method(t)) /\ WF_vars(Expire(t)) /\ WF_vars(TimeoutWake(t))

FairSpec == Spec /\ Fairness

-----------------------------------------------------------------------------
(* Properties.                                                              *)

\* The range of every variable, and the agreement between where a thread
\* stands and the method it is in: only the methods that can wait do, each on
\* its own condition variable, and a pusher brings an element.
TypeOK ==
    /\ q \in Seq(Items)
    /\ op \in [Threads -> PushOps \cup PopOps \cup {"none"}]
    /\ pc \in [Threads -> {"idle", "entry", "wait_not_full", "wait_not_empty", "woken"}]
    /\ timeLeft \in [Threads -> BOOLEAN]
    /\ hand \in [Threads -> Items \cup {NoItem}]
    /\ made \in 0 .. MaxItems
    /\ pushed \in Seq(Items)
    /\ popped \in Seq(Items)
    /\ \A t \in Threads :
          /\ pc[t] = "idle" <=> op[t] = "none"
          /\ pc[t] = "wait_not_full" => op[t] \in {"Emplace", "TryPush"} /\ IsLimitedCapacity
          /\ pc[t] = "wait_not_empty" => op[t] \in PopOps
          /\ op[t] \in PushOps => hand[t] # NoItem

\* FIFO, no loss and no duplicate on the way through: the elements given out
\* and then those still inside are exactly those accepted, in their order
\* (InternalEmplace, InternalPop under every interleaving of the callers).
FifoOrder == pushed = popped \o q

\* An element has exactly one owner.  It is in the hand of one producer until
\* a push succeeds ("on failure p will be unaffected"), and in the accepted
\* history once from then on; none is forgotten.
OneOwner ==
    /\ \A i \in 1 .. made :
          \/ \E t \in Threads : hand[t] = i
          \/ \E n \in DOMAIN pushed : pushed[n] = i
    /\ \A m, n \in DOMAIN pushed : pushed[m] = pushed[n] => m = n
    /\ \A t \in Threads, n \in DOMAIN pushed : hand[t] # pushed[n]
    /\ \A s, t \in Threads : hand[s] = hand[t] /\ hand[s] # NoItem => s = t

\* No wakeup is lost.  InternalEmplace and InternalPop signal one waiter
\* each, and a signal can reach a thread whose deadline passes or whose
\* element somebody else takes; still, while a thread sleeps in a pop there
\* are at least as many poppers on their way to mu_ as elements inside, and
\* while one sleeps in a push at least as many pushers as free slots.
NoLostWakeup ==
    /\ cv_not_empty # {} => Cardinality(WokenPoppers) >= Len(q)
    /\ cv_not_full # {} => Cardinality(WokenPushers) >= Capacity - Len(q)

\* The queue keeps the promise of the bounded FIFO at every step of every
\* caller: bound, order and exactly-once, whatever times out.
Fifo == INSTANCE BoundedFifo
            WITH Items <- Items, Bound <- IF IsLimitedCapacity THEN Capacity ELSE 0,
                 buffer <- q, delivered <- popped

ImplementsFifo == Fifo!Spec

\* A pop that sleeps while the queue holds an element is never left to sleep:
\* either that ends, or elements go on being taken, by it or by others.  The
\* same for a push that sleeps while a slot is free.
NoStuckWaiter ==
    /\ \/ []<>~(q # <<>> /\ cv_not_empty # {})
       \/ []<><<popped' # popped>>_popped
    /\ \/ []<>~(~Full /\ cv_not_full # {})
       \/ []<><<pushed' # pushed>>_pushed

\* TryPush and TryPop with a timeout return, whatever the others do.
TimedCallsReturn ==
    \A t \in Threads : (op[t] \in TimedOps) ~> (op[t] = "none")
=============================================================================
