---------------------------- MODULE PCQueueProofs ----------------------------
(* Proofs about PCQueue, for any sets of threads and any capacity.          *)
EXTENDS PCQueue, FiniteSetTheorems, SequenceTheorems, TLAPS

\* What one pass through a method does, by outcome: it waits for a slot, waits
\* for an element, gives up, hands an element over, or takes one.
LEMMA MethodCases ==
    ASSUME NEW t \in Threads, Method(t)
    PROVE  /\ pc[t] \in {"entry", "woken"}
           /\ \/ Full /\ op[t] \in {"Emplace", "TryPush"} /\ Wait(t, "wait_not_full")
              \/ q = <<>> /\ op[t] \in PopOps /\ Wait(t, "wait_not_empty")
              \/ Full /\ op[t] \in PushOps /\ GiveUp(t)
              \/ q = <<>> /\ op[t] \in PopOps /\ GiveUp(t)
              \/ ~Full /\ op[t] \in PushOps /\ InternalEmplace(t)
              \/ q # <<>> /\ op[t] \in PopOps /\ InternalPop(t)
<1>1. CASE Emplace(t)
    BY <1>1 DEF Emplace, Inside, PushOps
<1>2. CASE TryEmplace(t)
    BY <1>2 DEF TryEmplace, Inside, PushOps
<1>3. CASE TryPush(t)
    BY <1>3 DEF TryPush, Inside, PushOps
<1>4. CASE Pop(t)
    BY <1>4 DEF Pop, Inside, PopOps
<1>5. CASE TryPop(t)
    BY <1>5 DEF TryPop, Inside, PopOps
<1>. QED
    BY <1>1, <1>2, <1>3, <1>4, <1>5 DEF Method

\* A step is one of a caller, of a method, of the clock or of a condition
\* variable, by a thread.
LEMMA StepCases ==
    ASSUME Next
    PROVE  \E t \in Threads :
              \/ Make(t)
              \/ \E o \in PushOps \cup PopOps : Call(t, o)
              \/ Method(t)
              \/ Expire(t)
              \/ Wake(t)
BY DEF Next, Threads, TimeoutWake, SpuriousWake

-----------------------------------------------------------------------------
(* Types.                                                                   *)

LEMMA InitType == Init => TypeOK
BY BoundAssumption DEF Init, TypeOK, Items, NoItem, PushOps, PopOps

LEMMA WaitType ==
    ASSUME TypeOK, NEW t \in Threads, NEW where,
           Wait(t, where),
           \/ where = "wait_not_full" /\ op[t] \in {"Emplace", "TryPush"} /\ IsLimitedCapacity
           \/ where = "wait_not_empty" /\ op[t] \in PopOps
    PROVE  TypeOK'
BY DEF TypeOK, Wait, PopOps, PushOps

LEMMA GiveUpType ==
    ASSUME TypeOK, NEW t \in Threads, GiveUp(t)
    PROVE  TypeOK'
BY DEF TypeOK, GiveUp, PopOps, PushOps

\* Returning keeps the control variables in range: a signalled waiter only
\* changes where it stands.
LEMMA ReturnType ==
    ASSUME TypeOK, NEW t \in Threads, NEW cv \in SUBSET Threads,
           \A w \in cv : pc[w] \in {"wait_not_full", "wait_not_empty"},
           pc[t] \in {"entry", "woken"},
           ReturnAndSignal(t, cv)
    PROVE  /\ op' = [op EXCEPT ![t] = "none"]
           /\ timeLeft' \in [Threads -> BOOLEAN]
           /\ op' \in [Threads -> PushOps \cup PopOps \cup {"none"}]
           /\ pc' \in [Threads -> {"idle", "entry", "wait_not_full", "wait_not_empty", "woken"}]
           /\ \A s \in Threads : pc'[s] = "idle" <=> op'[s] = "none"
           /\ \A s \in Threads : pc'[s] \in {pc[s], "idle", "woken"}
<1>1. CASE cv = {} /\ pc' = [pc EXCEPT ![t] = "idle"]
    BY <1>1 DEF TypeOK, ReturnAndSignal
<1>2. ASSUME NEW w \in cv, pc' = [pc EXCEPT ![t] = "idle", ![w] = "woken"]
      PROVE  /\ pc' \in [Threads -> {"idle", "entry", "wait_not_full", "wait_not_empty", "woken"}]
             /\ \A s \in Threads : pc'[s] = IF s = w THEN "woken" ELSE IF s = t THEN "idle" ELSE pc[s]
             /\ w # t
    BY <1>2 DEF TypeOK
<1>3. CASE \E w \in cv : pc' = [pc EXCEPT ![t] = "idle", ![w] = "woken"]
    BY <1>2, <1>3 DEF TypeOK, ReturnAndSignal
<1>. QED
    BY <1>1, <1>3 DEF ReturnAndSignal

LEMMA InternalEmplaceType ==
    ASSUME TypeOK, NEW t \in Threads,
           pc[t] \in {"entry", "woken"}, op[t] \in PushOps, InternalEmplace(t)
    PROVE  TypeOK'
<1>1. hand[t] \in Items
    BY DEF TypeOK
<1>2. q' \in Seq(Items) /\ pushed' \in Seq(Items)
    BY <1>1, AppendProperties DEF TypeOK, InternalEmplace
<1>3. /\ op' = [op EXCEPT ![t] = "none"]
      /\ timeLeft' \in [Threads -> BOOLEAN]
      /\ op' \in [Threads -> PushOps \cup PopOps \cup {"none"}]
      /\ pc' \in [Threads -> {"idle", "entry", "wait_not_full", "wait_not_empty", "woken"}]
      /\ \A s \in Threads : pc'[s] = "idle" <=> op'[s] = "none"
      /\ \A s \in Threads : pc'[s] \in {pc[s], "idle", "woken"}
    BY ReturnType, cv_not_empty \in SUBSET Threads DEF InternalEmplace, cv_not_empty
<1>. QED
    BY <1>2, <1>3 DEF TypeOK, InternalEmplace, PushOps, PopOps, IsLimitedCapacity

LEMMA InternalPopType ==
    ASSUME TypeOK, NEW t \in Threads,
           pc[t] \in {"entry", "woken"}, op[t] \in PopOps, q # <<>>, InternalPop(t)
    PROVE  TypeOK'
<1>1. Head(q) \in Items /\ Tail(q) \in Seq(Items)
    BY HeadTailProperties DEF TypeOK
<1>2. q' \in Seq(Items) /\ popped' \in Seq(Items)
    BY <1>1, AppendProperties DEF TypeOK, InternalPop
<1>3. /\ op' = [op EXCEPT ![t] = "none"]
      /\ timeLeft' \in [Threads -> BOOLEAN]
      /\ op' \in [Threads -> PushOps \cup PopOps \cup {"none"}]
      /\ pc' \in [Threads -> {"idle", "entry", "wait_not_full", "wait_not_empty", "woken"}]
      /\ \A s \in Threads : pc'[s] = "idle" <=> op'[s] = "none"
      /\ \A s \in Threads : pc'[s] \in {pc[s], "idle", "woken"}
    BY ReturnType, cv_not_full \in SUBSET Threads DEF InternalPop, cv_not_full
<1>. QED
    BY <1>2, <1>3 DEF TypeOK, InternalPop, PushOps, PopOps, IsLimitedCapacity

LEMMA NextType == TypeOK /\ [Next]_vars => TypeOK'
<1> SUFFICES ASSUME TypeOK, [Next]_vars PROVE TypeOK'
    OBVIOUS
<1>1. CASE UNCHANGED vars
    BY <1>1 DEF vars, TypeOK, IsLimitedCapacity
<1>2. ASSUME NEW t \in Threads, Make(t) PROVE TypeOK'
    BY <1>2, BoundAssumption DEF Make, TypeOK, Items, NoItem, IsLimitedCapacity
<1>3. ASSUME NEW t \in Threads, NEW o \in PushOps \cup PopOps, Call(t, o) PROVE TypeOK'
    BY <1>3 DEF Call, TypeOK, PushOps, PopOps, IsLimitedCapacity
<1>4. ASSUME NEW t \in Threads, Method(t) PROVE TypeOK'
    BY <1>4, MethodCases, WaitType, GiveUpType, InternalEmplaceType, InternalPopType DEF Full
<1>5. ASSUME NEW t \in Threads, Expire(t) PROVE TypeOK'
    BY <1>5 DEF Expire, TypeOK, IsLimitedCapacity
<1>6. ASSUME NEW t \in Threads, Wake(t) PROVE TypeOK'
    BY <1>6 DEF Wake, Waiting, TypeOK, PushOps, PopOps, IsLimitedCapacity
<1>. QED
    BY <1>1, <1>2, <1>3, <1>4, <1>5, <1>6, StepCases

\* Every variable stays in its range and only the methods that can wait wait,
\* for any threads and any capacity.
THEOREM TypeCorrect == Spec => []TypeOK
BY InitType, NextType, PTL DEF Spec

-----------------------------------------------------------------------------
(* Order, and the abstract queue.                                           *)

LEMMA AcceptKeepsOrder ==
    ASSUME TypeOK, FifoOrder, NEW x \in Items
    PROVE  Append(pushed, x) = popped \o Append(q, x)
<1>1. Append(pushed, x) = (popped \o q) \o <<x>>
    BY AppendIsConcat DEF TypeOK, FifoOrder
<1>2. (popped \o q) \o <<x>> = popped \o (q \o <<x>>)
    BY ConcatAssociative DEF TypeOK
<1>3. Append(q, x) = q \o <<x>>
    BY AppendIsConcat DEF TypeOK
<1>. QED
    BY <1>1, <1>2, <1>3

LEMMA TakeKeepsOrder ==
    ASSUME TypeOK, FifoOrder, q # <<>>
    PROVE  pushed = Append(popped, Head(q)) \o Tail(q)
<1>1. Head(q) \in Items /\ Tail(q) \in Seq(Items) /\ <<Head(q)>> \in Seq(Items)
    BY HeadTailProperties DEF TypeOK
<1>2. q = <<Head(q)>> \o Tail(q)
    <2>1. /\ <<Head(q)>> \o Tail(q) \in Seq(Items)
          /\ Len(<<Head(q)>> \o Tail(q)) = Len(q)
        BY <1>1, ConcatProperties, HeadTailProperties, LenProperties DEF TypeOK
    <2>2. \A i \in 1 .. Len(q) : q[i] = (<<Head(q)>> \o Tail(q))[i]
        BY <1>1, ConcatProperties, HeadTailProperties, LenProperties DEF TypeOK
    <2>. QED
        BY <2>1, <2>2, SeqEqual DEF TypeOK
<1>3. popped \o (<<Head(q)>> \o Tail(q)) = (popped \o <<Head(q)>>) \o Tail(q)
    BY <1>1, ConcatAssociative DEF TypeOK
<1>4. popped \o <<Head(q)>> = Append(popped, Head(q))
    BY <1>1, AppendIsConcat DEF TypeOK
<1>. QED
    BY <1>2, <1>3, <1>4 DEF FifoOrder

LEMMA NextOrder == TypeOK /\ FifoOrder /\ [Next]_vars => FifoOrder'
<1> SUFFICES ASSUME TypeOK, FifoOrder, [Next]_vars PROVE FifoOrder'
    OBVIOUS
<1>1. CASE UNCHANGED <<q, pushed, popped>>
    BY <1>1 DEF FifoOrder
<1>2. ASSUME NEW t \in Threads, op[t] \in PushOps, InternalEmplace(t) PROVE FifoOrder'
    <2>1. hand[t] \in Items
        BY <1>2 DEF TypeOK
    <2>. QED
        BY <1>2, <2>1, AcceptKeepsOrder DEF InternalEmplace, FifoOrder
<1>3. ASSUME NEW t \in Threads, q # <<>>, InternalPop(t) PROVE FifoOrder'
    BY <1>3, TakeKeepsOrder DEF InternalPop, FifoOrder
<1>4. ASSUME NEW t \in Threads, Method(t) PROVE FifoOrder'
    BY <1>1, <1>2, <1>3, <1>4, MethodCases DEF Wait, GiveUp
<1>. QED
    BY <1>1, <1>4, StepCases DEF vars, Make, Call, Expire, Wake

\* FIFO without loss or duplication: what was given out followed by what is
\* inside is what was accepted, for any threads and any capacity.
THEOREM FifoCorrect == Spec => []FifoOrder
<1>1. Init => FifoOrder
    BY DEF Init, FifoOrder
<1>. QED
    BY <1>1, TypeCorrect, NextOrder, PTL DEF Spec

LEMMA StepRefines == TypeOK /\ [Next]_vars => [Fifo!Next]_(Fifo!vars)
<1> SUFFICES ASSUME TypeOK, [Next]_vars PROVE [Fifo!Next]_(Fifo!vars)
    OBVIOUS
<1>1. CASE UNCHANGED <<q, popped>>
    BY <1>1 DEF Fifo!vars
<1>2. ASSUME NEW t \in Threads, ~Full, op[t] \in PushOps, InternalEmplace(t)
      PROVE  Fifo!Next
    <2>1. hand[t] \in Items /\ Len(q) \in Nat
        BY <1>2, LenProperties DEF TypeOK
    <2>2. Fifo!Put(hand[t])
        BY <1>2, <2>1, CapacityAssumption DEF Fifo!Put, InternalEmplace, Full
    <2>. QED
        BY <2>1, <2>2 DEF Fifo!Next
<1>3. ASSUME NEW t \in Threads, q # <<>>, InternalPop(t) PROVE Fifo!Next
    BY <1>3 DEF InternalPop, Fifo!Next, Fifo!Take
<1>4. ASSUME NEW t \in Threads, Method(t) PROVE [Fifo!Next]_(Fifo!vars)
    BY <1>1, <1>2, <1>3, <1>4, MethodCases DEF Wait, GiveUp
<1>. QED
    BY <1>1, <1>4, StepCases DEF vars, Make, Call, Expire, Wake

\* The monitor implements the bounded FIFO: the bound is kept and every step
\* of every caller is one put, one take, or nothing.
THEOREM FifoRefinement == Spec => ImplementsFifo
<1>1. Init => Fifo!Init
    BY DEF Init, Fifo!Init
<1>. QED
    BY <1>1, TypeCorrect, StepRefines, PTL DEF Spec, ImplementsFifo, Fifo!Spec

-----------------------------------------------------------------------------
(* Wakeups.                                                                 *)

LEMMA ThreadSetsFinite ==
    \A S \in SUBSET Threads : IsFiniteSet(S) /\ Cardinality(S) \in Nat
<1>1. IsFiniteSet(Threads)
    BY ThreadsAssumption, FS_Union DEF Threads
<1>. QED
    BY <1>1, FS_Subset, FS_CardinalityType

LEMMA CardinalityLess ==
    ASSUME NEW S \in SUBSET Threads, NEW T \in SUBSET Threads, NEW x, S \ {x} \subseteq T
    PROVE  Cardinality(T) >= Cardinality(S) - 1
<1>1. Cardinality(S \ {x}) <= Cardinality(T)
    BY ThreadSetsFinite, FS_Subset
<1>2. Cardinality(S \ {x}) >= Cardinality(S) - 1
    BY ThreadSetsFinite, FS_RemoveElement
<1>. QED
    BY <1>1, <1>2, ThreadSetsFinite

LEMMA CardinalityMore ==
    ASSUME NEW S \in SUBSET Threads, NEW T \in SUBSET Threads, NEW x \in T \ S, S \subseteq T
    PROVE  Cardinality(T) >= Cardinality(S) + 1
<1>1. Cardinality(S \cup {x}) <= Cardinality(T)
    BY ThreadSetsFinite, FS_Subset
<1>. QED
    BY <1>1, ThreadSetsFinite, FS_AddElement

LEMMA CardinalityMonotonic ==
    ASSUME NEW S \in SUBSET Threads, NEW T \in SUBSET Threads, S \subseteq T
    PROVE  Cardinality(T) >= Cardinality(S)
BY ThreadSetsFinite, FS_Subset

LEMMA CvSets == /\ cv_not_full \in SUBSET Threads /\ cv_not_full' \in SUBSET Threads
                /\ cv_not_empty \in SUBSET Threads /\ cv_not_empty' \in SUBSET Threads
                /\ WokenPushers \in SUBSET Threads /\ WokenPushers' \in SUBSET Threads
                /\ WokenPoppers \in SUBSET Threads /\ WokenPoppers' \in SUBSET Threads
BY DEF cv_not_full, cv_not_empty, WokenPushers, WokenPoppers

\* InternalEmplace adds one element and wakes one popper if any sleeps; the
\* pusher itself leaves the set of woken pushers as it takes a slot.
LEMMA EmplaceWakes ==
    ASSUME TypeOK, NoLostWakeup, NEW t \in Threads,
           pc[t] \in {"entry", "woken"}, op[t] \in PushOps, InternalEmplace(t)
    PROVE  NoLostWakeup'
<1>1. Len(q) \in Nat /\ Len(q') = Len(q) + 1
    BY AppendProperties, LenProperties DEF TypeOK, InternalEmplace
<1>2. CASE cv_not_empty = {} /\ pc' = [pc EXCEPT ![t] = "idle"]
    <2>1. op' = [op EXCEPT ![t] = "none"]
        BY DEF InternalEmplace, ReturnAndSignal
    <2>2. cv_not_empty' = {} /\ cv_not_full' = cv_not_full /\ WokenPushers \ {t} \subseteq WokenPushers'
        BY <1>2, <2>1 DEF TypeOK, cv_not_empty, cv_not_full, WokenPushers
    <2>3. Cardinality(WokenPushers') >= Cardinality(WokenPushers) - 1
        BY <2>2, CvSets, CardinalityLess
    <2>. QED
        BY <1>1, <2>2, <2>3, CvSets, ThreadSetsFinite, CapacityAssumption DEF NoLostWakeup
<1>3. ASSUME NEW w \in cv_not_empty, pc' = [pc EXCEPT ![t] = "idle", ![w] = "woken"]
      PROVE  NoLostWakeup'
    <2>1. op' = [op EXCEPT ![t] = "none"]
        BY DEF InternalEmplace, ReturnAndSignal
    <2>2. w # t /\ op[w] \in PopOps /\ w \in Threads /\ pc[w] = "wait_not_empty"
        BY DEF TypeOK, cv_not_empty
    <2>3. pc' \in [Threads -> {"idle", "entry", "wait_not_full", "wait_not_empty", "woken"}]
          /\ \A s \in Threads : pc'[s] = IF s = w THEN "woken" ELSE IF s = t THEN "idle" ELSE pc[s]
        BY <1>3, <2>2 DEF TypeOK
    <2>4. cv_not_full' = cv_not_full /\ WokenPushers \ {t} \subseteq WokenPushers'
        BY <2>1, <2>2, <2>3 DEF TypeOK, cv_not_full, WokenPushers
    <2>5. w \in WokenPoppers' /\ w \notin WokenPoppers /\ WokenPoppers \subseteq WokenPoppers'
        BY <2>1, <2>2, <2>3 DEF TypeOK, WokenPoppers, PushOps, PopOps
    <2>6. Cardinality(WokenPushers') >= Cardinality(WokenPushers) - 1
        BY <2>4, CvSets, CardinalityLess
    <2>7. Cardinality(WokenPoppers') >= Cardinality(WokenPoppers) + 1
        BY <2>5, CvSets, CardinalityMore
    <2>. QED
        BY <1>1, <2>4, <2>6, <2>7, CvSets, ThreadSetsFinite, CapacityAssumption DEF NoLostWakeup
<1>. QED
    BY <1>2, <1>3 DEF InternalEmplace, ReturnAndSignal

\* The mirror image: InternalPop frees one slot and wakes one pusher if any
\* sleeps.
LEMMA PopWakes ==
    ASSUME TypeOK, NoLostWakeup, NEW t \in Threads, q # <<>>,
           pc[t] \in {"entry", "woken"}, op[t] \in PopOps, InternalPop(t)
    PROVE  NoLostWakeup'
<1>1. Len(q) \in Nat /\ Len(q') = Len(q) - 1
    BY HeadTailProperties, LenProperties DEF TypeOK, InternalPop
<1>2. CASE cv_not_full = {} /\ pc' = [pc EXCEPT ![t] = "idle"]
    <2>1. op' = [op EXCEPT ![t] = "none"]
        BY DEF InternalPop, ReturnAndSignal
    <2>2. cv_not_full' = {} /\ cv_not_empty' = cv_not_empty /\ WokenPoppers \ {t} \subseteq WokenPoppers'
        BY <1>2, <2>1 DEF TypeOK, cv_not_empty, cv_not_full, WokenPoppers
    <2>3. Cardinality(WokenPoppers') >= Cardinality(WokenPoppers) - 1
        BY <2>2, CvSets, CardinalityLess
    <2>. QED
        BY <1>1, <2>2, <2>3, CvSets, ThreadSetsFinite, CapacityAssumption DEF NoLostWakeup
<1>3. ASSUME NEW w \in cv_not_full, pc' = [pc EXCEPT ![t] = "idle", ![w] = "woken"]
      PROVE  NoLostWakeup'
    <2>1. op' = [op EXCEPT ![t] = "none"]
        BY DEF InternalPop, ReturnAndSignal
    <2>2. w # t /\ op[w] \in PushOps /\ w \in Threads /\ pc[w] = "wait_not_full"
        BY DEF TypeOK, cv_not_full, PushOps
    <2>3. pc' \in [Threads -> {"idle", "entry", "wait_not_full", "wait_not_empty", "woken"}]
          /\ \A s \in Threads : pc'[s] = IF s = w THEN "woken" ELSE IF s = t THEN "idle" ELSE pc[s]
        BY <1>3, <2>2 DEF TypeOK
    <2>4. cv_not_empty' = cv_not_empty /\ WokenPoppers \ {t} \subseteq WokenPoppers'
        BY <2>1, <2>2, <2>3 DEF TypeOK, cv_not_empty, WokenPoppers
    <2>5. w \in WokenPushers' /\ w \notin WokenPushers /\ WokenPushers \subseteq WokenPushers'
        BY <2>1, <2>2, <2>3 DEF TypeOK, WokenPushers, PushOps, PopOps
    <2>6. Cardinality(WokenPoppers') >= Cardinality(WokenPoppers) - 1
        BY <2>4, CvSets, CardinalityLess
    <2>7. Cardinality(WokenPushers') >= Cardinality(WokenPushers) + 1
        BY <2>5, CvSets, CardinalityMore
    <2>. QED
        BY <1>1, <2>4, <2>6, <2>7, CvSets, ThreadSetsFinite, CapacityAssumption DEF NoLostWakeup
<1>. QED
    BY <1>2, <1>3 DEF InternalPop, ReturnAndSignal

\* A thread goes to sleep only on a full, or an empty, queue: nothing is left
\* for it to be woken for.
LEMMA WaitSleepsSafely ==
    ASSUME TypeOK, NoLostWakeup, NEW t \in Threads, pc[t] \in {"entry", "woken"},
           \/ Full /\ op[t] \in PushOps /\ Wait(t, "wait_not_full")
           \/ q = <<>> /\ op[t] \in PopOps /\ Wait(t, "wait_not_empty")
    PROVE  NoLostWakeup'
<1>1. Len(q) \in Nat
    BY LenProperties DEF TypeOK
<1>2. CASE Full /\ op[t] \in PushOps /\ Wait(t, "wait_not_full")
    <2>1. cv_not_empty' = cv_not_empty /\ WokenPoppers' = WokenPoppers /\ q' = q
        BY <1>2 DEF Wait, TypeOK, cv_not_empty, WokenPoppers, PushOps, PopOps
    <2>2. Capacity - Len(q) <= 0
        BY <1>1, <1>2, CapacityAssumption DEF Full
    <2>. QED
        BY <1>1, <2>1, <2>2, CvSets, ThreadSetsFinite, CapacityAssumption DEF NoLostWakeup
<1>3. CASE q = <<>> /\ op[t] \in PopOps /\ Wait(t, "wait_not_empty")
    <2>1. cv_not_full' = cv_not_full /\ WokenPushers' = WokenPushers /\ q' = q
        BY <1>3 DEF Wait, TypeOK, cv_not_full, WokenPushers, PushOps, PopOps
    <2>2. Len(q) = 0
        BY <1>3
    <2>. QED
        BY <2>1, <2>2, CvSets, ThreadSetsFinite DEF NoLostWakeup
<1>. QED
    BY <1>2, <1>3

\* A thread gives up only on a full, or an empty, queue as well: a signal it
\* may have consumed was not needed.
LEMMA GiveUpLosesNoWakeup ==
    ASSUME TypeOK, NoLostWakeup, NEW t \in Threads, pc[t] \in {"entry", "woken"},
           \/ Full /\ op[t] \in PushOps
           \/ q = <<>> /\ op[t] \in PopOps,
           GiveUp(t)
    PROVE  NoLostWakeup'
<1>1. Len(q) \in Nat /\ q' = q
    BY LenProperties DEF TypeOK, GiveUp
<1>2. cv_not_empty' = cv_not_empty /\ cv_not_full' = cv_not_full
    BY DEF GiveUp, TypeOK, cv_not_empty, cv_not_full
<1>3. CASE Full /\ op[t] \in PushOps
    <2>1. WokenPoppers' = WokenPoppers
        BY <1>3 DEF GiveUp, TypeOK, WokenPoppers, PushOps, PopOps
    <2>2. Capacity - Len(q) <= 0
        BY <1>1, <1>3, CapacityAssumption DEF Full
    <2>. QED
        BY <1>1, <1>2, <2>1, <2>2, CvSets, ThreadSetsFinite, CapacityAssumption DEF NoLostWakeup
<1>4. CASE q = <<>> /\ op[t] \in PopOps
    <2>1. WokenPushers' = WokenPushers
        BY <1>4 DEF GiveUp, TypeOK, WokenPushers, PushOps, PopOps
    <2>2. Len(q) = 0
        BY <1>4
    <2>. QED
        BY <1>1, <1>2, <2>1, <2>2, CvSets, ThreadSetsFinite DEF NoLostWakeup
<1>. QED
    BY <1>3, <1>4

LEMMA WakeLosesNoWakeup ==
    ASSUME TypeOK, NoLostWakeup, NEW t \in Threads, Wake(t)
    PROVE  NoLostWakeup'
<1>1. /\ cv_not_empty' \subseteq cv_not_empty /\ cv_not_full' \subseteq cv_not_full
      /\ WokenPushers \subseteq WokenPushers' /\ WokenPoppers \subseteq WokenPoppers'
      /\ q' = q /\ Len(q) \in Nat
    BY LenProperties DEF Wake, Waiting, TypeOK, cv_not_empty, cv_not_full, WokenPushers, WokenPoppers
<1>2. /\ Cardinality(WokenPushers') >= Cardinality(WokenPushers)
      /\ Cardinality(WokenPoppers') >= Cardinality(WokenPoppers)
    BY <1>1, CvSets, CardinalityMonotonic
<1>. QED
    BY <1>1, <1>2, CvSets, ThreadSetsFinite, CapacityAssumption DEF NoLostWakeup

LEMMA NextWakeup == TypeOK /\ NoLostWakeup /\ [Next]_vars => NoLostWakeup'
<1> SUFFICES ASSUME TypeOK, NoLostWakeup, [Next]_vars PROVE NoLostWakeup'
    OBVIOUS
<1>1. CASE UNCHANGED <<q, pc, op>>
    BY <1>1 DEF NoLostWakeup, cv_not_empty, cv_not_full, WokenPushers, WokenPoppers
<1>2. ASSUME NEW t \in Threads, NEW o \in PushOps \cup PopOps, Call(t, o) PROVE NoLostWakeup'
    <2>1. /\ cv_not_empty' = cv_not_empty /\ cv_not_full' = cv_not_full
          /\ WokenPushers' = WokenPushers /\ WokenPoppers' = WokenPoppers /\ q' = q
        BY <1>2 DEF Call, TypeOK, cv_not_empty, cv_not_full, WokenPushers, WokenPoppers
    <2>. QED
        BY <2>1 DEF NoLostWakeup
<1>3. ASSUME NEW t \in Threads, Method(t) PROVE NoLostWakeup'
    <2>1. {"Emplace", "TryPush"} \subseteq PushOps
        BY DEF PushOps
    <2>. QED
        BY <1>3, <2>1, MethodCases, WaitSleepsSafely, GiveUpLosesNoWakeup, EmplaceWakes, PopWakes
<1>. QED
    BY <1>1, <1>2, <1>3, StepCases, WakeLosesNoWakeup DEF vars, Make, Expire

\* No signal is ever lost, whatever times out and whoever barges in: enough
\* threads are awake for the elements, or the slots, there are.
THEOREM WakeupsNotLost == Spec => []NoLostWakeup
<1>1. Init => NoLostWakeup
    BY DEF Init, NoLostWakeup, cv_not_empty, cv_not_full
<1>. QED
    BY <1>1, TypeCorrect, NextWakeup, PTL DEF Spec

-----------------------------------------------------------------------------
(* Ownership.                                                               *)

\* OneOwner needs that nobody holds, and the queue never accepted, an element
\* that is still to be made.
NoneFromTheFuture ==
    /\ \A t \in Threads : hand[t] <= made
    /\ \A n \in DOMAIN pushed : pushed[n] <= made

OwnerInv == NoneFromTheFuture /\ OneOwner

LEMMA AcceptedElements ==
    ASSUME TypeOK
    PROVE  /\ Len(pushed) \in Nat /\ DOMAIN pushed = 1 .. Len(pushed)
           /\ \A n \in DOMAIN pushed : pushed[n] \in Nat /\ pushed[n] # NoItem
<1>1. pushed \in Seq(Items)
    BY DEF TypeOK
<1>2. Len(pushed) \in Nat /\ DOMAIN pushed = 1 .. Len(pushed)
    BY <1>1, LenProperties
<1>3. \A n \in 1 .. Len(pushed) : pushed[n] \in Items
    BY <1>1, ElementOfSeq
<1>. QED
    BY <1>2, <1>3, BoundAssumption DEF Items, NoItem

LEMMA MakeOwner ==
    ASSUME TypeOK, OwnerInv, NEW t \in Threads, Make(t)
    PROVE  OwnerInv'
<1>1. made \in Nat /\ made' = made + 1 /\ pushed' = pushed
    BY BoundAssumption DEF TypeOK, Make
<1>2. \A s \in Threads : hand'[s] = IF s = t THEN made + 1 ELSE hand[s]
    BY DEF TypeOK, Make
<1>3. \A s \in Threads : hand[s] \in Nat
    BY BoundAssumption DEF TypeOK, Items, NoItem
<1>4. \A n \in DOMAIN pushed : pushed[n] \in Nat
    BY AcceptedElements
<1>5. NoneFromTheFuture'
    BY <1>1, <1>2, <1>3, <1>4 DEF OwnerInv, NoneFromTheFuture
<1>6. \A i \in 1 .. made' : \/ \E s \in Threads : hand'[s] = i
                            \/ \E n \in DOMAIN pushed : pushed[n] = i
    <2> SUFFICES ASSUME NEW i \in 1 .. made'
                 PROVE  \/ \E s \in Threads : hand'[s] = i
                        \/ \E n \in DOMAIN pushed : pushed[n] = i
        OBVIOUS
    <2>1. CASE i = made + 1
        BY <1>2, <2>1
    <2>2. CASE i # made + 1
        <3>1. i \in 1 .. made
            BY <1>1, <2>2
        <3>2. \A s \in Threads : hand[s] = i => hand'[s] = i
            BY <1>2, <3>1 DEF Make, NoItem
        <3>. QED
            BY <3>1, <3>2 DEF OwnerInv, OneOwner
    <2>. QED
        BY <2>1, <2>2
<1>. QED
    BY <1>1, <1>2, <1>3, <1>4, <1>5, <1>6 DEF OwnerInv, NoneFromTheFuture, OneOwner, NoItem

LEMMA AcceptOwner ==
    ASSUME TypeOK, OwnerInv, NEW t \in Threads, op[t] \in PushOps, InternalEmplace(t)
    PROVE  OwnerInv'
<1>1. hand[t] \in Items /\ hand[t] # NoItem /\ made' = made
    BY DEF TypeOK, InternalEmplace
<1>2. \A s \in Threads : hand'[s] = IF s = t THEN NoItem ELSE hand[s]
    BY DEF TypeOK, InternalEmplace
<1>3. /\ Len(pushed) \in Nat /\ DOMAIN pushed = 1 .. Len(pushed)
      /\ DOMAIN pushed' = 1 .. Len(pushed) + 1
      /\ \A n \in 1 .. Len(pushed) : pushed'[n] = pushed[n]
      /\ pushed'[Len(pushed) + 1] = hand[t]
    BY <1>1, AppendProperties, LenProperties DEF TypeOK, InternalEmplace
<1>4. NoneFromTheFuture'
    <2>1. made \in Nat /\ hand[t] <= made
        BY BoundAssumption DEF OwnerInv, NoneFromTheFuture, TypeOK
    <2>2. \A s \in Threads : hand'[s] <= made'
        BY <1>1, <1>2, <2>1 DEF OwnerInv, NoneFromTheFuture, NoItem
    <2>3. \A n \in DOMAIN pushed' : pushed'[n] <= made'
        BY <1>1, <1>3, <2>1 DEF OwnerInv, NoneFromTheFuture
    <2>. QED
        BY <2>2, <2>3 DEF NoneFromTheFuture
<1>5. \A i \in 1 .. made : \/ \E s \in Threads : hand'[s] = i
                           \/ \E n \in DOMAIN pushed' : pushed'[n] = i
    BY <1>1, <1>2, <1>3 DEF OwnerInv, OneOwner
<1>6. \A m, n \in DOMAIN pushed' : pushed'[m] = pushed'[n] => m = n
    BY <1>1, <1>3 DEF OwnerInv, OneOwner
<1>7. \A s \in Threads, n \in DOMAIN pushed' : hand'[s] # pushed'[n]
    <2>1. \A n \in 1 .. Len(pushed) : pushed[n] # NoItem /\ pushed[n] # hand[t]
        BY <1>3, AcceptedElements DEF OwnerInv, OneOwner
    <2>2. \A s \in Threads : s # t /\ hand[s] # NoItem => hand[s] # hand[t]
        BY DEF OwnerInv, OneOwner
    <2>. QED
        BY <1>1, <1>2, <1>3, <2>1, <2>2 DEF OwnerInv, OneOwner
<1>8. \A r, s \in Threads : hand'[r] = hand'[s] /\ hand'[r] # NoItem => r = s
    BY <1>2 DEF OwnerInv, OneOwner
<1>. QED
    BY <1>1, <1>4, <1>5, <1>6, <1>7, <1>8 DEF OwnerInv, OneOwner

LEMMA NextOwner == TypeOK /\ OwnerInv /\ [Next]_vars => OwnerInv'
<1> SUFFICES ASSUME TypeOK, OwnerInv, [Next]_vars PROVE OwnerInv'
    OBVIOUS
<1>1. CASE UNCHANGED <<hand, made, pushed>>
    BY <1>1 DEF OwnerInv, NoneFromTheFuture, OneOwner
<1>2. ASSUME NEW t \in Threads, Method(t) PROVE OwnerInv'
    BY <1>1, <1>2, MethodCases, AcceptOwner DEF Wait, GiveUp, InternalPop
<1>. QED
    BY <1>1, <1>2, StepCases, MakeOwner DEF vars, Call, Expire, Wake

\* An element is in one hand or accepted once, never both and never nowhere:
\* a failing TryPush keeps it with its caller.
THEOREM OwnerUnique == Spec => []OneOwner
<1>1. Init => OwnerInv
    BY DEF Init, OwnerInv, NoneFromTheFuture, OneOwner, NoItem
<1>2. OwnerInv => OneOwner
    BY DEF OwnerInv
<1>. QED
    BY <1>1, <1>2, TypeCorrect, NextOwner, PTL DEF Spec
=============================================================================
