--------------------------- MODULE BlockQueueProofs ---------------------------
(* Proofs about BlockQueue, for every finite set of threads and any items. *)
EXTENDS BlockQueue, SequenceTheorems, FiniteSetTheorems, TLAPS

(* The two parts hold each other up: that no wakeup is lost counts the     *)
(* woken threads, which must not be among the waiting ones.                *)
IInv == TypeOK /\ NoLostWakeup

-----------------------------------------------------------------------------
(* The first item goes and the others stay.                                *)
LEMMA PopType ==
  ASSUME TypeOK, NEW t \in Threads, queue_ # <<>>, Pop(t)
  PROVE  /\ queue_' \in Seq(Items)
         /\ Len(queue_') = Len(queue_) - 1
         /\ got' \in [Threads -> Seq(Items)]
<1> USE DEF TypeOK, Pop
<1>1. Head(queue_) \in Items /\ Tail(queue_) \in Seq(Items)
      /\ Len(Tail(queue_)) = Len(queue_) - 1
  BY HeadTailProperties
<1>2. got[t] \in Seq(Items)
  OBVIOUS
<1>3. Append(got[t], Head(queue_)) \in Seq(Items)
  BY <1>1, <1>2, AppendProperties
<1> QED
  BY <1>1, <1>3

(* Waking one thread more makes one more woken.                            *)
LEMMA WokenCount ==
  ASSUME woken \subseteq Threads, NEW t \in Threads
  PROVE  /\ Cardinality(woken) \in Nat
         /\ t \notin woken => Cardinality(woken \cup {t}) = Cardinality(woken) + 1
         /\ t \in woken => Cardinality(woken \ {t}) = Cardinality(woken) - 1
<1>1. IsFiniteSet(woken)
  BY ThreadsAssumption, FS_Subset
<1> QED
  BY <1>1, FS_CardinalityType, FS_AddElement, FS_RemoveElement

(* notify_one: a waiter, if there is one, becomes a woken thread.          *)
LEMMA NotifyOneWakes ==
  ASSUME TypeOK, NotifyOne
  PROVE  /\ waiting' \subseteq Threads
         /\ woken' \subseteq Threads \ waiting'
         /\ waiting' \cup woken' = waiting \cup woken
         /\ waiting' # {} => Cardinality(woken') = Cardinality(woken) + 1
<1> USE DEF TypeOK
<1>1. CASE waiting = {}
  BY <1>1 DEF NotifyOne
<1>2. CASE waiting # {}
  <2>1. PICK t \in waiting : waiting' = waiting \ {t} /\ woken' = woken \cup {t}
    BY <1>2 DEF NotifyOne
  <2>2. Cardinality(woken \cup {t}) = Cardinality(woken) + 1
    BY <2>1, WokenCount
  <2> QED
    BY <2>1, <2>2
<1> QED
  BY <1>1, <1>2

LEMMA InitInv == Init => IInv
  BY EmptySeq DEF Init, IInv, TypeOK, NoLostWakeup

(* What follows the wait, for the thread that comes from it or never       *)
(* waited.                                                                 *)
LEMMA DequeueEndsType ==
  ASSUME TypeOK, NEW t \in Threads, WaitOver, DequeueEnds(t)
  PROVE  /\ queue_' \in Seq(Items)
         /\ got' \in [Threads -> Seq(Items)]
         /\ refused' \subseteq Threads
         /\ running_flag_ => Len(queue_') = Len(queue_) - 1
<1>1. CASE running_flag_
  BY <1>1, PopType DEF DequeueEnds, WaitOver, TypeOK
<1>2. CASE ~running_flag_
  BY <1>2 DEF DequeueEnds, TypeOK
<1> QED
  BY <1>1, <1>2

(* Every step keeps IInv: who takes an item that was not announced to it   *)
(* is outweighed by the woken thread that then finds nothing and waits     *)
(* again (block_queue.h:27-64).                                            *)
LEMMA StepInv == IInv /\ [Next]_vars => IInv'
<1> SUFFICES ASSUME IInv, [Next]_vars PROVE IInv'
  OBVIOUS
<1> USE DEF IInv, TypeOK, NoLostWakeup
<1>0. Len(queue_) \in Nat
  BY LenProperties
<1>1. ASSUME NEW t \in Threads, NEW x \in Items, Enqueue(t, x) PROVE IInv'
  <2>1. queue_' \in Seq(Items) /\ Len(queue_') = Len(queue_) + 1
    BY <1>1, AppendProperties DEF Enqueue
  <2>2. waiting' # {} => waiting # {}
    BY <1>1 DEF Enqueue, NotifyOne
  <2>3. Cardinality(woken) \in Nat
    BY WokenCount
  <2> QED
    BY <1>0, <1>1, <2>1, <2>2, <2>3, NotifyOneWakes DEF Enqueue
<1>2. ASSUME NEW t \in Threads, Dequeue(t) PROVE IInv'
  <2>1. Cardinality(woken) \in Nat
    BY WokenCount
  <2>2. CASE WaitOver
    BY <1>0, <1>2, <2>1, <2>2, DequeueEndsType DEF Dequeue
  <2>3. CASE ~WaitOver
    BY <1>2, <2>1, <2>3, EmptySeq DEF Dequeue, WaitOver, MayCall, InDequeue
  <2> QED
    BY <2>2, <2>3
<1>3. ASSUME NEW t \in Threads, DequeueWakes(t) PROVE IInv'
  <2>1. Cardinality(woken') \in Nat /\ Cardinality(woken') = Cardinality(woken) - 1
    <3>1. t \in woken /\ woken' = woken \ {t}
      BY <1>3 DEF DequeueWakes
    <3>2. IsFiniteSet(woken')
      BY <3>1, ThreadsAssumption, FS_Subset
    <3> QED
      BY <3>1, <3>2, WokenCount, FS_CardinalityType
  <2>2. CASE WaitOver
    <3>1. /\ woken' = woken \ {t}
          /\ DequeueEnds(t)
          /\ UNCHANGED <<waiting, running_flag_, destroyed>>
      BY <1>3, <2>2 DEF DequeueWakes
    <3>2. /\ queue_' \in Seq(Items)
          /\ got' \in [Threads -> Seq(Items)]
          /\ refused' \subseteq Threads
          /\ running_flag_ => Len(queue_') = Len(queue_) - 1
      BY <2>2, <3>1, DequeueEndsType
    <3>3. TypeOK'
      BY <3>1, <3>2
    <3>4. Cardinality(woken) \in Nat
      BY WokenCount
    <3>5. NoLostWakeup'
      BY <1>0, <2>1, <3>1, <3>2, <3>4
    <3> QED
      BY <3>3, <3>5
  <2>3. CASE ~WaitOver
    BY <1>3, <2>1, <2>3, EmptySeq DEF DequeueWakes, WaitOver
  <2> QED
    BY <2>2, <2>3
<1>4. ASSUME NEW t \in Threads, SpuriousWakeup(t) PROVE IInv'
  <2>1. Cardinality(woken) \in Nat /\ Cardinality(woken') = Cardinality(woken) + 1
    BY <1>4, WokenCount DEF SpuriousWakeup
  <2> QED
    BY <1>0, <1>4, <2>1 DEF SpuriousWakeup
<1>5. ASSUME NEW t \in Threads, TryDequeue(t) PROVE IInv'
  <2>1. Cardinality(woken) \in Nat
    BY WokenCount
  <2> QED
    BY <1>0, <1>5, <2>1, PopType DEF TryDequeue
<1>6. ASSUME NEW t \in Threads, Stop(t) PROVE IInv'
  BY <1>6 DEF Stop, NotifyAll
<1>7. ASSUME NEW t \in Threads, Destroy(t) PROVE IInv'
  BY <1>7 DEF Destroy, InDequeue
<1>8. CASE UNCHANGED vars
  BY <1>8 DEF vars
<1> QED
  BY <1>1, <1>2, <1>3, <1>4, <1>5, <1>6, <1>7, <1>8 DEF Next

LEMMA InvariantHolds == Spec => []IInv
<1> QED
  BY InitInv, StepInv, PTL DEF Spec

-----------------------------------------------------------------------------
(* Type correctness, for any number of threads.                            *)
THEOREM TypeCorrect == Spec => []TypeOK
<1>1. IInv => TypeOK
  BY DEF IInv
<1> QED
  BY <1>1, InvariantHolds, PTL

(* No wakeup is lost, whoever steals items from woken threads and however  *)
(* often threads wake up by themselves; and nobody sleeps in a stopped     *)
(* queue (block_queue.h:31, 43, 62-63).                                    *)
THEOREM NobodySleepsThroughItems == Spec => []NoLostWakeup
<1>1. IInv => NoLostWakeup
  BY DEF IInv
<1> QED
  BY <1>1, InvariantHolds, PTL

-----------------------------------------------------------------------------
(* A Dequeue past its wait is a Take or a Refuse of Fifo, for a thread     *)
(* that was asking or not.                                                 *)
LEMMA EndsRefine ==
  ASSUME TypeOK, NEW t \in Threads, WaitOver, DequeueEnds(t),
         InDequeue' = InDequeue \ {t}, UNCHANGED running_flag_
  PROVE  F!Next
<1>1. CASE running_flag_
  <2>1. F!Take(t)
    BY <1>1 DEF DequeueEnds, WaitOver, Pop, F!Take
  <2> QED
    BY <2>1 DEF F!Next
<1>2. CASE ~running_flag_
  <2>1. F!Refuse(t)
    BY <1>2 DEF DequeueEnds, F!Refuse
  <2> QED
    BY <2>1 DEF F!Next
<1> QED
  BY <1>1, <1>2 DEF TypeOK

(* Every step of the queue is one of Fifo or leaves it as it is.           *)
LEMMA StepRefines == IInv /\ [Next]_vars => [F!Next]_(F!vars)
<1> SUFFICES ASSUME IInv, [Next]_vars PROVE F!Next \/ UNCHANGED F!vars
  OBVIOUS
<1> USE DEF IInv
<1>1. ASSUME NEW t \in Threads, NEW x \in Items, Enqueue(t, x) PROVE F!Next
  <2>1. InDequeue' = InDequeue
    BY <1>1, NotifyOneWakes DEF Enqueue, InDequeue
  <2>2. F!Put(x)
    BY <1>1, <2>1 DEF Enqueue, F!Put
  <2> QED
    BY <2>2 DEF F!Next
<1>2. ASSUME NEW t \in Threads, Dequeue(t) PROVE F!Next
  <2>1. CASE WaitOver
    BY <1>2, <2>1, EndsRefine DEF Dequeue, MayCall, InDequeue
  <2>2. CASE ~WaitOver
    <3>1. F!Ask(t)
      BY <1>2, <2>2 DEF Dequeue, WaitOver, InDequeue, F!Ask
    <3> QED
      BY <3>1 DEF F!Next
  <2> QED
    BY <2>1, <2>2
<1>3. ASSUME NEW t \in Threads, DequeueWakes(t)
      PROVE  F!Next \/ UNCHANGED F!vars
  <2>1. CASE WaitOver
    <3>1. InDequeue' = InDequeue \ {t}
      BY <1>3, <2>1 DEF DequeueWakes, InDequeue, TypeOK
    <3> QED
      BY <1>3, <2>1, <3>1, EndsRefine DEF DequeueWakes
  <2>2. CASE ~WaitOver
    BY <1>3, <2>2 DEF DequeueWakes, InDequeue, F!vars
  <2> QED
    BY <2>1, <2>2
<1>4. ASSUME NEW t \in Threads, SpuriousWakeup(t) PROVE UNCHANGED F!vars
  BY <1>4 DEF SpuriousWakeup, InDequeue, F!vars
<1>5. ASSUME NEW t \in Threads, TryDequeue(t) PROVE F!Next
  <2>1. F!Take(t)
    BY <1>5 DEF TryDequeue, MayCall, InDequeue, Pop, F!Take
  <2> QED
    BY <2>1 DEF F!Next
<1>6. ASSUME NEW t \in Threads, Stop(t) PROVE F!Next
  <2>1. F!Close
    BY <1>6 DEF Stop, NotifyAll, InDequeue, F!Close
  <2> QED
    BY <2>1 DEF F!Next
<1>7. ASSUME NEW t \in Threads, Destroy(t) PROVE F!Next
  <2>1. F!Close
    BY <1>7 DEF Destroy, InDequeue, F!Close
  <2> QED
    BY <2>1 DEF F!Next
<1>8. CASE UNCHANGED vars
  BY <1>8 DEF vars, InDequeue, F!vars
<1> QED
  BY <1>1, <1>2, <1>3, <1>4, <1>5, <1>6, <1>7, <1>8 DEF Next

(* The queue hands its items out in the order they came, each to one       *)
(* thread, and none after Stop (block_queue.h:27-64): the part of          *)
(* ImplementsFifo that is not fairness.                                    *)
THEOREM ImplementsFifoSafely == Spec => F!SafeSpec
<1>1. Init => F!Init
  BY DEF Init, InDequeue, F!Init
<1> QED
  BY <1>1, StepRefines, InvariantHolds, PTL DEF Spec, F!SafeSpec
=============================================================================
