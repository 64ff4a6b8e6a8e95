----------------------------- MODULE BlockQueue -----------------------------
(***************************************************************************)
(* src/utils/common/block_queue.h: an unbounded queue between threads.     *)
(* Dequeue waits on cond_ for an item or for Stop; Stop makes every call   *)
(* that waits, and every later one, throw BlockQueueStoppedException.      *)
(*                                                                         *)
(* Each method holds mutex_ from its beginning to its end, except while it *)
(* waits, so a method, or the part of Dequeue before or after a wait, is   *)
(* one step.  Size and IsRunning change nothing.                           *)
(***************************************************************************)
EXTENDS Integers, Sequences, FiniteSets

CONSTANTS
  Threads,  \* the threads that use the queue
  Items     \* what they put in, each of them once

ASSUME ThreadsAssumption == IsFiniteSet(Threads)

VARIABLES
  queue_,
  running_flag_,
  waiting,    \* the threads blocked on cond_ in Dequeue
  woken,      \* those taken off cond_ that have not got mutex_ back
  destroyed,  \* ~BlockQueue has returned
  got,        \* history: per thread, the items handed to it
  refused     \* history: the threads in which Dequeue threw

vars == <<queue_, running_flag_, waiting, woken, destroyed, got, refused>>

Init ==
  /\ queue_ = <<>>
  /\ running_flag_ = TRUE
  /\ waiting = {}
  /\ woken = {}
  /\ destroyed = FALSE
  /\ got = [t \in Threads |-> <<>>]
  /\ refused = {}

Elems(s) == {s[i] : i \in DOMAIN s}

New(x) == x \notin Elems(queue_) \cup UNION {Elems(got[t]) : t \in Threads}

InDequeue == waiting \cup woken

MayCall(t) == ~destroyed /\ t \notin InDequeue

-----------------------------------------------------------------------------
(* cond_.notify_one(): some waiter, if there is one.                       *)
NotifyOne ==
  IF waiting = {} THEN UNCHANGED <<waiting, woken>>
  ELSE \E t \in waiting : waiting' = waiting \ {t} /\ woken' = woken \cup {t}

(* Wrong: the waiters are not taken off the list.                          *)
NotifyAllAgain == waiting' = waiting /\ woken' = woken \cup waiting

NotifyAll == waiting' = {} /\ woken' = woken \cup waiting

(* Wrong: only the first item is announced.                                *)
EnqueueFirstNotifies(t, x) ==
  /\ MayCall(t)
  /\ New(x)
  /\ running_flag_
  /\ queue_' = Append(queue_, x)
  /\ IF queue_ = <<>> THEN NotifyOne ELSE UNCHANGED <<waiting, woken>>
  /\ UNCHANGED <<running_flag_, destroyed, got, refused>>

(* A stopped queue throws and keeps what it has.                           *)
Enqueue(t, x) ==
  /\ MayCall(t)
  /\ New(x)
  /\ running_flag_
  /\ queue_' = Append(queue_, x)
  /\ NotifyOne
  /\ UNCHANGED <<running_flag_, destroyed, got, refused>>

(* The predicate of cond_.wait.                                            *)
WaitOver == queue_ # <<>> \/ ~running_flag_

Pop(t) ==
  /\ got' = [got EXCEPT ![t] = Append(@, Head(queue_))]
  /\ queue_' = Tail(queue_)

(* Wrong: what is left is handed out before the exception.                 *)
DequeueEndsDraining(t) ==
  IF queue_ # <<>> THEN Pop(t) /\ UNCHANGED refused
  ELSE refused' = refused \cup {t} /\ UNCHANGED <<got, queue_>>

(* What follows the wait.                                                  *)
DequeueEnds(t) ==
  IF running_flag_ THEN Pop(t) /\ UNCHANGED refused
  ELSE refused' = refused \cup {t} /\ UNCHANGED <<got, queue_>>

Dequeue(t) ==
  /\ MayCall(t)
  /\ IF WaitOver
     THEN DequeueEnds(t) /\ UNCHANGED waiting
     ELSE waiting' = waiting \cup {t} /\ UNCHANGED <<queue_, got, refused>>
  /\ UNCHANGED <<running_flag_, woken, destroyed>>

(* A woken thread has mutex_ again: the predicate is tested once more, as  *)
(* others may have taken the item meanwhile.                               *)
DequeueWakes(t) ==
  /\ t \in woken
  /\ woken' = woken \ {t}
  /\ IF WaitOver
     THEN DequeueEnds(t) /\ UNCHANGED waiting
     ELSE waiting' = waiting \cup {t} /\ UNCHANGED <<queue_, got, refused>>
  /\ UNCHANGED <<running_flag_, destroyed>>

SpuriousWakeup(t) ==
  /\ t \in waiting
  /\ waiting' = waiting \ {t}
  /\ woken' = woken \cup {t}
  /\ UNCHANGED <<queue_, running_flag_, destroyed, got, refused>>

(* An empty or stopped queue returns nullopt.                              *)
TryDequeue(t) ==
  /\ MayCall(t)
  /\ queue_ # <<>> /\ running_flag_
  /\ Pop(t)
  /\ UNCHANGED <<running_flag_, waiting, woken, destroyed, refused>>

Stop(t) ==
  /\ MayCall(t)
  /\ running_flag_' = FALSE
  /\ NotifyAll
  /\ UNCHANGED <<queue_, destroyed, got, refused>>

(* The destructor stops the queue.  To destroy it while a thread is in one *)
(* of its methods is undefined whatever the destructor does; the owner     *)
(* destroys it when all calls have come back.                              *)
Destroy(t) ==
  /\ MayCall(t)
  /\ InDequeue = {}
  /\ running_flag_' = FALSE
  /\ destroyed' = TRUE
  /\ UNCHANGED <<queue_, waiting, woken, got, refused>>

-----------------------------------------------------------------------------
Next ==
  \E t \in Threads :
    \/ \E x \in Items : Enqueue(t, x)
    \/ Dequeue(t) \/ DequeueWakes(t) \/ SpuriousWakeup(t)
    \/ TryDequeue(t)
    \/ Stop(t) \/ Destroy(t)

Spec == Init /\ [][Next]_vars

(* mutex_ goes to some woken thread in the end, not to a certain one.      *)
(* Nobody is obliged to call anything or to wake anyone spuriously.        *)
FairSpec == Spec /\ WF_vars(\E t \in Threads : DequeueWakes(t))

-----------------------------------------------------------------------------
(* Properties.                                                             *)

(* Types of the variables; waiting and woken are the two ways to be in     *)
(* Dequeue.                                                                *)
TypeOK ==
  /\ queue_ \in Seq(Items)
  /\ {running_flag_, destroyed} \subseteq BOOLEAN
  /\ waiting \subseteq Threads
  /\ woken \subseteq Threads \ waiting
  /\ got \in [Threads -> Seq(Items)]
  /\ refused \subseteq Threads

(* While a thread sleeps in Dequeue, every item in the queue has a woken   *)
(* thread on its way to it, although items are taken by others first and   *)
(* woken threads go back to sleep; and nobody sleeps once the queue is     *)
(* stopped (block_queue.h:31, 43, 62-63).                                  *)
NoLostWakeup ==
  waiting # {} => running_flag_ /\ Len(queue_) <= Cardinality(woken)

F == INSTANCE Fifo
       WITH contents <- queue_, open <- running_flag_, asking <- InDequeue

(* The queue keeps the promise of Fifo: first in first out, each item to   *)
(* one thread, also to those that come by while others wait, nothing after *)
(* Stop, whoever waits is served while there are items, and refused after  *)
(* Stop (block_queue.h:27-64; block_queue_test.cc:29-36, 83-85).           *)
ImplementsFifo == F!Spec
=============================================================================
