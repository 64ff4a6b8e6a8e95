-------------------------------- MODULE Fifo --------------------------------
(***************************************************************************)
(* What BlockQueue promises to its users: items come out in the order they *)
(* were put in, each goes to one thread, nothing comes out of a closed     *)
(* queue, and whoever asks is served or refused.  Mutex, condition         *)
(* variable and wakeups are not visible here.                              *)
(***************************************************************************)
EXTENDS Sequences

CONSTANTS Threads, Items

VARIABLES contents,  \* items put in and not handed out, oldest first
          open,      \* FALSE once the queue was stopped
          asking,    \* the threads that wait for an item
          got,       \* per thread, the items it was handed, in order
          refused    \* the threads that were told that the queue is stopped

vars == <<contents, open, asking, got, refused>>

Init ==
  /\ contents = <<>>
  /\ open = TRUE
  /\ asking = {}
  /\ got = [t \in Threads |-> <<>>]
  /\ refused = {}

Put(x) ==
  /\ open
  /\ contents' = Append(contents, x)
  /\ UNCHANGED <<open, asking, got, refused>>

(* Only an empty queue makes a thread wait.                                *)
Ask(t) ==
  /\ open /\ contents = <<>>
  /\ asking' = asking \cup {t}
  /\ UNCHANGED <<contents, open, got, refused>>

(* The oldest item goes to t, whether t has been waiting or not.           *)
Take(t) ==
  /\ open /\ contents # <<>>
  /\ got' = [got EXCEPT ![t] = Append(@, Head(contents))]
  /\ contents' = Tail(contents)
  /\ asking' = asking \ {t}
  /\ UNCHANGED <<open, refused>>

Refuse(t) ==
  /\ ~open
  /\ refused' = refused \cup {t}
  /\ asking' = asking \ {t}
  /\ UNCHANGED <<contents, open, got>>

Close ==
  /\ open' = FALSE
  /\ UNCHANGED <<contents, asking, got, refused>>

Next ==
  \/ \E x \in Items : Put(x)
  \/ \E t \in Threads : Ask(t) \/ Take(t) \/ Refuse(t)
  \/ Close

SafeSpec == Init /\ [][Next]_vars

(* While there is an item and somebody waits, somebody who waits or comes  *)
(* by is handed one; once the queue is closed, all who wait are refused.   *)
Spec ==
  /\ SafeSpec
  /\ WF_vars(asking # {} /\ \E t \in Threads : Take(t))
  /\ \A t \in Threads : WF_vars(t \in asking /\ Refuse(t))
=============================================================================
