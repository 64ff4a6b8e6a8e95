-------------------------- MODULE NearTasksProofs --------------------------
(***************************************************************************)
(* For near tasks the wheels implement TimerService: the proof, step by    *)
(* step, for any number of levels of any size, any tasks, times and calls. *)
(***************************************************************************)
EXTENDS TimeWheelServiceProofs

(* A near task is kept once, so that it runs once: no list has it twice,   *)
(* no two lists have it, and nothing that was run is kept anywhere.        *)
Once(list) ==
  \A i, j \in DOMAIN list :
    list[i].task = list[j].task /\ fate[list[i].task] = "near" => i = j

KeptOnce ==
  /\ Once(task_list)
  /\ timing_wheel_vec_ # <<>> =>
       \A slot \in 0 .. WheelSize[1] - 1 :
         Once(timing_wheel_vec_[1].wheel[slot])

OneEntry ==
  \A d, e \in NearEntries : d.task = e.task => d = e

NotDone(list) == \A i \in DOMAIN list : fate[list[i].task] # "done"

NoneDone ==
  /\ NotDone(task_list)
  /\ timing_wheel_vec_ # <<>> =>
       \A ii \in Levels : \A slot \in 0 .. WheelSize[ii] - 1 :
         NotDone(timing_wheel_vec_[ii].wheel[slot])
  /\ \A key \in DOMAIN timing_task_map_ : NotDone(timing_task_map_[key])

OnceInv ==
  /\ KeptOnce /\ OneEntry /\ NoneDone
  /\ timing_wheel_vec_ = <<>> => task_list = <<>>

-----------------------------------------------------------------------------
(* TasksIn.                                                                *)

(* f records what TasksIn has collected after each entry of the list.      *)
Collects(f, list, due) ==
  /\ f[0] = <<>>
  /\ \A i \in 1 .. Len(list) :
       f[i] = IF list[i] \in due THEN Append(f[i - 1], list[i].task)
              ELSE f[i - 1]

LEMMA Collecting ==
  ASSUME NEW list \in Seq(Entries), NEW due
  PROVE  \E f \in [0 .. Len(list) -> Seq(Tasks)] :
           Collects(f, list, due) /\ TasksIn(list, due) = f[Len(list)]
<1> DEFINE n == Len(list)
           S == Seq(Tasks)
           next(i, x) == IF list[i] \in due THEN Append(x, list[i].task) ELSE x
           step == [i \in 1 .. n |-> [x \in S |-> next(i, x)]]
           body(g) == [i \in 0 .. n |->
                         IF i = 0 THEN <<>> ELSE next(i, g[i - 1])]
           F == CHOOSE g : g = body(g)
           typed == {m \in 0 .. n : F[m] \in S}
<1>1. n \in Nat /\ \A i \in 1 .. n : list[i] \in Entries
  BY ElementOfSeq, LenProperties
<1>2. <<>> \in S
  OBVIOUS
<1>3. \A i \in 1 .. n, x \in S : next(i, x) \in S
  <2> TAKE i \in 1 .. n, x \in S
  <2>1. list[i].task \in Tasks
    BY <1>1 DEF Entries
  <2>2. Append(x, list[i].task) \in S
    BY <2>1, AppendProperties
  <2> QED
    BY <2>2
<1>4. TasksIn(list, due) = F[n]
  BY DEF TasksIn
<1> HIDE DEF S, next
<1>5. PICK f : Iterates(f, S, n, <<>>, step)
  <2>1. step \in [1 .. n -> [S -> S]]
    BY <1>3
  <2> HIDE DEF step, n
  <2> QED
    BY <1>1, <1>2, <2>1, Recursion
<1>6. f = body(f)
  <2>1. f \in [0 .. n -> S] /\ f[0] = <<>>
        /\ \A i \in 1 .. n : f[i] = step[i][f[i - 1]]
    BY <1>5 DEF Iterates
  <2>2. ASSUME NEW i \in 1 .. n PROVE f[i] = next(i, f[i - 1])
    <3>1. i - 1 \in 0 .. n
      BY <1>1, SMT
    <3>2. f[i - 1] \in S
      BY <2>1, <3>1
    <3> QED
      BY <2>1, <3>2
  <2>3. \A i \in 0 .. n : i # 0 => i \in 1 .. n
    BY <1>1, SMT
  <2>4. \A i \in 0 .. n : f[i] = IF i = 0 THEN <<>> ELSE next(i, f[i - 1])
    BY <2>1, <2>2, <2>3
  <2> QED
    BY <2>1, <2>4
<1>7. F = body(F)
  <2> HIDE DEF body
  <2> QED
    BY <1>6, Zenon
<1> HIDE DEF F
<1>8. \A i \in 0 .. n : F[i] = IF i = 0 THEN <<>> ELSE next(i, F[i - 1])
  BY <1>7
<1>9. 0 \in 0 .. n /\ \A i \in 1 .. n : i \in 0 .. n /\ i # 0
  BY <1>1, SMT
<1>10. F[0] = <<>> /\ \A i \in 1 .. n : F[i] = next(i, F[i - 1])
  BY <1>8, <1>9
<1>11. 0 .. n \subseteq typed
  <2>1. 0 \in typed
    BY <1>2, <1>9, <1>10
  <2>2. ASSUME NEW m \in 0 .. n - 1, m \in typed PROVE m + 1 \in typed
    <3>1. m + 1 \in 1 .. n /\ (m + 1) - 1 = m
      BY <1>1, SMT
    <3> QED
      BY <1>3, <1>9, <1>10, <2>2, <3>1
  <2> HIDE DEF typed, n
  <2> QED
    BY <1>1, <2>1, <2>2, Induction
<1>12. F = [i \in 0 .. n |-> F[i]]
  BY <1>7
<1>13. F \in [0 .. n -> S]
  BY <1>11, <1>12
<1>14. Collects(F, list, due)
  BY <1>10 DEF Collects, next
<1> QED
  BY <1>4, <1>13, <1>14 DEF S

LEMMA TasksInType ==
  ASSUME NEW list \in Seq(Entries), NEW due
  PROVE  TasksIn(list, due) \in Seq(Tasks)
<1>1. Len(list) \in 0 .. Len(list)
  BY LenProperties, SMT
<1> QED
  BY <1>1, Collecting

(* Two lists with the same entries to collect, up to the n-th.             *)
LEMMA CollectsSame ==
  ASSUME NEW s \in Seq(Entries), NEW t \in Seq(Entries), NEW due, NEW due_,
         NEW f, NEW g, Collects(f, s, due), Collects(g, t, due_),
         NEW n \in 0 .. Len(s), n <= Len(t),
         \A i \in 1 .. n : /\ s[i].task = t[i].task
                           /\ s[i] \in due <=> t[i] \in due_
  PROVE  f[n] = g[n]
<1> DEFINE same == {m \in 0 .. n : f[m] = g[m]}
<1>1. Len(s) \in Nat /\ Len(t) \in Nat /\ n \in Nat
  BY LenProperties, SMT
<1>2. 0 \in same
  BY <1>1, SMT DEF Collects
<1>3. ASSUME NEW m \in 0 .. n - 1, m \in same PROVE m + 1 \in same
  <2>1. /\ m + 1 \in 1 .. n /\ m + 1 \in 0 .. n /\ (m + 1) - 1 = m
        /\ m + 1 \in 1 .. Len(s) /\ m + 1 \in 1 .. Len(t)
    BY <1>1, SMT
  <2>2. f[m] = g[m]
    BY <1>3
  <2>3. f[m + 1] = IF s[m + 1] \in due THEN Append(f[m], s[m + 1].task)
                   ELSE f[m]
    BY <2>1 DEF Collects
  <2>4. g[m + 1] = IF t[m + 1] \in due_ THEN Append(g[m], t[m + 1].task)
                   ELSE g[m]
    BY <2>1 DEF Collects
  <2>5. s[m + 1].task = t[m + 1].task /\ (s[m + 1] \in due <=> t[m + 1] \in due_)
    BY <2>1
  <2> QED
    BY <2>1, <2>2, <2>3, <2>4, <2>5
<1> HIDE DEF same
<1>4. 0 .. n \subseteq same
  BY <1>1, <1>2, <1>3, Induction
<1>5. n \in 0 .. n
  BY <1>1, SMT
<1> QED
  BY <1>4, <1>5 DEF same

(* What is behind the n-th entry and not due adds nothing.                 *)
LEMMA CollectsNoMore ==
  ASSUME NEW s \in Seq(Entries), NEW due, NEW f, Collects(f, s, due),
         NEW n \in 0 .. Len(s), \A i \in n + 1 .. Len(s) : s[i] \notin due
  PROVE  f[Len(s)] = f[n]
<1> DEFINE rest == Len(s) - n
           same == {m \in 0 .. rest : f[n + m] = f[n]}
<1>1. Len(s) \in Nat /\ n \in Nat /\ rest \in Nat /\ n + rest = Len(s)
      /\ n + 0 = n
  BY LenProperties, SMT
<1>2. 0 \in same
  BY <1>1, SMT
<1>3. ASSUME NEW m \in 0 .. rest - 1, m \in same PROVE m + 1 \in same
  <2>1. /\ m + 1 \in 0 .. rest /\ n + (m + 1) \in 1 .. Len(s)
        /\ (n + (m + 1)) - 1 = n + m /\ n + (m + 1) \in n + 1 .. Len(s)
    BY <1>1, SMT
  <2>2. f[n + (m + 1)] = f[n + m]
    BY <2>1 DEF Collects
  <2> QED
    BY <1>3, <2>1, <2>2
<1> HIDE DEF same, rest
<1>4. 0 .. rest \subseteq same
  BY <1>1, <1>2, <1>3, Induction
<1>5. rest \in 0 .. rest
  BY <1>1, SMT
<1> QED
  BY <1>1, <1>4, <1>5 DEF same

(* Entries appended that are not due make no difference.                   *)
LEMMA TasksInGrown ==
  ASSUME NEW s \in Seq(Entries), NEW t \in Seq(Entries), NEW due, NEW due_,
         Grows(s, t),
         \A i \in DOMAIN s : s[i] \in due <=> s[i] \in due_,
         \A i \in DOMAIN t : i \in DOMAIN s \/ t[i] \notin due_
  PROVE  TasksIn(t, due_) = TasksIn(s, due)
<1>1. PICK f : Collects(f, s, due) /\ TasksIn(s, due) = f[Len(s)]
  BY Collecting
<1>2. PICK g : Collects(g, t, due_) /\ TasksIn(t, due_) = g[Len(t)]
  BY Collecting
<1>3. Len(s) \in Nat /\ Len(t) \in Nat /\ DOMAIN s = 1 .. Len(s)
      /\ DOMAIN t = 1 .. Len(t)
  BY LenProperties
<1>4. Len(s) <= Len(t) /\ Len(s) \in 0 .. Len(s)
  <2>1. CASE Len(s) = 0
    BY <1>3, <2>1, SMT
  <2>2. CASE Len(s) # 0
    <3>1. Len(s) \in DOMAIN s
      BY <1>3, <2>2, SMT
    <3>2. Len(s) \in 1 .. Len(t)
      BY <1>3, <3>1 DEF Grows
    <3> QED
      BY <1>3, <3>2, SMT
  <2> QED
    BY <2>1, <2>2
<1>5. f[Len(s)] = g[Len(s)]
  <2>1. \A i \in 1 .. Len(s) : s[i] = t[i] /\ (s[i] \in due <=> s[i] \in due_)
    BY <1>3 DEF Grows
  <2>2. \A i \in 1 .. Len(s) : /\ s[i].task = t[i].task
                               /\ s[i] \in due <=> t[i] \in due_
    BY <2>1
  <2> QED
    BY <1>1, <1>2, <1>4, <2>2, CollectsSame
<1>6. g[Len(t)] = g[Len(s)]
  <2>1. Len(s) \in 0 .. Len(t)
    BY <1>3, <1>4, SMT
  <2>2. \A i \in Len(s) + 1 .. Len(t) : i \in DOMAIN t /\ i \notin DOMAIN s
    BY <1>3, SMT
  <2>3. \A i \in Len(s) + 1 .. Len(t) : t[i] \notin due_
    BY <2>2
  <2> QED
    BY <1>2, <2>1, <2>3, CollectsNoMore
<1> QED
  BY <1>1, <1>2, <1>5, <1>6

LEMMA TasksInNone ==
  ASSUME NEW s \in Seq(Entries), NEW due, \A i \in DOMAIN s : s[i] \notin due
  PROVE  TasksIn(s, due) = <<>>
<1>1. PICK f : Collects(f, s, due) /\ TasksIn(s, due) = f[Len(s)]
  BY Collecting
<1>2. Len(s) \in Nat /\ DOMAIN s = 1 .. Len(s) /\ 0 \in 0 .. Len(s)
  BY LenProperties, SMT
<1>3. \A i \in 0 + 1 .. Len(s) : s[i] \notin due
  BY <1>2
<1>4. f[Len(s)] = f[0]
  BY <1>1, <1>2, <1>3, CollectsNoMore
<1> QED
  BY <1>1, <1>4 DEF Collects

LEMMA TasksInAppend ==
  ASSUME NEW s \in Seq(Entries), NEW e \in Entries, NEW due
  PROVE  TasksIn(Append(s, e), due) =
           IF e \in due THEN Append(TasksIn(s, due), e.task)
           ELSE TasksIn(s, due)
<1> DEFINE t == Append(s, e)
<1>1. /\ t \in Seq(Entries) /\ Len(t) = Len(s) + 1
      /\ \A i \in 1 .. Len(s) : t[i] = s[i]
      /\ t[Len(s) + 1] = e
  BY AppendProperties
<1>2. Len(s) \in Nat
  BY LenProperties
<1> HIDE DEF t
<1>3. PICK f : Collects(f, s, due) /\ TasksIn(s, due) = f[Len(s)]
  BY Collecting
<1>4. PICK g : Collects(g, t, due) /\ TasksIn(t, due) = g[Len(t)]
  BY <1>1, Collecting
<1>5. f[Len(s)] = g[Len(s)]
  <2>1. Len(s) \in 0 .. Len(s) /\ Len(s) <= Len(t)
    BY <1>1, <1>2, SMT
  <2>2. \A i \in 1 .. Len(s) : /\ s[i].task = t[i].task
                               /\ s[i] \in due <=> t[i] \in due
    BY <1>1
  <2> QED
    BY <1>1, <1>3, <1>4, <2>1, <2>2, CollectsSame
<1>6. g[Len(t)] = IF e \in due THEN Append(g[Len(s)], e.task) ELSE g[Len(s)]
  <2>1. Len(s) + 1 \in 1 .. Len(t) /\ (Len(s) + 1) - 1 = Len(s)
    BY <1>1, <1>2, SMT
  <2> QED
    BY <1>1, <1>4, <2>1 DEF Collects
<1> QED
  BY <1>3, <1>4, <1>5, <1>6 DEF t

(* The first entry, if due, gives the first task.                          *)
LEMMA TasksInTail ==
  ASSUME NEW s \in Seq(Entries), s # <<>>, NEW due
  PROVE  /\ Tail(s) \in Seq(Entries)
         /\ Head(s) \notin due => TasksIn(s, due) = TasksIn(Tail(s), due)
         /\ Head(s) \in due =>
              /\ TasksIn(s, due) # <<>>
              /\ Head(TasksIn(s, due)) = Head(s).task
              /\ Tail(TasksIn(s, due)) = TasksIn(Tail(s), due)
<1> DEFINE t == Tail(s)
<1>1. /\ t \in Seq(Entries) /\ Len(t) = Len(s) - 1
      /\ \A i \in 1 .. Len(t) : t[i] = s[i + 1]
      /\ Head(s) \in Entries /\ Head(s) = s[1]
      /\ Len(s) \in Nat \ {0}
  BY HeadTailProperties, EmptySeq
<1> HIDE DEF t
<1>2. PICK f \in [0 .. Len(s) -> Seq(Tasks)] :
        Collects(f, s, due) /\ TasksIn(s, due) = f[Len(s)]
  BY Collecting
<1>3. PICK g \in [0 .. Len(t) -> Seq(Tasks)] :
        Collects(g, t, due) /\ TasksIn(t, due) = g[Len(t)]
  BY <1>1, Collecting
<1>4. Len(t) \in Nat
  BY <1>1, SMT
<1> DEFINE n == Len(t)
           skip == {m \in 0 .. n : f[m + 1] = g[m]}
           first(x, y) == /\ x # <<>>
                          /\ Head(x) = s[1].task
                          /\ Tail(x) = y
           take == {m \in 0 .. n : first(f[m + 1], g[m])}
<1>5. f[1] = IF s[1] \in due THEN Append(<<>>, s[1].task) ELSE <<>>
  <2>1. 1 \in 1 .. Len(s) /\ 1 - 1 = 0
    BY <1>1, SMT
  <2> QED
    BY <1>2, <2>1 DEF Collects
<1>6. ASSUME NEW m \in 0 .. n - 1
      PROVE  /\ m + 1 \in 0 .. n /\ (m + 1) - 1 = m
             /\ f[(m + 1) + 1] = IF t[m + 1] \in due
                                 THEN Append(f[m + 1], t[m + 1].task)
                                 ELSE f[m + 1]
             /\ g[m + 1] = IF t[m + 1] \in due THEN Append(g[m], t[m + 1].task)
                           ELSE g[m]
             /\ f[m + 1] \in Seq(Tasks) /\ g[m] \in Seq(Tasks)
             /\ t[m + 1].task \in Tasks
  <2>1. /\ m + 1 \in 1 .. n /\ m + 1 \in 0 .. n /\ (m + 1) - 1 = m /\ m \in 0 .. n
        /\ (m + 1) + 1 \in 1 .. Len(s) /\ ((m + 1) + 1) - 1 = m + 1
        /\ m + 1 \in 0 .. Len(s)
    BY <1>1, <1>4, SMT
  <2>2. t[m + 1] = s[(m + 1) + 1]
    BY <1>1, <2>1
  <2>3. t[m + 1].task \in Tasks
    <3>1. t[m + 1] \in Entries
      BY <1>1, <2>1, ElementOfSeq
    <3> QED
      BY <3>1 DEF Entries
  <2>4. f[(m + 1) + 1] = IF t[m + 1] \in due
                         THEN Append(f[m + 1], t[m + 1].task) ELSE f[m + 1]
    <3> DEFINE j == (m + 1) + 1
    <3>1. f[j] = IF s[j] \in due THEN Append(f[j - 1], s[j].task) ELSE f[j - 1]
      BY <1>2, <2>1 DEF Collects
    <3> QED
      BY <2>1, <2>2, <3>1
  <2>5. g[m + 1] = IF t[m + 1] \in due THEN Append(g[m], t[m + 1].task)
                   ELSE g[m]
    BY <1>3, <2>1 DEF Collects
  <2>6. f[m + 1] \in Seq(Tasks) /\ g[m] \in Seq(Tasks)
    BY <1>2, <1>3, <2>1
  <2> QED
    BY <2>1, <2>3, <2>4, <2>5, <2>6
<1>7. 0 + 1 = 1 /\ 0 \in 0 .. n /\ n \in 0 .. n /\ n + 1 = Len(s) /\ g[0] = <<>>
  BY <1>1, <1>3, <1>4, SMT DEF Collects
<1>8. CASE s[1] \notin due
  <2>1. 0 \in skip
    BY <1>5, <1>7, <1>8
  <2>2. ASSUME NEW m \in 0 .. n - 1, m \in skip PROVE m + 1 \in skip
    <3>1. f[m + 1] = g[m]
      BY <2>2
    <3>2. f[(m + 1) + 1] = g[m + 1]
      BY <1>6, <3>1
    <3> QED
      BY <1>6, <3>2
  <2>3. 0 .. n \subseteq skip
    <3> HIDE DEF skip, n
    <3> QED
      BY <1>4, <2>1, <2>2, Induction DEF n
  <2> QED
    BY <1>1, <1>2, <1>3, <1>7, <1>8, <2>3 DEF t
<1>9. CASE s[1] \in due
  <2>1. 0 \in take
    <3>1. f[0 + 1] = Append(<<>>, s[1].task)
      BY <1>5, <1>7, <1>9
    <3>2. s[1].task \in Tasks /\ <<>> \in Seq(Tasks)
      BY <1>1 DEF Entries
    <3>3. /\ Append(<<>>, s[1].task) # <<>>
          /\ Head(Append(<<>>, s[1].task)) = s[1].task
          /\ Tail(Append(<<>>, s[1].task)) = <<>>
      BY <3>2, AppendProperties, HeadTailAppend
    <3> QED
      BY <1>7, <3>1, <3>3
  <2>2. ASSUME NEW m \in 0 .. n - 1, m \in take PROVE m + 1 \in take
    <3>1. CASE t[m + 1] \notin due
      BY <1>6, <2>2, <3>1
    <3>2. CASE t[m + 1] \in due
      <4> DEFINE x == f[m + 1]
                 k == t[m + 1].task
      <4>1. x \in Seq(Tasks) /\ k \in Tasks /\ first(x, g[m])
        BY <1>6, <2>2
      <4>2. f[(m + 1) + 1] = Append(x, k) /\ g[m + 1] = Append(g[m], k)
        BY <1>6, <3>2
      <4>3. x # <<>> /\ Head(x) = s[1].task /\ Tail(x) = g[m]
        BY <4>1
      <4> HIDE DEF x, k, first
      <4>4. Append(x, k) # <<>>
        BY <4>1, AppendProperties
      <4>5. /\ Head(Append(x, k)) = Head(x)
            /\ Tail(Append(x, k)) = Append(Tail(x), k)
        BY <4>1, <4>3, HeadTailAppend, Zenon
      <4>6. first(f[(m + 1) + 1], g[m + 1])
        BY <4>2, <4>3, <4>4, <4>5 DEF first
      <4> QED
        BY <1>6, <4>6
    <3> QED
      BY <3>1, <3>2
  <2>3. 0 .. n \subseteq take
    <3> HIDE DEF take, n
    <3> QED
      BY <1>4, <2>1, <2>2, Induction DEF n
  <2>4. first(f[Len(s)], g[n])
    BY <1>7, <2>3
  <2> QED
    BY <1>1, <1>2, <1>3, <1>9, <2>4 DEF t
<1> QED
  BY <1>8, <1>9

LEMMA TasksInSome ==
  ASSUME NEW s \in Seq(Entries), NEW due, NEW i \in DOMAIN s, s[i] \in due
  PROVE  TasksIn(s, due) # <<>>
<1>1. PICK f \in [0 .. Len(s) -> Seq(Tasks)] :
        Collects(f, s, due) /\ TasksIn(s, due) = f[Len(s)]
  BY Collecting
<1>2. /\ Len(s) \in Nat /\ i \in 1 .. Len(s)
      /\ \A j \in 1 .. Len(s) : s[j].task \in Tasks
  <2>1. Len(s) \in Nat /\ i \in 1 .. Len(s)
    BY LenProperties
  <2>2. \A j \in 1 .. Len(s) : s[j] \in Entries
    BY ElementOfSeq
  <2> QED
    BY <2>1, <2>2 DEF Entries
<1> DEFINE rest == Len(s) - i
           some == {m \in 0 .. rest : f[i + m] # <<>>}
<1>3. rest \in Nat /\ i + 0 = i /\ i + rest = Len(s)
      /\ 0 \in 0 .. rest /\ rest \in 0 .. rest
  <2>1. \A l \in Nat : \A j \in 1 .. l :
          /\ l - j \in Nat /\ j + 0 = j /\ j + (l - j) = l
          /\ 0 \in 0 .. l - j /\ l - j \in 0 .. l - j
    BY SMT
  <2> QED
    BY <1>2, <2>1
<1>4. ASSUME NEW j \in 1 .. Len(s), s[j] \in due \/ f[j - 1] # <<>>
      PROVE  f[j] # <<>>
  <2>1. f[j] = IF s[j] \in due THEN Append(f[j - 1], s[j].task) ELSE f[j - 1]
    BY <1>1 DEF Collects
  <2>2. f[j - 1] \in Seq(Tasks)
    <3>1. j - 1 \in 0 .. Len(s)
      BY <1>2, SMT
    <3> QED
      BY <1>1, <3>1
  <2>3. Append(f[j - 1], s[j].task) # <<>>
    BY <1>2, <2>2, AppendProperties
  <2> QED
    BY <1>4, <2>1, <2>3
<1>5. 0 \in some
  <2>1. f[i] # <<>>
    BY <1>2, <1>4
  <2> QED
    BY <1>3, <2>1
<1>6. ASSUME NEW m \in 0 .. rest - 1, m \in some PROVE m + 1 \in some
  <2>1. /\ m + 1 \in 0 .. rest /\ i + (m + 1) \in 1 .. Len(s)
        /\ (i + (m + 1)) - 1 = i + m
    BY <1>2, <1>3, SMT
  <2> QED
    BY <1>4, <1>6, <2>1
<1>7. 0 .. rest \subseteq some
  <2> HIDE DEF some, rest
  <2> QED
    BY <1>3, <1>5, <1>6, Induction
<1> QED
  BY <1>1, <1>3, <1>7

-----------------------------------------------------------------------------
(* The agenda, tick by tick.                                               *)

LEMMA DueEntry ==
  ASSUME IInv, NEW e \in Entries, NEW n
  PROVE  e \in DueIn(n) <=> e.tick_count = n /\ fate[e.task] = "near"
BY DEF DueIn, Entries

LEMMA SlotType ==
  ASSUME IInv, timing_wheel_vec_ # <<>>, NEW ii \in Levels,
         NEW slot \in 0 .. WheelSize[ii] - 1
  PROVE  timing_wheel_vec_[ii].wheel[slot] \in Seq(Entries)
<1>1. timing_wheel_vec_[ii].wheel \in [0 .. WheelSize[ii] - 1 -> Seq(Entries)]
  BY DEF IInv, TypeOK
<1> QED
  BY <1>1

LEMMA SlotOfTick ==
  ASSUME NEW n \in Nat
  PROVE  n % WheelSize[1] \in 0 .. WheelSize[1] - 1
<1>1. WheelSize[1] \in Nat \ {0} /\ n \in Int
  BY LevelsOK
<1> QED
  BY <1>1, DivMod

(* The list being run holds near tasks of no tick but its own, a slot none *)
(* but those of its tick in the window.                                    *)
LEMMA ListPart ==
  ASSUME IInv, PlanInv, NEW n, n # current_tick_count_
  PROVE  TasksIn(task_list, DueIn(n)) = <<>>
<1>1. task_list \in Seq(Entries)
  BY DEF IInv, TypeOK
<1>2. ASSUME NEW i \in DOMAIN task_list PROVE task_list[i] \notin DueIn(n)
  <2>1. task_list[i] \in Entries /\ InListOK(task_list[i])
    BY EntryTypes DEF PlanInv, ListPlan
  <2> QED
    BY <2>1, DueEntry DEF InListOK
<1> QED
  BY <1>1, <1>2, TasksInNone

LEMMA SlotPart ==
  ASSUME IInv, PlanInv, timing_wheel_vec_ # <<>>, NEW n,
         NEW slot \in 0 .. WheelSize[1] - 1,
         ~ (n \in Window /\ n % WheelSize[1] = slot)
  PROVE  TasksIn(timing_wheel_vec_[1].wheel[slot], DueIn(n)) = <<>>
<1>1. 1 \in Levels /\ timing_wheel_vec_[1].wheel[slot] \in Seq(Entries)
  BY LevelsOK, SlotType
<1>2. ASSUME NEW i \in DOMAIN timing_wheel_vec_[1].wheel[slot]
      PROVE  timing_wheel_vec_[1].wheel[slot][i] \notin DueIn(n)
  <2> DEFINE e == timing_wheel_vec_[1].wheel[slot][i]
  <2>1. e \in Entries /\ InSlotOK(1, slot, e)
    BY <1>1, EntryTypes DEF PlanInv, WheelPlan
  <2> HIDE DEF e
  <2>2. e \notin DueIn(n)
    BY <2>1, DueEntry DEF InSlotOK
  <2> QED
    BY <2>2 DEF e
<1> QED
  BY <1>1, <1>2, TasksInNone

(* Either part may have tasks for a tick, but not both.                    *)
LEMMA RowIs ==
  ASSUME IInv, PlanInv, timing_wheel_vec_ # <<>>, NEW n \in Nat
  PROVE  NearIn(n) = IF InWindow /\ n = current_tick_count_
                     THEN TasksIn(task_list, DueIn(n))
                     ELSE TasksIn(timing_wheel_vec_[1].wheel[n % WheelSize[1]],
                                  DueIn(n))
<1> DEFINE slot == n % WheelSize[1]
           x == TasksIn(task_list, DueIn(n))
           y == TasksIn(timing_wheel_vec_[1].wheel[slot], DueIn(n))
<1>1. slot \in 0 .. WheelSize[1] - 1 /\ 1 \in Levels
  BY SlotOfTick, LevelsOK
<1>2. x \in Seq(Tasks) /\ y \in Seq(Tasks)
  <2>1. timing_wheel_vec_[1].wheel[slot] \in Seq(Entries)
    BY <1>1, SlotType
  <2>2. task_list \in Seq(Entries)
    BY DEF IInv, TypeOK
  <2> QED
    BY <2>1, <2>2, TasksInType
<1>3. NearIn(n) = x \o y
  BY DEF NearIn
<1>4. CASE InWindow /\ n = current_tick_count_
  <2>1. n \notin Window
    BY <1>4, SMT DEF Window, NextTick, IInv, TypeOK
  <2>2. y = <<>>
    BY <1>1, <2>1, SlotPart
  <2> HIDE DEF x, y
  <2>3. x \o y = x
    BY <1>2, <2>2, ConcatEmptySeq
  <2> QED
    BY <1>3, <1>4, <2>3 DEF x
<1>5. CASE ~ (InWindow /\ n = current_tick_count_)
  <2>1. x = <<>>
    <3>1. CASE n # current_tick_count_
      BY <3>1, ListPart
    <3>2. CASE ~InWindow
      <4>1. task_list = <<>>
        BY <3>2 DEF IInv, PlaceInv, InWindow
      <4>2. task_list \in Seq(Entries) /\ DOMAIN <<>> = {}
        BY DEF IInv, TypeOK
      <4> QED
        BY <4>1, <4>2, TasksInNone
    <3> QED
      BY <1>5, <3>1, <3>2
  <2> HIDE DEF x, y
  <2>2. x \o y = y
    BY <1>2, <2>1, ConcatEmptySeq
  <2> QED
    BY <1>3, <1>5, <2>2 DEF y
<1> QED
  BY <1>4, <1>5

(* The ticks on the agenda are those with near tasks.                      *)
LEMMA AgendaIs ==
  ASSUME IInv, PlanInv, timing_wheel_vec_ # <<>>
  PROVE  Agenda = [n \in {m \in Nat : NearIn(m) # <<>>} |-> NearIn(n)]
<1> DEFINE wheel == timing_wheel_vec_[1].wheel
           W == WheelSize[1]
<1>1. FirstEntries = {task_list[i] : i \in DOMAIN task_list} \cup
        UNION {{wheel[slot][i] : i \in DOMAIN wheel[slot]} :
                 slot \in 0 .. W - 1}
  BY DEF FirstEntries
<1>2. 1 \in Levels /\ task_list \in Seq(Entries)
      /\ \A slot \in 0 .. W - 1 : wheel[slot] \in Seq(Entries)
  BY LevelsOK, SlotType DEF IInv, TypeOK
<1>3. ASSUME NEW e \in NearEntries
      PROVE  e.tick_count \in Nat /\ NearIn(e.tick_count) # <<>>
  <2>1. fate[e.task] = "near" /\ e \in FirstEntries
    BY DEF NearEntries
  <2>2. CASE \E i \in DOMAIN task_list : e = task_list[i]
    <3>1. PICK i \in DOMAIN task_list : e = task_list[i]
      BY <2>2
    <3>2. e \in Entries /\ InListOK(e) /\ e.tick_count \in Nat
      BY <3>1, EntryTypes DEF PlanInv, ListPlan
    <3>3. e.tick_count = current_tick_count_ /\ e \in DueIn(e.tick_count)
      BY <2>1, <3>2, DueEntry DEF InListOK
    <3>4. InWindow
      <4>1. DOMAIN <<>> = {}
        OBVIOUS
      <4> QED
        BY <3>1, <4>1 DEF IInv, PlaceInv, InWindow
    <3>5. TasksIn(task_list, DueIn(e.tick_count)) # <<>>
      BY <1>2, <3>1, <3>3, TasksInSome
    <3> QED
      BY <3>2, <3>3, <3>4, <3>5, RowIs
  <2>3. CASE \E slot \in 0 .. W - 1 : \E i \in DOMAIN wheel[slot] :
               e = wheel[slot][i]
    <3>1. PICK slot \in 0 .. W - 1 : \E i \in DOMAIN wheel[slot] :
            e = wheel[slot][i]
      BY <2>3
    <3>2. PICK i \in DOMAIN wheel[slot] : e = wheel[slot][i]
      BY <3>1
    <3>3. e \in Entries /\ InSlotOK(1, slot, e) /\ e.tick_count \in Nat
      BY <1>2, <3>2, EntryTypes DEF PlanInv, WheelPlan
    <3>4. e.tick_count \in Window /\ e.tick_count % W = slot
          /\ e \in DueIn(e.tick_count)
      BY <2>1, <3>3, DueEntry DEF InSlotOK
    <3>5. ~ (InWindow /\ e.tick_count = current_tick_count_)
      BY <3>4, SMT DEF Window, NextTick, IInv, TypeOK
    <3>6. TasksIn(wheel[slot], DueIn(e.tick_count)) # <<>>
      BY <1>2, <3>2, <3>4, TasksInSome
    <3> QED
      BY <3>3, <3>4, <3>5, <3>6, RowIs
  <2> QED
    BY <1>1, <2>1, <2>2, <2>3
<1>4. ASSUME NEW n \in Nat, NearIn(n) # <<>>
      PROVE  \E e \in NearEntries : e.tick_count = n
  <2> DEFINE slot == n % W
  <2>1. slot \in 0 .. W - 1
    BY SlotOfTick
  <2>2. CASE TasksIn(task_list, DueIn(n)) # <<>>
    <3>1. PICK i \in DOMAIN task_list : task_list[i] \in DueIn(n)
      BY <1>2, <2>2, TasksInNone
    <3>2. task_list[i] \in Entries
      BY EntryTypes
    <3>3. task_list[i].tick_count = n /\ fate[task_list[i].task] = "near"
      BY <3>1, <3>2, DueEntry
    <3>4. task_list[i] \in NearEntries
      BY <1>1, <3>3 DEF NearEntries
    <3> QED
      BY <3>3, <3>4
  <2>3. CASE TasksIn(wheel[slot], DueIn(n)) # <<>>
    <3>1. PICK i \in DOMAIN wheel[slot] : wheel[slot][i] \in DueIn(n)
      BY <1>2, <2>1, <2>3, TasksInNone
    <3>2. wheel[slot][i] \in Entries
      BY <1>2, <2>1, EntryTypes
    <3>3. /\ wheel[slot][i].tick_count = n
          /\ fate[wheel[slot][i].task] = "near"
      BY <3>1, <3>2, DueEntry
    <3>4. wheel[slot][i] \in NearEntries
      BY <1>1, <2>1, <3>3 DEF NearEntries
    <3> QED
      BY <3>3, <3>4
  <2> QED
    BY <1>4, <2>2, <2>3, RowIs
<1>5. {e.tick_count : e \in NearEntries} = {m \in Nat : NearIn(m) # <<>>}
  BY <1>3, <1>4
<1> QED
  BY <1>5 DEF Agenda

LEMMA NoWheelsNoAgenda ==
  ASSUME timing_wheel_vec_ = <<>>
  PROVE  Agenda = <<>>
<1>1. {e.tick_count : e \in NearEntries} = {}
  BY DEF NearEntries, FirstEntries
<1>2. Agenda = [n \in {} |-> NearIn(n)]
  BY <1>1, Zenon DEF Agenda
<1>3. [n \in {} |-> NearIn(n)] = <<>>
  BY SMT
<1> QED
  BY <1>2, <1>3

-----------------------------------------------------------------------------
(* What the steps do to the lists.                                         *)

(* Only these steps change the wheels, or the tick.                        *)
LEMMA WheelsChange ==
  ASSUME [Next]_vars
  PROVE  \/ UNCHANGED timing_wheel_vec_
         \/ Initialize \/ ShutdownJoin \/ TimerTick
         \/ \E k \in Tasks, tp \in Times, start \in StartsRead :
              ExecuteAt(k, tp, start)
<1> USE DEF wheelVars
<1> QED
  BY DEF Next, vars, OwnerContinues, TimerStep, InitializeBadOptions, Start,
         ShutdownExchange, Destroy, StartReturns, TaskShutsDown, TimerBegins,
         TimerLoop, TimerWakes, TimerTickNoWheels, TaskEnds, TimerCounts,
         ClockAdvances, ClockSetBack

LEMMA TickChanges ==
  ASSUME [Next]_vars
  PROVE  UNCHANGED current_tick_count_ \/ TimerTick \/ TimerCounts
<1> USE DEF wheelVars
<1> QED
  BY DEF Next, vars, OwnerContinues, TimerStep, Initialize,
         InitializeBadOptions, Start, ShutdownExchange, Destroy, StartReturns,
         ShutdownJoin, TaskShutsDown, ExecuteAt, TimerBegins, TimerLoop,
         TimerWakes, TimerTickNoWheels, TaskEnds, ClockAdvances, ClockSetBack

(* A call appends its entry to one list at most.                           *)
LEMMA CallShape ==
  ASSUME IInv, NEW k \in Tasks, NEW tp \in Times, NEW start \in StartsRead,
         ExecuteAt(k, tp, start), timing_wheel_vec_' # <<>>
  PROVE  LET tick == VirtualTp(tp, start) \div Dt
             diff == tick - current_tick_count_
             e    == [tick_count |-> tick, task |-> k]
         IN  /\ timing_wheel_vec_ # <<>>
             /\ \/ UNCHANGED timing_wheel_vec_ /\ fate'[k] \in {"past", "far"}
                \/ /\ e \in Entries /\ tick \in Nat /\ diff \in Nat
                   /\ fate'[k] = IF Near(diff) THEN "near" ELSE "far"
                   /\ \E ii \in Levels :
                        /\ Slot(ii, diff) \in 0 .. WheelSize[ii] - 1
                        /\ ii # 1 => ~HasRoom(1, diff)
                        /\ \A jj \in Levels : \A slot \in 0 .. WheelSize[jj] - 1 :
                             timing_wheel_vec_'[jj].wheel[slot] =
                               IF jj = ii /\ slot = Slot(ii, diff)
                               THEN Append(timing_wheel_vec_[jj].wheel[slot], e)
                               ELSE timing_wheel_vec_[jj].wheel[slot]
<1> DEFINE tick == VirtualTp(tp, start) \div Dt
           diff == tick - current_tick_count_
           e == [tick_count |-> tick, task |-> k]
<1>1. fate \in [Tasks -> {"new", "past", "near", "far", "done", "ran"}]
  BY DEF IInv, TypeOK
<1>2. timing_wheel_vec_ # <<>>
  BY CallSlots
<1>3. ASSUME NEW ii \in Levels,
             ~Past(VirtualTp(tp, start)),
             \A jj \in 1 .. ii - 1 : ~HasRoom(jj, diff),
             fate' = [fate EXCEPT ![k] = IF Near(diff) THEN "near" ELSE "far"],
             e \in Entries,
             Slot(ii, diff) \in 0 .. WheelSize[ii] - 1,
             WellFormed(timing_wheel_vec_),
             timing_wheel_vec_' =
               [timing_wheel_vec_ EXCEPT ![ii].wheel[Slot(ii, diff)] =
                  Append(@, e)]
      PROVE  /\ e \in Entries /\ tick \in Nat /\ diff \in Nat
             /\ fate'[k] = IF Near(diff) THEN "near" ELSE "far"
             /\ \E jj \in Levels :
                  /\ Slot(jj, diff) \in 0 .. WheelSize[jj] - 1
                  /\ jj # 1 => ~HasRoom(1, diff)
                  /\ \A ll \in Levels : \A slot \in 0 .. WheelSize[ll] - 1 :
                       timing_wheel_vec_'[ll].wheel[slot] =
                         IF ll = jj /\ slot = Slot(jj, diff)
                         THEN Append(timing_wheel_vec_[ll].wheel[slot], e)
                         ELSE timing_wheel_vec_[ll].wheel[slot]
  <2>1. tick \in Nat /\ diff \in Nat
    BY <1>3, CallOK DEF IInv
  <2> HIDE DEF e, diff, tick
  <2>2. ii # 1 => ~HasRoom(1, diff)
    <3>1. ii # 1 => 1 \in 1 .. ii - 1
      BY LevelsOK, SMT
    <3> QED
      BY <1>3, <3>1
  <2>3. \A ll \in Levels : \A slot \in 0 .. WheelSize[ll] - 1 :
          timing_wheel_vec_'[ll].wheel[slot] =
            IF ll = ii /\ slot = Slot(ii, diff)
            THEN Append(timing_wheel_vec_[ii].wheel[Slot(ii, diff)], e)
            ELSE timing_wheel_vec_[ll].wheel[slot]
    BY <1>3, PlaceOK
  <2>4. \A ll \in Levels : \A slot \in 0 .. WheelSize[ll] - 1 :
          timing_wheel_vec_'[ll].wheel[slot] =
            IF ll = ii /\ slot = Slot(ii, diff)
            THEN Append(timing_wheel_vec_[ll].wheel[slot], e)
            ELSE timing_wheel_vec_[ll].wheel[slot]
    BY <2>3, Zenon
  <2>5. fate'[k] = IF Near(diff) THEN "near" ELSE "far"
    BY <1>1, <1>3, Zenon
  <2> QED
    BY <1>3, <2>1, <2>2, <2>4, <2>5
<1>4. fate' = [fate EXCEPT ![k] = "past"] => fate'[k] = "past"
  BY <1>1
<1>5. fate' = [fate EXCEPT ![k] = "far"] => fate'[k] = "far"
  BY <1>1
<1> HIDE DEF e, diff, tick
<1>6. \/ /\ UNCHANGED timing_wheel_vec_
         /\ \/ timing_wheel_vec_ = <<>>
            \/ fate' = [fate EXCEPT ![k] = "past"]
            \/ fate' = [fate EXCEPT ![k] = "far"]
      \/ \E ii \in Levels :
           /\ ~Past(VirtualTp(tp, start))
           /\ \A jj \in 1 .. ii - 1 : ~HasRoom(jj, diff)
           /\ fate' = [fate EXCEPT ![k] = IF Near(diff) THEN "near" ELSE "far"]
           /\ e \in Entries
           /\ Slot(ii, diff) \in 0 .. WheelSize[ii] - 1
           /\ WellFormed(timing_wheel_vec_)
           /\ timing_wheel_vec_' =
                [timing_wheel_vec_ EXCEPT ![ii].wheel[Slot(ii, diff)] =
                   Append(@, e)]
  <2>1. \/ /\ UNCHANGED timing_wheel_vec_
           /\ \/ /\ timing_wheel_vec_ = <<>>
                 /\ UNCHANGED timing_task_map_
              \/ /\ fate' = [fate EXCEPT ![k] = "past"]
                 /\ UNCHANGED timing_task_map_
              \/ /\ fate' = [fate EXCEPT ![k] = "far"]
                 /\ ~Past(VirtualTp(tp, start))
                 /\ \A ii \in Levels : ~HasRoom(ii, diff)
                 /\ e \in Entries
                 /\ PlaceInMap(e, diff)
        \/ \E ii \in Levels :
             /\ ~Past(VirtualTp(tp, start))
             /\ HasRoom(ii, diff)
             /\ \A jj \in 1 .. ii - 1 : ~HasRoom(jj, diff)
             /\ fate' = [fate EXCEPT ![k] =
                           IF Near(diff) THEN "near" ELSE "far"]
             /\ e \in Entries
             /\ Slot(ii, diff) \in 0 .. WheelSize[ii] - 1
             /\ WellFormed(timing_wheel_vec_)
             /\ timing_wheel_vec_' =
                  [timing_wheel_vec_ EXCEPT ![ii].wheel[Slot(ii, diff)] =
                     Append(@, e)]
             /\ UNCHANGED timing_task_map_
    BY CallWheels DEF e, diff, tick
  <2> QED
    BY <2>1, Zenon
<1> QED
  BY <1>2, <1>3, <1>4, <1>5, <1>6 DEF e, diff, tick

(* Nothing of a new task is kept; what is borrowed is kept in the map.     *)
LEMMA NewIsNowhere ==
  ASSUME PlanInv, NEW k \in Tasks, fate[k] = "new"
  PROVE  /\ \A i \in DOMAIN task_list : task_list[i].task # k
         /\ timing_wheel_vec_ # <<>> =>
              \A ii \in Levels : \A slot \in 0 .. WheelSize[ii] - 1 :
                \A i \in DOMAIN timing_wheel_vec_[ii].wheel[slot] :
                  timing_wheel_vec_[ii].wheel[slot][i].task # k
         /\ \A key \in DOMAIN timing_task_map_ :
              \A i \in DOMAIN timing_task_map_[key] :
                timing_task_map_[key][i].task # k
<1>1. \A i \in DOMAIN task_list : task_list[i].task # k
  BY DEF PlanInv, ListPlan, InListOK
<1>2. timing_wheel_vec_ # <<>> =>
              \A ii \in Levels : \A slot \in 0 .. WheelSize[ii] - 1 :
                \A i \in DOMAIN timing_wheel_vec_[ii].wheel[slot] :
                  timing_wheel_vec_[ii].wheel[slot][i].task # k
  BY DEF PlanInv, WheelPlan, InSlotOK
<1>3. \A key \in DOMAIN timing_task_map_ :
              \A i \in DOMAIN timing_task_map_[key] :
                timing_task_map_[key][i].task # k
  BY DEF PlanInv, MapPlan, InMapOK
<1> QED
  BY <1>1, <1>2, <1>3

LEMMA BorrowedFrom ==
  ASSUME NEW j \in DOMAIN Borrowed
  PROVE  /\ timing_task_map_pos_ \in DOMAIN timing_task_map_
         /\ Borrowed = timing_task_map_[timing_task_map_pos_]
<1>1. DOMAIN <<>> = {}
  OBVIOUS
<1> QED
  BY <1>1 DEF Borrowed, Lookup

-----------------------------------------------------------------------------
(* A near task is kept once.                                               *)

LEMMA OnceTick ==
  ASSUME IInv, PlanInv, OnceInv, TimerTick
  PROVE  OnceInv'
<1> DEFINE vec == timing_wheel_vec_
           pos == timing_wheel_vec_[1].current_pos
           Borrow(x) == \E j \in DOMAIN Borrowed : x = Borrowed[j]
<1>1. /\ WellFormed(vec) /\ vec # <<>> /\ vec' # <<>> /\ UNCHANGED fate
      /\ 1 \in Levels /\ pos \in 0 .. WheelSize[1] - 1
      /\ task_list' = vec[1].wheel[pos]
  BY TickOK, ShapeOK, LevelsOK DEF TimerTick
<1>2. ASSUME NEW x, Borrow(x)
      PROVE  fate[x.task] # "near" /\ fate[x.task] # "done"
  <2>1. PICK j \in DOMAIN Borrowed : x = Borrowed[j]
    BY <1>2
  <2>2. /\ timing_task_map_pos_ \in DOMAIN timing_task_map_
        /\ Borrowed = timing_task_map_[timing_task_map_pos_]
    BY <2>1, BorrowedFrom
  <2>3. InMapOK(timing_task_map_pos_, x)
    BY <2>1, <2>2 DEF PlanInv, MapPlan
  <2>4. NotDone(timing_task_map_[timing_task_map_pos_])
    BY <2>2 DEF OnceInv, NoneDone
  <2> QED
    BY <2>1, <2>2, <2>3, <2>4 DEF InMapOK, NotDone
<1>3. ASSUME NEW ii \in Levels, NEW slot \in 0 .. WheelSize[ii] - 1,
             NEW i \in DOMAIN vec'[ii].wheel[slot]
      PROVE  \/ /\ i \in DOMAIN vec[ii].wheel[slot]
                /\ vec'[ii].wheel[slot][i] = vec[ii].wheel[slot][i]
             \/ Borrow(vec'[ii].wheel[slot][i])
  BY TickEntries
<1> HIDE DEF Borrow
<1>4. KeptOnce'
  <2>1. Once(task_list)'
    BY <1>1 DEF OnceInv, KeptOnce, Once
  <2>2. ASSUME NEW slot \in 0 .. WheelSize[1] - 1
        PROVE  Once(vec[1].wheel[slot])'
    <3>1. SUFFICES ASSUME NEW i \in DOMAIN vec'[1].wheel[slot],
                          NEW j \in DOMAIN vec'[1].wheel[slot],
                          vec'[1].wheel[slot][i].task =
                            vec'[1].wheel[slot][j].task,
                          fate[vec'[1].wheel[slot][i].task] = "near"
                   PROVE  i = j
      BY <1>1 DEF Once
    <3>2. /\ i \in DOMAIN vec[1].wheel[slot]
          /\ vec'[1].wheel[slot][i] = vec[1].wheel[slot][i]
          /\ j \in DOMAIN vec[1].wheel[slot]
          /\ vec'[1].wheel[slot][j] = vec[1].wheel[slot][j]
      BY <1>1, <1>2, <1>3, <3>1
    <3>3. Once(vec[1].wheel[slot])
      BY <1>1 DEF OnceInv, KeptOnce
    <3> QED
      BY <3>1, <3>2, <3>3 DEF Once
  <2> QED
    BY <2>1, <2>2 DEF KeptOnce
<1>5. NearEntries' \subseteq NearEntries
  <2>1. SUFFICES ASSUME NEW x \in FirstEntries', fate[x.task] = "near"
                 PROVE  x \in FirstEntries
    BY <1>1 DEF NearEntries
  <2>2. ASSUME NEW slot \in 0 .. WheelSize[1] - 1,
               NEW i \in DOMAIN vec[1].wheel[slot], x = vec[1].wheel[slot][i]
        PROVE  x \in FirstEntries
    <3> DEFINE kept == {vec[1].wheel[slot][k] : k \in DOMAIN vec[1].wheel[slot]}
    <3>1. x \in kept
      BY <2>2, Zenon
    <3> HIDE DEF kept
    <3>2. x \in UNION {{vec[1].wheel[z][k] : k \in DOMAIN vec[1].wheel[z]} :
                         z \in 0 .. WheelSize[1] - 1}
      BY <3>1, SMT DEF kept
    <3>3. vec # <<>>
      BY <1>1
    <3> QED
      BY <3>2, <3>3, Zenon DEF FirstEntries
  <2>3. \/ \E i \in DOMAIN task_list' : x = task_list'[i]
        \/ \E slot \in 0 .. WheelSize[1] - 1 :
             \E i \in DOMAIN vec'[1].wheel[slot] : x = vec'[1].wheel[slot][i]
    BY <1>1 DEF FirstEntries
  <2>4. CASE \E i \in DOMAIN task_list' : x = task_list'[i]
    BY <1>1, <2>2, <2>4
  <2>5. CASE \E slot \in 0 .. WheelSize[1] - 1 :
               \E i \in DOMAIN vec'[1].wheel[slot] : x = vec'[1].wheel[slot][i]
    BY <1>1, <1>2, <1>3, <2>1, <2>2, <2>5
  <2> QED
    BY <2>3, <2>4, <2>5
<1>6. OneEntry'
  BY <1>5 DEF OnceInv, OneEntry
<1>7. NoneDone'
  <2>1. ASSUME NEW ii \in Levels, NEW slot \in 0 .. WheelSize[ii] - 1
        PROVE  NotDone(vec[ii].wheel[slot])
    BY <1>1 DEF OnceInv, NoneDone
  <2>2. NotDone(task_list)'
    BY <1>1, <2>1 DEF NotDone
  <2>3. ASSUME NEW ii \in Levels, NEW slot \in 0 .. WheelSize[ii] - 1
        PROVE  NotDone(vec[ii].wheel[slot])'
    BY <1>1, <1>2, <1>3, <2>1 DEF NotDone
  <2>4. ASSUME NEW key \in DOMAIN timing_task_map_'
        PROVE  NotDone(timing_task_map_[key])'
    <3>1. /\ key \in DOMAIN timing_task_map_
          /\ timing_task_map_'[key] = timing_task_map_[key]
      BY TickEntries
    <3> QED
      BY <1>1, <3>1 DEF OnceInv, NoneDone, NotDone
  <2> QED
    BY <2>2, <2>3, <2>4 DEF NoneDone
<1> QED
  BY <1>1, <1>4, <1>6, <1>7 DEF OnceInv

(* The task that ends was kept nowhere else.                               *)
LEMMA OnceTaskEnds ==
  ASSUME IInv, PlanInv, OnceInv, TaskEnds
  PROVE  OnceInv'
<1> DEFINE head == Head(task_list)
           vec == timing_wheel_vec_
<1>1. /\ tpc = "run" /\ task_list \in Seq(Entries) /\ task_list # <<>>
      /\ task_list' = Tail(task_list)
      /\ UNCHANGED <<timing_wheel_vec_, timing_task_map_>>
      /\ fate' = [fate EXCEPT ![head.task] =
                    IF @ = "near" THEN "done" ELSE "ran"]
  BY DEF TaskEnds, TimerAt, IInv, TypeOK, PlaceInv, wheelVars
<1>2. /\ head \in Entries /\ head = task_list[1] /\ 1 \in DOMAIN task_list
      /\ \A i \in DOMAIN Tail(task_list) :
           /\ i + 1 \in DOMAIN task_list
           /\ Tail(task_list)[i] = task_list[i + 1]
  <2>1. 1 \in DOMAIN task_list
    BY <1>1, EmptySeq, LenProperties, SMT
  <2> QED
    BY <1>1, <2>1, TailEntries
<1>3. /\ vec # <<>> /\ head \in FirstEntries
      /\ \A i \in DOMAIN Tail(task_list) : Tail(task_list)[i] \in FirstEntries
  BY <1>1, <1>2 DEF OnceInv, FirstEntries
<1>4. fate \in [Tasks -> {"new", "past", "near", "far", "done", "ran"}]
      /\ head.task \in Tasks
  BY <1>2 DEF IInv, TypeOK, Entries
<1>5. /\ \A k \in Tasks : fate'[k] = "near" => fate[k] = "near"
      /\ \A k \in Tasks : fate'[k] = "done" =>
           fate[k] = "done" \/ (k = head.task /\ fate[k] = "near")
  <2> HIDE DEF head
  <2> QED
    BY <1>1, <1>4
<1> HIDE DEF head
<1>6. KeptOnce'
  <2>1. Once(task_list)'
    <3>1. SUFFICES ASSUME NEW i \in DOMAIN Tail(task_list),
                          NEW j \in DOMAIN Tail(task_list),
                          Tail(task_list)[i].task = Tail(task_list)[j].task,
                          fate'[Tail(task_list)[i].task] = "near"
                   PROVE  i = j
      BY <1>1 DEF Once
    <3>2. /\ i + 1 \in DOMAIN task_list /\ Tail(task_list)[i] = task_list[i + 1]
          /\ j + 1 \in DOMAIN task_list /\ Tail(task_list)[j] = task_list[j + 1]
      BY <1>2
    <3>3. task_list[i + 1].task \in Tasks
      BY <3>2, EntryTypes
    <3>4. i + 1 = j + 1
      BY <1>5, <3>1, <3>2, <3>3 DEF OnceInv, KeptOnce, Once
    <3>5. i \in Int /\ j \in Int
      <4>1. Tail(task_list) \in Seq(Entries)
        BY <1>1, HeadTailProperties
      <4> QED
        BY <4>1, LenProperties, SMT
    <3> QED
      BY <3>4, <3>5, SMT
  <2>2. ASSUME NEW slot \in 0 .. WheelSize[1] - 1
        PROVE  Once(vec[1].wheel[slot])'
    <3> DEFINE list == vec[1].wheel[slot]
    <3>1. \A i \in DOMAIN list : list[i].task \in Tasks
      BY <1>3, LevelsOK, EntryTypes
    <3>2. Once(list)
      BY <1>3 DEF OnceInv, KeptOnce
    <3>3. \A i, j \in DOMAIN list :
            list[i].task = list[j].task /\ fate'[list[i].task] = "near" => i = j
      <4> HIDE DEF list
      <4> QED
        BY <1>5, <3>1, <3>2 DEF Once
    <3> QED
      BY <1>1, <3>3 DEF Once
  <2> QED
    BY <2>1, <2>2 DEF KeptOnce
<1>7. OneEntry'
  <2>1. FirstEntries' \subseteq FirstEntries
    BY <1>1, <1>3 DEF FirstEntries
  <2>2. \A e \in FirstEntries : e.task \in Tasks
    BY <1>3, LevelsOK, EntryTypes DEF FirstEntries
  <2>3. NearEntries' \subseteq NearEntries
    BY <1>5, <2>1, <2>2 DEF NearEntries
  <2> QED
    BY <2>3 DEF OnceInv, OneEntry
<1>8. NoneDone'
  <2>1. \A i \in DOMAIN Tail(task_list) :
          /\ fate[Tail(task_list)[i].task] # "done"
          /\ fate[head.task] = "near" => Tail(task_list)[i].task # head.task
          /\ Tail(task_list)[i].task \in Tasks
    <3> TAKE i \in DOMAIN Tail(task_list)
    <3>1. i + 1 \in DOMAIN task_list /\ Tail(task_list)[i] = task_list[i + 1]
          /\ i + 1 # 1
      <4>1. i \in 1 .. Len(Tail(task_list))
        <5>1. Tail(task_list) \in Seq(Entries)
          BY <1>1, HeadTailProperties
        <5> QED
          BY <5>1, LenProperties
      <4> QED
        BY <1>2, <4>1, SMT
    <3>2. task_list[i + 1].task \in Tasks
      BY <3>1, EntryTypes
    <3>3. fate[task_list[i + 1].task] # "done"
      BY <3>1 DEF OnceInv, NoneDone, NotDone
    <3>4. fate[head.task] = "near" => task_list[i + 1].task # head.task
      BY <1>2, <3>1 DEF OnceInv, KeptOnce, Once
    <3> QED
      BY <3>1, <3>2, <3>3, <3>4
  <2>2. ASSUME NEW ii \in Levels, NEW slot \in 0 .. WheelSize[ii] - 1,
               NEW i \in DOMAIN vec[ii].wheel[slot],
               NEW x, x = vec[ii].wheel[slot][i]
        PROVE  /\ fate[x.task] # "done" /\ x.task \in Tasks
               /\ fate[head.task] = "near" => x.task # head.task
    <3>1. fate[x.task] # "done" /\ x.task \in Tasks
      BY <1>3, <2>2, EntryTypes DEF OnceInv, NoneDone, NotDone
    <3>2. ASSUME fate[head.task] = "near", x.task = head.task PROVE FALSE
      <4>1. InSlotOK(ii, slot, x)
        BY <1>3, <2>2 DEF PlanInv, WheelPlan
      <4>2. ii = 1 /\ x.tick_count \in Window
        BY <3>2, <4>1 DEF InSlotOK
      <4>3. x \in NearEntries /\ head \in NearEntries
        BY <1>3, <2>2, <3>2, <4>2 DEF NearEntries, FirstEntries
      <4>4. x = head
        BY <3>2, <4>3 DEF OnceInv, OneEntry
      <4>5. head.tick_count = current_tick_count_
        BY <1>2, <3>2 DEF PlanInv, ListPlan, InListOK
      <4> QED
        BY <1>1, <4>2, <4>4, <4>5, SMT DEF Window, NextTick, InWindow, IInv,
                                           TypeOK
    <3> QED
      BY <3>1, <3>2
  <2>3. ASSUME NEW key \in DOMAIN timing_task_map_,
               NEW i \in DOMAIN timing_task_map_[key],
               NEW x, x = timing_task_map_[key][i]
        PROVE  /\ fate[x.task] # "done" /\ x.task \in Tasks
               /\ fate[head.task] = "near" => x.task # head.task
    <3>1. fate[x.task] # "done" /\ x.task \in Tasks
      BY <2>3, EntryTypes DEF OnceInv, NoneDone, NotDone
    <3>2. fate[x.task] # "near"
      BY <2>3 DEF PlanInv, MapPlan, InMapOK
    <3> QED
      BY <3>1, <3>2
  <2>4. \A k \in Tasks :
          /\ fate[k] # "done"
          /\ fate[head.task] = "near" => k # head.task
          => fate'[k] # "done"
    BY <1>5
  <2>5. NotDone(task_list)'
    BY <1>1, <2>1, <2>4 DEF NotDone
  <2>6. ASSUME NEW ii \in Levels, NEW slot \in 0 .. WheelSize[ii] - 1
        PROVE  NotDone(vec[ii].wheel[slot])'
    BY <1>1, <2>2, <2>4 DEF NotDone
  <2>7. ASSUME NEW key \in DOMAIN timing_task_map_
        PROVE  NotDone(timing_task_map_[key])'
    BY <1>1, <2>3, <2>4 DEF NotDone
  <2> QED
    BY <1>1, <2>5, <2>6, <2>7 DEF NoneDone
<1> QED
  BY <1>1, <1>3, <1>6, <1>7, <1>8 DEF OnceInv

(* The entry of a call is the only one of its task.                        *)
LEMMA OnceCall ==
  ASSUME IInv, PlanInv, OnceInv, NEW k \in Tasks, NEW tp \in Times,
         NEW start \in StartsRead, ExecuteAt(k, tp, start)
  PROVE  OnceInv'
<1> DEFINE vec == timing_wheel_vec_
           tick == VirtualTp(tp, start) \div Dt
           diff == tick - current_tick_count_
           e == [tick_count |-> tick, task |-> k]
<1>1. /\ UNCHANGED task_list
      /\ fate[k] = "new"
      /\ \A t \in Tasks : t # k => fate'[t] = fate[t]
      /\ fate'[k] # "done"
  BY DEF ExecuteAt, IInv, TypeOK
<1>2. e.task = k
  OBVIOUS
<1>3. \A i \in DOMAIN task_list : /\ task_list[i].task # k
                                  /\ task_list[i].task \in Tasks
  BY <1>1, NewIsNowhere, EntryTypes
<1>4. NotDone(task_list)' /\ Once(task_list)'
  <2>1. NotDone(task_list) /\ Once(task_list)
    BY DEF OnceInv, NoneDone, KeptOnce
  <2> QED
    BY <1>1, <1>3, <2>1 DEF NotDone, Once
<1>5. ASSUME NEW key \in DOMAIN timing_task_map_'
      PROVE  NotDone(timing_task_map_[key])'
  <2>1. SUFFICES ASSUME NEW i \in DOMAIN timing_task_map_'[key],
                        NEW x, x = timing_task_map_'[key][i]
                 PROVE  fate'[x.task] # "done"
    BY DEF NotDone
  <2>2. \/ /\ key \in DOMAIN timing_task_map_
           /\ i \in DOMAIN timing_task_map_[key]
           /\ x = timing_task_map_[key][i]
        \/ x = e
    <3> HIDE DEF e, diff, tick
    <3>1. CASE UNCHANGED timing_task_map_
      BY <2>1, <3>1
    <3>2. CASE e \in Entries /\ PlaceInMap(e, diff)
      <4>1. \A c \in DOMAIN timing_task_map_' :
              \A j \in DOMAIN timing_task_map_'[c] :
                \/ /\ c \in DOMAIN timing_task_map_
                   /\ j \in DOMAIN timing_task_map_[c]
                   /\ timing_task_map_'[c][j] = timing_task_map_[c][j]
                \/ timing_task_map_'[c][j] = e /\ c = MapKey(diff)
        <5>1. TypeOK /\ e \in Entries /\ PlaceInMap(e, diff)
          BY <3>2 DEF IInv
        <5> QED
          BY <5>1, CallMap
      <4>2. \/ /\ key \in DOMAIN timing_task_map_
               /\ i \in DOMAIN timing_task_map_[key]
               /\ timing_task_map_'[key][i] = timing_task_map_[key][i]
            \/ timing_task_map_'[key][i] = e
        BY <2>1, <4>1
      <4> QED
        BY <2>1, <4>2
    <3> QED
      BY <3>1, <3>2, CallWheels DEF e, diff, tick
  <2>3. CASE x = e
    BY <1>1, <1>2, <2>3
  <2>4. CASE /\ key \in DOMAIN timing_task_map_
             /\ i \in DOMAIN timing_task_map_[key]
             /\ x = timing_task_map_[key][i]
    <3>1. x.task # k /\ x.task \in Tasks
      BY <1>1, <2>4, NewIsNowhere, EntryTypes
    <3>2. fate[x.task] # "done"
      BY <2>4 DEF OnceInv, NoneDone, NotDone
    <3> QED
      BY <1>1, <3>1, <3>2
  <2> QED
    BY <2>2, <2>3, <2>4
<1>6. CASE vec' = <<>>
  <2>1. KeptOnce'
    BY <1>4, <1>6 DEF KeptOnce
  <2>2. OneEntry'
    BY <1>6 DEF OneEntry, NearEntries, FirstEntries
  <2>3. NoneDone'
    BY <1>4, <1>5, <1>6 DEF NoneDone
  <2>4. vec = <<>>
    <3>1. \/ UNCHANGED vec
          \/ \E ii \in Levels :
               /\ e \in Entries
               /\ Slot(ii, diff) \in 0 .. WheelSize[ii] - 1
               /\ WellFormed(vec)
               /\ vec' = [vec EXCEPT ![ii].wheel[Slot(ii, diff)] = Append(@, e)]
      BY CallWheels
    <3> HIDE DEF e, diff, tick
    <3>2. ASSUME NEW ii \in Levels, e \in Entries,
                 Slot(ii, diff) \in 0 .. WheelSize[ii] - 1,
                 WellFormed(vec),
                 vec' = [vec EXCEPT ![ii].wheel[Slot(ii, diff)] = Append(@, e)]
          PROVE  vec' # <<>>
      BY <3>2, PlaceOK, ShapeOK
    <3> QED
      BY <1>6, <3>1, <3>2
  <2> QED
    BY <1>1, <2>1, <2>2, <2>3, <2>4 DEF OnceInv
<1>7. CASE vec' # <<>>
  <2>1. /\ vec # <<>>
        /\ \A ii \in Levels : \A slot \in 0 .. WheelSize[ii] - 1 :
             \/ vec'[ii].wheel[slot] = vec[ii].wheel[slot]
             \/ /\ e \in Entries
                /\ vec'[ii].wheel[slot] = Append(vec[ii].wheel[slot], e)
    <3>1. CASE UNCHANGED vec
      BY <1>7, <3>1
    <3>2. CASE /\ e \in Entries
               /\ \E ii \in Levels :
                    \A jj \in Levels : \A slot \in 0 .. WheelSize[jj] - 1 :
                      vec'[jj].wheel[slot] =
                        IF jj = ii /\ slot = Slot(ii, diff)
                        THEN Append(vec[jj].wheel[slot], e)
                        ELSE vec[jj].wheel[slot]
      <4> HIDE DEF vec, e, diff, tick
      <4>1. PICK ii \in Levels :
              \A jj \in Levels : \A slot \in 0 .. WheelSize[jj] - 1 :
                vec'[jj].wheel[slot] = IF jj = ii /\ slot = Slot(ii, diff)
                                       THEN Append(vec[jj].wheel[slot], e)
                                       ELSE vec[jj].wheel[slot]
        BY <3>2
      <4>2. ASSUME NEW jj \in Levels, NEW slot \in 0 .. WheelSize[jj] - 1
            PROVE  \/ vec'[jj].wheel[slot] = vec[jj].wheel[slot]
                   \/ /\ e \in Entries
                      /\ vec'[jj].wheel[slot] = Append(vec[jj].wheel[slot], e)
        BY <3>2, <4>1, Zenon
      <4>3. vec # <<>>
        BY <1>7, CallSlots DEF vec
      <4> QED
        BY <4>2, <4>3, Zenon
    <3>3. /\ vec # <<>>
          /\ \/ UNCHANGED vec
             \/ /\ e \in Entries
                /\ \E ii \in Levels :
                     \A jj \in Levels : \A slot \in 0 .. WheelSize[jj] - 1 :
                       vec'[jj].wheel[slot] =
                         IF jj = ii /\ slot = Slot(ii, diff)
                         THEN Append(vec[jj].wheel[slot], e)
                         ELSE vec[jj].wheel[slot]
      BY <1>7, CallShape
    <3> QED
      BY <3>1, <3>2, <3>3, Zenon
  <2>2. ASSUME NEW ii \in Levels, NEW slot \in 0 .. WheelSize[ii] - 1
        PROVE  /\ vec[ii].wheel[slot] \in Seq(Entries)
               /\ \A i \in DOMAIN vec[ii].wheel[slot] :
                    /\ vec[ii].wheel[slot][i].task # k
                    /\ vec[ii].wheel[slot][i].task \in Tasks
    BY <1>1, <2>1, SlotType, NewIsNowhere, EntryTypes
  <2> HIDE DEF e, diff, tick
  <2>3. ASSUME NEW s \in Seq(Entries), NEW t,
               t = s \/ (e \in Entries /\ t = Append(s, e)),
               \A i \in DOMAIN s : s[i].task # k /\ s[i].task \in Tasks
        PROVE  /\ \A i \in DOMAIN t :
                    \/ i \in DOMAIN s /\ t[i] = s[i]
                    \/ i = Len(s) + 1 /\ t[i] = e
               /\ Once(s) =>
                    \A i, j \in DOMAIN t :
                      t[i].task = t[j].task /\ fate'[t[i].task] = "near" => i = j
               /\ NotDone(s) => \A i \in DOMAIN t : fate'[t[i].task] # "done"
    <3>1. ASSUME NEW i \in DOMAIN t
          PROVE  \/ i \in DOMAIN s /\ t[i] = s[i]
                 \/ i = Len(s) + 1 /\ t[i] = e
      <4>1. CASE t = s
        BY <3>1, <4>1
      <4>2. CASE e \in Entries /\ t = Append(s, e)
        <5>1. /\ t \in Seq(Entries) /\ Len(t) = Len(s) + 1
              /\ \A j \in 1 .. Len(s) : t[j] = s[j]
              /\ t[Len(s) + 1] = e
          BY <4>2, AppendProperties
        <5>2. /\ Len(s) \in Nat /\ DOMAIN s = 1 .. Len(s)
              /\ i \in 1 .. Len(s) + 1
          BY <3>1, <5>1, LenProperties
        <5>3. i \in 1 .. Len(s) \/ i = Len(s) + 1
          BY <5>2, SMT
        <5> QED
          BY <5>1, <5>2, <5>3
      <4> QED
        BY <2>3, <4>1, <4>2
    <3>2. ASSUME Once(s), NEW i \in DOMAIN t, NEW j \in DOMAIN t,
                 t[i].task = t[j].task, fate'[t[i].task] = "near"
          PROVE  i = j
      BY <1>1, <1>2, <2>3, <3>1, <3>2 DEF Once
    <3>3. ASSUME NotDone(s), NEW i \in DOMAIN t
          PROVE  fate'[t[i].task] # "done"
      BY <1>1, <1>2, <2>3, <3>1, <3>3 DEF NotDone
    <3> QED
      BY <3>1, <3>2, <3>3
  <2>4. ASSUME NEW ii \in Levels, NEW slot \in 0 .. WheelSize[ii] - 1
        PROVE  /\ \A i \in DOMAIN vec'[ii].wheel[slot] :
                    \/ /\ i \in DOMAIN vec[ii].wheel[slot]
                       /\ vec'[ii].wheel[slot][i] = vec[ii].wheel[slot][i]
                    \/ vec'[ii].wheel[slot][i] = e
               /\ Once(vec[ii].wheel[slot]) => Once(vec[ii].wheel[slot])'
               /\ NotDone(vec[ii].wheel[slot]) => NotDone(vec[ii].wheel[slot])'
    <3> DEFINE s == vec[ii].wheel[slot]
               t == vec'[ii].wheel[slot]
    <3>1. /\ s \in Seq(Entries)
          /\ t = s \/ (e \in Entries /\ t = Append(s, e))
          /\ \A i \in DOMAIN s : s[i].task # k /\ s[i].task \in Tasks
      BY <2>1, <2>2
    <3> HIDE DEF s, t
    <3>2. /\ \A i \in DOMAIN t :
                    \/ i \in DOMAIN s /\ t[i] = s[i]
                    \/ i = Len(s) + 1 /\ t[i] = e
          /\ Once(s) =>
               \A i, j \in DOMAIN t :
                 t[i].task = t[j].task /\ fate'[t[i].task] = "near" => i = j
          /\ NotDone(s) => \A i \in DOMAIN t : fate'[t[i].task] # "done"
      BY <2>3, <3>1
    <3> QED
      BY <3>2 DEF s, t, Once, NotDone
  <2>5. KeptOnce'
    <3>1. ASSUME NEW slot \in 0 .. WheelSize[1] - 1
          PROVE  Once(vec[1].wheel[slot])'
      BY <2>1, <2>4, LevelsOK DEF OnceInv, KeptOnce
    <3> QED
      BY <1>4, <3>1 DEF KeptOnce
  <2>6. NoneDone'
    <3>1. ASSUME NEW ii \in Levels, NEW slot \in 0 .. WheelSize[ii] - 1
          PROVE  NotDone(vec[ii].wheel[slot])'
      BY <2>1, <2>4 DEF OnceInv, NoneDone
    <3> QED
      BY <1>4, <1>5, <3>1 DEF NoneDone
  <2>7. OneEntry'
    <3>1. ASSUME NEW x \in NearEntries'
          PROVE  x = e \/ (x \in NearEntries /\ x.task # k)
      <4>1. x \in FirstEntries' /\ fate'[x.task] = "near"
        BY DEF NearEntries
      <4>2. ASSUME x \in FirstEntries, x.task # k, x.task \in Tasks
            PROVE  x \in NearEntries
        BY <1>1, <4>1, <4>2 DEF NearEntries
      <4>3. \/ \E i \in DOMAIN task_list : x = task_list[i]
            \/ \E slot \in 0 .. WheelSize[1] - 1 :
                 \E i \in DOMAIN vec'[1].wheel[slot] : x = vec'[1].wheel[slot][i]
        BY <1>1, <1>7, <4>1 DEF FirstEntries
      <4>4. CASE \E i \in DOMAIN task_list : x = task_list[i]
        <5>1. x \in FirstEntries
          BY <2>1, <4>4 DEF FirstEntries
        <5> QED
          BY <1>3, <4>2, <4>4, <5>1
      <4>5. ASSUME NEW slot \in 0 .. WheelSize[1] - 1,
                   NEW i \in DOMAIN vec'[1].wheel[slot],
                   x = vec'[1].wheel[slot][i], x # e
            PROVE  x \in FirstEntries /\ x.task # k /\ x.task \in Tasks
        <5>1. i \in DOMAIN vec[1].wheel[slot] /\ x = vec[1].wheel[slot][i]
          BY <2>4, <4>5, LevelsOK
        <5>2. x \in FirstEntries
          BY <2>1, <5>1 DEF FirstEntries
        <5> QED
          BY <2>2, <5>1, <5>2, LevelsOK
      <4> QED
        BY <4>2, <4>3, <4>4, <4>5
    <3> QED
      BY <1>2, <3>1 DEF OnceInv, OneEntry
  <2> QED
    BY <1>7, <2>5, <2>6, <2>7 DEF OnceInv
<1> QED
  BY <1>6, <1>7

LEMMA OnceQuiet ==
  ASSUME IInv, OnceInv, Quiet, [Next]_vars,
         ~ \E k \in Tasks, tp \in Times, start \in StartsRead :
             ExecuteAt(k, tp, start)
  PROVE  OnceInv'
<1>1. /\ UNCHANGED fate
      /\ \/ UNCHANGED <<timing_wheel_vec_, timing_task_map_>>
         \/ timing_wheel_vec_' = <<>> /\ timing_task_map_' = <<>>
      /\ UNCHANGED task_list \/ (task_list = <<>> /\ task_list' = <<>>)
  BY DEF Quiet
<1>2. UNCHANGED task_list
  BY <1>1
<1>3. DOMAIN <<>> = {}
  OBVIOUS
<1>4. CASE UNCHANGED <<timing_wheel_vec_, timing_task_map_>>
  BY <1>1, <1>2, <1>4 DEF OnceInv, KeptOnce, OneEntry, NearEntries, FirstEntries,
                          NoneDone, Once, NotDone
<1>5. CASE timing_wheel_vec_' = <<>> /\ timing_task_map_' = <<>>
  <2>1. KeptOnce'
    BY <1>1, <1>2, <1>5 DEF OnceInv, KeptOnce, Once
  <2>2. OneEntry'
    BY <1>5 DEF OneEntry, NearEntries, FirstEntries
  <2>3. NoneDone'
    BY <1>1, <1>2, <1>3, <1>5 DEF OnceInv, NoneDone, NotDone
  <2>4. task_list = <<>>
    <3>1. CASE timing_wheel_vec_ = <<>>
      BY <3>1 DEF OnceInv
    <3>2. CASE ShutdownJoin
      <4>1. joinable => tpc = "exited"
        BY <3>2 DEF ShutdownJoin, Joined
      <4>2. ~joinable => tpc \in {"none", "exited"}
        BY DEF IInv, PlaceInv
      <4>3. tpc # "run"
        BY <4>1, <4>2
      <4> QED
        BY <4>3 DEF IInv, PlaceInv
    <3>3. CASE Initialize
      <4>1. CASE state_ = "kPreInit"
        BY <4>1 DEF IInv, PlaceInv
      <4>2. CASE state_ # "kPreInit"
        <5>1. timing_wheel_vec_ = <<>>
          BY <1>5, <3>3, <4>2 DEF Initialize
        <5> QED
          BY <5>1 DEF OnceInv
      <4> QED
        BY <4>1, <4>2
    <3>4. CASE TimerTick
      BY <1>5, <3>4, TickOK, ShapeOK
    <3> QED
      BY <1>5, <3>1, <3>2, <3>3, <3>4, WheelsChange
  <2> QED
    BY <1>2, <2>1, <2>2, <2>3, <2>4 DEF OnceInv
<1> QED
  BY <1>1, <1>4, <1>5

LEMMA OnceStep ==
  IInv /\ OdometerInSync /\ PlanInv /\ OnceInv /\ [Next]_vars => OnceInv'
<1> SUFFICES ASSUME IInv, PlanInv, OnceInv, [Next]_vars PROVE OnceInv'
  OBVIOUS
<1>1. CASE \E k \in Tasks, tp \in Times, start \in StartsRead :
             ExecuteAt(k, tp, start)
  BY <1>1, OnceCall
<1>2. CASE Initialize /\ state_ = "kPreInit"
  <2>1. /\ task_list' = <<>> /\ timing_task_map_' = <<>>
        /\ timing_wheel_vec_' =
             [ii \in Levels |-> [current_pos |-> IF ii = 1 THEN 0 ELSE 1,
                                 wheel       |-> EmptyWheel(ii)]]
    BY <1>2 DEF Initialize, IInv, PlaceInv
  <2>2. ASSUME NEW ii \in Levels, NEW slot \in 0 .. WheelSize[ii] - 1
        PROVE  timing_wheel_vec_'[ii].wheel[slot] = <<>>
    BY <2>1 DEF EmptyWheel
  <2>3. DOMAIN <<>> = {} /\ 1 \in Levels
    BY LevelsOK
  <2>4. KeptOnce' /\ NoneDone'
    BY <2>1, <2>2, <2>3 DEF KeptOnce, NoneDone, Once, NotDone
  <2>5. NearEntries' = {}
    BY <2>1, <2>2, <2>3 DEF NearEntries, FirstEntries
  <2> QED
    BY <2>1, <2>4, <2>5 DEF OnceInv, OneEntry
<1> QED
  BY <1>1, <1>2, OnceQuiet, OnceTick, OnceTaskEnds, StepCases

LEMMA OnceInvariance ==
  Spec => [](IInv /\ OdometerInSync /\ PlanInv /\ OnceInv)
<1>1. Init => OdometerInSync
  BY DEF Init, OdometerInSync
<1>2. DOMAIN <<>> = {}
  OBVIOUS
<1>3. Init => PlanInv
  BY <1>2 DEF Init, PlanInv, ListPlan, WheelPlan, MapPlan
<1>4. Init => OnceInv
  BY <1>2 DEF Init, OnceInv, KeptOnce, OneEntry, NoneDone, NearEntries,
              FirstEntries, Once, NotDone
<1> QED
  BY InitOK, TypeStep, SyncStep, PlanStep, OnceStep, <1>1, <1>3, <1>4, PTL
  DEF Spec

-----------------------------------------------------------------------------
(* The agenda as a function of its rows, one for every tick.               *)

Rows == [n \in Nat |-> NearIn(n)]

AgendaOf(r) == [n \in {m \in Nat : r[m] # <<>>} |-> r[n]]

LEMMA AgendaOfRows ==
  IInv /\ PlanInv =>
    /\ timing_wheel_vec_ = <<>> => Agenda = <<>>
    /\ timing_wheel_vec_ # <<>> =>
         Rows \in [Nat -> Seq(Tasks)] /\ Agenda = AgendaOf(Rows)
<1> SUFFICES ASSUME IInv, PlanInv, timing_wheel_vec_ # <<>>
             PROVE  Rows \in [Nat -> Seq(Tasks)] /\ Agenda = AgendaOf(Rows)
  BY NoWheelsNoAgenda
<1>1. ASSUME NEW n \in Nat PROVE NearIn(n) \in Seq(Tasks)
  <2>1. task_list \in Seq(Entries)
    BY DEF IInv, TypeOK
  <2>2. timing_wheel_vec_[1].wheel[n % WheelSize[1]] \in Seq(Entries)
    BY SlotOfTick, SlotType, LevelsOK
  <2>3. /\ TasksIn(task_list, DueIn(n)) \in Seq(Tasks)
        /\ TasksIn(timing_wheel_vec_[1].wheel[n % WheelSize[1]], DueIn(n))
             \in Seq(Tasks)
    BY <2>1, <2>2, TasksInType
  <2> QED
    BY <2>3, ConcatProperties DEF NearIn
<1>2. Rows \in [Nat -> Seq(Tasks)]
  BY <1>1 DEF Rows
<1>3. \A n \in Nat : Rows[n] = NearIn(n)
  BY DEF Rows
<1>4. Agenda = AgendaOf(Rows)
  BY <1>3, AgendaIs DEF AgendaOf
<1> QED
  BY <1>2, <1>4

LEMMA AgendaOfRowsAfter ==
  (IInv /\ PlanInv)' =>
    (/\ timing_wheel_vec_ = <<>> => Agenda = <<>>
     /\ timing_wheel_vec_ # <<>> =>
          Rows \in [Nat -> Seq(Tasks)] /\ Agenda = AgendaOf(Rows))'
BY AgendaOfRows, PTL

LEMMA AppendedNotEmpty ==
  ASSUME NEW x \in Seq(Tasks), NEW k \in Tasks
  PROVE  Append(x, k) # <<>>
BY AppendProperties

(* Agenda b is agenda a with task k appended for tick n.                   *)
Scheduling(a, b, n, k) ==
  /\ n \in DOMAIN b
  /\ b = [m \in DOMAIN a \cup {n} |->
            IF m = n THEN Append(IF n \in DOMAIN a THEN a[n] ELSE <<>>, k)
            ELSE a[m]]

LEMMA RowScheduled ==
  ASSUME NEW r \in [Nat -> Seq(Tasks)], NEW n \in Nat, NEW k \in Tasks, NEW s,
         s = [r EXCEPT ![n] = Append(@, k)]
  PROVE  Scheduling(AgendaOf(r), AgendaOf(s), n, k)
<1> DEFINE a == AgendaOf(r)
           b == AgendaOf(s)
           c == [m \in DOMAIN a \cup {n} |->
                   IF m = n
                   THEN Append(IF n \in DOMAIN a THEN a[n] ELSE <<>>, k)
                   ELSE a[m]]
<1>1. /\ DOMAIN a = {m \in Nat : r[m] # <<>>}
      /\ \A m \in DOMAIN a : a[m] = r[m]
  BY DEF AgendaOf
<1>2. /\ DOMAIN b = {m \in Nat : s[m] # <<>>}
      /\ b = [m \in DOMAIN b |-> s[m]]
  BY DEF AgendaOf
<1>3. s[n] = Append(r[n], k) /\ \A m \in Nat : m # n => s[m] = r[m]
  OBVIOUS
<1>4. Append(r[n], k) # <<>>
  <2>1. ASSUME NEW x \in Seq(Tasks) PROVE Append(x, k) # <<>>
    BY AppendedNotEmpty
  <2>2. r[n] \in Seq(Tasks)
    OBVIOUS
  <2> QED
    BY <2>1, <2>2
<1> HIDE DEF a, b
<1>5. DOMAIN b = DOMAIN a \cup {n}
  BY <1>1, <1>2, <1>3, <1>4
<1>6. ASSUME NEW m \in DOMAIN b PROVE c[m] = s[m]
  <2>1. CASE m = n
    <3>1. (IF n \in DOMAIN a THEN a[n] ELSE <<>>) = r[n]
      BY <1>1
    <3> QED
      BY <1>3, <1>5, <2>1, <3>1
  <2>2. CASE m # n
    BY <1>1, <1>2, <1>3, <1>5, <2>2
  <2> QED
    BY <2>1, <2>2
<1>7. DOMAIN c = DOMAIN b /\ c = [m \in DOMAIN b |-> c[m]]
  BY <1>5
<1> HIDE DEF c
<1>8. b = c
  BY <1>2, <1>6, <1>7
<1> QED
  BY <1>5, <1>8 DEF a, b, c, Scheduling

LEMMA RowRun ==
  ASSUME NEW r \in [Nat -> Seq(Tasks)], NEW n \in Nat, r[n] # <<>>
  PROVE  LET a == AgendaOf(r)
         IN  /\ n \in DOMAIN a /\ a[n] = r[n]
             /\ AgendaOf([r EXCEPT ![n] = Tail(@)]) =
                  [m \in IF Len(a[n]) = 1 THEN DOMAIN a \ {n} ELSE DOMAIN a |->
                     IF m = n THEN Tail(a[n]) ELSE a[m]]
<1> DEFINE a == AgendaOf(r)
           s == [r EXCEPT ![n] = Tail(@)]
           b == AgendaOf(s)
           c == [m \in IF Len(a[n]) = 1 THEN DOMAIN a \ {n} ELSE DOMAIN a |->
                   IF m = n THEN Tail(a[n]) ELSE a[m]]
<1>1. /\ DOMAIN a = {m \in Nat : r[m] # <<>>}
      /\ \A m \in DOMAIN a : a[m] = r[m]
  BY DEF AgendaOf
<1>2. /\ DOMAIN b = {m \in Nat : s[m] # <<>>}
      /\ b = [m \in DOMAIN b |-> s[m]]
  BY DEF AgendaOf
<1>3. s[n] = Tail(r[n]) /\ \A m \in Nat : m # n => s[m] = r[m]
  OBVIOUS
<1>4. n \in DOMAIN a /\ a[n] = r[n]
  BY <1>1
<1>5. Tail(r[n]) = <<>> <=> Len(r[n]) = 1
  <2>1. /\ r[n] \in Seq(Tasks) /\ Tail(r[n]) \in Seq(Tasks)
        /\ Len(Tail(r[n])) = Len(r[n]) - 1 /\ Len(r[n]) \in Nat
    BY HeadTailProperties, LenProperties
  <2>2. Tail(r[n]) = <<>> <=> Len(Tail(r[n])) = 0
    BY <2>1, EmptySeq
  <2>3. \A l \in Nat : l - 1 = 0 <=> l = 1
    BY SMT
  <2> QED
    BY <2>1, <2>2, <2>3, Zenon
<1> HIDE DEF a, b, s
<1>6. DOMAIN b = IF Len(a[n]) = 1 THEN DOMAIN a \ {n} ELSE DOMAIN a
  BY <1>1, <1>2, <1>3, <1>4, <1>5
<1>7. DOMAIN b \subseteq DOMAIN a
  BY <1>6
<1>8. ASSUME NEW m \in DOMAIN b PROVE c[m] = s[m]
  <2>1. c[m] = IF m = n THEN Tail(a[n]) ELSE a[m]
    BY <1>6
  <2> QED
    BY <1>1, <1>3, <1>4, <1>7, <2>1
<1>9. DOMAIN c = DOMAIN b /\ c = [m \in DOMAIN b |-> c[m]]
  BY <1>6
<1> HIDE DEF c
<1>10. b = c
  BY <1>2, <1>8, <1>9
<1> QED
  BY <1>4, <1>10 DEF a, b, s, c

-----------------------------------------------------------------------------
(* The steps of the executor are steps of the service.                     *)

SInv == IInv /\ OdometerInSync /\ PlanInv /\ OnceInv

Ran == {k \in Tasks : fate[k] = "done"}

(* Rows that stay as they are make an agenda that does.                    *)
LEMMA SameRows ==
  ASSUME SInv, SInv', timing_wheel_vec_ # <<>>, timing_wheel_vec_' # <<>>,
         \A n \in Nat : NearIn(n)' = NearIn(n)
  PROVE  Agenda' = Agenda
<1>1. Rows' = Rows
  BY DEF Rows
<1>2. AgendaOf(Rows)' = AgendaOf(Rows)
  BY <1>1 DEF AgendaOf
<1> QED
  BY <1>2, AgendaOfRows, AgendaOfRowsAfter DEF SInv

LEMMA NoTasks ==
  ASSUME NEW due
  PROVE  TasksIn(<<>>, due) = <<>>
<1>1. <<>> \in Seq(Entries) /\ DOMAIN <<>> = {}
  OBVIOUS
<1> QED
  BY <1>1, TasksInNone

LEMMA BesideNothing ==
  ASSUME NEW x \in Seq(Tasks)
  PROVE  x \o <<>> = x /\ <<>> \o x = x
BY ConcatEmptySeq

(* There is somebody to run the tasks while the timer thread is there.     *)
Serving == tpc \notin {"none", "exited"}

(* It is launched by Start and returns from TimerLoop.                     *)
LEMMA ServingChanges ==
  ASSUME IInv, [Next]_vars
  PROVE  \/ UNCHANGED Serving
         \/ Start /\ ~Serving /\ Serving'
         \/ TimerLoop /\ Serving /\ ~Serving'
<1>1. CASE Start
  <2>1. ~joinable => ~Serving
    BY DEF IInv, PlaceInv, Serving
  <2> QED
    BY <1>1, <2>1 DEF Start, Serving
<1>2. CASE TimerLoop
  BY <1>2 DEF TimerLoop, TimerAt, SleepFrom, Serving
<1>3. CASE TimerBegins \/ TimerWakes \/ TimerTick \/ TimerTickNoWheels
           \/ TaskEnds \/ TimerCounts
  BY <1>3 DEF TimerBegins, TimerWakes, TimerTick, TimerTickNoWheels, TaskEnds,
              TimerCounts, TimerAt, SleepFrom, Serving
<1>4. CASE UNCHANGED tpc
  BY <1>4 DEF Serving
<1>5. Start \/ TimerStep \/ UNCHANGED tpc
  BY DEF Next, vars, OwnerContinues, Initialize, InitializeBadOptions,
         ShutdownExchange, Destroy, StartReturns, ShutdownJoin, TaskShutsDown,
         ExecuteAt, ClockAdvances, ClockSetBack
<1> QED
  BY <1>1, <1>2, <1>3, <1>4, <1>5 DEF TimerStep

(* The wheels go when it has returned, or if it was never there.           *)
LEMMA WheelsGo ==
  ASSUME IInv, [Next]_vars, ~TimerTick,
         timing_wheel_vec_ # <<>>, timing_wheel_vec_' = <<>>,
         ~ \E k \in Tasks, tp \in Times, start \in StartsRead :
             ExecuteAt(k, tp, start)
  PROVE  ~Serving /\ ~Serving'
<1>1. ~ UNCHANGED timing_wheel_vec_
  OBVIOUS
<1>2. ~Initialize
  BY <1>1 DEF Initialize, IInv, PlaceInv
<1>3. ShutdownJoin
  BY <1>1, <1>2 DEF Next, vars, wheelVars, OwnerContinues, TimerStep,
         InitializeBadOptions, Start, ShutdownExchange, Destroy, StartReturns,
         TaskShutsDown, TimerBegins, TimerLoop, TimerWakes, TimerTickNoWheels,
         TaskEnds, TimerCounts, ClockAdvances, ClockSetBack
<1> QED
  BY <1>3 DEF ShutdownJoin, Joined, IInv, PlaceInv, Serving

LEMMA QuietServes ==
  ASSUME SInv, Quiet, [Next]_vars, ~TimerTick,
         ~ \E k \in Tasks, tp \in Times, start \in StartsRead :
             ExecuteAt(k, tp, start)
  PROVE  UNCHANGED TS!vars \/ TS!Open \/ TS!Close \/ TS!Advance \/ TS!Clear
<1>1. /\ UNCHANGED fate /\ UNCHANGED task_list
      /\ UNCHANGED timing_wheel_vec_ \/ timing_wheel_vec_' = <<>>
      /\ IInv
  BY DEF Quiet, SInv
<1>2. ASSUME UNCHANGED timing_wheel_vec_ PROVE Agenda' = Agenda
  BY <1>1, <1>2 DEF Agenda, NearEntries, FirstEntries, NearIn, DueIn
<1>3. ASSUME timing_wheel_vec_' = <<>> PROVE Agenda' = <<>>
  <2>1. (timing_wheel_vec_ = <<>> => Agenda = <<>>)'
    BY NoWheelsNoAgenda, PTL
  <2> QED
    BY <1>3, <2>1
<1>4. CASE TimerCounts
  <2>1. /\ UNCHANGED timing_wheel_vec_ /\ tpc = "count" /\ tpc' = "loop"
        /\ current_tick_count_' = current_tick_count_ + 1
    BY <1>4 DEF TimerCounts, TimerAt, wheelVars
  <2>2. current_tick_count_ \notin DOMAIN Agenda
    <3>1. CASE timing_wheel_vec_ = <<>>
      BY <3>1, NoWheelsNoAgenda
    <3>2. CASE timing_wheel_vec_ # <<>>
      <4>1. /\ InWindow /\ task_list = <<>> /\ current_tick_count_ \in Nat
            /\ IInv /\ PlanInv
        BY <2>1 DEF SInv, IInv, TypeOK, PlaceInv, InWindow
      <4>2. NearIn(current_tick_count_) = <<>>
        BY <3>2, <4>1, RowIs, NoTasks
      <4> QED
        BY <3>2, <4>1, <4>2, AgendaIs
    <3> QED
      BY <3>1, <3>2
  <2> QED
    BY <1>1, <1>2, <2>1, <2>2 DEF TS!Advance
<1>5. CASE UNCHANGED current_tick_count_
  <2>1. CASE UNCHANGED timing_wheel_vec_ /\ UNCHANGED Serving
    BY <1>1, <1>2, <1>5, <2>1 DEF TS!vars, Serving
  <2>2. CASE ~ UNCHANGED timing_wheel_vec_
    <3>1. timing_wheel_vec_' = <<>> /\ timing_wheel_vec_ # <<>>
      BY <1>1, <2>2
    <3>2. ~Serving /\ ~Serving'
      BY <1>1, <3>1, WheelsGo
    <3> QED
      BY <1>1, <1>3, <1>5, <3>1, <3>2 DEF TS!Clear, Serving
  <2>3. CASE Start /\ ~Serving /\ Serving'
    <3>1. UNCHANGED timing_wheel_vec_
      BY <2>3 DEF Start, wheelVars
    <3> QED
      BY <1>1, <1>2, <1>5, <2>3, <3>1 DEF TS!Open, Serving
  <2>4. CASE TimerLoop /\ Serving /\ ~Serving'
    <3>1. UNCHANGED timing_wheel_vec_
      BY <2>4 DEF TimerLoop, wheelVars
    <3> QED
      BY <1>1, <1>2, <1>5, <2>4, <3>1 DEF TS!Close, Serving
  <2> QED
    BY <1>1, <2>1, <2>2, <2>3, <2>4, ServingChanges
<1> QED
  BY <1>4, <1>5, TickChanges

LEMMA InitializeServes ==
  ASSUME SInv, Initialize, state_ = "kPreInit"
  PROVE  UNCHANGED TS!vars
<1>1. /\ timing_wheel_vec_ = <<>> /\ task_list' = <<>>
      /\ timing_wheel_vec_' =
           [ii \in Levels |-> [current_pos |-> IF ii = 1 THEN 0 ELSE 1,
                               wheel       |-> EmptyWheel(ii)]]
      /\ UNCHANGED <<current_tick_count_, fate, tpc>>
  BY DEF Initialize, SInv, IInv, PlaceInv
<1>2. ASSUME NEW slot \in 0 .. WheelSize[1] - 1
      PROVE  timing_wheel_vec_'[1].wheel[slot] = <<>>
  BY <1>1, LevelsOK DEF EmptyWheel
<1>3. NearEntries' = {}
  <2>1. DOMAIN <<>> = {}
    OBVIOUS
  <2> QED
    BY <1>1, <1>2, <2>1 DEF NearEntries, FirstEntries
<1>4. Agenda' = <<>>
  <2>1. {e.tick_count : e \in NearEntries}' = {}
    BY <1>3
  <2>2. Agenda' = [n \in {} |-> NearIn(n)']
    BY <2>1, Zenon DEF Agenda
  <2>3. [n \in {} |-> NearIn(n)'] = <<>>
    BY SMT
  <2> QED
    BY <2>2, <2>3
<1>5. Agenda = <<>>
  BY <1>1, NoWheelsNoAgenda
<1> QED
  BY <1>1, <1>4, <1>5 DEF TS!vars

(* What a tick takes out of its slot it puts into the list that is run,    *)
(* and what carries bring down are no near tasks.                          *)
LEMMA TickRows ==
  ASSUME SInv, TimerTick, NEW n \in Nat
  PROVE  /\ NearIn(n)' = NearIn(n)
         /\ task_list' = <<>> =>
              NearIn(current_tick_count_) = <<>>
<1> DEFINE vec == timing_wheel_vec_
           pos == timing_wheel_vec_[1].current_pos
           slot == n % WheelSize[1]
<1>1. IInv /\ OdometerInSync /\ PlanInv
  BY DEF SInv
<1>2. /\ alive /\ tpc = "tick" /\ vec # <<>> /\ UNCHANGED fate
      /\ current_tick_count_ \in Nat
      /\ task_list = <<>> /\ ~InWindow /\ NextTick = current_tick_count_
  BY <1>1 DEF TimerTick, TimerAt, IInv, TypeOK, PlaceInv, NextTick, InWindow
<1>3. /\ 1 \in Levels /\ slot \in 0 .. WheelSize[1] - 1
      /\ pos = current_tick_count_ % WheelSize[1]
      /\ pos \in 0 .. WheelSize[1] - 1
  BY <1>1, <1>2, LevelsOK, SlotOfTick, FirstPosition
<1>4. WellFormed(vec) /\ WellFormed(vec') /\ task_list' = vec[1].wheel[pos]
  BY <1>1, TickOK DEF TimerTick
<1>5. Carries(1)
  <2>1. 1 .. 1 - 1 = {}
    BY SMT
  <2> QED
    BY <2>1 DEF Carries
<1>6. ASSUME NEW i \in DOMAIN vec'[1].wheel[slot]
      PROVE  \/ /\ slot # pos
                /\ i \in DOMAIN vec[1].wheel[slot]
                /\ vec'[1].wheel[slot][i] = vec[1].wheel[slot][i]
             \/ vec'[1].wheel[slot][i] \notin DueIn(n)
  <2>1. CASE /\ slot # pos
             /\ i \in DOMAIN vec[1].wheel[slot]
             /\ vec'[1].wheel[slot][i] = vec[1].wheel[slot][i]
    BY <2>1
  <2>2. CASE \E j \in DOMAIN Borrowed : vec'[1].wheel[slot][i] = Borrowed[j]
    <3>1. PICK j \in DOMAIN Borrowed : vec'[1].wheel[slot][i] = Borrowed[j]
      BY <2>2
    <3>2. InMapOK(timing_task_map_pos_, Borrowed[j]) /\ Borrowed[j] \in Entries
      BY <1>1, BorrowedFrom, EntryTypes DEF PlanInv, MapPlan
    <3>3. Borrowed[j] \notin DueIn(n)
      BY <1>1, <3>2, DueEntry DEF InMapOK
    <3> QED
      BY <3>1, <3>3
  <2> QED
    BY <1>1, <1>3, <1>5, <1>6, <2>1, <2>2, TickEntries
<1>7. /\ vec[1].wheel[slot] \in Seq(Entries)
      /\ vec'[1].wheel[slot] \in Seq(Entries)
      /\ vec[1].wheel[pos] \in Seq(Entries)
  <2>1. vec[1].wheel \in [0 .. WheelSize[1] - 1 -> Seq(Entries)]
    BY <1>3, <1>4, ShapeOK
  <2>2. vec'[1].wheel \in [0 .. WheelSize[1] - 1 -> Seq(Entries)]
    BY <1>3, <1>4, ShapeOK
  <2> HIDE DEF slot, pos
  <2> QED
    BY <1>3, <2>1, <2>2
<1>8. /\ UNCHANGED DueIn(n)
      /\ NearIn(n) = TasksIn(vec[1].wheel[slot], DueIn(n))
      /\ NearIn(n)' = TasksIn(vec[1].wheel[pos], DueIn(n))
                        \o TasksIn(vec'[1].wheel[slot], DueIn(n))
  <2>1. NearIn(n) = TasksIn(vec[1].wheel[slot], DueIn(n))
    BY <1>1, <1>2, RowIs
  <2> QED
    BY <1>2, <1>4, <2>1 DEF DueIn, NearIn
<1>9. ASSUME slot = pos PROVE NearIn(n)' = NearIn(n)
  <2>1. TasksIn(vec'[1].wheel[slot], DueIn(n)) = <<>>
    BY <1>6, <1>7, <1>9, TasksInNone
  <2>2. TasksIn(vec[1].wheel[pos], DueIn(n)) \in Seq(Tasks)
    BY <1>7, TasksInType
  <2> HIDE DEF slot, pos, vec
  <2> QED
    BY <1>8, <1>9, <2>1, <2>2, BesideNothing, Zenon
<1>10. ASSUME slot # pos PROVE NearIn(n)' = NearIn(n)
  <2>1. TasksIn(vec[1].wheel[pos], DueIn(n)) = <<>>
    BY <1>1, <1>2, <1>3, <1>10, SlotPart
  <2>2. Grows(vec[1].wheel[slot], vec'[1].wheel[slot])
    <3>1. Ticked[1].wheel[slot] = vec[1].wheel[slot]
      BY <1>3, <1>4, <1>10, TickedOK
    <3> QED
      BY <1>1, <1>3, <3>1, TickGrows
  <2>3. TasksIn(vec'[1].wheel[slot], DueIn(n))
          = TasksIn(vec[1].wheel[slot], DueIn(n))
    <3>1. \A i \in DOMAIN vec'[1].wheel[slot] :
            i \in DOMAIN vec[1].wheel[slot]
            \/ vec'[1].wheel[slot][i] \notin DueIn(n)
      BY <1>6
    <3> HIDE DEF slot
    <3> QED
      BY <1>7, <2>2, <3>1, TasksInGrown
  <2>4. TasksIn(vec[1].wheel[slot], DueIn(n)) \in Seq(Tasks)
    BY <1>7, TasksInType
  <2> HIDE DEF slot, pos, vec
  <2> QED
    BY <1>8, <2>1, <2>3, <2>4, BesideNothing, Zenon
<1>11. ASSUME task_list' = <<>> PROVE NearIn(current_tick_count_) = <<>>
  BY <1>1, <1>2, <1>3, <1>4, <1>11, RowIs, NoTasks
<1> QED
  BY <1>9, <1>10, <1>11

LEMMA TickServes ==
  ASSUME SInv, SInv', TimerTick
  PROVE  UNCHANGED TS!vars \/ TS!Advance
<1>1. /\ timing_wheel_vec_ # <<>> /\ timing_wheel_vec_' # <<>>
      /\ UNCHANGED fate /\ current_tick_count_ \in Nat
      /\ tpc = "tick" /\ tpc' \in {"run", "loop"}
      /\ IInv /\ PlanInv
  BY TickOK, ShapeOK DEF SInv, TimerTick, TimerAt, IInv, TypeOK
<1>2. Agenda' = Agenda
  <2>1. \A n \in Nat : NearIn(n)' = NearIn(n)
    BY TickRows
  <2> QED
    BY <1>1, <2>1, SameRows
<1>3. CASE task_list' # <<>>
  BY <1>1, <1>2, <1>3 DEF TimerTick, TS!vars
<1>4. CASE task_list' = <<>>
  <2>1. current_tick_count_ \notin DOMAIN Agenda
    BY <1>1, <1>4, TickRows, AgendaIs
  <2> QED
    BY <1>1, <1>2, <1>4, <2>1 DEF TimerTick, TS!Advance
<1> QED
  BY <1>3, <1>4

(* A list that keeps no near task whose fate changes collects as before.   *)
LEMMA SameTasks ==
  ASSUME NEW s \in Seq(Entries), NEW n,
         \A i \in DOMAIN s :
           fate'[s[i].task] = "near" <=> fate[s[i].task] = "near"
  PROVE  TasksIn(s, DueIn(n)') = TasksIn(s, DueIn(n))
<1>1. \A i \in DOMAIN s : s[i] \in DueIn(n) <=> s[i] \in DueIn(n)'
  <2> TAKE i \in DOMAIN s
  <2>1. s[i] \in Entries
    BY ElementOfSeq, LenProperties
  <2> QED
    BY <2>1 DEF DueIn, Entries
<1>2. Grows(s, s)
  BY DEF Grows
<1> QED
  BY <1>1, <1>2, TasksInGrown

(* Nothing else is kept of a near task at the head of the list.            *)
LEMMA HeadAlone ==
  ASSUME SInv, task_list # <<>>, fate[Head(task_list).task] = "near"
  PROVE  /\ Head(task_list).tick_count = current_tick_count_
         /\ \A i \in DOMAIN Tail(task_list) :
              Tail(task_list)[i].task # Head(task_list).task
         /\ \A slot \in 0 .. WheelSize[1] - 1 :
              \A i \in DOMAIN timing_wheel_vec_[1].wheel[slot] :
                timing_wheel_vec_[1].wheel[slot][i].task
                  # Head(task_list).task
<1> DEFINE head == Head(task_list)
<1>1. /\ tpc = "run" /\ task_list \in Seq(Entries)
      /\ timing_wheel_vec_ # <<>> /\ current_tick_count_ \in Nat
  BY DEF SInv, IInv, TypeOK, PlaceInv, OnceInv
<1>2. 1 \in DOMAIN task_list
  BY <1>1, EmptySeq, LenProperties, SMT
<1>3. /\ head = task_list[1]
      /\ \A i \in DOMAIN Tail(task_list) :
           /\ i + 1 \in DOMAIN task_list /\ i + 1 # 1
           /\ Tail(task_list)[i] = task_list[i + 1]
  <2>1. /\ head = task_list[1]
        /\ \A i \in DOMAIN Tail(task_list) :
             /\ i + 1 \in DOMAIN task_list
             /\ Tail(task_list)[i] = task_list[i + 1]
    BY <1>1, TailEntries
  <2>2. Tail(task_list) \in Seq(Entries)
    BY <1>1, HeadTailProperties
  <2>3. \A i \in DOMAIN Tail(task_list) : i + 1 # 1
    <3>1. DOMAIN Tail(task_list) = 1 .. Len(Tail(task_list))
      BY <2>2, LenProperties
    <3> QED
      BY <3>1, SMT
  <2> QED
    BY <2>1, <2>3
<1>4. head.tick_count = current_tick_count_
  BY <1>2, <1>3 DEF SInv, PlanInv, ListPlan, InListOK
<1> HIDE DEF head
<1>5. ASSUME NEW i \in DOMAIN Tail(task_list)
      PROVE  Tail(task_list)[i].task # head.task
  BY <1>2, <1>3 DEF SInv, OnceInv, KeptOnce, Once, head
<1>6. ASSUME NEW slot \in 0 .. WheelSize[1] - 1,
             NEW i \in DOMAIN timing_wheel_vec_[1].wheel[slot],
             NEW x, x = timing_wheel_vec_[1].wheel[slot][i],
             x.task = head.task
      PROVE  FALSE
  <2>1. fate[head.task] = "near"
    BY DEF head
  <2>2. InSlotOK(1, slot, x)
    BY <1>1, <1>6, LevelsOK DEF SInv, PlanInv, WheelPlan
  <2>3. x.tick_count \in Window
    BY <1>6, <2>1, <2>2 DEF InSlotOK
  <2>4. x \in NearEntries /\ head \in NearEntries
    BY <1>1, <1>2, <1>3, <1>6, <2>1 DEF NearEntries, FirstEntries
  <2>5. x = head
    BY <1>6, <2>4 DEF SInv, OnceInv, OneEntry
  <2> QED
    BY <1>1, <1>4, <2>3, <2>5, SMT DEF Window, NextTick, InWindow
<1> QED
  BY <1>4, <1>5, <1>6 DEF head

LEMMA TaskEndsServes ==
  ASSUME SInv, SInv', TaskEnds
  PROVE  UNCHANGED TS!vars \/ TS!Run
<1> DEFINE head == Head(task_list)
           rest == Tail(task_list)
           c == current_tick_count_
           part(n) == timing_wheel_vec_[1].wheel[n % WheelSize[1]]
<1>1. /\ tpc = "run" /\ tpc' \in {"run", "count"}
      /\ task_list \in Seq(Entries) /\ task_list # <<>>
      /\ task_list' = rest /\ c \in Nat
      /\ UNCHANGED timing_wheel_vec_ /\ UNCHANGED c
      /\ timing_wheel_vec_ # <<>>
      /\ fate \in [Tasks -> {"new", "past", "near", "far", "done", "ran"}]
      /\ fate' = [fate EXCEPT ![head.task] =
                    IF @ = "near" THEN "done" ELSE "ran"]
      /\ IInv /\ PlanInv
  BY DEF SInv, TaskEnds, TimerAt, IInv, TypeOK, PlaceInv, wheelVars, OnceInv
<1>2. /\ head \in Entries /\ head.task \in Tasks
      /\ head = task_list[1] /\ 1 \in DOMAIN task_list
      /\ rest \in Seq(Entries)
  <2>1. head \in Entries /\ head = task_list[1] /\ rest \in Seq(Entries)
    BY <1>1, TailEntries, TasksInTail
  <2>2. 1 \in DOMAIN task_list
    BY <1>1, EmptySeq, LenProperties, SMT
  <2> QED
    BY <2>1, <2>2 DEF Entries
<1>3. fate[head.task] # "done"
  BY <1>2 DEF SInv, OnceInv, NoneDone, NotDone
<1>4. /\ \A k \in Tasks : k # head.task => fate'[k] = fate[k]
      /\ fate'[head.task] =
           IF fate[head.task] = "near" THEN "done" ELSE "ran"
  <2> HIDE DEF head
  <2> QED
    BY <1>1, <1>2
<1>5. \A n \in Nat : part(n) \in Seq(Entries)
  BY <1>1, SlotOfTick, SlotType, LevelsOK
<1>6. \A n \in Nat :
        /\ NearIn(n) = TasksIn(task_list, DueIn(n)) \o TasksIn(part(n), DueIn(n))
        /\ NearIn(n)' = TasksIn(rest, DueIn(n)') \o TasksIn(part(n), DueIn(n)')
  BY <1>1 DEF NearIn
<1>7. \A s \in Seq(Entries) : \A i \in DOMAIN s : s[i].task \in Tasks
  <2> TAKE s \in Seq(Entries)
  <2> TAKE i \in DOMAIN s
  <2>1. s[i] \in Entries
    BY ElementOfSeq, LenProperties
  <2> QED
    BY <2>1 DEF Entries
<1>8. /\ \A n \in Nat : \A i \in DOMAIN part(n) : part(n)[i].task \in Tasks
      /\ \A i \in DOMAIN rest : rest[i].task \in Tasks
  <2> HIDE DEF part, rest
  <2> QED
    BY <1>2, <1>5, <1>7
<1>9. \A n \in Nat : head \in DueIn(n) <=>
                       head.tick_count = n /\ fate[head.task] = "near"
  BY <1>1, <1>2, DueEntry
<1> HIDE DEF head, rest, part
<1>10. CASE fate[head.task] # "near"
  <2>1. \A k \in Tasks : fate'[k] = "near" <=> fate[k] = "near"
    BY <1>4, <1>10
  <2>2. Ran' = Ran
    BY <1>3, <1>4, <1>10 DEF Ran
  <2>3. ASSUME NEW n \in Nat PROVE NearIn(n)' = NearIn(n)
    <3>1. TasksIn(rest, DueIn(n)') = TasksIn(rest, DueIn(n))
      BY <1>2, <1>8, <2>1, SameTasks
    <3>2. TasksIn(part(n), DueIn(n)') = TasksIn(part(n), DueIn(n))
      BY <1>5, <1>8, <2>1, SameTasks
    <3>3. TasksIn(task_list, DueIn(n)) = TasksIn(rest, DueIn(n))
      BY <1>1, <1>9, <1>10, TasksInTail DEF head, rest
    <3> QED
      BY <1>6, <3>1, <3>2, <3>3
  <2>4. Agenda' = Agenda
    BY <1>1, <2>3, SameRows
  <2> QED
    BY <1>1, <2>2, <2>4 DEF TS!vars, Ran
<1>11. CASE fate[head.task] = "near"
  <2>1. /\ head.tick_count = c
        /\ \A i \in DOMAIN rest : rest[i].task # head.task
        /\ \A n \in Nat : \A i \in DOMAIN part(n) :
             part(n)[i].task # head.task
    BY <1>1, <1>11, HeadAlone, SlotOfTick DEF head, rest, part
  <2>2. ASSUME NEW n \in Nat
        PROVE  /\ TasksIn(rest, DueIn(n)') = TasksIn(rest, DueIn(n))
               /\ TasksIn(part(n), DueIn(n)') = TasksIn(part(n), DueIn(n))
    <3>1. TasksIn(rest, DueIn(n)') = TasksIn(rest, DueIn(n))
      BY <1>2, <1>4, <1>8, <2>1, SameTasks
    <3>2. TasksIn(part(n), DueIn(n)') = TasksIn(part(n), DueIn(n))
      BY <1>4, <1>5, <1>8, <2>1, SameTasks
    <3> QED
      BY <3>1, <3>2
  <2>3. ASSUME NEW n \in Nat, n # c PROVE NearIn(n)' = NearIn(n)
    <3>1. TasksIn(task_list, DueIn(n)) = TasksIn(rest, DueIn(n))
      BY <1>1, <1>9, <2>1, <2>3, TasksInTail DEF head, rest
    <3> QED
      BY <1>6, <2>2, <3>1
  <2>4. /\ NearIn(c) # <<>> /\ Head(NearIn(c)) = head.task
        /\ NearIn(c)' = Tail(NearIn(c))
    <3> DEFINE z == TasksIn(task_list, DueIn(c))
               y == TasksIn(rest, DueIn(c))
               x == TasksIn(part(c), DueIn(c))
    <3>1. head \in DueIn(c)
      BY <1>1, <1>9, <1>11, <2>1
    <3>2. z # <<>> /\ Head(z) = head.task /\ Tail(z) = y
      BY <1>1, <3>1, TasksInTail DEF head, rest
    <3>3. z \in Seq(Tasks) /\ y \in Seq(Tasks)
      BY <1>1, <1>2, TasksInType
    <3>4. x = <<>>
      <4>1. c \notin Window
        BY <1>1, SMT DEF Window, NextTick, InWindow
      <4> QED
        BY <1>1, <4>1, SlotPart, SlotOfTick DEF part
    <3>5. NearIn(c) = z \o x /\ NearIn(c)' = y \o x
      BY <1>1, <1>6, <2>2
    <3> HIDE DEF z, y, x
    <3> QED
      BY <3>2, <3>3, <3>4, <3>5, BesideNothing, Zenon
  <2>5. /\ Rows \in [Nat -> Seq(Tasks)] /\ Rows[c] = NearIn(c)
        /\ Agenda = AgendaOf(Rows) /\ Agenda' = AgendaOf(Rows)'
    BY <1>1, AgendaOfRows, AgendaOfRowsAfter DEF SInv, Rows
  <2>6. Rows' = [Rows EXCEPT ![c] = Tail(@)]
    <3>1. Rows = [n \in Nat |-> NearIn(n)] /\ Rows' = [n \in Nat |-> NearIn(n)']
      BY DEF Rows
    <3> HIDE DEF c
    <3> QED
      BY <1>1, <2>3, <2>4, <3>1
  <2>7. AgendaOf(Rows)' = AgendaOf([Rows EXCEPT ![c] = Tail(@)])
    BY <2>6 DEF AgendaOf
  <2>8. /\ c \in DOMAIN Agenda /\ Agenda[c] = NearIn(c)
        /\ Agenda' = [m \in IF Len(Agenda[c]) = 1 THEN DOMAIN Agenda \ {c}
                            ELSE DOMAIN Agenda |->
                        IF m = c THEN Tail(Agenda[c]) ELSE Agenda[m]]
    <3> HIDE DEF c
    <3>1. c \in Nat /\ Rows[c] # <<>>
      BY <1>1, <2>4, <2>5
    <3>2. LET a == AgendaOf(Rows)
          IN  /\ c \in DOMAIN a /\ a[c] = Rows[c]
              /\ AgendaOf([Rows EXCEPT ![c] = Tail(@)]) =
                   [m \in IF Len(a[c]) = 1 THEN DOMAIN a \ {c} ELSE DOMAIN a |->
                      IF m = c THEN Tail(a[c]) ELSE a[m]]
      BY <2>5, <3>1, RowRun, Zenon
    <3> QED
      BY <2>5, <2>7, <3>2, Zenon
  <2>9. Ran' = Ran \cup {head.task}
    BY <1>2, <1>4, <1>11 DEF Ran
  <2> QED
    BY <1>1, <2>4, <2>8, <2>9 DEF TS!Run, Ran
<1> QED
  BY <1>10, <1>11

(* A near task is appended to the row of its tick, any other to none.      *)
LEMMA CallServes ==
  ASSUME SInv, SInv', NEW k \in Tasks, NEW tp \in Times,
         NEW start \in StartsRead, ExecuteAt(k, tp, start)
  PROVE  \/ UNCHANGED TS!vars
         \/ \E n \in DOMAIN Agenda' : TS!Schedule(k, n)
<1> DEFINE vec == timing_wheel_vec_
           tick == VirtualTp(tp, start) \div Dt
           diff == tick - current_tick_count_
           e == [tick_count |-> tick, task |-> k]
           part(n) == timing_wheel_vec_[1].wheel[n % WheelSize[1]]
           next(n) == timing_wheel_vec_'[1].wheel[n % WheelSize[1]]
<1>1. /\ UNCHANGED task_list /\ UNCHANGED <<current_tick_count_, tpc>>
      /\ fate[k] = "new" /\ fate'[k] # "done"
      /\ \A t \in Tasks : t # k => fate'[t] = fate[t]
      /\ IInv /\ PlanInv /\ current_tick_count_ \in Nat
  BY DEF SInv, ExecuteAt, IInv, TypeOK
<1>2. Ran' = Ran
  BY <1>1 DEF Ran
<1>3. CASE vec' = <<>>
  <2>1. vec = <<>>
    <3>1. \/ UNCHANGED vec
          \/ \E ii \in Levels :
               /\ e \in Entries
               /\ Slot(ii, diff) \in 0 .. WheelSize[ii] - 1
               /\ WellFormed(vec)
               /\ vec' = [vec EXCEPT ![ii].wheel[Slot(ii, diff)] = Append(@, e)]
      BY <1>1, CallWheels
    <3> HIDE DEF e, diff, tick
    <3>2. ASSUME NEW ii \in Levels, e \in Entries,
                 Slot(ii, diff) \in 0 .. WheelSize[ii] - 1,
                 WellFormed(vec),
                 vec' = [vec EXCEPT ![ii].wheel[Slot(ii, diff)] = Append(@, e)]
          PROVE  vec' # <<>>
      BY <3>2, PlaceOK, ShapeOK
    <3> QED
      BY <1>3, <3>1, <3>2
  <2>2. Agenda = <<>> /\ Agenda' = <<>>
    BY <1>1, <1>3, <2>1, AgendaOfRows, AgendaOfRowsAfter DEF SInv
  <2> QED
    BY <1>1, <1>2, <2>2 DEF TS!vars, Ran
<1>4. CASE vec' # <<>>
  <2>1. /\ vec # <<>>
        /\ \/ UNCHANGED vec /\ fate'[k] \in {"past", "far"}
           \/ /\ e \in Entries /\ tick \in Nat /\ diff \in Nat
              /\ fate'[k] = IF Near(diff) THEN "near" ELSE "far"
              /\ \E ii \in Levels :
                   /\ ii # 1 => ~HasRoom(1, diff)
                   /\ \A slot \in 0 .. WheelSize[1] - 1 :
                        vec'[1].wheel[slot] =
                          IF ii = 1 /\ slot = Slot(1, diff)
                          THEN Append(vec[1].wheel[slot], e)
                          ELSE vec[1].wheel[slot]
    <3>1. 1 \in Levels
      BY LevelsOK
    <3> QED
      BY <1>1, <1>4, <3>1, CallShape
  <2>2. ASSUME NEW n \in Nat
        PROVE  /\ NearIn(n) = TasksIn(task_list, DueIn(n))
                                \o TasksIn(part(n), DueIn(n))
               /\ NearIn(n)' = TasksIn(task_list, DueIn(n)')
                                \o TasksIn(next(n), DueIn(n)')
               /\ part(n) \in Seq(Entries)
               /\ n % WheelSize[1] \in 0 .. WheelSize[1] - 1
    BY <1>1, <2>1, SlotOfTick, SlotType, LevelsOK DEF NearIn
  <2>3. /\ \A i \in DOMAIN task_list : task_list[i].task # k
        /\ \A n \in Nat : \A i \in DOMAIN part(n) : part(n)[i].task # k
    BY <1>1, <2>1, <2>2, NewIsNowhere, LevelsOK
  <2>4. task_list \in Seq(Entries)
    BY <1>1 DEF IInv, TypeOK
  <2> HIDE DEF e, diff, part, next
  <2>5. ASSUME NEW s \in Seq(Entries), NEW n \in Nat,
               \A i \in DOMAIN s : s[i].task # k
        PROVE  TasksIn(s, DueIn(n)') = TasksIn(s, DueIn(n))
    <3>1. \A i \in DOMAIN s : s[i].task \in Tasks
      <4> TAKE i \in DOMAIN s
      <4>1. s[i] \in Entries
        BY ElementOfSeq, LenProperties
      <4> QED
        BY <4>1 DEF Entries
    <3> QED
      BY <1>1, <2>5, <3>1, SameTasks
  <2>6. ASSUME NEW n \in Nat
        PROVE  /\ TasksIn(task_list, DueIn(n)') = TasksIn(task_list, DueIn(n))
               /\ TasksIn(part(n), DueIn(n)') = TasksIn(part(n), DueIn(n))
    BY <2>2, <2>3, <2>4, <2>5
  <2>7. CASE \A n \in Nat : NearIn(n)' = NearIn(n)
    <3>1. Agenda' = Agenda
      BY <1>4, <2>1, <2>7, SameRows
    <3> QED
      BY <1>1, <1>2, <3>1 DEF TS!vars, Ran
  <2>8. CASE \A n \in Nat : next(n) = part(n)
    <3>1. \A n \in Nat : NearIn(n)' = NearIn(n)
      BY <2>2, <2>6, <2>8
    <3> QED
      BY <2>7, <3>1
  <2>9. CASE /\ e \in Entries /\ tick \in Nat /\ diff \in Nat
             /\ fate'[k] = IF Near(diff) THEN "near" ELSE "far"
             /\ \A n \in Nat : next(n) =
                  IF n % WheelSize[1] = Slot(1, diff) THEN Append(part(n), e)
                  ELSE part(n)
    <3>1. \A n \in Nat : e \in DueIn(n)' <=> n = tick /\ Near(diff)
      BY <1>1, <2>9 DEF DueIn, e
    <3>2. ASSUME NEW n \in Nat
          PROVE  TasksIn(next(n), DueIn(n)') =
                   IF n = tick /\ Near(diff) /\ n % WheelSize[1] = Slot(1, diff)
                   THEN Append(TasksIn(part(n), DueIn(n)), k)
                   ELSE TasksIn(part(n), DueIn(n))
      <4>1. TasksIn(Append(part(n), e), DueIn(n)') =
              IF e \in DueIn(n)' THEN Append(TasksIn(part(n), DueIn(n)'), e.task)
              ELSE TasksIn(part(n), DueIn(n)')
        BY <2>2, <2>9, TasksInAppend
      <4>2. e.task = k
        BY DEF e
      <4> QED
        BY <2>6, <2>9, <3>1, <4>1, <4>2
    <3>3. CASE ~Near(diff)
      <4>1. \A n \in Nat : NearIn(n)' = NearIn(n)
        BY <2>2, <2>6, <3>2, <3>3
      <4> QED
        BY <2>7, <4>1
    <3>4. CASE Near(diff)
      <4>1. Slot(1, diff) = tick % WheelSize[1] /\ tick >= current_tick_count_
        <5>1. /\ Slot(1, diff) = tick % WheelSize[1]
              /\ tick \in NextTick .. NextTick + WheelSize[1] - 1
          BY <1>1, <2>9, <3>4, NearSlot DEF diff
        <5>2. NextTick \in Nat /\ NextTick >= current_tick_count_
          BY <1>1, SMT DEF NextTick
        <5> QED
          BY <1>1, <2>9, <5>1, <5>2, TickSlots, SMT
      <4>2. ASSUME NEW n \in Nat, n # tick PROVE NearIn(n)' = NearIn(n)
        BY <2>2, <2>6, <3>2, <4>2
      <4>3. NearIn(tick)' = Append(NearIn(tick), k)
        <5> DEFINE x == TasksIn(task_list, DueIn(tick))
                   y == TasksIn(part(tick), DueIn(tick))
        <5>1. x \in Seq(Tasks) /\ y \in Seq(Tasks)
          BY <2>2, <2>4, <2>9, TasksInType
        <5>2. NearIn(tick) = x \o y /\ NearIn(tick)' = x \o Append(y, k)
          BY <2>2, <2>6, <2>9, <3>2, <3>4, <4>1
        <5> HIDE DEF x, y
        <5>3. x \o Append(y, k) = Append(x \o y, k)
          BY <5>1
        <5> QED
          BY <5>2, <5>3
      <4>4. /\ Rows \in [Nat -> Seq(Tasks)]
            /\ Agenda = AgendaOf(Rows) /\ Agenda' = AgendaOf(Rows)'
        BY <1>4, <2>1, AgendaOfRows, AgendaOfRowsAfter DEF SInv
      <4>5. Rows' = [Rows EXCEPT ![tick] = Append(@, k)]
        <5>1. Rows = [n \in Nat |-> NearIn(n)] /\ Rows' = [n \in Nat |-> NearIn(n)']
          BY DEF Rows
        <5> HIDE DEF tick
        <5> QED
          BY <2>9, <4>2, <4>3, <5>1
      <4>6. AgendaOf(Rows)' = AgendaOf(Rows')
        BY DEF AgendaOf
      <4> HIDE DEF tick
      <4>7. Scheduling(AgendaOf(Rows), AgendaOf(Rows'), tick, k)
        BY <2>9, <4>4, <4>5, RowScheduled
      <4>8. /\ tick \in DOMAIN Agenda'
            /\ Agenda' =
                 [m \in DOMAIN Agenda \cup {tick} |->
                    IF m = tick
                    THEN Append(IF tick \in DOMAIN Agenda THEN Agenda[tick]
                                ELSE <<>>, k)
                    ELSE Agenda[m]]
        BY <4>4, <4>6, <4>7, Zenon DEF Scheduling
      <4>9. TS!Schedule(k, tick)
        BY <1>1, <1>2, <4>1, <4>8, Zenon DEF TS!Schedule, TS!Due, Ran
      <4> QED
        BY <4>8, <4>9
    <3> QED
      BY <3>3, <3>4
  <2>10. CASE UNCHANGED vec
    BY <2>8, <2>10 DEF next, part
  <2>11. ASSUME NEW ii \in Levels,
                e \in Entries, tick \in Nat, diff \in Nat,
                fate'[k] = IF Near(diff) THEN "near" ELSE "far",
                ii # 1 => ~HasRoom(1, diff),
                \A slot \in 0 .. WheelSize[1] - 1 :
                  vec'[1].wheel[slot] =
                    IF ii = 1 /\ slot = Slot(1, diff)
                    THEN Append(vec[1].wheel[slot], e)
                    ELSE vec[1].wheel[slot]
         PROVE  \/ UNCHANGED TS!vars
                \/ \E n \in DOMAIN Agenda' : TS!Schedule(k, n)
    <3>1. \A n \in Nat : next(n) =
            IF ii = 1 /\ n % WheelSize[1] = Slot(1, diff) THEN Append(part(n), e)
            ELSE part(n)
      BY <2>2, <2>11 DEF next, part
    <3>2. CASE ii = 1
      <4>1. \A n \in Nat : next(n) =
              IF n % WheelSize[1] = Slot(1, diff) THEN Append(part(n), e)
              ELSE part(n)
        BY <3>1, <3>2
      <4> QED
        BY <2>9, <2>11, <4>1
    <3>3. CASE ii # 1
      BY <2>8, <3>1, <3>3
    <3> QED
      BY <3>2, <3>3
  <2> QED
    BY <2>1, <2>10, <2>11
<1> QED
  BY <1>3, <1>4

LEMMA StepServes ==
  ASSUME SInv, SInv', [Next]_vars
  PROVE  [TS!Next]_(TS!vars)
<1>1. ASSUME NEW k \in Tasks, NEW tp \in Times, NEW start \in StartsRead,
             ExecuteAt(k, tp, start)
      PROVE  [TS!Next]_(TS!vars)
  BY <1>1, CallServes DEF TS!Next
<1>2. CASE Initialize /\ state_ = "kPreInit"
  BY <1>2, InitializeServes
<1>3. CASE TimerTick
  BY <1>3, TickServes DEF TS!Next
<1>4. CASE TaskEnds
  BY <1>4, TaskEndsServes DEF TS!Next
<1>5. CASE /\ Quiet /\ ~TimerTick
           /\ ~ \E k \in Tasks, tp \in Times, start \in StartsRead :
                  ExecuteAt(k, tp, start)
  BY <1>5, QuietServes DEF TS!Next
<1> QED
  BY <1>1, <1>2, <1>3, <1>4, <1>5, StepCases DEF SInv

(* For near tasks the wheels implement the timer service, with any number  *)
(* of levels of any size, whenever and from wherever tasks are handed      *)
(* over, the clock is set back, a task shuts the executor down or one lies *)
(* on a slot that carries fill: each runs in its own tick, once, in the    *)
(* order of the calls, the tick is counted only after that, and none is    *)
(* dropped while the timer thread is there                                 *)
(* (time_wheel_executor.cc:102-108, 136-146, 195-209).                     *)
THEOREM NearTasksServed == Spec => NearTasksOnTime
<1>1. Init => TS!Init
  <2>1. Init => Agenda = <<>>
    BY NoWheelsNoAgenda DEF Init
  <2> QED
    BY <2>1 DEF Init, TS!Init
<1>2. SInv /\ SInv' /\ [Next]_vars => [TS!Next]_(TS!vars)
  BY StepServes
<1>3. IInv /\ OdometerInSync /\ PlanInv /\ OnceInv => SInv
  BY DEF SInv
<1> QED
  BY <1>1, <1>2, <1>3, OnceInvariance, PTL DEF Spec, NearTasksOnTime, TS!Spec
=============================================================================
