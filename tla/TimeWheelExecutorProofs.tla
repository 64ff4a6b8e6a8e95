----------------------- MODULE TimeWheelExecutorProofs -----------------------
(***************************************************************************)
(* Proofs about TimeWheelExecutor, for any number of levels of any size,   *)
(* any tasks, times, clock and calls.                                      *)
(***************************************************************************)
EXTENDS TimeWheelExecutor, TimeWheelLemmas, SequenceTheorems

Row(ii) ==
  [current_pos : 0 .. WheelSize[ii] - 1,
   wheel       : [0 .. WheelSize[ii] - 1 -> Seq(Entries)]]

WellFormed(vec) ==
  /\ vec = [ii \in Levels |-> vec[ii]]
  /\ \A ii \in Levels : vec[ii] \in Row(ii)

(* Where the timer thread and the life cycle can be with respect to each   *)
(* other; the clock is set back MaxSetBacks times at most.                 *)
PlaceInv ==
  /\ timing_wheel_vec_ = <<>> \/ WellFormed(timing_wheel_vec_)
  /\ state_ = "kPreInit" =>
       /\ tpc = "none" /\ ~joinable /\ current_tick_count_ = 0
       /\ timing_wheel_vec_ = <<>> /\ timing_task_map_ = <<>>
       /\ timing_task_map_pos_ = 0
       /\ \A k \in Tasks : fate[k] = "new"
  /\ ~joinable => tpc \in {"none", "exited"}
  /\ task_list # <<>> <=> tpc = "run"
  /\ now >= Epoch - set_backs * SetBack

IInv == TypeOK /\ PlaceInv

-----------------------------------------------------------------------------
(* The levels and their scales.                                            *)
LEMMA LevelsOK ==
  /\ Last \in Nat \ {0} /\ Levels = 1 .. Last
  /\ 1 \in Levels /\ Last \in Levels
  /\ \A ii \in Levels : WheelSize[ii] \in Nat \ {0}
  /\ \A ii \in Levels : ii # 1 => WheelSize[ii] > 1
BY OptionsAssumption, EmptySeq, SMT DEF Levels, Last

LEMMA ScaleOK ==
  /\ Scale[0] = 1
  /\ \A ii \in Levels : Scale[ii] = Scale[ii - 1] * WheelSize[ii]
  /\ \A ii \in 0 .. Last : Scale[ii] \in Nat \ {0}
<1> DEFINE S == Nat \ {0}
           step == [ii \in 1 .. Last |-> [x \in S |-> x * WheelSize[ii]]]
           body(g) == [ii \in 0 .. Last |->
                         IF ii = 0 THEN 1 ELSE g[ii - 1] * WheelSize[ii]]
           typed == {m \in 0 .. Last : Scale[m] \in S}
<1>1. \A ii \in 1 .. Last, x \in S : x * WheelSize[ii] \in S
  BY LevelsOK, SMT
<1>2. PICK f : Iterates(f, S, Last, 1, step)
  <2>1. step \in [1 .. Last -> [S -> S]]
    BY <1>1
  <2>2. 1 \in S /\ Last \in Nat
    BY LevelsOK
  <2> HIDE DEF step, S
  <2> QED
    BY <2>1, <2>2, Recursion
<1>3. f = body(f)
  <2>1. f \in [0 .. Last -> S] /\ f[0] = 1
        /\ \A ii \in 1 .. Last : f[ii] = step[ii][f[ii - 1]]
    BY <1>2 DEF Iterates
  <2>2. ASSUME NEW ii \in 1 .. Last PROVE f[ii] = f[ii - 1] * WheelSize[ii]
    <3>1. ii - 1 \in 0 .. Last
      BY LevelsOK, SMT
    <3>2. f[ii - 1] \in S
      BY <2>1, <3>1
    <3> QED
      BY <2>1, <3>2
  <2>3. \A ii \in 0 .. Last : ii # 0 => ii \in 1 .. Last
    BY LevelsOK, SMT
  <2>4. \A ii \in 0 .. Last :
          f[ii] = IF ii = 0 THEN 1 ELSE f[ii - 1] * WheelSize[ii]
    BY <2>1, <2>2, <2>3
  <2> QED
    BY <2>1, <2>4
<1>4. Scale = body(Scale)
  BY <1>3 DEF Scale, Last
<1>5. \A ii \in 0 .. Last :
        Scale[ii] = IF ii = 0 THEN 1 ELSE Scale[ii - 1] * WheelSize[ii]
  BY <1>4
<1>6. 0 \in 0 .. Last /\ \A ii \in 1 .. Last : ii \in 0 .. Last /\ ii # 0
  BY LevelsOK, SMT
<1>7. Scale[0] = 1 /\ \A ii \in 1 .. Last : Scale[ii] = Scale[ii - 1] * WheelSize[ii]
  BY <1>5, <1>6
<1>8. 0 .. Last \subseteq typed
  <2>1. 0 \in typed
    BY <1>6, <1>7, SMT
  <2>2. ASSUME NEW m \in 0 .. Last - 1, m \in typed PROVE m + 1 \in typed
    <3>1. m + 1 \in 1 .. Last /\ (m + 1) - 1 = m
      BY LevelsOK, SMT
    <3> QED
      BY <1>1, <1>6, <1>7, <2>2, <3>1
  <2> HIDE DEF typed
  <2> QED
    BY <2>1, <2>2, LevelsOK, Induction
<1> QED
  BY <1>7, <1>8, LevelsOK

-----------------------------------------------------------------------------
(* A tick keeps the shape of the levels.                                   *)
LEMMA TickedOK ==
  ASSUME WellFormed(timing_wheel_vec_)
  PROVE  /\ WellFormed(Ticked)
         /\ \A ii \in Levels :
              /\ Ticked[ii].current_pos =
                   IF Carries(ii)
                   THEN (timing_wheel_vec_[ii].current_pos + 1) % WheelSize[ii]
                   ELSE timing_wheel_vec_[ii].current_pos
              /\ \A slot \in 0 .. WheelSize[ii] - 1 :
                   Ticked[ii].wheel[slot] =
                     IF /\ Carries(ii)
                        /\ slot = timing_wheel_vec_[ii].current_pos
                     THEN <<>>
                     ELSE timing_wheel_vec_[ii].wheel[slot]
<1> DEFINE vec == timing_wheel_vec_
           W(ii) == WheelSize[ii]
           row(ii) == [current_pos |-> (vec[ii].current_pos + 1) % W(ii),
                       wheel |-> [vec[ii].wheel EXCEPT
                                    ![vec[ii].current_pos] = <<>>]]
<1>1. Ticked = [ii \in Levels |-> IF Carries(ii) THEN row(ii) ELSE vec[ii]]
  BY DEF Ticked
<1>2. ASSUME NEW ii \in Levels PROVE row(ii) \in Row(ii)
  <2>1. vec[ii] \in Row(ii) /\ W(ii) \in Nat \ {0}
    BY LevelsOK DEF WellFormed
  <2>2. vec[ii].current_pos \in Int /\ vec[ii].wheel \in
          [0 .. W(ii) - 1 -> Seq(Entries)]
    BY <2>1, SMT DEF Row
  <2>3. (vec[ii].current_pos + 1) % W(ii) \in 0 .. W(ii) - 1
    <3>1. vec[ii].current_pos + 1 \in Int
      BY <2>2
    <3> QED
      BY <2>1, <3>1, DivMod
  <2>4. <<>> \in Seq(Entries)
    OBVIOUS
  <2>5. [vec[ii].wheel EXCEPT ![vec[ii].current_pos] = <<>>]
          \in [0 .. W(ii) - 1 -> Seq(Entries)]
    BY <2>2, <2>4
  <2> QED
    BY <2>3, <2>5 DEF Row
<1>3. \A ii \in Levels : vec[ii] \in Row(ii)
  BY DEF WellFormed
<1> HIDE DEF vec, row, W
<1>4. WellFormed(Ticked)
  BY <1>1, <1>2, <1>3 DEF WellFormed
<1>5. ASSUME NEW ii \in Levels
      PROVE /\ Ticked[ii].current_pos =
                   IF Carries(ii) THEN (vec[ii].current_pos + 1) % W(ii)
                   ELSE vec[ii].current_pos
            /\ \A slot \in 0 .. W(ii) - 1 :
                   Ticked[ii].wheel[slot] =
                     IF Carries(ii) /\ slot = vec[ii].current_pos
                     THEN <<>> ELSE vec[ii].wheel[slot]
  <2>1. vec[ii].wheel \in [0 .. W(ii) - 1 -> Seq(Entries)]
    BY <1>3 DEF Row, W
  <2>2. CASE Carries(ii)
    <3>1. Ticked[ii] = row(ii)
      BY <1>1, <2>2
    <3>2. row(ii).current_pos = (vec[ii].current_pos + 1) % W(ii)
          /\ row(ii).wheel = [vec[ii].wheel EXCEPT
                                ![vec[ii].current_pos] = <<>>]
      BY DEF row
    <3> QED
      BY <2>1, <2>2, <3>1, <3>2
  <2>3. CASE ~Carries(ii)
    BY <1>1, <2>3
  <2> QED
    BY <2>2, <2>3
<1> QED
  BY <1>4, <1>5 DEF vec, W

(* The while loop of borrow_func: entry after entry is appended to its     *)
(* slot.                                                                   *)
LEMMA SplicedWheelOK ==
  ASSUME WellFormed(timing_wheel_vec_), Borrowed \in Seq(Entries), ~OutOfWheel
  PROVE  LET n == Len(Borrowed)
             S == [0 .. WheelSize[Last] - 1 -> Seq(Entries)]
         IN  /\ SplicedWheel[0] = Ticked[Last].wheel
             /\ \A i \in 1 .. n :
                  /\ SlotOfBorrowed(Borrowed[i]) \in 0 .. WheelSize[Last] - 1
                  /\ SplicedWheel[i] =
                       [SplicedWheel[i - 1] EXCEPT
                          ![SlotOfBorrowed(Borrowed[i])] =
                             Append(@, Borrowed[i])]
             /\ \A i \in 0 .. n : SplicedWheel[i] \in S
<1> DEFINE n == Len(Borrowed)
           top == WheelSize[Last] - 1
           S == [0 .. top -> Seq(Entries)]
           at(i) == SlotOfBorrowed(Borrowed[i])
           next(i, w) == [w EXCEPT ![at(i)] = Append(@, Borrowed[i])]
           step == [i \in 1 .. n |-> [w \in S |-> next(i, w)]]
           body(g) == [i \in 0 .. n |->
                         IF i = 0 THEN Ticked[Last].wheel ELSE next(i, g[i - 1])]
           typed == {m \in 0 .. n : SplicedWheel[m] \in S}
<1>1. n \in Nat /\ DOMAIN Borrowed = 1 .. n
      /\ \A i \in 1 .. n : Borrowed[i] \in Entries
  BY ElementOfSeq, LenProperties
<1>2. ASSUME NEW i \in 1 .. n PROVE at(i) \in 0 .. top
  <2>1. Borrowed[i].tick_count \in Int /\ Scale[Last] \in Nat \ {0}
        /\ WheelSize[Last] \in Nat
    BY <1>1, ScaleOK, LevelsOK, SMT DEF Entries
  <2>2. at(i) \in 0 .. Scale[Last] - 1
    BY <2>1, DivMod DEF SlotOfBorrowed
  <2>3. ~ (at(i) >= WheelSize[Last])
    BY <1>1 DEF OutOfWheel
  <2> QED
    BY <2>1, <2>2, <2>3, SMT
<1>3. \A i \in 1 .. n, w \in S : next(i, w) \in S
  <2> TAKE i \in 1 .. n, w \in S
  <2>1. w[at(i)] \in Seq(Entries)
    BY <1>2
  <2>2. Append(w[at(i)], Borrowed[i]) \in Seq(Entries)
    BY <1>1, <2>1, AppendProperties
  <2> QED
    BY <1>2, <2>2
<1>4. Ticked[Last].wheel \in S
  BY TickedOK, LevelsOK DEF WellFormed, Row
<1> HIDE DEF S, top, at, next
<1>5. PICK f : Iterates(f, S, n, Ticked[Last].wheel, step)
  <2>1. step \in [1 .. n -> [S -> S]]
    BY <1>3
  <2> HIDE DEF step, n
  <2> QED
    BY <1>1, <1>4, <2>1, Recursion
<1>6. f = body(f)
  <2>1. f \in [0 .. n -> S] /\ f[0] = Ticked[Last].wheel
        /\ \A i \in 1 .. n : f[i] = step[i][f[i - 1]]
    BY <1>5 DEF Iterates
  <2>2. ASSUME NEW i \in 1 .. n PROVE f[i] = next(i, f[i - 1])
    <3>1. i - 1 \in 0 .. n
      BY <1>1, SMT
    <3>2. f[i - 1] \in S
      BY <2>1, <3>1
    <3> QED
      BY <2>1, <3>2
  <2>3. \A i \in 0 .. n : i # 0 => i \in 1 .. n
    BY <1>1, SMT
  <2>4. \A i \in 0 .. n :
          f[i] = IF i = 0 THEN Ticked[Last].wheel ELSE next(i, f[i - 1])
    BY <2>1, <2>2, <2>3
  <2> QED
    BY <2>1, <2>4
<1>7. SplicedWheel = body(SplicedWheel)
  BY <1>6, Zenon DEF SplicedWheel, next, at
<1>8. \A i \in 0 .. n :
        SplicedWheel[i] =
          IF i = 0 THEN Ticked[Last].wheel ELSE next(i, SplicedWheel[i - 1])
  BY <1>7
<1>9. 0 \in 0 .. n /\ \A i \in 1 .. n : i \in 0 .. n /\ i # 0
  BY <1>1, SMT
<1>10. /\ SplicedWheel[0] = Ticked[Last].wheel
       /\ \A i \in 1 .. n : SplicedWheel[i] = next(i, SplicedWheel[i - 1])
  BY <1>8, <1>9
<1>11. 0 .. n \subseteq typed
  <2>1. 0 \in typed
    BY <1>4, <1>9, <1>10
  <2>2. ASSUME NEW m \in 0 .. n - 1, m \in typed PROVE m + 1 \in typed
    <3>1. m + 1 \in 1 .. n /\ (m + 1) - 1 = m
      BY <1>1, SMT
    <3> QED
      BY <1>3, <1>9, <1>10, <2>2, <3>1
  <2> HIDE DEF typed, n
  <2> QED
    BY <1>1, <2>1, <2>2, Induction
<1> QED
  BY <1>2, <1>10, <1>11 DEF S, top, at, next

(* t is s with some more at its end.                                       *)
Grows(s, t) == \A i \in DOMAIN s : i \in DOMAIN t /\ t[i] = s[i]

LEMMA AppendGrows ==
  ASSUME NEW s \in Seq(Entries), NEW e \in Entries
  PROVE  /\ Append(s, e) \in Seq(Entries)
         /\ Grows(s, Append(s, e))
         /\ \A i \in DOMAIN Append(s, e) :
              \/ i \in DOMAIN s /\ Append(s, e)[i] = s[i]
              \/ Append(s, e)[i] = e
         /\ \E i \in DOMAIN Append(s, e) : Append(s, e)[i] = e
<1>1. /\ Append(s, e) \in Seq(Entries) /\ Len(Append(s, e)) = Len(s) + 1
      /\ \A i \in 1 .. Len(s) : Append(s, e)[i] = s[i]
      /\ Append(s, e)[Len(s) + 1] = e
  BY AppendProperties
<1>2. Len(s) \in Nat /\ DOMAIN s = 1 .. Len(s)
      /\ DOMAIN Append(s, e) = 1 .. Len(s) + 1
  BY <1>1, LenProperties
<1>3. \A i \in 1 .. Len(s) + 1 : i \in 1 .. Len(s) \/ i = Len(s) + 1
  BY <1>2, SMT
<1>4. 1 .. Len(s) \subseteq 1 .. Len(s) + 1 /\ Len(s) + 1 \in 1 .. Len(s) + 1
  BY <1>2, SMT
<1> QED
  BY <1>1, <1>2, <1>3, <1>4 DEF Grows

(* After the loop every entry taken from the map is in its slot, behind    *)
(* what was there, and nothing else has changed.                           *)
LEMMA SplicedOK ==
  ASSUME WellFormed(timing_wheel_vec_), Borrowed \in Seq(Entries), ~OutOfWheel
  PROVE  /\ WellFormed(Spliced)
         /\ \A ii \in Levels :
              /\ Spliced[ii].current_pos = Ticked[ii].current_pos
              /\ ii # Last => Spliced[ii].wheel = Ticked[ii].wheel
         /\ \A slot \in 0 .. WheelSize[Last] - 1 :
              /\ Grows(Ticked[Last].wheel[slot], Spliced[Last].wheel[slot])
              /\ \A i \in DOMAIN Spliced[Last].wheel[slot] :
                   \/ /\ i \in DOMAIN Ticked[Last].wheel[slot]
                      /\ Spliced[Last].wheel[slot][i] =
                           Ticked[Last].wheel[slot][i]
                   \/ \E j \in DOMAIN Borrowed :
                        /\ Spliced[Last].wheel[slot][i] = Borrowed[j]
                        /\ slot = SlotOfBorrowed(Borrowed[j])
         /\ \A j \in DOMAIN Borrowed :
              LET slot == SlotOfBorrowed(Borrowed[j])
              IN  /\ slot \in 0 .. WheelSize[Last] - 1
                  /\ \E i \in DOMAIN Spliced[Last].wheel[slot] :
                       Spliced[Last].wheel[slot][i] = Borrowed[j]
<1> DEFINE n == Len(Borrowed)
           slots == 0 .. WheelSize[Last] - 1
           T == Ticked[Last].wheel
           F == SplicedWheel
           at(j) == SlotOfBorrowed(Borrowed[j])
           kept(m) == \A slot \in slots : Grows(T[slot], F[m][slot])
           only(m) == \A slot \in slots : \A i \in DOMAIN F[m][slot] :
                        \/ i \in DOMAIN T[slot] /\ F[m][slot][i] = T[slot][i]
                        \/ \E j \in 1 .. n : F[m][slot][i] = Borrowed[j]
                                             /\ slot = at(j)
           all(m) == \A j \in 1 .. m : \E i \in DOMAIN F[m][at(j)] :
                       F[m][at(j)][i] = Borrowed[j]
           good == {m \in 0 .. n : kept(m) /\ only(m) /\ all(m)}
<1>1. n \in Nat /\ DOMAIN Borrowed = 1 .. n
      /\ \A i \in 1 .. n : Borrowed[i] \in Entries
  BY ElementOfSeq, LenProperties
<1>2. /\ F[0] = T
      /\ \A i \in 1 .. n :
           /\ at(i) \in slots
           /\ F[i] = [F[i - 1] EXCEPT ![at(i)] = Append(@, Borrowed[i])]
      /\ \A i \in 0 .. n : F[i] \in [slots -> Seq(Entries)]
  BY SplicedWheelOK
<1> HIDE DEF n, slots, T, F, at
<1>3. 0 \in good
  <2>1. 0 \in 0 .. n /\ 1 .. 0 = {}
    BY <1>1, SMT
  <2> QED
    BY <1>2, <2>1 DEF Grows
<1>4. ASSUME NEW m \in 0 .. n - 1, m \in good PROVE m + 1 \in good
  <2>1. m + 1 \in 1 .. n /\ (m + 1) - 1 = m /\ m + 1 \in 0 .. n
        /\ m \in 0 .. n /\ \A j \in 1 .. m + 1 : j \in 1 .. m \/ j = m + 1
    BY <1>1, SMT
  <2> DEFINE e == Borrowed[m + 1]
             s == F[m][at(m + 1)]
  <2>2. at(m + 1) \in slots /\ F[m] \in [slots -> Seq(Entries)]
        /\ e \in Entries /\ s \in Seq(Entries)
    BY <1>1, <1>2, <2>1
  <2>3. /\ F[m + 1][at(m + 1)] = Append(s, e)
        /\ \A slot \in slots : slot # at(m + 1) => F[m + 1][slot] = F[m][slot]
    <3>1. F[m + 1] = [F[m] EXCEPT ![at(m + 1)] = Append(@, e)]
      BY <1>2, <2>1
    <3> QED
      BY <2>2, <3>1
  <2>4. /\ Grows(s, Append(s, e))
        /\ \A i \in DOMAIN Append(s, e) :
              \/ i \in DOMAIN s /\ Append(s, e)[i] = s[i]
              \/ Append(s, e)[i] = e
        /\ \E i \in DOMAIN Append(s, e) : Append(s, e)[i] = e
    BY <2>2, AppendGrows
  <2>5. kept(m) /\ only(m) /\ all(m)
    BY <1>4
  <2> HIDE DEF e, s
  <2>6. kept(m + 1)
    <3> SUFFICES ASSUME NEW slot \in slots PROVE Grows(T[slot], F[m + 1][slot])
      OBVIOUS
    <3>1. Grows(T[slot], F[m][slot])
      BY <2>5
    <3>2. Grows(F[m][slot], F[m + 1][slot])
      <4>1. CASE slot = at(m + 1)
        BY <2>3, <2>4, <4>1 DEF s
      <4>2. CASE slot # at(m + 1)
        BY <2>3, <4>2 DEF Grows
      <4> QED
        BY <4>1, <4>2
    <3> QED
      BY <3>1, <3>2 DEF Grows
  <2>7. only(m + 1)
    <3> SUFFICES ASSUME NEW slot \in slots, NEW i \in DOMAIN F[m + 1][slot]
                 PROVE \/ i \in DOMAIN T[slot] /\ F[m + 1][slot][i] = T[slot][i]
                       \/ \E j \in 1 .. n : F[m + 1][slot][i] = Borrowed[j]
                                            /\ slot = at(j)
      OBVIOUS
    <3>1. CASE i \in DOMAIN F[m][slot] /\ F[m + 1][slot][i] = F[m][slot][i]
      BY <2>5, <3>1
    <3>2. CASE slot = at(m + 1) /\ F[m + 1][slot][i] = e
      BY <2>1, <3>2 DEF e
    <3>3. CASE slot # at(m + 1)
      BY <2>3, <3>1, <3>3
    <3>4. CASE slot = at(m + 1)
      BY <2>3, <2>4, <3>1, <3>2, <3>4 DEF s
    <3> QED
      BY <3>3, <3>4
  <2>8. all(m + 1)
    <3> SUFFICES ASSUME NEW j \in 1 .. m + 1
                 PROVE \E i \in DOMAIN F[m + 1][at(j)] :
                         F[m + 1][at(j)][i] = Borrowed[j]
      OBVIOUS
    <3>1. CASE j = m + 1
      BY <2>3, <2>4, <3>1 DEF e
    <3>2. CASE j \in 1 .. m
      <4>1. PICK i \in DOMAIN F[m][at(j)] : F[m][at(j)][i] = Borrowed[j]
        BY <2>5, <3>2
      <4>2. CASE at(j) = at(m + 1)
        BY <2>3, <2>4, <4>1, <4>2 DEF s, Grows
      <4>3. CASE at(j) # at(m + 1)
        <5>1. at(j) \in slots
          <6>1. j \in 1 .. n
            BY <1>1, <3>2, SMT
          <6> QED
            BY <1>2, <6>1
        <5> QED
          BY <2>3, <4>1, <4>3, <5>1
      <4> QED
        BY <4>2, <4>3
    <3> QED
      BY <2>1, <3>1, <3>2
  <2> QED
    BY <2>1, <2>6, <2>7, <2>8
<1>5. n \in good
  <2> HIDE DEF good
  <2>1. 0 .. n \subseteq good
    BY <1>1, <1>3, <1>4, Induction
  <2> QED
    BY <1>1, <2>1, SMT
<1>6. /\ \A ii \in Levels :
           /\ Spliced[ii].current_pos = Ticked[ii].current_pos
           /\ ii # Last => Spliced[ii] = Ticked[ii]
      /\ Spliced[Last].wheel = F[n]
      /\ WellFormed(Spliced)
  <2>1. WellFormed(Ticked)
    BY TickedOK
  <2>2. F[n] \in [slots -> Seq(Entries)]
    BY <1>1, <1>2, SMT
  <2>3. Ticked[Last] \in Row(Last) /\ Last \in Levels
    BY <2>1, LevelsOK DEF WellFormed
  <2>4. Spliced = [Ticked EXCEPT ![Last] = [@ EXCEPT !.wheel = F[n]]]
    BY DEF Spliced, F, n
  <2>5. [Ticked[Last] EXCEPT !.wheel = F[n]] \in Row(Last)
        /\ [Ticked[Last] EXCEPT !.wheel = F[n]].wheel = F[n]
        /\ [Ticked[Last] EXCEPT !.wheel = F[n]].current_pos =
             Ticked[Last].current_pos
    BY <2>2, <2>3 DEF Row, slots
  <2>6. DOMAIN Ticked = Levels /\ Ticked = [ii \in Levels |-> Ticked[ii]]
    BY <2>1 DEF WellFormed
  <2>7. Spliced = [ii \in Levels |-> IF ii = Last
                                     THEN [Ticked[Last] EXCEPT !.wheel = F[n]]
                                     ELSE Ticked[ii]]
    BY <2>4, <2>6
  <2>8. \A ii \in Levels : Ticked[ii] \in Row(ii)
    BY <2>1 DEF WellFormed
  <2> QED
    BY <2>3, <2>5, <2>7, <2>8 DEF WellFormed
<1>7. kept(n) /\ only(n) /\ all(n)
  BY <1>5
<1> DEFINE wheel == Spliced[Last].wheel
<1>8. \A slot \in slots :
        /\ Grows(T[slot], wheel[slot])
        /\ \A i \in DOMAIN wheel[slot] :
             \/ i \in DOMAIN T[slot] /\ wheel[slot][i] = T[slot][i]
             \/ \E j \in DOMAIN Borrowed :
                  wheel[slot][i] = Borrowed[j] /\ slot = at(j)
  BY <1>1, <1>6, <1>7
<1>9. \A j \in DOMAIN Borrowed :
        /\ at(j) \in slots
        /\ \E i \in DOMAIN wheel[at(j)] : wheel[at(j)][i] = Borrowed[j]
  <2>1. wheel = F[n] /\ DOMAIN Borrowed = 1 .. n
    BY <1>1, <1>6
  <2>2. \A j \in 1 .. n : at(j) \in slots
    BY <1>2
  <2> QED
    BY <1>7, <2>1, <2>2
<1> HIDE DEF kept, only, all, good
<1> QED
  <2>1. WellFormed(Spliced)
        /\ \A ii \in Levels :
             /\ Spliced[ii].current_pos = Ticked[ii].current_pos
             /\ ii # Last => Spliced[ii].wheel = Ticked[ii].wheel
    BY <1>6
  <2>2. \A slot \in 0 .. WheelSize[Last] - 1 :
          /\ Grows(Ticked[Last].wheel[slot], Spliced[Last].wheel[slot])
          /\ \A i \in DOMAIN Spliced[Last].wheel[slot] :
               \/ /\ i \in DOMAIN Ticked[Last].wheel[slot]
                  /\ Spliced[Last].wheel[slot][i] =
                       Ticked[Last].wheel[slot][i]
               \/ \E j \in DOMAIN Borrowed :
                    /\ Spliced[Last].wheel[slot][i] = Borrowed[j]
                    /\ slot = SlotOfBorrowed(Borrowed[j])
    BY <1>8 DEF slots, T, at
  <2> QED
    BY <1>9, <2>1, <2>2 DEF slots, at

-----------------------------------------------------------------------------
(* What the tick takes from the map is a list of entries.                  *)
LEMMA BorrowedOK ==
  ASSUME TypeOK
  PROVE  Borrowed \in Seq(Entries)
<1>1. <<>> \in Seq(Entries)
  OBVIOUS
<1> QED
  BY <1>1 DEF TypeOK, Borrowed, Lookup

(* A tick leaves the levels in order, also when it dies in the loop.       *)
LEMMA TickOK ==
  ASSUME IInv, TimerTick
  PROVE  /\ WellFormed(timing_wheel_vec_)
         /\ WellFormed(timing_wheel_vec_')
         /\ \A ii \in Levels :
              timing_wheel_vec_'[ii].current_pos = Ticked[ii].current_pos
         /\ timing_wheel_vec_' = Ticked
            \/ (Carries(Last + 1) /\ ~OutOfWheel /\ timing_wheel_vec_' = Spliced)
<1>1. WellFormed(timing_wheel_vec_)
  BY DEF IInv, PlaceInv, TimerTick
<1>2. timing_wheel_vec_' = Ticked
      \/ (Carries(Last + 1) /\ ~OutOfWheel /\ timing_wheel_vec_' = Spliced)
  BY DEF TimerTick
<1>3. WellFormed(Ticked)
  BY <1>1, TickedOK
<1>4. CASE timing_wheel_vec_' = Ticked
  BY <1>1, <1>3, <1>4
<1>5. CASE Carries(Last + 1) /\ ~OutOfWheel /\ timing_wheel_vec_' = Spliced
  <2>1. WellFormed(Spliced)
        /\ \A ii \in Levels : Spliced[ii].current_pos = Ticked[ii].current_pos
    BY <1>1, <1>5, BorrowedOK, SplicedOK DEF IInv
  <2> QED
    BY <1>1, <1>5, <2>1
<1> QED
  BY <1>2, <1>4, <1>5

(* Wherever ExecuteAt puts a task, the place exists and its entry names a  *)
(* tick that is not past.                                                  *)
LEMMA CallOK ==
  ASSUME TypeOK, NEW tp \in Times, NEW start \in StartsRead,
         ~Past(VirtualTp(tp, start))
  PROVE  LET tick == VirtualTp(tp, start) \div Dt
             diff == tick - current_tick_count_
         IN  /\ tick \in Nat /\ diff \in Nat
             /\ \A ii \in Levels : Slot(ii, diff) \in 0 .. WheelSize[ii] - 1
             /\ MapKey(diff) \in Nat
<1> DEFINE v == VirtualTp(tp, start)
           tick == v \div Dt
           diff == tick - current_tick_count_
           ctc == current_tick_count_
<1>1. Dt \in Nat \ {0} /\ TimeMod \in Nat \ {0} /\ tp \in Int /\ start \in Int
      /\ ctc \in Nat
  BY OptionsAssumption, UsageAssumption DEF TypeOK, StartsRead
<1>2. v \in Nat
  <2>1. tp - start \in Int
    BY <1>1
  <2>2. (tp - start) % TimeMod \in 0 .. TimeMod - 1
    BY <1>1, <2>1, DivMod
  <2> QED
    BY <1>1, <2>2, SMT DEF VirtualTp
<1>3. ~ (v < ctc * Dt)
  BY DEF Past
<1> HIDE DEF v
<1>4. tick \in Int /\ tick >= ctc
  <2>1. v >= ctc * Dt /\ v \in Int /\ ctc \in Int
    BY <1>1, <1>2, <1>3, SMT
  <2>2. v \div Dt \in Int
    BY <1>1, <2>1, DivMod
  <2>3. v \div Dt >= ctc
    BY <1>1, <2>1, DivAtLeast
  <2> QED
    BY <2>2, <2>3
<1>5. tick \in Nat /\ diff \in Nat
  BY <1>1, <1>4, SMT
<1> HIDE DEF tick, diff, ctc
<1>7. ASSUME NEW ii \in 0 .. Last
      PROVE  diff \div Scale[ii] + ctc \div Scale[ii] \in Nat
  <2>1. Scale[ii] \in Nat \ {0}
    BY ScaleOK
  <2>2. diff \div Scale[ii] \in Nat /\ ctc \div Scale[ii] \in Nat
    BY <1>1, <1>5, <2>1, DivNat
  <2> QED
    BY <2>2, SMT
<1>8. ASSUME NEW ii \in Levels PROVE Slot(ii, diff) \in 0 .. WheelSize[ii] - 1
  <2>1. ii - 1 \in 0 .. Last
    BY LevelsOK, SMT
  <2>2. diff \div Scale[ii - 1] + ctc \div Scale[ii - 1] \in Int
        /\ WheelSize[ii] \in Nat \ {0}
    BY <1>7, <2>1, LevelsOK, SMT
  <2>3. (diff \div Scale[ii - 1] + ctc \div Scale[ii - 1]) % WheelSize[ii]
          \in 0 .. WheelSize[ii] - 1
    BY <2>2, DivMod
  <2> QED
    BY <2>3 DEF Slot, ctc
<1>9. MapKey(diff) \in Nat
  <2>1. Last \in 0 .. Last
    BY LevelsOK, SMT
  <2> QED
    BY <1>7, <2>1 DEF MapKey, ctc
<1> QED
  BY <1>5, <1>8, <1>9 DEF diff, tick, ctc, v

(* emplace_back puts an entry at the end of one slot of one level.         *)
LEMMA PlaceOK ==
  ASSUME NEW vec, WellFormed(vec), NEW ii \in Levels,
         NEW slot \in 0 .. WheelSize[ii] - 1, NEW e \in Entries
  PROVE  LET new == [vec EXCEPT ![ii].wheel[slot] = Append(@, e)]
         IN  /\ WellFormed(new)
             /\ \A jj \in Levels :
                  /\ new[jj].current_pos = vec[jj].current_pos
                  /\ \A s \in 0 .. WheelSize[jj] - 1 :
                       new[jj].wheel[s] =
                         IF jj = ii /\ s = slot
                         THEN Append(vec[ii].wheel[slot], e)
                         ELSE vec[jj].wheel[s]
<1> DEFINE row == [vec[ii] EXCEPT !.wheel[slot] = Append(@, e)]
           wheel == [vec[ii].wheel EXCEPT ![slot] = Append(@, e)]
           new == [vec EXCEPT ![ii].wheel[slot] = Append(@, e)]
<1>1. \A jj \in Levels : vec[jj] \in Row(jj)
  BY DEF WellFormed
<1>2. vec[ii].wheel \in [0 .. WheelSize[ii] - 1 -> Seq(Entries)]
      /\ vec[ii].current_pos \in 0 .. WheelSize[ii] - 1
  BY <1>1 DEF Row
<1>3. Append(vec[ii].wheel[slot], e) \in Seq(Entries)
  BY <1>2, AppendProperties
<1>4. wheel \in [0 .. WheelSize[ii] - 1 -> Seq(Entries)]
      /\ \A s \in 0 .. WheelSize[ii] - 1 :
           wheel[s] = IF s = slot THEN Append(vec[ii].wheel[slot], e)
                                  ELSE vec[ii].wheel[s]
  BY <1>2, <1>3
<1>5. row = [vec[ii] EXCEPT !.wheel = wheel]
  OBVIOUS
<1> HIDE DEF wheel
<1>6. row.wheel = wheel /\ row.current_pos = vec[ii].current_pos
      /\ row \in Row(ii)
  BY <1>1, <1>2, <1>4, <1>5 DEF Row
<1>7. new = [vec EXCEPT ![ii] = row]
  OBVIOUS
<1>8. vec = [jj \in Levels |-> vec[jj]]
  BY DEF WellFormed
<1> HIDE DEF row, new
<1>9. new = [jj \in Levels |-> IF jj = ii THEN row ELSE vec[jj]]
  BY <1>7, <1>8
<1>10. \A jj \in Levels : new[jj] = IF jj = ii THEN row ELSE vec[jj]
  BY <1>9
<1>11. WellFormed(new)
  BY <1>1, <1>6, <1>9 DEF WellFormed
<1>12. \A jj \in Levels :
         /\ new[jj].current_pos = vec[jj].current_pos
         /\ \A s \in 0 .. WheelSize[jj] - 1 :
              new[jj].wheel[s] =
                IF jj = ii /\ s = slot THEN Append(vec[ii].wheel[slot], e)
                                       ELSE vec[jj].wheel[s]
  BY <1>4, <1>6, <1>10
<1> QED
  BY <1>11, <1>12 DEF new

(* What TypeOK says of the levels.                                         *)
LEMMA ShapeOK ==
  ASSUME NEW vec, WellFormed(vec)
  PROVE  /\ DOMAIN vec = Levels
         /\ \A ii \in Levels :
              /\ vec[ii].current_pos \in 0 .. WheelSize[ii] - 1
              /\ vec[ii].wheel \in [0 .. WheelSize[ii] - 1 -> Seq(Entries)]
         /\ vec # <<>>
<1>1. \A ii \in Levels : vec[ii] \in Row(ii)
  BY DEF WellFormed
<1>2. DOMAIN vec = Levels /\ 1 \in Levels
  BY LevelsOK DEF WellFormed
<1>3. DOMAIN <<>> = {}
  OBVIOUS
<1> QED
  BY <1>1, <1>2, <1>3 DEF Row

-----------------------------------------------------------------------------
(* Types.                                                                  *)
LEMMA InitOK == Init => IInv
<1> SUFFICES ASSUME Init PROVE IInv
  OBVIOUS
<1>1. <<>> \in Seq(Entries) /\ DOMAIN <<>> = {}
  OBVIOUS
<1>2. script \in Seq(LifecycleCalls) /\ Epoch \in Nat /\ MaxSetBacks \in Nat
      /\ SetBack \in Nat
  BY UsageAssumption DEF Init
<1>3. now >= Epoch - set_backs * SetBack
  BY <1>2 DEF Init
<1>4. PlaceInv
  BY <1>3 DEF Init, PlaceInv
<1>5. {joinable, start_flag_, alive} \subseteq BOOLEAN
  BY DEF Init
<1>6. {start_time_point_, timing_task_map_pos_, current_tick_count_,
       last_loop, real_dt, now, latest} \subseteq Nat
      /\ now <= latest /\ set_backs \in 0 .. MaxSetBacks
  BY <1>2 DEF Init
<1>7. /\ DOMAIN timing_task_map_ \subseteq Nat
      /\ \A key \in DOMAIN timing_task_map_ :
           timing_task_map_[key] \in Seq(Entries)
      /\ task_list \in Seq(Entries)
  BY <1>1 DEF Init
<1> QED
  BY <1>2, <1>4, <1>5, <1>6, <1>7 DEF Init, IInv, TypeOK, State

LEMMA ScriptType ==
  ASSUME script \in Seq(LifecycleCalls), NEW name, OwnerCalls(name)
  PROVE  script' \in Seq(LifecycleCalls)
BY HeadTailProperties DEF OwnerCalls

(* The life-cycle calls.                                                   *)
LEMMA OwnerTypes ==
  ASSUME IInv,
         \/ Initialize \/ InitializeBadOptions \/ Start \/ ShutdownExchange
         \/ Destroy \/ StartReturns \/ ShutdownJoin
  PROVE  IInv'
<1> USE DEF IInv, TypeOK, PlaceInv, ownerVars, startVars, wheelVars, sleepVars,
            clockVars, State, OwnerAt
<1>1. CASE Initialize
  <2>1. script' \in Seq(LifecycleCalls)
    BY <1>1, ScriptType DEF Initialize
  <2>2. CASE state_ = "kPreInit"
    <3>1. timing_wheel_vec_' =
            [ii \in Levels |-> [current_pos |-> IF ii = 1 THEN 0 ELSE 1,
                                wheel       |-> EmptyWheel(ii)]]
      BY <1>1, <2>2 DEF Initialize
    <3>2. ASSUME NEW ii \in Levels
          PROVE  [current_pos |-> IF ii = 1 THEN 0 ELSE 1,
                  wheel       |-> EmptyWheel(ii)] \in Row(ii)
      <4>1. (IF ii = 1 THEN 0 ELSE 1) \in 0 .. WheelSize[ii] - 1
        BY LevelsOK, SMTT(30)
      <4>2. EmptyWheel(ii) \in [0 .. WheelSize[ii] - 1 -> Seq(Entries)]
        BY DEF EmptyWheel
      <4> QED
        BY <4>1, <4>2 DEF Row
    <3>3. WellFormed(timing_wheel_vec_')
      BY <3>1, <3>2 DEF WellFormed
    <3> QED
      BY <1>1, <2>1, <2>2, <3>3, ShapeOK DEF Initialize
  <2>3. CASE state_ # "kPreInit"
    BY <1>1, <2>1, <2>3 DEF Initialize
  <2> QED
    BY <2>2, <2>3
<1>2. CASE InitializeBadOptions
  <2>1. <<"Destroy">> \in Seq(LifecycleCalls)
    BY DEF LifecycleCalls
  <2> QED
    BY <1>2, <2>1 DEF InitializeBadOptions
<1>3. CASE Start
  <2>1. script' \in Seq(LifecycleCalls)
    BY <1>3, ScriptType DEF Start
  <2> QED
    BY <1>3, <2>1 DEF Start
<1>4. CASE ShutdownExchange
  <2>1. script' \in Seq(LifecycleCalls)
    BY <1>4, ScriptType DEF ShutdownExchange
  <2> QED
    BY <1>4, <2>1 DEF ShutdownExchange
<1>5. CASE Destroy
  <2>1. script' \in Seq(LifecycleCalls)
    BY <1>5, ScriptType DEF Destroy
  <2> QED
    BY <1>5, <2>1 DEF Destroy
<1>6. CASE StartReturns
  BY <1>6 DEF StartReturns
<1>7. CASE ShutdownJoin
  <2>1. DOMAIN <<>> = {}
    OBVIOUS
  <2> QED
    BY <1>7, <2>1 DEF ShutdownJoin, Joined
<1> QED
  BY <1>1, <1>2, <1>3, <1>4, <1>5, <1>6, <1>7

(* The clock.                                                              *)
LEMMA ClockTypes ==
  ASSUME IInv, ClockAdvances \/ ClockSetBack
  PROVE  IInv'
<1> USE DEF IInv, TypeOK, PlaceInv, ownerVars, startVars, wheelVars, sleepVars,
            State
<1>1. Epoch \in Nat /\ MaxSetBacks \in Nat /\ SetBack \in Nat
      /\ MaxSetBacks * SetBack <= Epoch
  BY UsageAssumption
<1>2. CASE ClockAdvances
  <2>1. now' >= Epoch - set_backs' * SetBack
    BY <1>1, <1>2 DEF ClockAdvances
  <2> QED
    BY <1>1, <1>2, <2>1, SMTT(30) DEF ClockAdvances
<1>3. CASE ClockSetBack
  <2>1. set_backs' = set_backs + 1 /\ set_backs' \in 0 .. MaxSetBacks
    BY <1>1, <1>3, SMTT(30) DEF ClockSetBack
  <2>2. set_backs' * SetBack = set_backs * SetBack + SetBack
    BY <1>1, <2>1, SMT
  <2>3. set_backs' * SetBack <= MaxSetBacks * SetBack
    BY <1>1, <2>1, SMT
  <2>4. now' \in Nat /\ now' >= Epoch - set_backs' * SetBack /\ now' <= latest
    <3>1. now' = now - SetBack /\ now >= Epoch - set_backs * SetBack
          /\ now \in Nat /\ latest \in Nat /\ now <= latest
      BY <1>3 DEF ClockSetBack
    <3>2. set_backs * SetBack \in Int /\ set_backs' * SetBack \in Int
      BY <1>1, <2>1, SMT
    <3> HIDE DEF IInv, TypeOK, PlaceInv
    <3> QED
      BY <1>1, <2>2, <2>3, <3>1, <3>2, SMT
  <2> QED
    BY <1>3, <2>1, <2>4 DEF ClockSetBack
<1> QED
  BY <1>2, <1>3

(* The timer thread: what is left of dt stays a duration, and the slot it  *)
(* empties a slot of the wheel.                                            *)
LEMMA TimerTypes ==
  ASSUME IInv, TimerStep \/ TaskShutsDown
  PROVE  IInv'
<1> USE DEF IInv, TypeOK, PlaceInv, ownerVars, startVars, wheelVars, sleepVars,
            clockVars, State, TimerAt
<1>1. Dt \in Nat \ {0} /\ MaxSleepDt \in Nat \ {0}
  BY OptionsAssumption
<1>2. CASE TimerBegins
  BY <1>2 DEF TimerBegins
<1>3. CASE TimerLoop
  <2>1. {last_loop', real_dt'} \subseteq Nat
        /\ tpc' \in {"exited", "sleep"}
    BY <1>1, <1>3, SMTT(30) DEF TimerLoop, SleepFrom
  <2> QED
    BY <1>3, <2>1 DEF TimerLoop
<1>4. CASE TimerWakes
  <2>1. {last_loop', real_dt'} \subseteq Nat
        /\ tpc' \in {"tick", "sleep"}
    BY <1>1, <1>4, SMTT(30) DEF TimerWakes, SleepFrom
  <2> QED
    BY <1>4, <2>1 DEF TimerWakes
<1>5. CASE TimerTick
  <2>1. WellFormed(timing_wheel_vec_) /\ WellFormed(timing_wheel_vec_')
    BY <1>5, TickOK
  <2>2. task_list' \in Seq(Entries)
    <3>1. task_list' =
            timing_wheel_vec_[1].wheel[timing_wheel_vec_[1].current_pos]
      BY <1>5 DEF TimerTick
    <3> HIDE DEF IInv, TypeOK, PlaceInv
    <3> QED
      BY <2>1, <3>1, ShapeOK, LevelsOK
  <2>3. /\ timing_task_map_pos_' \in Nat
        /\ DOMAIN timing_task_map_' \subseteq Nat
        /\ \A key \in DOMAIN timing_task_map_' :
             timing_task_map_'[key] \in Seq(Entries)
        /\ alive' \in BOOLEAN
    <3>1. CASE Carries(Last + 1)
      <4>1. /\ timing_task_map_pos_' = timing_task_map_pos_ + 1
            /\ timing_task_map_' = [key \in DOMAIN timing_task_map_
                                              \ {timing_task_map_pos_} |->
                                      timing_task_map_[key]]
            /\ alive' = FALSE \/ alive' = alive
        BY <1>5, <3>1 DEF TimerTick
      <4> QED
        <5>1. DOMAIN timing_task_map_' \subseteq DOMAIN timing_task_map_
              /\ \A key \in DOMAIN timing_task_map_' :
                   timing_task_map_'[key] = timing_task_map_[key]
          BY <4>1
        <5>2. timing_task_map_pos_' \in Nat
          BY <4>1
        <5>3. alive \in BOOLEAN
          OBVIOUS
        <5>4. alive' \in BOOLEAN
          <6> HIDE DEF IInv, TypeOK, PlaceInv
          <6> QED
            BY <4>1, <5>3
        <5> QED
          BY <5>1, <5>2, <5>4
    <3>2. CASE ~Carries(Last + 1)
      <4>1. UNCHANGED <<timing_task_map_, timing_task_map_pos_, alive>>
        BY <1>5, <3>2 DEF TimerTick
      <4> QED
        BY <4>1
    <3> QED
      BY <3>1, <3>2
  <2>4. /\ tpc' \in {"run", "loop"} /\ current_tick_count_' \in Nat
        /\ task_list' # <<>> <=> tpc' = "run"
    <3>1. IF task_list' # <<>>
          THEN tpc' = "run" /\ UNCHANGED current_tick_count_
          ELSE tpc' = "loop" /\ current_tick_count_' = current_tick_count_ + 1
      BY <1>5 DEF TimerTick
    <3>2. current_tick_count_ \in Nat
      OBVIOUS
    <3> HIDE DEF IInv, TypeOK, PlaceInv
    <3> QED
      BY <3>1, <3>2
  <2>5. timing_wheel_vec_' # <<>> =>
          /\ DOMAIN timing_wheel_vec_' = Levels
          /\ \A ii \in Levels :
               /\ timing_wheel_vec_'[ii].current_pos \in 0 .. WheelSize[ii] - 1
               /\ timing_wheel_vec_'[ii].wheel \in
                    [0 .. WheelSize[ii] - 1 -> Seq(Entries)]
    BY <2>1, ShapeOK
  <2>6. joinable /\ state_ # "kPreInit"
    BY <1>5 DEF TimerTick
  <2>7. PlaceInv'
    BY <1>5, <2>1, <2>4, <2>6 DEF TimerTick
  <2> QED
    BY <1>5, <2>2, <2>3, <2>4, <2>5, <2>7 DEF TimerTick
<1>6. CASE TimerTickNoWheels
  BY <1>6 DEF TimerTickNoWheels
<1>7. CASE TaskEnds
  <2>1. task_list # <<>> /\ Tail(task_list) \in Seq(Entries)
        /\ joinable /\ state_ # "kPreInit"
    BY <1>7, HeadTailProperties DEF TaskEnds
  <2> QED
    BY <1>7, <2>1 DEF TaskEnds
<1>8. CASE TimerCounts
  BY <1>8 DEF TimerCounts
<1>9. CASE TaskShutsDown
  BY <1>9 DEF TaskShutsDown
<1> QED
  BY <1>2, <1>3, <1>4, <1>5, <1>6, <1>7, <1>8, <1>9 DEF TimerStep

(* The calls of users and tasks.                                           *)
LEMMA CallTypes ==
  ASSUME IInv, NEW k \in Tasks, NEW tp \in Times, NEW start \in StartsRead,
         ExecuteAt(k, tp, start)
  PROVE  IInv'
<1> USE DEF IInv, TypeOK, PlaceInv, ownerVars, startVars, wheelVars, sleepVars,
            clockVars, State
<1> DEFINE v == VirtualTp(tp, start)
           tick == v \div Dt
           diff == tick - current_tick_count_
           e == [tick_count |-> tick, task |-> k]
<1>1. state_ # "kPreInit"
  BY DEF ExecuteAt, MayCall
<1>2. CASE /\ Past(v)
           /\ fate' = [fate EXCEPT ![k] = "past"]
           /\ UNCHANGED <<wheelVars, alive>>
  BY <1>1, <1>2 DEF ExecuteAt
<1>3. ~Past(v) => /\ tick \in Nat /\ diff \in Nat /\ e \in Entries
                  /\ \A ii \in Levels : Slot(ii, diff) \in 0 .. WheelSize[ii] - 1
                  /\ MapKey(diff) \in Nat
  BY CallOK DEF Entries
<1> HIDE DEF v, tick, diff, e
<1>4. CASE \E ii \in Levels :
             /\ ~Past(v)
             /\ IF timing_wheel_vec_ = <<>>
                THEN alive' = FALSE /\ UNCHANGED timing_wheel_vec_
                ELSE Place(ii, e, diff) /\ UNCHANGED alive
             /\ fate' = [fate EXCEPT ![k] = IF Near(diff) THEN "near" ELSE "far"]
             /\ UNCHANGED <<timing_task_map_, timing_task_map_pos_>>
  <2>1. fate' \in [Tasks -> {"new", "past", "near", "far", "done", "ran"}]
        /\ alive' \in BOOLEAN
    BY <1>4
  <2>2. timing_wheel_vec_' = <<>> \/ WellFormed(timing_wheel_vec_')
    <3>1. CASE timing_wheel_vec_ = <<>>
      BY <1>4, <3>1
    <3>2. CASE timing_wheel_vec_ # <<>>
      <4>1. PICK ii \in Levels : ~Past(v) /\ Place(ii, e, diff)
        BY <1>4, <3>2
      <4>2. Slot(ii, diff) \in 0 .. WheelSize[ii] - 1 /\ e \in Entries
        BY <1>3, <4>1
      <4>3. timing_wheel_vec_' =
              [timing_wheel_vec_ EXCEPT ![ii].wheel[Slot(ii, diff)] =
                 Append(@, e)]
        BY <4>1 DEF Place
      <4>4. WellFormed(timing_wheel_vec_)
        BY <3>2
      <4> QED
        BY <4>2, <4>3, <4>4, PlaceOK
    <3> QED
      BY <3>1, <3>2
  <2>3. timing_wheel_vec_' # <<>> =>
          /\ DOMAIN timing_wheel_vec_' = Levels
          /\ \A ii \in Levels :
               /\ timing_wheel_vec_'[ii].current_pos \in 0 .. WheelSize[ii] - 1
               /\ timing_wheel_vec_'[ii].wheel \in
                    [0 .. WheelSize[ii] - 1 -> Seq(Entries)]
    BY <2>2, ShapeOK
  <2> QED
    BY <1>1, <1>4, <2>1, <2>2, <2>3 DEF ExecuteAt
<1>5. CASE /\ ~Past(v)
           /\ PlaceInMap(e, diff)
           /\ fate' = [fate EXCEPT ![k] = "far"]
           /\ UNCHANGED <<timing_wheel_vec_, timing_task_map_pos_, alive>>
  <2>1. DOMAIN timing_task_map_' = DOMAIN timing_task_map_ \cup {MapKey(diff)}
        /\ \A key \in DOMAIN timing_task_map_' :
             timing_task_map_'[key] =
               IF key = MapKey(diff)
               THEN Append(Lookup(timing_task_map_, key), e)
               ELSE timing_task_map_[key]
    BY <1>5 DEF PlaceInMap
  <2>2. Lookup(timing_task_map_, MapKey(diff)) \in Seq(Entries)
    <3>1. <<>> \in Seq(Entries)
      OBVIOUS
    <3> QED
      BY <3>1 DEF Lookup
  <2>3. Append(Lookup(timing_task_map_, MapKey(diff)), e) \in Seq(Entries)
    BY <1>3, <1>5, <2>2, AppendProperties
  <2>4. /\ DOMAIN timing_task_map_' \subseteq Nat
        /\ \A key \in DOMAIN timing_task_map_' :
             timing_task_map_'[key] \in Seq(Entries)
    BY <1>3, <1>5, <2>1, <2>3
  <2> QED
    BY <1>1, <1>5, <2>4 DEF ExecuteAt
<1> QED
  BY <1>2, <1>4, <1>5 DEF ExecuteAt, v, tick, diff, e

LEMMA TypeStep == IInv /\ [Next]_vars => IInv'
<1> SUFFICES ASSUME IInv, [Next]_vars PROVE IInv'
  OBVIOUS
<1>1. CASE \/ Initialize \/ InitializeBadOptions \/ Start \/ ShutdownExchange
           \/ Destroy \/ OwnerContinues
  BY <1>1, OwnerTypes DEF OwnerContinues
<1>2. CASE TimerStep \/ TaskShutsDown
  BY <1>2, TimerTypes
<1>3. CASE \E k \in Tasks, tp \in Times, start \in StartsRead :
             ExecuteAt(k, tp, start)
  BY <1>3, CallTypes
<1>4. CASE ClockAdvances \/ ClockSetBack
  BY <1>4, ClockTypes
<1>5. CASE UNCHANGED vars
  BY <1>5 DEF IInv, TypeOK, PlaceInv, vars, ownerVars, startVars, wheelVars,
              sleepVars, clockVars
<1> QED
  BY <1>1, <1>2, <1>3, <1>4, <1>5 DEF Next

(* TypeOK: the positions stay in their levels, every list holds entries,   *)
(* what is left to sleep is never negative, and the clock never shows more *)
(* than it has shown (time_wheel_executor.cc:42-216).                      *)
THEOREM TypeCorrect == Spec => []TypeOK
<1>1. IInv => TypeOK
  BY DEF IInv
<1> QED
  BY InitOK, TypeStep, <1>1, PTL DEF Spec

-----------------------------------------------------------------------------
(* The odometer.                                                           *)
LEMMA OdometerExists ==
  ASSUME NEW n \in Nat
  PROVE  \E g : g = [ii \in 1 .. Len(WheelSize) + 1 |->
                      IF ii = 1 THEN n
                      ELSE g[ii - 1] \div WheelSize[ii - 1] + 1]
<1> DEFINE next(ii, x) == x \div WheelSize[ii] + 1
           step == [ii \in 1 .. Last |-> [x \in Nat |-> next(ii, x)]]
           body(g) == [ii \in 1 .. Last + 1 |->
                         IF ii = 1 THEN n
                         ELSE g[ii - 1] \div WheelSize[ii - 1] + 1]
<1>1. \A ii \in 1 .. Last, x \in Nat : next(ii, x) \in Nat
  <2> TAKE ii \in 1 .. Last, x \in Nat
  <2>1. x \div WheelSize[ii] \in Nat
    BY LevelsOK, DivNat
  <2> QED
    BY <2>1, SMT
<1>2. PICK f : Iterates(f, Nat, Last, n, step)
  <2>1. step \in [1 .. Last -> [Nat -> Nat]]
    BY <1>1
  <2> HIDE DEF step
  <2> QED
    BY <2>1, LevelsOK, Recursion
<1> DEFINE h == [ii \in 1 .. Last + 1 |-> f[ii - 1]]
<1>3. f \in [0 .. Last -> Nat] /\ f[0] = n
      /\ \A ii \in 1 .. Last : f[ii] = next(ii, f[ii - 1])
  <2>1. f \in [0 .. Last -> Nat] /\ f[0] = n
        /\ \A ii \in 1 .. Last : f[ii] = step[ii][f[ii - 1]]
    BY <1>2 DEF Iterates
  <2>2. ASSUME NEW ii \in 1 .. Last PROVE f[ii] = next(ii, f[ii - 1])
    <3>1. ii - 1 \in 0 .. Last
      BY LevelsOK, SMT
    <3>2. f[ii - 1] \in Nat
      BY <2>1, <3>1
    <3> HIDE DEF next
    <3> QED
      BY <2>1, <3>2
  <2> QED
    BY <2>1, <2>2
<1>4. h = body(h)
  <2>1. ASSUME NEW ii \in 1 .. Last + 1
        PROVE  h[ii] = IF ii = 1 THEN n
                       ELSE h[ii - 1] \div WheelSize[ii - 1] + 1
    <3>1. CASE ii = 1
      BY <1>3, <3>1, LevelsOK, SMT
    <3>2. CASE ii # 1
      <4>1. ii - 1 \in 1 .. Last /\ ii - 1 \in 1 .. Last + 1
        BY <3>2, LevelsOK, SMT
      <4>2. h[ii] = f[ii - 1] /\ h[ii - 1] = f[(ii - 1) - 1]
        BY <4>1
      <4> HIDE DEF h
      <4>3. f[ii - 1] = next(ii - 1, f[(ii - 1) - 1])
        BY <1>3, <4>1
      <4> QED
        BY <3>2, <4>2, <4>3
    <3> QED
      BY <3>1, <3>2
  <2> HIDE DEF h
  <2>2. h = [ii \in 1 .. Last + 1 |-> h[ii]]
    BY DEF h
  <2> QED
    BY <2>1, <2>2
<1> HIDE DEF h
<1> QED
  BY <1>4 DEF Last

LEMMA OdometerOK ==
  ASSUME NEW n \in Nat, NEW odo,
         odo = [ii \in 1 .. Len(WheelSize) + 1 |->
                  IF ii = 1 THEN n
                  ELSE odo[ii - 1] \div WheelSize[ii - 1] + 1]
  PROVE  /\ odo[1] = n
         /\ \A ii \in Levels : odo[ii + 1] = odo[ii] \div WheelSize[ii] + 1
         /\ \A ii \in 1 .. Last + 1 : odo[ii] \in Nat
<1> DEFINE next(ii, x) == x \div WheelSize[ii] + 1
           typed == {m \in 0 .. Last : odo[m + 1] \in Nat}
<1>1. \A ii \in 1 .. Last, x \in Nat : next(ii, x) \in Nat
  <2> TAKE ii \in 1 .. Last, x \in Nat
  <2>1. x \div WheelSize[ii] \in Nat
    BY LevelsOK, DivNat
  <2> QED
    BY <2>1, SMT
<1>2. odo = [ii \in 1 .. Last + 1 |->
               IF ii = 1 THEN n
               ELSE odo[ii - 1] \div WheelSize[ii - 1] + 1]
  BY DEF Last
<1>3. \A ii \in 1 .. Last + 1 :
        odo[ii] = IF ii = 1 THEN n
                  ELSE odo[ii - 1] \div WheelSize[ii - 1] + 1
  BY <1>2
<1>4. odo[1] = n
  <2>1. 1 \in 1 .. Last + 1
    BY LevelsOK, SMT
  <2> QED
    BY <1>3, <2>1
<1>5. \A ii \in 1 .. Last : odo[ii + 1] = next(ii, odo[ii])
  <2> TAKE ii \in 1 .. Last
  <2>1. ii + 1 \in 1 .. Last + 1 /\ ii + 1 # 1 /\ (ii + 1) - 1 = ii
    BY LevelsOK, SMT
  <2> QED
    BY <1>3, <2>1
<1>6. 0 .. Last \subseteq typed
  <2>1. 0 \in typed
    BY <1>4, LevelsOK, SMT
  <2>2. ASSUME NEW m \in 0 .. Last - 1, m \in typed PROVE m + 1 \in typed
    <3>1. m + 1 \in 1 .. Last /\ m + 1 \in 0 .. Last
      BY LevelsOK, SMT
    <3>2. odo[(m + 1) + 1] = next(m + 1, odo[m + 1])
      BY <1>5, <3>1
    <3>3. odo[m + 1] \in Nat
      BY <2>2
    <3> QED
      BY <1>1, <3>1, <3>2, <3>3
  <2> HIDE DEF typed
  <2> QED
    BY <2>1, <2>2, LevelsOK, Induction
<1>7. \A ii \in 1 .. Last + 1 : odo[ii] \in Nat
  <2> TAKE ii \in 1 .. Last + 1
  <2>1. ii - 1 \in 0 .. Last /\ (ii - 1) + 1 = ii
    BY LevelsOK, SMT
  <2> QED
    BY <1>6, <2>1
<1> QED
  BY <1>4, <1>5, <1>7, LevelsOK

(* When n ticks have been taken, one more advances exactly the levels all  *)
(* of whose lower ones are at their last slot.                             *)
LEMMA OdometerAdvances ==
  ASSUME WellFormed(timing_wheel_vec_), NEW n \in Nat, NEW odo, NEW next,
         odo[1] = n, next[1] = n + 1,
         \A ii \in Levels :
           /\ odo[ii + 1] = odo[ii] \div WheelSize[ii] + 1
           /\ next[ii + 1] = next[ii] \div WheelSize[ii] + 1,
         \A ii \in 1 .. Last + 1 : odo[ii] \in Nat,
         \A ii \in Levels :
           timing_wheel_vec_[ii].current_pos = odo[ii] % WheelSize[ii]
  PROVE  \A ii \in 1 .. Last + 1 :
           next[ii] = IF Carries(ii) THEN odo[ii] + 1 ELSE odo[ii]
<1> DEFINE P(ii) == next[ii] = IF Carries(ii) THEN odo[ii] + 1 ELSE odo[ii]
           good == {m \in 0 .. Last : P(m + 1)}
<1>1. 0 \in good
  <2>1. Carries(1)
    BY SMT DEF Carries
  <2> QED
    BY <2>1, LevelsOK, SMT
<1>2. ASSUME NEW m \in 0 .. Last - 1, m \in good PROVE m + 1 \in good
  <2> DEFINE ii == m + 1
             pos == timing_wheel_vec_[ii].current_pos
  <2>1. ii \in Levels /\ ii \in 0 .. Last /\ ii \in 1 .. Last + 1 /\ P(ii)
        /\ WheelSize[ii] \in Nat \ {0} /\ ii \in Nat \ {0}
    BY <1>2, LevelsOK, SMT
  <2>2. Carries(ii + 1) <=> Carries(ii) /\ pos = WheelSize[ii] - 1
    <3>1. \A jj : jj \in 1 .. (ii + 1) - 1 <=> jj \in 1 .. ii - 1 \/ jj = ii
      <4>1. ii \in Nat \ {0}
        BY <2>1
      <4> HIDE DEF ii
      <4> QED
        BY <4>1, SMT
    <3> QED
      BY <3>1 DEF Carries
  <2>3. odo[ii] \in Int /\ odo[ii] \in Nat
    BY <2>1
  <2>4. (odo[ii] + 1) \div WheelSize[ii] =
          IF pos = WheelSize[ii] - 1 THEN odo[ii] \div WheelSize[ii] + 1
                                     ELSE odo[ii] \div WheelSize[ii]
    <3>1. pos = odo[ii] % WheelSize[ii]
      BY <2>1
    <3> HIDE DEF ii, pos
    <3> QED
      BY <2>1, <2>3, <3>1, NextDivMod
  <2>5. next[ii + 1] = next[ii] \div WheelSize[ii] + 1
        /\ odo[ii + 1] = odo[ii] \div WheelSize[ii] + 1
    BY <2>1
  <2> HIDE DEF ii, pos
  <2>6. P(ii + 1)
    <3>1. CASE Carries(ii + 1)
      BY <2>1, <2>2, <2>4, <2>5, <3>1
    <3>2. CASE ~Carries(ii + 1) /\ Carries(ii)
      BY <2>1, <2>2, <2>4, <2>5, <3>2
    <3>3. CASE ~Carries(ii + 1) /\ ~Carries(ii)
      BY <2>1, <2>5, <3>3
    <3> QED
      BY <3>1, <3>2, <3>3
  <2> QED
    BY <2>1, <2>6 DEF ii
<1>3. 0 .. Last \subseteq good
  <2> HIDE DEF good
  <2> QED
    BY <1>1, <1>2, LevelsOK, Induction
<1> QED
  <2> TAKE ii \in 1 .. Last + 1
  <2>1. ii - 1 \in 0 .. Last /\ (ii - 1) + 1 = ii
    BY LevelsOK, SMT
  <2> QED
    BY <1>3, <2>1

(* The tick under way and its carries move the levels as they move the     *)
(* odometer.                                                               *)
LEMMA SyncTick ==
  ASSUME IInv, OdometerInSync, TimerTick
  PROVE  OdometerInSync'
<1>1. /\ WellFormed(timing_wheel_vec_)
      /\ timing_wheel_vec_ # <<>>
      /\ \A ii \in Levels :
           timing_wheel_vec_'[ii].current_pos = Ticked[ii].current_pos
  BY TickOK, ShapeOK
<1>2. alive
  BY DEF TimerTick, TimerAt
<1> DEFINE n == current_tick_count_
<1>3. n \in Nat /\ NextTick = n /\ NextTick' = n + 1
  <2>1. n \in Nat
    BY DEF IInv, TypeOK
  <2>2. tpc = "tick" /\ \/ tpc' = "run" /\ current_tick_count_' = n
                        \/ tpc' = "loop" /\ current_tick_count_' = n + 1
    BY DEF TimerTick, TimerAt
  <2> QED
    BY <2>1, <2>2 DEF NextTick, InWindow
<1> HIDE DEF n
<1>4. /\ Odometer[1] = n
      /\ \A ii \in Levels : Odometer[ii + 1] = Odometer[ii] \div WheelSize[ii] + 1
      /\ \A ii \in 1 .. Last + 1 : Odometer[ii] \in Nat
  <2>1. Odometer = [ii \in 1 .. Len(WheelSize) + 1 |->
                      IF ii = 1 THEN n
                      ELSE Odometer[ii - 1] \div WheelSize[ii - 1] + 1]
    <3>1. NextTick \in Nat
      BY <1>3
    <3>2. Odometer = [ii \in 1 .. Len(WheelSize) + 1 |->
                        IF ii = 1 THEN NextTick
                        ELSE Odometer[ii - 1] \div WheelSize[ii - 1] + 1]
      BY <3>1, OdometerExists DEF Odometer
    <3> QED
      BY <1>3, <3>2
  <2> QED
    BY <1>3, <2>1, OdometerOK
<1>5. /\ Odometer'[1] = n + 1
      /\ \A ii \in Levels :
           Odometer'[ii + 1] = Odometer'[ii] \div WheelSize[ii] + 1
  <2>1. n + 1 \in Nat
    BY <1>3
  <2>2. Odometer' = [ii \in 1 .. Len(WheelSize) + 1 |->
                       IF ii = 1 THEN n + 1
                       ELSE Odometer'[ii - 1] \div WheelSize[ii - 1] + 1]
    <3>1. NextTick' \in Nat
      BY <1>3, <2>1
    <3>2. Odometer' = [ii \in 1 .. Len(WheelSize) + 1 |->
                         IF ii = 1 THEN NextTick'
                         ELSE Odometer'[ii - 1] \div WheelSize[ii - 1] + 1]
      BY <3>1, OdometerExists DEF Odometer
    <3> QED
      BY <1>3, <3>2
  <2>5. PICK next : next = Odometer'
    OBVIOUS
  <2>6. PICK m : m \in Nat /\ m = n + 1
    BY <2>1
  <2>3. next = [ii \in 1 .. Len(WheelSize) + 1 |->
                  IF ii = 1 THEN m
                  ELSE next[ii - 1] \div WheelSize[ii - 1] + 1]
    BY <2>2, <2>5, <2>6
  <2>4. /\ next[1] = m
        /\ \A ii \in Levels :
             next[ii + 1] = next[ii] \div WheelSize[ii] + 1
        /\ \A ii \in 1 .. Last + 1 : next[ii] \in Nat
    BY <2>3, <2>6, OdometerOK
  <2> QED
    BY <2>4, <2>5, <2>6
<1>6. /\ \A ii \in Levels :
           timing_wheel_vec_[ii].current_pos = Odometer[ii] % WheelSize[ii]
      /\ timing_task_map_pos_ = Odometer[Last + 1]
  BY <1>1, <1>2 DEF OdometerInSync
<1>7. \A ii \in 1 .. Last + 1 :
        Odometer'[ii] = IF Carries(ii) THEN Odometer[ii] + 1 ELSE Odometer[ii]
  <2>3. PICK next, odo : next = Odometer' /\ odo = Odometer
    OBVIOUS
  <2>1. /\ odo[1] = n /\ next[1] = n + 1
        /\ \A ii \in Levels :
             /\ odo[ii + 1] = odo[ii] \div WheelSize[ii] + 1
             /\ next[ii + 1] = next[ii] \div WheelSize[ii] + 1
        /\ \A ii \in 1 .. Last + 1 : odo[ii] \in Nat
        /\ \A ii \in Levels :
             timing_wheel_vec_[ii].current_pos = odo[ii] % WheelSize[ii]
    BY <1>4, <1>5, <1>6, <2>3
  <2>2. \A ii \in 1 .. Last + 1 :
           next[ii] = IF Carries(ii) THEN odo[ii] + 1 ELSE odo[ii]
    <3>1. WellFormed(timing_wheel_vec_)
      BY <1>1
    <3>2. PICK m : m \in Nat /\ m = n
      BY <1>3
    <3>3. odo[1] = m /\ next[1] = m + 1
      BY <2>1, <3>2
    <3>4. \A ii \in Levels :
           /\ odo[ii + 1] = odo[ii] \div WheelSize[ii] + 1
           /\ next[ii + 1] = next[ii] \div WheelSize[ii] + 1
      BY <2>1
    <3>5. \A ii \in 1 .. Last + 1 : odo[ii] \in Nat
      BY <2>1
    <3>6. \A ii \in Levels :
            timing_wheel_vec_[ii].current_pos = odo[ii] % WheelSize[ii]
      BY <2>1
    <3> QED
      BY <3>1, <3>2, <3>3, <3>4, <3>5, <3>6, OdometerAdvances
  <2> QED
    BY <2>2, <2>3
<1>8. ASSUME NEW ii \in Levels
      PROVE  timing_wheel_vec_'[ii].current_pos = Odometer'[ii] % WheelSize[ii]
  <2>1. timing_wheel_vec_'[ii].current_pos =
          IF Carries(ii)
          THEN (timing_wheel_vec_[ii].current_pos + 1) % WheelSize[ii]
          ELSE timing_wheel_vec_[ii].current_pos
    BY <1>1, TickedOK
  <2>2. ii \in 1 .. Last + 1 /\ WheelSize[ii] \in Nat \ {0}
    BY LevelsOK, SMT
  <2>3. Odometer[ii] \in Int
    BY <1>4, <2>2
  <2>4. ((Odometer[ii] % WheelSize[ii]) + 1) % WheelSize[ii] =
          (Odometer[ii] + 1) % WheelSize[ii]
    BY <2>2, <2>3, ModNext
  <2> QED
    BY <1>6, <1>7, <2>1, <2>2, <2>4
<1>9. timing_task_map_pos_' = IF Carries(Last + 1) THEN timing_task_map_pos_ + 1
                              ELSE timing_task_map_pos_
  BY DEF TimerTick
<1>10. timing_task_map_pos_' = Odometer'[Last + 1]
  <2>1. Last + 1 \in 1 .. Last + 1
    BY LevelsOK, SMT
  <2> QED
    BY <1>6, <1>7, <1>9, <2>1
<1> QED
  BY <1>8, <1>10 DEF OdometerInSync

(* The head start that Initialize gives is where the odometer stands       *)
(* before the first tick.                                                  *)
LEMMA SyncInitialize ==
  ASSUME IInv, OdometerInSync, Initialize, state_ = "kPreInit"
  PROVE  OdometerInSync'
<1>1. NextTick' = 0
  BY DEF Initialize, IInv, PlaceInv, NextTick, InWindow
<1>2. PICK odo : odo = Odometer'
  OBVIOUS
<1>3. odo = [ii \in 1 .. Len(WheelSize) + 1 |->
               IF ii = 1 THEN 0 ELSE odo[ii - 1] \div WheelSize[ii - 1] + 1]
  <2>1. Odometer' = [ii \in 1 .. Len(WheelSize) + 1 |->
                       IF ii = 1 THEN NextTick'
                       ELSE Odometer'[ii - 1] \div WheelSize[ii - 1] + 1]
    <3>1. NextTick' \in Nat
      BY <1>1
    <3> QED
      BY <3>1, OdometerExists DEF Odometer
  <2> QED
    BY <1>1, <1>2, <2>1
<1>4. /\ odo[1] = 0
      /\ \A ii \in Levels : odo[ii + 1] = odo[ii] \div WheelSize[ii] + 1
      /\ \A ii \in 1 .. Last + 1 : odo[ii] \in Nat
  <2>1. PICK n : n \in Nat /\ n = 0
    OBVIOUS
  <2>2. odo = [ii \in 1 .. Len(WheelSize) + 1 |->
                 IF ii = 1 THEN n ELSE odo[ii - 1] \div WheelSize[ii - 1] + 1]
    BY <1>3, <2>1
  <2>3. /\ odo[1] = n
        /\ \A ii \in Levels : odo[ii + 1] = odo[ii] \div WheelSize[ii] + 1
        /\ \A ii \in 1 .. Last + 1 : odo[ii] \in Nat
    BY <2>1, <2>2, OdometerOK
  <2> QED
    BY <2>1, <2>3
<1> DEFINE P(ii) == odo[ii] = IF ii = 1 THEN 0 ELSE 1
           good == {m \in 0 .. Last : P(m + 1)}
<1>5. 0 .. Last \subseteq good
  <2>1. 0 \in good
    BY <1>4, LevelsOK, SMT
  <2>2. ASSUME NEW m \in 0 .. Last - 1, m \in good PROVE m + 1 \in good
    <3>1. m + 1 \in Levels /\ m + 1 \in 0 .. Last /\ (m + 1) + 1 # 1
          /\ WheelSize[m + 1] \in Nat \ {0}
          /\ (m + 1 # 1 => WheelSize[m + 1] > 1)
      BY LevelsOK, SMT
    <3>2. odo[m + 1] = IF m + 1 = 1 THEN 0 ELSE 1
      BY <2>2
    <3>3. odo[m + 1] \div WheelSize[m + 1] = 0
      <4> DEFINE w == WheelSize[m + 1]
                 x == odo[m + 1]
      <4>1. w \in Nat \ {0} /\ x \in Int /\ x \in 0 .. w - 1 /\ 0 \in Int
            /\ x = w * 0 + x
        BY <3>1, <3>2, SMT
      <4> HIDE DEF w, x
      <4>2. x \div w = 0 /\ x % w = x
        BY <4>1, DivUnique
      <4> QED
        BY <4>2 DEF w, x
    <3>4. odo[(m + 1) + 1] = 1
      BY <1>4, <3>1, <3>3
    <3> QED
      BY <3>1, <3>4
  <2> HIDE DEF good
  <2> QED
    BY <2>1, <2>2, LevelsOK, Induction
<1>6. \A ii \in 1 .. Last + 1 : odo[ii] = IF ii = 1 THEN 0 ELSE 1
  <2> TAKE ii \in 1 .. Last + 1
  <2>1. ii - 1 \in 0 .. Last /\ (ii - 1) + 1 = ii
    BY LevelsOK, SMT
  <2> QED
    BY <1>5, <2>1
<1>7. ASSUME NEW ii \in Levels
      PROVE  timing_wheel_vec_'[ii].current_pos = odo[ii] % WheelSize[ii]
  <2> DEFINE w == WheelSize[ii]
             x == odo[ii]
  <2>1. timing_wheel_vec_'[ii].current_pos = IF ii = 1 THEN 0 ELSE 1
    BY DEF Initialize
  <2>2. x = IF ii = 1 THEN 0 ELSE 1
    <3>1. ii \in 1 .. Last + 1
      BY LevelsOK, SMT
    <3> QED
      BY <1>6, <3>1
  <2>3. w \in Nat \ {0} /\ x \in Int /\ x \in 0 .. w - 1 /\ 0 \in Int
        /\ x = w * 0 + x
    BY <2>2, LevelsOK, SMT
  <2> HIDE DEF w, x
  <2>4. x \div w = 0 /\ x % w = x
    BY <2>3, DivUnique
  <2> QED
    BY <2>1, <2>2, <2>4 DEF w, x
<1>8. timing_task_map_pos_' = odo[Last + 1]
  <2>1. timing_task_map_pos_' = 1
    BY DEF Initialize
  <2>2. Last + 1 \in 1 .. Last + 1 /\ Last + 1 # 1
    BY LevelsOK, SMT
  <2> QED
    BY <1>6, <2>1, <2>2
<1> QED
  BY <1>2, <1>7, <1>8 DEF OdometerInSync

(* The steps that neither set the wheels up nor take a tick, neither hand  *)
(* a task over nor end one.                                                *)
Quiet ==
  /\ UNCHANGED <<fate, timing_task_map_pos_>>
  /\ NextTick' = NextTick
  /\ alive' => alive
  /\ \/ UNCHANGED <<timing_wheel_vec_, timing_task_map_>>
     \/ timing_wheel_vec_' = <<>> /\ timing_task_map_' = <<>>
  /\ \/ UNCHANGED <<task_list, current_tick_count_>>
     \/ task_list = <<>> /\ task_list' = <<>>

LEMMA StepCases ==
  ASSUME IInv, [Next]_vars
  PROVE  \/ Quiet
         \/ Initialize /\ state_ = "kPreInit"
         \/ \E k \in Tasks, tp \in Times, start \in StartsRead :
              ExecuteAt(k, tp, start)
         \/ TimerTick
         \/ TaskEnds
<1> USE DEF ownerVars, startVars, wheelVars, sleepVars, clockVars, Quiet,
            NextTick, InWindow
<1>1. CASE UNCHANGED vars
  BY <1>1 DEF vars
<1>2. CASE Initialize /\ state_ # "kPreInit"
  BY <1>2 DEF Initialize, OwnerCalls, OwnerAt
<1>3. CASE InitializeBadOptions
  BY <1>3 DEF InitializeBadOptions
<1>4. CASE Start
  <2>1. ~joinable => tpc \in {"none", "exited"}
    BY DEF IInv, PlaceInv
  <2>2. NextTick' = NextTick
    BY <1>4, <2>1 DEF Start
  <2>3. alive
    BY <1>4 DEF Start, OwnerCalls, OwnerAt
  <2> QED
    BY <1>4, <2>2, <2>3 DEF Start
<1>5. CASE ShutdownExchange
  BY <1>5 DEF ShutdownExchange
<1>6. CASE Destroy
  BY <1>6 DEF Destroy, OwnerCalls, OwnerAt
<1>7. CASE StartReturns
  BY <1>7 DEF StartReturns
<1>8. CASE ShutdownJoin
  BY <1>8 DEF ShutdownJoin
<1>9. CASE TaskShutsDown
  BY <1>9 DEF TaskShutsDown
<1>10. CASE TimerBegins
  BY <1>10 DEF TimerBegins, TimerAt
<1>11. CASE TimerLoop
  <2>1. tpc = "loop" /\ tpc' \in {"exited", "sleep"}
    BY <1>11 DEF TimerLoop, SleepFrom, TimerAt
  <2> QED
    BY <1>11, <2>1 DEF TimerLoop
<1>12. CASE TimerWakes
  <2>1. tpc = "sleep" /\ tpc' \in {"tick", "sleep"}
    BY <1>12 DEF TimerWakes, SleepFrom, TimerAt
  <2> QED
    BY <1>12, <2>1 DEF TimerWakes
<1>13. CASE TimerTickNoWheels
  BY <1>13 DEF TimerTickNoWheels, TimerAt
<1>14. CASE TimerCounts
  <2>1. task_list = <<>>
    BY <1>14 DEF TimerCounts, TimerAt, IInv, PlaceInv
  <2> QED
    BY <1>14, <2>1 DEF TimerCounts, TimerAt
<1>15. CASE ClockAdvances
  BY <1>15 DEF ClockAdvances
<1>16. CASE ClockSetBack
  BY <1>16 DEF ClockSetBack
<1> QED
  BY <1>1, <1>2, <1>3, <1>4, <1>5, <1>6, <1>7, <1>8, <1>9, <1>10, <1>11,
     <1>12, <1>13, <1>14, <1>15, <1>16 DEF Next, TimerStep, OwnerContinues

(* Every other step leaves the wheels where they are.                      *)
LEMMA SyncElse ==
  ASSUME OdometerInSync, NextTick' = NextTick, alive' => alive,
         timing_task_map_pos_' = timing_task_map_pos_,
         timing_wheel_vec_' # <<>> =>
           /\ timing_wheel_vec_ # <<>>
           /\ \A ii \in Levels :
                timing_wheel_vec_'[ii].current_pos =
                  timing_wheel_vec_[ii].current_pos
  PROVE  OdometerInSync'
<1>1. Odometer' = Odometer
  BY ZenonT(30) DEF Odometer
<1> QED
  BY <1>1 DEF OdometerInSync

(* What a call does: nothing, or it appends one entry to the list of one   *)
(* slot or of one key of the map.                                          *)
LEMMA CallWheels ==
  ASSUME IInv, NEW k \in Tasks, NEW tp \in Times, NEW start \in StartsRead,
         ExecuteAt(k, tp, start)
  PROVE  LET tick == VirtualTp(tp, start) \div Dt
             diff == tick - current_tick_count_
             e    == [tick_count |-> tick, task |-> k]
         IN  \/ /\ UNCHANGED timing_wheel_vec_
                /\ \/ /\ timing_wheel_vec_ = <<>>
                      /\ UNCHANGED timing_task_map_
                   \/ /\ fate' = [fate EXCEPT ![k] = "past"]
                      /\ UNCHANGED timing_task_map_
                   \/ /\ fate' = [fate EXCEPT ![k] = "far"]
                      /\ ~Past(VirtualTp(tp, start))
                      /\ \A ii \in Levels : ~HasRoom(ii, diff)
                      /\ e \in Entries
                      /\ PlaceInMap(e, diff)
             \/ \E ii \in Levels :
                  /\ ~Past(VirtualTp(tp, start))
                  /\ HasRoom(ii, diff)
                  /\ \A jj \in 1 .. ii - 1 : ~HasRoom(jj, diff)
                  /\ fate' = [fate EXCEPT ![k] =
                                IF Near(diff) THEN "near" ELSE "far"]
                  /\ e \in Entries
                  /\ Slot(ii, diff) \in 0 .. WheelSize[ii] - 1
                  /\ WellFormed(timing_wheel_vec_)
                  /\ timing_wheel_vec_' =
                       [timing_wheel_vec_ EXCEPT ![ii].wheel[Slot(ii, diff)] =
                          Append(@, e)]
                  /\ UNCHANGED timing_task_map_
<1> DEFINE v == VirtualTp(tp, start)
           tick == v \div Dt
           diff == tick - current_tick_count_
           e == [tick_count |-> tick, task |-> k]
<1>1. ~Past(v) =>
        /\ e \in Entries
        /\ \A ii \in Levels : Slot(ii, diff) \in 0 .. WheelSize[ii] - 1
  BY CallOK DEF IInv, Entries
<1>2. timing_wheel_vec_ # <<>> => WellFormed(timing_wheel_vec_)
  BY DEF IInv, PlaceInv
<1>3. CASE /\ Past(v)
           /\ fate' = [fate EXCEPT ![k] = "past"]
           /\ UNCHANGED <<wheelVars, alive>>
  BY <1>3 DEF wheelVars
<1>4. CASE /\ ~Past(v)
           /\ \E ii \in Levels :
                /\ HasRoom(ii, diff)
                /\ \A jj \in 1 .. ii - 1 : ~HasRoom(jj, diff)
                /\ IF timing_wheel_vec_ = <<>>
                   THEN alive' = FALSE /\ UNCHANGED timing_wheel_vec_
                   ELSE Place(ii, e, diff) /\ UNCHANGED alive
           /\ fate' = [fate EXCEPT ![k] = IF Near(diff) THEN "near" ELSE "far"]
           /\ UNCHANGED <<timing_task_map_, timing_task_map_pos_>>
  <2> HIDE DEF v, tick, diff, e
  <2>1. UNCHANGED timing_task_map_
    BY <1>4
  <2>2. CASE timing_wheel_vec_ = <<>>
    BY <1>4, <2>1, <2>2, ZenonT(30)
  <2>3. CASE timing_wheel_vec_ # <<>>
    <3>1. \E ii \in Levels :
            /\ HasRoom(ii, diff)
            /\ \A jj \in 1 .. ii - 1 : ~HasRoom(jj, diff)
            /\ e \in Entries
            /\ Slot(ii, diff) \in 0 .. WheelSize[ii] - 1
            /\ WellFormed(timing_wheel_vec_)
            /\ timing_wheel_vec_' =
                 [timing_wheel_vec_ EXCEPT ![ii].wheel[Slot(ii, diff)] =
                    Append(@, e)]
      BY <1>1, <1>2, <1>4, <2>3 DEF Place
    <3> QED
      BY <1>4, <2>1, <3>1 DEF v, tick, diff, e
  <2> QED
    BY <2>2, <2>3
<1>5. CASE /\ ~Past(v)
           /\ \A ii \in Levels : ~HasRoom(ii, diff)
           /\ PlaceInMap(e, diff)
           /\ fate' = [fate EXCEPT ![k] = "far"]
           /\ UNCHANGED <<timing_wheel_vec_, timing_task_map_pos_, alive>>
  <2>1. e \in Entries
    BY <1>1, <1>5
  <2>2. UNCHANGED timing_wheel_vec_
    BY <1>5
  <2> HIDE DEF diff, e
  <2> QED
    BY <1>5, <2>1, <2>2 DEF diff, e
<1> QED
  BY <1>3, <1>4, <1>5 DEF ExecuteAt

LEMMA SyncStep == IInv /\ OdometerInSync /\ [Next]_vars => OdometerInSync'
<1> SUFFICES ASSUME IInv, OdometerInSync, [Next]_vars PROVE OdometerInSync'
  OBVIOUS
<1>1. ASSUME NEW k \in Tasks, NEW tp \in Times, NEW start \in StartsRead,
              ExecuteAt(k, tp, start)
       PROVE  OdometerInSync'
  <2>1. NextTick' = NextTick /\ alive /\ UNCHANGED timing_task_map_pos_
    BY <1>1 DEF ExecuteAt, NextTick, InWindow, wheelVars
  <2>2. timing_wheel_vec_' # <<>> =>
           /\ timing_wheel_vec_ # <<>>
           /\ \A ii \in Levels :
                timing_wheel_vec_'[ii].current_pos =
                  timing_wheel_vec_[ii].current_pos
    <3>1. CASE UNCHANGED timing_wheel_vec_
      BY <3>1
    <3>2. CASE ~ UNCHANGED timing_wheel_vec_
      <4> DEFINE tick == VirtualTp(tp, start) \div Dt
                 slot(ii) == Slot(ii, tick - current_tick_count_)
                 e == [tick_count |-> tick, task |-> k]
      <4>1. PICK ii \in Levels :
              /\ e \in Entries
              /\ slot(ii) \in 0 .. WheelSize[ii] - 1
              /\ WellFormed(timing_wheel_vec_)
              /\ timing_wheel_vec_' =
                   [timing_wheel_vec_ EXCEPT ![ii].wheel[slot(ii)] =
                      Append(@, e)]
        BY <1>1, <3>2, CallWheels
      <4> HIDE DEF slot, e
      <4> QED
        BY <4>1, PlaceOK, ShapeOK
    <3> QED
      BY <3>1, <3>2
  <2> QED
    BY <2>1, <2>2, SyncElse
<1>2. CASE Initialize /\ state_ = "kPreInit"
  BY <1>2, SyncInitialize
<1>3. CASE TimerTick
  BY <1>3, SyncTick
<1>4. CASE TaskEnds
  <2>1. tpc = "run" /\ tpc' \in {"count", "run"}
    BY <1>4 DEF TaskEnds, TimerAt
  <2> QED
    BY <1>4, <2>1, SyncElse DEF TaskEnds, NextTick, InWindow, wheelVars
<1>5. CASE Quiet
  BY <1>5, SyncElse DEF Quiet
<1> QED
  BY <1>1, <1>2, <1>3, <1>4, <1>5, StepCases

(* OdometerInSync: through every carry, of any number of levels, each      *)
(* level and the map stand where current_tick_count_ says                  *)
(* (time_wheel_executor.cc:55-66, 82, 209; .h:77-88).                      *)
THEOREM WheelsInSync == Spec => []OdometerInSync
<1>1. Init => OdometerInSync
  BY DEF Init, OdometerInSync
<1> QED
  BY InitOK, TypeStep, SyncStep, <1>1, PTL DEF Spec

-----------------------------------------------------------------------------
(* Near tasks.                                                             *)

(* The first level stands at the slot of the next tick.                    *)
LEMMA FirstPosition ==
  ASSUME IInv, OdometerInSync, alive, timing_wheel_vec_ # <<>>
  PROVE  /\ NextTick \in Nat
         /\ timing_wheel_vec_[1].current_pos = NextTick % WheelSize[1]
<1>1. NextTick \in Nat
  BY DEF IInv, TypeOK, NextTick
<1>2. Odometer = [ii \in 1 .. Len(WheelSize) + 1 |->
                    IF ii = 1 THEN NextTick
                    ELSE Odometer[ii - 1] \div WheelSize[ii - 1] + 1]
  BY <1>1, OdometerExists DEF Odometer
<1>3. Odometer[1] = NextTick
  <2>1. 1 \in 1 .. Len(WheelSize) + 1
    BY LevelsOK, SMT DEF Last
  <2> QED
    BY <1>2, <2>1
<1> QED
  BY <1>1, <1>3, LevelsOK DEF OdometerInSync

(* What the first level has for a tick less than a revolution ahead is     *)
(* left alone by the tick under way, unless it is its own.                 *)
LEMMA TickGrows ==
  ASSUME IInv, TimerTick, NEW ii \in Levels,
         NEW slot \in 0 .. WheelSize[ii] - 1
  PROVE  Grows(Ticked[ii].wheel[slot], timing_wheel_vec_'[ii].wheel[slot])
<1>1. WellFormed(timing_wheel_vec_) /\ WellFormed(Ticked)
      /\ \/ timing_wheel_vec_' = Ticked
         \/ (~OutOfWheel /\ timing_wheel_vec_' = Spliced)
  BY TickOK, TickedOK
<1>2. Grows(Ticked[ii].wheel[slot], Ticked[ii].wheel[slot])
  BY DEF Grows
<1>3. CASE ~OutOfWheel /\ timing_wheel_vec_' = Spliced
  <2>1. Borrowed \in Seq(Entries)
    BY BorrowedOK DEF IInv
  <2>2. CASE ii = Last
    BY <1>1, <1>3, <2>1, <2>2, SplicedOK
  <2>3. CASE ii # Last
    <3>1. Spliced[ii].wheel = Ticked[ii].wheel
      BY <1>1, <1>3, <2>1, <2>3, SplicedOK
    <3> QED
      BY <1>2, <1>3, <3>1
  <2> QED
    BY <2>2, <2>3
<1> QED
  BY <1>1, <1>2, <1>3

(* A near task is in the list being run, or in the slot of its own tick.   *)
Due(k) ==
  \E i \in DOMAIN task_list :
    task_list[i] = [tick_count |-> current_tick_count_, task |-> k]

Awaited(k) ==
  \E n \in NextTick .. NextTick + WheelSize[1] - 1 :
    \E i \in DOMAIN timing_wheel_vec_[1].wheel[n % WheelSize[1]] :
      timing_wheel_vec_[1].wheel[n % WheelSize[1]][i] =
        [tick_count |-> n, task |-> k]

LEMMA NearMeaning ==
  NearIsPunctual <=>
    (timing_wheel_vec_ # <<>> =>
       \A k \in Tasks : fate[k] = "near" => Due(k) \/ Awaited(k))
BY DEF NearIsPunctual, Due, Awaited

LEMMA NearTick ==
  ASSUME IInv, OdometerInSync, NearIsPunctual, TimerTick,
         NEW k \in Tasks, fate'[k] = "near"
  PROVE  Due(k)' \/ Awaited(k)'
<1> DEFINE w == WheelSize[1]
           c == current_tick_count_
           vec == timing_wheel_vec_
<1>1. /\ WellFormed(vec) /\ vec # <<>> /\ alive /\ tpc = "tick"
      /\ fate[k] = "near"
  BY TickOK, ShapeOK DEF TimerTick, TimerAt
<1>2. c \in Nat /\ NextTick = c /\ w \in Nat \ {0} /\ task_list = <<>>
  BY <1>1, LevelsOK DEF IInv, TypeOK, PlaceInv, NextTick, InWindow
<1>3. vec[1].current_pos = c % w
  BY <1>1, <1>2, FirstPosition
<1>4. Awaited(k)
  <2>1. ~Due(k)
    BY <1>2 DEF Due
  <2> QED
    BY <1>1, <2>1, NearMeaning
<1>5. PICK n \in c .. c + w - 1 :
        \E i \in DOMAIN vec[1].wheel[n % w] :
          vec[1].wheel[n % w][i] = [tick_count |-> n, task |-> k]
  BY <1>2, <1>4 DEF Awaited
<1>6. PICK i \in DOMAIN vec[1].wheel[n % w] :
        vec[1].wheel[n % w][i] = [tick_count |-> n, task |-> k]
  BY <1>5
<1>7. task_list' = vec[1].wheel[vec[1].current_pos]
      /\ IF task_list' # <<>>
         THEN tpc' = "run" /\ current_tick_count_' = c
         ELSE tpc' = "loop" /\ current_tick_count_' = c + 1
  BY DEF TimerTick
<1>8. n \in Int /\ n % w \in 0 .. w - 1
  <2>1. n \in Int
    BY <1>2, SMT
  <2> HIDE DEF w, c
  <2> QED
    BY <1>2, <2>1, DivMod
<1>9. CASE n = c
  <2>1. task_list' = vec[1].wheel[n % w]
    BY <1>3, <1>7, <1>9
  <2>2. task_list' # <<>>
    <3>1. DOMAIN <<>> = {}
      OBVIOUS
    <3> QED
      BY <1>6, <2>1, <3>1
  <2>3. current_tick_count_' = n
    BY <1>7, <1>9, <2>2
  <2> QED
    BY <1>6, <2>1, <2>3 DEF Due
<1>10. CASE n # c
  <2>1. n % w # c % w
    <3>1. c \in Int /\ n \in c - w + 1 .. c + w - 1
      BY <1>2, SMT
    <3> HIDE DEF w, c
    <3> QED
      BY <1>2, <1>10, <3>1, ModInjective
  <2>2. Ticked[1].wheel[n % w] = vec[1].wheel[n % w]
    BY <1>1, <1>3, <1>8, <2>1, TickedOK, LevelsOK
  <2>3. Grows(vec[1].wheel[n % w], timing_wheel_vec_'[1].wheel[n % w])
    BY <1>8, <2>2, TickGrows, LevelsOK
  <2>4. /\ i \in DOMAIN timing_wheel_vec_'[1].wheel[n % w]
        /\ timing_wheel_vec_'[1].wheel[n % w][i] =
             [tick_count |-> n, task |-> k]
    BY <1>6, <2>3 DEF Grows
  <2>5. NextTick' = c + 1
    BY <1>2, <1>7 DEF NextTick, InWindow
  <2>6. n \in NextTick' .. NextTick' + w - 1
    BY <1>2, <1>10, <2>5, SMT
  <2> QED
    BY <2>4, <2>6 DEF Awaited
<1> QED
  BY <1>9, <1>10

(* A task that the first level has room for gets the slot of its tick.     *)
LEMMA FirstSlot ==
  ASSUME IInv, NEW tick \in Nat, NEW diff \in Nat,
         diff = tick - current_tick_count_, HasRoom(1, diff)
  PROVE  Slot(1, diff) = tick % WheelSize[1] /\ diff < WheelSize[1]
<1>1. current_tick_count_ \in Nat /\ WheelSize[1] \in Nat \ {0}
  BY LevelsOK DEF IInv, TypeOK
<1>2. \A x \in Nat : x \div 1 = x
  <2> TAKE x \in Nat
  <2>1. x \in Int /\ 1 \in Nat \ {0} /\ 0 \in 0 .. 1 - 1 /\ x = 1 * x + 0
    BY SMT
  <2> QED
    BY <2>1, DivUnique
<1>3. Scale[1 - 1] = 1
  BY ScaleOK
<1>4. Slot(1, diff) = (diff + current_tick_count_) % WheelSize[1]
  BY <1>1, <1>2, <1>3 DEF Slot
<1>5. diff + current_tick_count_ = tick
  BY <1>1, SMT
<1>6. diff < WheelSize[1]
  BY <1>2, <1>3 DEF HasRoom
<1> QED
  BY <1>4, <1>5, <1>6

(* The slot of a near task is still to come.                               *)
LEMMA NearSlot ==
  ASSUME IInv, NEW tick \in Nat, NEW diff \in Nat,
         diff = tick - current_tick_count_, Near(diff)
  PROVE  /\ Slot(1, diff) = tick % WheelSize[1]
         /\ tick \in NextTick .. NextTick + WheelSize[1] - 1
<1>1. current_tick_count_ \in Nat /\ WheelSize[1] \in Nat \ {0}
  BY LevelsOK DEF IInv, TypeOK
<1>2. HasRoom(1, diff) /\ (InWindow => diff > 0)
  BY DEF Near
<1>3. Slot(1, diff) = tick % WheelSize[1] /\ diff < WheelSize[1]
  BY <1>2, FirstSlot
<1>4. tick \in NextTick .. NextTick + WheelSize[1] - 1
  BY <1>1, <1>2, <1>3, SMT DEF NextTick
<1> QED
  BY <1>3, <1>4

(* The ticks of the revolution to come have their slots in level 0.         *)
LEMMA TickSlots ==
  ASSUME IInv
  PROVE  /\ 1 \in Levels /\ WheelSize[1] \in Nat \ {0} /\ NextTick \in Nat
         /\ \A n \in NextTick .. NextTick + WheelSize[1] - 1 :
              n % WheelSize[1] \in 0 .. WheelSize[1] - 1
         /\ \A ii \in Levels : ii # 1 => 1 \in 1 .. ii - 1
<1>1. 1 \in Levels /\ WheelSize[1] \in Nat \ {0}
  BY LevelsOK
<1>2. NextTick \in Nat
  BY DEF NextTick, IInv, TypeOK
<1>3. \A n \in NextTick .. NextTick + WheelSize[1] - 1 : n \in Int
  BY <1>1, <1>2, SMT
<1>4. \A ii \in Levels : ii # 1 => 1 \in 1 .. ii - 1
  BY LevelsOK, SMT
<1> QED
  BY <1>1, <1>2, <1>3, <1>4, DivMod

LEMMA NearCall ==
  ASSUME IInv, NearIsPunctual, NEW c \in Tasks, NEW tp \in Times,
         NEW start \in StartsRead, ExecuteAt(c, tp, start),
         timing_wheel_vec_' # <<>>, NEW k \in Tasks, fate'[k] = "near"
  PROVE  Due(k)' \/ Awaited(k)'
<1> DEFINE tick == VirtualTp(tp, start) \div Dt
           diff == tick - current_tick_count_
           e == [tick_count |-> tick, task |-> c]
           slot(ii) == Slot(ii, diff)
           first == timing_wheel_vec_[1].wheel
           first_ == timing_wheel_vec_'[1].wheel
<1>1. /\ task_list' = task_list /\ current_tick_count_' = current_tick_count_
      /\ NextTick' = NextTick
      /\ \A t \in Tasks : t # c => fate'[t] = fate[t]
  BY DEF ExecuteAt, NextTick, InWindow, IInv, TypeOK
<1>2. CASE /\ UNCHANGED timing_wheel_vec_
           /\ \/ timing_wheel_vec_ = <<>>
              \/ fate' = [fate EXCEPT ![c] = "past"]
              \/ fate' = [fate EXCEPT ![c] = "far"]
  <2>1. k # c
    BY <1>2 DEF IInv, TypeOK
  <2>2. Due(k) \/ Awaited(k)
    BY <1>1, <1>2, <2>1, NearMeaning
  <2> QED
    BY <1>1, <1>2, <2>2 DEF Due, Awaited
<1>3. ASSUME NEW ii \in Levels,
             ~Past(VirtualTp(tp, start)),
             HasRoom(ii, diff),
             \A jj \in 1 .. ii - 1 : ~HasRoom(jj, diff),
             fate' = [fate EXCEPT ![c] = IF Near(diff) THEN "near" ELSE "far"],
             e \in Entries,
             slot(ii) \in 0 .. WheelSize[ii] - 1,
             WellFormed(timing_wheel_vec_),
             timing_wheel_vec_' =
               [timing_wheel_vec_ EXCEPT ![ii].wheel[slot(ii)] = Append(@, e)]
      PROVE  Due(k)' \/ Awaited(k)'
  <2>1. \A s \in 0 .. WheelSize[1] - 1 :
          first_[s] = IF 1 = ii /\ s = slot(ii) THEN Append(first[s], e)
                                                ELSE first[s]
    <3> HIDE DEF slot, e
    <3>1. \A jj \in Levels :
            \A s \in 0 .. WheelSize[jj] - 1 :
              timing_wheel_vec_'[jj].wheel[s] =
                IF jj = ii /\ s = slot(ii)
                THEN Append(timing_wheel_vec_[ii].wheel[slot(ii)], e)
                ELSE timing_wheel_vec_[jj].wheel[s]
      BY <1>3, PlaceOK
    <3>2. 1 \in Levels
      BY LevelsOK
    <3> TAKE s \in 0 .. WheelSize[1] - 1
    <3>3. CASE 1 = ii /\ s = slot(ii)
      BY <3>1, <3>2, <3>3
    <3>4. CASE ~ (1 = ii /\ s = slot(ii))
      BY <3>1, <3>2, <3>4
    <3> QED
      BY <3>3, <3>4
  <2>2. \A s \in 0 .. WheelSize[1] - 1 : first[s] \in Seq(Entries)
    <3>1. first \in [0 .. WheelSize[1] - 1 -> Seq(Entries)]
      BY <1>3, ShapeOK, TickSlots, Zenon
    <3> QED
      BY <3>1, Zenon
  <2>3. \A s \in 0 .. WheelSize[1] - 1 : Grows(first[s], first_[s])
    <3> TAKE s \in 0 .. WheelSize[1] - 1
    <3>1. first[s] \in Seq(Entries)
      BY <2>2, ZenonT(30)
    <3>2. Grows(first[s], first[s]) /\ Grows(first[s], Append(first[s], e))
      <4> HIDE DEF first, e
      <4> QED
        BY <1>3, <3>1, AppendGrows DEF Grows
    <3> QED
      BY <2>1, <3>2
  <2>4. CASE k # c
    <3>1. Due(k) \/ Awaited(k)
      BY <1>1, <1>3, <2>4, NearMeaning, ShapeOK, Zenon
    <3>2. CASE Due(k)
      BY <1>1, <3>2 DEF Due
    <3>3. CASE Awaited(k)
      <4>1. PICK n \in NextTick .. NextTick + WheelSize[1] - 1 :
              \E i \in DOMAIN first[n % WheelSize[1]] :
                first[n % WheelSize[1]][i] = [tick_count |-> n, task |-> k]
        BY <3>3 DEF Awaited
      <4>2. n % WheelSize[1] \in 0 .. WheelSize[1] - 1
        BY TickSlots, Zenon
      <4>3. Grows(first[n % WheelSize[1]], first_[n % WheelSize[1]])
        BY <2>3, <4>2
      <4>4. \E i \in DOMAIN first_[n % WheelSize[1]] :
              first_[n % WheelSize[1]][i] = [tick_count |-> n, task |-> k]
        BY <4>1, <4>3 DEF Grows
      <4> QED
        BY <1>1, <4>4 DEF Awaited
    <3> QED
      BY <3>1, <3>2, <3>3, Zenon
  <2>5. CASE k = c
    <3>1. Near(diff)
      <4>1. fate'[c] = IF Near(diff) THEN "near" ELSE "far"
        BY <1>3, Zenon DEF IInv, TypeOK
      <4> QED
        BY <2>5, <4>1
    <3>2. ii = 1
      <4>1. HasRoom(1, diff)
        BY <3>1 DEF Near
      <4>2. ii # 1 => 1 \in 1 .. ii - 1
        BY TickSlots, Zenon
      <4> QED
        BY <1>3, <4>1, <4>2, Zenon
    <3>3. tick \in Nat /\ diff \in Nat
      BY <1>3, CallOK, Zenon DEF IInv
    <3>4. slot(1) = tick % WheelSize[1]
          /\ tick \in NextTick .. NextTick + WheelSize[1] - 1
      <4>1. diff = tick - current_tick_count_
        OBVIOUS
      <4> HIDE DEF diff, tick
      <4> QED
        BY <3>1, <3>3, <4>1, NearSlot
    <3>5. first_[tick % WheelSize[1]] = Append(first[tick % WheelSize[1]], e)
          /\ first[tick % WheelSize[1]] \in Seq(Entries)
      BY <1>3, <2>1, <2>2, <3>2, <3>4, Zenon
    <3>6. \E i \in DOMAIN first_[tick % WheelSize[1]] :
            first_[tick % WheelSize[1]][i] = e
      <4> HIDE DEF first, first_, tick, e
      <4> QED
        BY <1>3, <3>5, AppendGrows
    <3>7. e = [tick_count |-> tick, task |-> k]
      BY <2>5
    <3> HIDE DEF tick, e
    <3> QED
      BY <1>1, <3>4, <3>6, <3>7 DEF Awaited
  <2> QED
    BY <2>4, <2>5
<1> QED
  BY <1>2, <1>3, CallWheels

(* When a task of the slot ends, the ones behind it are still in the list. *)
LEMMA NearTaskEnds ==
  ASSUME IInv, NearIsPunctual, TaskEnds, timing_wheel_vec_' # <<>>,
         NEW k \in Tasks, fate'[k] = "near"
  PROVE  Due(k)' \/ Awaited(k)'
<1>1. /\ task_list # <<>> /\ task_list \in Seq(Entries)
      /\ tpc = "run" /\ tpc' \in {"count", "run"}
      /\ UNCHANGED <<timing_wheel_vec_, current_tick_count_>>
      /\ fate' = [fate EXCEPT ![Head(task_list).task] =
                    IF @ = "near" THEN "done" ELSE "ran"]
      /\ task_list' = Tail(task_list)
  <2>1. tpc = "run" /\ tpc' \in {"count", "run"}
    BY DEF TaskEnds, TimerAt
  <2>2. task_list # <<>> /\ task_list \in Seq(Entries)
    BY <2>1 DEF IInv, TypeOK, PlaceInv
  <2>3. /\ UNCHANGED <<timing_wheel_vec_, current_tick_count_>>
        /\ fate' = [fate EXCEPT ![Head(task_list).task] =
                      IF @ = "near" THEN "done" ELSE "ran"]
        /\ task_list' = Tail(task_list)
    BY DEF TaskEnds, wheelVars
  <2> QED
    BY <2>1, <2>2, <2>3
<1>2. Head(task_list).task \in Tasks /\ Head(task_list) = task_list[1]
  <2>1. Head(task_list) \in Entries
    BY <1>1, HeadTailProperties
  <2>2. Head(task_list) = task_list[1]
    BY <1>1
  <2> QED
    BY <2>1, <2>2 DEF Entries
<1>3. k # Head(task_list).task /\ fate[k] = "near"
  BY <1>1, <1>2 DEF IInv, TypeOK
<1>4. Due(k) \/ Awaited(k)
  BY <1>1, <1>3, NearMeaning
<1>5. NextTick' = NextTick
  BY <1>1 DEF NextTick, InWindow
<1>6. CASE Awaited(k)
  BY <1>1, <1>5, <1>6 DEF Awaited
<1>7. CASE Due(k)
  <2>1. PICK i \in DOMAIN task_list :
          task_list[i] = [tick_count |-> current_tick_count_, task |-> k]
    BY <1>7 DEF Due
  <2>2. i # 1
    BY <1>2, <1>3, <2>1
  <2>3. Tail(task_list) \in Seq(Entries)
        /\ Len(Tail(task_list)) = Len(task_list) - 1
        /\ \A j \in 1 .. Len(Tail(task_list)) :
             Tail(task_list)[j] = task_list[j + 1]
    BY <1>1, HeadTailProperties
  <2>4. i - 1 \in DOMAIN Tail(task_list)
        /\ Tail(task_list)[i - 1] = task_list[i]
    <3>1. i \in 1 .. Len(task_list) /\ Len(task_list) \in Nat
      BY <1>1, LenProperties
    <3>2. i - 1 \in 1 .. Len(Tail(task_list)) /\ (i - 1) + 1 = i
      BY <2>2, <2>3, <3>1, SMT
    <3>3. DOMAIN Tail(task_list) = 1 .. Len(Tail(task_list))
      BY <2>3, LenProperties
    <3> QED
      BY <2>3, <3>2, <3>3
  <2> QED
    BY <1>1, <2>1, <2>4 DEF Due
<1> QED
  BY <1>4, <1>6, <1>7

LEMMA NearQuiet ==
  ASSUME NearIsPunctual, Quiet
  PROVE  NearIsPunctual'
<1>1. SUFFICES ASSUME timing_wheel_vec_' # <<>>, NEW k \in Tasks,
                      fate'[k] = "near"
               PROVE  Due(k)' \/ Awaited(k)'
  BY NearMeaning DEF NearIsPunctual, Due, Awaited
<1>2. Due(k) \/ Awaited(k)
  BY <1>1, NearMeaning DEF Quiet
<1>3. CASE Due(k)
  <2>1. task_list # <<>>
    <3>1. DOMAIN <<>> = {}
      OBVIOUS
    <3> QED
      BY <1>3, <3>1 DEF Due
  <2> QED
    BY <1>3, <2>1 DEF Due, Quiet
<1>4. CASE Awaited(k)
  BY <1>1, <1>4 DEF Awaited, Quiet
<1> QED
  BY <1>2, <1>3, <1>4

LEMMA NearStep ==
  IInv /\ OdometerInSync /\ NearIsPunctual /\ [Next]_vars => NearIsPunctual'
<1> SUFFICES ASSUME IInv, OdometerInSync, NearIsPunctual, [Next]_vars
             PROVE  NearIsPunctual'
  OBVIOUS
<1>1. CASE Quiet
  BY <1>1, NearQuiet
<1>2. CASE Initialize /\ state_ = "kPreInit"
  <2>1. \A k \in Tasks : fate'[k] # "near"
    BY <1>2 DEF Initialize, IInv, PlaceInv
  <2> QED
    BY <2>1 DEF NearIsPunctual
<1>3. SUFFICES ASSUME timing_wheel_vec_' # <<>>, NEW t \in Tasks,
                      fate'[t] = "near",
                      \/ \E k \in Tasks, tp \in Times, start \in StartsRead :
                           ExecuteAt(k, tp, start)
                      \/ TimerTick
                      \/ TaskEnds
               PROVE  Due(t)' \/ Awaited(t)'
  BY <1>1, <1>2, StepCases DEF NearIsPunctual, Due, Awaited
<1> QED
  BY <1>3, NearCall, NearTick, NearTaskEnds

(* NearIsPunctual: a task whose time lies less than one revolution of      *)
(* level 0 ahead and whose slot was not taken yet runs in its own tick,    *)
(* wherever the wheels stood when it was handed over                       *)
(* (time_wheel_executor.cc:136-146; .h:77-88).                             *)
THEOREM NearTasksArePunctual == Spec => []NearIsPunctual
<1>1. Init => NearIsPunctual /\ OdometerInSync
  BY DEF Init, NearIsPunctual, OdometerInSync
<1> QED
  BY InitOK, TypeStep, SyncStep, NearStep, <1>1, PTL DEF Spec
=============================================================================
