---------------------- MODULE TimeWheelServiceProofs ----------------------
(***************************************************************************)
(* Proofs about what users and ExecutorManager get from a                  *)
(* TimeWheelExecutor: what becomes of the tasks it has taken in, and when  *)
(* they run by the system clock.                                           *)
(***************************************************************************)
EXTENDS TimeWheelExecutorProofs

-----------------------------------------------------------------------------
(* What the steps do to the entries, wherever they are.                    *)

(* A tick moves the slot it empties to the list to be run, drops what the  *)
(* other levels' carries empty, and moves entries from the map to slots of *)
(* the last level.                                                         *)
LEMMA TickEntries ==
  ASSUME IInv, TimerTick
  PROVE  /\ task_list' =
              timing_wheel_vec_[1].wheel[timing_wheel_vec_[1].current_pos]
         /\ \A ii \in Levels : \A slot \in 0 .. WheelSize[ii] - 1 :
              \A i \in DOMAIN timing_wheel_vec_'[ii].wheel[slot] :
                \/ /\ ~ (Carries(ii)
                         /\ slot = timing_wheel_vec_[ii].current_pos)
                   /\ i \in DOMAIN timing_wheel_vec_[ii].wheel[slot]
                   /\ timing_wheel_vec_'[ii].wheel[slot][i] =
                        timing_wheel_vec_[ii].wheel[slot][i]
                \/ /\ ii = Last /\ Carries(Last + 1)
                   /\ \E j \in DOMAIN Borrowed :
                        /\ timing_wheel_vec_'[ii].wheel[slot][i] = Borrowed[j]
                        /\ slot = SlotOfBorrowed(Borrowed[j])
         /\ \A key \in DOMAIN timing_task_map_' :
              /\ key \in DOMAIN timing_task_map_
              /\ timing_task_map_'[key] = timing_task_map_[key]
<1>1. /\ WellFormed(timing_wheel_vec_)
      /\ timing_wheel_vec_' = Ticked
         \/ (Carries(Last + 1) /\ ~OutOfWheel /\ timing_wheel_vec_' = Spliced)
  BY TickOK
<1>2. task_list' =
        timing_wheel_vec_[1].wheel[timing_wheel_vec_[1].current_pos]
  BY DEF TimerTick
<1>3. \A key \in DOMAIN timing_task_map_' :
        /\ key \in DOMAIN timing_task_map_
        /\ timing_task_map_'[key] = timing_task_map_[key]
  <2>1. \/ UNCHANGED timing_task_map_
        \/ timing_task_map_' = [key \in DOMAIN timing_task_map_
                                          \ {timing_task_map_pos_} |->
                                  timing_task_map_[key]]
    BY DEF TimerTick
  <2> QED
    BY <2>1
<1>4. ASSUME NEW ii \in Levels, NEW slot \in 0 .. WheelSize[ii] - 1,
             NEW i \in DOMAIN Ticked[ii].wheel[slot]
      PROVE  /\ ~ (Carries(ii) /\ slot = timing_wheel_vec_[ii].current_pos)
             /\ i \in DOMAIN timing_wheel_vec_[ii].wheel[slot]
             /\ Ticked[ii].wheel[slot][i] =
                  timing_wheel_vec_[ii].wheel[slot][i]
  <2>1. Ticked[ii].wheel[slot] =
          IF Carries(ii) /\ slot = timing_wheel_vec_[ii].current_pos
          THEN <<>> ELSE timing_wheel_vec_[ii].wheel[slot]
    BY <1>1, TickedOK
  <2>2. DOMAIN <<>> = {}
    OBVIOUS
  <2> QED
    BY <1>4, <2>1, <2>2
<1>5. ASSUME NEW ii \in Levels, NEW slot \in 0 .. WheelSize[ii] - 1,
             NEW i \in DOMAIN timing_wheel_vec_'[ii].wheel[slot]
      PROVE  \/ /\ i \in DOMAIN Ticked[ii].wheel[slot]
                /\ timing_wheel_vec_'[ii].wheel[slot][i] =
                     Ticked[ii].wheel[slot][i]
             \/ /\ ii = Last /\ Carries(Last + 1)
                /\ \E j \in DOMAIN Borrowed :
                     /\ timing_wheel_vec_'[ii].wheel[slot][i] = Borrowed[j]
                     /\ slot = SlotOfBorrowed(Borrowed[j])
  <2>1. CASE timing_wheel_vec_' = Ticked
    BY <1>5, <2>1
  <2>2. CASE Carries(Last + 1) /\ ~OutOfWheel /\ timing_wheel_vec_' = Spliced
    <3>1. Borrowed \in Seq(Entries)
      BY BorrowedOK DEF IInv
    <3>2. CASE ii = Last
      BY <1>1, <1>5, <2>2, <3>1, <3>2, SplicedOK
    <3>3. CASE ii # Last
      <4>1. Spliced[ii].wheel = Ticked[ii].wheel
        BY <1>1, <2>2, <3>1, <3>3, SplicedOK
      <4> QED
        BY <1>5, <2>2, <4>1
    <3> QED
      BY <3>2, <3>3
  <2> QED
    BY <1>1, <2>1, <2>2
<1>6. ASSUME NEW ii \in Levels, NEW slot \in 0 .. WheelSize[ii] - 1,
             NEW i \in DOMAIN timing_wheel_vec_'[ii].wheel[slot]
      PROVE  \/ /\ ~ (Carries(ii) /\ slot = timing_wheel_vec_[ii].current_pos)
                /\ i \in DOMAIN timing_wheel_vec_[ii].wheel[slot]
                /\ timing_wheel_vec_'[ii].wheel[slot][i] =
                     timing_wheel_vec_[ii].wheel[slot][i]
             \/ /\ ii = Last /\ Carries(Last + 1)
                /\ \E j \in DOMAIN Borrowed :
                     /\ timing_wheel_vec_'[ii].wheel[slot][i] = Borrowed[j]
                     /\ slot = SlotOfBorrowed(Borrowed[j])
  BY <1>4, <1>5
<1> QED
  BY <1>2, <1>3, <1>6

(* t is s with at most e added, the latter only if Why holds.              *)
Adds(s, t, e, Why) ==
  /\ Grows(s, t)
  /\ \A i \in DOMAIN t : \/ i \in DOMAIN s /\ t[i] = s[i]
                         \/ t[i] = e /\ Why

Holds(s, e) == \E i \in DOMAIN s : s[i] = e

(* A call adds at most the entry of its own task to the wheels.            *)
LEMMA CallSlots ==
  ASSUME IInv, NEW k \in Tasks, NEW tp \in Times, NEW start \in StartsRead,
         ExecuteAt(k, tp, start), timing_wheel_vec_' # <<>>
  PROVE  LET tick == VirtualTp(tp, start) \div Dt
             diff == tick - current_tick_count_
             e    == [tick_count |-> tick, task |-> k]
         IN  /\ timing_wheel_vec_ # <<>>
             /\ \A ii \in Levels :
                  \A slot \in 0 .. WheelSize[ii] - 1 :
                    Adds(timing_wheel_vec_[ii].wheel[slot],
                         timing_wheel_vec_'[ii].wheel[slot], e,
                         /\ slot = Slot(ii, diff)
                         /\ ~Past(VirtualTp(tp, start))
                         /\ HasRoom(ii, diff)
                         /\ ii # 1 => ~HasRoom(1, diff)
                         /\ fate'[k] = IF Near(diff) THEN "near" ELSE "far")
             /\ \/ fate'[k] = "past" /\ UNCHANGED timing_task_map_
                \/ /\ fate'[k] = "far"
                   /\ ~Past(VirtualTp(tp, start))
                   /\ \A ii \in Levels : ~HasRoom(ii, diff)
                   /\ e \in Entries
                   /\ PlaceInMap(e, diff)
                \/ /\ UNCHANGED timing_task_map_
                   /\ \E ii \in Levels :
                        \E slot \in 0 .. WheelSize[ii] - 1 :
                          Holds(timing_wheel_vec_'[ii].wheel[slot], e)
<1> DEFINE v == VirtualTp(tp, start)
           tick == v \div Dt
           diff == tick - current_tick_count_
           e == [tick_count |-> tick, task |-> k]
           at(ii) == Slot(ii, diff)
           old(ii, slot) == timing_wheel_vec_[ii].wheel[slot]
           new(ii, slot) == timing_wheel_vec_'[ii].wheel[slot]
           From(ii) == /\ ~Past(v)
                       /\ HasRoom(ii, diff)
                       /\ ii # 1 => ~HasRoom(1, diff)
                       /\ fate'[k] = IF Near(diff) THEN "near" ELSE "far"
           Slots(ii) == 0 .. WheelSize[ii] - 1
           Mapped == /\ fate'[k] = "far"
                     /\ ~Past(v)
                     /\ \A ii \in Levels : ~HasRoom(ii, diff)
                     /\ e \in Entries
                     /\ PlaceInMap(e, diff)
<1>1. fate \in [Tasks -> {"new", "past", "near", "far", "done", "ran"}]
  BY DEF IInv, TypeOK
<1>2. ASSUME NEW ii \in Levels,
             ~Past(v),
             HasRoom(ii, diff),
             \A jj \in 1 .. ii - 1 : ~HasRoom(jj, diff),
             fate' = [fate EXCEPT ![k] = IF Near(diff) THEN "near" ELSE "far"],
             e \in Entries,
             at(ii) \in Slots(ii),
             WellFormed(timing_wheel_vec_),
             timing_wheel_vec_' =
               [timing_wheel_vec_ EXCEPT ![ii].wheel[at(ii)] = Append(@, e)]
      PROVE  /\ timing_wheel_vec_ # <<>>
             /\ \A jj \in Levels : \A slot \in Slots(jj) :
                  Adds(old(jj, slot), new(jj, slot), e,
                       slot = at(jj) /\ From(jj))
             /\ \E jj \in Levels : \E slot \in Slots(jj) :
                  Holds(new(jj, slot), e)
  <2>1. From(ii)
    <3>1. ii # 1 => 1 \in 1 .. ii - 1
      BY LevelsOK, SMT
    <3> QED
      BY <1>1, <1>2, <3>1, Zenon
  <2> HIDE DEF at, e, From
  <2>2. \A jj \in Levels : \A slot \in Slots(jj) :
          new(jj, slot) = IF jj = ii /\ slot = at(ii)
                          THEN Append(old(ii, at(ii)), e) ELSE old(jj, slot)
    BY <1>2, PlaceOK
  <2>3. old(ii, at(ii)) \in Seq(Entries)
    <3>1. timing_wheel_vec_[ii].wheel \in [Slots(ii) -> Seq(Entries)]
      BY <1>2, ShapeOK
    <3> QED
      BY <1>2, <3>1
  <2>4. /\ Adds(old(ii, at(ii)), new(ii, at(ii)), e, TRUE)
        /\ Holds(new(ii, at(ii)), e)
    <3>1. new(ii, at(ii)) = Append(old(ii, at(ii)), e)
      BY <1>2, <2>2
    <3>2. e \in Entries
      BY <1>2
    <3> HIDE DEF old, new
    <3> QED
      BY <2>3, <3>1, <3>2, AppendGrows DEF Adds, Holds
  <2>5. ASSUME NEW jj \in Levels, NEW slot \in Slots(jj)
        PROVE  Adds(old(jj, slot), new(jj, slot), e,
                    slot = at(jj) /\ From(jj))
    <3>1. CASE jj = ii /\ slot = at(ii)
      BY <2>1, <2>4, <3>1 DEF Adds
    <3>2. CASE ~ (jj = ii /\ slot = at(ii))
      <4>1. new(jj, slot) = old(jj, slot)
        BY <2>2, <3>2
      <4> HIDE DEF new, old
      <4> QED
        BY <4>1 DEF Adds, Grows
    <3> QED
      BY <3>1, <3>2
  <2> QED
    BY <1>2, <2>4, <2>5, ShapeOK, Zenon
<1> HIDE DEF at, e, From, new, old, Slots, diff, v, tick
<1>3. ASSUME UNCHANGED timing_wheel_vec_
      PROVE  /\ timing_wheel_vec_ # <<>>
             /\ \A jj \in Levels : \A slot \in Slots(jj) :
                  Adds(old(jj, slot), new(jj, slot), e,
                       slot = at(jj) /\ From(jj))
  BY <1>3 DEF Adds, Grows, old, new
<1>4. /\ timing_wheel_vec_ # <<>>
      /\ \A jj \in Levels : \A slot \in Slots(jj) :
           Adds(old(jj, slot), new(jj, slot), e, slot = at(jj) /\ From(jj))
      /\ \/ fate'[k] = "past" /\ UNCHANGED timing_task_map_
         \/ Mapped
         \/ /\ UNCHANGED timing_task_map_
            /\ \E jj \in Levels : \E slot \in Slots(jj) :
                 Holds(new(jj, slot), e)
  <2>1. \/ /\ UNCHANGED timing_wheel_vec_
           /\ \/ fate'[k] = "past" /\ UNCHANGED timing_task_map_
              \/ Mapped
        \/ \E ii \in Levels :
             /\ ~Past(v)
             /\ HasRoom(ii, diff)
             /\ \A jj \in 1 .. ii - 1 : ~HasRoom(jj, diff)
             /\ fate' = [fate EXCEPT ![k] =
                           IF Near(diff) THEN "near" ELSE "far"]
             /\ e \in Entries
             /\ at(ii) \in Slots(ii)
             /\ WellFormed(timing_wheel_vec_)
             /\ timing_wheel_vec_' =
                  [timing_wheel_vec_ EXCEPT ![ii].wheel[at(ii)] = Append(@, e)]
             /\ UNCHANGED timing_task_map_
    <3>1. \/ /\ UNCHANGED timing_wheel_vec_
             /\ \/ /\ timing_wheel_vec_ = <<>>
                   /\ UNCHANGED timing_task_map_
                \/ /\ fate' = [fate EXCEPT ![k] = "past"]
                   /\ UNCHANGED timing_task_map_
                \/ /\ fate' = [fate EXCEPT ![k] = "far"]
                   /\ ~Past(v)
                   /\ \A ii \in Levels : ~HasRoom(ii, diff)
                   /\ e \in Entries
                   /\ PlaceInMap(e, diff)
          \/ \E ii \in Levels :
               /\ ~Past(v)
               /\ HasRoom(ii, diff)
               /\ \A jj \in 1 .. ii - 1 : ~HasRoom(jj, diff)
               /\ fate' = [fate EXCEPT ![k] =
                             IF Near(diff) THEN "near" ELSE "far"]
               /\ e \in Entries
               /\ at(ii) \in Slots(ii)
               /\ WellFormed(timing_wheel_vec_)
               /\ timing_wheel_vec_' =
                    [timing_wheel_vec_ EXCEPT ![ii].wheel[at(ii)] =
                       Append(@, e)]
               /\ UNCHANGED timing_task_map_
      BY CallWheels DEF at, e, Slots, diff, tick, v
    <3>2. fate' = [fate EXCEPT ![k] = "past"] => fate'[k] = "past"
      BY <1>1
    <3>3. fate' = [fate EXCEPT ![k] = "far"] => fate'[k] = "far"
      BY <1>1
    <3> QED
      BY <3>1, <3>2, <3>3
  <2> QED
    BY <1>2, <1>3, <2>1
<1> QED
  BY <1>4 DEF at, e, From, new, old, Slots, diff, tick, v

(* And at most the same entry to the map.                                  *)
LEMMA CallMap ==
  ASSUME TypeOK, NEW e \in Entries, NEW diff, PlaceInMap(e, diff)
  PROVE  /\ DOMAIN timing_task_map_' =
              DOMAIN timing_task_map_ \cup {MapKey(diff)}
         /\ \A key \in DOMAIN timing_task_map_ :
              Grows(timing_task_map_[key], timing_task_map_'[key])
         /\ \A key \in DOMAIN timing_task_map_' :
              \A i \in DOMAIN timing_task_map_'[key] :
                \/ /\ key \in DOMAIN timing_task_map_
                   /\ i \in DOMAIN timing_task_map_[key]
                   /\ timing_task_map_'[key][i] = timing_task_map_[key][i]
                \/ /\ timing_task_map_'[key][i] = e
                   /\ key = MapKey(diff)
         /\ Holds(timing_task_map_'[MapKey(diff)], e)
<1> DEFINE map == timing_task_map_
           at == MapKey(diff)
           list == Lookup(map, at)
<1>1. /\ DOMAIN map' = DOMAIN map \cup {at}
      /\ \A key \in DOMAIN map' :
           map'[key] = IF key = at THEN Append(list, e) ELSE map[key]
  BY DEF PlaceInMap
<1>2. list \in Seq(Entries)
  <2>1. <<>> \in Seq(Entries)
    OBVIOUS
  <2> QED
    BY <2>1 DEF Lookup, TypeOK
<1>3. at \in DOMAIN map => list = map[at]
  BY DEF Lookup
<1>4. at \notin DOMAIN map => list = <<>>
  BY DEF Lookup
<1>5. DOMAIN <<>> = {}
  OBVIOUS
<1> HIDE DEF map, at, list
<1>6. /\ Grows(list, Append(list, e))
      /\ \A i \in DOMAIN Append(list, e) :
           \/ i \in DOMAIN list /\ Append(list, e)[i] = list[i]
           \/ Append(list, e)[i] = e
      /\ Holds(Append(list, e), e)
  BY <1>2, AppendGrows DEF Holds
<1>7. \A key \in DOMAIN map : Grows(map[key], map'[key])
  BY <1>1, <1>3, <1>6 DEF Grows
<1>8. ASSUME NEW key \in DOMAIN map', NEW i \in DOMAIN map'[key]
      PROVE  \/ /\ key \in DOMAIN map
                /\ i \in DOMAIN map[key]
                /\ map'[key][i] = map[key][i]
             \/ map'[key][i] = e /\ key = at
  <2>1. CASE key = at
    BY <1>1, <1>3, <1>4, <1>5, <1>6, <1>8, <2>1
  <2>2. CASE key # at
    BY <1>1, <1>8, <2>2
  <2> QED
    BY <2>1, <2>2
<1> QED
  BY <1>1, <1>6, <1>7, <1>8 DEF map, at

-----------------------------------------------------------------------------
(* Where a task is kept says in which tick it will be run.                 *)

(* The ticks whose slots are still to be taken in this revolution.         *)
Window == NextTick .. NextTick + WheelSize[1] - 1

OneRevolutionOff(e, n) ==
  e.tick_count - n \in {-WheelSize[1], 0, WheelSize[1]}

(* What holds of an entry in the list being run, in a slot, and in the map *)
(* under a key.                                                            *)
InListOK(e) ==
  /\ fate[e.task] # "new"
  /\ fate[e.task] = "near" => e.tick_count = current_tick_count_
  /\ Last = 1 => OneRevolutionOff(e, current_tick_count_)

InSlotOK(ii, slot, e) ==
  /\ fate[e.task] # "new"
  /\ fate[e.task] = "near" =>
       /\ ii = 1
       /\ \E n \in Window : n % WheelSize[1] = slot /\ e.tick_count = n
  /\ Last = 1 =>
       \E n \in Window : n % WheelSize[1] = slot /\ OneRevolutionOff(e, n)

InMapOK(key, e) ==
  /\ fate[e.task] \notin {"new", "near"}
  /\ Last = 1 =>
       e.tick_count \in key * WheelSize[1]
                        .. key * WheelSize[1] + 2 * WheelSize[1] - 2

ListPlan == \A i \in DOMAIN task_list : InListOK(task_list[i])

WheelPlan ==
  timing_wheel_vec_ # <<>> =>
    \A ii \in Levels : \A slot \in 0 .. WheelSize[ii] - 1 :
      \A i \in DOMAIN timing_wheel_vec_[ii].wheel[slot] :
        InSlotOK(ii, slot, timing_wheel_vec_[ii].wheel[slot][i])

MapPlan ==
  \A key \in DOMAIN timing_task_map_ :
    \A i \in DOMAIN timing_task_map_[key] :
      InMapOK(key, timing_task_map_[key][i])

PlanInv == ListPlan /\ WheelPlan /\ MapPlan

(* All of them name tasks.                                                 *)
LEMMA EntryTypes ==
  ASSUME IInv
  PROVE  /\ \A i \in DOMAIN task_list : task_list[i] \in Entries
         /\ timing_wheel_vec_ # <<>> =>
              \A ii \in Levels : \A slot \in 0 .. WheelSize[ii] - 1 :
                \A i \in DOMAIN timing_wheel_vec_[ii].wheel[slot] :
                  timing_wheel_vec_[ii].wheel[slot][i] \in Entries
         /\ \A key \in DOMAIN timing_task_map_ :
              \A i \in DOMAIN timing_task_map_[key] :
                timing_task_map_[key][i] \in Entries
         /\ \A e \in Entries : e.task \in Tasks /\ e.tick_count \in Nat
<1>1. ASSUME NEW s \in Seq(Entries), NEW i \in DOMAIN s PROVE s[i] \in Entries
  <2>1. s \in [1 .. Len(s) -> Entries]
    BY LenProperties
  <2> QED
    BY <1>1, <2>1
<1>2. timing_wheel_vec_ # <<>> =>
        \A ii \in Levels : \A slot \in 0 .. WheelSize[ii] - 1 :
          timing_wheel_vec_[ii].wheel[slot] \in Seq(Entries)
  BY ShapeOK DEF IInv, PlaceInv
<1>3. task_list \in Seq(Entries)
      /\ \A key \in DOMAIN timing_task_map_ :
           timing_task_map_[key] \in Seq(Entries)
  BY DEF IInv, TypeOK
<1> QED
  BY <1>1, <1>2, <1>3 DEF Entries

(* A whole revolution more or less makes no difference to the slot.        *)
LEMMA SameSlot ==
  ASSUME NEW x \in Int, NEW w \in Nat \ {0}
  PROVE  /\ (x - w) % w = x % w /\ (x + w) % w = x % w
         /\ x - (x - w) = w /\ x - (x + w) = -w
<1> DEFINE q == x \div w
           r == x % w
<1>1. q \in Int /\ r \in 0 .. w - 1 /\ x = w * q + r
  BY DivMod
<1> HIDE DEF q, r
<1>2. x - w = w * (q - 1) + r /\ x + w = w * (q + 1) + r
  BY <1>1, SMT
<1>3. x - w \in Int /\ x + w \in Int /\ q - 1 \in Int /\ q + 1 \in Int
  BY <1>1
<1>4. (x - w) % w = r
  BY <1>1, <1>2, <1>3, DivUnique
<1>5. (x + w) % w = r
  BY <1>1, <1>2, <1>3, DivUnique
<1>6. x - (x - w) = w /\ x - (x + w) = -w
  BY SMT
<1> QED
  BY <1>4, <1>5, <1>6 DEF r

(* The slot under the first level's position belongs to the tick under     *)
(* way, every other one to a later tick of the window.                     *)
LEMMA WindowMoves ==
  ASSUME NEW w \in Nat \ {0}, NEW c \in Nat, NEW n \in c .. c + w - 1
  PROVE  /\ n % w = c % w => n = c
         /\ n % w # c % w => n \in c + 1 .. c + 1 + w - 1
<1>1. c \in Int /\ n \in c - w + 1 .. c + w - 1
  BY SMT
<1>2. n % w = c % w => n = c
  BY <1>1, ModInjective
<1>3. n # c => n \in c + 1 .. c + 1 + w - 1
  BY SMT
<1> QED
  BY <1>2, <1>3

(* What the last tick of a revolution takes from the map is for the next   *)
(* revolution, or for the one after it.                                    *)
LEMMA FromMap ==
  ASSUME NEW w \in Nat \ {0}, NEW c \in Nat, c % w = w - 1,
         NEW x \in (c \div w + 1) * w .. (c \div w + 1) * w + 2 * w - 2
  PROVE  \E n \in c + 1 .. c + 1 + w - 1 :
           n % w = x % w /\ x - n \in {-w, 0, w}
<1> DEFINE q == c \div w
<1>1. c \in Int /\ q \in Int /\ c = w * q + (w - 1)
  BY DivMod
<1> HIDE DEF q
<1>2. (q + 1) * w = c + 1
  BY <1>1, SMT
<1>3. x \in c + 1 .. c + 1 + 2 * w - 2
  BY <1>2 DEF q
<1>4. x \in Int
  BY <1>1, <1>3, SMT
<1>5. CASE x <= c + w
  <2>1. x \in c + 1 .. c + 1 + w - 1 /\ x - x = 0
    BY <1>1, <1>3, <1>5, SMT
  <2> QED
    BY <2>1
<1>6. CASE ~ (x <= c + w)
  <2>1. x - w \in c + 1 .. c + 1 + w - 1 /\ x - (x - w) = w
    BY <1>1, <1>3, <1>4, <1>6, SMT
  <2>2. (x - w) % w = x % w
    BY <1>4, SameSlot
  <2> QED
    BY <2>1, <2>2
<1> QED
  BY <1>5, <1>6

(* With one level, the map stands at the next revolution.                  *)
LEMMA MapPosition ==
  ASSUME IInv, OdometerInSync, alive, timing_wheel_vec_ # <<>>, Last = 1
  PROVE  timing_task_map_pos_ = NextTick \div WheelSize[1] + 1
<1>1. PICK n : n \in Nat /\ n = NextTick
  BY DEF IInv, TypeOK, NextTick
<1>2. PICK odo : odo = Odometer
  OBVIOUS
<1>3. odo = [ii \in 1 .. Len(WheelSize) + 1 |->
               IF ii = 1 THEN n
               ELSE odo[ii - 1] \div WheelSize[ii - 1] + 1]
  BY <1>1, <1>2, OdometerExists DEF Odometer
<1>4. /\ odo[1] = n
      /\ \A ii \in Levels : odo[ii + 1] = odo[ii] \div WheelSize[ii] + 1
      /\ \A ii \in 1 .. Last + 1 : odo[ii] \in Nat
  BY <1>1, <1>3, OdometerOK
<1>5. 1 \in Levels
  BY LevelsOK
<1> QED
  BY <1>1, <1>2, <1>4, <1>5 DEF OdometerInSync

(* A tick takes the entries of its own slot, and brings down from the map  *)
(* what the window has room for.                                           *)
LEMMA PlanTick ==
  ASSUME IInv, OdometerInSync, PlanInv, TimerTick
  PROVE  PlanInv'
<1> DEFINE w == WheelSize[1]
           c == current_tick_count_
           vec == timing_wheel_vec_
<1>1. /\ WellFormed(vec) /\ vec # <<>> /\ alive /\ tpc = "tick"
      /\ UNCHANGED fate
  BY TickOK, ShapeOK DEF TimerTick, TimerAt
<1>2. c \in Nat /\ NextTick = c /\ w \in Nat \ {0} /\ 1 \in Levels
  BY <1>1, LevelsOK DEF IInv, TypeOK, NextTick, InWindow
<1>3. vec[1].current_pos = c % w
  BY <1>1, <1>2, FirstPosition
<1>4. c % w \in 0 .. w - 1
  <2>1. c \in Int
    BY <1>2
  <2> HIDE DEF c, w
  <2> QED
    BY <1>2, <2>1, DivMod
<1>5. /\ task_list' = vec[1].wheel[c % w]
      /\ task_list' # <<>> => current_tick_count_' = c
      /\ NextTick' = c + 1
  BY <1>2, <1>3 DEF TimerTick, NextTick, InWindow
<1>6. Carries(1)
  <2>1. 1 .. 1 - 1 = {}
    BY SMT
  <2> QED
    BY <2>1 DEF Carries
<1>7. ASSUME NEW slot \in 0 .. w - 1, NEW i \in DOMAIN vec[1].wheel[slot]
      PROVE  InSlotOK(1, slot, vec[1].wheel[slot][i])
  BY <1>1, <1>2, <1>7 DEF PlanInv, WheelPlan
<1>8. ListPlan'
  <2>1. SUFFICES ASSUME NEW i \in DOMAIN task_list', NEW e, e = task_list'[i]
                 PROVE  InListOK(e)'
    BY DEF ListPlan, InListOK, OneRevolutionOff
  <2>2. current_tick_count_' = c
    <3>1. DOMAIN <<>> = {}
      OBVIOUS
    <3> QED
      BY <1>5, <2>1, <3>1
  <2>3. InSlotOK(1, c % w, e)
    BY <1>4, <1>5, <1>7, <2>1
  <2>4. \A n \in Window : n % w = c % w => n = c
    BY <1>2, WindowMoves DEF Window
  <2>5. /\ fate[e.task] # "new"
        /\ fate[e.task] = "near" => e.tick_count = c
        /\ Last = 1 => OneRevolutionOff(e, c)
    BY <2>3, <2>4 DEF InSlotOK
  <2> QED
    BY <1>1, <2>2, <2>5 DEF InListOK, OneRevolutionOff
<1>9. WheelPlan'
  <2>1. SUFFICES ASSUME NEW ii \in Levels, NEW slot \in 0 .. WheelSize[ii] - 1,
                        NEW i \in DOMAIN vec'[ii].wheel[slot],
                        NEW e, e = vec'[ii].wheel[slot][i]
                 PROVE  InSlotOK(ii, slot, e)'
    BY DEF WheelPlan, InSlotOK, Window, OneRevolutionOff
  <2>2. \/ /\ ~ (Carries(ii) /\ slot = vec[ii].current_pos)
           /\ i \in DOMAIN vec[ii].wheel[slot]
           /\ e = vec[ii].wheel[slot][i]
        \/ /\ ii = Last /\ Carries(Last + 1)
           /\ \E j \in DOMAIN Borrowed :
                e = Borrowed[j] /\ slot = SlotOfBorrowed(Borrowed[j])
    BY <2>1, TickEntries
  <2>3. Window' = c + 1 .. c + 1 + w - 1
    BY <1>5 DEF Window
  <2>4. SUFFICES /\ fate[e.task] # "new"
                 /\ fate[e.task] = "near" =>
                      /\ ii = 1
                      /\ \E n \in c + 1 .. c + 1 + w - 1 :
                           n % w = slot /\ e.tick_count = n
                 /\ Last = 1 =>
                      \E n \in c + 1 .. c + 1 + w - 1 :
                        n % w = slot /\ OneRevolutionOff(e, n)
    BY <1>1, <2>3 DEF InSlotOK, OneRevolutionOff
  <2>5. CASE /\ ~ (Carries(ii) /\ slot = vec[ii].current_pos)
             /\ i \in DOMAIN vec[ii].wheel[slot]
             /\ e = vec[ii].wheel[slot][i]
    <3>1. InSlotOK(ii, slot, e)
      BY <1>1, <2>5 DEF PlanInv, WheelPlan
    <3>2. ii = 1 => slot # c % w
      BY <1>3, <1>6, <2>5
    <3>3. \A n \in Window : n % w # c % w => n \in c + 1 .. c + 1 + w - 1
      BY <1>2, WindowMoves DEF Window
    <3>4. Last = 1 => ii = 1
      BY LevelsOK, SMT
    <3> HIDE DEF c, w, vec
    <3>5. fate[e.task] = "near" =>
            /\ ii = 1
            /\ \E n \in c + 1 .. c + 1 + w - 1 :
                 n % w = slot /\ e.tick_count = n
      BY <3>1, <3>2, <3>3 DEF InSlotOK, w
    <3>6. Last = 1 =>
            \E n \in c + 1 .. c + 1 + w - 1 :
              n % w = slot /\ OneRevolutionOff(e, n)
      BY <3>1, <3>2, <3>3, <3>4 DEF InSlotOK, w
    <3> QED
      BY <3>1, <3>5, <3>6 DEF InSlotOK
  <2>6. CASE /\ ii = Last /\ Carries(Last + 1)
             /\ \E j \in DOMAIN Borrowed :
                  e = Borrowed[j] /\ slot = SlotOfBorrowed(Borrowed[j])
    <3>1. PICK j \in DOMAIN Borrowed :
            e = Borrowed[j] /\ slot = SlotOfBorrowed(Borrowed[j])
      BY <2>6
    <3>2. /\ timing_task_map_pos_ \in DOMAIN timing_task_map_
          /\ Borrowed = timing_task_map_[timing_task_map_pos_]
      <4>1. DOMAIN <<>> = {}
        OBVIOUS
      <4> QED
        BY <3>1, <4>1 DEF Borrowed, Lookup
    <3>3. InMapOK(timing_task_map_pos_, e)
      BY <3>1, <3>2 DEF PlanInv, MapPlan
    <3>4. ASSUME Last = 1
          PROVE  \E n \in c + 1 .. c + 1 + w - 1 :
                   n % w = slot /\ OneRevolutionOff(e, n)
      <4>1. timing_task_map_pos_ = c \div w + 1
        BY <1>1, <1>2, <3>4, MapPosition
      <4>2. c % w = w - 1
        <5>1. 1 \in 1 .. (Last + 1) - 1
          BY <3>4, SMT
        <5> QED
          BY <1>3, <2>6, <5>1 DEF Carries
      <4>3. e.tick_count \in (c \div w + 1) * w .. (c \div w + 1) * w + 2 * w - 2
        BY <3>3, <3>4, <4>1 DEF InMapOK
      <4>4. slot = e.tick_count % w
        <5>1. Scale[Last] = w
          <6>1. Scale[1] = Scale[1 - 1] * w /\ Scale[1 - 1] = 1
            BY <1>2, ScaleOK
          <6> QED
            BY <1>2, <3>4, <6>1, SMT
        <5> QED
          BY <3>1, <5>1 DEF SlotOfBorrowed
      <4> HIDE DEF c, w
      <4>5. PICK n \in c + 1 .. c + 1 + w - 1 :
              n % w = e.tick_count % w /\ e.tick_count - n \in {-w, 0, w}
        BY <1>2, <4>2, <4>3, FromMap
      <4> QED
        BY <4>4, <4>5 DEF OneRevolutionOff, w
    <3> QED
      BY <3>3, <3>4 DEF InMapOK
  <2> QED
    BY <2>2, <2>5, <2>6
<1>10. MapPlan'
  <2>1. \A key \in DOMAIN timing_task_map_' :
          /\ key \in DOMAIN timing_task_map_
          /\ timing_task_map_'[key] = timing_task_map_[key]
    BY TickEntries
  <2>2. SUFFICES ASSUME NEW key \in DOMAIN timing_task_map_',
                        NEW i \in DOMAIN timing_task_map_'[key],
                        NEW e, e = timing_task_map_'[key][i]
                 PROVE  InMapOK(key, e)'
    BY DEF MapPlan, InMapOK
  <2>3. InMapOK(key, e)
    BY <2>1, <2>2 DEF PlanInv, MapPlan
  <2> QED
    BY <1>1, <2>3 DEF InMapOK
<1> QED
  BY <1>8, <1>9, <1>10 DEF PlanInv

(* Tasks end and are handed over, but none becomes new or near again, and  *)
(* the wheels lose their lists all at once.                                *)
LEMMA PlanKept ==
  ASSUME IInv, PlanInv, ListPlan', NextTick' = NextTick,
         \A k \in Tasks : /\ fate'[k] = "new" => fate[k] = "new"
                          /\ fate'[k] = "near" => fate[k] = "near",
         UNCHANGED timing_wheel_vec_ \/ timing_wheel_vec_' = <<>>,
         UNCHANGED timing_task_map_ \/ timing_task_map_' = <<>>
  PROVE  PlanInv'
<1>1. Window' = Window
  BY DEF Window
<1>2. WheelPlan'
  <2>1. SUFFICES ASSUME timing_wheel_vec_ # <<>>, UNCHANGED timing_wheel_vec_,
                        NEW ii \in Levels, NEW slot \in 0 .. WheelSize[ii] - 1,
                        NEW i \in DOMAIN timing_wheel_vec_[ii].wheel[slot],
                        NEW e, e = timing_wheel_vec_[ii].wheel[slot][i]
                 PROVE  InSlotOK(ii, slot, e)'
    BY DEF WheelPlan, InSlotOK, Window, OneRevolutionOff
  <2>2. InSlotOK(ii, slot, e) /\ e.task \in Tasks
    BY <2>1, EntryTypes DEF PlanInv, WheelPlan
  <2> QED
    BY <1>1, <2>2 DEF InSlotOK, OneRevolutionOff
<1>3. MapPlan'
  <2>1. DOMAIN <<>> = {}
    OBVIOUS
  <2>2. SUFFICES ASSUME UNCHANGED timing_task_map_,
                        NEW key \in DOMAIN timing_task_map_,
                        NEW i \in DOMAIN timing_task_map_[key],
                        NEW e, e = timing_task_map_[key][i]
                 PROVE  InMapOK(key, e)'
    BY <2>1 DEF MapPlan, InMapOK
  <2>3. InMapOK(key, e) /\ e.task \in Tasks
    BY <2>2, EntryTypes DEF PlanInv, MapPlan
  <2>4. /\ fate[e.task] \in {"new", "past", "near", "far", "done", "ran"}
        /\ fate'[e.task] = "new" => fate[e.task] = "new"
        /\ fate'[e.task] = "near" => fate[e.task] = "near"
    BY <2>3 DEF IInv, TypeOK
  <2> QED
    BY <2>3, <2>4 DEF InMapOK
<1> QED
  BY <1>2, <1>3 DEF PlanInv

(* The tasks behind the one that ends are those of the list.               *)
LEMMA TailEntries ==
  ASSUME NEW s \in Seq(Entries), s # <<>>
  PROVE  /\ Head(s) \in Entries /\ Head(s) = s[1]
         /\ \A i \in DOMAIN Tail(s) : i + 1 \in DOMAIN s /\ Tail(s)[i] = s[i + 1]
         /\ \A i \in DOMAIN s :
              i # 1 => i - 1 \in DOMAIN Tail(s) /\ Tail(s)[i - 1] = s[i]
<1>1. /\ Tail(s) \in Seq(Entries) /\ Len(Tail(s)) = Len(s) - 1
      /\ \A j \in 1 .. Len(Tail(s)) : Tail(s)[j] = s[j + 1]
      /\ Head(s) \in Entries
  BY HeadTailProperties
<1>2. DOMAIN s = 1 .. Len(s) /\ DOMAIN Tail(s) = 1 .. Len(Tail(s))
      /\ Len(s) \in Nat
  BY <1>1, LenProperties
<1>3. Head(s) = s[1]
  OBVIOUS
<1>4. ASSUME NEW i \in DOMAIN Tail(s)
      PROVE  i + 1 \in DOMAIN s /\ Tail(s)[i] = s[i + 1]
  <2>1. i + 1 \in 1 .. Len(s)
    BY <1>1, <1>2, <1>4, SMT
  <2> QED
    BY <1>1, <1>2, <1>4, <2>1
<1>5. ASSUME NEW i \in DOMAIN s, i # 1
      PROVE  i - 1 \in DOMAIN Tail(s) /\ Tail(s)[i - 1] = s[i]
  <2>1. i - 1 \in 1 .. Len(Tail(s)) /\ (i - 1) + 1 = i
    BY <1>1, <1>2, <1>5, SMT
  <2> QED
    BY <1>1, <1>2, <2>1
<1> QED
  BY <1>1, <1>3, <1>4, <1>5

LEMMA PlanTaskEnds ==
  ASSUME IInv, PlanInv, TaskEnds
  PROVE  PlanInv'
<1>1. /\ tpc = "run" /\ tpc' \in {"count", "run"}
      /\ task_list \in Seq(Entries) /\ task_list # <<>>
      /\ task_list' = Tail(task_list)
      /\ UNCHANGED <<timing_wheel_vec_, timing_task_map_, current_tick_count_>>
      /\ fate' = [fate EXCEPT ![Head(task_list).task] =
                    IF @ = "near" THEN "done" ELSE "ran"]
  BY DEF TaskEnds, TimerAt, IInv, TypeOK, PlaceInv, wheelVars
<1>2. NextTick' = NextTick
  BY <1>1 DEF NextTick, InWindow
<1>3. \A k \in Tasks : /\ fate'[k] = "new" => fate[k] = "new"
                       /\ fate'[k] = "near" => fate[k] = "near"
  BY <1>1 DEF IInv, TypeOK
<1>4. ListPlan'
  <2>1. SUFFICES ASSUME NEW i \in DOMAIN task_list', NEW e, e = task_list'[i]
                 PROVE  InListOK(e)'
    BY DEF ListPlan, InListOK, OneRevolutionOff
  <2>2. i + 1 \in DOMAIN task_list /\ e = task_list[i + 1]
    BY <1>1, <2>1, TailEntries
  <2>3. InListOK(e) /\ e.task \in Tasks
    BY <2>2, EntryTypes DEF PlanInv, ListPlan
  <2> QED
    BY <1>1, <1>3, <2>3 DEF InListOK, OneRevolutionOff
<1> QED
  BY <1>1, <1>2, <1>3, <1>4, PlanKept

(* A task with room in the first level gets a slot of the window, and the  *)
(* last of it if its own tick is just under way.                           *)
LEMMA WindowSlot ==
  ASSUME IInv, Last = 1, NEW tick \in Nat, NEW diff \in Nat,
         diff = tick - current_tick_count_, HasRoom(1, diff),
         NEW e, e.tick_count = tick
  PROVE  \E n \in Window :
           n % WheelSize[1] = Slot(1, diff) /\ OneRevolutionOff(e, n)
<1> DEFINE w == WheelSize[1]
           c == current_tick_count_
<1>1. c \in Nat /\ w \in Nat \ {0}
  BY LevelsOK DEF IInv, TypeOK
<1>2. Slot(1, diff) = tick % w /\ diff < w
  BY FirstSlot
<1>3. CASE InWindow /\ diff = 0
  <2>1. tick = c /\ NextTick = c + 1
    BY <1>1, <1>3 DEF NextTick
  <2> HIDE DEF c, w
  <2>3. tick + w \in NextTick .. NextTick + w - 1
    BY <1>1, <2>1, SMT
  <2>2. (tick + w) % w = tick % w /\ tick - (tick + w) = -w
    <3>1. tick \in Int
      OBVIOUS
    <3> QED
      BY <1>1, <3>1, SameSlot
  <2> QED
    BY <1>2, <2>2, <2>3 DEF OneRevolutionOff, Window, w
<1>4. CASE ~ (InWindow /\ diff = 0)
  <2>1. tick \in Window /\ tick - tick = 0
    BY <1>1, <1>2, <1>4, SMT DEF Window, NextTick
  <2> QED
    BY <1>2, <2>1 DEF OneRevolutionOff
<1> QED
  BY <1>3, <1>4

(* The key of a task says its revolution, or the one before it.            *)
LEMMA KeyOfTick ==
  ASSUME IInv, Last = 1, NEW tick \in Nat, NEW diff \in Nat,
         diff = tick - current_tick_count_
  PROVE  tick \in MapKey(diff) * WheelSize[1]
                    .. MapKey(diff) * WheelSize[1] + 2 * WheelSize[1] - 2
<1> DEFINE w == WheelSize[1]
           c == current_tick_count_
           p == diff \div w
           q == c \div w
<1>1. c \in Nat /\ w \in Nat \ {0} /\ 1 \in Levels
  BY LevelsOK DEF IInv, TypeOK
<1>2. Scale[Last] = w
  <2>1. Scale[1] = Scale[1 - 1] * w /\ Scale[1 - 1] = 1
    BY <1>1, ScaleOK
  <2> QED
    BY <1>1, <2>1, SMT
<1>3. MapKey(diff) = p + q
  BY <1>2 DEF MapKey
<1>4. PICK r \in 0 .. w - 1 : p \in Int /\ diff = w * p + r
  <2>1. diff \in Int
    OBVIOUS
  <2> HIDE DEF w
  <2> QED
    BY <1>1, <2>1, DivMod
<1>5. PICK s \in 0 .. w - 1 : q \in Int /\ c = w * q + s
  <2>1. c \in Int
    BY <1>1
  <2> HIDE DEF w, c
  <2> QED
    BY <1>1, <2>1, DivMod
<1>6. tick = diff + c
  BY <1>1
<1> HIDE DEF w, c, p, q
<1>7. tick = (p + q) * w + (r + s) /\ r + s \in 0 .. 2 * w - 2
  BY <1>1, <1>4, <1>5, <1>6, SMT
<1>8. (p + q) * w \in Int
  BY <1>1, <1>4, <1>5, SMT
<1>9. tick \in (p + q) * w .. (p + q) * w + 2 * w - 2
  BY <1>1, <1>7, <1>8, SMT
<1> QED
  BY <1>3, <1>9 DEF w

LEMMA PlanCall ==
  ASSUME IInv, PlanInv, NEW k \in Tasks, NEW tp \in Times,
         NEW start \in StartsRead, ExecuteAt(k, tp, start)
  PROVE  PlanInv'
<1> DEFINE v == VirtualTp(tp, start)
           tick == v \div Dt
           diff == tick - current_tick_count_
           e == [tick_count |-> tick, task |-> k]
<1>1. /\ UNCHANGED <<task_list, current_tick_count_>>
      /\ NextTick' = NextTick
      /\ fate[k] = "new"
      /\ \A t \in Tasks : fate[t] # "new" => fate'[t] = fate[t]
  BY DEF ExecuteAt, NextTick, InWindow, IInv, TypeOK
<1>2. Window' = Window
  BY <1>1 DEF Window
<1>3. ~Past(v) => tick \in Nat /\ diff \in Nat
  BY CallOK DEF IInv
<1>4. e.tick_count = tick /\ e.task = k
  OBVIOUS
<1>5. diff = tick - current_tick_count_
  OBVIOUS
<1>6. ListPlan'
  <2>1. SUFFICES ASSUME NEW i \in DOMAIN task_list, NEW x, x = task_list[i]
                 PROVE  InListOK(x)'
    BY <1>1 DEF ListPlan, InListOK, OneRevolutionOff
  <2>2. InListOK(x) /\ x.task \in Tasks
    BY <2>1, EntryTypes DEF PlanInv, ListPlan
  <2> QED
    BY <1>1, <2>2 DEF InListOK, OneRevolutionOff
<1>7. ASSUME timing_wheel_vec_' = <<>>
      PROVE  WheelPlan'
  BY <1>7 DEF WheelPlan
<1>8. ASSUME timing_wheel_vec_' # <<>>
      PROVE  WheelPlan'
  <2>1. SUFFICES ASSUME NEW ii \in Levels, NEW slot \in 0 .. WheelSize[ii] - 1,
                        NEW i \in DOMAIN timing_wheel_vec_'[ii].wheel[slot],
                        NEW x, x = timing_wheel_vec_'[ii].wheel[slot][i]
                 PROVE  InSlotOK(ii, slot, x)'
    BY DEF WheelPlan, InSlotOK, Window, OneRevolutionOff
  <2> DEFINE s == timing_wheel_vec_[ii].wheel[slot]
             Added == /\ slot = Slot(ii, diff)
                      /\ ~Past(v)
                      /\ HasRoom(ii, diff)
                      /\ ii # 1 => ~HasRoom(1, diff)
                      /\ fate'[k] = IF Near(diff) THEN "near" ELSE "far"
  <2>2. /\ timing_wheel_vec_ # <<>>
        /\ (i \in DOMAIN s /\ x = s[i]) \/ (x = e /\ Added)
    <3>1. timing_wheel_vec_ # <<>>
      BY <1>8, CallSlots
    <3>2. Adds(s, timing_wheel_vec_'[ii].wheel[slot], e, Added)
      BY <1>8, CallSlots
    <3> HIDE DEF s, Added, e
    <3> QED
      BY <2>1, <3>1, <3>2 DEF Adds
  <2>3. CASE i \in DOMAIN s /\ x = s[i]
    <3>1. InSlotOK(ii, slot, x) /\ x.task \in Tasks
      BY <2>2, <2>3, EntryTypes DEF PlanInv, WheelPlan
    <3> QED
      BY <1>1, <1>2, <3>1 DEF InSlotOK, OneRevolutionOff
  <2>4. CASE x = e /\ Added
    <3>1. tick \in Nat /\ diff \in Nat
      BY <1>3, <2>4
    <3> HIDE DEF diff, tick, e, v
    <3>2. fate'[x.task] = "near" =>
            /\ ii = 1
            /\ \E n \in Window : n % WheelSize[1] = slot /\ x.tick_count = n
      <4>1. SUFFICES ASSUME Near(diff)
                     PROVE  /\ ii = 1
                            /\ tick \in Window /\ tick % WheelSize[1] = slot
        BY <1>4, <2>4
      <4>2. ii = 1
        BY <2>4, <4>1 DEF Near
      <4> QED
        BY <1>5, <2>4, <3>1, <4>1, <4>2, NearSlot DEF Window
    <3>3. ASSUME Last = 1
          PROVE  \E n \in Window :
                   n % WheelSize[1] = slot /\ OneRevolutionOff(x, n)
      <4>1. ii = 1
        BY <3>3, LevelsOK, SMT
      <4> QED
        BY <1>4, <1>5, <2>4, <3>1, <3>3, <4>1, WindowSlot
    <3> QED
      BY <1>2, <1>4, <2>4, <3>2, <3>3 DEF InSlotOK, OneRevolutionOff
  <2> QED
    BY <2>2, <2>3, <2>4
<1>9. MapPlan'
  <2>1. ASSUME NEW key, NEW x, InMapOK(key, x), x.task \in Tasks
        PROVE  InMapOK(key, x)'
    BY <1>1, <2>1 DEF InMapOK
  <2>2. CASE UNCHANGED timing_task_map_
    <3>1. SUFFICES ASSUME NEW key \in DOMAIN timing_task_map_,
                          NEW i \in DOMAIN timing_task_map_[key],
                          NEW x, x = timing_task_map_[key][i]
                   PROVE  InMapOK(key, x)'
      BY <2>2 DEF MapPlan, InMapOK
    <3> QED
      BY <2>1, <3>1, EntryTypes DEF PlanInv, MapPlan
  <2>3. ASSUME fate' = [fate EXCEPT ![k] = "far"], ~Past(v),
               e \in Entries, PlaceInMap(e, diff)
        PROVE  MapPlan'
    <3>1. SUFFICES ASSUME NEW key \in DOMAIN timing_task_map_',
                          NEW i \in DOMAIN timing_task_map_'[key],
                          NEW x, x = timing_task_map_'[key][i]
                   PROVE  InMapOK(key, x)'
      BY DEF MapPlan, InMapOK
    <3>2. fate'[k] = "far" /\ tick \in Nat /\ diff \in Nat
      BY <1>3, <2>3 DEF IInv, TypeOK
    <3> HIDE DEF diff, tick, e, v
    <3>3. \/ /\ key \in DOMAIN timing_task_map_
             /\ i \in DOMAIN timing_task_map_[key]
             /\ x = timing_task_map_[key][i]
          \/ x = e /\ key = MapKey(diff)
      BY <2>3, <3>1, CallMap DEF IInv
    <3>4. CASE /\ key \in DOMAIN timing_task_map_
               /\ i \in DOMAIN timing_task_map_[key]
               /\ x = timing_task_map_[key][i]
      BY <2>1, <3>4, EntryTypes DEF PlanInv, MapPlan
    <3>5. CASE x = e /\ key = MapKey(diff)
      <4>1. Last = 1 =>
              tick \in key * WheelSize[1]
                         .. key * WheelSize[1] + 2 * WheelSize[1] - 2
        BY <1>5, <3>2, <3>5, KeyOfTick
      <4> QED
        BY <1>4, <3>2, <3>5, <4>1 DEF InMapOK
    <3> QED
      BY <3>3, <3>4, <3>5
  <2> QED
    BY <2>2, <2>3, CallWheels
<1> QED
  BY <1>6, <1>7, <1>8, <1>9 DEF PlanInv

LEMMA PlanStep ==
  IInv /\ OdometerInSync /\ PlanInv /\ [Next]_vars => PlanInv'
<1> SUFFICES ASSUME IInv, OdometerInSync, PlanInv, [Next]_vars PROVE PlanInv'
  OBVIOUS
<1>1. DOMAIN <<>> = {}
  OBVIOUS
<1>2. CASE Quiet
  <2>1. ListPlan'
    BY <1>1, <1>2 DEF Quiet, PlanInv, ListPlan, InListOK, OneRevolutionOff
  <2> QED
    BY <1>2, <2>1, PlanKept DEF Quiet
<1>3. CASE Initialize /\ state_ = "kPreInit"
  <2>1. task_list' = <<>> /\ timing_task_map_' = <<>>
    BY <1>3 DEF Initialize, IInv, PlaceInv
  <2>2. ListPlan' /\ MapPlan'
    BY <1>1, <2>1 DEF ListPlan, MapPlan
  <2>3. ASSUME NEW ii \in Levels, NEW slot \in 0 .. WheelSize[ii] - 1
        PROVE  timing_wheel_vec_'[ii].wheel[slot] = <<>>
    <3>1. timing_wheel_vec_'[ii].wheel = EmptyWheel(ii)
      BY <1>3 DEF Initialize
    <3> QED
      BY <3>1 DEF EmptyWheel
  <2>4. WheelPlan'
    BY <1>1, <2>3 DEF WheelPlan
  <2> QED
    BY <2>2, <2>4 DEF PlanInv
<1> QED
  BY <1>2, <1>3, PlanCall, PlanTick, PlanTaskEnds, StepCases

LEMMA PlanInvariance == Spec => [](IInv /\ OdometerInSync /\ PlanInv)
<1>1. Init => OdometerInSync
  BY DEF Init, OdometerInSync
<1>2. Init => PlanInv
  <2>1. DOMAIN <<>> = {}
    OBVIOUS
  <2> QED
    BY <2>1 DEF Init, PlanInv, ListPlan, WheelPlan, MapPlan
<1> QED
  BY InitOK, TypeStep, SyncStep, PlanStep, <1>1, <1>2, PTL DEF Spec

(* AtMostOneRevolutionOff: with one level, a task that is not run in its   *)
(* own tick is run exactly one revolution before or after it               *)
(* (time_wheel_executor.cc:75, 142, 151).                                  *)
THEOREM NeverFarOff == Spec => []AtMostOneRevolutionOff
<1>1. PlanInv => AtMostOneRevolutionOff
  BY DEF PlanInv, ListPlan, InListOK, OneRevolutionOff,
         AtMostOneRevolutionOff
<1> QED
  BY <1>1, PlanInvariance, PTL

-----------------------------------------------------------------------------
(* With one level, no task is lost.                                        *)

LEMMA KeptTick ==
  ASSUME IInv, Last = 1, TimerTick, alive', NEW k \in Tasks, Stored(k)
  PROVE  Stored(k)'
<1> DEFINE vec == timing_wheel_vec_
           pos == timing_task_map_pos_
           map == timing_task_map_
<1>1. /\ WellFormed(vec) /\ task_list = <<>>
      /\ task_list' = vec[1].wheel[vec[1].current_pos]
  BY TickOK DEF TimerTick, TimerAt, IInv, PlaceInv
<1>2. 1 \in Levels /\ \A ii \in Levels : ii = 1
  BY LevelsOK, SMT
<1>3. CASE \E ii \in Levels :
             \E slot \in 0 .. WheelSize[ii] - 1 : InSlot(k, ii, slot)
  <2>1. PICK slot \in 0 .. WheelSize[1] - 1 : InSlot(k, 1, slot)
    BY <1>2, <1>3
  <2>2. PICK i \in DOMAIN vec[1].wheel[slot] : vec[1].wheel[slot][i].task = k
    BY <2>1 DEF InSlot
  <2>3. CASE slot = vec[1].current_pos
    BY <1>1, <2>2, <2>3 DEF Stored
  <2>4. CASE slot # vec[1].current_pos
    <3>1. Ticked[1].wheel[slot] = vec[1].wheel[slot]
      BY <1>1, <1>2, <2>4, TickedOK
    <3>2. Grows(vec[1].wheel[slot], vec'[1].wheel[slot])
      BY <1>2, <3>1, TickGrows
    <3>3. InSlot(k, 1, slot)'
      BY <2>2, <3>2 DEF InSlot, Grows
    <3> QED
      BY <1>2, <3>3 DEF Stored
  <2> QED
    BY <2>3, <2>4
<1>4. CASE InMap(k)
  <2>1. PICK key \in DOMAIN map : \E i \in DOMAIN map[key] : map[key][i].task = k
    BY <1>4 DEF InMap
  <2>2. CASE key \in DOMAIN map' /\ map'[key] = map[key]
    <3>1. InMap(k)'
      BY <2>1, <2>2 DEF InMap
    <3> QED
      BY <3>1 DEF Stored
  <2>3. CASE /\ key = pos
             /\ ~OutOfWheel
             /\ vec' = Spliced
    <3>1. Borrowed = map[key]
      BY <2>1, <2>3 DEF Borrowed, Lookup
    <3>2. PICK j \in DOMAIN Borrowed : Borrowed[j].task = k
      BY <2>1, <3>1
    <3>3. Borrowed \in Seq(Entries)
      BY BorrowedOK DEF IInv
    <3>4. PICK slot \in 0 .. WheelSize[Last] - 1 :
            \E i \in DOMAIN Spliced[Last].wheel[slot] :
              Spliced[Last].wheel[slot][i] = Borrowed[j]
      BY <1>1, <2>3, <3>2, <3>3, SplicedOK
    <3>5. InSlot(k, Last, slot)'
      BY <2>3, <3>2, <3>4 DEF InSlot
    <3> QED
      BY <3>4, <3>5, LevelsOK DEF Stored
  <2>4. \/ UNCHANGED map
        \/ /\ map' = [x \in DOMAIN map \ {pos} |-> map[x]]
           /\ ~OutOfWheel /\ vec' = Spliced
    BY DEF TimerTick
  <2> QED
    BY <2>1, <2>2, <2>3, <2>4
<1>5. ~ \E i \in DOMAIN task_list : task_list[i].task = k
  <2>1. DOMAIN <<>> = {}
    OBVIOUS
  <2> QED
    BY <1>1, <2>1
<1> QED
  BY <1>3, <1>4, <1>5 DEF Stored

LEMMA KeptCall ==
  ASSUME IInv, NothingForgotten, NEW c \in Tasks, NEW tp \in Times,
         NEW start \in StartsRead, ExecuteAt(c, tp, start),
         timing_wheel_vec_' # <<>>, NEW k \in Tasks,
         fate'[k] \in {"near", "far"}
  PROVE  Stored(k)'
<1> DEFINE vec == timing_wheel_vec_
           map == timing_task_map_
           tick == VirtualTp(tp, start) \div Dt
           diff == tick - current_tick_count_
           e == [tick_count |-> tick, task |-> c]
<1>1. /\ alive /\ UNCHANGED task_list
      /\ k # c => fate'[k] = fate[k]
  BY DEF ExecuteAt, IInv, TypeOK
<1>2. vec # <<>>
      /\ \A ii \in Levels : \A slot \in 0 .. WheelSize[ii] - 1 :
           Grows(vec[ii].wheel[slot], vec'[ii].wheel[slot])
  BY CallSlots DEF Adds
<1>3. /\ \A key \in DOMAIN map : /\ key \in DOMAIN map'
                                 /\ Grows(map[key], map'[key])
      /\ \/ fate'[c] = "past"
         \/ \E key \in DOMAIN map' : Holds(map'[key], e)
         \/ \E ii \in Levels : \E slot \in 0 .. WheelSize[ii] - 1 :
              Holds(vec'[ii].wheel[slot], e)
  <2>1. ASSUME UNCHANGED map, NEW key \in DOMAIN map
        PROVE  key \in DOMAIN map' /\ Grows(map[key], map'[key])
    BY <2>1 DEF Grows
  <2>2. ASSUME e \in Entries, PlaceInMap(e, diff)
        PROVE  /\ \A key \in DOMAIN map : /\ key \in DOMAIN map'
                                          /\ Grows(map[key], map'[key])
               /\ \E key \in DOMAIN map' : Holds(map'[key], e)
    <3> HIDE DEF e, diff
    <3>1. /\ DOMAIN map' = DOMAIN map \cup {MapKey(diff)}
          /\ \A key \in DOMAIN map : Grows(map[key], map'[key])
          /\ Holds(map'[MapKey(diff)], e)
      BY <2>2, CallMap DEF IInv
    <3> QED
      BY <3>1
  <2>3. \/ fate'[c] = "past" /\ UNCHANGED map
        \/ e \in Entries /\ PlaceInMap(e, diff)
        \/ /\ UNCHANGED map
           /\ \E ii \in Levels : \E slot \in 0 .. WheelSize[ii] - 1 :
                Holds(vec'[ii].wheel[slot], e)
    BY CallSlots
  <2> QED
    BY <2>1, <2>2, <2>3
<1>4. CASE k # c
  <2>1. Stored(k)
    BY <1>1, <1>2, <1>4 DEF NothingForgotten
  <2>2. CASE \E i \in DOMAIN task_list : task_list[i].task = k
    BY <1>1, <2>2 DEF Stored
  <2>3. CASE \E ii \in Levels :
               \E slot \in 0 .. WheelSize[ii] - 1 : InSlot(k, ii, slot)
    <3>1. PICK ii \in Levels :
            \E slot \in 0 .. WheelSize[ii] - 1 : InSlot(k, ii, slot)
      BY <2>3
    <3>2. PICK slot \in 0 .. WheelSize[ii] - 1 : InSlot(k, ii, slot)
      BY <3>1
    <3>3. Grows(vec[ii].wheel[slot], vec'[ii].wheel[slot])
      BY <1>2
    <3>4. InSlot(k, ii, slot)'
      BY <3>2, <3>3 DEF InSlot, Grows
    <3> QED
      BY <3>4 DEF Stored
  <2>4. CASE InMap(k)
    <3>1. InMap(k)'
      BY <1>3, <2>4 DEF InMap, Grows
    <3> QED
      BY <3>1 DEF Stored
  <2> QED
    BY <2>1, <2>2, <2>3, <2>4 DEF Stored
<1>5. CASE k = c
  <2>1. e.task = k
    BY <1>5
  <2>2. \/ \E key \in DOMAIN map' : Holds(map'[key], e)
        \/ \E ii \in Levels : \E slot \in 0 .. WheelSize[ii] - 1 :
             Holds(vec'[ii].wheel[slot], e)
    BY <1>3, <1>5
  <2> HIDE DEF e
  <2>3. CASE \E key \in DOMAIN map' : Holds(map'[key], e)
    <3>1. InMap(k)'
      BY <2>1, <2>3 DEF InMap, Holds
    <3> QED
      BY <3>1 DEF Stored
  <2>4. CASE \E ii \in Levels : \E slot \in 0 .. WheelSize[ii] - 1 :
               Holds(vec'[ii].wheel[slot], e)
    <3>1. PICK ii \in Levels : \E slot \in 0 .. WheelSize[ii] - 1 :
            Holds(vec'[ii].wheel[slot], e)
      BY <2>4
    <3>2. PICK slot \in 0 .. WheelSize[ii] - 1 :
            Holds(vec'[ii].wheel[slot], e)
      BY <3>1
    <3>3. InSlot(k, ii, slot)'
      BY <2>1, <3>2 DEF InSlot, Holds
    <3> QED
      BY <3>3 DEF Stored
  <2> QED
    BY <2>2, <2>3, <2>4
<1> QED
  BY <1>4, <1>5

LEMMA KeptTaskEnds ==
  ASSUME IInv, TaskEnds, NEW k \in Tasks, fate'[k] \in {"near", "far"},
         Stored(k)
  PROVE  Stored(k)'
<1>1. /\ task_list \in Seq(Entries) /\ task_list # <<>>
      /\ task_list' = Tail(task_list)
      /\ UNCHANGED <<timing_wheel_vec_, timing_task_map_>>
      /\ fate' = [fate EXCEPT ![Head(task_list).task] =
                    IF @ = "near" THEN "done" ELSE "ran"]
  BY DEF TaskEnds, TimerAt, IInv, TypeOK, PlaceInv, wheelVars
<1>2. Head(task_list) = task_list[1] /\ k # Head(task_list).task
  BY <1>1, TailEntries DEF IInv, TypeOK
<1>3. CASE \E i \in DOMAIN task_list : task_list[i].task = k
  <2>1. PICK i \in DOMAIN task_list : task_list[i].task = k
    BY <1>3
  <2>2. i - 1 \in DOMAIN task_list' /\ task_list'[i - 1] = task_list[i]
    BY <1>1, <1>2, <2>1, TailEntries
  <2> QED
    BY <2>1, <2>2 DEF Stored
<1>4. CASE InMap(k)
  <2>1. InMap(k)'
    BY <1>1, <1>4 DEF InMap
  <2> QED
    BY <2>1 DEF Stored
<1>5. CASE \E ii \in Levels :
             \E slot \in 0 .. WheelSize[ii] - 1 : InSlot(k, ii, slot)
  BY <1>1, <1>5 DEF Stored, InSlot
<1> QED
  BY <1>3, <1>4, <1>5 DEF Stored

LEMMA KeptQuiet ==
  ASSUME Quiet, timing_wheel_vec_' # <<>>, NEW k \in Tasks, Stored(k)
  PROVE  Stored(k)'
<1>1. /\ UNCHANGED <<timing_wheel_vec_, timing_task_map_>>
      /\ UNCHANGED task_list \/ task_list = <<>>
  BY DEF Quiet
<1>2. DOMAIN <<>> = {}
  OBVIOUS
<1> QED
  BY <1>1, <1>2 DEF Stored, InSlot, InMap

(* NothingForgotten: with one level, a task that was taken in is kept      *)
(* until it has run or Shutdown clears the wheels; no carry loses it       *)
(* (time_wheel_executor.cc:55-83, 136-158; .h:77-88).                      *)
THEOREM OneLevelForgetsNothing ==
  ASSUME Last = 1
  PROVE  Spec => []NothingForgotten
<1>1. Init => NothingForgotten
  BY DEF Init, NothingForgotten
<1>2. IInv /\ NothingForgotten /\ [Next]_vars => NothingForgotten'
  <2> SUFFICES ASSUME IInv, NothingForgotten, [Next]_vars,
                      timing_wheel_vec_' # <<>>, alive', NEW k \in Tasks,
                      fate'[k] \in {"near", "far"}
               PROVE  Stored(k)'
    BY DEF NothingForgotten
  <2>1. CASE Quiet
    <3>1. Stored(k)
      BY <2>1 DEF Quiet, NothingForgotten
    <3> QED
      BY <2>1, <3>1, KeptQuiet
  <2>2. ~ (Initialize /\ state_ = "kPreInit")
    <3>1. Initialize /\ state_ = "kPreInit" => fate'[k] = "new"
      BY DEF Initialize, IInv, PlaceInv
    <3> QED
      BY <3>1
  <2>3. CASE TimerTick
    <3>1. Stored(k)
      BY <2>3 DEF TimerTick, TimerAt, NothingForgotten
    <3> QED
      BY <2>3, <3>1, KeptTick
  <2>4. CASE TaskEnds
    <3>1. /\ alive /\ timing_wheel_vec_ # <<>>
          /\ fate[k] \in {"near", "far"}
      BY <2>4 DEF TaskEnds, TimerAt, wheelVars, IInv, TypeOK
    <3>2. Stored(k)
      BY <3>1 DEF NothingForgotten
    <3> QED
      BY <2>4, <3>2, KeptTaskEnds
  <2> QED
    BY <2>1, <2>2, <2>3, <2>4, KeptCall, StepCases
<1> QED
  BY InitOK, TypeStep, <1>1, <1>2, PTL DEF Spec

-----------------------------------------------------------------------------
(* Driven as ExecutorManager drives it: Initialize, Start unless a later   *)
(* executor fails to initialize, Shutdown and the destructor, and no task  *)
(* that calls Shutdown (executor_manager.cc:110-155).                      *)
Driven ==
  /\ \A s \in Scripts :
       \/ s = <<"Initialize", "Start", "Shutdown", "Destroy">>
       \/ s = <<"Initialize", "Shutdown", "Destroy">>
  /\ Stopping = {}

(* How far ExecutorManager has come.                                       *)
ScriptInv ==
  /\ state_ = "kPreInit" =>
       /\ opc = "idle"
       /\ \/ script = <<"Initialize", "Start", "Shutdown", "Destroy">>
          \/ script = <<"Initialize", "Shutdown", "Destroy">>
  /\ state_ = "kInit" =>
       /\ opc = "idle" /\ tpc = "none" /\ ~joinable
       /\ IF timing_wheel_vec_ # <<>>
          THEN \/ script = <<"Start", "Shutdown", "Destroy">>
               \/ script = <<"Shutdown", "Destroy">>
          ELSE /\ script \in {<<"Destroy">>, <<>>}
               /\ timing_task_map_pos_ = 0
  /\ state_ = "kStart" =>
       /\ opc \in {"idle", "start"} /\ tpc \notin {"none", "exited"}
       /\ joinable /\ timing_wheel_vec_ # <<>>
       /\ script = <<"Shutdown", "Destroy">>
  /\ state_ = "kShutdown" =>
       IF opc = "idle"
       THEN /\ timing_wheel_vec_ = <<>> /\ ~joinable
            /\ script \in {<<"Destroy">>, <<>>}
       ELSE /\ opc = "join" /\ timing_wheel_vec_ # <<>>
            /\ tpc # "none" => joinable
            /\ tpc = "none" => ~joinable
            /\ script = <<"Destroy">>

(* The timer thread wakes up at multiples of dt since it began, and counts *)
(* a tick only after its end, unless Shutdown leaves something of dt in    *)
(* real_dt: then it is the last tick.                                      *)
ClockInv ==
  /\ tpc \in {"none", "begin"} =>
       ~start_flag_ /\ current_tick_count_ = 0 /\ real_dt = 0
  /\ real_dt > 0 =>
       /\ Dt > MaxSleepDt /\ real_dt <= Dt - MaxSleepDt
       /\ tpc = "sleep" \/ state_ = "kShutdown"
  /\ tpc \in {"loop", "exited"} =>
       last_loop + real_dt = Now /\ last_loop <= latest
  /\ tpc = "sleep" => last_loop + real_dt = Now + Dt /\ Now <= latest
  /\ tpc \in {"tick", "run", "count"} =>
       last_loop + real_dt = Now + Dt /\ Now <= latest /\ last_loop <= latest

(* The scripts, call by call.                                              *)
LEMMA Scripted ==
  /\ Head(<<"Initialize", "Start", "Shutdown", "Destroy">>) = "Initialize"
  /\ Tail(<<"Initialize", "Start", "Shutdown", "Destroy">>)
       = <<"Start", "Shutdown", "Destroy">>
  /\ Head(<<"Initialize", "Shutdown", "Destroy">>) = "Initialize"
  /\ Tail(<<"Initialize", "Shutdown", "Destroy">>) = <<"Shutdown", "Destroy">>
  /\ Head(<<"Start", "Shutdown", "Destroy">>) = "Start"
  /\ Tail(<<"Start", "Shutdown", "Destroy">>) = <<"Shutdown", "Destroy">>
  /\ Head(<<"Shutdown", "Destroy">>) = "Shutdown"
  /\ Tail(<<"Shutdown", "Destroy">>) = <<"Destroy">>
  /\ Head(<<"Destroy">>) = "Destroy"
  /\ Tail(<<"Destroy">>) = <<>>
OBVIOUS

(* ExecutorManager makes its calls in their order.                         *)
LEMMA CallsInOrder ==
  ASSUME IInv, ScriptInv, script # <<>>, opc = "idle"
  PROVE  /\ Head(script) = "Initialize" =>
              /\ state_ = "kPreInit"
              /\ Tail(script) \in {<<"Start", "Shutdown", "Destroy">>,
                                   <<"Shutdown", "Destroy">>}
         /\ Head(script) = "Start" =>
              /\ state_ = "kInit" /\ timing_wheel_vec_ # <<>>
              /\ Tail(script) = <<"Shutdown", "Destroy">>
         /\ Head(script) = "Shutdown" =>
              /\ state_ \in {"kInit", "kStart"} /\ timing_wheel_vec_ # <<>>
              /\ Tail(script) = <<"Destroy">>
         /\ Head(script) = "Destroy" =>
              /\ state_ \in {"kInit", "kShutdown"} /\ ~joinable
              /\ timing_wheel_vec_ = <<>>
              /\ Tail(script) = <<>>
<1> USE Scripted DEF ScriptInv
<1>1. CASE state_ = "kPreInit"
  BY <1>1
<1>2. CASE state_ = "kInit"
  BY <1>2
<1>3. CASE state_ = "kStart"
  BY <1>3
<1>4. CASE state_ = "kShutdown"
  BY <1>4
<1> QED
  BY <1>1, <1>2, <1>3, <1>4 DEF IInv, TypeOK, State

LEMMA DrivenInit == ASSUME Driven PROVE Init => ScriptInv /\ ClockInv
BY DEF Driven, Init, ScriptInv, ClockInv

(* The calls of the life cycle.                                            *)
LEMMA OwnerStep ==
  ASSUME IInv, ScriptInv, ClockInv,
         \/ Initialize \/ InitializeBadOptions \/ Start \/ ShutdownExchange
         \/ Destroy \/ OwnerContinues
  PROVE  ScriptInv' /\ ClockInv'
<1> USE DEF ownerVars, startVars, wheelVars, sleepVars, clockVars, OwnerCalls,
            OwnerAt
<1>1. /\ state_ \in State /\ opc \in {"idle", "start", "join"}
      /\ ~joinable => tpc \in {"none", "exited"}
  BY DEF IInv, TypeOK, PlaceInv
<1>2. ASSUME state_ # "kShutdown",
             UNCHANGED <<startVars, current_tick_count_, sleepVars, clockVars>>,
             \/ UNCHANGED tpc
             \/ tpc = "none" /\ tpc' = "begin"
      PROVE  ClockInv'
  BY <1>2 DEF ClockInv, Now
<1>3. CASE Initialize
  <2>1. state_ = "kPreInit"
        /\ script' \in {<<"Start", "Shutdown", "Destroy">>,
                        <<"Shutdown", "Destroy">>}
    BY <1>3, CallsInOrder DEF Initialize
  <2>2. timing_wheel_vec_' # <<>>
    <3>1. DOMAIN timing_wheel_vec_' = Levels /\ 1 \in Levels
      BY <1>3, <2>1, LevelsOK DEF Initialize
    <3>2. DOMAIN <<>> = {}
      OBVIOUS
    <3> QED
      BY <3>1, <3>2
  <2>3. tpc = "none" /\ ~joinable /\ opc = "idle"
    BY <2>1 DEF IInv, PlaceInv, ScriptInv
  <2>4. ScriptInv'
    BY <1>3, <2>1, <2>2, <2>3 DEF Initialize, ScriptInv
  <2> QED
    BY <1>2, <1>3, <2>1, <2>4 DEF Initialize
<1>4. CASE InitializeBadOptions
  <2>1. /\ state_ = "kPreInit" /\ tpc = "none" /\ ~joinable
        /\ timing_wheel_vec_ = <<>> /\ timing_task_map_pos_ = 0
    BY <1>4 DEF InitializeBadOptions, IInv, PlaceInv
  <2> QED
    BY <1>2, <1>4, <2>1 DEF InitializeBadOptions, ScriptInv
<1>5. CASE Start
  <2>1. /\ state_ = "kInit" /\ timing_wheel_vec_ # <<>>
        /\ script' = <<"Shutdown", "Destroy">>
    BY <1>5, CallsInOrder DEF Start
  <2>2. tpc = "none" /\ ~joinable
    BY <2>1 DEF ScriptInv
  <2>3. ScriptInv'
    BY <1>5, <2>1, <2>2 DEF Start, ScriptInv
  <2> QED
    BY <1>2, <1>5, <2>1, <2>2, <2>3 DEF Start
<1>6. CASE ShutdownExchange
  <2>1. /\ state_ \in {"kInit", "kStart"} /\ timing_wheel_vec_ # <<>>
        /\ script' = <<"Destroy">>
    BY <1>6, CallsInOrder DEF ShutdownExchange
  <2>2. /\ tpc # "none" => joinable
        /\ tpc = "none" => ~joinable
    BY <2>1 DEF ScriptInv
  <2>3. ScriptInv'
    BY <1>6, <2>1, <2>2 DEF ShutdownExchange, ScriptInv
  <2> QED
    BY <1>2, <1>6, <2>1, <2>3 DEF ShutdownExchange
<1>7. CASE Destroy
  <2>1. /\ state_ \in {"kInit", "kShutdown"} /\ ~joinable
        /\ timing_wheel_vec_ = <<>>
        /\ script' = <<>>
    BY <1>7, CallsInOrder DEF Destroy
  <2>2. ScriptInv'
    BY <1>7, <2>1 DEF Destroy, ScriptInv
  <2>3. ClockInv'
    BY <1>7 DEF Destroy, ClockInv, Now
  <2> QED
    BY <2>2, <2>3
<1>8. CASE StartReturns
  <2>1. ScriptInv'
    BY <1>1, <1>8 DEF StartReturns, ScriptInv, State
  <2>2. ClockInv'
    BY <1>8 DEF StartReturns, ClockInv, Now
  <2> QED
    BY <2>1, <2>2
<1>9. CASE ShutdownJoin
  <2>1. state_ = "kShutdown"
    BY <1>1, <1>9 DEF ShutdownJoin, ScriptInv, State
  <2>2. ScriptInv'
    BY <1>9, <2>1 DEF ShutdownJoin, ScriptInv
  <2>3. ClockInv'
    BY <1>9 DEF ShutdownJoin, ClockInv, Now
  <2> QED
    BY <2>2, <2>3
<1> QED
  BY <1>3, <1>4, <1>5, <1>6, <1>7, <1>8, <1>9 DEF OwnerContinues

(* Counting a tick adds dt to Now().                                       *)
LEMMA OneTickLater ==
  ASSUME NEW c \in Nat, NEW d \in Nat, NEW s \in Nat
  PROVE  /\ c * d + s \in Nat
         /\ (c + 1) * d + s = (c * d + s) + d
<1>1. c * d \in Nat
  BY SMT
<1>2. (c + 1) * d = c * d + d
  BY SMT
<1> QED
  BY <1>1, <1>2, SMT

(* The timer thread.                                                       *)
LEMMA TimerClock ==
  ASSUME IInv, ScriptInv, ClockInv, TimerStep
  PROVE  ClockInv'
<1> USE DEF ownerVars, startVars, wheelVars, sleepVars, clockVars, TimerAt
<1>1. /\ {start_time_point_, current_tick_count_, last_loop, real_dt, now,
          latest} \subseteq Nat
      /\ now <= latest
      /\ Dt \in Nat \ {0} /\ MaxSleepDt \in Nat \ {0}
  BY OptionsAssumption DEF IInv, TypeOK
<1>2. /\ Now \in Nat
      /\ UNCHANGED <<current_tick_count_, start_time_point_>> => Now' = Now
      /\ /\ current_tick_count_' = current_tick_count_ + 1
         /\ UNCHANGED start_time_point_
         => Now' = Now + Dt
  BY <1>1, OneTickLater DEF Now
<1>3. CASE TimerBegins
  <2>1. /\ tpc' = "loop" /\ current_tick_count_' = 0 /\ real_dt' = 0
        /\ start_time_point_' = now /\ last_loop' = now /\ latest' = latest
    BY <1>3 DEF TimerBegins, ClockInv
  <2>2. Now' = now
    <3>1. 0 * Dt + now = now
      BY <1>1, SMT
    <3> QED
      BY <2>1, <3>1 DEF Now
  <2>3. last_loop' + real_dt' = Now'
    BY <1>1, <2>1, <2>2, SMT
  <2> QED
    BY <1>1, <2>1, <2>2, <2>3, SMT DEF ClockInv
<1>4. ASSUME NEW left \in Nat, SleepFrom(left), UNCHANGED latest,
             UNCHANGED <<start_flag_, current_tick_count_, start_time_point_,
                         state_>>,
             last_loop + left = Now + Dt, Now <= latest, left <= Dt
      PROVE  ClockInv'
  <2>1. /\ tpc' = "sleep"
        /\ last_loop' + real_dt' = last_loop + left
        /\ real_dt' > 0 => Dt > MaxSleepDt /\ real_dt' <= Dt - MaxSleepDt
    <3>1. CASE left > MaxSleepDt
      <4>1. tpc' = "sleep" /\ last_loop' = last_loop + MaxSleepDt
            /\ real_dt' = left - MaxSleepDt
        BY <1>4, <3>1 DEF SleepFrom
      <4> QED
        BY <1>1, <1>4, <3>1, <4>1, SMT
    <3>2. CASE ~ (left > MaxSleepDt)
      <4>1. tpc' = "sleep" /\ last_loop' = last_loop + left
            /\ real_dt' = left - left
        BY <1>4, <3>2 DEF SleepFrom
      <4> QED
        BY <1>1, <1>4, <4>1, SMT
    <3> QED
      BY <3>1, <3>2
  <2>2. Now' = Now
    BY <1>2, <1>4
  <2> QED
    BY <1>4, <2>1, <2>2 DEF ClockInv
<1>5. ASSUME UNCHANGED <<state_, start_flag_, start_time_point_, latest,
                         last_loop, real_dt>>,
             tpc \in {"sleep", "tick", "run", "count"},
             last_loop + real_dt = Now + Dt, Now <= latest, last_loop <= latest,
             real_dt > 0 => state_ = "kShutdown",
             \/ UNCHANGED current_tick_count_ /\ tpc' \in {"tick", "run", "count"}
             \/ /\ current_tick_count_' = current_tick_count_ + 1
                /\ tpc' = "loop"
      PROVE  ClockInv'
  <2>1. real_dt > 0 => Dt > MaxSleepDt /\ real_dt <= Dt - MaxSleepDt
    BY DEF ClockInv
  <2>2. CASE UNCHANGED current_tick_count_ /\ tpc' \in {"tick", "run", "count"}
    <3>1. Now' = Now
      BY <1>2, <1>5, <2>2
    <3> QED
      BY <1>5, <2>1, <2>2, <3>1 DEF ClockInv
  <2>3. CASE current_tick_count_' = current_tick_count_ + 1 /\ tpc' = "loop"
    <3>1. Now' = Now + Dt
      BY <1>2, <1>5, <2>3
    <3> QED
      BY <1>5, <2>1, <2>3, <3>1 DEF ClockInv
  <2> QED
    BY <1>5, <2>2, <2>3
<1>6. CASE TimerLoop
  <2>1. CASE state_ = "kShutdown"
    BY <1>2, <1>6, <2>1 DEF TimerLoop, ClockInv
  <2>2. CASE state_ # "kShutdown"
    <3>1. tpc = "loop" /\ ~(real_dt > 0)
      BY <1>6, <2>2 DEF TimerLoop, ClockInv
    <3>2. last_loop + real_dt = Now /\ last_loop <= latest
      BY <3>1 DEF ClockInv
    <3>3. last_loop + Dt = Now + Dt /\ Now <= latest /\ Dt \in Nat /\ Dt <= Dt
      BY <1>1, <1>2, <3>1, <3>2, SMT
    <3>4. SleepFrom(Dt)
      BY <1>6, <2>2 DEF TimerLoop
    <3>5. UNCHANGED <<start_flag_, current_tick_count_, start_time_point_,
                      state_, latest>>
      BY <1>6 DEF TimerLoop
    <3> QED
      BY <1>4, <3>3, <3>4, <3>5
  <2> QED
    BY <2>1, <2>2
<1>7. CASE TimerWakes
  <2>1. /\ tpc = "sleep" /\ now >= last_loop
        /\ UNCHANGED <<start_flag_, current_tick_count_, start_time_point_,
                       state_, latest>>
    BY <1>7 DEF TimerWakes
  <2>2. /\ last_loop + real_dt = Now + Dt /\ Now <= latest
        /\ real_dt > 0 => Dt > MaxSleepDt /\ real_dt <= Dt - MaxSleepDt
    BY <2>1 DEF ClockInv
  <2>3. last_loop <= latest
    BY <1>1, <2>1, SMT
  <2>4. CASE SleepsOn
    <3>1. SleepFrom(real_dt)
      BY <1>7, <2>4 DEF TimerWakes
    <3>2. real_dt \in Nat /\ real_dt <= Dt
      BY <1>1, <2>2, SMT
    <3> QED
      BY <1>4, <2>1, <2>2, <3>1, <3>2
  <2>5. CASE ~SleepsOn
    <3>1. tpc' = "tick" /\ UNCHANGED <<last_loop, real_dt>>
      BY <1>7, <2>5 DEF TimerWakes
    <3>2. real_dt > 0 => state_ = "kShutdown"
      BY <2>5 DEF SleepsOn
    <3> QED
      BY <1>5, <2>1, <2>2, <2>3, <3>1, <3>2
  <2> QED
    BY <2>4, <2>5
<1>8. ASSUME tpc \in {"tick", "run", "count"}
      PROVE  /\ last_loop + real_dt = Now + Dt
             /\ Now <= latest /\ last_loop <= latest
             /\ real_dt > 0 => state_ = "kShutdown"
  BY <1>8 DEF ClockInv
<1>9. CASE TimerTick
  <2>1. /\ tpc = "tick" /\ UNCHANGED <<start_flag_, start_time_point_, state_,
                                       latest, last_loop, real_dt>>
        /\ \/ tpc' = "run" /\ UNCHANGED current_tick_count_
           \/ /\ tpc' = "loop"
              /\ current_tick_count_' = current_tick_count_ + 1
    BY <1>9 DEF TimerTick
  <2> QED
    BY <1>5, <1>8, <2>1
<1>10. CASE TimerTickNoWheels
  <2>1. tpc = "tick" /\ tpc' = "tick"
        /\ UNCHANGED <<start_flag_, start_time_point_, state_, latest,
                       last_loop, real_dt, current_tick_count_>>
    BY <1>10 DEF TimerTickNoWheels
  <2> QED
    BY <1>5, <1>8, <2>1
<1>11. CASE TaskEnds
  <2>1. /\ tpc = "run" /\ tpc' \in {"count", "run"}
        /\ UNCHANGED <<start_flag_, start_time_point_, state_, latest,
                       last_loop, real_dt, current_tick_count_>>
    BY <1>11 DEF TaskEnds
  <2> QED
    BY <1>5, <1>8, <2>1
<1>12. CASE TimerCounts
  <2>1. /\ tpc = "count" /\ tpc' = "loop"
        /\ UNCHANGED <<start_flag_, start_time_point_, state_, latest,
                       last_loop, real_dt>>
        /\ current_tick_count_' = current_tick_count_ + 1
    BY <1>12 DEF TimerCounts
  <2> QED
    BY <1>5, <1>8, <2>1
<1> QED
  BY <1>3, <1>6, <1>7, <1>9, <1>10, <1>11, <1>12 DEF TimerStep

LEMMA TimerScript ==
  ASSUME IInv, ScriptInv, TimerStep
  PROVE  ScriptInv'
<1> USE DEF ownerVars, startVars, wheelVars, sleepVars, clockVars, TimerAt
<1>1. /\ UNCHANGED <<state_, script, opc, joinable>>
      /\ tpc # "none" /\ tpc # "exited" /\ tpc' # "none"
      /\ tpc' = "exited" => state_ = "kShutdown"
      /\ timing_wheel_vec_' = timing_wheel_vec_
         \/ (timing_wheel_vec_ # <<>> /\ timing_wheel_vec_' # <<>>)
  <2>1. CASE TimerBegins
    BY <2>1 DEF TimerBegins
  <2>2. CASE TimerLoop
    BY <2>2 DEF TimerLoop, SleepFrom
  <2>3. CASE TimerWakes
    BY <2>3 DEF TimerWakes, SleepFrom
  <2>4. CASE TimerTick
    <3>1. timing_wheel_vec_' # <<>> /\ timing_wheel_vec_ # <<>>
      BY <2>4, TickOK, ShapeOK
    <3> QED
      BY <2>4, <3>1 DEF TimerTick
  <2>5. CASE TimerTickNoWheels
    BY <2>5 DEF TimerTickNoWheels
  <2>6. CASE TaskEnds
    BY <2>6 DEF TaskEnds
  <2>7. CASE TimerCounts
    BY <2>7 DEF TimerCounts
  <2> QED
    BY <2>1, <2>2, <2>3, <2>4, <2>5, <2>6, <2>7 DEF TimerStep
<1> QED
  BY <1>1 DEF ScriptInv

(* Users, the clock, and nothing at all.                                   *)
LEMMA OtherStep ==
  ASSUME Driven, IInv, ScriptInv, ClockInv,
         \/ \E k \in Tasks, tp \in Times, start \in StartsRead :
              ExecuteAt(k, tp, start)
         \/ TaskShutsDown \/ ClockAdvances \/ ClockSetBack
         \/ UNCHANGED vars
  PROVE  ScriptInv' /\ ClockInv'
<1> USE DEF ownerVars, startVars, wheelVars, sleepVars, clockVars
<1>1. ~TaskShutsDown
  BY DEF TaskShutsDown, Driven
<1>2. {now, latest, last_loop, real_dt, current_tick_count_,
       start_time_point_, Dt} \subseteq Nat
  BY OptionsAssumption DEF IInv, TypeOK
<1>3. ASSUME UNCHANGED <<state_, script, opc, joinable, tpc,
                         timing_task_map_pos_>>,
             timing_wheel_vec_' = <<>> <=> timing_wheel_vec_ = <<>>
      PROVE  ScriptInv'
  BY <1>3 DEF ScriptInv
<1>4. ASSUME UNCHANGED <<state_, tpc, start_flag_, start_time_point_,
                         current_tick_count_, last_loop, real_dt>>,
             latest' \in Nat /\ latest' >= latest
      PROVE  ClockInv'
  <2>1. Now' = Now /\ Now \in Nat
    BY <1>2, <1>4, OneTickLater DEF Now
  <2>2. /\ Now <= latest => Now <= latest'
        /\ last_loop <= latest => last_loop <= latest'
    BY <1>2, <1>4, <2>1, SMT
  <2> QED
    BY <1>4, <2>1, <2>2 DEF ClockInv
<1>5. latest <= latest
  BY <1>2, SMT
<1>6. ASSUME NEW k \in Tasks, NEW tp \in Times, NEW start \in StartsRead,
             ExecuteAt(k, tp, start)
      PROVE  ScriptInv' /\ ClockInv'
  <2>1. timing_wheel_vec_' = <<>> <=> timing_wheel_vec_ = <<>>
    <3>1. timing_wheel_vec_' # <<>> => timing_wheel_vec_ # <<>>
      BY <1>6, CallSlots
    <3>2. timing_wheel_vec_ # <<>> => timing_wheel_vec_' # <<>>
      <4> SUFFICES ASSUME timing_wheel_vec_ # <<>>,
                          ~ UNCHANGED timing_wheel_vec_
                   PROVE  timing_wheel_vec_' # <<>>
        OBVIOUS
      <4> DEFINE tick == VirtualTp(tp, start) \div Dt
                 slot(ii) == Slot(ii, tick - current_tick_count_)
                 e == [tick_count |-> tick, task |-> k]
      <4>1. PICK ii \in Levels :
              /\ e \in Entries
              /\ slot(ii) \in 0 .. WheelSize[ii] - 1
              /\ WellFormed(timing_wheel_vec_)
              /\ timing_wheel_vec_' =
                   [timing_wheel_vec_ EXCEPT ![ii].wheel[slot(ii)] =
                      Append(@, e)]
        BY <1>6, CallWheels
      <4> HIDE DEF slot, e
      <4> QED
        BY <4>1, PlaceOK, ShapeOK
    <3> QED
      BY <3>1, <3>2
  <2> QED
    BY <1>2, <1>3, <1>4, <1>5, <1>6, <2>1 DEF ExecuteAt
<1>7. CASE ClockAdvances
  <2>1. latest' \in Nat /\ latest' >= latest
    BY <1>2, <1>7, SMT DEF ClockAdvances
  <2> QED
    BY <1>3, <1>4, <1>7, <2>1 DEF ClockAdvances
<1>8. CASE ClockSetBack
  BY <1>2, <1>3, <1>4, <1>5, <1>8 DEF ClockSetBack
<1>9. CASE UNCHANGED vars
  BY <1>2, <1>3, <1>4, <1>5, <1>9 DEF vars
<1> QED
  BY <1>1, <1>6, <1>7, <1>8, <1>9

DInv == IInv /\ ScriptInv /\ ClockInv

LEMMA DrivenInvariance == ASSUME Driven PROVE Spec => []DInv
<1>1. Init => DInv
  BY InitOK, DrivenInit DEF DInv
<1>2. DInv /\ [Next]_vars => DInv'
  BY TypeStep, OwnerStep, TimerClock, TimerScript, OtherStep
  DEF DInv, Next, OwnerContinues
<1> QED
  BY <1>1, <1>2, PTL DEF Spec

(* NowNeverAhead: however late and in however many pieces the timer thread *)
(* sleeps, Now() does not run ahead of the clock, but for the one tick     *)
(* that a Shutdown cuts short: by what was left of its dt after the first  *)
(* piece at most (time_wheel_executor.cc:117-122, 177-193, 209).           *)
THEOREM NowNeverRunsAhead == ASSUME Driven PROVE Spec => []NowNeverAhead
<1>1. DInv => NowNeverAhead
  <2> SUFFICES ASSUME DInv, start_flag_ PROVE Now <= latest + CutOff
    BY DEF NowNeverAhead
  <2>1. real_dt <= CutOff \/ tpc = "sleep"
    <3>1. real_dt \in Nat /\ Dt \in Nat /\ MaxSleepDt \in Nat
      BY OptionsAssumption DEF DInv, IInv, TypeOK
    <3>2. CutOff \in Nat
      BY <3>1 DEF CutOff
    <3>3. CASE real_dt > 0 /\ tpc # "sleep"
      BY <3>1, <3>3 DEF DInv, ClockInv, CutOff
    <3>4. CASE ~ (real_dt > 0)
      BY <3>1, <3>2, <3>4
    <3> QED
      BY <3>1, <3>3, <3>4
  <2>2. /\ {last_loop, real_dt, latest, CutOff} \subseteq Nat
        /\ Now \in Nat
    <3>1. {last_loop, real_dt, latest, current_tick_count_,
           start_time_point_, Dt, MaxSleepDt} \subseteq Nat
      BY OptionsAssumption DEF DInv, IInv, TypeOK
    <3>2. CutOff \in Nat
      BY <3>1 DEF CutOff
    <3>3. Now \in Nat
      BY <3>1, OneTickLater DEF Now
    <3> QED
      BY <3>1, <3>2, <3>3
  <2>3. tpc \in {"loop", "sleep", "tick", "run", "count", "exited"}
    BY DEF DInv, IInv, TypeOK, ClockInv
  <2>4. CASE tpc \in {"loop", "exited"}
    <3>1. last_loop + real_dt = Now /\ last_loop <= latest
      BY <2>4 DEF DInv, ClockInv
    <3> QED
      BY <2>1, <2>2, <2>4, <3>1
  <2>5. CASE tpc \in {"sleep", "tick", "run", "count"}
    <3>1. Now <= latest
      BY <2>5 DEF DInv, ClockInv
    <3> QED
      BY <2>2, <3>1
  <2> QED
    BY <2>3, <2>4, <2>5
<1> QED
  BY <1>1, DrivenInvariance, PTL

(* NeverBeforeItsTime: a near task does not run before the system clock    *)
(* has shown the end of its tick, but for the one tick that a Shutdown     *)
(* cuts short: then by what was left of its dt after the first piece at    *)
(* most (time_wheel_executor.cc:177-193, 195-201).                         *)
THEOREM NearTasksWait == ASSUME Driven PROVE Spec => []NeverBeforeItsTime
<1>1. DInv /\ PlanInv => NeverBeforeItsTime
  <2> SUFFICES ASSUME DInv, PlanInv, tpc = "run",
                      NEW i \in DOMAIN task_list,
                      fate[task_list[i].task] = "near"
               PROVE  latest + CutOff
                        >= start_time_point_
                             + (task_list[i].tick_count + 1) * Dt
    BY DEF NeverBeforeItsTime
  <2> DEFINE c == current_tick_count_
             s == start_time_point_
  <2>1. task_list[i].tick_count = c
    BY DEF PlanInv, ListPlan, InListOK
  <2>2. last_loop + real_dt = Now + Dt /\ last_loop <= latest
    BY DEF DInv, ClockInv
  <2>3. /\ {last_loop, real_dt, CutOff} \subseteq Nat
        /\ c \in Nat /\ s \in Nat /\ Dt \in Nat /\ latest \in Nat
    BY OptionsAssumption DEF DInv, IInv, TypeOK, CutOff
  <2>4. real_dt <= CutOff
    BY <2>3 DEF DInv, ClockInv, CutOff
  <2>5. (c + 1) * Dt + s = Now + Dt
    BY <2>3, OneTickLater DEF Now
  <2> HIDE DEF c, s
  <2>6. (c + 1) * Dt \in Nat
    BY <2>3, SMT
  <2>7. latest + CutOff >= s + (c + 1) * Dt
    BY <2>2, <2>3, <2>4, <2>5, <2>6, SMT
  <2> QED
    BY <2>1, <2>7 DEF c, s
<1> QED
  BY <1>1, DrivenInvariance, PlanInvariance, PTL

-----------------------------------------------------------------------------
(* NeverCrashes: with one level, and users who stop when Shutdown is       *)
(* called, neither they nor tasks that go on calling while Shutdown waits  *)
(* for them, nor the timer thread, ever reach wheels that are gone or a    *)
(* slot that is not there (time_wheel_executor.cc:75, 102-108).            *)
THEOREM NothingCrashes ==
  ASSUME Driven, Last = 1, "kShutdown" \notin CallStates
  PROVE  Spec => []NeverCrashes
<1> USE DEF NeverCrashes, ownerVars, startVars, wheelVars, sleepVars,
            clockVars, OwnerCalls, OwnerAt, TimerAt
<1>1. Init => NeverCrashes
  BY DEF Init
<1>2. DInv /\ NeverCrashes /\ [Next]_vars => NeverCrashes'
  <2> SUFFICES ASSUME DInv, NeverCrashes, [Next]_vars PROVE NeverCrashes'
    OBVIOUS
  <2>1. CASE UNCHANGED vars
    BY <2>1 DEF vars
  <2>2. CASE Initialize \/ InitializeBadOptions \/ ShutdownExchange
    BY <2>2 DEF Initialize, InitializeBadOptions, ShutdownExchange
  <2>3. CASE Start
    <3>1. state_ = "kInit"
      BY <2>3, CallsInOrder DEF Start, DInv
    <3>2. ~joinable
      BY <3>1 DEF DInv, ScriptInv
    <3> QED
      BY <2>3, <3>2 DEF Start
  <2>4. CASE Destroy
    <3>1. ~joinable
      BY <2>4, CallsInOrder DEF Destroy, DInv
    <3> QED
      BY <2>4, <3>1 DEF Destroy
  <2>5. CASE OwnerContinues \/ TaskShutsDown
    BY <2>5 DEF OwnerContinues, StartReturns, ShutdownJoin, TaskShutsDown
  <2>6. ASSUME timing_wheel_vec_ = <<>>
        PROVE  tpc \in {"none", "exited"}
    BY <2>6 DEF DInv, IInv, TypeOK, PlaceInv, ScriptInv, State
  <2>7. ASSUME NEW k \in Tasks, NEW tp \in Times, NEW start \in StartsRead,
               ExecuteAt(k, tp, start)
        PROVE  NeverCrashes'
    <3>1. timing_wheel_vec_ # <<>>
      BY <2>6, <2>7 DEF ExecuteAt, MayCall, DInv, IInv, TypeOK, PlaceInv,
                        ScriptInv, State
    <3> QED
      BY <2>7, <3>1 DEF ExecuteAt
  <2>8. CASE TimerTick
    <3>1. ~OutOfWheel
      <4>1. WheelSize[1] \in Nat \ {0} /\ Scale[Last] = WheelSize[1]
        <5>1. /\ 1 \in Levels /\ WheelSize[1] \in Nat \ {0}
              /\ Scale[1] = Scale[1 - 1] * WheelSize[1] /\ Scale[1 - 1] = 1
          BY LevelsOK, ScaleOK
        <5> QED
          BY <5>1, SMT
      <4>2. ASSUME NEW i \in DOMAIN Borrowed
            PROVE  ~ (SlotOfBorrowed(Borrowed[i]) >= WheelSize[Last])
        <5>1. Borrowed \in Seq(Entries)
          BY BorrowedOK DEF DInv, IInv
        <5>2. Borrowed[i] \in Entries
          <6>1. Borrowed \in [1 .. Len(Borrowed) -> Entries]
            BY <5>1, LenProperties
          <6> QED
            BY <4>2, <6>1
        <5>3. Borrowed[i].tick_count \in Int
          BY <5>2 DEF Entries
        <5>4. Borrowed[i].tick_count % WheelSize[1] \in 0 .. WheelSize[1] - 1
          BY <4>1, <5>3, DivMod
        <5> QED
          BY <4>1, <5>4, SMT DEF SlotOfBorrowed
      <4> QED
        BY <4>2 DEF OutOfWheel
    <3> QED
      BY <2>8, <3>1 DEF TimerTick
  <2>9. ~TimerTickNoWheels
    BY <2>6 DEF TimerTickNoWheels
  <2>10. CASE TimerBegins \/ TimerLoop \/ TimerWakes \/ TaskEnds \/ TimerCounts
    BY <2>10 DEF TimerBegins, TimerLoop, TimerWakes, TaskEnds, TimerCounts
  <2>11. CASE ClockAdvances \/ ClockSetBack
    BY <2>11 DEF ClockAdvances, ClockSetBack
  <2> QED
    BY <2>1, <2>2, <2>3, <2>4, <2>5, <2>7, <2>8, <2>9, <2>10, <2>11
    DEF Next, TimerStep
<1> QED
  BY <1>1, <1>2, DrivenInvariance, PTL DEF Spec

-----------------------------------------------------------------------------
(* The thread as ExecutorLifecycle sees it.                                *)
ThreadSeen ==
  IF tpc = "none" THEN "none"
  ELSE IF ~joinable THEN "joined"
  ELSE IF tpc = "exited" THEN "exited"
  ELSE "running"

(* Every step is a call of the life cycle, the return of the thread, its   *)
(* join, or nothing to ExecutorManager.                                    *)
LEMMA LifecycleStep ==
  ASSUME Driven, DInv, [Next]_vars
  PROVE  [L!Next]_(L!vars)
<1> USE DEF ownerVars, startVars, wheelVars, sleepVars, clockVars, OwnerCalls,
            OwnerAt, TimerAt
<1>1. ASSUME UNCHANGED <<state_, ThreadSeen>> PROVE [L!Next]_(L!vars)
  BY <1>1 DEF L!vars, ThreadSeen
<1>2. ASSUME UNCHANGED <<state_, tpc, joinable>> PROVE [L!Next]_(L!vars)
  BY <1>1, <1>2 DEF ThreadSeen
<1>3. ASSUME UNCHANGED <<state_, joinable>>,
             tpc \notin {"none", "exited"}, tpc' \notin {"none", "exited"}
      PROVE  [L!Next]_(L!vars)
  BY <1>1, <1>3 DEF ThreadSeen
<1>4. CASE Initialize
  <2>1. state_ = "kPreInit"
    BY <1>4, CallsInOrder DEF Initialize, DInv
  <2>2. L!Initialize
    BY <1>4, <2>1 DEF Initialize, L!Initialize, L!MayLaunch
  <2> QED
    BY <2>2 DEF L!Next
<1>5. CASE InitializeBadOptions
  <2>1. L!Initialize
    BY <1>5 DEF InitializeBadOptions, L!Initialize, L!MayLaunch
  <2> QED
    BY <2>1 DEF L!Next
<1>6. CASE Start
  <2>1. state_ = "kInit"
    BY <1>6, CallsInOrder DEF Start, DInv
  <2>2. tpc = "none" /\ ~joinable
    BY <2>1 DEF DInv, ScriptInv
  <2>3. L!Start
    BY <1>6, <2>1, <2>2 DEF Start, L!Start, L!MayLaunch
  <2> QED
    BY <2>3 DEF L!Next
<1>7. CASE ShutdownExchange
  <2>1. state_ \in {"kInit", "kStart"}
    BY <1>7, CallsInOrder DEF ShutdownExchange, DInv
  <2>2. L!Shutdown
    BY <1>7, <2>1 DEF ShutdownExchange, L!Shutdown
  <2> QED
    BY <2>2 DEF L!Next
<1>8. CASE ShutdownJoin
  <2>1. state_ = "kShutdown"
    BY <1>8 DEF ShutdownJoin, DInv, IInv, TypeOK, ScriptInv, State
  <2>2. /\ tpc # "none" => joinable
        /\ tpc = "none" => ~joinable
    BY <1>8, <2>1 DEF ShutdownJoin, DInv, ScriptInv
  <2>3. CASE tpc = "none"
    BY <1>1, <1>8, <2>3 DEF ShutdownJoin, ThreadSeen
  <2>4. CASE tpc # "none"
    <3>1. joinable /\ tpc = "exited"
      BY <1>8, <2>2, <2>4 DEF ShutdownJoin, Joined
    <3>2. L!Join
      BY <1>8, <3>1 DEF ShutdownJoin, L!Join
    <3> QED
      BY <3>2 DEF L!Next
  <2> QED
    BY <2>3, <2>4
<1>9. CASE TimerLoop
  <2>1. CASE state_ = "kShutdown"
    <3>1. joinable
      BY <1>9 DEF TimerLoop, DInv, IInv, PlaceInv
    <3>2. L!Exit
      BY <1>9, <2>1, <3>1 DEF TimerLoop, L!Exit
    <3> QED
      BY <3>2 DEF L!Next
  <2>2. CASE state_ # "kShutdown"
    BY <1>3, <1>9, <2>2 DEF TimerLoop, SleepFrom
  <2> QED
    BY <2>1, <2>2
<1>10. CASE TimerBegins \/ TimerWakes \/ TimerTick \/ TaskEnds \/ TimerCounts
  <2>1. /\ UNCHANGED <<state_, joinable>>
        /\ tpc \notin {"none", "exited"} /\ tpc' \notin {"none", "exited"}
    BY <1>10 DEF TimerBegins, TimerWakes, SleepFrom, TimerTick, TaskEnds,
                 TimerCounts
  <2> QED
    BY <1>3, <2>1
<1>11. CASE \/ StartReturns \/ Destroy \/ TimerTickNoWheels
            \/ ClockAdvances \/ ClockSetBack \/ UNCHANGED vars
  BY <1>2, <1>11 DEF StartReturns, Destroy, TimerTickNoWheels, ClockAdvances,
                     ClockSetBack, vars
<1>12. ASSUME NEW k \in Tasks, NEW tp \in Times, NEW start \in StartsRead,
              ExecuteAt(k, tp, start)
       PROVE  [L!Next]_(L!vars)
  BY <1>2, <1>12 DEF ExecuteAt
<1>13. ~TaskShutsDown
  BY DEF TaskShutsDown, Driven
<1> QED
  BY <1>4, <1>5, <1>6, <1>7, <1>8, <1>9, <1>10, <1>11, <1>12, <1>13
  DEF Next, OwnerContinues, TimerStep

(* Driven in the order of ExecutorManager, the executor keeps to the life  *)
(* cycle that ExecutorManager counts on, except that its thread returns    *)
(* in the end (time_wheel_executor.cc:42-111, 175, 193).                   *)
THEOREM KeepsLifecycleSafely == ASSUME Driven PROVE Spec => L!SafeSpec
<1>1. Init => L!Init
  BY DEF Init, L!Init
<1>2. DInv /\ [Next]_vars => [L!Next]_(L!vars)
  BY LifecycleStep
<1> QED
  BY <1>1, <1>2, DrivenInvariance, PTL DEF Spec, L!SafeSpec
=============================================================================
