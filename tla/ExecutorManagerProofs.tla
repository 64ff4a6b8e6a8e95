------------------------ MODULE ExecutorManagerProofs ------------------------
(***************************************************************************)
(* What ExecutorManager keeps true whatever the configuration, as long as  *)
(* its calls come in the order of AdosCore; AdosCoreProofs shows that they *)
(* do and draws the conclusions.                                           *)
(***************************************************************************)
EXTENDS ExecutorManager, SequenceTheorems, TLAPS

ExecutorType ==
  [type : Types \ {"unknown"}, state : State, options : ThreadOptions,
   thread : Threads, attributes : Attributes]

Count == Len(used_executor_names_)

(* The i-th executor that was made.                                        *)
Made(i) == executor_map_[used_executor_names_[i]]

AllMade == WellPlaced /\ Count = Len(ToInitialize)

(* Shut down, and no thread left.                                          *)
Gone(x) == x.state = "kShutdown" /\ x.thread \in {"none", "joined"}

(* The executors are those of ToInitialize, in its order; two of them have *)
(* one name only if that was the end of the process.                       *)
NamesInv ==
  /\ DOMAIN executor_map_ =
       {used_executor_names_[i] : i \in DOMAIN used_executor_names_}
  /\ alive => \A i, j \in DOMAIN used_executor_names_ :
                i # j => used_executor_names_[i] # used_executor_names_[j]
  /\ used_executor_names_ # <<>> => WellPlaced
  /\ \A i \in DOMAIN used_executor_names_ :
       /\ i \in DOMAIN ToInitialize
       /\ used_executor_names_[i] = ToInitialize[i].name

(* Which thread goes with which state.                                     *)
KeepsThread(x) ==
  /\ x.state # "kPreInit"
  /\ x.type = "main_thread" => x.thread = "none"
  /\ x.type = "guard_thread" => x.thread # "none"
  /\ x.type = "time_wheel" /\ x.state = "kInit" => x.thread = "none"
  /\ x.type = "time_wheel" /\ x.state = "kStart" => x.thread # "none"
  /\ x.thread \in {"exited", "joined"} => x.state = "kShutdown"

ThreadsInv ==
  \A name \in DOMAIN executor_map_ : KeepsThread(executor_map_[name])

(* The main executor is the first; a thread has the attributes of the main *)
(* thread until it sets itself up, starting from them.                     *)
AttributesInv ==
  \A name \in DOMAIN executor_map_ :
    LET x == executor_map_[name]
    IN  /\ x.type = "main_thread" <=> name = used_executor_names_[1]
        /\ x.attributes =
             IF x.type = "main_thread"
             THEN SetUp(ProcessAttributes, name, x.options)
             ELSE IF x.thread \in {"none", "launched"} THEN MainAttributes
             ELSE SetUp(MainAttributes, name, x.options)

(* How far each call has come.                                             *)
Initializing ==
  /\ mpc \in {"idle", "init"}
  /\ \A i \in 1 .. Count : Made(i).state = "kInit"
  /\ mpc = "idle" => thrown \/ AllMade
  /\ mpc = "init" =>
       /\ WellPlaced
       /\ Count + Len(todo) = Len(ToInitialize)
       /\ \A i \in 1 .. Len(todo) : todo[i] = ToInitialize[Count + i]

ToStart == Count - Len(todo) + (IF mpc = "started" THEN 1 ELSE 0)

Starting ==
  /\ mpc \in {"idle", "start", "started"}
  /\ ~thrown
  /\ AllMade
  /\ mpc = "idle" => \A i \in 1 .. Count : Made(i).state = "kStart"
  /\ mpc # "idle" =>
       /\ Len(todo) <= Count
       /\ mpc = "started" => todo # <<>>
       /\ \A i \in 1 .. Len(todo) :
            todo[i] = used_executor_names_[Count - Len(todo) + i]
       /\ \A i \in 1 .. Count :
            Made(i).state = IF i <= ToStart THEN "kStart" ELSE "kInit"

ShuttingDown ==
  /\ mpc \in {"idle", "shutdown", "join"}
  /\ mpc = "idle" => \A i \in 1 .. Count : Gone(Made(i))
  /\ mpc # "idle" =>
       /\ Len(todo) <= Count
       /\ mpc = "join" => todo # <<>>
       /\ \A i \in 1 .. Len(todo) :
            todo[i] = used_executor_names_[Len(todo) + 1 - i]
       /\ \A i \in 1 .. Count :
            /\ i > Len(todo) => Gone(Made(i))
            /\ i < Len(todo) => Made(i).state # "kShutdown"
            /\ i = Len(todo) => (Made(i).state = "kShutdown" <=> mpc = "join")

CallInv ==
  /\ state_ = "kPreInit" =>
       mpc = "idle" /\ used_executor_names_ = <<>> /\ ~thrown
  /\ state_ = "kInit" => Initializing
  /\ state_ = "kStart" => Starting
  /\ state_ = "kShutdown" => ShuttingDown

ManagerInv ==
  ManagerTypeOK /\ NamesInv /\ ThreadsInv /\ AttributesInv /\ CallInv

-----------------------------------------------------------------------------
(* What the try block of a thread leaves of the attributes it started      *)
(* with.                                                                   *)
LEMMA SetUpType ==
  ASSUME NEW attrs \in Attributes, NEW name \in Names,
         NEW options \in ThreadOptions
  PROVE  /\ SetUp(attrs, name, options) \in Attributes
         /\ LET set == SetUp(attrs, name, options)
            IN  /\ \/ set.cpus = attrs.cpus
                   \/ set.cpus \subseteq options.cpus
                /\ set.sched \in {attrs.sched, options.sched, TimeSharing}
<1> DEFINE named == SetName(attrs, name)
           bound == BindCpu(named, options.cpus)
<1>1. /\ named \in Attributes
      /\ named.cpus = attrs.cpus /\ named.sched = attrs.sched
  BY NamesAssumption DEF SetName, Attributes
<1>2. /\ bound \in Attributes
      /\ bound.sched = attrs.sched
      /\ bound.cpus = attrs.cpus \/ bound.cpus \subseteq options.cpus
  BY <1>1 DEF BindCpu, Attributes
<1> HIDE DEF named, bound
<1>3. /\ SetSched(bound, options.sched) \in Attributes
      /\ SetSched(bound, options.sched).cpus = bound.cpus
      /\ SetSched(bound, options.sched).sched
           \in {attrs.sched, options.sched, TimeSharing}
  <2>1. /\ options.sched \in SchedOptions
        /\ TimeSharing \in SchedOptions
    <3>1. options.sched \in SchedOptions
      BY DEF ThreadOptions
    <3>2. TimeSharing \in SchedOptions
      BY DEF TimeSharing, SchedOptions
    <3> QED
      BY <3>1, <3>2
  <2>2. ASSUME NEW sched \in SchedOptions
        PROVE  LET set == [bound EXCEPT !.sched = sched]
               IN  /\ set \in Attributes
                   /\ set.cpus = bound.cpus
                   /\ set.sched = sched
    BY <1>2 DEF Attributes
  <2>3. SetSched(bound, options.sched)
          \in {bound, [bound EXCEPT !.sched = TimeSharing],
               [bound EXCEPT !.sched = options.sched]}
    BY DEF SetSched
  <2> QED
    BY <1>2, <2>1, <2>2, <2>3
<1>4. SetUp(attrs, name, options)
        \in {named, bound, SetSched(bound, options.sched)}
  BY DEF SetUp, named, bound
<1> QED
  BY <1>1, <1>2, <1>3, <1>4

LEMMA ProcessType == ProcessAttributes \in Attributes
BY SystemAssumption
DEF ProcessAttributes, Attributes, TimeSharing, SchedOptions

(* The entry that OrDefault finds, or makes up.                            *)
LEMMA OrDefaultType ==
  ASSUME executors_options \in Configs, NEW type \in Types, NEW name \in Names
  PROVE  /\ OrDefault(type, name) \in ExecutorOptions
         /\ OrDefault(type, name).type = type
<1>1. executors_options \in Seq(ExecutorOptions)
  BY ConfigAssumption
<1>2. \A e \in ToSet(executors_options) : e \in ExecutorOptions
  BY <1>1, ElementOfSeq, LenProperties DEF ToSet
<1>3. CASE \E e \in ToSet(executors_options) : e.type = type
  BY <1>2, <1>3 DEF OrDefault
<1>4. CASE ~ \E e \in ToSet(executors_options) : e.type = type
  BY <1>4 DEF OrDefault, ExecutorOptions, DefaultOptions, ThreadOptions,
              SchedOptions
<1> QED
  BY <1>3, <1>4

(* What is made from options that are in order: one main executor, one     *)
(* guard, then none of either.                                             *)
LEMMA ToInitializeShape ==
  ASSUME executors_options \in Configs, WellPlaced
  PROVE  /\ ToInitialize \in Seq(ExecutorOptions)
         /\ Len(ToInitialize) >= 2
         /\ ToInitialize[1].type = "main_thread"
         /\ ToInitialize[2].type = "guard_thread"
         /\ \A i \in 3 .. Len(ToInitialize) :
              ToInitialize[i].type \notin {"main_thread", "guard_thread"}
<1> DEFINE opts  == executors_options
           main  == OrDefault("main_thread", DefaultMain)
           guard == OrDefault("guard_thread", DefaultGuard)
           rest  == SubSeq(opts, InFront + 1, Len(opts))
<1>1. /\ opts \in Seq(ExecutorOptions)
      /\ Len(opts) \in Nat
      /\ DOMAIN opts = 1 .. Len(opts)
  BY ConfigAssumption, LenProperties
<1>2. /\ main \in ExecutorOptions /\ main.type = "main_thread"
      /\ guard \in ExecutorOptions /\ guard.type = "guard_thread"
  BY ConfigAssumption, OrDefaultType DEF Types
<1>3. /\ InFront \in 0 .. 2
      /\ \A idx \in DOMAIN opts :
           idx <= InFront <=> opts[idx].type \in {"main_thread", "guard_thread"}
  <2> DEFINE Is(n) ==
        \A idx \in DOMAIN opts :
          idx <= n <=> opts[idx].type \in {"main_thread", "guard_thread"}
  <2>1. \E n \in 0 .. 2 : Is(n)
    <3>1. CASE 1 \in DOMAIN opts /\ opts[1].type = "main_thread"
      <4>1. CASE 2 \in DOMAIN opts /\ opts[2].type = "guard_thread"
        <5>1. Is(2)
          BY <1>1, <3>1, <4>1 DEF WellPlaced
        <5> QED
          BY <5>1
      <4>2. CASE ~(2 \in DOMAIN opts /\ opts[2].type = "guard_thread")
        <5>1. Is(1)
          BY <1>1, <3>1, <4>2 DEF WellPlaced
        <5> QED
          BY <5>1
      <4> QED
        BY <4>1, <4>2
    <3>2. CASE 1 \in DOMAIN opts /\ opts[1].type = "guard_thread"
      <4>1. Is(1)
        BY <1>1, <3>2 DEF WellPlaced
      <4> QED
        BY <4>1
    <3>3. CASE 1 \in DOMAIN opts =>
                 opts[1].type \notin {"main_thread", "guard_thread"}
      <4>1. Is(0)
        BY <1>1, <3>3 DEF WellPlaced
      <4> QED
        BY <4>1
    <3> QED
      BY <3>1, <3>2, <3>3
  <2> HIDE DEF Is
  <2>2. InFront = CHOOSE n \in 0 .. 2 : Is(n)
    BY DEF InFront, Is
  <2>3. InFront \in 0 .. 2 /\ Is(InFront)
    BY <2>1, <2>2
  <2> QED
    BY <2>3 DEF Is
<1>4. /\ rest \in Seq(ExecutorOptions)
      /\ Len(rest) \in Nat
      /\ \A i \in 1 .. Len(rest) :
           rest[i].type \notin {"main_thread", "guard_thread"}
  <2>1. rest \in Seq(ExecutorOptions)
    BY <1>1, <1>3, SubSeqProperties
  <2>2. \A i \in 1 .. Len(rest) :
          /\ InFront + i \in DOMAIN opts
          /\ rest[i] = opts[InFront + i]
    BY <1>1, <1>3, SubSeqProperties
  <2> QED
    BY <1>3, <2>1, <2>2, LenProperties
<1> HIDE DEF main, guard, rest
<1>5. ToInitialize = <<main, guard>> \o rest
  BY DEF ToInitialize, main, guard, rest
<1>6. /\ <<main, guard>> \in Seq(ExecutorOptions)
      /\ Len(<<main, guard>>) = 2
      /\ <<main, guard>>[1] = main /\ <<main, guard>>[2] = guard
  BY <1>2
<1>7. /\ ToInitialize \in Seq(ExecutorOptions)
      /\ Len(ToInitialize) = 2 + Len(rest)
      /\ \A i \in 1 .. Len(ToInitialize) :
           ToInitialize[i] = IF i <= 2 THEN <<main, guard>>[i] ELSE rest[i - 2]
  BY <1>4, <1>5, <1>6, ConcatProperties
<1> QED
  BY <1>2, <1>4, <1>6, <1>7

(* Nothing changes the configuration, so what is to be made stays, too.    *)
LEMMA ToInitializeStays ==
  ASSUME UNCHANGED executors_options
  PROVE  UNCHANGED <<ToInitialize, WellPlaced>>
<1>1. UNCHANGED WellPlaced
  BY DEF WellPlaced
<1>2. UNCHANGED InFront
  BY DEF InFront
<1>3. UNCHANGED <<OrDefault("main_thread", DefaultMain),
                  OrDefault("guard_thread", DefaultGuard)>>
  BY DEF OrDefault
<1> QED
  BY <1>1, <1>2, <1>3 DEF ToInitialize

(* What a step that changes one executor has to show of it.                *)
LEMMA OneChanges ==
  ASSUME ManagerInv,
         NEW name \in DOMAIN executor_map_, NEW x \in ExecutorType,
         executor_map_' = [executor_map_ EXCEPT ![name] = x],
         UNCHANGED <<executors_options, used_executor_names_, alive>>,
         x.type = executor_map_[name].type,
         x.options = executor_map_[name].options,
         KeepsThread(x),
         x.attributes =
           IF x.type = "main_thread" THEN executor_map_[name].attributes
           ELSE IF x.thread \in {"none", "launched"} THEN MainAttributes
           ELSE SetUp(MainAttributes, name, x.options)
  PROVE  /\ DOMAIN executor_map_' = DOMAIN executor_map_
         /\ \A n \in DOMAIN executor_map_ :
              executor_map_'[n] = IF n = name THEN x ELSE executor_map_[n]
         /\ NamesInv' /\ ThreadsInv' /\ AttributesInv'
         /\ \A n \in DOMAIN executor_map_' : executor_map_'[n] \in ExecutorType
<1> USE DEF ManagerInv
<1>1. /\ DOMAIN executor_map_' = DOMAIN executor_map_
      /\ \A n \in DOMAIN executor_map_ :
           executor_map_'[n] = IF n = name THEN x ELSE executor_map_[n]
  OBVIOUS
<1>2. NamesInv'
  BY <1>1, ToInitializeStays DEF NamesInv
<1>3. ThreadsInv'
  BY <1>1 DEF ThreadsInv
<1>4. UNCHANGED MainAttributes
  <2>1. used_executor_names_ # <<>>
    BY DEF NamesInv
  <2>2. used_executor_names_[1] \in DOMAIN executor_map_
    BY <2>1, LenProperties DEF NamesInv, ManagerTypeOK
  <2>3. executor_map_'[used_executor_names_[1]].attributes
          = executor_map_[used_executor_names_[1]].attributes
    BY <1>1, <2>2 DEF AttributesInv
  <2> QED
    BY <2>1, <2>3 DEF MainAttributes
<1>5. AttributesInv'
  BY <1>1, <1>4 DEF AttributesInv
<1>6. \A n \in DOMAIN executor_map_' : executor_map_'[n] \in ExecutorType
  BY <1>1 DEF ManagerTypeOK, ExecutorType
<1> QED
  BY <1>1, <1>2, <1>3, <1>5, <1>6

-----------------------------------------------------------------------------
(* The calls, one lemma per step.                                          *)

(* In which state each place of the manager is reached.                    *)
LEMMA CallState ==
  ASSUME ManagerInv
  PROVE  /\ mpc = "init" => state_ = "kInit"
         /\ mpc \in {"start", "started"} => state_ = "kStart"
         /\ mpc \in {"shutdown", "join"} => state_ = "kShutdown"
BY DEF ManagerInv, ManagerTypeOK, State, CallInv, Initializing, Starting,
       ShuttingDown

LEMMA ManagerInitInv == ManagerInit => ManagerInv
<1> SUFFICES ASSUME ManagerInit PROVE ManagerInv
  OBVIOUS
<1>1. /\ DOMAIN executor_map_ = {}
      /\ used_executor_names_ = <<>>
      /\ DOMAIN used_executor_names_ = {}
      /\ used_executor_names_ \in Seq(Names)
  BY EmptySeq DEF ManagerInit
<1>2. ManagerTypeOK
  BY <1>1 DEF ManagerInit, ManagerTypeOK, State
<1> QED
  BY <1>1, <1>2 DEF ManagerInit, ManagerInv, NamesInv, ThreadsInv,
                    AttributesInv, CallInv

LEMMA InitializeBeginsInv == ManagerInv /\ InitializeBegins => ManagerInv'
<1> SUFFICES ASSUME ManagerInv, InitializeBegins PROVE ManagerInv'
  OBVIOUS
<1> USE DEF ManagerInv, InitializeBegins
<1>1. /\ used_executor_names_ = <<>>
      /\ ~thrown
      /\ Count = 0
  BY DEF CallInv, Count
<1>2. UNCHANGED <<ToInitialize, WellPlaced>>
  BY ToInitializeStays
<1>3. ToInitialize \in Seq(ExecutorOptions) /\ Len(ToInitialize) \in Nat
  BY ToInitializeShape, LenProperties DEF ManagerTypeOK
<1>4. ManagerTypeOK'
  BY <1>3 DEF ManagerTypeOK, State
<1>5. NamesInv' /\ ThreadsInv' /\ AttributesInv'
  BY <1>1, <1>2 DEF NamesInv, ThreadsInv, AttributesInv, MainAttributes
<1>6. CallInv'
  BY <1>1, <1>2, <1>3 DEF CallInv, Initializing, Count
<1> QED
  BY <1>4, <1>5, <1>6

LEMMA InitializeThrowsInv ==
  ManagerInv /\ state_ = "kPreInit" /\ InitializeThrows => ManagerInv'
<1> SUFFICES ASSUME ManagerInv, state_ = "kPreInit", InitializeThrows
             PROVE  ManagerInv'
  OBVIOUS
<1> USE DEF ManagerInv, InitializeThrows, Throw
<1>1. used_executor_names_ = <<>> /\ Count = 0
  BY DEF CallInv, Count
<1>2. ManagerTypeOK'
  BY DEF ManagerTypeOK, State
<1>3. NamesInv' /\ ThreadsInv' /\ AttributesInv'
  BY <1>1, ToInitializeStays
  DEF NamesInv, ThreadsInv, AttributesInv, MainAttributes
<1>4. CallInv'
  BY <1>1 DEF CallInv, Initializing, Count
<1> QED
  BY <1>2, <1>3, <1>4

(* A step that leaves the executors alone.                                 *)
LEMMA ExecutorsStay ==
  ASSUME ManagerInv, UNCHANGED <<executors_options, used_executor_names_,
                                 executor_map_>>,
         alive' => alive
  PROVE  /\ NamesInv' /\ ThreadsInv' /\ AttributesInv'
         /\ UNCHANGED <<ToInitialize, WellPlaced, Count, AllMade>>
         /\ \A i : UNCHANGED Made(i)
<1>1. UNCHANGED <<ToInitialize, WellPlaced>>
  BY ToInitializeStays
<1>2. NamesInv'
  BY <1>1 DEF ManagerInv, NamesInv
<1>3. ThreadsInv'
  BY DEF ManagerInv, ThreadsInv
<1>4. AttributesInv'
  <2>1. UNCHANGED MainAttributes
    BY DEF MainAttributes
  <2> QED
    BY <2>1 DEF ManagerInv, AttributesInv
<1> QED
  BY <1>1, <1>2, <1>3, <1>4 DEF Count, AllMade, Made

(* Steps that only move the manager on.                                    *)
LEMMA ReturnsInv ==
  ManagerInv /\ (InitializeReturns \/ StartReturns \/ ShutdownReturns)
    => ManagerInv'
<1> SUFFICES ASSUME ManagerInv,
                    InitializeReturns \/ StartReturns \/ ShutdownReturns
             PROVE  ManagerInv'
  OBVIOUS
<1> USE DEF ManagerInv, InitializeReturns, StartReturns, ShutdownReturns,
            Return, ManagerAt
<1>1. /\ NamesInv' /\ ThreadsInv' /\ AttributesInv'
      /\ UNCHANGED <<ToInitialize, WellPlaced, Count, AllMade>>
      /\ \A i : UNCHANGED Made(i)
  BY ExecutorsStay
<1>2. ManagerTypeOK'
  BY DEF ManagerTypeOK
<1>3. Len(todo) = 0 /\ Count \in Nat /\ mpc' = "idle"
  BY LenProperties DEF ManagerTypeOK, Count
<1>6. CASE InitializeReturns
  <2>1. AllMade
    BY <1>3, <1>6, CallState DEF CallInv, Initializing, AllMade
  <2> QED
    BY <1>1, <1>2, <1>3, <1>6, <2>1, CallState
    DEF CallInv, Initializing
<1>7. CASE StartReturns
  <2>1. \A i \in 1 .. Count : Made(i).state = "kStart"
    BY <1>3, <1>7, CallState DEF CallInv, Starting, ToStart
  <2> QED
    BY <1>1, <1>2, <1>3, <1>7, <2>1, CallState
    DEF CallInv, Starting
<1>8. CASE ShutdownReturns
  <2>1. \A i \in 1 .. Count : Gone(Made(i))
    BY <1>3, <1>8, CallState DEF CallInv, ShuttingDown
  <2>2. \A i \in 1 .. Count : Gone(Made(i))'
    BY <1>1, <2>1 DEF Gone
  <2> QED
    BY <1>1, <1>2, <1>3, <1>8, <2>2, CallState
    DEF CallInv, ShuttingDown
<1> QED
  BY <1>6, <1>7, <1>8

(* The process dies, or nothing happens.                                   *)
LEMMA DiesInv ==
  ASSUME ManagerInv,
         UNCHANGED <<executors_options, state_, used_executor_names_,
                     executor_map_, mpc, todo, thrown>>,
         alive' \in BOOLEAN, alive' => alive
  PROVE  ManagerInv'
<1>1. /\ NamesInv' /\ ThreadsInv' /\ AttributesInv'
      /\ UNCHANGED <<ToInitialize, WellPlaced, Count, AllMade>>
      /\ \A i : UNCHANGED Made(i)
  BY ExecutorsStay
<1>2. ManagerTypeOK'
  BY DEF ManagerInv, ManagerTypeOK
<1>3. CallInv'
  BY <1>1 DEF ManagerInv, CallInv, Initializing, Starting, ShuttingDown,
              ToStart, Gone
<1> QED
  BY <1>1, <1>2, <1>3 DEF ManagerInv

LEMMA StartBeginsInv ==
  ManagerInv /\ state_ = "kInit" /\ ~thrown /\ StartBegins => ManagerInv'
<1> SUFFICES ASSUME ManagerInv, state_ = "kInit", ~thrown, StartBegins
             PROVE  ManagerInv'
  OBVIOUS
<1> USE DEF ManagerInv, StartBegins, ManagerAt
<1>1. /\ NamesInv' /\ ThreadsInv' /\ AttributesInv'
      /\ UNCHANGED <<ToInitialize, WellPlaced, Count, AllMade>>
      /\ \A i : UNCHANGED Made(i)
  BY ExecutorsStay
<1>2. ManagerTypeOK'
  BY DEF ManagerTypeOK, State
<1>3. Count \in Nat /\ AllMade /\ \A i \in 1 .. Count : Made(i).state = "kInit"
  BY LenProperties DEF CallInv, Initializing, ManagerTypeOK, Count
<1>4. /\ mpc' = "start" /\ todo' = used_executor_names_ /\ ~thrown'
      /\ Len(todo') = Count /\ Len(todo)' = Count
  BY DEF Count
<1>5. ToStart' = 0
  BY <1>1, <1>3, <1>4 DEF ToStart
<1>6. \A i \in 1 .. Count : todo'[i] = used_executor_names_'[Count' - Len(todo)' + i]
  BY <1>1, <1>3, <1>4
<1>7. Starting'
  BY <1>1, <1>3, <1>4, <1>5, <1>6 DEF Starting
<1> QED
  BY <1>1, <1>2, <1>7 DEF CallInv

LEMMA ShutdownBeginsInv ==
  ManagerInv /\ state_ # "kShutdown" /\ ShutdownBegins => ManagerInv'
<1> SUFFICES ASSUME ManagerInv, state_ # "kShutdown", ShutdownBegins
             PROVE  ManagerInv'
  OBVIOUS
<1> USE DEF ManagerInv, ShutdownBegins, ManagerAt
<1>1. /\ NamesInv' /\ ThreadsInv' /\ AttributesInv'
      /\ UNCHANGED <<ToInitialize, WellPlaced, Count, AllMade>>
      /\ \A i : UNCHANGED Made(i)
  BY ExecutorsStay
<1>2. used_executor_names_ \in Seq(Names) /\ Count \in Nat
  BY LenProperties DEF ManagerTypeOK, Count
<1>3. /\ ToShutDown \in Seq(Names) /\ Len(ToShutDown) = Count
      /\ \A i \in 1 .. Count :
           ToShutDown[i] = used_executor_names_[Count + 1 - i]
  <2>1. ToShutDown = [i \in 1 .. Count |-> used_executor_names_[Count - i + 1]]
    BY DEF ToShutDown, Reverse, Count
  <2>2. \A i \in 1 .. Count : used_executor_names_[Count - i + 1] \in Names
    BY <1>2, ElementOfSeq DEF Count
  <2> QED
    BY <1>2, <2>1, <2>2, IsASeq
<1>4. ManagerTypeOK'
  BY <1>3 DEF ManagerTypeOK, State
<1>5. \A i \in 1 .. Count : Made(i).state # "kShutdown"
  <2>1. state_ \in {"kPreInit", "kInit", "kStart"}
    BY DEF ManagerTypeOK, State
  <2> QED
    BY <1>2, <2>1 DEF CallInv, Initializing, Starting, Count
<1>6. mpc' = "shutdown" /\ todo' = ToShutDown /\ Len(todo)' = Count
  BY <1>3
<1>7. ShuttingDown'
  <2>1. Count' = Count /\ Len(todo)' = Count' /\ mpc' = "shutdown"
    BY <1>1, <1>6
  <2>2. \A i \in 1 .. Count' :
          todo'[i] = used_executor_names_'[Count' + 1 - i]
    BY <1>1, <1>3, <1>6
  <2>3. \A i \in 1 .. Count' : Made(i)'.state # "kShutdown"
    BY <1>1, <1>5
  <2> QED
    BY <1>2, <2>1, <2>2, <2>3 DEF ShuttingDown
<1> QED
  BY <1>1, <1>4, <1>7 DEF CallInv

LEMMA StartedNextInv == ManagerInv /\ StartedNext => ManagerInv'
<1> SUFFICES ASSUME ManagerInv, StartedNext PROVE ManagerInv'
  OBVIOUS
<1> USE DEF ManagerInv, StartedNext, ManagerAt
<1>1. /\ NamesInv' /\ ThreadsInv' /\ AttributesInv'
      /\ UNCHANGED <<ToInitialize, WellPlaced, Count, AllMade>>
      /\ \A i : UNCHANGED Made(i)
  BY ExecutorsStay
<1>2. state_ = "kStart" /\ Starting
  BY CallState DEF CallInv
<1>3. todo \in Seq(Names) /\ todo # <<>> /\ Count \in Nat /\ Len(todo) <= Count
  BY <1>2, LenProperties DEF Starting, ManagerTypeOK, Count
<1>4. /\ Tail(todo) \in Seq(Names)
      /\ Len(todo) \in Nat
      /\ Len(Tail(todo)) = Len(todo) - 1
      /\ \A i \in 1 .. Len(todo) - 1 : Tail(todo)[i] = todo[i + 1]
  BY <1>3, HeadTailProperties, LenProperties
<1>5. ManagerTypeOK'
  BY <1>4 DEF ManagerTypeOK
<1>6. ToStart' = ToStart
  BY <1>1, <1>3, <1>4 DEF ToStart
<1>7. \A i \in 1 .. Len(todo)' :
        todo'[i] = used_executor_names_'[Count' - Len(todo)' + i]
  BY <1>1, <1>2, <1>3, <1>4 DEF Starting
<1>8. Starting'
  BY <1>1, <1>2, <1>3, <1>4, <1>6, <1>7 DEF Starting
<1> QED
  BY <1>1, <1>2, <1>5, <1>8 DEF CallInv

(* The executors by the order in which they were made.                     *)
LEMMA MadeType ==
  ASSUME ManagerInv
  PROVE  /\ Count \in Nat
         /\ DOMAIN used_executor_names_ = 1 .. Count
         /\ \A i \in 1 .. Count :
              /\ used_executor_names_[i] \in Names
              /\ used_executor_names_[i] \in DOMAIN executor_map_
              /\ Made(i) \in ExecutorType
              /\ KeepsThread(Made(i))
         /\ \A name \in DOMAIN executor_map_ :
              \E i \in 1 .. Count : name = used_executor_names_[i]
<1>1. used_executor_names_ \in Seq(Names)
  BY DEF ManagerInv, ManagerTypeOK
<1>2. Count \in Nat /\ DOMAIN used_executor_names_ = 1 .. Count
  BY <1>1, LenProperties DEF Count
<1>3. \A i \in 1 .. Count : used_executor_names_[i] \in Names
  BY <1>1, ElementOfSeq DEF Count
<1> QED
  BY <1>2, <1>3
  DEF ManagerInv, NamesInv, ThreadsInv, ManagerTypeOK, Made, ExecutorType

LEMMA MadeChanges ==
  ASSUME ManagerInv, alive, NEW k \in 1 .. Count,
         UNCHANGED used_executor_names_,
         \A n \in DOMAIN executor_map_ \ {used_executor_names_[k]} :
           executor_map_'[n] = executor_map_[n]
  PROVE  /\ Count' = Count
         /\ Made(k)' = executor_map_'[used_executor_names_[k]]
         /\ \A i \in 1 .. Count \ {k} : Made(i)' = Made(i)
<1>1. \A i \in 1 .. Count : used_executor_names_[i] = used_executor_names_[k] => i = k
  BY MadeType DEF ManagerInv, NamesInv
<1> QED
  BY <1>1, MadeType DEF Made, Count

LEMMA StartNextInv == ManagerInv /\ StartNext => ManagerInv'
<1> SUFFICES ASSUME ManagerInv, StartNext PROVE ManagerInv'
  OBVIOUS
<1>1. /\ state_ = "kStart" /\ Starting /\ mpc = "start" /\ alive
      /\ todo \in Seq(Names) /\ todo # <<>>
      /\ Len(todo) \in Nat \ {0} /\ Len(todo) <= Count /\ Count \in Nat
  BY CallState, MadeType, LenProperties, EmptySeq
  DEF ManagerInv, ManagerTypeOK, CallInv, StartNext, ManagerAt, Starting
<1>2. PICK k \in 1 .. Count : k = Count - Len(todo) + 1
  BY <1>1
<1> DEFINE name == used_executor_names_[k]
           x    == [executor_map_[name] EXCEPT
                      !.state  = "kStart",
                      !.thread = IF executor_map_[name].type = "time_wheel"
                                 THEN "launched" ELSE @]
<1>3. Head(todo) = name /\ ToStart = k - 1
  BY <1>1, <1>2 DEF Starting, ToStart
<1>4. /\ name \in DOMAIN executor_map_
      /\ executor_map_[name] \in ExecutorType
      /\ KeepsThread(executor_map_[name])
      /\ executor_map_[name].state = "kInit"
  <2> HIDE DEF x
  <2>1. Made(k).state = "kInit"
    BY <1>1, <1>3 DEF Starting
  <2> QED
    BY <1>2, <2>1, MadeType DEF Made
<1> HIDE DEF name
<1>5. executor_map_' = [executor_map_ EXCEPT ![name] = x]
  BY <1>3, <1>4 DEF StartNext, ExecutorType
<1>6. /\ x \in ExecutorType
      /\ x.type = executor_map_[name].type
      /\ x.options = executor_map_[name].options
      /\ x.attributes = executor_map_[name].attributes
      /\ x.state = "kStart"
      /\ x.thread = IF executor_map_[name].type = "time_wheel" THEN "launched"
                    ELSE executor_map_[name].thread
  BY <1>4 DEF ExecutorType, State, Threads
<1> HIDE DEF x
<1>7. KeepsThread(x)
  BY <1>4, <1>6 DEF KeepsThread, ExecutorType, Types
<1>8. x.attributes =
        IF x.type = "main_thread" THEN executor_map_[name].attributes
        ELSE IF x.thread \in {"none", "launched"} THEN MainAttributes
        ELSE SetUp(MainAttributes, name, x.options)
  BY <1>4, <1>6 DEF ManagerInv, AttributesInv, KeepsThread
<1>9. /\ DOMAIN executor_map_' = DOMAIN executor_map_
      /\ \A n \in DOMAIN executor_map_ :
           executor_map_'[n] = IF n = name THEN x ELSE executor_map_[n]
      /\ NamesInv' /\ ThreadsInv' /\ AttributesInv'
      /\ \A n \in DOMAIN executor_map_' : executor_map_'[n] \in ExecutorType
  BY <1>4, <1>5, <1>6, <1>7, <1>8, OneChanges DEF StartNext
<1>10. /\ Count' = Count
       /\ Made(k)' = x
       /\ \A i \in 1 .. Count \ {k} : Made(i)' = Made(i)
  <2>1. UNCHANGED used_executor_names_
    BY DEF StartNext
  <2>2. \A n \in DOMAIN executor_map_ \ {used_executor_names_[k]} :
          executor_map_'[n] = executor_map_[n]
    BY <1>9 DEF name
  <2>3. x = executor_map_'[used_executor_names_[k]]
    BY <1>4, <1>9 DEF name
  <2> QED
    BY <1>1, <1>2, <2>1, <2>2, <2>3, MadeChanges
<1>11. ManagerTypeOK'
  BY <1>1, <1>9 DEF ManagerInv, ManagerTypeOK, StartNext, ExecutorType
<1>12. Starting'
  <2>1. AllMade' /\ ~thrown' /\ UNCHANGED <<todo, used_executor_names_>>
        /\ mpc' = "started" /\ Len(todo') = Len(todo)
    BY <1>1, <1>10, ToInitializeStays DEF StartNext, Starting, AllMade
  <2>2. ToStart' = k
    BY <1>1, <1>2, <1>10, <2>1 DEF ToStart
  <2>3. \A i \in 1 .. Count :
          Made(i)'.state = IF i <= k THEN "kStart" ELSE "kInit"
    BY <1>1, <1>3, <1>6, <1>10 DEF Starting
  <2> QED
    BY <1>1, <1>10, <2>1, <2>2, <2>3 DEF Starting
<1> QED
  BY <1>1, <1>9, <1>11, <1>12 DEF ManagerInv, CallInv, StartNext

(* The executor at the head of what is still to be shut down.              *)
LEMMA ToShutDownNext ==
  ASSUME ManagerInv, mpc \in {"shutdown", "join"}, todo # <<>>
  PROVE  /\ state_ = "kShutdown" /\ ShuttingDown
         /\ todo \in Seq(Names)
         /\ \E k \in 1 .. Count :
              /\ k = Len(todo)
              /\ Head(todo) = used_executor_names_[k]
<1>1. /\ state_ = "kShutdown" /\ ShuttingDown
      /\ todo \in Seq(Names)
  BY CallState DEF ManagerInv, CallInv, ManagerTypeOK
<1>2. Len(todo) \in Nat \ {0} /\ Len(todo) <= Count /\ Count \in Nat
  BY <1>1, MadeType, LenProperties, EmptySeq DEF ShuttingDown
<1>3. todo[1] = used_executor_names_[Len(todo)]
  BY <1>1, <1>2 DEF ShuttingDown
<1> QED
  BY <1>1, <1>2, <1>3

LEMMA ShutdownNextInv == ManagerInv /\ ShutdownNext => ManagerInv'
<1> SUFFICES ASSUME ManagerInv, ShutdownNext PROVE ManagerInv'
  OBVIOUS
<1>1. /\ state_ = "kShutdown" /\ ShuttingDown /\ mpc = "shutdown" /\ alive
      /\ todo \in Seq(Names) /\ todo # <<>> /\ Count \in Nat
  BY ToShutDownNext, MadeType DEF ShutdownNext, ManagerAt
<1>2. PICK k \in 1 .. Count :
        k = Len(todo) /\ Head(todo) = used_executor_names_[k]
  BY <1>1, ToShutDownNext
<1> DEFINE name == used_executor_names_[k]
           x    == [executor_map_[name] EXCEPT !.state = "kShutdown"]
<1>3. /\ name \in DOMAIN executor_map_
      /\ executor_map_[name] \in ExecutorType
      /\ KeepsThread(executor_map_[name])
  BY MadeType DEF Made
<1> HIDE DEF name
<1>4. executor_map_' = [executor_map_ EXCEPT ![name] = x]
  BY <1>2, <1>3 DEF ShutdownNext, ExecutorType, name
<1>5. /\ x \in ExecutorType
      /\ x.type = executor_map_[name].type
      /\ x.options = executor_map_[name].options
      /\ x.attributes = executor_map_[name].attributes
      /\ x.state = "kShutdown"
      /\ x.thread = executor_map_[name].thread
  BY <1>3 DEF ExecutorType, State
<1> HIDE DEF x
<1>6. KeepsThread(x)
  BY <1>3, <1>5 DEF KeepsThread
<1>7. x.attributes =
        IF x.type = "main_thread" THEN executor_map_[name].attributes
        ELSE IF x.thread \in {"none", "launched"} THEN MainAttributes
        ELSE SetUp(MainAttributes, name, x.options)
  BY <1>3, <1>5 DEF ManagerInv, AttributesInv
<1>8. /\ DOMAIN executor_map_' = DOMAIN executor_map_
      /\ \A n \in DOMAIN executor_map_ :
           executor_map_'[n] = IF n = name THEN x ELSE executor_map_[n]
      /\ NamesInv' /\ ThreadsInv' /\ AttributesInv'
      /\ \A n \in DOMAIN executor_map_' : executor_map_'[n] \in ExecutorType
  BY <1>3, <1>4, <1>5, <1>6, <1>7, OneChanges DEF ShutdownNext
<1>9. /\ Count' = Count
      /\ Made(k)' = x
      /\ \A i \in 1 .. Count \ {k} : Made(i)' = Made(i)
  <2>1. UNCHANGED used_executor_names_
    BY DEF ShutdownNext
  <2>2. \A n \in DOMAIN executor_map_ \ {used_executor_names_[k]} :
          executor_map_'[n] = executor_map_[n]
    BY <1>8 DEF name
  <2>3. x = executor_map_'[used_executor_names_[k]]
    BY <1>3, <1>8 DEF name
  <2> QED
    BY <1>1, <2>1, <2>2, <2>3, MadeChanges
<1>10. ManagerTypeOK'
  BY <1>1, <1>8 DEF ManagerInv, ManagerTypeOK, ShutdownNext, ExecutorType
<1>11. ShuttingDown'
  <2>1. /\ UNCHANGED <<todo, used_executor_names_>>
        /\ mpc' = "join" /\ Len(todo)' = k
    BY <1>2 DEF ShutdownNext
  <2>2. \A i \in 1 .. Count :
          /\ i > k => Gone(Made(i))'
          /\ i < k => Made(i)'.state # "kShutdown"
          /\ i = k => Made(i)'.state = "kShutdown"
    BY <1>1, <1>2, <1>5, <1>9 DEF ShuttingDown, Gone
  <2>3. \A i \in 1 .. k : todo[i] = used_executor_names_[k + 1 - i]
    BY <1>1, <1>2 DEF ShuttingDown
  <2> QED
    BY <1>1, <1>9, <2>1, <2>2, <2>3 DEF ShuttingDown
<1> QED
  BY <1>1, <1>8, <1>10, <1>11 DEF ManagerInv, CallInv, ShutdownNext

LEMMA ShutdownJoinInv == ManagerInv /\ ShutdownJoin => ManagerInv'
<1> SUFFICES ASSUME ManagerInv, ShutdownJoin PROVE ManagerInv'
  OBVIOUS
<1>1. /\ mpc = "join" /\ alive /\ todo # <<>>
  BY CallState DEF ShutdownJoin, ManagerAt, ManagerInv, CallInv, ShuttingDown
<1>2. /\ state_ = "kShutdown" /\ ShuttingDown
      /\ todo \in Seq(Names) /\ Count \in Nat
  BY <1>1, ToShutDownNext, MadeType
<1>3. PICK k \in 1 .. Count :
        k = Len(todo) /\ Head(todo) = used_executor_names_[k]
  BY <1>1, ToShutDownNext
<1> DEFINE name == used_executor_names_[k]
           x    == [executor_map_[name] EXCEPT
                      !.thread = IF @ = "none" THEN @ ELSE "joined"]
<1>4. /\ name \in DOMAIN executor_map_
      /\ executor_map_[name] \in ExecutorType
      /\ KeepsThread(executor_map_[name])
      /\ executor_map_[name].state = "kShutdown"
      /\ executor_map_[name].thread \notin Alive
  BY <1>1, <1>2, <1>3, MadeType DEF Made, ShuttingDown, ShutdownJoin, Joins
<1> HIDE DEF name
<1>5. executor_map_' = [executor_map_ EXCEPT ![name] = x]
  BY <1>3, <1>4 DEF ShutdownJoin, ExecutorType, name
<1>6. /\ x \in ExecutorType
      /\ x.type = executor_map_[name].type
      /\ x.options = executor_map_[name].options
      /\ x.attributes = executor_map_[name].attributes
      /\ x.state = "kShutdown"
      /\ x.thread = IF executor_map_[name].thread = "none" THEN "none"
                    ELSE "joined"
  BY <1>4 DEF ExecutorType, Threads
<1> HIDE DEF x
<1>7. KeepsThread(x)
  BY <1>4, <1>6 DEF KeepsThread
<1>8. x.attributes =
        IF x.type = "main_thread" THEN executor_map_[name].attributes
        ELSE IF x.thread \in {"none", "launched"} THEN MainAttributes
        ELSE SetUp(MainAttributes, name, x.options)
  BY <1>4, <1>6 DEF ManagerInv, AttributesInv, Alive
<1>9. /\ DOMAIN executor_map_' = DOMAIN executor_map_
      /\ \A n \in DOMAIN executor_map_ :
           executor_map_'[n] = IF n = name THEN x ELSE executor_map_[n]
      /\ NamesInv' /\ ThreadsInv' /\ AttributesInv'
      /\ \A n \in DOMAIN executor_map_' : executor_map_'[n] \in ExecutorType
  BY <1>4, <1>5, <1>6, <1>7, <1>8, OneChanges DEF ShutdownJoin
<1>10. /\ Count' = Count
       /\ Made(k)' = x
       /\ \A i \in 1 .. Count \ {k} : Made(i)' = Made(i)
  <2>1. UNCHANGED used_executor_names_
    BY DEF ShutdownJoin
  <2>2. \A n \in DOMAIN executor_map_ \ {used_executor_names_[k]} :
          executor_map_'[n] = executor_map_[n]
    BY <1>9 DEF name
  <2>3. x = executor_map_'[used_executor_names_[k]]
    BY <1>4, <1>9 DEF name
  <2> QED
    BY <1>1, <2>1, <2>2, <2>3, MadeChanges
<1>11. /\ Tail(todo) \in Seq(Names)
       /\ Len(Tail(todo)) = k - 1
       /\ \A i \in 1 .. k - 1 : Tail(todo)[i] = todo[i + 1]
  BY <1>1, <1>2, <1>3, HeadTailProperties, LenProperties
<1>12. ManagerTypeOK'
  BY <1>9, <1>11 DEF ManagerInv, ManagerTypeOK, ShutdownJoin, ExecutorType
<1>13. ShuttingDown'
  <2>1. /\ UNCHANGED used_executor_names_
        /\ todo' = Tail(todo) /\ mpc' = "shutdown" /\ Len(todo)' = k - 1
    BY <1>11 DEF ShutdownJoin
  <2>2. \A i \in 1 .. Count :
          /\ i > k - 1 => Gone(Made(i))'
          /\ i <= k - 1 => Made(i)'.state # "kShutdown"
    BY <1>1, <1>2, <1>3, <1>6, <1>10 DEF ShuttingDown, Gone
  <2>3. \A i \in 1 .. k - 1 : todo'[i] = used_executor_names_'[k - i]
    BY <1>1, <1>2, <1>3, <1>11, <2>1 DEF ShuttingDown
  <2> QED
    BY <1>2, <1>10, <2>1, <2>2, <2>3 DEF ShuttingDown
<1> QED
  BY <1>2, <1>9, <1>12, <1>13 DEF ManagerInv, CallInv, ShutdownJoin

-----------------------------------------------------------------------------
(* The threads of the executors.                                           *)

(* A thread step leaves the states of the executors and those that are     *)
(* gone as they are.                                                       *)
LEMMA ThreadKeepsCall ==
  ASSUME ManagerInv, NEW name \in DOMAIN executor_map_, NEW x \in ExecutorType,
         executor_map_' = [executor_map_ EXCEPT ![name] = x],
         UNCHANGED <<executors_options, state_, used_executor_names_, mpc,
                     todo, thrown, alive>>,
         x.type = executor_map_[name].type,
         x.options = executor_map_[name].options,
         x.state = executor_map_[name].state,
         executor_map_[name].thread \in Alive,
         KeepsThread(x),
         x.attributes =
           IF x.type = "main_thread" THEN executor_map_[name].attributes
           ELSE IF x.thread \in {"none", "launched"} THEN MainAttributes
           ELSE SetUp(MainAttributes, name, x.options)
  PROVE  ManagerInv'
<1>1. /\ DOMAIN executor_map_' = DOMAIN executor_map_
      /\ \A n \in DOMAIN executor_map_ :
           executor_map_'[n] = IF n = name THEN x ELSE executor_map_[n]
      /\ NamesInv' /\ ThreadsInv' /\ AttributesInv'
      /\ \A n \in DOMAIN executor_map_' : executor_map_'[n] \in ExecutorType
  BY OneChanges
<1>2. ManagerTypeOK'
  BY <1>1 DEF ManagerInv, ManagerTypeOK, ExecutorType
<1>3. /\ UNCHANGED <<Count, ToStart, ToInitialize, WellPlaced, AllMade>>
      /\ Count \in Nat
  BY ToInitializeStays, MadeType DEF Count, ToStart, AllMade
<1>4. \A i \in 1 .. Count :
        /\ Made(i)'.state = Made(i).state
        /\ Gone(Made(i)) => Gone(Made(i))'
  BY <1>1, MadeType DEF Made, Gone, Alive
<1>5. Initializing => Initializing'
  BY <1>3, <1>4 DEF Initializing
<1>6. Starting => Starting'
  BY <1>3, <1>4 DEF Starting
<1>7. ShuttingDown => ShuttingDown'
  BY <1>3, <1>4 DEF ShuttingDown
<1>8. CallInv'
  BY <1>5, <1>6, <1>7 DEF ManagerInv, CallInv
<1> QED
  BY <1>1, <1>2, <1>8 DEF ManagerInv

LEMMA MainAttributesType == ManagerInv => MainAttributes \in Attributes
<1> SUFFICES ASSUME ManagerInv PROVE MainAttributes \in Attributes
  OBVIOUS
<1>1. CASE used_executor_names_ = <<>>
  BY <1>1, ProcessType DEF MainAttributes
<1>2. CASE used_executor_names_ # <<>>
  <2>1. Count # 0
    BY <1>2, EmptySeq DEF Count, ManagerInv, ManagerTypeOK
  <2>2. Made(1) \in ExecutorType
    BY <2>1, MadeType
  <2> QED
    BY <1>2, <2>2 DEF MainAttributes, Made, ExecutorType
<1> QED
  BY <1>1, <1>2

LEMMA ThreadSetsUpInv ==
  ASSUME ManagerInv, NEW name \in Names, ThreadSetsUp(name)
  PROVE  ManagerInv'
<1> DEFINE x == [executor_map_[name] EXCEPT
                   !.thread     = "running",
                   !.attributes = SetUp(@, name, executor_map_[name].options)]
<1>1. /\ name \in DOMAIN executor_map_
      /\ executor_map_[name] \in ExecutorType
      /\ KeepsThread(executor_map_[name])
      /\ executor_map_[name].thread = "launched"
  BY DEF ThreadSetsUp, ManagerInv, ManagerTypeOK, ThreadsInv, ExecutorType
<1>2. executor_map_' = [executor_map_ EXCEPT ![name] = x]
  BY <1>1 DEF ThreadSetsUp, ExecutorType
<1>3. /\ executor_map_[name].attributes = MainAttributes
      /\ executor_map_[name].type # "main_thread"
  BY <1>1 DEF KeepsThread, ManagerInv, AttributesInv
<1>4. SetUp(MainAttributes, name, executor_map_[name].options) \in Attributes
  BY <1>1, MainAttributesType, SetUpType DEF ExecutorType
<1>5. /\ x \in ExecutorType
      /\ x.type = executor_map_[name].type
      /\ x.options = executor_map_[name].options
      /\ x.state = executor_map_[name].state
      /\ x.thread = "running"
      /\ x.attributes =
           SetUp(MainAttributes, name, executor_map_[name].options)
  BY <1>1, <1>3, <1>4 DEF ExecutorType, Threads
<1> HIDE DEF x
<1>6. KeepsThread(x)
  BY <1>1, <1>3, <1>5 DEF KeepsThread
<1> QED
  BY <1>1, <1>2, <1>3, <1>5, <1>6, ThreadKeepsCall DEF ThreadSetsUp, Alive

LEMMA ThreadExitsInv ==
  ASSUME ManagerInv, NEW name \in Names, ThreadExits(name)
  PROVE  ManagerInv'
<1> DEFINE x == [executor_map_[name] EXCEPT !.thread = "exited"]
<1>1. /\ name \in DOMAIN executor_map_
      /\ executor_map_[name] \in ExecutorType
      /\ KeepsThread(executor_map_[name])
      /\ executor_map_[name].thread = "running"
      /\ executor_map_[name].state = "kShutdown"
  BY DEF ThreadExits, ManagerInv, ManagerTypeOK, ThreadsInv, ExecutorType
<1>2. executor_map_' = [executor_map_ EXCEPT ![name] = x]
  BY <1>1 DEF ThreadExits, ExecutorType
<1>3. /\ x \in ExecutorType
      /\ x.type = executor_map_[name].type
      /\ x.options = executor_map_[name].options
      /\ x.state = executor_map_[name].state
      /\ x.thread = "exited"
      /\ x.attributes = executor_map_[name].attributes
  BY <1>1 DEF ExecutorType, Threads
<1> HIDE DEF x
<1>4. KeepsThread(x)
  BY <1>1, <1>3 DEF KeepsThread
<1>5. /\ x.type # "main_thread"
      /\ x.attributes = SetUp(MainAttributes, name, x.options)
  BY <1>1, <1>3 DEF KeepsThread, ManagerInv, AttributesInv
<1> QED
  BY <1>1, <1>2, <1>3, <1>4, <1>5, ThreadKeepsCall DEF ThreadExits, Alive

-----------------------------------------------------------------------------
(* InitializeNext, the step that makes an executor.                        *)

(* The entry it is about.                                                  *)
LEMMA NextToInitialize ==
  ASSUME ManagerInv, mpc = "init", todo # <<>>
  PROVE  /\ state_ = "kInit" /\ Initializing /\ WellPlaced
         /\ Count + 1 \in 1 .. Len(ToInitialize)
         /\ Head(todo) = ToInitialize[Count + 1]
         /\ Head(todo) \in ExecutorOptions
         /\ Head(todo).type = "main_thread" <=> Count = 0
         /\ todo \in Seq(ExecutorOptions)
         /\ Tail(todo) \in Seq(ExecutorOptions)
         /\ Len(todo) \in Nat
         /\ Len(Tail(todo)) = Len(todo) - 1
         /\ \A i \in 1 .. Len(todo) - 1 : Tail(todo)[i] = todo[i + 1]
<1>1. state_ = "kInit" /\ Initializing /\ WellPlaced
  BY CallState DEF ManagerInv, CallInv, Initializing
<1>2. todo \in Seq(ExecutorOptions)
  BY DEF ManagerInv, ManagerTypeOK
<1>3. /\ Len(todo) \in Nat \ {0}
      /\ Head(todo) = todo[1] /\ Head(todo) \in ExecutorOptions
      /\ Tail(todo) \in Seq(ExecutorOptions)
      /\ Len(Tail(todo)) = Len(todo) - 1
      /\ \A i \in 1 .. Len(todo) - 1 : Tail(todo)[i] = todo[i + 1]
  BY <1>2, HeadTailProperties, LenProperties, EmptySeq
<1>4. /\ ToInitialize[1].type = "main_thread"
      /\ ToInitialize[2].type = "guard_thread"
      /\ \A i \in 3 .. Len(ToInitialize) :
           ToInitialize[i].type \notin {"main_thread", "guard_thread"}
      /\ Len(ToInitialize) \in Nat
  BY <1>1, ToInitializeShape, LenProperties DEF ManagerInv, ManagerTypeOK
<1>5. /\ Count + 1 \in 1 .. Len(ToInitialize)
      /\ Head(todo) = ToInitialize[Count + 1]
      /\ Count \in Nat
  BY <1>1, <1>3, <1>4, MadeType DEF Initializing
<1>6. Head(todo).type = "main_thread" <=> Count = 0
  BY <1>4, <1>5
<1> QED
  BY <1>1, <1>2, <1>3, <1>5, <1>6

LEMMA FreshType ==
  ASSUME ManagerInv, NEW e \in ExecutorOptions, e.type # "unknown"
  PROVE  /\ Fresh(e) \in ExecutorType
         /\ Fresh(e).type = e.type
         /\ Fresh(e).state = "kInit"
         /\ Fresh(e).options = e.options
         /\ Fresh(e).thread = IF e.type = "guard_thread" THEN "launched"
                              ELSE "none"
         /\ Fresh(e).attributes = IF e.type = "main_thread"
                                  THEN SetUp(MainAttributes, e.name, e.options)
                                  ELSE MainAttributes
         /\ KeepsThread(Fresh(e))
<1>1. e.name \in Names /\ e.type \in Types /\ e.options \in ThreadOptions
  BY DEF ExecutorOptions
<1>2. /\ MainAttributes \in Attributes
      /\ SetUp(MainAttributes, e.name, e.options) \in Attributes
  BY <1>1, MainAttributesType, SetUpType
<1>3. Fresh(e).attributes \in Attributes
  BY <1>2 DEF Fresh
<1>4. Fresh(e) \in ExecutorType
  BY <1>1, <1>3 DEF Fresh, ExecutorType, State, Threads
<1> QED
  BY <1>4 DEF Fresh, KeepsThread

LEMMA InitializeThrowsLaterInv ==
  ASSUME ManagerInv, InitializeNext, Rejected(Head(todo)) \/ ~Head(todo).decodes
  PROVE  ManagerInv'
<1>1. /\ Throw
      /\ UNCHANGED <<executors_options, state_, used_executor_names_,
                     executor_map_, todo, alive>>
  BY DEF InitializeNext
<1>2. /\ NamesInv' /\ ThreadsInv' /\ AttributesInv'
      /\ UNCHANGED <<ToInitialize, WellPlaced, Count, AllMade>>
      /\ \A i : UNCHANGED Made(i)
  BY <1>1, ExecutorsStay
<1>3. ManagerTypeOK'
  BY <1>1 DEF ManagerInv, ManagerTypeOK, Throw
<1>4. state_ = "kInit" /\ Initializing
  BY NextToInitialize DEF InitializeNext, ManagerAt
<1>5. Initializing'
  BY <1>1, <1>2, <1>4 DEF Throw, Initializing
<1> QED
  BY <1>1, <1>2, <1>3, <1>4, <1>5 DEF ManagerInv, CallInv

(* The names once one more has been appended.                              *)
LEMMA OneMoreName ==
  ASSUME ManagerInv, mpc = "init", todo # <<>>,
         UNCHANGED executors_options,
         used_executor_names_' = Append(used_executor_names_, Head(todo).name)
  PROVE  /\ used_executor_names_' \in Seq(Names)
         /\ Count' = Count + 1
         /\ DOMAIN used_executor_names_' = 1 .. Count + 1
         /\ \A i \in 1 .. Count :
              used_executor_names_'[i] = used_executor_names_[i]
         /\ used_executor_names_'[Count + 1] = Head(todo).name
         /\ WellPlaced'
         /\ \A i \in DOMAIN used_executor_names_' :
              /\ i \in DOMAIN ToInitialize'
              /\ used_executor_names_'[i] = ToInitialize'[i].name
<1>1. /\ WellPlaced /\ Count + 1 \in 1 .. Len(ToInitialize)
      /\ Head(todo) = ToInitialize[Count + 1]
      /\ Head(todo).name \in Names
  BY NextToInitialize DEF ExecutorOptions
<1>2. UNCHANGED <<ToInitialize, WellPlaced>>
  BY ToInitializeStays
<1>3. used_executor_names_ \in Seq(Names) /\ Count \in Nat
  BY MadeType DEF ManagerInv, ManagerTypeOK
<1>4. /\ used_executor_names_' \in Seq(Names)
      /\ Len(used_executor_names_') = Count + 1
      /\ \A i \in 1 .. Count :
           used_executor_names_'[i] = used_executor_names_[i]
      /\ used_executor_names_'[Count + 1] = Head(todo).name
  BY <1>1, <1>3, AppendProperties DEF Count
<1>5. DOMAIN used_executor_names_' = 1 .. Count + 1 /\ Count' = Count + 1
  BY <1>4, LenProperties DEF Count
<1>6. DOMAIN ToInitialize = 1 .. Len(ToInitialize)
  BY <1>1, ToInitializeShape, LenProperties DEF ManagerInv, ManagerTypeOK
<1>7. \A i \in 1 .. Count :
        i \in DOMAIN ToInitialize /\ used_executor_names_[i] = ToInitialize[i].name
  BY MadeType DEF ManagerInv, NamesInv
<1>8. \A i \in 1 .. Count + 1 :
        /\ i \in DOMAIN ToInitialize
        /\ used_executor_names_'[i] = ToInitialize[i].name
  BY <1>1, <1>3, <1>4, <1>6, <1>7
<1> QED
  BY <1>1, <1>2, <1>4, <1>5, <1>8

LEMMA InitializeMakesInv ==
  ASSUME ManagerInv, InitializeNext,
         ~Rejected(Head(todo)), Head(todo).decodes,
         Head(todo).name \notin DOMAIN executor_map_
  PROVE  ManagerInv'
<1> DEFINE name == Head(todo).name
           x    == Fresh(Head(todo))
<1>1. /\ mpc = "init" /\ alive /\ todo # <<>>
      /\ used_executor_names_' = Append(used_executor_names_, name)
      /\ todo' = Tail(todo)
      /\ executor_map_' = WithExecutor(name, x)
      /\ UNCHANGED <<executors_options, state_, mpc, thrown, alive>>
  BY DEF InitializeNext, ManagerAt
<1>2. /\ state_ = "kInit" /\ Initializing
      /\ Head(todo) \in ExecutorOptions
      /\ Head(todo).type = "main_thread" <=> Count = 0
      /\ Tail(todo) \in Seq(ExecutorOptions)
      /\ Len(todo) \in Nat
      /\ Len(Tail(todo)) = Len(todo) - 1
      /\ \A i \in 1 .. Len(todo) - 1 : Tail(todo)[i] = todo[i + 1]
  BY <1>1, NextToInitialize
<1>3. name \in Names /\ Head(todo).type # "unknown"
  BY <1>2 DEF ExecutorOptions, Rejected
<1>4. /\ x \in ExecutorType /\ KeepsThread(x)
      /\ x.type = Head(todo).type
      /\ x.state = "kInit"
      /\ x.thread = IF x.type = "guard_thread" THEN "launched" ELSE "none"
      /\ x.options = Head(todo).options
      /\ x.attributes = IF x.type = "main_thread"
                        THEN SetUp(MainAttributes, name, x.options)
                        ELSE MainAttributes
  BY <1>2, <1>3, FreshType
<1>5. /\ used_executor_names_' \in Seq(Names)
      /\ Count' = Count + 1
      /\ DOMAIN used_executor_names_' = 1 .. Count + 1
      /\ \A i \in 1 .. Count :
           used_executor_names_'[i] = used_executor_names_[i]
      /\ used_executor_names_'[Count + 1] = name
      /\ WellPlaced'
      /\ \A i \in DOMAIN used_executor_names_' :
           /\ i \in DOMAIN ToInitialize'
           /\ used_executor_names_'[i] = ToInitialize'[i].name
  BY <1>1, OneMoreName
<1>6. /\ Count \in Nat
      /\ \A i \in 1 .. Count : used_executor_names_[i] \in DOMAIN executor_map_
      /\ \A n \in DOMAIN executor_map_ :
           \E i \in 1 .. Count : n = used_executor_names_[i]
  BY MadeType
<1> HIDE DEF name, x
<1>7. /\ DOMAIN executor_map_' = DOMAIN executor_map_ \cup {name}
      /\ executor_map_'[name] = x
      /\ \A n \in DOMAIN executor_map_ : executor_map_'[n] = executor_map_[n]
      /\ name \notin DOMAIN executor_map_
  BY <1>1 DEF WithExecutor, name
<1>8. ManagerTypeOK'
  <2>1. DOMAIN executor_map_' \subseteq Names
    BY <1>3, <1>7 DEF ManagerInv, ManagerTypeOK
  <2>2. \A n \in DOMAIN executor_map_' : executor_map_'[n] \in ExecutorType
    BY <1>4, <1>7 DEF ManagerInv, ManagerTypeOK, ExecutorType
  <2> QED
    BY <1>1, <1>2, <1>5, <2>1, <2>2
    DEF ManagerInv, ManagerTypeOK, ExecutorType
<1>9. NamesInv'
  <2>1. DOMAIN executor_map_' =
          {used_executor_names_'[i] : i \in DOMAIN used_executor_names_'}
    <3>1. \A n \in DOMAIN executor_map_' :
            \E i \in 1 .. Count + 1 : n = used_executor_names_'[i]
      <4>1. ASSUME NEW n \in DOMAIN executor_map_
            PROVE  \E i \in 1 .. Count + 1 : n = used_executor_names_'[i]
        <5>1. PICK i \in 1 .. Count : n = used_executor_names_[i]
          BY <1>6
        <5> QED
          BY <1>5, <1>6, <5>1
      <4>2. /\ Count + 1 \in 1 .. Count + 1
            /\ used_executor_names_'[Count + 1] = name
        BY <1>5, <1>6
      <4>3. \A n \in DOMAIN executor_map_' :
              n \in DOMAIN executor_map_ \/ n = name
        BY <1>7
      <4> QED
        BY <4>1, <4>2, <4>3
    <3>2. \A i \in 1 .. Count + 1 :
            used_executor_names_'[i] \in DOMAIN executor_map_'
      <4>1. \A i \in 1 .. Count + 1 : i \in 1 .. Count \/ i = Count + 1
        BY <1>6
      <4>2. ASSUME NEW i \in 1 .. Count
            PROVE  used_executor_names_'[i] \in DOMAIN executor_map_'
        BY <1>5, <1>6, <1>7
      <4>3. used_executor_names_'[Count + 1] \in DOMAIN executor_map_'
        BY <1>5, <1>7
      <4> QED
        BY <4>1, <4>2, <4>3
    <3>3. \A n : n \in DOMAIN executor_map_'
                 <=> \E i \in DOMAIN used_executor_names_' :
                       n = used_executor_names_'[i]
      BY <1>5, <3>1, <3>2
    <3> QED
      BY <3>3
  <2>2. \A i, j \in DOMAIN used_executor_names_ :
          i # j => used_executor_names_[i] # used_executor_names_[j]
    BY <1>1 DEF ManagerInv, NamesInv
  <2>3. \A i, j \in DOMAIN used_executor_names_' :
          i # j => used_executor_names_'[i] # used_executor_names_'[j]
    <3>1. \A i, j \in 1 .. Count :
            i # j => used_executor_names_'[i] # used_executor_names_'[j]
      BY <1>5, <2>2, MadeType
    <3>2. \A i \in 1 .. Count :
            used_executor_names_'[i] # used_executor_names_'[Count + 1]
      BY <1>5, <1>6, <1>7
    <3>3. \A i \in 1 .. Count + 1 : i \in 1 .. Count \/ i = Count + 1
      BY <1>6
    <3> QED
      BY <1>5, <3>1, <3>2, <3>3
  <2> QED
    BY <1>5, <2>1, <2>3 DEF NamesInv
<1>10. ThreadsInv'
  BY <1>4, <1>7 DEF ManagerInv, ThreadsInv
<1>11. AttributesInv'
  <2>1. CASE Count = 0
    <3>1. MainAttributes = ProcessAttributes
      BY <2>1, MadeType, EmptySeq DEF MainAttributes, ManagerInv,
         ManagerTypeOK, Count
    <3>2. DOMAIN executor_map_' = {name} /\ used_executor_names_'[1] = name
      BY <1>5, <1>6, <1>7, <2>1
    <3> QED
      BY <1>2, <1>4, <1>7, <2>1, <3>1, <3>2 DEF AttributesInv
  <2>2. CASE Count # 0
    <3>1. used_executor_names_ # <<>> /\ used_executor_names_' # <<>>
      BY <1>5, <1>6, <2>2, EmptySeq DEF Count
    <3>2. /\ used_executor_names_'[1] = used_executor_names_[1]
          /\ used_executor_names_[1] \in DOMAIN executor_map_
      BY <1>5, <1>6, <2>2
    <3>3. UNCHANGED MainAttributes
      BY <1>7, <3>1, <3>2 DEF MainAttributes
    <3>4. x.type # "main_thread" /\ name # used_executor_names_'[1]
      BY <1>2, <1>4, <1>7, <2>2, <3>2
    <3>5. ASSUME NEW n \in DOMAIN executor_map_'
          PROVE  LET y == executor_map_'[n]
                 IN  /\ y.type = "main_thread" <=> n = used_executor_names_'[1]
                     /\ y.attributes =
                          IF y.type = "main_thread"
                          THEN SetUp(ProcessAttributes, n, y.options)
                          ELSE IF y.thread \in {"none", "launched"}
                          THEN MainAttributes'
                          ELSE SetUp(MainAttributes', n, y.options)
      <4>1. CASE n = name
        BY <1>4, <1>7, <3>3, <3>4, <4>1
      <4>2. CASE n # name
        BY <1>7, <3>2, <3>3, <4>2 DEF ManagerInv, AttributesInv
      <4> QED
        BY <4>1, <4>2
    <3> QED
      BY <3>5 DEF AttributesInv
  <2> QED
    BY <2>1, <2>2
<1>12. Initializing'
  <2>1. UNCHANGED <<ToInitialize, WellPlaced>>
    BY <1>1, ToInitializeStays
  <2>2. Len(todo)' = Len(todo) - 1 /\ Len(todo) \in Nat
    BY <1>1, <1>2
  <2>3. \A i \in 1 .. Count' : Made(i)'.state = "kInit"
    BY <1>2, <1>4, <1>5, <1>6, <1>7, SMTT(30) DEF Made, Initializing
  <2>4. \A i \in 1 .. Len(todo)' : todo'[i] = ToInitialize'[Count' + i]
    <3> SUFFICES ASSUME NEW i \in 1 .. Len(todo) - 1
                 PROVE  Tail(todo)[i] = ToInitialize[Count + 1 + i]
      BY <1>1, <1>5, <2>1, <2>2
    <3>1. i + 1 \in 1 .. Len(todo) /\ Count + (i + 1) = Count + 1 + i
      BY <1>6, <2>2
    <3>2. todo[i + 1] = ToInitialize[Count + (i + 1)]
      BY <1>1, <1>2, <3>1 DEF Initializing
    <3> QED
      BY <1>2, <3>1, <3>2
  <2> QED
    BY <1>1, <1>2, <1>5, <1>6, <2>1, <2>2, <2>3, <2>4 DEF Initializing
<1> QED
  BY <1>1, <1>2, <1>8, <1>9, <1>10, <1>11, <1>12 DEF ManagerInv, CallInv

(* A guard of the name of the main executor is the end of the process:     *)
(* nobody else has a name that is taken and gets that far.                 *)
LEMMA InitializeClashes ==
  ASSUME ManagerInv, InitializeNext,
         ~Rejected(Head(todo)), Head(todo).decodes,
         Head(todo).name \in DOMAIN executor_map_
  PROVE  /\ ManagerInv'
         /\ ~alive'
         /\ WellPlaced /\ ToInitialize[1].name = ToInitialize[2].name
<1> DEFINE e == Head(todo)
<1>1. /\ mpc = "init" /\ todo # <<>>
      /\ used_executor_names_' = Append(used_executor_names_, e.name)
      /\ todo' = Tail(todo)
      /\ alive' = (Fresh(e).thread = "none")
      /\ UNCHANGED <<executors_options, state_, executor_map_, mpc, thrown>>
  BY DEF InitializeNext, ManagerAt
<1>2. /\ state_ = "kInit" /\ Initializing /\ WellPlaced
      /\ e \in ExecutorOptions
      /\ Count + 1 \in 1 .. Len(ToInitialize)
      /\ e = ToInitialize[Count + 1]
      /\ e.type = "main_thread" <=> Count = 0
      /\ Tail(todo) \in Seq(ExecutorOptions)
      /\ Len(todo) \in Nat
      /\ Len(Tail(todo)) = Len(todo) - 1
      /\ \A i \in 1 .. Len(todo) - 1 : Tail(todo)[i] = todo[i + 1]
  BY <1>1, NextToInitialize
<1>3. /\ Count \in Nat
      /\ \A n \in DOMAIN executor_map_ :
           \E i \in 1 .. Count : n = used_executor_names_[i]
      /\ \A i \in 1 .. Count : used_executor_names_[i] \in DOMAIN executor_map_
  BY MadeType
<1>4. Count # 0
  BY <1>3
<1>5. e.type = "guard_thread"
  BY <1>2, <1>4 DEF Rejected
<1>6. Count = 1
  <2>1. \A i \in 3 .. Len(ToInitialize) : ToInitialize[i].type # "guard_thread"
    BY <1>2, ToInitializeShape DEF ManagerInv, ManagerTypeOK
  <2> QED
    BY <1>2, <1>3, <1>4, <1>5, <2>1
<1>7. ToInitialize[1].name = ToInitialize[2].name
  <2>1. used_executor_names_[1] = ToInitialize[1].name
    BY <1>6, MadeType DEF ManagerInv, NamesInv
  <2>2. e.name = used_executor_names_[1]
    BY <1>3, <1>6
  <2> QED
    BY <1>2, <1>6, <2>1, <2>2
<1>8. ~alive'
  BY <1>1, <1>5 DEF Fresh
<1>9. /\ used_executor_names_' \in Seq(Names)
      /\ Count' = Count + 1
      /\ DOMAIN used_executor_names_' = 1 .. Count + 1
      /\ \A i \in 1 .. Count :
           used_executor_names_'[i] = used_executor_names_[i]
      /\ used_executor_names_'[Count + 1] = e.name
      /\ WellPlaced'
      /\ \A i \in DOMAIN used_executor_names_' :
           /\ i \in DOMAIN ToInitialize'
           /\ used_executor_names_'[i] = ToInitialize'[i].name
  BY <1>1, OneMoreName
<1>10. ManagerTypeOK'
  BY <1>1, <1>2, <1>8, <1>9 DEF ManagerInv, ManagerTypeOK
<1>a. /\ Count' = 2
      /\ used_executor_names_'[1] = used_executor_names_[1]
      /\ used_executor_names_'[2] = used_executor_names_[1]
      /\ DOMAIN executor_map_ = {used_executor_names_[1]}
  <2>1. Count' = 2 /\ used_executor_names_'[1] = used_executor_names_[1]
    BY <1>6, <1>9
  <2>2. DOMAIN executor_map_ = {used_executor_names_[1]}
    BY <1>3, <1>6
  <2>3. e.name = used_executor_names_[1] /\ used_executor_names_'[2] = e.name
    BY <1>6, <1>9, <2>2
  <2> QED
    BY <2>1, <2>2, <2>3
<1>11. NamesInv'
  <2>1. DOMAIN executor_map_' =
          {used_executor_names_'[i] : i \in DOMAIN used_executor_names_'}
    BY <1>1, <1>6, <1>9, <1>a, SMTT(30)
  <2> QED
    BY <1>8, <1>9, <2>1 DEF NamesInv
<1>12. ThreadsInv'
  BY <1>1 DEF ManagerInv, ThreadsInv
<1>13. AttributesInv'
  <2>1. used_executor_names_'[1] = used_executor_names_[1]
    BY <1>a
  <2>2. used_executor_names_ # <<>> /\ used_executor_names_' # <<>>
    <3>1. Len(used_executor_names_) = 1 /\ Len(used_executor_names_') = 2
      BY <1>6, <1>a DEF Count
    <3>2. Len(<<>>) = 0
      OBVIOUS
    <3> QED
      BY <3>1, <3>2, SMTT(30)
  <2>3. UNCHANGED MainAttributes
    BY <1>1, <2>1, <2>2 DEF MainAttributes
  <2> QED
    BY <1>1, <2>1, <2>3 DEF ManagerInv, AttributesInv
<1>14. Initializing'
  <2>1. UNCHANGED <<ToInitialize, WellPlaced>>
    BY <1>1, ToInitializeStays
  <2>2. Len(todo)' = Len(todo) - 1
    BY <1>1, <1>2
  <2>3. \A i \in 1 .. Count' : Made(i)'.state = "kInit"
    <3>1. Made(1)' = Made(1) /\ Made(2)' = Made(1)
      BY <1>1, <1>a DEF Made
    <3>2. Made(1).state = "kInit"
      BY <1>2, <1>6 DEF Initializing
    <3> QED
      BY <1>a, <3>1, <3>2
  <2>4. \A i \in 1 .. Len(todo)' : todo'[i] = ToInitialize'[Count' + i]
    <3> SUFFICES ASSUME NEW i \in 1 .. Len(todo) - 1
                 PROVE  Tail(todo)[i] = ToInitialize[Count + 1 + i]
      BY <1>1, <1>9, <2>1, <2>2
    <3>1. i + 1 \in 1 .. Len(todo) /\ Count + (i + 1) = Count + 1 + i
      BY <1>2, <1>3
    <3>2. todo[i + 1] = ToInitialize[Count + (i + 1)]
      BY <1>1, <1>2, <3>1 DEF Initializing
    <3> QED
      BY <1>2, <3>1, <3>2
  <2> QED
    BY <1>1, <1>2, <1>3, <1>9, <2>1, <2>2, <2>3, <2>4 DEF Initializing
<1> QED
  BY <1>1, <1>2, <1>7, <1>8, <1>10, <1>11, <1>12, <1>13, <1>14
  DEF ManagerInv, CallInv

LEMMA InitializeNextInv == ManagerInv /\ InitializeNext => ManagerInv'
BY InitializeThrowsLaterInv, InitializeMakesInv, InitializeClashes

LEMMA ManagerStepInv == ManagerInv /\ ManagerStep => ManagerInv'
BY InitializeNextInv, StartNextInv, StartedNextInv, ShutdownNextInv,
   ShutdownJoinInv, ReturnsInv
DEF ManagerStep

(* A step of a call leaves no executor out and ends no thread.             *)
LEMMA ManagerStepKeeps ==
  ASSUME ManagerInv, ManagerStep
  PROVE  /\ mpc # "idle" /\ UNCHANGED <<state_, executors_options>>
         /\ \A n \in DOMAIN executor_map_ :
              /\ n \in DOMAIN executor_map_'
              /\ executor_map_[n].thread \in Alive =>
                   executor_map_'[n].thread \in Alive
<1>1. mpc # "idle" /\ UNCHANGED <<state_, executors_options>>
  BY DEF ManagerStep, ManagerAt, InitializeNext, InitializeReturns, StartNext,
         StartedNext, StartReturns, ShutdownNext, ShutdownJoin,
         ShutdownReturns
<1>2. \A n \in DOMAIN executor_map_ : executor_map_[n] \in ExecutorType
  BY DEF ManagerInv, ManagerTypeOK, ExecutorType
<1>3. ASSUME InitializeNext, NEW n \in DOMAIN executor_map_
      PROVE  n \in DOMAIN executor_map_' /\ executor_map_'[n] = executor_map_[n]
  <2>1. CASE UNCHANGED executor_map_
    BY <2>1
  <2>2. CASE /\ Head(todo).name \notin DOMAIN executor_map_
             /\ executor_map_' =
                  WithExecutor(Head(todo).name, Fresh(Head(todo)))
    BY <2>2 DEF WithExecutor
  <2> QED
    BY <1>3, <2>1, <2>2 DEF InitializeNext
<1>4. ASSUME StartNext \/ ShutdownNext \/ ShutdownJoin,
             NEW n \in DOMAIN executor_map_
      PROVE  /\ n \in DOMAIN executor_map_'
             /\ executor_map_[n].thread \in Alive =>
                  executor_map_'[n].thread \in Alive
  <2>1. CASE StartNext
    BY <1>2, <2>1 DEF StartNext, ExecutorType, Alive
  <2>2. CASE ShutdownNext
    BY <1>2, <2>2 DEF ShutdownNext, ExecutorType
  <2>3. CASE ShutdownJoin
    BY <1>2, <2>3 DEF ShutdownJoin, Joins, ExecutorType, Alive
  <2> QED
    BY <1>4, <2>1, <2>2, <2>3
<1>5. ASSUME InitializeReturns \/ StartedNext \/ StartReturns
               \/ ShutdownReturns
      PROVE  UNCHANGED executor_map_
  BY <1>5 DEF InitializeReturns, StartedNext, StartReturns, ShutdownReturns
<1> QED
  BY <1>1, <1>3, <1>4, <1>5 DEF ManagerStep

(* After Shutdown nothing is left.                                         *)
LEMMA AllGone ==
  ASSUME ManagerInv, state_ = "kShutdown", mpc = "idle",
         NEW name \in DOMAIN executor_map_
  PROVE  Gone(executor_map_[name])
BY MadeType DEF ManagerInv, CallInv, ShuttingDown, Made
=============================================================================
