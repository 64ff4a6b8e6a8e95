----------------------------- MODULE ThreadTool -----------------------------
(***************************************************************************)
(* src/utils/common/thread_tool.h: what a thread makes of its own name,    *)
(* CPUs and scheduling policy.  Each executor's thread calls the three     *)
(* functions in one try block; until then, and for whatever it does not    *)
(* set, it has the attributes of the thread that created it.               *)
(***************************************************************************)
EXTENDS Integers, Sequences

CONSTANTS
  MaxCpuIdx,       \* kMaxCpuIdx
  UsableCpus,      \* the CPUs the system lets the process run on
  Priorities,      \* sched_get_priority_min .. sched_get_priority_max
  MayUseRealTime,  \* whether the process may ask for a real-time policy
  ProcessName      \* the name of the main thread when main() begins

ASSUME SystemAssumption ==
  /\ MaxCpuIdx \in Nat \ {0}
  /\ UsableCpus \subseteq 0 .. MaxCpuIdx - 1
  /\ UsableCpus # {}
  /\ Priorities \subseteq Nat
  /\ MayUseRealTime \in BOOLEAN
  /\ ProcessName \in STRING

(* thread_sched_policy.  "" is the empty text, "SCHED_OTHER" exactly that; *)
(* with SCHED_FIFO and SCHED_RR goes what atoi makes of the text after the *)
(* colon; "other" is any other text, one without a colon among them.       *)
SchedOptions ==
  [policy : {"", "SCHED_OTHER", "SCHED_FIFO", "SCHED_RR", "other"},
   priority : Int]

RealTime == {"SCHED_FIFO", "SCHED_RR"}

ThreadOptions == [cpus : SUBSET Nat, sched : SchedOptions]

TimeSharing == [policy |-> "SCHED_OTHER", priority |-> 0]

ProcessAttributes ==
  [name |-> ProcessName, cpus |-> UsableCpus, sched |-> TimeSharing]

-----------------------------------------------------------------------------
(* Wrong: only names that are longer than the short form are shortened.    *)
ShortenedTooLate(name) ==
  IF Len(name) < 17 THEN name
  ELSE SubSeq(name, 1, 8) \o ".." \o SubSeq(name, Len(name) - 4, Len(name))

(* The first 8 and the last 5 characters of a name of 15 or more.          *)
Shortened(name) ==
  IF Len(name) < 15 THEN name
  ELSE SubSeq(name, 1, 8) \o ".." \o SubSeq(name, Len(name) - 4, Len(name))

(* The kernel refuses names of more than 15 characters; nobody looks at    *)
(* what pthread_setname_np returns.                                        *)
SetName(attrs, name) ==
  IF Len(Shortened(name)) > 15 THEN attrs
  ELSE [attrs EXCEPT !.name = Shortened(name)]

(* An index out of range, or a set without any CPU the process may use.    *)
BindThrows(cpus) ==
  \/ \E idx \in cpus : idx >= MaxCpuIdx
  \/ cpus # {} /\ cpus \cap UsableCpus = {}

BindCpu(attrs, cpus) ==
  IF cpus = {} THEN attrs ELSE [attrs EXCEPT !.cpus = cpus \cap UsableCpus]

(* Text that is no policy, a priority out of range, or no permission.      *)
SchedThrows(sched) ==
  \/ sched.policy = "other"
  \/ /\ sched.policy \in RealTime
     /\ sched.priority \in Priorities => ~MayUseRealTime

SetSched(attrs, sched) ==
  CASE sched.policy = ""            -> attrs
    [] sched.policy = "SCHED_OTHER" -> [attrs EXCEPT !.sched = TimeSharing]
    [] OTHER                        -> [attrs EXCEPT !.sched = sched]

(* The try block of every executor: an exception of one call skips those   *)
(* after it and is only logged.                                            *)
SetUp(attrs, name, options) ==
  LET named == SetName(attrs, name)
      bound == BindCpu(named, options.cpus)
  IN  CASE BindThrows(options.cpus)   -> named
        [] SchedThrows(options.sched) -> bound
        [] OTHER                      -> SetSched(bound, options.sched)
=============================================================================
