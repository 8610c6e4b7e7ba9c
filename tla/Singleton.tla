------------------------------- MODULE Singleton -------------------------------
(***************************************************************************)
(* Singleton<T>::get (src/base/Singleton.h): lazy creation of one          *)
(* instance shared by all threads.  The pointer m_obj is nullptr, the      *)
(* sentinel 0x1 while some thread runs InitFunction, or the instance.  A   *)
(* thread that finds nullptr claims creation with a compare-exchange to    *)
(* 0x1, creates and publishes; every other thread spins until the pointer  *)
(* is published.  Each atomic access of m_obj is one step; the local       *)
(* variable obj of each call is obj[t].                                    *)
(*                                                                         *)
(* In the kernel the slow path runs in a ScopedCritical section: its       *)
(* constructor is Processor::enter_critical and its destructor             *)
(* leave_critical (src/kernel/arch/x86/Processor.h), which count           *)
(* m_in_critical of the processor.  Each thread stays on one processor;   *)
(* a processor runs one thread at a time and the scheduler may switch it  *)
(* to another of its threads only while m_in_critical is 0.                *)
(***************************************************************************)
EXTENDS Naturals, FiniteSets

CONSTANTS
  Threads,
  CPUs,  \* the processors
  CpuOf, \* [Threads -> CPUs]: the processor each thread runs on
  Objs,  \* the objects InitFunction may return
  Null,  \* nullptr
  Busy   \* (T*)0x1

VARIABLES
  objVar,  \* m_obj
  obj,     \* obj, the local copy of each call
  pc,      \* where each thread is in get()
  ret,     \* what each thread's last call returned
  created, \* ghost: the objects InitFunction has returned
  current, \* the thread each processor runs
  critical \* m_in_critical of each processor

vars == <<objVar, obj, pc, ret, created, current, critical>>

(* Processor::enter_critical on processor c. *)
EnterCriticalNoop(cr, c) == cr
EnterCritical(cr, c) == [cr EXCEPT ![c] = @ + 1]

(* Processor::leave_critical: VERIFY(m_in_critical > 0), then one level    *)
(* less; leaving the last level runs the deferred calls and lets the      *)
(* scheduler in (check_invoke_scheduler), which Schedule stands for.      *)
LeaveCritical(cr, c) == [cr EXCEPT ![c] = @ - 1]

(* Thread t is the one its processor runs. *)
OnCpu(t) == current[CpuOf[t]] = t

Pcs == {"idle", "load", "claim", "create", "publish", "wait", "panic"}

Transition(t, from, to) ==
  /\ pc[t] = from
  /\ pc' = [pc EXCEPT ![t] = to]

(* FlatPtr(obj) <= 0x1: no instance yet. *)
NeedsInitNullOnly(o) == o = Null
NeedsInit(o) == o \in {Null, Busy}

(* obj == nullptr &&: only a call that saw nullptr tries to claim. *)
TryCreateAlways(o) == TRUE
TryCreate(o) == o = Null

(* SingletonInstanceCreator::create: new T(). *)
InitFunction == CHOOSE o \in Objs : o \notin created

Return(t, o) ==
  /\ pc' = [pc EXCEPT ![t] = "idle"]
  /\ ret' = [ret EXCEPT ![t] = o]

(* A return from inside the ScopedCritical block destroys the guard. *)
ReturnFromScope(t, o) ==
  /\ Return(t, o)
  /\ critical' = LeaveCritical(critical, CpuOf[t])

Init ==
  /\ objVar = Null
  /\ obj = [t \in Threads |-> Null]
  /\ pc = [t \in Threads |-> "idle"]
  /\ ret = [t \in Threads |-> Null]
  /\ created = {}
  /\ current \in {f \in [CPUs -> Threads] : \A c \in CPUs : CpuOf[f[c]] = c}
  /\ critical = [c \in CPUs |-> 0]

(* ptr(), and through it operator->, operator* and ensure_instance. *)
Call(t) ==
  /\ OnCpu(t)
  /\ Transition(t, "idle", "load")
  /\ UNCHANGED <<objVar, obj, ret, created, current, critical>>

(* The acquire load; with an instance there, the call returns it; else    *)
(* the ScopedCritical guard is constructed.                                *)
Load(t) ==
  /\ OnCpu(t) /\ pc[t] = "load"
  /\ obj' = [obj EXCEPT ![t] = objVar]
  /\ IF NeedsInit(objVar)
     THEN /\ pc' = [pc EXCEPT ![t] = IF TryCreate(objVar) THEN "claim" ELSE "wait"]
          /\ critical' = EnterCritical(critical, CpuOf[t])
          /\ UNCHANGED ret
     ELSE Return(t, objVar) /\ UNCHANGED critical
  /\ UNCHANGED <<objVar, created, current>>

(* compare_exchange_strong(obj, 0x1): on failure obj takes m_obj. *)
Claim(t) ==
  /\ OnCpu(t) /\ pc[t] = "claim"
  /\ IF objVar = obj[t]
     THEN /\ objVar' = Busy
          /\ pc' = [pc EXCEPT ![t] = "create"]
          /\ UNCHANGED obj
     ELSE /\ obj' = [obj EXCEPT ![t] = objVar]
          /\ pc' = [pc EXCEPT ![t] = "wait"]
          /\ UNCHANGED objVar
  /\ UNCHANGED <<ret, created, current, critical>>

Create(t) ==
  /\ OnCpu(t)
  /\ Transition(t, "create", "publish")
  /\ obj' = [obj EXCEPT ![t] = InitFunction]
  /\ created' = created \cup {InitFunction}
  /\ UNCHANGED <<objVar, ret, current, critical>>

(* The release store, and return obj. *)
Publish(t) ==
  /\ OnCpu(t) /\ pc[t] = "publish"
  /\ objVar' = obj[t]
  /\ ReturnFromScope(t, obj[t])
  /\ UNCHANGED <<obj, created, current>>

(* Mutant: the loop does not load m_obj again. *)
WaitNoReload(t) ==
  /\ OnCpu(t) /\ pc[t] = "wait"
  /\ IF obj[t] = Busy
     THEN UNCHANGED <<pc, ret, critical>>
     ELSE IF obj[t] \in {Null, Busy}
          THEN /\ pc' = [pc EXCEPT ![t] = "panic"] /\ UNCHANGED <<ret, critical>>
          ELSE ReturnFromScope(t, obj[t])
  /\ UNCHANGED <<objVar, obj, created, current>>

(* One turn of while (obj == 0x1) { wait_check(); obj = load; }, or the   *)
(* two VERIFYs after it and the return; a failed VERIFY panics.           *)
Wait(t) ==
  /\ OnCpu(t) /\ pc[t] = "wait"
  /\ IF obj[t] = Busy
     THEN /\ obj' = [obj EXCEPT ![t] = objVar]
          /\ UNCHANGED <<pc, ret, critical>>
     ELSE /\ IF obj[t] \in {Null, Busy}
             THEN /\ pc' = [pc EXCEPT ![t] = "panic"] /\ UNCHANGED <<ret, critical>>
             ELSE ReturnFromScope(t, obj[t])
          /\ UNCHANGED obj
  /\ UNCHANGED <<objVar, created, current>>

Run(t) == Load(t) \/ Claim(t) \/ Create(t) \/ Publish(t) \/ Wait(t)

(* The scheduler switches processor c to thread t (a timer tick or the    *)
(* check_invoke_scheduler of leave_critical); never inside a critical     *)
(* section.                                                                *)
Schedule(c, t) ==
  /\ CpuOf[t] = c /\ current[c] # t
  /\ critical[c] = 0
  /\ current' = [current EXCEPT ![c] = t]
  /\ UNCHANGED <<objVar, obj, pc, ret, created, critical>>

Next ==
  \/ \E t \in Threads : Call(t) \/ Run(t)
  \/ \E t \in Threads : Schedule(CpuOf[t], t)

(***************************************************************************)
(* Fairness is the scheduler's, not the threads': a thread that can be    *)
(* switched to infinitely often is switched to (time slices are handed out *)
(* round robin), and a thread that is running infinitely often makes its  *)
(* next step (a time slice lasts at least one step).  Nothing forces a    *)
(* thread to call ptr().                                                   *)
(***************************************************************************)
Spec ==
  /\ Init /\ [][Next]_vars
  /\ \A t \in Threads : SF_vars(Run(t)) /\ SF_vars(Schedule(CpuOf[t], t))

-----------------------------------------------------------------------------
TypeOK ==
  /\ objVar \in Objs \cup {Null, Busy}
  /\ obj \in [Threads -> Objs \cup {Null, Busy}]
  /\ pc \in [Threads -> Pcs]
  /\ ret \in [Threads -> Objs \cup {Null}]
  /\ created \subseteq Objs
  /\ current \in [CPUs -> Threads]
  /\ critical \in [CPUs -> Nat]

(* InitFunction runs at most once, and every call that returned got the   *)
(* instance now in m_obj, however the loads, compare-exchanges and spins  *)
(* of the threads interleave.                                              *)
SingleInstance ==
  /\ Cardinality(created) <= 1
  /\ \A t \in Threads : ret[t] # Null => ret[t] = objVar

(* While a thread holds the 0x1 sentinel, from its compare-exchange to    *)
(* its release store, it is the thread its processor runs: the            *)
(* ScopedCritical guard built before the compare-exchange keeps the        *)
(* scheduler off that processor, so no waiter, which spins inside its own *)
(* critical section, ever spins on a creator that cannot run.              *)
CreatorRunning ==
  \A t \in Threads : pc[t] \in {"create", "publish"} => OnCpu(t)

(* Every call of ptr() returns: the spinning threads are released once    *)
(* the creator publishes.                                                  *)
CallsReturn == \A t \in Threads : pc[t] # "idle" ~> pc[t] = "idle"

(* get() implements the atomic Singleton of SingletonSpec: the instance   *)
(* appears when it is published, a call takes effect when it returns.     *)
Abstract == INSTANCE SingletonSpec WITH
  inst <- IF objVar \in Objs THEN objVar ELSE Null,
  busy <- {t \in Threads : pc[t] # "idle"}

RefinesSpec == Abstract!Spec

=============================================================================
