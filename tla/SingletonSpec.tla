----------------------------- MODULE SingletonSpec -----------------------------
(***************************************************************************)
(* What Singleton<T> (src/base/Singleton.h) promises its callers: a call   *)
(* of ptr() returns the one instance, creating it if there is none yet,    *)
(* as a single atomic step; the instance never changes once it exists; and *)
(* every call returns.                                                     *)
(***************************************************************************)
CONSTANTS
  Threads, \* threads (CPUs) calling ptr()
  Objs,    \* the objects InitFunction may return
  Null     \* nullptr

VARIABLES
  inst, \* the instance, or Null before it exists
  busy, \* threads inside a call
  ret   \* what each thread's last call returned

specVars == <<inst, busy, ret>>

Init ==
  /\ inst = Null
  /\ busy = {}
  /\ ret = [t \in Threads |-> Null]

Call(t) ==
  /\ t \notin busy
  /\ busy' = busy \cup {t}
  /\ UNCHANGED <<inst, ret>>

(* The call returns the instance, which is created on the first return.    *)
Get(t) ==
  /\ t \in busy
  /\ inst' \in IF inst = Null THEN Objs ELSE {inst}
  /\ ret' = [ret EXCEPT ![t] = inst']
  /\ busy' = busy \ {t}

Next == \E t \in Threads : Call(t) \/ Get(t)

Spec == Init /\ [][Next]_specVars /\ \A t \in Threads : WF_specVars(Get(t))

=============================================================================
