------------------------------ MODULE MCSingleton ------------------------------
EXTENDS Singleton, TLC

CONSTANTS t1, t2, t3, o1, o2, o3, c1, c2

MCThreads == {t1, t2, t3}

\* Two processors; t1 and t2 share the first, so that a waiter and the
\* creator can compete for one processor.
MCCPUs == {c1, c2}
MCCpuOf == (t1 :> c1) @@ (t2 :> c1) @@ (t3 :> c2)

\* One object per thread, so that every thread could create one.
MCObjs == {o1, o2, o3}

=============================================================================
