----------------------------- MODULE MCSistema -----------------------------
(* Instances of Sistema for TLC: scripts for the first process, with each way
   a program can go on. *)
EXTENDS Sistema, TLC

I(op) == [op |-> op, dir |-> 0]
A(op, dir) == [op |-> op, dir |-> dir]

Scripts ==
  ( "proceso" :> <<I("SET"), I("PROCESS_CREATE"), I("THREAD_JOIN")>> @@
    "hilos"   :> <<I("SUM"), I("THREAD_CREATE"), I("THREAD_CREATE")>> @@
    "io"      :> <<A("WRITE_MEM", 0), I("IO"), I("THREAD_CREATE")>> @@
    "join"    :> <<A("READ_MEM", 0), I("THREAD_JOIN"), I("MUTEX_CREATE")>> @@
    "mutex"   :> <<I("MUTEX_CREATE"), I("MUTEX_LOCK")>> @@
    "lock"    :> <<A("WRITE_MEM", 1), I("MUTEX_LOCK")>> @@
    "lejos"   :> <<A("WRITE_MEM", 0), A("WRITE_MEM", 7), I("IO")>> @@
    "salto"   :> <<I("JNZ")>> @@
    "salida"  :> <<I("SET"), I("PROCESS_EXIT")>> )

\* FIRST takes the third partition for a process of two units.
Fijas == <<1, 1, 2, 3>>
Parte == [base |-> 2, limite |-> 3]
=============================================================================
