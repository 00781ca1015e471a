------------------------------- MODULE MCCpu -------------------------------
(* Instances of Cpu for TLC: threads with the shape of the scripts of
   scripts-pruebas, in a memory of two partitions of five bytes and one of six. *)
EXTENDS Cpu, TLC

I(op) == [op |-> op, dir |-> 0]
A(op, dir) == [op |-> op, dir |-> dir]

Scripts ==
  ( "plani_proc"   :> <<I("SET"), I("SUM"), I("THREAD_CREATE"), I("SUM"), I("THREAD_CREATE")>> @@
    "plani_thread" :> <<I("SET"), I("SUB"), I("JNZ"), I("THREAD_EXIT")>> @@
    "mem_fijas"    :> <<A("WRITE_MEM", 0), A("READ_MEM", 0), I("LOG"), I("IO"), I("PROCESS_EXIT")>> @@
    "crown"        :> <<A("WRITE_MEM", 0), A("WRITE_MEM", 4), I("DUMP_MEMORY"), I("PROCESS_EXIT")>> @@
    "mutex"        :> <<A("WRITE_MEM", 8), I("MUTEX_CREATE"), I("MUTEX_LOCK")>> @@
    "lejos"        :> <<I("LOG"), A("WRITE_MEM", 1), A("WRITE_MEM", 2), A("WRITE_MEM", 40), I("IO")>> @@
    "sin_fin"      :> <<I("SET"), A("READ_MEM", 3), I("THREAD_JOIN")>> @@
    "da_la_vuelta" :> <<A("WRITE_MEM", 62), I("IO")>> )

Programas == [h \in Hilos |-> Scripts[h]]

Partes ==
  [h \in Hilos |->
     CASE h \in {"plani_proc", "plani_thread", "crown"} -> [base |-> 0, limite |-> 4]
       [] h \in {"mem_fijas", "mutex"}                  -> [base |-> 5, limite |-> 9]
       [] OTHER                                         -> [base |-> 10, limite |-> 15]]
=============================================================================
