---------------------------- MODULE MCManualWarm ----------------------------
(* Two operations, two workers, a time to live of two and one fault:
   a process that dies or a call of Valkey that raises. *)
EXTENDS ManualWarm
=============================================================================
