---------------------------- MODULE MCDaemonConsumer ----------------------------
(***************************************************************************)
(* Two messages, one of them perhaps invalid, for two processors: one      *)
(* message can wait in the channel while the listener holds another, and   *)
(* with what is redelivered there may be more copies than processors.      *)
(***************************************************************************)
EXTENDS DaemonConsumer, TLC
CONSTANTS m1, m2

MCMessages == {m1, m2}
MCDoubtful == {m2}
===============================================================================
