------------------------------ MODULE MCGetMap ------------------------------
(* Small instances of GetMapRendezvous for TLC. *)
EXTENDS GetMapRendezvous

\* Every command can be typed; only "!".
AnyCommand  == AllCommands
OnlyRestart == {"restart"}
=============================================================================
