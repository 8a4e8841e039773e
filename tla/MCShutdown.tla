----------------------------- MODULE MCShutdown -----------------------------
(* Instance of Shutdown for TLC: everything that may happen.               *)
EXTENDS Shutdown

AllWorlds == [commands : BOOLEAN, loses : BOOLEAN, fails : BOOLEAN,
              hasty : BOOLEAN]
=============================================================================
