-------------------------- MODULE MCServerThreads --------------------------
(***************************************************************************)
(* Small instances of ServerThreads for TLC.                               *)
(***************************************************************************)
EXTENDS ServerThreads, TLC

CONSTANTS q1, q2, cb1, cb2

MCCallbackOf == q1 :> cb1 @@ q2 :> cb2
=============================================================================
