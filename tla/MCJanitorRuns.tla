---------------------------- MODULE MCJanitorRuns ----------------------------
(***************************************************************************)
(* A timer and the end of a session with intervals of their own, a run by  *)
(* hand, and a server with its interval and a request.                     *)
(***************************************************************************)
EXTENDS JanitorRuns, TLC

CONSTANTS timer, ended, hand, interval, post, cli1, cli2, cli3, server

MCProcess == (timer :> cli1) @@ (ended :> cli2) @@ (hand :> cli3)
             @@ (interval :> server) @@ (post :> server)
MCInterval == (timer :> 1) @@ (ended :> 2)
=============================================================================
