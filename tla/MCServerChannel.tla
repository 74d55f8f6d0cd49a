-------------------------- MODULE MCServerChannel --------------------------
(***************************************************************************)
(* Values for the constants of ServerChannel.                              *)
(***************************************************************************)
EXTENDS ServerChannel

CONSTANTS s1, s2, s3

\* The identifiers of one service, and of three of which two collide.
OneService == s1 :> 1
Colliding == s1 :> 1 @@ s2 :> 2 @@ s3 :> 1
=============================================================================
