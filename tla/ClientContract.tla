--------------------------- MODULE ClientContract ---------------------------
(* ClientChannel keeps the promises of RPCContract. *)
EXTENDS ClientChannel

Contract ==
  INSTANCE RPCContract
    WITH Retries <- AutoReconnect,
         state   <- [c \in Calls |-> IF doneRuns[c] > 0 THEN "done"
                                     ELSE IF c \in called THEN "waiting"
                                     ELSE "idle"]

(***************************************************************************)
(* Every step of the client, its connections and the server is a step of   *)
(* the contract or leaves it unchanged: CallMethod, Serve and              *)
(* ReceivePackage are its actions, everything else is invisible.           *)
(***************************************************************************)
KeepsContract == Contract!ContractSpec
=============================================================================
