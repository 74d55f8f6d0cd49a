---------------------------- MODULE RPCContract ----------------------------
(***************************************************************************)
(* What an application may rely on when it uses an RPCClient: a call that  *)
(* was made may be executed by the server, more than once only if the      *)
(* client reconnects, and its closure runs at most once, after the server  *)
(* has executed the call.  Nothing is promised here about when.            *)
(***************************************************************************)
EXTENDS Naturals

CONSTANTS
  Calls,
  Retries   \* whether lost requests are sent again (auto_reconnect)

VARIABLES
  state,    \* state[c] is "idle", "waiting" or "done"
  executed  \* executed[c]: how often the server has executed c

contractVars == <<state, executed>>

ContractInit ==
  /\ state = [c \in Calls |-> "idle"]
  /\ executed = [c \in Calls |-> 0]

Call(c) ==
  /\ state[c] = "idle"
  /\ state' = [state EXCEPT ![c] = "waiting"]
  /\ UNCHANGED executed

Execute(c) ==
  /\ state[c] # "idle"
  /\ executed[c] = 0 \/ Retries
  /\ executed' = [executed EXCEPT ![c] = @ + 1]
  /\ UNCHANGED state

(* The closure of c runs, and makes the calls `next', none or one. *)
Complete(c, next) ==
  /\ state[c] = "waiting"
  /\ executed[c] > 0
  /\ \A d \in next : state[d] = "idle"
  /\ state' = [d \in Calls |-> IF d = c THEN "done"
                               ELSE IF d \in next THEN "waiting"
                               ELSE state[d]]
  /\ UNCHANGED executed

ContractNext ==
  \E c \in Calls :
    \/ Call(c)
    \/ Execute(c)
    \/ \E next \in {{}} \cup {{d} : d \in Calls} : Complete(c, next)

ContractSpec == ContractInit /\ [][ContractNext]_contractVars
=============================================================================
