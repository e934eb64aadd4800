----------------------------- MODULE RpcService -----------------------------
(***************************************************************************)
(* What the RPC library promises an application: a call may be executed    *)
(* once and never again, a call that returns a result has been executed,   *)
(* and a call returns once.  A call that timed out or was cancelled may    *)
(* have been executed, or may be executed later.  A call that the server   *)
(* has refused is not executed after that, and one that it claims to have  *)
(* forgotten has not been executed at all.                                 *)
(***************************************************************************)
EXTENDS Naturals

CONSTANT Id

VARIABLES started,    \* the calls that have been made
          executed,   \* how often the handler of a call has run
          result      \* what a call has returned, or "none"

serviceVars == <<started, executed, result>>

ServiceInit ==
    /\ started = {}
    /\ executed = [x \in Id |-> 0]
    /\ result = [x \in Id |-> "none"]

Invoke(x) ==
    /\ x \notin started
    /\ started' = started \cup {x}
    /\ UNCHANGED <<executed, result>>

Refused == {"atmostonce_failure", "oldsrv_failure"}

Execute(x) ==
    /\ x \in started
    /\ executed[x] = 0
    /\ result[x] \notin Refused
    /\ executed' = [executed EXCEPT ![x] = 1]
    /\ UNCHANGED <<started, result>>

Result == {"ok", "timeout_failure", "cancel_failure"} \cup Refused

\* x returns what its result is after the step.
Return(x) ==
    /\ x \in started
    /\ result[x] = "none"
    /\ result'[x] \in Result
    /\ result'[x] = "ok" => executed[x] = 1
    /\ result'[x] = "atmostonce_failure" => executed[x] = 0
    /\ result' = [result EXCEPT ![x] = result'[x]]
    /\ UNCHANGED <<started, executed>>

ServiceNext ==
    \E x \in Id : Invoke(x) \/ Execute(x) \/ Return(x)

ServiceSpec == ServiceInit /\ [][ServiceNext]_serviceVars
=============================================================================
