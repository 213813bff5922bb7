------------------------------ MODULE HubCalls ------------------------------
(***************************************************************************)
(* What a StreamingHub promises about the calls that expect a response.    *)
(*                                                                         *)
(* A call is begun, its handler is executed at most once, and its          *)
(* completion source is settled at most once.  It is settled with a result *)
(* or an error of the server only after its own handler was executed; it   *)
(* can be cancelled at any time, because the connection may be lost before *)
(* the request, the execution or the response.                             *)
(***************************************************************************)
EXTENDS Naturals

CONSTANT MaxCalls   \* how many calls are made on one connection

Calls == 1..MaxCalls

VARIABLES
  status,           \* status[k]: what the caller of k sees of its completion source
  executions        \* executions[k]: how often the server executed k

vars == <<status, executions>>

Statuses == {"unused", "pending", "result", "error", "canceled"}

TypeOK ==
  /\ status \in [Calls -> Statuses]
  /\ executions \in [Calls -> Nat]

Init ==
  /\ status = [k \in Calls |-> "unused"]
  /\ executions = [k \in Calls |-> 0]

Begin(k) ==
  /\ status[k] = "unused"
  /\ status' = [status EXCEPT ![k] = "pending"]
  /\ UNCHANGED executions

Execute(k) ==
  /\ status[k] # "unused"
  /\ executions[k] = 0
  /\ executions' = [executions EXCEPT ![k] = 1]
  /\ UNCHANGED status

Answer(k) ==
  /\ status[k] = "pending"
  /\ executions[k] = 1
  /\ \E s \in {"result", "error"} : status' = [status EXCEPT ![k] = s]
  /\ UNCHANGED executions

\* The client loses the connection and gives up a call.
Cancel(k) ==
  /\ status[k] = "pending"
  /\ status' = [status EXCEPT ![k] = "canceled"]
  /\ UNCHANGED executions

Next == \E k \in Calls : Begin(k) \/ Execute(k) \/ Answer(k) \/ Cancel(k)

Spec == Init /\ [][Next]_vars
=============================================================================
