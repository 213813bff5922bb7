--------------------------- MODULE UnaryRoundTrip ---------------------------
(***************************************************************************)
(* A unary call from the caller's await through the client filters, gRPC,  *)
(* the server filters and the method body, and back: UnaryCalls with       *)
(* ServiceCalls as the server of its gRPC calls.                           *)
(*                                                                         *)
(* The server handles each gRPC call anew.  What it still does for a call  *)
(* that the transport or the client has ended reaches nobody and is left   *)
(* out.  Methods that are not unary are called by a client without a       *)
(* UnaryResult.                                                            *)
(***************************************************************************)
EXTENDS UnaryCalls, Integers

CONSTANTS
  GlobalFilters, ClassFilters, MethodFilters, Orders,   \* see ServiceCalls
  Methods, Values, Codes, MaxRuns

ASSUME CodesAssumption  == "OK" \notin Codes
ASSUME OrdersAssumption == Orders \subseteq Int

VARIABLES
  method, order, step, active, runs, thrown, result, status, response, client, escaped

Server == INSTANCE ServiceCalls WITH pc <- step

handlerVars == <<step, active, runs, thrown, result, status, response, client, escaped>>
serverVars  == <<method, order, handlerVars>>
allVars     == <<vars, serverVars>>

\* A filter is an object that is registered at one level: an attribute of the
\* class or of the method, or a filter of MagicOnionOptions.
ASSUME FiltersAssumption ==
  /\ GlobalFilters \in Seq(Server!Filters)
  /\ ClassFilters \in Seq(Server!Filters)
  /\ MethodFilters \in Seq(Server!Filters)
  /\ \A i \in DOMAIN GlobalFilters, j \in DOMAIN ClassFilters :
       GlobalFilters[i] # ClassFilters[j]
  /\ \A i \in DOMAIN GlobalFilters, j \in DOMAIN MethodFilters :
       GlobalFilters[i] # MethodFilters[j]
  /\ \A i \in DOMAIN ClassFilters, j \in DOMAIN MethodFilters :
       ClassFilters[i] # MethodFilters[j]

IsUnary == method.type = "Unary"

RoundTripInit == Init /\ Server!Init /\ (~IsUnary => filters = 0)

\* The server begins to handle a call with a new ServiceContext.
NewHandler ==
  /\ step' = "calling"
  /\ active' = <<>>
  /\ runs' = 0
  /\ thrown' = Server!NoException
  /\ result' = Server!Null
  /\ status' = "OK"
  /\ response' = Server!Null
  /\ client' = Server!Nothing
  /\ escaped' = Server!NoException
  /\ UNCHANGED <<method, order>>

Request == \E k \in Ids : RequestMethod(k) /\ NewHandler

Chain ==
  \/ Request
  \/ /\ FilterBegins \/ WaitResponseAsync \/ FilterEnds \/ FilterAnswers \/ FilterThrows
        \/ FilterRetries \/ InvokeUnaryCore
     /\ UNCHANGED serverVars

Unwrap        == UnwrapResponse /\ UNCHANGED serverVars
UnwrapDisposal == UnwrapDispose /\ UNCHANGED serverVars

ServerStep ==
  /\ IsUnary => Running # {}
  /\ step # "done"
  /\ Server!Next
  /\ UNCHANGED vars

\* gRPC gives the answer of the server to the client.  The ServiceContext of a
\* call that failed is of no more use.
Answered(k) ==
  /\ calls[k] = "running"
  /\ step = "done"
  /\ IF client.status = "OK"
       THEN calls' = [calls EXCEPT ![k] = "answered"] /\ UNCHANGED serverVars
       ELSE calls' = [calls EXCEPT ![k] = "failed"] /\ NewHandler
  /\ UNCHANGED <<filters, depth, pc, inner, hasValue, future, userVars>>

\* The connection is lost, or the deadline is exceeded.
Lost(k) ==
  /\ CallEnds(k) /\ calls'[k] = "failed"
  /\ NewHandler

RoundTripNext ==
  \/ /\ IsUnary
     /\ \/ Chain \/ Unwrap \/ UnwrapDisposal
        \/ (Await \/ Dispose) /\ UNCHANGED serverVars
        \/ \E k \in Ids : Answered(k) \/ Lost(k)
  \/ ServerStep

\* The continuations of the client run, and no filter calls next for ever.
\* Nothing is assumed of the server: a call without a deadline runs as long as
\* the server likes.
RoundTripSpec ==
  /\ RoundTripInit
  /\ [][RoundTripNext]_allVars
  /\ WF_allVars(IsUnary /\ Chain) /\ WF_allVars(Unwrap) /\ WF_allVars(UnwrapDisposal)
  /\ \A d \in 1..MaxFilters : SF_allVars(depth = d /\ FilterEnds /\ UNCHANGED serverVars)
-----------------------------------------------------------------------------
\* FilterHelper.GetFilters: the server filters nest in the documented order,
\* also when one of them runs the rest of the chain again.
FiltersNested == Server!FiltersNested

\* MethodHandler, for each kind of method: the client is told the status of the
\* exception that left the filters, or the one the method set.
StatusTold == (IsUnary => Running # {}) => Server!StatusTold

\* A caller that gets a value which no client filter has replaced gets what
\* the service method, or a server filter, has set last: raw bytes included,
\* never the result of a call that was given up, and never one of a call in
\* which an exception left the server filters.
ResultReachesCaller ==
  IsUnary /\ caller = "value" /\ ~hasValue =>
    /\ inner = CHOOSE k \in Made : \A j \in Made : j <= k
    /\ client.status = "OK"
    /\ escaped.kind = "none"
    /\ client.value = IF result = Server!Null THEN Server!DefaultOf(method) ELSE result

\* When gRPC ends every call - with the server's answer, or with an error - the
\* caller gets a value or an error, whatever the filters on both sides do.
AnsweredReturns == []<>(Running = {}) => AwaitReturns
=============================================================================
