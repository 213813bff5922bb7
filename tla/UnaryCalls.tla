------------------------------ MODULE UnaryCalls ----------------------------
(***************************************************************************)
(* One unary call of a client: RawMethodInvoker.InvokeUnary with the client*)
(* filters of InterceptInvokeHelper, the ResponseContext of a gRPC call,   *)
(* and the UnaryResult that the caller awaits or disposes of.              *)
(*                                                                         *)
(* Filters are application code: a filter may answer without calling next, *)
(* call next again (a retry), replace the value, or throw.                 *)
(***************************************************************************)
EXTENDS Naturals, Sequences

CONSTANTS
  MaxFilters,   \* bound: how many filters a client has
  MaxCalls,     \* bound: how many gRPC calls the filters make
  None          \* no gRPC call

ASSUME NumAssumption  == MaxFilters \in Nat /\ MaxCalls \in Nat
ASSUME NoneAssumption == None \notin 1..MaxCalls

VARIABLES
  filters,    \* context.Filters.Count
  calls,      \* calls[k]: "none", "running", "answered", "failed", "cancelled"
  depth,      \* how many filters are running
  pc,         \* the chain: "calling", "waiting", "returning", "throwing", "done"
  inner,      \* the AsyncUnaryCall of the response context that is returned, or None
  hasValue,   \* the response context has a value of its own
  future,     \* the task of InvokeUnaryCore: "pending", "completed", "faulted"
  caller,     \* the caller's await: "no", "waiting", "value", "error"
  disposal    \* UnaryResult.Dispose: "no", "asked", "waiting", "done", "threw"

vars == <<filters, calls, depth, pc, inner, hasValue, future, caller, disposal>>

Ids     == 1..MaxCalls
Made    == {k \in Ids : calls[k] # "none"}
InnerState == IF inner = None THEN "none" ELSE calls[inner]
Running == {k \in Ids : calls[k] = "running"}

TypeOK ==
  /\ filters \in 0..MaxFilters
  /\ calls \in [Ids -> {"none", "running", "answered", "failed", "cancelled"}]
  /\ depth \in 0..filters
  /\ pc \in {"calling", "waiting", "returning", "throwing", "done"}
  /\ inner \in Made \cup {None}
  /\ hasValue \in BOOLEAN
  /\ future \in {"pending", "completed", "faulted"}
  /\ (future = "pending") = (pc # "done")
  /\ future = "completed" => hasValue \/ inner # None
  /\ caller \in {"no", "waiting", "value", "error"}
  /\ disposal \in {"no", "asked", "waiting", "done", "threw"}

Init ==
  /\ filters \in 0..MaxFilters
  /\ calls = [k \in Ids |-> "none"]
  /\ depth = 0
  /\ pc = "calling"
  /\ inner = None
  /\ hasValue = FALSE
  /\ future = "pending"
  /\ caller = "no"
  /\ disposal = "no"

userVars == <<caller, disposal>>
-----------------------------------------------------------------------------
(***************************************************************************)
(* InvokeWithFilter.                                                       *)
(***************************************************************************)
\* A filter begins: SendAsync up to its call of next.
FilterBegins ==
  /\ pc = "calling"
  /\ depth < filters
  /\ depth' = depth + 1
  /\ UNCHANGED <<filters, calls, pc, inner, hasValue, future, userVars>>

StartCall(k) ==
  /\ pc = "calling"
  /\ depth = filters
  /\ Made = 1..(k - 1)
  /\ calls' = [calls EXCEPT ![k] = "running"]
  /\ inner' = k
  /\ hasValue' = FALSE
  /\ UNCHANGED <<filters, depth, future, userVars>>

RequestMethodWithoutWait(k) == StartCall(k) /\ pc' = "returning"

\* RequestMethod makes the gRPC call.  Without filters its response context is
\* returned at once, otherwise it is returned by WaitResponseAsync.
RequestMethod(k) ==
  /\ StartCall(k)
  /\ pc' = IF filters = 0 THEN "returning" ELSE "waiting"

WaitResponseAsync ==
  /\ pc = "waiting"
  /\ calls[inner] # "running"
  /\ pc' = IF calls[inner] = "answered" THEN "returning" ELSE "throwing"
  /\ UNCHANGED <<filters, calls, depth, inner, hasValue, future, userVars>>

\* The innermost running filter lets the response or the exception through.
FilterEnds ==
  /\ pc \in {"returning", "throwing"}
  /\ depth > 0
  /\ depth' = depth - 1
  /\ UNCHANGED <<filters, calls, pc, inner, hasValue, future, userVars>>

\* It returns a response context with a value of its own: WithNewResult of the
\* response it has, or ResponseContext.Create, which has no gRPC call.
FilterAnswers ==
  /\ pc \in {"calling", "returning", "throwing"}
  /\ depth > 0
  /\ depth' = depth - 1
  /\ pc' = "returning"
  /\ hasValue' = TRUE
  /\ inner' \in IF pc = "returning" THEN {inner, None} ELSE {None}
  /\ UNCHANGED <<filters, calls, future, userVars>>

FilterThrows ==
  /\ pc \in {"calling", "returning"}
  /\ depth > 0
  /\ depth' = depth - 1
  /\ pc' = "throwing"
  /\ UNCHANGED <<filters, calls, inner, hasValue, future, userVars>>

\* It calls next again.
FilterRetries ==
  /\ pc \in {"returning", "throwing"}
  /\ depth > 0
  /\ Made # Ids
  /\ pc' = "calling"
  /\ UNCHANGED <<filters, calls, depth, inner, hasValue, future, userVars>>

\* InvokeUnaryCore returns what the outermost filter returned.
InvokeUnaryCore ==
  /\ pc \in {"returning", "throwing"}
  /\ (filters > 0 => depth = 0)
  /\ future' = IF pc = "returning" THEN "completed" ELSE "faulted"
  /\ pc' = "done"
  /\ UNCHANGED <<filters, calls, depth, inner, hasValue, userVars>>
-----------------------------------------------------------------------------
(***************************************************************************)
(* UnaryResult and ResponseContextRaw, called by the user of the client.   *)
(***************************************************************************)
\* GetAwaiter: UnwrapResponse.
Await ==
  /\ caller = "no"
  /\ caller' = "waiting"
  /\ UNCHANGED <<filters, calls, depth, pc, inner, hasValue, future, disposal>>

\* UnwrapResponse goes on when the response context is there and, unless it has
\* a value of its own, when the gRPC call has ended.
UnwrapIgnoringFault ==
  /\ caller = "waiting"
  /\ future = "completed"
  /\ hasValue \/ InnerState # "running"
  /\ caller' = IF hasValue \/ InnerState = "answered" THEN "value" ELSE "error"
  /\ UNCHANGED <<filters, calls, depth, pc, inner, hasValue, future, disposal>>

UnwrapResponse ==
  /\ caller = "waiting"
  /\ \/ future = "faulted" /\ caller' = "error"
     \/ /\ future = "completed"
        /\ hasValue \/ InnerState # "running"
        /\ caller' = IF hasValue \/ InnerState = "answered" THEN "value" ELSE "error"
  /\ UNCHANGED <<filters, calls, depth, pc, inner, hasValue, future, disposal>>

\* inner?.Dispose() cancels a call that runs.
DisposeContext ==
  calls' = IF InnerState = "running" THEN [calls EXCEPT ![inner] = "cancelled"] ELSE calls

Dispose ==
  /\ disposal = "no"
  /\ CASE future = "pending"   -> disposal' = "waiting" /\ UNCHANGED calls
       [] future = "completed" -> disposal' = "done" /\ DisposeContext
       [] future = "faulted"   -> disposal' = "threw" /\ UNCHANGED calls
  /\ UNCHANGED <<filters, depth, pc, inner, hasValue, future, caller>>

DisposeOnlyCompleted ==
  /\ disposal = "waiting"
  /\ future # "pending"
  /\ disposal' = "done"
  /\ UNCHANGED <<filters, calls, depth, pc, inner, hasValue, future, caller>>

\* UnwrapDispose: waits for the response context, and swallows what it throws.
UnwrapDispose ==
  /\ disposal = "waiting"
  /\ future # "pending"
  /\ disposal' = "done"
  /\ IF future = "completed" THEN DisposeContext ELSE UNCHANGED calls
  /\ UNCHANGED <<filters, depth, pc, inner, hasValue, future, caller>>

\* gRPC (external): the call is answered, or fails.
CallEnds(k) ==
  /\ calls[k] = "running"
  /\ \E s \in {"answered", "failed"} : calls' = [calls EXCEPT ![k] = s]
  /\ UNCHANGED <<filters, depth, pc, inner, hasValue, future, userVars>>

\* The caller need not await the result.
Done == pc = "done" /\ UNCHANGED vars
-----------------------------------------------------------------------------
ChainStep ==
  \/ FilterBegins \/ (\E k \in Ids : RequestMethod(k)) \/ WaitResponseAsync
  \/ FilterEnds \/ FilterAnswers \/ FilterThrows \/ FilterRetries \/ InvokeUnaryCore

Next ==
  \/ ChainStep
  \/ Await \/ UnwrapResponse \/ Dispose \/ UnwrapDispose
  \/ \E k \in Ids : CallEnds(k)
  \/ Done

Safety == Init /\ [][Next]_vars
-----------------------------------------------------------------------------
\* With filters, no gRPC call is left behind: one that a filter retried or
\* replaced has ended before the caller gets its result.
NoCallLeftBehind ==
  filters > 0 /\ caller \in {"value", "error"} => Running = {}

\* The caller of a unary method gets a value or an error, whatever the filters
\* do; what gRPC has to do for that is said in UnaryRoundTrip.
AwaitReturns == caller = "waiting" ~> caller \in {"value", "error"}

\* Dispose of a result whose gRPC call is not hidden by filters cancels it: no
\* call of this result runs for ever.
PlainDisposeCancels == filters = 0 /\ disposal # "no" ~> Running = {}
=============================================================================
