----------------------------- MODULE ServiceCalls ---------------------------
(***************************************************************************)
(* One call of a service method on the server: MethodHandler with the      *)
(* filters FilterHelper wraps around the method body, the helpers that set *)
(* ServiceContext.Result, the mapping of exceptions to a status, and the   *)
(* binder that gives the response to gRPC.                                 *)
(*                                                                         *)
(* Filters and the method body are application code: whatever the API lets *)
(* them do is a choice.  A filter may leave out the rest of the chain, run *)
(* it again, replace the result, throw, or catch what was thrown.          *)
(***************************************************************************)
EXTENDS FiniteSets, Naturals, Sequences, SequencesExt

CONSTANTS
  GlobalFilters, ClassFilters, MethodFilters,   \* sequences of filters
  Orders,          \* the values of IMagicOnionOrderedFilter.Order, among them the
                   \* int.MaxValue of a filter without an order
  Methods,         \* the methods: [type, boxed, stackTrace]
  Values,          \* results the method or a filter may set
  Codes,           \* status codes other than OK and Unknown
  MaxRuns          \* bound: how often the filters run the method body

Filters == ToSet(GlobalFilters) \cup ToSet(ClassFilters) \cup ToSet(MethodFilters)

VARIABLES
  method,        \* the method that is called
  order,         \* order[f]: the order of filter f
  pc,            \* "calling", "returning", "responding", "done"
  active,        \* the filters that run, the outermost first
  runs,          \* how often the method body ran
  thrown,        \* the exception that is being propagated, or NoException
  result,        \* ServiceContext.Result
  status,        \* ServerCallContext.Status
  response,      \* what the server method returned to the binder
  client,        \* [status, trace, value] that the client receives
  escaped        \* history: the exception that left the filters, or NoException

vars == <<method, order, pc, active, runs, thrown, result, status, response, client, escaped>>

NoException   == [kind |-> "none", code |-> "OK"]
Error         == [kind |-> "error", code |-> "Unknown"]
Returns(s)    == [kind |-> "status", code |-> s]     \* ReturnStatusException
Exceptions    == {NoException, Error} \cup {Returns(s) : s \in Codes}
Null          == [kind |-> "null"]
Default       == [kind |-> "default"]                \* default(TResponse) in a box
Plain(v)      == [kind |-> "value", value |-> v]
RawBytes(v)   == [kind |-> "raw", value |-> v]       \* RawBytesBox
Results       == {Null, Default} \cup {Plain(v) : v \in Values} \cup {RawBytes(v) : v \in Values}
HasResult     == method.type \in {"Unary", "ClientStreaming"}
Nothing       == [status |-> "none", trace |-> FALSE, value |-> Null]

(***************************************************************************)
(* FilterHelper.GetFilters: OrderBy is a stable sort.                      *)
(***************************************************************************)
NotAfter(s, j, i) ==
  \/ order[s[j]] < order[s[i]]
  \/ order[s[j]] = order[s[i]] /\ j <= i
Rank(s, i) == Cardinality({j \in DOMAIN s : NotAfter(s, j, i)})
OrderBy(s) == [k \in DOMAIN s |-> s[CHOOSE i \in DOMAIN s : Rank(s, i) = k]]

GetFiltersOfMethodFirst == OrderBy(GlobalFilters \o MethodFilters \o ClassFilters)
GetFilters == OrderBy(GlobalFilters \o ClassFilters \o MethodFilters)

TypeOK ==
  /\ method \in Methods
  /\ order \in [Filters -> Orders]
  /\ pc \in {"calling", "returning", "responding", "done"}
  /\ active \in Seq(Filters)
  /\ IsPrefix(active, GetFilters)
  /\ runs \in 0..MaxRuns
  /\ thrown \in Exceptions
  /\ result \in Results
  /\ status \in Codes \cup {"OK", "Unknown"}
  /\ response \in Results
  /\ client \in [status : Codes \cup {"none", "OK", "Unknown"}, trace : BOOLEAN, value : Results]
  /\ escaped \in Exceptions

Init ==
  /\ method \in Methods
  /\ order \in [Filters -> Orders]
  /\ pc = "calling"
  /\ active = <<>>
  /\ runs = 0
  /\ thrown = NoException
  /\ result = Null
  /\ status = "OK"
  /\ response = Null
  /\ client = Nothing
  /\ escaped = NoException
-----------------------------------------------------------------------------
\* WrapMethodBodyWithFilter: the delegate that `next` of the innermost running
\* filter calls is the next filter, or the method body.
NextIsBody == Len(active) = Len(GetFilters)

\* A filter is invoked and runs up to its call of next.
FilterBegins ==
  /\ pc = "calling"
  /\ ~NextIsBody
  /\ active' = Append(active, GetFilters[Len(active) + 1])
  /\ UNCHANGED <<method, order, pc, runs, thrown, result, status, response, client, escaped>>

\* The method body returns or throws; MethodHandlerResultHelper sets the
\* result of one that has a response, unless it returned the default of its
\* result type.
Body ==
  /\ pc = "calling"
  /\ NextIsBody
  /\ runs < MaxRuns
  /\ runs' = runs + 1
  /\ pc' = "returning"
  /\ \/ /\ thrown' = NoException
        /\ result' \in IF HasResult
                         THEN {result} \cup {Plain(v) : v \in Values}
                                       \cup (IF method.boxed THEN {} ELSE {Null})
                         ELSE {result}
     \/ /\ thrown' \in Exceptions \ {NoException}
        /\ UNCHANGED result
  /\ status' \in {status} \cup Codes              \* set by the body directly
  /\ UNCHANGED <<method, order, active, response, client, escaped>>

\* The innermost filter returns: it did not call next (then pc is "calling"),
\* or next is done.  It lets an exception pass, throws one, or catches it, and
\* may set the result (SetRawResponse, SetRawBytesResponse).
FilterEnds ==
  /\ pc \in {"calling", "returning"}
  /\ active # <<>>
  /\ active' = Front(active)
  /\ pc' = "returning"
  /\ thrown' \in Exceptions
  /\ result' \in {result} \cup {r \in Results : HasResult /\ r # Default}
  /\ UNCHANGED <<method, order, runs, status, response, client, escaped>>

\* A filter runs next once more.
FilterRetries ==
  /\ pc = "returning"
  /\ active # <<>>
  /\ runs < MaxRuns
  /\ thrown' = NoException
  /\ pc' = "calling"
  /\ UNCHANGED <<method, order, active, runs, result, status, response, client, escaped>>
-----------------------------------------------------------------------------
\* gRPC answers the call: the status is the one of the exception that left the
\* handler, or else the status of the call context.
Answer(s, trace, r) ==
  client' = [status |-> s, trace |-> trace, value |-> IF s = "OK" THEN r ELSE Null]

DefaultOf(m) == IF m.boxed THEN Default ELSE Null

\* The rest of the server methods, common to the four of them: the exception
\* that left the filters has been mapped to the response r and status s, or is
\* thrown on.
Respond(s, r) ==
  /\ status' = s
  /\ response' = r
  /\ pc' = "responding"
  /\ UNCHANGED client

Throw(s) ==
  /\ status' = s
  /\ pc' = "done"
  /\ Answer(s, FALSE, Null)
  /\ UNCHANGED response

Escapes ==
  /\ pc = "returning"
  /\ active = <<>>
  /\ escaped' = thrown
  /\ UNCHANGED <<method, order, active, runs, thrown, result>>

UnaryStatusReturned ==
  /\ Escapes
  /\ method.type = "Unary"
  /\ CASE thrown.kind = "none"   -> Respond(status, IF result # Null THEN result ELSE DefaultOf(method))
       [] thrown.kind = "status" -> Respond(thrown.code, Null)
       [] thrown.kind = "error"  -> IF method.stackTrace THEN Respond("Unknown", Null)
                                                         ELSE Throw("Unknown")

UnaryResponseOfType ==
  /\ Escapes
  /\ method.type = "Unary"
  /\ CASE thrown.kind = "none"   -> Respond(status, IF result.kind = "value" THEN result ELSE DefaultOf(method))
       [] thrown.kind = "status" -> Throw(thrown.code)
       [] thrown.kind = "error"  -> IF method.stackTrace THEN Respond("Unknown", Null)
                                                         ELSE Throw("Unknown")

UnaryServerMethod ==
  /\ Escapes
  /\ method.type = "Unary"
  /\ CASE thrown.kind = "none"   -> Respond(status, IF result # Null THEN result ELSE DefaultOf(method))
       [] thrown.kind = "status" -> Throw(thrown.code)
       [] thrown.kind = "error"  -> IF method.stackTrace THEN Respond("Unknown", Null)
                                                         ELSE Throw("Unknown")

\* ClientStreamingServerMethod: only a result of the response type counts.
ClientStreamingServerMethod ==
  /\ Escapes
  /\ method.type = "ClientStreaming"
  /\ LET default == DefaultOf(method)
     IN CASE thrown.kind = "none"   -> Respond(status, IF result.kind \in {"value", "default"}
                                                         THEN result ELSE default)
          [] thrown.kind = "status" -> Respond(thrown.code, default)
          [] thrown.kind = "error"  -> IF method.stackTrace THEN Respond("Unknown", default)
                                                            ELSE Throw("Unknown")

\* ServerStreamingServerMethod and DuplexStreamingServerMethod.
StreamingServerMethod ==
  /\ Escapes
  /\ method.type \in {"ServerStreaming", "DuplexStreaming"}
  /\ CASE thrown.kind = "none"   -> Respond(status, Null)
       [] thrown.kind = "status" -> Respond(thrown.code, Null)
       [] thrown.kind = "error"  -> IF method.stackTrace THEN Respond("Unknown", Null)
                                                         ELSE Throw("Unknown")

\* The binder: a response of a unary method is an object, which is RawBytesBox
\* or is cast to the response type.  The cast of null to a value type throws in
\* the binder, and gRPC answers as for any exception.
Bind ==
  /\ pc = "responding"
  /\ pc' = "done"
  /\ IF method.type = "Unary" /\ method.boxed /\ response = Null
       THEN Answer("Unknown", FALSE, Null)
       ELSE Answer(status, status = "Unknown", response)
  /\ UNCHANGED <<method, order, active, runs, thrown, result, status, response, escaped>>

Next ==
  \/ FilterBegins \/ Body \/ FilterEnds \/ FilterRetries
  \/ UnaryServerMethod \/ ClientStreamingServerMethod \/ StreamingServerMethod
  \/ Bind
-----------------------------------------------------------------------------
\* "[Manually ordered filters] -> [Global Filters] -> [Class Filters] ->
\* [Method Filters]": a filter that runs inside of another one has no right to
\* be the outer one.
Level(f) == CASE f \in ToSet(GlobalFilters) -> 1
              [] f \in ToSet(ClassFilters)  -> 2
              [] f \in ToSet(MethodFilters) -> 3

FiltersNested ==
  \A i, j \in DOMAIN active :
    i < j => \/ order[active[i]] < order[active[j]]
             \/ /\ order[active[i]] = order[active[j]]
                /\ Level(active[i]) <= Level(active[j])

\* The client is told the truth about what left the filters: the code of a
\* ReturnStatusException, Unknown for any other exception, and after a normal
\* end the status the method set itself.
StatusTold ==
  pc = "done" =>
    client.status = CASE escaped.kind = "none"   -> status
                      [] escaped.kind = "status" -> escaped.code
                      [] escaped.kind = "error"  -> "Unknown"
=============================================================================
