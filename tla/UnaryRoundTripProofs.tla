------------------------- MODULE UnaryRoundTripProofs -----------------------
(***************************************************************************)
(* The invariants of a unary call, for every number of filters on both     *)
(* sides, of retries, and for any orders of the server filters: those of   *)
(* UnaryCalls alone, the order of FilterHelper.GetFilters, and those of    *)
(* UnaryRoundTrip.                                                         *)
(***************************************************************************)
EXTENDS UnaryRoundTrip, FiniteSetTheorems, SequenceTheorems, TLAPS

\* What is being returned or waited for is there.
HasResponse ==
  /\ pc = "waiting" => inner # None
  /\ pc = "returning" => hasValue \/ inner # None

\* With filters, a gRPC call runs only while the chain waits for it.
RunsWhileWaiting ==
  filters > 0 => \A k \in Ids : calls[k] = "running" => pc = "waiting" /\ inner = k

\* The caller is resumed when the chain is done.
ResumedAfterChain == caller \in {"value", "error"} => pc = "done"

IInv ==
  /\ TypeOK
  /\ HasResponse
  /\ RunsWhileWaiting
  /\ ResumedAfterChain
-----------------------------------------------------------------------------
LEMMA InitIInv == Init => IInv
<1> SUFFICES ASSUME Init PROVE IInv
  OBVIOUS
<1>1. hasValue \in BOOLEAN
  BY Zenon DEF Init
<1>2. filters \in 0..MaxFilters /\ depth \in 0..filters
  BY NumAssumption DEF Init
<1>3. calls \in [Ids -> {"none", "running", "answered", "failed", "cancelled"}]
  BY DEF Init
<1>4. TypeOK
  BY <1>1, <1>2, <1>3 DEF Init, TypeOK
<1>5. HasResponse /\ RunsWhileWaiting /\ ResumedAfterChain
  BY DEF Init, HasResponse, RunsWhileWaiting, ResumedAfterChain
<1> QED
  BY <1>4, <1>5 DEF IInv

\* A call whose state changes, but that was made, stays made.
LEMMA ChainIInv == ASSUME IInv, ChainStep PROVE IInv'
<1> USE NumAssumption, NoneAssumption
    DEF IInv, TypeOK, HasResponse, RunsWhileWaiting, ResumedAfterChain, Ids, Made, userVars
<1>1. CASE FilterBegins
  BY <1>1 DEF FilterBegins
<1>2. ASSUME NEW k \in Ids, RequestMethod(k) PROVE IInv'
  <2>1. /\ pc = "calling" /\ depth = filters /\ inner' = k /\ hasValue' = FALSE
        /\ calls' = [calls EXCEPT ![k] = "running"]
        /\ UNCHANGED <<filters, depth, future, caller, disposal>>
        /\ pc' = IF filters = 0 THEN "returning" ELSE "waiting"
    BY <1>2 DEF RequestMethod, StartCall
  <2>2. TypeOK'
    BY <2>1
  <2>3. RunsWhileWaiting'
    BY <2>1
  <2> QED
    BY <2>1, <2>2, <2>3
<1>3. CASE WaitResponseAsync
  <2>1. /\ pc = "waiting" /\ inner \in Ids /\ calls[inner] # "running"
        /\ pc' \in {"returning", "throwing"}
        /\ UNCHANGED <<filters, calls, depth, inner, hasValue, future, caller, disposal>>
    BY <1>3 DEF WaitResponseAsync
  <2> QED
    BY <2>1
<1>4. CASE FilterEnds
  BY <1>4 DEF FilterEnds
<1>5. CASE FilterAnswers
  BY <1>5 DEF FilterAnswers
<1>6. CASE FilterThrows
  BY <1>6 DEF FilterThrows
<1>7. CASE FilterRetries
  BY <1>7 DEF FilterRetries
<1>8. CASE InvokeUnaryCore
  BY <1>8 DEF InvokeUnaryCore
<1> QED
  BY <1>1, <1>2, <1>3, <1>4, <1>5, <1>6, <1>7, <1>8 DEF ChainStep

\* Disposing of the response context cancels the call it has, if it runs.
LEMMA ContextIInv ==
  ASSUME IInv, pc = "done", DisposeContext,
         disposal' \in {"no", "asked", "waiting", "done", "threw"},
         UNCHANGED <<filters, depth, pc, inner, hasValue, future, caller>>
  PROVE  IInv'
<1> USE NumAssumption, NoneAssumption
    DEF IInv, TypeOK, HasResponse, RunsWhileWaiting, ResumedAfterChain, Ids, Made
<1>1. CASE InnerState # "running"
  BY <1>1 DEF DisposeContext
<1>2. CASE InnerState = "running"
  <2>1. inner \in Ids /\ calls' = [calls EXCEPT ![inner] = "cancelled"]
    BY <1>2 DEF DisposeContext, InnerState
  <2> QED
    BY <2>1
<1> QED
  BY <1>1, <1>2

LEMMA UserIInv ==
  ASSUME IInv, Await \/ UnwrapResponse \/ Dispose \/ UnwrapDispose PROVE IInv'
<1> USE NumAssumption, NoneAssumption
<1>1. CASE Await
  BY <1>1 DEF Await, IInv, TypeOK, HasResponse, RunsWhileWaiting, ResumedAfterChain, Ids, Made
<1>2. CASE UnwrapResponse
  BY <1>2 DEF UnwrapResponse, IInv, TypeOK, HasResponse, RunsWhileWaiting, ResumedAfterChain,
              Ids, Made
<1>3. CASE Dispose
  <2>1. CASE future = "completed"
    BY <1>3, <2>1, ContextIInv DEF Dispose, IInv, TypeOK
  <2>2. CASE future # "completed"
    <3>1. UNCHANGED <<calls, filters, depth, pc, inner, hasValue, future, caller>>
      BY <1>3, <2>2 DEF Dispose, IInv, TypeOK
    <3>2. disposal' \in {"waiting", "threw"}
      BY <1>3, <2>2 DEF Dispose, IInv, TypeOK
    <3> QED
      BY <3>1, <3>2 DEF IInv, TypeOK, HasResponse, RunsWhileWaiting, ResumedAfterChain, Ids, Made
  <2> QED
    BY <2>1, <2>2
<1>4. CASE UnwrapDispose
  <2>1. CASE future = "completed"
    BY <1>4, <2>1, ContextIInv DEF UnwrapDispose, IInv, TypeOK
  <2>2. CASE future # "completed"
    BY <1>4, <2>2 DEF UnwrapDispose, IInv, TypeOK, HasResponse, RunsWhileWaiting,
                      ResumedAfterChain, Ids, Made
  <2> QED
    BY <2>1, <2>2
<1> QED
  BY <1>1, <1>2, <1>3, <1>4

LEMMA NextIInv == IInv /\ [Next]_vars => IInv'
<1> SUFFICES ASSUME IInv, [Next]_vars PROVE IInv'
  OBVIOUS
<1>1. ASSUME NEW k \in Ids, CallEnds(k) PROVE IInv'
  BY <1>1 DEF CallEnds, IInv, TypeOK, HasResponse, RunsWhileWaiting, ResumedAfterChain, Ids,
              Made, userVars
<1>2. CASE UNCHANGED vars
  BY <1>2 DEF vars, IInv, TypeOK, HasResponse, RunsWhileWaiting, ResumedAfterChain, Ids, Made
<1> QED
  BY <1>1, <1>2, ChainIInv, UserIInv DEF Next, Done

LEMMA Invariance == Safety => []IInv
BY InitIInv, NextIInv, PTL DEF Safety
-----------------------------------------------------------------------------
\* The variables keep their types; a response task that completes has a value
\* or a gRPC call to get it from.
THEOREM Typing == Safety => []TypeOK
<1>1. IInv => TypeOK
  BY DEF IInv
<1> QED
  BY <1>1, Invariance, PTL

\* However often the filters call next again, and whatever they answer with:
\* when the caller has its result no gRPC call of it is running.
THEOREM LeavesNoCall == Safety => []NoCallLeftBehind
<1>1. IInv => NoCallLeftBehind
  BY DEF IInv, NoCallLeftBehind, RunsWhileWaiting, ResumedAfterChain, Running
<1> QED
  BY <1>1, Invariance, PTL
-----------------------------------------------------------------------------
(***************************************************************************)
(* FilterHelper.GetFilters sorts, and keeps the order of registration.      *)
(***************************************************************************)
LEMMA OrdersAreNumbers ==
  ASSUME NEW s \in Seq(Server!Filters), order \in [Server!Filters -> Orders]
  PROVE  /\ DOMAIN s = 1..Len(s)
         /\ Len(s) \in Nat
         /\ \A k \in DOMAIN s : s[k] \in Server!Filters /\ order[s[k]] \in Int /\ k \in Nat
<1>1. DOMAIN s = 1..Len(s) /\ Len(s) \in Nat
  OBVIOUS
<1>2. \A k \in DOMAIN s : s[k] \in Server!Filters /\ k \in Nat
  BY <1>1
<1>3. \A f \in Server!Filters : order[f] \in Int
  BY OrdersAssumption
<1> QED
  BY <1>1, <1>2, <1>3

\* The instance of ServiceCalls has the operator under a name of its own.
LEMMA SameCardinality == ASSUME NEW S PROVE Server!Cardinality(S) = Cardinality(S)
BY Zenon DEF Cardinality, Server!Cardinality

LEMMA RankDef ==
  ASSUME NEW s, NEW i
  PROVE  Server!Rank(s, i) = Cardinality({l \in DOMAIN s : Server!NotAfter(s, l, i)})
BY Zenon, SameCardinality DEF Server!Rank

LEMMA RankGrows ==
  ASSUME NEW s \in Seq(Server!Filters), order \in [Server!Filters -> Orders],
         NEW i \in DOMAIN s, NEW j \in DOMAIN s, Server!NotAfter(s, j, i), i # j
  PROVE  Server!Rank(s, j) < Server!Rank(s, i)
<1> DEFINE Before(k) == {l \in DOMAIN s : Server!NotAfter(s, l, k)}
<1>1. \A k \in DOMAIN s : order[s[k]] \in Int /\ k \in Nat
  BY OrdersAreNumbers
<1>2. Before(j) \subseteq Before(i)
  BY <1>1 DEF Server!NotAfter
<1>3. i \in Before(i) /\ i \notin Before(j)
  BY <1>1 DEF Server!NotAfter
<1>4. IsFiniteSet(DOMAIN s)
  BY FS_Interval
<1>5. IsFiniteSet(Before(i)) /\ IsFiniteSet(Before(j))
  BY <1>4, FS_Subset
<1>6. Cardinality(Before(j)) <= Cardinality(Before(i)) /\ Cardinality(Before(j)) # Cardinality(Before(i))
  BY <1>2, <1>3, <1>5, FS_Subset
<1>7. Cardinality(Before(j)) \in Nat /\ Cardinality(Before(i)) \in Nat
  BY <1>5, FS_CardinalityType
<1> QED
  BY <1>6, <1>7, RankDef

LEMMA RankIsIndex ==
  ASSUME NEW s \in Seq(Server!Filters), order \in [Server!Filters -> Orders],
         NEW k \in DOMAIN s
  PROVE  \E i \in DOMAIN s : Server!Rank(s, i) = k
<1> DEFINE rank == [i \in DOMAIN s |-> Server!Rank(s, i)]
<1>1. \A i \in DOMAIN s : order[s[i]] \in Int /\ i \in Nat
  BY OrdersAreNumbers
<1>2. IsFiniteSet(DOMAIN s) /\ DOMAIN s = 1..Len(s) /\ Cardinality(DOMAIN s) = Len(s) /\ Len(s) \in Nat
  BY FS_Interval
<1>3. ASSUME NEW i \in DOMAIN s PROVE Server!Rank(s, i) \in DOMAIN s
  <2> DEFINE B == {l \in DOMAIN s : Server!NotAfter(s, l, i)}
  <2>1. IsFiniteSet(B) /\ Cardinality(B) <= Len(s) /\ Cardinality(B) \in Nat
    BY <1>2, FS_Subset, FS_CardinalityType
  <2>2. i \in B
    BY <1>1 DEF Server!NotAfter
  <2>3. Cardinality(B) # 0
    BY <2>1, <2>2, FS_EmptySet
  <2> QED
    BY <1>2, <2>1, <2>3, RankDef
<1>4. ASSUME NEW i \in DOMAIN s, NEW j \in DOMAIN s, i # j PROVE rank[i] # rank[j]
  <2>1. Server!NotAfter(s, i, j) \/ Server!NotAfter(s, j, i)
    BY <1>1 DEF Server!NotAfter
  <2>2. Server!Rank(s, i) < Server!Rank(s, j) \/ Server!Rank(s, j) < Server!Rank(s, i)
    BY <2>1, <1>4, RankGrows
  <2> QED
    BY <2>2, <1>3, <1>2
<1>5. rank \in [DOMAIN s -> DOMAIN s]
  BY <1>3
<1>6. rank \in Injection(DOMAIN s, DOMAIN s)
  BY <1>4, <1>5 DEF Injection, IsInjective
<1>7. rank \in Surjection(DOMAIN s, DOMAIN s)
  BY <1>2, <1>6, FS_Injection
<1> QED
  BY <1>7 DEF Surjection

LEMMA OrderBySorts ==
  ASSUME NEW s \in Seq(Server!Filters), order \in [Server!Filters -> Orders]
  PROVE  /\ Server!OrderBy(s) \in Seq(Server!Filters)
         /\ DOMAIN Server!OrderBy(s) = DOMAIN s
         /\ \A i, j \in DOMAIN s : i < j =>
              \E a, b \in DOMAIN s :
                /\ Server!OrderBy(s)[i] = s[a]
                /\ Server!OrderBy(s)[j] = s[b]
                /\ \/ order[s[a]] < order[s[b]]
                   \/ order[s[a]] = order[s[b]] /\ a < b
<1> DEFINE From(k) == CHOOSE i \in DOMAIN s : Server!Rank(s, i) = k
<1>1. Server!OrderBy(s) = [k \in DOMAIN s |-> s[From(k)]]
  BY DEF Server!OrderBy
<1>2. ASSUME NEW k \in DOMAIN s PROVE From(k) \in DOMAIN s /\ Server!Rank(s, From(k)) = k
  BY RankIsIndex
<1>3. \A k \in DOMAIN s : order[s[k]] \in Int /\ k \in Nat
  BY OrdersAreNumbers
<1>4. ASSUME NEW i \in DOMAIN s, NEW j \in DOMAIN s, i < j
      PROVE  \/ order[s[From(i)]] < order[s[From(j)]]
             \/ order[s[From(i)]] = order[s[From(j)]] /\ From(i) < From(j)
  <2> HIDE DEF From
  <2>1. From(i) # From(j)
    BY <1>2, <1>3, <1>4
  <2>2. ~Server!NotAfter(s, From(j), From(i))
    <3> SUFFICES ASSUME Server!NotAfter(s, From(j), From(i)) PROVE FALSE
      OBVIOUS
    <3>1. Server!Rank(s, From(j)) < Server!Rank(s, From(i))
      BY <1>2, <2>1, RankGrows
    <3> QED
      BY <3>1, <1>2, <1>3, <1>4
  <2> QED
    BY <1>2, <1>3, <2>1, <2>2 DEF Server!NotAfter
<1> HIDE DEF From
<1>5. Server!OrderBy(s) \in Seq(Server!Filters)
  <2>1. Server!OrderBy(s) \in [1..Len(s) -> Server!Filters]
    BY <1>1, <1>2, OrdersAreNumbers
  <2>2. Len(s) \in Nat
    OBVIOUS
  <2> QED
    BY <2>1, <2>2, SeqDef
<1> QED
  BY <1>1, <1>2, <1>4, <1>5

Registered == GlobalFilters \o ClassFilters \o MethodFilters

LEMMA LevelOf ==
  /\ \A i \in DOMAIN GlobalFilters : Server!Level(GlobalFilters[i]) = 1
  /\ \A i \in DOMAIN ClassFilters : Server!Level(ClassFilters[i]) = 2
  /\ \A i \in DOMAIN MethodFilters : Server!Level(MethodFilters[i]) = 3
<1> DEFINE G == {GlobalFilters[i] : i \in DOMAIN GlobalFilters}
           C == {ClassFilters[i] : i \in DOMAIN ClassFilters}
           M == {MethodFilters[i] : i \in DOMAIN MethodFilters}
<1>1. G \cap C = {} /\ G \cap M = {} /\ C \cap M = {}
  BY FiltersAssumption
<1>0. /\ \A i \in DOMAIN GlobalFilters : GlobalFilters[i] \in G
      /\ \A i \in DOMAIN ClassFilters : ClassFilters[i] \in C
      /\ \A i \in DOMAIN MethodFilters : MethodFilters[i] \in M
  OBVIOUS
<1> HIDE DEF G, C, M
<1>2. \A f : Server!Level(f) = CASE f \in G -> 1 [] f \in C -> 2 [] f \in M -> 3
  BY Zenon DEF Server!Level, Server!ToSet, G, C, M
<1>3. \A f : /\ f \in G => Server!Level(f) = 1
             /\ f \in C => Server!Level(f) = 2
             /\ f \in M => Server!Level(f) = 3
  BY <1>1, <1>2
<1> QED
  BY <1>0, <1>3

LEMMA RegisteredByLevel ==
  /\ Registered \in Seq(Server!Filters)
  /\ \A a, b \in DOMAIN Registered :
       a < b => /\ Server!Level(Registered[a]) \in 1..3
                /\ Server!Level(Registered[b]) \in 1..3
                /\ Server!Level(Registered[a]) <= Server!Level(Registered[b])
<1> DEFINE GC == GlobalFilters \o ClassFilters
<1>1. /\ GlobalFilters \in Seq(Server!Filters)
      /\ ClassFilters \in Seq(Server!Filters)
      /\ MethodFilters \in Seq(Server!Filters)
  BY FiltersAssumption
<1>2. /\ GC \in Seq(Server!Filters)
      /\ Len(GC) = Len(GlobalFilters) + Len(ClassFilters)
      /\ \A a \in 1..Len(GC) :
           GC[a] = IF a <= Len(GlobalFilters) THEN GlobalFilters[a]
                                              ELSE ClassFilters[a - Len(GlobalFilters)]
  BY <1>1, ConcatProperties
<1>3. \A a \in 1..Len(GC) :
        Server!Level(GC[a]) = IF a <= Len(GlobalFilters) THEN 1 ELSE 2
  BY <1>1, <1>2, LevelOf
<1> HIDE DEF GC
<1>4. /\ Registered \in Seq(Server!Filters)
      /\ Len(Registered) = Len(GC) + Len(MethodFilters)
      /\ \A a \in 1..Len(Registered) :
           Registered[a] = IF a <= Len(GC) THEN GC[a] ELSE MethodFilters[a - Len(GC)]
  <2>1. Registered = GC \o MethodFilters
    BY DEF Registered, GC
  <2>2. GC \in Seq(Server!Filters)
    BY <1>2
  <2>3. /\ GC \o MethodFilters \in Seq(Server!Filters)
        /\ Len(GC \o MethodFilters) = Len(GC) + Len(MethodFilters)
        /\ \A a \in 1..(Len(GC) + Len(MethodFilters)) :
             (GC \o MethodFilters)[a] = IF a <= Len(GC) THEN GC[a] ELSE MethodFilters[a - Len(GC)]
    BY <1>1, <2>2, ConcatProperties
  <2> QED
    BY <2>1, <2>3
<1>5. \A a \in 1..Len(Registered) :
        Server!Level(Registered[a]) = IF a <= Len(GC) THEN Server!Level(GC[a]) ELSE 3
  <2>1. \A a \in 1..Len(Registered) : a > Len(GC) => a - Len(GC) \in DOMAIN MethodFilters
    BY <1>1, <1>2, <1>4
  <2>2. Len(GC) \in Nat
    BY <1>2
  <2> QED
    BY <1>4, <2>1, <2>2, LevelOf
<1> QED
  BY <1>1, <1>2, <1>3, <1>4, <1>5

\* FilterHelper.GetFilters: of two filters in the sorted list the first one may
\* be the outer one.
LEMMA GetFiltersNested ==
  ASSUME order \in [Server!Filters -> Orders]
  PROVE  /\ Server!GetFilters \in Seq(Server!Filters)
         /\ \A i, j \in DOMAIN Server!GetFilters : i < j =>
              LET f == Server!GetFilters[i]
                  g == Server!GetFilters[j]
              IN  \/ order[f] < order[g]
                  \/ order[f] = order[g] /\ Server!Level(f) <= Server!Level(g)
<1>1. Server!GetFilters = Server!OrderBy(Registered)
  BY DEF Server!GetFilters, Registered
<1>2. Registered \in Seq(Server!Filters)
  BY RegisteredByLevel
<1>3. \A i, j \in DOMAIN Registered : i < j =>
        \E a, b \in DOMAIN Registered :
          /\ Server!GetFilters[i] = Registered[a]
          /\ Server!GetFilters[j] = Registered[b]
          /\ \/ order[Registered[a]] < order[Registered[b]]
             \/ order[Registered[a]] = order[Registered[b]] /\ a < b
  BY <1>1, <1>2, OrderBySorts
<1>4. Server!GetFilters \in Seq(Server!Filters) /\ DOMAIN Server!GetFilters = DOMAIN Registered
  BY <1>1, <1>2, OrderBySorts
<1> QED
  BY <1>3, <1>4, RegisteredByLevel
-----------------------------------------------------------------------------
(***************************************************************************)
(* The server's part of the call.                                          *)
(***************************************************************************)
\* The filters that run are the first ones of the sorted list.
ActiveIsPrefix ==
  /\ active \in Seq(Server!Filters)
  /\ Len(active) <= Len(Server!GetFilters)
  /\ \A i \in 1..Len(active) : active[i] = Server!GetFilters[i]

ReturnedResult == IF result # Server!Null THEN result ELSE Server!DefaultOf(method)

\* What the server method returns to the binder fits what left the filters; a
\* null that the binder cannot cast comes with an error.
Responding ==
  step = "responding" =>
    /\ escaped.kind = "status" => status = escaped.code
    /\ escaped.kind = "error" => status = "Unknown"
    /\ IsUnary /\ escaped.kind = "none" => response = ReturnedResult
    /\ IsUnary /\ method.boxed /\ response = Server!Null => escaped.kind = "error"

\* Only an OK comes with a value, and the value is the result.
Responded ==
  step = "done" =>
    /\ Server!StatusTold
    /\ IsUnary /\ client.status = "OK" =>
         /\ escaped.kind = "none"
         /\ client.value = ReturnedResult

ServerIInv ==
  /\ order \in [Server!Filters -> Orders]
  /\ ActiveIsPrefix
  /\ thrown \in Server!Exceptions
  /\ escaped \in Server!Exceptions
  /\ Responding
  /\ Responded

LEMMA ExceptionKinds ==
  /\ Server!NoException \in Server!Exceptions
  /\ \A e \in Server!Exceptions :
       /\ e.kind \in {"none", "status", "error"}
       /\ e.kind = "status" => e.code \in Codes
BY DEF Server!Exceptions, Server!NoException, Server!Error, Server!Returns

LEMMA SameGetFilters == UNCHANGED order => Server!GetFilters' = Server!GetFilters
BY DEF Server!GetFilters, Server!OrderBy, Server!Rank, Server!NotAfter

LEMMA ServerInitIInv == Server!Init => ServerIInv
<1> SUFFICES ASSUME Server!Init PROVE ServerIInv
  OBVIOUS
<1>1. /\ order \in [Server!Filters -> Orders] /\ step = "calling" /\ active = <<>>
      /\ thrown = Server!NoException /\ escaped = Server!NoException
  BY DEF Server!Init
<1>2. Server!GetFilters \in Seq(Server!Filters)
  BY <1>1, GetFiltersNested
<1>3. ActiveIsPrefix
  BY <1>1, <1>2 DEF ActiveIsPrefix
<1> QED
  BY <1>1, <1>3, ExceptionKinds DEF ServerIInv, Responding, Responded

\* A step that leaves the filters as they are.
LEMMA SameActive ==
  ASSUME ServerIInv, UNCHANGED <<order, active>>
  PROVE  order' \in [Server!Filters -> Orders] /\ ActiveIsPrefix'
<1>1. Server!GetFilters' = Server!GetFilters
  BY SameGetFilters
<1> QED
  BY <1>1 DEF ServerIInv, ActiveIsPrefix

LEMMA NewHandlerIInv == ASSUME ServerIInv, NewHandler PROVE ServerIInv'
<1>1. /\ step' = "calling" /\ active' = <<>> /\ order' = order
      /\ thrown' = Server!NoException /\ escaped' = Server!NoException
  BY DEF NewHandler
<1>2. Server!GetFilters \in Seq(Server!Filters)
  BY GetFiltersNested DEF ServerIInv
<1>3. Server!GetFilters' = Server!GetFilters
  BY <1>1, SameGetFilters
<1>4. ActiveIsPrefix'
  BY <1>1, <1>2, <1>3 DEF ActiveIsPrefix
<1> QED
  BY <1>1, <1>4, ExceptionKinds DEF ServerIInv, Responding, Responded

\* The end of a server method, whatever its type: what left the filters becomes
\* a response with a status, or is thrown on.
LEMMA EscapesIInv ==
  ASSUME ServerIInv, Server!Escapes, NEW s,
         thrown.kind = "status" => s = thrown.code,
         thrown.kind = "error" => s = "Unknown",
         \/ /\ thrown.kind # "none"
            /\ Server!Throw(s)
         \/ \E r : /\ Server!Respond(s, r)
                   /\ IsUnary /\ thrown.kind = "none" => r = ReturnedResult
                   /\ IsUnary /\ method.boxed /\ r = Server!Null => thrown.kind = "error"
  PROVE  ServerIInv'
<1>1. UNCHANGED <<method, order, active, thrown, result>> /\ escaped' = thrown
  BY DEF Server!Escapes
<1>2. ReturnedResult' = ReturnedResult /\ IsUnary' = IsUnary
  BY <1>1 DEF ReturnedResult, IsUnary, Server!DefaultOf
<1>3. CASE thrown.kind # "none" /\ Server!Throw(s)
  <2>1. step' = "done" /\ client'.status = s
    BY <1>3 DEF Server!Throw, Server!Answer
  <2>2. s # "OK"
    BY <1>3, CodesAssumption, ExceptionKinds DEF ServerIInv
  <2>3. Responded'
    BY <1>1, <1>3, <2>1, <2>2, ExceptionKinds DEF ServerIInv, Responded, Server!StatusTold
  <2> QED
    BY <1>1, <2>1, <2>3, SameActive DEF ServerIInv, Responding
<1>4. ASSUME NEW r, Server!Respond(s, r),
             IsUnary /\ thrown.kind = "none" => r = ReturnedResult,
             IsUnary /\ method.boxed /\ r = Server!Null => thrown.kind = "error"
      PROVE  ServerIInv'
  <2>1. step' = "responding" /\ status' = s /\ response' = r
    BY <1>4 DEF Server!Respond
  <2>2. Responding'
    BY <1>1, <1>2, <1>4, <2>1 DEF Responding, Server!Null
  <2> QED
    BY <1>1, <2>1, <2>2, SameActive DEF ServerIInv, Responded
<1> QED
  BY <1>3, <1>4

LEMMA FrontProperties ==
  ASSUME NEW S, NEW s \in Seq(S), s # <<>>
  PROVE  /\ SubSeq(s, 1, Len(s) - 1) \in Seq(S)
         /\ Len(SubSeq(s, 1, Len(s) - 1)) = Len(s) - 1
         /\ \A i \in 1..(Len(s) - 1) : SubSeq(s, 1, Len(s) - 1)[i] = s[i]
<1> DEFINE n == Len(s) - 1
           t == SubSeq(s, 1, n)
<1>1. n \in Nat /\ n \in 0..Len(s)
  BY EmptySeq
<1>2. \A i \in 1..n : s[i] \in S
  BY <1>1
<1> HIDE DEF n
<1>3. t = [i \in 1..n |-> s[i]]
  BY <1>1, SubSeqRestrict DEF Restrict
<1>4. t \in [1..n -> S]
  BY <1>2, <1>3
<1>5. t \in Seq(S)
  BY <1>1, <1>4, SeqDef
<1>6. Len(t) = n
  BY <1>1, <1>3, <1>5
<1> QED
  BY <1>3, <1>5, <1>6 DEF n

LEMMA ServerNextIInv ==
  ASSUME ServerIInv, step # "done", Server!Next PROVE ServerIInv'
<1>1. CASE Server!FilterBegins
  <2>1. /\ UNCHANGED <<order, step, thrown, escaped>>
        /\ step = "calling"
        /\ active' = Append(active, Server!GetFilters[Len(active) + 1])
        /\ Len(active) # Len(Server!GetFilters)
    BY <1>1 DEF Server!FilterBegins, Server!NextIsBody
  <2>2. Server!GetFilters \in Seq(Server!Filters)
    BY GetFiltersNested DEF ServerIInv
  <2>3. Server!GetFilters' = Server!GetFilters
    BY <2>1, SameGetFilters
  <2>4. ActiveIsPrefix'
    BY <2>1, <2>2, <2>3 DEF ServerIInv, ActiveIsPrefix
  <2> QED
    BY <2>1, <2>4 DEF ServerIInv, Responding, Responded
<1>2. CASE Server!Body
  <2>1. /\ UNCHANGED <<order, active, escaped>>
        /\ step' = "returning"
        /\ thrown' \in Server!Exceptions
    BY <1>2, ExceptionKinds DEF Server!Body
  <2> QED
    BY <2>1, SameActive DEF ServerIInv, Responding, Responded
<1>3. CASE Server!FilterEnds
  <2>1. /\ UNCHANGED <<order, escaped>>
        /\ step' = "returning"
        /\ thrown' \in Server!Exceptions
        /\ active # <<>> /\ active' = SubSeq(active, 1, Len(active) - 1)
    BY <1>3 DEF Server!FilterEnds, Server!Front
  <2>2. Server!GetFilters \in Seq(Server!Filters)
    BY GetFiltersNested DEF ServerIInv
  <2>3. Server!GetFilters' = Server!GetFilters
    BY <2>1, SameGetFilters
  <2>4. /\ active' \in Seq(Server!Filters)
        /\ Len(active') = Len(active) - 1
        /\ \A i \in 1..Len(active') : active'[i] = active[i]
    BY <2>1, FrontProperties DEF ServerIInv, ActiveIsPrefix
  <2>5. ActiveIsPrefix'
    BY <2>2, <2>3, <2>4 DEF ServerIInv, ActiveIsPrefix
  <2> QED
    BY <2>1, <2>5 DEF ServerIInv, Responding, Responded
<1>4. CASE Server!FilterRetries
  <2>1. /\ UNCHANGED <<order, active, escaped>>
        /\ step' = "calling"
        /\ thrown' \in Server!Exceptions
    BY <1>4, ExceptionKinds DEF Server!FilterRetries
  <2> QED
    BY <2>1, SameActive DEF ServerIInv, Responding, Responded
<1>5. CASE Server!UnaryServerMethod
  <2>1. Server!Escapes /\ IsUnary
    BY <1>5 DEF Server!UnaryServerMethod, IsUnary
  <2>2. CASE thrown.kind = "none"
    <3>1. Server!Respond(status, ReturnedResult)
      BY <1>5, <2>2 DEF Server!UnaryServerMethod, ReturnedResult
    <3>2. method.boxed => ReturnedResult # Server!Null
      BY DEF ReturnedResult, Server!DefaultOf, Server!Null, Server!Default
    <3> QED
      BY <2>1, <2>2, <3>1, <3>2, EscapesIInv
  <2>3. CASE thrown.kind = "status"
    <3>1. Server!Throw(thrown.code)
      BY <1>5, <2>3 DEF Server!UnaryServerMethod
    <3> QED
      BY <2>1, <2>3, <3>1, EscapesIInv
  <2>4. CASE thrown.kind = "error"
    <3>1. Server!Respond("Unknown", Server!Null) \/ Server!Throw("Unknown")
      BY <1>5, <2>4 DEF Server!UnaryServerMethod
    <3> QED
      BY <2>1, <2>4, <3>1, EscapesIInv
  <2> QED
    BY <2>2, <2>3, <2>4, ExceptionKinds DEF ServerIInv
<1>6. CASE Server!ClientStreamingServerMethod \/ Server!StreamingServerMethod
  <2>1. Server!Escapes /\ ~IsUnary
    BY <1>6 DEF Server!ClientStreamingServerMethod, Server!StreamingServerMethod, IsUnary
  <2>2. CASE thrown.kind = "none"
    <3>1. \E r : Server!Respond(status, r)
      BY <1>6, <2>2 DEF Server!ClientStreamingServerMethod, Server!StreamingServerMethod
    <3> QED
      BY <2>1, <2>2, <3>1, EscapesIInv
  <2>3. CASE thrown.kind = "status"
    <3>1. \E r : Server!Respond(thrown.code, r)
      BY <1>6, <2>3 DEF Server!ClientStreamingServerMethod, Server!StreamingServerMethod
    <3> QED
      BY <2>1, <2>3, <3>1, EscapesIInv
  <2>4. CASE thrown.kind = "error"
    <3>1. (\E r : Server!Respond("Unknown", r)) \/ Server!Throw("Unknown")
      BY <1>6, <2>4 DEF Server!ClientStreamingServerMethod, Server!StreamingServerMethod
    <3> QED
      BY <2>1, <2>4, <3>1, EscapesIInv
  <2> QED
    BY <2>2, <2>3, <2>4, ExceptionKinds DEF ServerIInv
<1>7. CASE Server!Bind
  <2>1. /\ UNCHANGED <<method, order, active, thrown, result, status, response, escaped>>
        /\ step = "responding" /\ step' = "done"
    BY <1>7 DEF Server!Bind
  <2>2. CASE IsUnary /\ method.boxed /\ response = Server!Null
    <3>1. client'.status = "Unknown"
      BY <1>7, <2>2 DEF Server!Bind, Server!Answer, IsUnary
    <3> QED
      BY <2>1, <2>2, <3>1, SameActive
      DEF ServerIInv, Responding, Responded, Server!StatusTold, IsUnary
  <2>3. CASE ~(IsUnary /\ method.boxed /\ response = Server!Null)
    <3>1. client'.status = status /\ (status = "OK" => client'.value = response)
      BY <1>7, <2>3 DEF Server!Bind, Server!Answer, IsUnary
    <3>2. IsUnary /\ status = "OK" => escaped.kind = "none"
      BY <2>1, CodesAssumption, ExceptionKinds DEF ServerIInv, Responding
    <3>3. ReturnedResult' = ReturnedResult /\ IsUnary' = IsUnary
      BY <2>1 DEF ReturnedResult, IsUnary, Server!DefaultOf
    <3>4. Responded'
      BY <2>1, <3>1, <3>2, <3>3, ExceptionKinds
      DEF ServerIInv, Responding, Responded, Server!StatusTold
    <3> QED
      BY <2>1, <3>4, SameActive DEF ServerIInv, Responding
  <2> QED
    BY <2>2, <2>3
<1> QED
  BY <1>1, <1>2, <1>3, <1>4, <1>5, <1>6, <1>7 DEF Server!Next
-----------------------------------------------------------------------------
(***************************************************************************)
(* The round trip.                                                         *)
(***************************************************************************)
\* Only the last gRPC call can run or be in the response context.
RunningIsNewest ==
  /\ inner # None => Made = 1..inner
  /\ \A k \in Running : Made = 1..k
  /\ filters = 0 /\ pc = "calling" => Made = {}

\* The last gRPC call has the answer the server gave; the value of the caller is
\* the answer of the call in the response context.
Delivered ==
  /\ \A k \in Ids : Made = 1..k /\ calls[k] = "answered" =>
       /\ step = "done"
       /\ client.status = "OK"
  /\ caller = "value" /\ ~hasValue => inner # None /\ calls[inner] = "answered"

RoundTripIInv ==
  /\ IInv
  /\ ServerIInv
  /\ RunningIsNewest
  /\ Delivered

LEMMA RoundTripInitIInv == RoundTripInit => RoundTripIInv
<1> SUFFICES ASSUME RoundTripInit PROVE RoundTripIInv
  OBVIOUS
<1>1. RunningIsNewest /\ Delivered
  BY DEF RoundTripInit, Init, RunningIsNewest, Delivered, Made, Running
<1> QED
  BY <1>1, InitIInv, ServerInitIInv DEF RoundTripInit, RoundTripIInv

\* A step of the round trip is one of UnaryCalls, or leaves its variables alone.
LEMMA RoundTripStep == RoundTripNext => [Next]_vars
<1>1. ASSUME NEW k \in Ids, Answered(k) PROVE CallEnds(k)
  BY <1>1 DEF Answered, CallEnds
<1>2. ASSUME NEW k \in Ids, Lost(k) PROVE CallEnds(k)
  BY <1>2 DEF Lost
<1> QED
  BY <1>1, <1>2 DEF RoundTripNext, Next, ChainStep, Chain, Request, Unwrap, UnwrapDisposal, ServerStep

\* What becomes of the server's part.
LEMMA HandlerStep ==
  ASSUME ServerIInv, [RoundTripNext]_allVars PROVE ServerIInv'
<1>1. CASE UNCHANGED serverVars
  <2>1. UNCHANGED <<method, order, step, active, runs, thrown, result, status, response,
                    client, escaped>>
    BY <1>1 DEF serverVars, handlerVars
  <2> QED
    BY <2>1, SameActive
    DEF ServerIInv, Responding, Responded, ReturnedResult, IsUnary, Server!StatusTold,
        Server!DefaultOf
<1>2. CASE NewHandler
  BY <1>2, NewHandlerIInv
<1>3. CASE ServerStep
  BY <1>3, ServerNextIInv DEF ServerStep
<1>4. UNCHANGED serverVars \/ NewHandler \/ ServerStep
  BY DEF RoundTripNext, Chain, Request, Unwrap, UnwrapDisposal, Answered, Lost, allVars
<1> QED
  BY <1>1, <1>2, <1>3, <1>4

\* No step makes a gRPC call while another one runs.
LEMMA NewestStep ==
  ASSUME IInv, RunningIsNewest, [Next]_vars PROVE RunningIsNewest'
<1> USE NumAssumption, NoneAssumption
<1>1. ASSUME NEW k \in Ids, RequestMethod(k) PROVE RunningIsNewest'
  <2>1. /\ pc = "calling" /\ depth = filters /\ Made = 1..(k - 1) /\ inner' = k
        /\ calls' = [calls EXCEPT ![k] = "running"]
        /\ filters' = filters /\ pc' # "calling"
    BY <1>1 DEF RequestMethod, StartCall
  <2>2. Running = {}
    <3>1. CASE filters = 0
      BY <2>1, <3>1 DEF RunningIsNewest, Made, Running
    <3>2. CASE filters > 0
      BY <2>1, <3>2 DEF IInv, RunsWhileWaiting, Running
    <3> QED
      BY <3>1, <3>2 DEF IInv, TypeOK
  <2>3. Made' = Made \cup {k}
    BY <2>1 DEF IInv, TypeOK, Made
  <2>4. Made' = 1..k
    BY <2>1, <2>3 DEF Ids
  <2>5. Running' = {k}
    BY <2>1, <2>2 DEF IInv, TypeOK, Running
  <2> QED
    BY <2>1, <2>4, <2>5 DEF RunningIsNewest
<1>2. ASSUME Made' = Made, Running' \subseteq Running, inner' \in {inner, None},
             filters' = filters, filters = 0 /\ pc' = "calling" => pc = "calling"
      PROVE  RunningIsNewest'
  BY <1>2 DEF RunningIsNewest
<1>3. ASSUME calls' = calls, inner' \in {inner, None}, filters' = filters,
             filters = 0 /\ pc' = "calling" => pc = "calling"
      PROVE  RunningIsNewest'
  BY <1>2, <1>3 DEF Made, Running
<1>4. CASE FilterBegins \/ WaitResponseAsync \/ FilterEnds \/ FilterAnswers \/ FilterThrows
           \/ FilterRetries \/ InvokeUnaryCore
  BY <1>3, <1>4
  DEF FilterBegins, WaitResponseAsync, FilterEnds, FilterAnswers, FilterThrows, FilterRetries,
      InvokeUnaryCore, IInv, TypeOK
<1>5. ASSUME DisposeContext, UNCHANGED <<inner, filters, pc>> PROVE RunningIsNewest'
  <2>1. Made' = Made /\ Running' \subseteq Running
    BY <1>5 DEF DisposeContext, InnerState, IInv, TypeOK, Made, Running, Ids
  <2> QED
    BY <1>2, <1>5, <2>1
<1>6. CASE Await \/ UnwrapResponse \/ Dispose \/ UnwrapDispose
  BY <1>3, <1>5, <1>6 DEF Await, UnwrapResponse, Dispose, UnwrapDispose, IInv, TypeOK
<1>7. ASSUME NEW k \in Ids, CallEnds(k) PROVE RunningIsNewest'
  <2>1. Made' = Made /\ Running' \subseteq Running /\ UNCHANGED <<inner, filters, pc>>
    BY <1>7 DEF CallEnds, IInv, TypeOK, Made, Running
  <2> QED
    BY <1>2, <2>1
<1>8. CASE UNCHANGED vars
  BY <1>3, <1>8 DEF vars
<1> QED
  BY <1>1, <1>4, <1>6, <1>7, <1>8 DEF Next, ChainStep, Done

\* A step that makes no gRPC call an answered one.
LEMMA DeliveredKept ==
  ASSUME RoundTripIInv, Made' = Made,
         \A k \in Ids : calls'[k] = "answered" <=> calls[k] = "answered",
         UNCHANGED <<step, client>>,
         inner' = inner, hasValue' = hasValue, caller' = "value" => caller = "value"
  PROVE  Delivered'
<1>1. caller = "value" /\ ~hasValue => inner \in Ids
  BY DEF RoundTripIInv, Delivered, IInv, TypeOK, Made
<1> QED
  BY <1>1 DEF RoundTripIInv, Delivered

\* The last gRPC call fails, and the server begins anew with the next one.
LEMMA FailedKept ==
  ASSUME RoundTripIInv, NEW k \in Ids, calls[k] = "running",
         calls' = [calls EXCEPT ![k] = "failed"], UNCHANGED <<inner, hasValue, caller>>
  PROVE  Delivered'
<1>1. Made = 1..k /\ Made' = Made
  BY DEF RoundTripIInv, RunningIsNewest, Running, IInv, TypeOK, Made
<1>2. \A j \in Ids : Made = 1..j => j = k
  BY <1>1, NumAssumption DEF Ids
<1>3. calls'[k] = "failed" /\ \A j \in Ids : j # k => calls'[j] = calls[j]
  BY DEF RoundTripIInv, IInv, TypeOK
<1> QED
  BY <1>1, <1>2, <1>3 DEF RoundTripIInv, Delivered, IInv, TypeOK, Made

LEMMA DeliveredStep ==
  ASSUME RoundTripIInv, [RoundTripNext]_allVars PROVE Delivered'
<1> USE NumAssumption, NoneAssumption
<1>1. ASSUME NEW k \in Ids, RequestMethod(k), NewHandler PROVE Delivered'
  <2>1. /\ pc = "calling" /\ Made = 1..(k - 1) /\ caller' = caller
        /\ calls' = [calls EXCEPT ![k] = "running"]
    BY <1>1 DEF RequestMethod, StartCall, userVars
  <2>2. Made' = 1..k
    BY <1>1, NewestStep, <2>1 DEF RoundTripIInv, RunningIsNewest, Running, Next, ChainStep,
                                  IInv, TypeOK
  <2>3. caller' # "value"
    BY <2>1 DEF RoundTripIInv, IInv, ResumedAfterChain
  <2>4. \A j \in Ids : Made' = 1..j => j = k
    BY <2>2 DEF Ids
  <2> QED
    BY <2>1, <2>3, <2>4 DEF RoundTripIInv, Delivered, IInv, TypeOK
<1>2. CASE /\ \/ FilterBegins \/ WaitResponseAsync \/ FilterEnds \/ FilterAnswers
              \/ FilterThrows \/ FilterRetries \/ InvokeUnaryCore
           /\ UNCHANGED serverVars
  <2>1. UNCHANGED <<calls, step, client, caller>> /\ pc # "done"
    BY <1>2 DEF FilterBegins, WaitResponseAsync, FilterEnds, FilterAnswers, FilterThrows,
                FilterRetries, InvokeUnaryCore, userVars, serverVars, handlerVars
  <2>2. caller # "value"
    BY <2>1 DEF RoundTripIInv, IInv, ResumedAfterChain
  <2> QED
    BY <2>1, <2>2 DEF RoundTripIInv, Delivered, Made
<1>3. CASE UnwrapResponse /\ UNCHANGED serverVars
  <2>1. /\ UNCHANGED <<calls, step, client, inner, hasValue>>
        /\ caller' = "value" => hasValue \/ InnerState = "answered"
    BY <1>3 DEF UnwrapResponse, serverVars, handlerVars
  <2>2. InnerState = "answered" => inner # None /\ calls[inner] = "answered"
    BY DEF InnerState
  <2> QED
    BY <2>1, <2>2 DEF RoundTripIInv, Delivered, Made
<1>4. ASSUME DisposeContext, UNCHANGED <<inner, hasValue, caller>>, UNCHANGED serverVars
      PROVE  Delivered'
  <2>1. /\ Made' = Made
        /\ \A k \in Ids : calls'[k] = "answered" <=> calls[k] = "answered"
    BY <1>4 DEF DisposeContext, InnerState, RoundTripIInv, IInv, TypeOK, Made
  <2> QED
    BY <1>4, <2>1, DeliveredKept DEF serverVars, handlerVars
<1>5. ASSUME UNCHANGED <<calls, inner, hasValue>>, caller' \in {caller, "waiting"},
             UNCHANGED serverVars
      PROVE  Delivered'
  BY <1>5, DeliveredKept DEF Made, serverVars, handlerVars
<1>6. CASE (Await \/ Dispose \/ UnwrapDispose) /\ UNCHANGED serverVars
  BY <1>4, <1>5, <1>6 DEF Await, Dispose, UnwrapDispose, RoundTripIInv, IInv, TypeOK
<1>7. ASSUME NEW k \in Ids, Answered(k) PROVE Delivered'
  <2>1. CASE client.status = "OK"
    <3>1. /\ calls[k] = "running" /\ calls' = [calls EXCEPT ![k] = "answered"]
          /\ step' = "done" /\ client'.status = "OK"
          /\ UNCHANGED <<inner, hasValue, caller>>
      BY <1>7, <2>1 DEF Answered, serverVars, handlerVars, userVars
    <3>2. \A j \in Ids : calls[j] = "answered" => calls'[j] = "answered"
      BY <3>1 DEF RoundTripIInv, IInv, TypeOK
    <3>3. caller = "value" /\ ~hasValue => inner \in Ids
      BY DEF RoundTripIInv, Delivered, IInv, TypeOK, Made
    <3> QED
      BY <3>1, <3>2, <3>3 DEF RoundTripIInv, Delivered
  <2>2. CASE client.status # "OK"
    BY <1>7, <2>2, FailedKept DEF Answered, userVars
  <2> QED
    BY <2>1, <2>2
<1>8. ASSUME NEW k \in Ids, Lost(k) PROVE Delivered'
  <2>1. /\ calls[k] = "running" /\ calls' = [calls EXCEPT ![k] = "failed"]
        /\ UNCHANGED <<inner, hasValue, caller>>
    BY <1>8 DEF Lost, CallEnds, userVars, RoundTripIInv, IInv, TypeOK
  <2> QED
    BY <2>1, FailedKept
<1>9. CASE ServerStep
  BY <1>9 DEF ServerStep, vars, RoundTripIInv, Delivered, Made
<1>10. CASE UNCHANGED allVars
  BY <1>5, <1>10 DEF allVars, vars
<1> QED
  BY <1>1, <1>2, <1>3, <1>6, <1>7, <1>8, <1>9, <1>10
  DEF RoundTripNext, Chain, Request, Unwrap, UnwrapDisposal

LEMMA RoundTripNextIInv == RoundTripIInv /\ [RoundTripNext]_allVars => RoundTripIInv'
<1> SUFFICES ASSUME RoundTripIInv, [RoundTripNext]_allVars PROVE RoundTripIInv'
  OBVIOUS
<1>1. [Next]_vars
  BY RoundTripStep DEF allVars
<1>2. IInv' /\ RunningIsNewest'
  BY <1>1, NextIInv, NewestStep DEF RoundTripIInv
<1>3. ServerIInv' /\ Delivered'
  BY HandlerStep, DeliveredStep DEF RoundTripIInv
<1> QED
  BY <1>2, <1>3 DEF RoundTripIInv

LEMMA RoundTripInvariance == RoundTripSpec => []RoundTripIInv
BY RoundTripInitIInv, RoundTripNextIInv, PTL DEF RoundTripSpec
-----------------------------------------------------------------------------
\* Whatever the server does, the client of a round trip behaves as UnaryCalls
\* says of a client whose gRPC calls end in any way.
THEOREM ImplementsUnaryCalls == RoundTripSpec => Safety
<1>1. RoundTripInit => Init
  BY DEF RoundTripInit
<1>2. [RoundTripNext]_allVars => [Next]_vars
  BY RoundTripStep DEF allVars
<1> QED
  BY <1>1, <1>2, PTL DEF RoundTripSpec, Safety

\* In a round trip, too, no gRPC call is left behind by the client filters.
THEOREM RoundTripLeavesNoCall == RoundTripSpec => []NoCallLeftBehind
BY LeavesNoCall, ImplementsUnaryCalls, PTL

\* FilterHelper.GetFilters: however many filters there are and whatever their
\* orders, those that run are nested in the documented order.
THEOREM NestsFilters == RoundTripSpec => []FiltersNested
<1>1. RoundTripIInv => FiltersNested
  <2> SUFFICES ASSUME RoundTripIInv,
                      NEW i \in DOMAIN active, NEW j \in DOMAIN active, i < j
               PROVE  \/ order[active[i]] < order[active[j]]
                      \/ /\ order[active[i]] = order[active[j]]
                         /\ Server!Level(active[i]) <= Server!Level(active[j])
    BY DEF FiltersNested, Server!FiltersNested
  <2>1. Server!GetFilters \in Seq(Server!Filters)
    BY GetFiltersNested DEF RoundTripIInv, ServerIInv
  <2>2. /\ i \in DOMAIN Server!GetFilters /\ active[i] = Server!GetFilters[i]
        /\ j \in DOMAIN Server!GetFilters /\ active[j] = Server!GetFilters[j]
    BY <2>1 DEF RoundTripIInv, ServerIInv, ActiveIsPrefix
  <2> QED
    BY <2>2, GetFiltersNested DEF RoundTripIInv, ServerIInv
<1> QED
  BY <1>1, RoundTripInvariance, PTL

\* MethodHandler, for every kind of method: the status that the client is told
\* is that of the exception which left the filters, or the one the method set.
THEOREM TellsStatus == RoundTripSpec => []StatusTold
<1>1. RoundTripIInv => StatusTold
  BY DEF RoundTripIInv, ServerIInv, Responded, StatusTold, Server!StatusTold
<1> QED
  BY <1>1, RoundTripInvariance, PTL

\* However often the client filters call next again: the value of a caller is
\* the result of the last call, in which no exception left the server filters.
THEOREM DeliversResult == RoundTripSpec => []ResultReachesCaller
<1>1. RoundTripIInv => ResultReachesCaller
  <2> SUFFICES ASSUME RoundTripIInv, IsUnary, caller = "value", ~hasValue
               PROVE  /\ inner = CHOOSE k \in Made : \A j \in Made : j <= k
                      /\ client.status = "OK"
                      /\ escaped.kind = "none"
                      /\ client.value = IF result = Server!Null
                                          THEN Server!DefaultOf(method) ELSE result
    BY DEF ResultReachesCaller
  <2>1. inner \in Ids /\ calls[inner] = "answered" /\ Made = 1..inner
    BY DEF RoundTripIInv, Delivered, RunningIsNewest, IInv, TypeOK, Made
  <2>2. step = "done" /\ client.status = "OK"
    BY <2>1 DEF RoundTripIInv, Delivered
  <2>3. escaped.kind = "none" /\ client.value = ReturnedResult
    BY <2>2 DEF RoundTripIInv, ServerIInv, Responded
  <2>4. inner = CHOOSE k \in Made : \A j \in Made : j <= k
    <3>1. /\ inner \in Made /\ \A j \in Made : j <= inner
          /\ \A k \in Made : (\A j \in Made : j <= k) => k = inner
      BY <2>1, NumAssumption DEF Ids
    <3> QED
      BY <3>1
  <2> QED
    BY <2>2, <2>3, <2>4 DEF ReturnedResult
<1> QED
  BY <1>1, RoundTripInvariance, PTL
=============================================================================
