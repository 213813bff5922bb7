-------------------------- MODULE SharedUtilsProofs --------------------------
(***************************************************************************)
(* Proofs about the two classes of MagicOnion.Shared/Utils that are        *)
(* modelled: ReservedWhenAllPromise, for every finite set of tasks, and    *)
(* UniqueHashDictionary, for every list of handlers, every set of hash     *)
(* codes and every length of the table.                                    *)
(***************************************************************************)
EXTENDS ReservedWhenAllPromise, HandlerTable, FiniteSetTheorems, TLAPS

-----------------------------------------------------------------------------
(* ReservedWhenAllPromise.                                                  *)

TaskPlaces  == {"idle", "counting", "exchanging", "spinning", "done"}
OwnerPlaces == {"idle", "counting", "exchanging", "spinning", "subscribing",
                "publishing", "rechecking", "done"}

Types ==
  /\ status \in [Tasks -> {"running", "succeeded", "faulted"}]
  /\ toAdd \in SUBSET Tasks
  /\ registered \in SUBSET Tasks
  /\ completedCount \in Nat
  /\ exception \in BOOLEAN
  /\ continuation \in {"available", "awaiter", "completed"}
  /\ stateSet \in BOOLEAN
  /\ pc \in [Threads -> OwnerPlaces]
  /\ \A t \in Tasks : pc[t] \in TaskPlaces
  /\ resumed \in Nat
  /\ result \in {"none", "succeeded", "faulted"}

\* The tasks whose success was counted, or is about to be by the owner.
Counted ==
  {t \in Tasks : /\ t \notin toAdd
                 /\ status[t] = "succeeded"
                 /\ t \in registered => pc[t] \notin {"idle", "counting"}}

CountIsRight ==
  completedCount + (IF pc[Owner] = "counting" THEN 1 ELSE 0) = Cardinality(Counted)

\* A task calls back when it was registered and has ended; one that was
\* added and not registered had ended before.
CallbacksOfEnded ==
  /\ \A t \in toAdd : t \notin registered
  /\ \A t \in Tasks : pc[t] # "idle" => t \in registered /\ status[t] # "running"
  /\ \A t \in Tasks : t \notin toAdd /\ t \notin registered => status[t] # "running"
  /\ \A t \in Tasks : pc[t] = "counting" => status[t] = "succeeded"

ExceptionIsReal == exception => \E t \in Tasks : status[t] = "faulted"

\* Nobody exchanges, and nothing is resumed, before the promise is settled.
OnlyWhenSettled ==
  /\ \A x \in Threads : pc[x] \in {"exchanging", "spinning"} => ~Pending
  /\ continuation = "completed" => ~Pending
  /\ result = "succeeded" => completedCount = resultCount
  /\ result = "faulted" => exception

\* The awaiter is in one hand at most: not yet given, stored in the
\* promise, taken by one thread, or resumed.
OneHand ==
  /\ \A x, y \in Threads : pc[x] = "spinning" /\ pc[y] = "spinning" => x = y
  /\ \A x \in Threads : pc[x] = "spinning" =>
       resumed = 0 /\ continuation = "completed"
  /\ continuation = "awaiter" => resumed = 0 /\ pc[Owner] \notin {"idle", "counting", "subscribing"}
  /\ (pc[Owner] \in {"idle", "counting", "subscribing"} \/ (pc[Owner] = "exchanging" /\ ~stateSet)) =>
       /\ resumed = 0
       /\ continuation # "awaiter"
       /\ \A x \in Threads : pc[x] # "spinning"
  /\ pc[Owner] \in {"idle", "counting", "subscribing", "publishing"} => ~stateSet
  /\ pc[Owner] = "rechecking" => stateSet
  /\ pc[Owner] = "spinning" => stateSet
  /\ resumed \in {0, 1}

Inv == /\ Types /\ CountIsRight /\ CallbacksOfEnded /\ ExceptionIsReal
       /\ OnlyWhenSettled /\ OneHand
-----------------------------------------------------------------------------
\* Never more successes are counted than there are tasks, and when all are
\* counted every task succeeded.
LEMMA CountBound ==
  ASSUME Types, CountIsRight
  PROVE  /\ resultCount \in Nat
         /\ Cardinality(Counted) \in Nat
         /\ IsFiniteSet(Counted)
         /\ Cardinality(Counted) <= resultCount
         /\ completedCount <= Cardinality(Counted)
         /\ completedCount = resultCount => Counted = Tasks
<1>1. resultCount \in Nat
  BY TasksAssumption, FS_CardinalityType DEF resultCount
<1>2. Counted \subseteq Tasks
  BY DEF Counted
<1>3. /\ IsFiniteSet(Counted) /\ Cardinality(Counted) <= resultCount
      /\ Cardinality(Counted) = resultCount => Counted = Tasks
  BY <1>2, TasksAssumption, FS_Subset DEF resultCount
<1>4. Cardinality(Counted) \in Nat
  BY <1>3, FS_CardinalityType
<1>5. completedCount \in Nat
  BY DEF Types
<1>6. completedCount <= Cardinality(Counted)
  BY <1>4, <1>5 DEF CountIsRight
<1> QED
  BY <1>1, <1>3, <1>4, <1>5, <1>6

\* A thread that is about to count is not yet counted: the counter is below
\* the number reserved.
LEMMA RoomToCount ==
  ASSUME Types, CountIsRight, CallbacksOfEnded, NEW x \in Threads, pc[x] = "counting"
  PROVE  completedCount < resultCount
<1>1. CASE x = Owner
  <2>1. completedCount + 1 = Cardinality(Counted)
    BY <1>1 DEF CountIsRight
  <2> QED
    BY <2>1, CountBound DEF Types
<1>2. CASE x \in Tasks
  <2>1. x \notin Counted
    BY <1>2 DEF Counted, CallbacksOfEnded
  <2>2. completedCount # resultCount
    BY <1>2, <2>1, CountBound
  <2> QED
    BY <2>2, CountBound DEF Types
<1> QED
  BY <1>1, <1>2 DEF Threads

\* The invariant holds initially.
LEMMA InitInv == Init => Inv
<1> SUFFICES ASSUME Init PROVE Inv
  OBVIOUS
<1>1. Types
  BY DEF Init, Types, Threads, OwnerPlaces, TaskPlaces
<1>2. CountIsRight
  <2>1. Counted = {}
    BY DEF Init, Counted
  <2> QED
    BY <2>1, FS_EmptySet DEF Init, CountIsRight, Threads
<1>3. CallbacksOfEnded /\ ExceptionIsReal /\ OnlyWhenSettled
  BY DEF Init, CallbacksOfEnded, ExceptionIsReal, OnlyWhenSettled, Threads
<1>4. OneHand
  BY DEF Init, OneHand, Threads
<1> QED
  BY <1>1, <1>2, <1>3, <1>4 DEF Inv

\* A step that leaves the tasks and the counter alone keeps the counting
\* right, if no task is or was counting or idle and the owner did not count.
LEMMA SameCount ==
  ASSUME UNCHANGED completedCount, Counted' = Counted,
         (pc[Owner] = "counting") <=> (pc'[Owner] = "counting"), CountIsRight
  PROVE  CountIsRight'
<1>1. CASE pc[Owner] = "counting"
  BY <1>1 DEF CountIsRight
<1>2. CASE pc[Owner] # "counting"
  BY <1>2 DEF CountIsRight
<1> QED
  BY <1>1, <1>2

\* A task ends.
LEMMA CompleteInv ==
  ASSUME Inv, NEW t \in Tasks, Complete(t)
  PROVE  Inv'
<1> USE DEF Inv
<1>1. Types'
  BY DEF Types, Complete
<1>2. CountIsRight'
  <2>1. Counted' = Counted
    BY DEF Complete, Counted, CallbacksOfEnded, Types
  <2> QED
    BY <2>1, SameCount DEF Complete
<1>3. CallbacksOfEnded'
  BY DEF CallbacksOfEnded, Complete, Types
<1>4. ExceptionIsReal'
  BY DEF ExceptionIsReal, Complete, Types
<1>5. OnlyWhenSettled'
  BY DEF OnlyWhenSettled, Complete, Pending, resultCount
<1>6. OneHand'
  BY DEF OneHand, Complete
<1> QED
  BY <1>1, <1>2, <1>3, <1>4, <1>5, <1>6

\* The owner adds a task.
LEMMA AddInv ==
  ASSUME Inv, NEW t \in Tasks, Add(t)
  PROVE  Inv'
<1> USE DEF Inv
<1>a. Owner \in Threads /\ Owner \notin Tasks /\ \A x \in Tasks : x \in Threads /\ x # Owner
  BY TasksAssumption DEF Threads
<1>b. \A x \in Threads : x # Owner => pc'[x] = pc[x]
  BY <1>a DEF Add, Goto, Types
<1>c. pc'[Owner] \in {"idle", "counting"} /\ pc[Owner] = "idle"
      /\ (pc'[Owner] = "counting" <=> status[t] = "succeeded")
  BY <1>a DEF Add, Goto, Types
<1>1. Types'
  BY <1>a, <1>b DEF Types, Add, Goto, OwnerPlaces
<1>2. CountIsRight'
  <2>1. CASE status[t] = "succeeded"
    <3>1. Counted' = Counted \cup {t} /\ t \notin Counted
      BY <1>a, <1>b, <2>1 DEF Add, Counted, CallbacksOfEnded
    <3>2. Cardinality(Counted') = Cardinality(Counted) + 1
      BY <3>1, CountBound, FS_AddElement
    <3> QED
      BY <1>c, <2>1, <3>2, CountBound DEF CountIsRight, Add, Types
  <2>2. CASE status[t] # "succeeded"
    <3>1. Counted' = Counted
      BY <1>a, <1>b, <2>2 DEF Add, Counted
    <3> QED
      BY <1>c, <2>2, <3>1, SameCount DEF Add
  <2> QED
    BY <2>1, <2>2
<1>3. CallbacksOfEnded'
  BY <1>a, <1>b DEF CallbacksOfEnded, Add, Types
<1>4. ExceptionIsReal'
  BY DEF ExceptionIsReal, Add
<1>5. OnlyWhenSettled'
  BY <1>b, <1>c DEF OnlyWhenSettled, Add, Pending, resultCount, Types
<1>6. OneHand'
  BY <1>b, <1>c DEF OneHand, Add
<1> QED
  BY <1>1, <1>2, <1>3, <1>4, <1>5, <1>6

\* The callback of a task starts.
LEMMA CallbackInv ==
  ASSUME Inv, NEW t \in Tasks, ContinuationWithCapture(t)
  PROVE  Inv'
<1> USE DEF Inv
<1>a. t \in Threads /\ t # Owner /\ Owner \in Threads /\ pc[t] = "idle"
  BY TasksAssumption DEF Threads, ContinuationWithCapture
<1>b. /\ \A x \in Threads : x # t => pc'[x] = pc[x]
      /\ pc'[t] = IF status[t] = "faulted" THEN "exchanging" ELSE "counting"
  BY <1>a DEF ContinuationWithCapture, Goto, Types
<1>1. Types'
  BY <1>a DEF Types, ContinuationWithCapture, Goto, OwnerPlaces, TaskPlaces
<1>2. CountIsRight'
  <2>1. Counted' = Counted
    BY <1>a, <1>b DEF ContinuationWithCapture, Counted, Types, Threads
  <2> QED
    BY <1>a, <1>b, <2>1, SameCount DEF ContinuationWithCapture
<1>3. CallbacksOfEnded'
  BY <1>a, <1>b DEF CallbacksOfEnded, ContinuationWithCapture, Types, Threads
<1>4. ExceptionIsReal'
  BY DEF ExceptionIsReal, ContinuationWithCapture
<1>5. OnlyWhenSettled'
  BY <1>a, <1>b DEF OnlyWhenSettled, ContinuationWithCapture, Pending, resultCount, Types
<1>6. OneHand'
  BY <1>a, <1>b DEF OneHand, ContinuationWithCapture
<1> QED
  BY <1>1, <1>2, <1>3, <1>4, <1>5, <1>6

\* A success is counted.
LEMMA IncrementInv ==
  ASSUME Inv, NEW x \in Threads, Increment(x)
  PROVE  Inv'
<1> USE DEF Inv
<1>a. /\ Owner \in Threads /\ Owner \notin Tasks /\ \A y \in Tasks : y \in Threads
      /\ x = Owner \/ x \in Tasks
      /\ pc[x] = "counting" /\ completedCount' = completedCount + 1
  BY TasksAssumption DEF Threads, Increment
<1>b. /\ \A y \in Threads : y # x => pc'[y] = pc[y]
      /\ pc'[x] = IF completedCount' = resultCount THEN "exchanging"
                  ELSE IF x = Owner THEN "idle" ELSE "done"
  BY <1>a DEF Increment, Goto, Types
<1>c. completedCount \in Nat /\ completedCount < resultCount /\ resultCount \in Nat
  BY <1>a, RoomToCount, CountBound DEF Types
<1>1. Types'
  BY <1>a, <1>b, <1>c DEF Types, Increment, Goto, OwnerPlaces, TaskPlaces
<1>2. CountIsRight'
  <2>1. CASE x = Owner
    <3>1. Counted' = Counted
      BY <1>a, <1>b, <2>1 DEF Increment, Counted
    <3> QED
      BY <1>a, <1>b, <1>c, <2>1, <3>1, CountBound DEF CountIsRight
  <2>2. CASE x \in Tasks
    <3>1. Counted' = Counted \cup {x} /\ x \notin Counted
      BY <1>a, <1>b, <2>2 DEF Increment, Counted, CallbacksOfEnded
    <3>2. Cardinality(Counted') = Cardinality(Counted) + 1
      BY <3>1, CountBound, FS_AddElement
    <3>3. pc'[Owner] = pc[Owner]
      BY <1>a, <1>b, <2>2
    <3> QED
      BY <1>a, <1>c, <3>2, <3>3, CountBound DEF CountIsRight
  <2> QED
    BY <1>a, <2>1, <2>2
<1>3. CallbacksOfEnded'
  BY <1>a, <1>b DEF CallbacksOfEnded, Increment
<1>4. ExceptionIsReal'
  BY DEF ExceptionIsReal, Increment
<1>5. OnlyWhenSettled'
  <2>1. \A y \in Threads : y # x => pc'[y] = pc[y]
    BY <1>b
  <2>2. UNCHANGED <<exception, continuation, result, resultCount>>
    BY DEF Increment, resultCount
  <2>3. Pending' => Pending
    BY <1>c, <2>2 DEF Pending
  <2>4. pc'[x] \in {"exchanging", "spinning"} => completedCount' = resultCount
    BY <1>b
  <2>5. result # "succeeded"
    BY <1>c DEF OnlyWhenSettled
  <2> QED
    BY <2>1, <2>2, <2>3, <2>4, <2>5 DEF OnlyWhenSettled, Pending
<1>6. OneHand'
  BY <1>a, <1>b DEF OneHand, Increment
<1> QED
  BY <1>1, <1>2, <1>3, <1>4, <1>5, <1>6

\* The continuation is exchanged.
LEMMA ExchangeInv ==
  ASSUME Inv, NEW x \in Threads, ExchangeContinuation(x)
  PROVE  Inv'
<1> USE DEF Inv
<1>a. /\ Owner \in Threads /\ Owner \notin Tasks /\ \A y \in Tasks : y \in Threads
      /\ x = Owner \/ x \in Tasks
      /\ pc[x] = "exchanging" /\ continuation' = "completed"
  BY TasksAssumption DEF Threads, ExchangeContinuation
<1>b. /\ \A y \in Threads : y # x => pc'[y] = pc[y]
      /\ pc'[x] = IF continuation = "awaiter" THEN "spinning"
                  ELSE IF x = Owner /\ ~stateSet THEN "idle" ELSE "done"
  BY <1>a DEF ExchangeContinuation, Goto, Types, After
<1>1. Types'
  BY <1>a, <1>b DEF Types, ExchangeContinuation, Goto, OwnerPlaces, TaskPlaces, After
<1>2. CountIsRight'
  <2>1. Counted' = Counted
    BY <1>a, <1>b DEF ExchangeContinuation, Counted
  <2> QED
    BY <1>a, <1>b, <2>1, SameCount DEF ExchangeContinuation
<1>3. CallbacksOfEnded'
  BY <1>a, <1>b DEF CallbacksOfEnded, ExchangeContinuation
<1>4. ExceptionIsReal'
  BY DEF ExceptionIsReal, ExchangeContinuation
<1>5. OnlyWhenSettled'
  BY <1>a, <1>b DEF OnlyWhenSettled, ExchangeContinuation, Pending, resultCount
<1>6. OneHand'
  BY <1>a, <1>b DEF OneHand, ExchangeContinuation, Types
<1> QED
  BY <1>1, <1>2, <1>3, <1>4, <1>5, <1>6

\* The awaiter is resumed by the thread that took it.
LEMMA InvokeInv ==
  ASSUME Inv, NEW x \in Threads, InvokeContinuation(x)
  PROVE  Inv'
<1> USE DEF Inv
<1>a. /\ Owner \in Threads /\ Owner \notin Tasks /\ \A y \in Tasks : y \in Threads
      /\ x = Owner \/ x \in Tasks
      /\ pc[x] = "spinning" /\ stateSet
  BY TasksAssumption DEF Threads, InvokeContinuation
<1>b. /\ \A y \in Threads : y # x => pc'[y] = pc[y]
      /\ pc'[x] = "done"
  BY <1>a DEF InvokeContinuation, Goto, Types
<1>1. Types'
  BY <1>a, <1>b DEF Types, InvokeContinuation, Goto, OwnerPlaces, TaskPlaces, Resume
<1>2. CountIsRight'
  <2>1. Counted' = Counted
    BY <1>a, <1>b DEF InvokeContinuation, Counted
  <2> QED
    BY <1>a, <1>b, <2>1, SameCount DEF InvokeContinuation
<1>3. CallbacksOfEnded'
  BY <1>a, <1>b DEF CallbacksOfEnded, InvokeContinuation
<1>4. ExceptionIsReal'
  BY DEF ExceptionIsReal, InvokeContinuation
<1>5. OnlyWhenSettled'
  BY <1>a, <1>b DEF OnlyWhenSettled, InvokeContinuation, Pending, resultCount, Resume
<1>6. OneHand'
  BY <1>a, <1>b DEF OneHand, InvokeContinuation, Resume, Types
<1> QED
  BY <1>1, <1>2, <1>3, <1>4, <1>5, <1>6

\* The owner awaits.
LEMMA AwaitInv ==
  ASSUME Inv, Await \/ Subscribe \/ PublishState \/ Recheck
  PROVE  Inv'
<1> USE DEF Inv
<1>a. Owner \in Threads /\ Owner \notin Tasks /\ \A y \in Tasks : y \in Threads
  BY TasksAssumption DEF Threads
<1>b. /\ \A y \in Threads : y # Owner => pc'[y] = pc[y]
      /\ pc' \in [Threads -> OwnerPlaces]
      /\ pc[Owner] # "counting" /\ pc'[Owner] # "counting"
      /\ UNCHANGED <<status, toAdd, registered, completedCount, exception>>
  BY <1>a DEF Await, Subscribe, PublishState, Recheck, Goto, Types, OwnerPlaces
<1>1. Types'
  <2>1. \A t \in Tasks : pc'[t] \in TaskPlaces
    BY <1>a, <1>b DEF Types
  <2>2. UNCHANGED <<resumed, result>> \/ Resume
    BY DEF Await, Subscribe, PublishState, Recheck
  <2>3. resumed' \in Nat /\ result' \in {"none", "succeeded", "faulted"}
    BY <2>2 DEF Types, Resume
  <2>4. continuation' \in {"available", "awaiter", "completed"}
    BY DEF Types, Await, Subscribe, PublishState, Recheck
  <2>5. stateSet' \in BOOLEAN
    BY DEF Types, Await, Subscribe, PublishState, Recheck
  <2> QED
    BY <1>b, <2>1, <2>3, <2>4, <2>5 DEF Types
<1>2. CountIsRight'
  <2>1. Counted' = Counted
    BY <1>a, <1>b DEF Counted
  <2> QED
    BY <1>b, <2>1, SameCount
<1>3. CallbacksOfEnded' /\ ExceptionIsReal'
  BY <1>a, <1>b DEF CallbacksOfEnded, ExceptionIsReal
<1>5. OnlyWhenSettled'
  <2>1. Pending' = Pending
    BY <1>b DEF Pending, resultCount
  <2>2. continuation' = "completed" => continuation = "completed"
    BY DEF Await, Subscribe, PublishState, Recheck
  <2>3. pc'[Owner] \in {"exchanging", "spinning"} => ~Pending
    BY <1>a DEF Await, Subscribe, PublishState, Recheck, Goto, Types
  <2>4. UNCHANGED result \/ (Resume /\ ~Pending)
    BY DEF Await, Subscribe, PublishState, Recheck, OnlyWhenSettled, OneHand, Types
  <2> QED
    BY <1>b, <2>1, <2>2, <2>3, <2>4 DEF OnlyWhenSettled, Pending, Resume, resultCount
<1>6. OneHand'
  <2>1. CASE Await
    <3>1. /\ pc[Owner] = "idle" /\ UNCHANGED <<continuation, stateSet>>
          /\ \/ pc'[Owner] = "subscribing" /\ UNCHANGED resumed
             \/ pc'[Owner] = "done" /\ resumed' = resumed + 1
      BY <1>a, <2>1 DEF Await, Goto, Types, Resume
    <3> QED
      BY <1>a, <1>b, <3>1 DEF OneHand
  <2>2. CASE Subscribe
    <3>1. /\ pc[Owner] = "subscribing" /\ UNCHANGED stateSet
          /\ \/ pc'[Owner] = "publishing" /\ continuation' = "awaiter" /\ UNCHANGED resumed
             \/ pc'[Owner] = "done" /\ UNCHANGED continuation /\ resumed' = resumed + 1
      BY <1>a, <2>2 DEF Subscribe, Goto, Types, Resume
    <3> QED
      BY <1>a, <1>b, <3>1 DEF OneHand
  <2>3. CASE PublishState
    <3>1. /\ pc'[Owner] = "rechecking" /\ stateSet' = TRUE
          /\ UNCHANGED <<continuation, resumed>>
      BY <1>a, <2>3 DEF PublishState, Goto, Types
    <3> QED
      BY <1>a, <1>b, <3>1 DEF OneHand
  <2>4. CASE Recheck
    <3>1. /\ pc[Owner] = "rechecking" /\ pc'[Owner] \in {"done", "exchanging"}
          /\ UNCHANGED <<continuation, resumed, stateSet>>
      BY <1>a, <2>4 DEF Recheck, Goto, Types
    <3> QED
      BY <1>a, <1>b, <3>1 DEF OneHand
  <2> QED
    BY <2>1, <2>2, <2>3, <2>4
<1> QED
  BY <1>1, <1>2, <1>3, <1>5, <1>6

\* The invariant holds in every reachable state.
LEMMA Invariance == Safety => []Inv
<1>1. Inv /\ [Next]_vars => Inv'
  <2>1. ASSUME Inv, Next PROVE Inv'
    BY <2>1, CompleteInv, AddInv, CallbackInv, IncrementInv, ExchangeInv, InvokeInv, AwaitInv
    DEF Next, ThreadStep, OwnerStep
  <2>2. ASSUME Inv, UNCHANGED vars PROVE Inv'
    BY <2>2 DEF vars, Inv, Types, CountIsRight, Counted, CallbacksOfEnded, ExceptionIsReal,
       OnlyWhenSettled, Pending, resultCount, OneHand
  <2> QED
    BY <2>1, <2>2
<1> QED
  BY <1>1, InitInv, PTL DEF Safety
-----------------------------------------------------------------------------
\* The variables keep their types: never more tasks are counted than were
\* reserved, so Interlocked.Increment meets resultCount at most once.
THEOREM Typing == Safety => []TypeOK
<1>1. Inv => TypeOK
  BY CountBound DEF Inv, Types, TypeOK, OwnerPlaces
<1> QED
  BY <1>1, Invariance, PTL

\* The awaiter is resumed at most once, whoever tries to.
THEOREM ResumesOnce == Safety => []ResumedOnce
<1>1. Inv => ResumedOnce
  BY DEF Inv, OneHand, ResumedOnce
<1> QED
  BY <1>1, Invariance, PTL

\* A successful await means that every task succeeded, and an exception that
\* some task failed.
THEOREM TellsTheTruth == Safety => []ResultIsTrue
<1>1. Inv => ResultIsTrue
  <2> SUFFICES ASSUME Inv PROVE ResultIsTrue
    OBVIOUS
  <2>1. ASSUME result = "succeeded" PROVE \A t \in Tasks : status[t] = "succeeded"
    BY <2>1, CountBound DEF Inv, OnlyWhenSettled, Counted
  <2>2. ASSUME result = "faulted" PROVE \E t \in Tasks : status[t] = "faulted"
    BY <2>2 DEF Inv, OnlyWhenSettled, ExceptionIsReal
  <2> QED
    BY <2>1, <2>2 DEF ResultIsTrue
<1> QED
  BY <1>1, Invariance, PTL
-----------------------------------------------------------------------------
(* UniqueHashDictionary.                                                    *)

\* Entries of the list that are in the table, and entries of the table that are
\* in the list.
AllPlaced ==
  \A j \in 1..placed : \E k \in DOMAIN table[Index(values[j].hash)] :
                    table[Index(values[j].hash)][k] = values[j]
FromList ==
  \A b \in Buckets : \A k \in DOMAIN table[b] : \E j \in 1..placed : table[b][k] = values[j]

\* A bucket has a hash code once, and so has the part of the list that is in
\* the table.
BucketsDistinct ==
  \A b \in Buckets : \A k, l \in DOMAIN table[b] : table[b][k].hash = table[b][l].hash => k = l
ListDistinct == \A j, k \in 1..placed : values[j].hash = values[k].hash => j = k

\* What has been refused repeats a hash code that is in the table.
Refused == failed => /\ placed < Len(values)
                     /\ \E j \in 1..placed : values[j].hash = values[placed + 1].hash

TableIInv ==
  /\ TableTypeOK
  /\ AllPlaced
  /\ FromList
  /\ BucketsDistinct
  /\ ListDistinct
  /\ Refused
-----------------------------------------------------------------------------
\* Every hash code has a bucket, also a negative one: `hashCode & indexFor'
\* never leaves the table.
LEMMA IndexInTable == \A h \in Int : Index(h) \in Buckets
BY CapacityAssumption, Z3 DEF Index, Buckets

LEMMA HashesInTable == \A h \in Hashes : Index(h) \in Buckets
BY IndexInTable, HashesAssumption

LEMMA InitTableIInv == TableInit => TableIInv
<1> SUFFICES ASSUME TableInit PROVE TableIInv
  OBVIOUS
<1>1. values \in Seq(Entries)
  <2>1. PICK n \in 0..MaxLength : values \in [1..n -> Entries]
    BY DEF TableInit
  <2> QED
    BY <2>1, LengthAssumption
<1>2. \A b \in Buckets : table[b] = <<>>
  BY DEF TableInit
<1>3. table \in [Buckets -> Seq(Entries)]
  BY DEF TableInit
<1>4. TableTypeOK
  <2>1. \A b \in Buckets : \A k \in DOMAIN table[b] : Index(table[b][k].hash) = b
    BY <1>2
  <2>2. placed \in 0..Len(values)
    BY <1>1 DEF TableInit
  <2>3. failed \in BOOLEAN
    BY Zenon DEF TableInit
  <2> QED
    BY <1>1, <1>3, <2>1, <2>2, <2>3, Zenon DEF TableTypeOK
<1> QED
  BY <1>2, <1>4 DEF TableIInv, TableInit, AllPlaced, FromList, BucketsDistinct, ListDistinct, Refused
-----------------------------------------------------------------------------
\* One entry of the list is put into the table or refused.
LEMMA CreateTableIInv == ASSUME TableIInv, CreateTable PROVE TableIInv'
<1> DEFINE v == values[placed + 1]
           b == Index(v.hash)
<1>1. /\ values \in Seq(Entries) /\ placed \in 0..Len(values)
      /\ table \in [Buckets -> Seq(Entries)] /\ failed \in BOOLEAN
  BY DEF TableIInv, TableTypeOK
<1>2. /\ placed < Len(values) /\ failed = FALSE /\ values' = values
  BY <1>1 DEF CreateTable
<1>3. placed + 1 \in 1..Len(values) /\ v \in Entries
  BY <1>1, <1>2
<1>4. v.hash \in Hashes /\ b \in Buckets
  BY <1>3, HashesInTable DEF Entries
<1>5. CASE Has(table[b], v.hash)
  <2>1. failed' = TRUE /\ placed' = placed /\ table' = table
    BY <1>5 DEF CreateTable
  <2>2. PICK k \in DOMAIN table[b] : table[b][k].hash = v.hash
    BY <1>5 DEF Has
  <2>3. PICK j \in 1..placed : table[b][k] = values[j]
    BY <1>4, <2>2 DEF TableIInv, FromList
  <2>4. Refused'
    BY <1>2, <2>1, <2>2, <2>3 DEF Refused
  <2>5. TableTypeOK'
    BY <1>2, <2>1 DEF TableIInv, TableTypeOK
  <2> QED
    BY <1>2, <2>1, <2>4, <2>5 DEF TableIInv, AllPlaced, FromList, BucketsDistinct, ListDistinct
<1>6. CASE ~Has(table[b], v.hash)
  <2> DEFINE m == Len(table[b])
  <2>1. /\ table' = [table EXCEPT ![b] = Append(table[b], v)]
        /\ placed' = placed + 1 /\ failed' = FALSE
    BY <1>2, <1>6 DEF CreateTable
  <2>2. /\ \A c \in Buckets \ {b} : table'[c] = table[c]
        /\ table'[b] = Append(table[b], v)
    BY <1>1, <1>4, <2>1
  <2>3. table[b] \in Seq(Entries) /\ m \in Nat /\ DOMAIN table[b] = 1..m
    BY <1>1, <1>4
  <2>4. /\ table'[b] \in Seq(Entries) /\ DOMAIN table'[b] = 1..(m + 1)
        /\ \A k \in 1..m : table'[b][k] = table[b][k]
        /\ table'[b][m + 1] = v
    BY <1>3, <2>2, <2>3
  <2>5. \A k \in 1..m : table[b][k].hash # v.hash
    BY <1>6, <2>3 DEF Has
  <2>6. TableTypeOK'
    <3>1. table' \in [Buckets -> Seq(Entries)]
      BY <1>1, <1>4, <2>1, <2>2, <2>4
    <3>2. \A c \in Buckets : \A k \in DOMAIN table'[c] : Index(table'[c][k].hash) = c
      <4> SUFFICES ASSUME NEW c \in Buckets, NEW k \in DOMAIN table'[c]
                   PROVE  Index(table'[c][k].hash) = c
        OBVIOUS
      <4>1. CASE c # b
        BY <4>1, <2>2 DEF TableIInv, TableTypeOK
      <4>2. CASE c = b /\ k \in 1..m
        BY <4>2, <2>3, <2>4 DEF TableIInv, TableTypeOK
      <4>3. CASE c = b /\ k = m + 1
        BY <4>3, <2>4
      <4> QED
        BY <4>1, <4>2, <4>3, <2>3, <2>4
    <3>3. values' \in Seq(Entries) /\ placed' \in 0..Len(values')
      BY <1>1, <1>2, <2>1
    <3>4. failed' \in BOOLEAN
      BY <2>1, Zenon
    <3> QED
      BY <3>1, <3>2, <3>3, <3>4, Zenon DEF TableTypeOK, Index, Buckets
  <2>7. AllPlaced'
    <3> SUFFICES ASSUME NEW j \in 1..(placed + 1)
                 PROVE  \E k \in DOMAIN table'[Index(values[j].hash)] :
                          table'[Index(values[j].hash)][k] = values[j]
      BY <1>2, <2>1 DEF AllPlaced, Index
    <3>1. CASE j = placed + 1
      <4>1. m + 1 \in DOMAIN table'[b] /\ table'[b][m + 1] = values[j]
        BY <3>1, <2>3, <2>4
      <4> QED
        BY <3>1, <4>1
    <3>2. CASE j \in 1..placed
      <4> DEFINE c == Index(values[j].hash)
      <4> values[j] \in Entries
        BY <1>1, <3>2
      <4>1. c \in Buckets
        BY HashesInTable DEF Entries
      <4>2. PICK k \in DOMAIN table[c] : table[c][k] = values[j]
        BY <3>2 DEF TableIInv, AllPlaced
      <4>3. k \in DOMAIN table'[c] /\ table'[c][k] = values[j]
        <5>1. CASE c = b
          <6> k \in 1..m /\ k \in 1..(m + 1)
            BY <2>3, <5>1
          <6> QED
            BY <2>4, <4>2, <5>1
        <5>2. CASE c # b
          BY <2>2, <4>1, <4>2, <5>2
        <5> QED
          BY <5>1, <5>2
      <4> QED
        BY <4>3
    <3> QED
      BY <1>1, <3>1, <3>2
  <2>8. FromList'
    <3> SUFFICES ASSUME NEW c \in Buckets, NEW k \in DOMAIN table'[c]
                 PROVE  \E j \in 1..(placed + 1) : table'[c][k] = values[j]
      BY <1>2, <2>1 DEF FromList
    <3>1. CASE c # b \/ k \in 1..m
      <4>1. k \in DOMAIN table[c] /\ table'[c][k] = table[c][k]
        BY <2>2, <2>3, <2>4, <3>1
      <4>2. PICK j \in 1..placed : table[c][k] = values[j]
        BY <4>1 DEF TableIInv, FromList
      <4> QED
        BY <1>1, <4>1, <4>2
    <3>2. CASE c = b /\ k = m + 1
      BY <1>1, <2>4, <3>2
    <3> QED
      BY <2>3, <2>4, <3>1, <3>2
  <2>9. BucketsDistinct'
    <3> SUFFICES ASSUME NEW c \in Buckets, NEW k \in DOMAIN table'[c], NEW l \in DOMAIN table'[c],
                        table'[c][k].hash = table'[c][l].hash
                 PROVE  k = l
      BY DEF BucketsDistinct
    <3>1. CASE c # b
      BY <3>1, <2>2 DEF TableIInv, BucketsDistinct
    <3>2. CASE c = b
      <4>1. k \in 1..(m + 1) /\ l \in 1..(m + 1) /\ table'[b][k].hash = table'[b][l].hash
        BY <2>4, <3>2
      <4>2. \A p, q \in 1..m : table[b][p].hash = table[b][q].hash => p = q
        BY <1>4, <2>3 DEF TableIInv, BucketsDistinct
      <4> HIDE DEF b, v, m
      <4> QED
        BY <2>3, <2>4, <2>5, <4>1, <4>2
    <3> QED
      BY <3>1, <3>2
  <2>10. ListDistinct'
    <3>1. \A j \in 1..placed : values[j].hash # v.hash
      <4> SUFFICES ASSUME NEW j \in 1..placed, values[j].hash = v.hash PROVE FALSE
        OBVIOUS
      <4>1. PICK k \in DOMAIN table[b] : table[b][k] = values[j]
        BY DEF TableIInv, AllPlaced
      <4> QED
        BY <2>3, <2>5, <4>1
    <3> SUFFICES ASSUME NEW j \in 1..(placed + 1), NEW k \in 1..(placed + 1), values[j].hash = values[k].hash
                 PROVE  j = k
      BY <1>2, <2>1 DEF ListDistinct
    <3>2. CASE j \in 1..placed /\ k \in 1..placed
      BY <3>2 DEF TableIInv, ListDistinct
    <3>3. (j \in 1..placed \/ j = placed + 1) /\ (k \in 1..placed \/ k = placed + 1)
      BY <1>1
    <3>4. values[placed + 1].hash = v.hash
      OBVIOUS
    <3> HIDE DEF v
    <3> QED
      BY <3>1, <3>2, <3>3, <3>4
  <2> QED
    BY <2>1, <2>6, <2>7, <2>8, <2>9, <2>10 DEF TableIInv, Refused
<1> QED
  BY <1>5, <1>6

LEMMA NextTableIInv == TableIInv /\ [TableNext]_tableVars => TableIInv'
<1>1. ASSUME TableIInv, UNCHANGED tableVars PROVE TableIInv'
  BY <1>1 DEF TableIInv, TableTypeOK, AllPlaced, FromList, BucketsDistinct, ListDistinct, Refused, tableVars, Index
<1> QED
  BY <1>1, CreateTableIInv DEF TableNext, Done

LEMMA TableInvariance == TableSpec => []TableIInv
BY InitTableIInv, NextTableIInv, PTL DEF TableSpec
-----------------------------------------------------------------------------
\* The buckets hold entries of the list, each in the bucket of its hash code.
THEOREM TableTyping == TableSpec => []TableTypeOK
<1>1. TableIInv => TableTypeOK
  BY DEF TableIInv
<1> QED
  BY <1>1, TableInvariance, PTL

LEMMA BuiltLookupExact == TableIInv => LookupExact
<1> SUFFICES ASSUME TableIInv, Built, NEW h \in Hashes
             PROVE  TryGetValue(h) = {values[k].value : k \in {j \in 1..placed : values[j].hash = h}}
  BY DEF LookupExact
<1> DEFINE bucket == table[Index(h)]
           firsts == {j \in DOMAIN bucket : /\ bucket[j].hash = h
                                            /\ \A l \in 1..(j - 1) : bucket[l].hash # h}
           listed == {j \in 1..placed : values[j].hash = h}
<1>1. Index(h) \in Buckets /\ bucket \in Seq(Entries)
  BY HashesInTable DEF TableIInv, TableTypeOK
<1>2. TryGetValue(h) = {bucket[k].value : k \in firsts}
  BY DEF TryGetValue
<1>3. ASSUME NEW k \in firsts PROVE \E j \in listed : bucket[k] = values[j]
  <2>1. PICK j \in 1..placed : bucket[k] = values[j]
    BY <1>1 DEF TableIInv, FromList
  <2> QED
    BY <2>1
<1>4. ASSUME NEW j \in listed PROVE \E k \in firsts : bucket[k] = values[j]
  <2>1. PICK k \in DOMAIN bucket : bucket[k] = values[j]
    BY DEF TableIInv, AllPlaced
  <2>2. \A l \in 1..(k - 1) : bucket[l].hash # h
    <3>1. \A l \in 1..(k - 1) : l \in DOMAIN bucket /\ l # k
      BY <1>1, <2>1
    <3> QED
      BY <1>1, <2>1, <3>1 DEF TableIInv, BucketsDistinct
  <2> QED
    BY <2>1, <2>2
<1> HIDE DEF firsts, listed, bucket
<1>5. {bucket[k].value : k \in firsts} = {values[j].value : j \in listed}
  BY <1>3, <1>4
<1> QED
  BY <1>2, <1>5 DEF listed

\* Every handler is found by its own hash code, and nothing by another one, for
\* any list of handlers and any collisions.
THEOREM LooksUpExactly == TableSpec => []LookupExact
BY BuiltLookupExact, TableInvariance, PTL

LEMMA RefusedDuplicates == TableIInv => RefusedIfDuplicate
<1> SUFFICES ASSUME TableIInv
             PROVE  LET Duplicates == \E j, k \in DOMAIN values : j # k /\ values[j].hash = values[k].hash
                    IN  (failed => Duplicates) /\ (Built => ~Duplicates)
  BY DEF RefusedIfDuplicate
<1>1. values \in Seq(Entries) /\ placed \in 0..Len(values) /\ DOMAIN values = 1..Len(values)
  BY DEF TableIInv, TableTypeOK
<1>2. ASSUME failed PROVE \E j, k \in DOMAIN values : j # k /\ values[j].hash = values[k].hash
  <2>1. PICK j \in 1..placed : placed < Len(values) /\ values[j].hash = values[placed + 1].hash
    BY <1>2 DEF TableIInv, Refused
  <2>2. j \in DOMAIN values /\ placed + 1 \in DOMAIN values /\ j # placed + 1
    BY <1>1, <2>1
  <2> QED
    BY <2>1, <2>2
<1>3. ASSUME Built PROVE \A j, k \in DOMAIN values : values[j].hash = values[k].hash => j = k
  BY <1>1, <1>3 DEF TableIInv, ListDistinct, Built
<1> QED
  BY <1>2, <1>3

\* A list is refused exactly when it repeats a hash code.
THEOREM RefusesDuplicates == TableSpec => []RefusedIfDuplicate
BY RefusedDuplicates, TableInvariance, PTL
==============================================================================
