----------------------- MODULE ReservedWhenAllPromise -----------------------
(***************************************************************************)
(* ReservedWhenAllPromise of MagicOnion.Shared: an IValueTaskSource that   *)
(* completes when all of a reserved number of tasks have succeeded, or     *)
(* when one of them has failed.                                            *)
(*                                                                         *)
(* Its owner adds the tasks and then awaits the promise (ToPromise of the  *)
(* in-memory groups).  A task that is still running when it is added gets  *)
(* a callback, which runs on the thread that completes it; t also names    *)
(* that thread.  Threads meet in an Interlocked counter and an exchange of *)
(* the continuation; one action is what a thread does between two of them. *)
(***************************************************************************)
EXTENDS Integers, FiniteSets

CONSTANTS
  Tasks,     \* the tasks that are added; their number is reserved
  Owner      \* the thread that adds and awaits

ASSUME TasksAssumption == IsFiniteSet(Tasks) /\ Owner \notin Tasks

VARIABLES
  status,          \* status[t]: "running", "succeeded", "faulted"
  toAdd,           \* tasks the owner has not added
  registered,      \* tasks whose completion calls ContinuationWithCapture
  completedCount,
  exception,       \* an exception was captured
  continuation,    \* "available", "awaiter", "completed"
  stateSet,        \* the state of the awaiter was stored
  pc,              \* pc[x]: where thread x is
  resumed,         \* how often the awaiter was resumed
  result           \* what its GetResult gave: "none", "succeeded", "faulted"

vars == <<status, toAdd, registered, completedCount, exception, continuation,
          stateSet, pc, resumed, result>>

Threads     == Tasks \cup {Owner}
resultCount == Cardinality(Tasks)

TypeOK ==
  /\ status \in [Tasks -> {"running", "succeeded", "faulted"}]
  /\ toAdd \in SUBSET Tasks
  /\ registered \in SUBSET Tasks
  /\ completedCount \in 0..resultCount
  /\ exception \in BOOLEAN
  /\ continuation \in {"available", "awaiter", "completed"}
  /\ stateSet \in BOOLEAN
  /\ pc \in [Threads -> {"idle", "counting", "exchanging", "spinning", "subscribing",
                         "publishing", "rechecking", "done"}]
  /\ resumed \in Nat
  /\ result \in {"none", "succeeded", "faulted"}

Init ==
  /\ status \in [Tasks -> {"running", "succeeded", "faulted"}]
  /\ toAdd = Tasks
  /\ registered = {}
  /\ completedCount = 0
  /\ exception = FALSE
  /\ continuation = "available"
  /\ stateSet = FALSE
  /\ pc = [x \in Threads |-> "idle"]
  /\ resumed = 0
  /\ result = "none"

Goto(x, l) == pc' = [pc EXCEPT ![x] = l]

\* After TryInvokeContinuation a callback ends; the owner is back in Add, or
\* its OnCompleted ends.
After(x) == IF x = Owner /\ ~stateSet THEN "idle" ELSE "done"

\* The continuation of the await: GetResult of the promise.
Resume ==
  /\ resumed' = resumed + 1
  /\ result' = IF exception THEN "faulted" ELSE "succeeded"
-----------------------------------------------------------------------------
\* A task ends (external).
Complete(t) ==
  /\ status[t] = "running"
  /\ \E s \in {"succeeded", "faulted"} : status' = [status EXCEPT ![t] = s]
  /\ UNCHANGED <<toAdd, registered, completedCount, exception, continuation,
                 stateSet, pc, resumed, result>>

\* A task that has failed sets the exception and nothing else: the status is
\* looked at again when the owner awaits.
Add(t) ==
  /\ pc[Owner] = "idle"
  /\ t \in toAdd
  /\ toAdd' = toAdd \ {t}
  /\ registered' = IF status[t] = "running" THEN registered \cup {t} ELSE registered
  /\ exception' = (exception \/ status[t] = "faulted")
  /\ IF status[t] = "succeeded" THEN Goto(Owner, "counting") ELSE UNCHANGED pc
  /\ UNCHANGED <<status, completedCount, continuation, stateSet, resumed, result>>

ContinuationWithoutCapture(t) ==
  /\ t \in registered
  /\ pc[t] = "idle"
  /\ status[t] # "running"
  /\ Goto(t, "counting")
  /\ UNCHANGED <<status, toAdd, registered, completedCount, exception, continuation,
                 stateSet, resumed, result>>

CaptureOnly(t) ==
  /\ t \in registered
  /\ pc[t] = "idle"
  /\ status[t] # "running"
  /\ exception' = (exception \/ status[t] = "faulted")
  /\ Goto(t, IF status[t] = "faulted" THEN "done" ELSE "counting")
  /\ UNCHANGED <<status, toAdd, registered, completedCount, continuation,
                 stateSet, resumed, result>>

\* The callback of a task that was running when it was added.
ContinuationWithCapture(t) ==
  /\ t \in registered
  /\ pc[t] = "idle"
  /\ status[t] # "running"
  /\ exception' = (exception \/ status[t] = "faulted")
  /\ Goto(t, IF status[t] = "faulted" THEN "exchanging" ELSE "counting")
  /\ UNCHANGED <<status, toAdd, registered, completedCount, continuation,
                 stateSet, resumed, result>>

\* TryInvokeContinuationWithIncrement.
Increment(x) ==
  /\ pc[x] = "counting"
  /\ completedCount' = completedCount + 1
  /\ Goto(x, IF completedCount' = resultCount THEN "exchanging"
             ELSE IF x = Owner THEN "idle" ELSE "done")
  /\ UNCHANGED <<status, toAdd, registered, exception, continuation, stateSet,
                 resumed, result>>

\* TryInvokeContinuation, with its Interlocked.Exchange replaced by a read.
ReadContinuation(x) ==
  /\ pc[x] = "exchanging"
  /\ continuation' = IF continuation = "available" THEN "completed" ELSE continuation
  /\ Goto(x, IF continuation = "awaiter" THEN "spinning" ELSE After(x))
  /\ UNCHANGED <<status, toAdd, registered, completedCount, exception, stateSet,
                 resumed, result>>

\* TryInvokeContinuation: whoever exchanges the awaiter has to invoke it.
ExchangeContinuation(x) ==
  /\ pc[x] = "exchanging"
  /\ continuation' = "completed"
  /\ Goto(x, IF continuation = "awaiter" THEN "spinning" ELSE After(x))
  /\ UNCHANGED <<status, toAdd, registered, completedCount, exception, stateSet,
                 resumed, result>>

\* It spins until OnCompleted has stored the state.
InvokeContinuation(x) ==
  /\ pc[x] = "spinning"
  /\ stateSet
  /\ Resume
  /\ Goto(x, "done")
  /\ UNCHANGED <<status, toAdd, registered, completedCount, exception, continuation, stateSet>>
-----------------------------------------------------------------------------
\* GetStatus is three-valued for the await: Pending or not.
Pending == completedCount # resultCount /\ ~exception

\* await: a promise that is not pending is not subscribed to.
Await ==
  /\ pc[Owner] = "idle"
  /\ toAdd = {}
  /\ IF Pending THEN Goto(Owner, "subscribing") /\ UNCHANGED <<resumed, result>>
                ELSE Goto(Owner, "done") /\ Resume
  /\ UNCHANGED <<status, toAdd, registered, completedCount, exception, continuation, stateSet>>

\* OnCompleted: the CompareExchange; when the promise was completed in
\* between the continuation is called at once.
Subscribe ==
  /\ pc[Owner] = "subscribing"
  /\ IF continuation = "available"
       THEN /\ continuation' = "awaiter"
            /\ Goto(Owner, "publishing")
            /\ UNCHANGED <<resumed, result>>
       ELSE /\ UNCHANGED continuation
            /\ Goto(Owner, "done")
            /\ Resume
  /\ UNCHANGED <<status, toAdd, registered, completedCount, exception, stateSet>>

PublishState ==
  /\ pc[Owner] = "publishing"
  /\ stateSet' = TRUE
  /\ Goto(Owner, "rechecking")
  /\ UNCHANGED <<status, toAdd, registered, completedCount, exception, continuation,
                 resumed, result>>

\* The status is looked at again: the tasks may have ended in between.
Recheck ==
  /\ pc[Owner] = "rechecking"
  /\ Goto(Owner, IF Pending THEN "done" ELSE "exchanging")
  /\ UNCHANGED <<status, toAdd, registered, completedCount, exception, continuation,
                 stateSet, resumed, result>>
-----------------------------------------------------------------------------
ThreadStep(x) == Increment(x) \/ ExchangeContinuation(x) \/ InvokeContinuation(x)
OwnerStep     == (\E t \in Tasks : Add(t)) \/ Await \/ Subscribe \/ PublishState \/ Recheck

Next ==
  \/ \E t \in Tasks : Complete(t) \/ ContinuationWithCapture(t)
  \/ \E x \in Threads : ThreadStep(x)
  \/ OwnerStep

\* Threads that can run do run; nothing is assumed about when a task ends.
Fairness ==
  /\ \A t \in Tasks : WF_vars(ContinuationWithCapture(t))
  /\ \A x \in Threads : WF_vars(ThreadStep(x))
  /\ WF_vars(OwnerStep)

Safety == Init /\ [][Next]_vars
Spec   == Safety /\ Fairness
-----------------------------------------------------------------------------
\* The awaiter is resumed at most once, though every failing task, the last
\* succeeding one and OnCompleted itself may try to.
ResumedOnce == resumed <= 1

\* What the awaiter is told is true: success means every task succeeded, an
\* exception that some task failed.
ResultIsTrue ==
  /\ result = "succeeded" => \A t \in Tasks : status[t] = "succeeded"
  /\ result = "faulted" => \E t \in Tasks : status[t] = "faulted"

\* No completion is missed: the awaiter is resumed once all tasks have ended,
\* and as soon as one has failed even if others run on for ever.
AwaitReturns ==
  /\ (\A t \in Tasks : status[t] = "succeeded") ~> resumed = 1
  /\ (\E t \in Tasks : status[t] = "faulted") ~> resumed = 1
=============================================================================
