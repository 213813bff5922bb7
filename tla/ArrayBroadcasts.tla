-------------------------- MODULE ArrayBroadcasts ---------------------------
(***************************************************************************)
(* Broadcasts of ImmutableArrayGroup: every Write method reads the         *)
(* immutable array of members once and walks over what it has read, while  *)
(* connections join and leave by replacing the array.                      *)
(***************************************************************************)
EXTENDS Naturals, Sequences, SequencesExt

CONSTANTS
  Connections,   \* connections of the hub
  Senders,       \* threads that broadcast to the group
  Methods,       \* the Write methods that are called
  MaxSent        \* bound: broadcasts of one sender

AllMethods == {"WriteAll", "WriteExceptOne", "WriteExceptMany", "WriteToOne", "WriteToMany",
               "WriteExceptRaw", "WriteToRaw"}

VARIABLES
  members,    \* the array of the group
  source,     \* source[s]: the array that the broadcast of s has read
  index,      \* index[s]: i, the next index of source[s]
  method,     \* method[s]: the Write method s is in, or "none"
  ids,        \* ids[s]: its connectionIds
  left,       \* history: left[s], the connections that left since its start
  sent,       \* sent[s]: broadcasts started by s
  received    \* received[x]: the messages queued for the client of x

vars == <<members, source, index, method, ids, left, sent, received>>

TypeOK ==
  /\ members \in Seq(Connections) /\ IsInjective(members)
  /\ source \in [Senders -> Seq(Connections)]
  /\ index \in [Senders -> Nat \ {0}]
  /\ method \in [Senders -> Methods \cup {"none"}]
  /\ ids \in [Senders -> SUBSET Connections]
  /\ left \in [Senders -> SUBSET Connections]
  /\ sent \in [Senders -> 0..MaxSent]
  /\ received \in [Connections -> Seq(Senders \X (1..MaxSent))]

Init ==
  /\ members = <<>>
  /\ source = [s \in Senders |-> <<>>]
  /\ index = [s \in Senders |-> 1]
  /\ method = [s \in Senders |-> "none"]
  /\ ids = [s \in Senders |-> {}]
  /\ left = [s \in Senders |-> {}]
  /\ sent = [s \in Senders |-> 0]
  /\ received = [x \in Connections |-> <<>>]

\* The connectionIds a method can be called with.
IdsOf(m) ==
  CASE m = "WriteAll" -> {{}}
    [] m \in {"WriteExceptOne", "WriteToOne"} -> {{x} : x \in Connections}
    [] OTHER -> SUBSET Connections

\* Whether the loop of the method writes to x.
Selects(m, given, x) ==
  CASE m = "WriteAll" -> TRUE
    [] m \in {"WriteExceptOne", "WriteExceptMany", "WriteExceptRaw"} -> x \notin given
    [] m \in {"WriteToOne", "WriteToMany"} -> x \in given
    [] m = "WriteToRaw" -> \A id \in given : x = id

\* AddAsync, of connections that are no members: one that joins twice gets
\* every message twice.
Join(x) ==
  /\ x \notin ToSet(members)
  /\ members' = Append(members, x)
  /\ UNCHANGED <<source, index, method, ids, left, sent, received>>

\* RemoveAsync
Leave(x) ==
  /\ \E i \in DOMAIN members : members[i] = x /\ members' = RemoveAt(members, i)
  /\ left' = [s \in Senders |-> IF method[s] = "none" THEN {} ELSE left[s] \cup {x}]
  /\ UNCHANGED <<source, index, method, ids, sent, received>>

\* var source = members
Start(s, m, given) ==
  /\ method[s] = "none" /\ sent[s] < MaxSent
  /\ method' = [method EXCEPT ![s] = m]
  /\ ids' = [ids EXCEPT ![s] = given]
  /\ source' = [source EXCEPT ![s] = members]
  /\ index' = [index EXCEPT ![s] = 1]
  /\ left' = [left EXCEPT ![s] = {}]
  /\ sent' = [sent EXCEPT ![s] = @ + 1]
  /\ UNCHANGED <<members, received>>

Queued(s, x) ==
  IF Selects(method[s], ids[s], x) THEN [received EXCEPT ![x] = Append(@, <<s, sent[s]>>)]
                                   ELSE received

\* The loop over the field: it sees the arrays that replace the one at the start.
WriteNextOfField(s) ==
  /\ method[s] # "none" /\ index[s] \in 1..Len(members)
  /\ received' = Queued(s, members[index[s]])
  /\ index' = [index EXCEPT ![s] = @ + 1]
  /\ UNCHANGED <<members, source, method, ids, left, sent>>

\* source[i].QueueResponseStreamWrite; WriteToAsync of one id breaks after it.
WriteNext(s) ==
  /\ method[s] # "none" /\ index[s] \in 1..Len(source[s])
  /\ LET x == source[s][index[s]] IN
       /\ received' = Queued(s, x)
       /\ index' = [index EXCEPT ![s] =
                      IF method[s] = "WriteToOne" /\ x \in ids[s] THEN Len(source[s]) + 1 ELSE @ + 1]
  /\ UNCHANGED <<members, source, method, ids, left, sent>>

\* The method returns a completed task.
Return(s) ==
  /\ method[s] # "none" /\ index[s] > Len(source[s])
  /\ method' = [method EXCEPT ![s] = "none"]
  /\ ids' = [ids EXCEPT ![s] = {}]
  /\ left' = [left EXCEPT ![s] = {}]
  /\ source' = [source EXCEPT ![s] = <<>>]
  /\ index' = [index EXCEPT ![s] = 1]
  /\ UNCHANGED <<members, sent, received>>

Next ==
  \/ \E x \in Connections : Join(x) \/ Leave(x)
  \/ \E s \in Senders :
       \/ \E m \in Methods : \E given \in IdsOf(m) : Start(s, m, given)
       \/ WriteNext(s)
       \/ Return(s)

Fairness == \A s \in Senders : WF_vars(WriteNext(s) \/ Return(s))

Spec == Init /\ [][Next]_vars /\ Fairness
-----------------------------------------------------------------------------
\* Whom a method is meant for: all, all but the given, or the given.
Addressed(s) ==
  CASE method[s] = "none" -> {}
    [] method[s] \in {"WriteToOne", "WriteToMany", "WriteToRaw"} -> ids[s]
    [] OTHER -> Connections \ ids[s]

Members == ToSet(members)

\* Whom the broadcast of s can still reach, and whom it still has to.
May(s)  == {source[s][i] : i \in index[s]..Len(source[s])} \cap Addressed(s)
Must(s) == May(s) \ left[s]
=============================================================================
