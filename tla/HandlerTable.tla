----------------------------- MODULE HandlerTable ---------------------------
(***************************************************************************)
(* UniqueHashDictionary: the table by which a hub finds the handler of a   *)
(* method id, an Int32 hash code.  It is built once from a list of handlers*)
(* and then only read.                                                     *)
(***************************************************************************)
EXTENDS Integers, Sequences

CONSTANTS
  Hashes,       \* hash codes
  Handlers,     \* the values of the table
  Capacity,     \* the length of the table
  MaxLength     \* bound: how many handlers the list has

ASSUME HashesAssumption   == Hashes \subseteq Int
ASSUME CapacityAssumption == Capacity \in Nat \ {0}
ASSUME LengthAssumption   == MaxLength \in Nat

VARIABLES
  values,   \* the list: records [hash, value]
  placed,   \* how many of the list are in the table
  table,    \* table[b]: the bucket b, <<>> for null
  failed    \* DuplicateKeyException was thrown

tableVars == <<values, placed, table, failed>>

Entries == [hash : Hashes, value : Handlers]
Buckets == 0..(Capacity - 1)

\* hashCode & indexFor, where indexFor is Capacity - 1 and Capacity is a power
\* of two: a negative hash code has a bucket, too.
Index(h) == h % Capacity

TableTypeOK ==
  /\ values \in Seq(Entries)
  /\ placed \in 0..Len(values)
  /\ table \in [Buckets -> Seq(Entries)]
  /\ \A b \in Buckets : \A k \in DOMAIN table[b] : Index(table[b][k].hash) = b
  /\ failed \in BOOLEAN

TableInit ==
  /\ values \in UNION {[1..n -> Entries] : n \in 0..MaxLength}
  /\ placed = 0
  /\ table = [b \in Buckets |-> <<>>]
  /\ failed = FALSE

Has(bucket, h) == \E k \in DOMAIN bucket : bucket[k].hash = h

AddReplacing ==
  /\ placed < Len(values) /\ ~failed
  /\ LET v == values[placed + 1]
         b == Index(v.hash)
     IN  IF Has(table[b], v.hash)
           THEN failed' = TRUE /\ UNCHANGED <<placed, table>>
           ELSE /\ table' = [table EXCEPT ![b] = <<v>>]
                /\ placed' = placed + 1
                /\ UNCHANGED failed
  /\ UNCHANGED values

CreateTable ==
  /\ placed < Len(values) /\ ~failed
  /\ LET v == values[placed + 1]
         b == Index(v.hash)
     IN  IF Has(table[b], v.hash)
           THEN failed' = TRUE /\ UNCHANGED <<placed, table>>
           ELSE /\ table' = [table EXCEPT ![b] = Append(@, v)]
                /\ placed' = placed + 1
                /\ UNCHANGED failed
  /\ UNCHANGED values

Built == placed = Len(values)
Done  == (Built \/ failed) /\ UNCHANGED tableVars
TableNext == CreateTable \/ Done
TableSpec == TableInit /\ [][TableNext]_tableVars

\* TryGetValue and TryGetValueSlow: the first entry of the bucket that has the
\* hash code.  What is found is the set of the handler, or the empty set.
TryGetValue(h) ==
  LET bucket == table[Index(h)]
  IN  {bucket[k].value : k \in {j \in DOMAIN bucket :
         /\ bucket[j].hash = h
         /\ \A l \in 1..(j - 1) : bucket[l].hash # h}}
-----------------------------------------------------------------------------
\* The look-up finds each handler of the list by its own hash code, whatever
\* other handlers share its bucket, and nothing by another hash code.
LookupExact ==
  Built => \A h \in Hashes : TryGetValue(h) = {values[k].value : k \in {j \in 1..placed : values[j].hash = h}}

\* The table is refused exactly for lists in which a hash code is repeated.
RefusedIfDuplicate ==
  LET Duplicates == \E j, k \in DOMAIN values : j # k /\ values[j].hash = values[k].hash
  IN  (failed => Duplicates) /\ (Built => ~Duplicates)
=============================================================================
