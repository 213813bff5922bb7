---------------------------- MODULE MCBroadcasts ----------------------------
(* Broadcasts on small instances. *)
EXTENDS Broadcasts

\* Every method that MagicOnion calls on an ImmutableArrayGroup; WriteToRaw is
\* called for the in-memory part of a RedisGroup only, which is a
\* ConcurrentDictionaryGroup.
CalledMethods == {"WriteAll", "WriteExceptOne", "WriteExceptMany", "WriteToOne", "WriteToMany",
                  "WriteExceptRaw"}
=============================================================================
