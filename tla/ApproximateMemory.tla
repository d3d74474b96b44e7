------------------------- MODULE ApproximateMemory -------------------------
(***************************************************************************)
(* What the cache system promises to the program that runs over it, with   *)
(* no caches: a memory every write reaches at once and whose reads may be  *)
(* out of date, but answer with a word that was written to that very       *)
(* location (or the initial zero), are marked speculated only where        *)
(* approximation is allowed, and fail only where nothing was written.      *)
(***************************************************************************)
EXTENDS Naturals

CONSTANTS Locations, Values, Approximable

VARIABLES
    mem,        \* the last word written to each location
    written,    \* every word written to it so far
    answer      \* the answer to the last read

vars == <<mem, written, answer>>

Init ==
    /\ mem = [x \in Locations |-> 0]
    /\ written = [x \in Locations |-> {}]
    /\ answer = [speculated |-> FALSE, not_in_system |-> FALSE,
                 valid_data |-> 0, invalid_data |-> 0]

Write(x, v) ==
    /\ mem' = [mem EXCEPT ![x] = v]
    /\ written' = [written EXCEPT ![x] = @ \union {v}]
    /\ UNCHANGED answer

Read(x) ==
    /\ \E valid, invalid \in written[x] \union {0}, spec \in BOOLEAN :
          /\ spec => x \in Approximable
          /\ answer' = [speculated |-> spec, not_in_system |-> FALSE,
                        valid_data |-> valid, invalid_data |-> invalid]
    /\ UNCHANGED <<mem, written>>

ReadNothing(x) ==
    /\ written[x] = {}
    /\ answer' = [speculated |-> FALSE, not_in_system |-> TRUE,
                  valid_data |-> 0, invalid_data |-> 0]
    /\ UNCHANGED <<mem, written>>

Next ==
    \E x \in Locations :
        \/ \E v \in Values : Write(x, v)
        \/ Read(x)
        \/ ReadNothing(x)

Spec == Init /\ [][Next]_vars
=============================================================================
