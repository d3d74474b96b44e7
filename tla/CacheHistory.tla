---------------------------- MODULE CacheHistory ----------------------------
(***************************************************************************)
(* CacheSystem with a history variable, the words ever written to each     *)
(* location, and the claim that it implements ApproximateMemory.           *)
(***************************************************************************)
EXTENDS CacheProperties

VARIABLE written

hvars == <<vars, written>>

Locations == Lines \X Words
Location(a) == <<LineOf(a), WordOf(a)>>

HInit == Init /\ written = [x \in Locations |-> {}]

HWrite(c, a, v) ==
    /\ cache_write(c, a, v)
    /\ written' = [written EXCEPT ![Location(a)] = @ \union {v}]

HRead(c, a) == cache_read(c, a) /\ UNCHANGED written

HNext ==
    \E c \in Cores, a \in Addrs :
        \/ \E v \in Values : HWrite(c, a, v)
        \/ HRead(c, a)

HSpec == HInit /\ [][HNext]_hvars

(* No word out of thin air: whatever line copies, refills, write           *)
(* allocations and evictions a line went through, each of its words in     *)
(* each cache was written to that word of that line, or is zero.           *)
NoThinAir ==
    \A l \in Lines, w \in Words :
        /\ llc[l][w] \in written[<<l, w>>] \union {0}
        /\ \A c \in Cores : data[c][l][w] \in written[<<l, w>>] \union {0}

Memory ==
    INSTANCE ApproximateMemory WITH
        Approximable <- {Location(a) : a \in {b \in Addrs : check_address(b)}},
        mem <- [x \in Locations |-> llc[x[1]][x[2]]],
        answer <- result

(* The controller implements the abstract memory: a write is in the LLC    *)
(* when cache_write returns, and a Read_tuple only ever says what          *)
(* ApproximateMemory allows.                                               *)
ImplementsMemory == Memory!Spec
=============================================================================
