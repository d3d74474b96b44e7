-------------------------- MODULE ReplacementProofs --------------------------
(***************************************************************************)
(* LRU replacement in the private caches: stamps never collide, sets never *)
(* overflow, and a miss in a full set evicts the line touched the longest  *)
(* ago, for every geometry and number of cores.                            *)
(***************************************************************************)
EXTENDS CacheProofs

(* A call of core c on address a that inserts the line, and one that does  *)
(* not.                                                                    *)
Inserts(c, a) == (\E v \in Values : WriteMiss(c, a, v)) \/ ReadMiss(c, a)

(* Who holds what after a call: an insertion brings in the caller's line   *)
(* and drops the evicted one; every other call leaves residency alone.     *)
LEMMA Residency ==
    ASSUME TypeOK, NEW c \in Cores, NEW a \in Addrs, CalledBy(c, a),
           NEW o \in Cores, NEW m \in Lines
    PROVE  LET l == LineOf(a) IN
           /\ Inserts(c, a) =>
                /\ ~Resident(c, l)
                /\ Resident(o, m)' <=>
                     \/ o = c /\ m = l
                     \/ Resident(o, m) /\ ~(o = c /\ m \in Evicted(c, l))
           /\ ~Inserts(c, a) => (Resident(o, m)' <=> Resident(o, m))
<1> DEFINE l == LineOf(a)
<1>1. l \in Lines
  BY AddressTypes
<1>2. \A drawn, evicted :
         Owning(c, l, a, drawn, evicted) =>
            (Resident(o, m)' <=>
               \/ o = c /\ m = l
               \/ Resident(o, m) /\ ~(o = c /\ m # l /\ m \in evicted))
  <2> SUFFICES ASSUME NEW drawn, NEW evicted,
                      Owning(c, l, a, drawn, evicted)
               PROVE  Resident(o, m)' <=>
                        \/ o = c /\ m = l
                        \/ /\ Resident(o, m)
                           /\ ~(o = c /\ m # l /\ m \in evicted)
    OBVIOUS
  <2>1. state'[o][m] = IF m = l
                       THEN IF o = c THEN "MODIFIED"
                            ELSE IF o \in Sharers(c, l)
                                 THEN Demoted(a, drawn, o)
                                 ELSE state[o][m]
                       ELSE IF o = c /\ m \in evicted
                            THEN "ABSENT" ELSE state[o][m]
    BY DEF Owning
  <2>2. Demoted(a, drawn, o) # "ABSENT"
    BY DEF Demoted
  <2>3. o \in Sharers(c, l) => Resident(o, l)
    BY DEF Sharers, Snooped
  <2> QED
    BY <2>1, <2>2, <2>3 DEF Resident
<1>3. ASSUME NEW v \in Values, WriteMiss(c, a, v)
      PROVE  /\ ~Resident(c, l)
             /\ Resident(o, m)' <=>
                  \/ o = c /\ m = l
                  \/ Resident(o, m) /\ ~(o = c /\ m \in Evicted(c, l))
  <2>1. ~Resident(c, l)
        /\ \E drawn : Owning(c, l, a, drawn, Evicted(c, l))
    BY <1>3 DEF WriteMiss
  <2> QED
    BY <1>2, <2>1
<1>4. ASSUME ReadMiss(c, a)
      PROVE  /\ ~Resident(c, l)
             /\ Resident(o, m)' <=>
                  \/ o = c /\ m = l
                  \/ Resident(o, m) /\ ~(o = c /\ m \in Evicted(c, l))
  <2>1. state'[o][m] = IF m = l /\ (o = c \/ o \in Owners(c, l)) THEN "SHARED"
                       ELSE IF o = c /\ m \in Evicted(c, l) THEN "ABSENT"
                       ELSE state[o][m]
    BY <1>4 DEF ReadMiss
  <2>2. ~Resident(c, l)
    BY <1>4 DEF ReadMiss
  <2>3. o \in Owners(c, l) => Resident(o, l)
    BY DEF Owners, Snooped
  <2> QED
    BY <2>1, <2>2, <2>3 DEF Resident
<1>5. ASSUME ~Inserts(c, a)
      PROVE  Resident(o, m)' <=> Resident(o, m)
  <2>1. CASE \E v \in Values : WriteHitModified(c, a, v)
    BY <2>1 DEF WriteHitModified, Resident
  <2>2. CASE \E v \in Values : WriteHitUpgrade(c, a, v)
    <3>1. Resident(c, l) /\ \E drawn : Owning(c, l, a, drawn, {})
      BY <2>2 DEF WriteHitUpgrade, Resident
    <3> QED
      BY <1>2, <3>1
  <2>3. CASE cache_read(c, a) /\ ~ReadMiss(c, a)
    <3>1. CASE state' = state
      BY <3>1 DEF Resident
    <3>2. CASE Sharing(c, l) /\ Resident(c, l)
      <4>1. o \in Sharers(c, l) => Resident(o, l)
        BY DEF Sharers, Snooped
      <4>2. o = c \/ o \in Sharers(c, l) \/ o \notin Sharers(c, l)
        OBVIOUS
      <4> QED
        BY <1>1, <3>2, <4>1, SharingStates DEF Resident
    <3> QED
      BY <2>3, <3>1, <3>2, ReadStates
  <2> QED
    BY <1>5, <2>1, <2>2, <2>3 DEF CalledBy, Inserts, cache_write
<1> QED
  BY <1>3, <1>4, <1>5 DEF Inserts

(* What a call does to the stamps of the lines that stay or come in: the   *)
(* line called for gets the new time, or keeps its stamp where it was not  *)
(* looked at; no other line is touched.                                    *)
LEMMA Stamps ==
    ASSUME TypeOK, NEW c \in Cores, NEW a \in Addrs, CalledBy(c, a),
           NEW o \in Cores, NEW m \in Lines, Resident(o, m)'
    PROVE  /\ global_time' = global_time + 1
           /\ m = LineOf(a) =>
                \/ time_accessed'[o][m] = global_time + 1
                \/ /\ Resident(o, m)
                   /\ time_accessed'[o][m] = time_accessed[o][m]
           /\ m # LineOf(a) =>
                /\ Resident(o, m)
                /\ time_accessed'[o][m] = time_accessed[o][m]
<1> DEFINE l == LineOf(a)
<1>1. l \in Lines
  BY AddressTypes
<1>2. global_time' = global_time + 1
  BY DEF CalledBy, cache_write, cache_read, WriteHitModified, WriteHitUpgrade,
     WriteMiss, ReadHit, ReadVictimized, ReadInvalid, ReadMiss,
     ReadNotInSystem, Tick
<1>3. CASE Touch(c, l) /\ ~Inserts(c, a)
  <2>1. Resident(o, m)
    BY <1>3, Residency
  <2>2. time_accessed'[o] \in {[time_accessed[o] EXCEPT ![l] = global_time + 1],
                               time_accessed[o]}
    BY <1>3 DEF Touch
  <2> QED
    BY <1>1, <1>2, <2>1, <2>2 DEF TypeOK
<1>4. CASE TouchInserting(c, l) /\ Inserts(c, a)
  <2>1. time_accessed'[o][m] =
           IF m = l /\ (o = c \/ o \in Snooped(c, l)) THEN global_time + 1
           ELSE IF o = c /\ m \in Evicted(c, l) THEN 0 ELSE time_accessed[o][m]
    BY <1>4 DEF TouchInserting
  <2>2. \/ o = c /\ m = l
        \/ Resident(o, m) /\ ~(o = c /\ m \in Evicted(c, l))
    BY <1>4, Residency
  <2> QED
    BY <1>2, <2>1, <2>2
<1>5. CASE ~Inserts(c, a) /\
           time_accessed' = [time_accessed EXCEPT ![c][l] = global_time + 1]
  <2>1. Resident(o, m)
    BY <1>5, Residency
  <2> QED
    BY <1>1, <1>2, <1>5, <2>1 DEF TypeOK
<1>6. CASE ~Inserts(c, a) /\ time_accessed' = time_accessed
  <2>1. Resident(o, m)
    BY <1>6, Residency
  <2> QED
    BY <1>2, <1>6, <2>1
<1>7. \/ TouchInserting(c, l) /\ Inserts(c, a)
      \/ /\ ~Inserts(c, a)
         /\ \/ Touch(c, l)
            \/ time_accessed' = [time_accessed EXCEPT ![c][l] = global_time + 1]
            \/ time_accessed' = time_accessed
  <2>1. CASE Inserts(c, a)
    BY <2>1 DEF Inserts, WriteMiss, ReadMiss
  <2>2. CASE ~Inserts(c, a)
    BY <2>2 DEF Inserts, CalledBy, cache_write, cache_read, WriteHitModified,
       WriteHitUpgrade, ReadHit, ReadVictimized, ReadInvalid, ReadNotInSystem,
       protocolVars
  <2> QED
    BY <2>1, <2>2
<1> QED
  BY <1>3, <1>4, <1>5, <1>6, <1>7

(* Stamps stay distinct: the one line a call may stamp with the new time   *)
(* is younger than all the others, and no other stamp moves.               *)
LEMMA StampsStayDistinct ==
    ASSUME TypeOK, DistinctStamps, NEW c \in Cores, NEW a \in Addrs,
           CalledBy(c, a)
    PROVE  DistinctStamps'
<1> SUFFICES ASSUME NEW o \in Cores, NEW l \in Lines, NEW m \in Lines,
                    Resident(o, l)', Resident(o, m)'
             PROVE  /\ time_accessed'[o][l] \in 1 .. global_time'
                    /\ time_accessed'[o][l] = time_accessed'[o][m] => l = m
  BY DEF DistinctStamps
<1>1. global_time \in Nat /\ global_time' = global_time + 1
  BY Stamps DEF TypeOK
<1>2. \A k \in Lines : Resident(o, k) =>
            time_accessed[o][k] \in 1 .. global_time
  BY DEF DistinctStamps
<1>3. \A k \in Lines : Resident(o, k)' =>
            \/ k = LineOf(a) /\ time_accessed'[o][k] = global_time + 1
            \/ Resident(o, k) /\ time_accessed'[o][k] = time_accessed[o][k]
  BY Stamps
<1>4. time_accessed'[o][l] \in 1 .. global_time'
  BY <1>1, <1>2, <1>3
<1>5. ASSUME time_accessed'[o][l] = time_accessed'[o][m] PROVE l = m
  <2>1. CASE /\ l = LineOf(a) /\ time_accessed'[o][l] = global_time + 1
             /\ m = LineOf(a) /\ time_accessed'[o][m] = global_time + 1
    BY <2>1
  <2>2. CASE /\ Resident(o, l) /\ time_accessed'[o][l] = time_accessed[o][l]
             /\ Resident(o, m) /\ time_accessed'[o][m] = time_accessed[o][m]
    BY <1>5, <2>2 DEF DistinctStamps
  <2> QED
    BY <1>1, <1>2, <1>3, <1>5, <2>1, <2>2
<1> QED
  BY <1>4, <1>5

LEMMA SetLinesFinite ==
    ASSUME NEW c \in Cores, NEW l \in Lines
    PROVE  /\ SetLines(c, l) \subseteq Lines
           /\ IsFiniteSet(SetLines(c, l))
           /\ Cardinality(SetLines(c, l)) \in Nat
<1>1. SetLines(c, l) \subseteq Lines
  BY DEF SetLines
<1> QED
  BY <1>1, LinesFinite, FS_Subset, FS_CardinalityType

(* The LRU scan of a non-empty set finds a line of that set that carries   *)
(* its least stamp.                                                        *)
LEMMA LRUIsLeast ==
    ASSUME TypeOK, NEW c \in Cores, NEW l \in Lines, SetLines(c, l) # {}
    PROVE  /\ LRU(c, l) \in SetLines(c, l)
           /\ \A m \in SetLines(c, l) :
                time_accessed[c][LRU(c, l)] <= time_accessed[c][m]
<1> DEFINE T == {time_accessed[c][m] : m \in SetLines(c, l)}
<1>1. T \subseteq Nat /\ T # {}
  BY DEF TypeOK, SetLines
<1>2. PICK t \in T : \A u \in T : t <= u
  BY <1>1, LeastNatural
<1>3. PICK m \in SetLines(c, l) : t = time_accessed[c][m]
  BY <1>2
<1>4. \A n \in SetLines(c, l) : time_accessed[c][m] <= time_accessed[c][n]
  BY <1>2, <1>3
<1> QED
  BY <1>3, <1>4 DEF LRU

(* A line evicted comes from a full set, and there is just one.            *)
LEMMA EvictedIsLRU ==
    ASSUME TypeOK, NEW c \in Cores, NEW l \in Lines, Evicted(c, l) # {}
    PROVE  /\ Evicted(c, l) = {LRU(c, l)}
           /\ SetLines(c, l) # {}
           /\ L1_SET_ASSOCIATIVITY <= Cardinality(SetLines(c, l))
<1>1. /\ Evicted(c, l) = {LRU(c, l)}
      /\ ~(Cardinality(SetLines(c, l)) < L1_SET_ASSOCIATIVITY)
  BY DEF Evicted
<1>2. Cardinality(SetLines(c, l)) \in Nat
  BY SetLinesFinite
<1>3. L1_SET_ASSOCIATIVITY <= Cardinality(SetLines(c, l))
  BY <1>1, <1>2, AssociativityAssumption
<1>4. Cardinality(SetLines(c, l)) # 0
  BY <1>2, <1>3, AssociativityAssumption
<1>5. SetLines(c, l) # {}
  BY <1>4, FS_EmptySet
<1> QED
  BY <1>1, <1>3, <1>5

(* A set gains at most the line that comes in, and loses the evicted one.  *)
LEMMA SetsStayWithin ==
    ASSUME TypeOK, WithinAssociativity, NEW c \in Cores, NEW a \in Addrs,
           CalledBy(c, a)
    PROVE  WithinAssociativity'
<1> DEFINE l == LineOf(a)
<1> SUFFICES ASSUME NEW o \in Cores, NEW m \in Lines
             PROVE  Cardinality(SetLines(o, m)') <= L1_SET_ASSOCIATIVITY
  BY DEF WithinAssociativity
<1>1. l \in Lines
  BY AddressTypes
<1>2. /\ Cardinality(SetLines(o, m)) <= L1_SET_ASSOCIATIVITY
      /\ Cardinality(SetLines(o, m)) \in Nat
      /\ IsFiniteSet(SetLines(o, m))
      /\ L1_SET_ASSOCIATIVITY \in Nat
  BY SetLinesFinite, AssociativityAssumption DEF WithinAssociativity
<1>3. CASE SetLines(o, m)' \subseteq SetLines(o, m)
  <2>1. /\ Cardinality(SetLines(o, m)') <= Cardinality(SetLines(o, m))
        /\ IsFiniteSet(SetLines(o, m)')
    BY <1>2, <1>3, FS_Subset
  <2>2. Cardinality(SetLines(o, m)') \in Nat
    BY <2>1, FS_CardinalityType
  <2> QED
    BY <1>2, <2>1, <2>2
<1>4. CASE Inserts(c, a) /\ o = c /\ SetOf(m) = SetOf(l)
  <2> DEFINE old == SetLines(c, l)
  <2>1. old = SetLines(o, m)
    BY <1>4 DEF SetLines
  <2>2. \A k \in Lines : Resident(c, k)' <=>
            \/ k = l
            \/ Resident(c, k) /\ k \notin Evicted(c, l)
    BY <1>4, Residency
  <2>3. SetLines(o, m)' = (old \ Evicted(c, l)) \union {l}
    BY <1>1, <1>4, <2>2 DEF SetLines, Evicted
  <2>4. CASE Evicted(c, l) = {}
    <3>1. Cardinality(old) < L1_SET_ASSOCIATIVITY
      BY <2>4 DEF Evicted
    <3>2. Cardinality(SetLines(o, m)') =
             IF l \in old THEN Cardinality(old) ELSE Cardinality(old) + 1
      <4>1. SetLines(o, m)' = old \union {l}
        BY <2>3, <2>4
      <4> QED
        BY <1>2, <2>1, <4>1, FS_AddElement
    <3> QED
      BY <1>2, <2>1, <3>1, <3>2
  <2>5. CASE Evicted(c, l) # {}
    <3>1. Evicted(c, l) = {LRU(c, l)} /\ LRU(c, l) \in old
      BY <1>1, <2>5, EvictedIsLRU, LRUIsLeast
    <3> DEFINE rest == old \ {LRU(c, l)}
    <3>2. /\ IsFiniteSet(rest)
          /\ Cardinality(rest) = Cardinality(old) - 1
      BY <1>2, <2>1, <3>1, FS_RemoveElement
    <3>3. SetLines(o, m)' = rest \union {l}
      BY <2>3, <3>1
    <3> HIDE DEF rest
    <3>4. Cardinality(SetLines(o, m)') =
             IF l \in rest THEN Cardinality(rest) ELSE Cardinality(rest) + 1
      BY <3>2, <3>3, FS_AddElement
    <3> QED
      BY <1>2, <2>1, <3>2, <3>4
  <2> QED
    BY <2>4, <2>5
<1>5. CASE ~(Inserts(c, a) /\ o = c /\ SetOf(m) = SetOf(l))
  <2>1. \A k \in Lines :
            Resident(o, k)' /\ SetOf(k) = SetOf(m) => Resident(o, k)
    BY <1>5, Residency
  <2>2. SetLines(o, m)' \subseteq SetLines(o, m)
    BY <2>1 DEF SetLines
  <2> QED
    BY <1>3, <2>2
<1> QED
  BY <1>4, <1>5

ReplacementInv == TypeOK /\ DistinctStamps /\ WithinAssociativity

LEMMA ReplacementInvariant == Spec => []ReplacementInv
<1>1. Init => ReplacementInv
  <2> SUFFICES ASSUME Init PROVE ReplacementInv
    OBVIOUS
  <2>1. TypeOK
    BY EmptyLineType DEF Init, TypeOK, Data, CacheStates, ValidStates,
       System_stats, Accuracy, Cache_stat, Read_tuple
  <2>2. \A c \in Cores, l \in Lines : ~Resident(c, l)
    BY DEF Init, Resident
  <2>3. \A c \in Cores, l \in Lines : Cardinality(SetLines(c, l)) = 0
    BY <2>2, FS_EmptySet DEF SetLines
  <2> QED
    BY <2>1, <2>2, <2>3, AssociativityAssumption
       DEF ReplacementInv, DistinctStamps, WithinAssociativity
<1>2. ReplacementInv /\ [Next]_vars => ReplacementInv'
  <2> SUFFICES ASSUME ReplacementInv, [Next]_vars PROVE ReplacementInv'
    OBVIOUS
  <2>1. CASE Next
    <3>1. PICK c \in Cores, a \in Addrs : CalledBy(c, a)
      BY <2>1 DEF Next, CalledBy
    <3>2. TypeOK'
      BY <3>1, WriteTypes, ReadTypes DEF ReplacementInv, CalledBy
    <3> QED
      BY <3>1, <3>2, StampsStayDistinct, SetsStayWithin DEF ReplacementInv
  <2>2. CASE UNCHANGED vars
    <3>1. TypeOK'
      BY <2>2 DEF vars, ReplacementInv, TypeOK
    <3>2. DistinctStamps'
      BY <2>2 DEF vars, ReplacementInv, DistinctStamps, Resident
    <3>3. WithinAssociativity'
      BY <2>2 DEF vars, ReplacementInv, WithinAssociativity, SetLines, Resident
    <3> QED
      BY <3>1, <3>2, <3>3 DEF ReplacementInv
  <2> QED
    BY <2>1, <2>2
<1> QED
  BY <1>1, <1>2, PTL DEF Spec

(* In every cache and every set, the LRU scan of cache_write and of        *)
(* cache_read has exactly one least stamp to find.                         *)
THEOREM DistinctStampsHold == Spec => []DistinctStamps
BY ReplacementInvariant, PTL DEF ReplacementInv

(* The two insertion paths never let a set outgrow L1_SET_ASSOCIATIVITY.   *)
THEOREM WithinAssociativityHolds == Spec => []WithinAssociativity
BY ReplacementInvariant, PTL DEF ReplacementInv

(* A line that leaves is the caller's, evicted by an insertion in its set. *)
LEMMA LeavesOnlyByEviction ==
    ASSUME ReplacementInv, NEW c \in Cores, NEW a \in Addrs, CalledBy(c, a),
           NEW o \in Cores, NEW l \in Lines, Resident(o, l), ~Resident(o, l)'
    PROVE  LET in == LineOf(a) IN
           /\ o = c /\ Inserts(c, a) /\ SetOf(in) = SetOf(l)
           /\ l = LRU(c, in) /\ SetLines(c, in) = SetLines(c, l)
           /\ L1_SET_ASSOCIATIVITY <= Cardinality(SetLines(c, in))
           /\ \A m \in SetLines(c, in) :
                time_accessed[c][l] <= time_accessed[c][m]
<1> DEFINE in == LineOf(a)
<1>1. in \in Lines /\ TypeOK
  BY AddressTypes DEF ReplacementInv
<1>2. o = c /\ Inserts(c, a) /\ l \in Evicted(c, in)
  BY <1>1, Residency
<1>3. /\ Evicted(c, in) = {LRU(c, in)}
      /\ SetLines(c, in) # {}
      /\ L1_SET_ASSOCIATIVITY <= Cardinality(SetLines(c, in))
  BY <1>1, <1>2, EvictedIsLRU
<1>4. /\ l = LRU(c, in) /\ l \in SetLines(c, in)
      /\ \A m \in SetLines(c, in) : time_accessed[c][l] <= time_accessed[c][m]
  BY <1>1, <1>2, <1>3, LRUIsLeast
<1>5. SetOf(in) = SetOf(l) /\ SetLines(c, in) = SetLines(c, l)
  BY <1>4 DEF SetLines
<1> QED
  BY <1>2, <1>3, <1>4, <1>5

(* Replacement is least-recently-used: only a full set loses a line, to a  *)
(* line that comes in, and it loses the one touched the longest ago.       *)
THEOREM EvictsLeastRecentHolds == Spec => EvictsLeastRecent
<1> DEFINE Goal ==
       \A c \in Cores, l \in Lines :
          Resident(c, l) /\ ~Resident(c, l)' =>
            /\ Cardinality(SetLines(c, l)) = L1_SET_ASSOCIATIVITY
            /\ \E m \in Lines : /\ SetOf(m) = SetOf(l)
                                /\ ~Resident(c, m) /\ Resident(c, m)'
            /\ \A m \in SetLines(c, l) \ {l} :
                  /\ time_accessed[c][l] < time_accessed[c][m]
                  /\ Resident(c, m)'
<1>1. ReplacementInv /\ [Next]_vars => [Goal]_vars
  <2> SUFFICES ASSUME ReplacementInv, Next PROVE Goal
    OBVIOUS
  <2>1. PICK c \in Cores, a \in Addrs : CalledBy(c, a)
    BY DEF Next, CalledBy
  <2>2. SUFFICES ASSUME NEW o \in Cores, NEW l \in Lines,
                        Resident(o, l), ~Resident(o, l)'
        PROVE  /\ Cardinality(SetLines(o, l)) = L1_SET_ASSOCIATIVITY
               /\ \E m \in Lines : /\ SetOf(m) = SetOf(l)
                                   /\ ~Resident(o, m) /\ Resident(o, m)'
               /\ \A m \in SetLines(o, l) \ {l} :
                     /\ time_accessed[o][l] < time_accessed[o][m]
                     /\ Resident(o, m)'
    OBVIOUS
  <2> DEFINE in == LineOf(a)
  <2>3. /\ o = c /\ Inserts(c, a) /\ SetOf(in) = SetOf(l)
        /\ l = LRU(c, in) /\ SetLines(c, in) = SetLines(c, l)
        /\ L1_SET_ASSOCIATIVITY <= Cardinality(SetLines(c, in))
        /\ \A m \in SetLines(c, in) :
             time_accessed[c][l] <= time_accessed[c][m]
    BY <2>1, <2>2, LeavesOnlyByEviction
  <2>4. in \in Lines /\ TypeOK
    BY AddressTypes DEF ReplacementInv
  <2>5. Cardinality(SetLines(o, l)) = L1_SET_ASSOCIATIVITY
    <3>1. /\ Cardinality(SetLines(o, l)) <= L1_SET_ASSOCIATIVITY
          /\ Cardinality(SetLines(o, l)) \in Nat
      BY SetLinesFinite DEF ReplacementInv, WithinAssociativity
    <3> QED
      BY <2>3, <3>1, AssociativityAssumption
  <2>6. SetOf(in) = SetOf(l) /\ ~Resident(o, in) /\ Resident(o, in)'
    BY <2>1, <2>3, <2>4, Residency
  <2>7. ASSUME NEW m \in SetLines(o, l) \ {l}
        PROVE  time_accessed[o][l] < time_accessed[o][m] /\ Resident(o, m)'
    <3>1. m \in Lines /\ Resident(o, m)
      BY DEF SetLines
    <3>2. time_accessed[o][l] # time_accessed[o][m]
      BY <2>2, <3>1 DEF ReplacementInv, DistinctStamps
    <3>3. time_accessed[o][l] \in Nat /\ time_accessed[o][m] \in Nat
      BY <2>4, <3>1 DEF TypeOK
    <3>4. time_accessed[o][l] < time_accessed[o][m]
      BY <2>3, <3>2, <3>3
    <3>5. Evicted(c, in) \subseteq {l}
      BY <2>3 DEF Evicted
    <3> QED
      BY <2>1, <2>3, <2>4, <3>1, <3>4, <3>5, Residency
  <2> QED
    BY <2>4, <2>5, <2>6, <2>7
<1>2. Spec => [][Goal]_vars
  BY <1>1, ReplacementInvariant, PTL DEF Spec
<1> QED
  BY <1>2, PTL DEF EvictsLeastRecent
=============================================================================
