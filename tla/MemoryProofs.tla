---------------------------- MODULE MemoryProofs ----------------------------
(***************************************************************************)
(* What the words in the caches can be, for every number of cores,         *)
(* geometry, program and tuning: which calls make a valid copy differ from *)
(* the write-through LLC, and that the cache controller implements         *)
(* ApproximateMemory.                                                      *)
(***************************************************************************)
EXTENDS CacheHistory, CacheProofs

-----------------------------------------------------------------------------
(* Coherence of data                                                       *)

LEMMA SameLine ==
    ASSUME NEW f \in [Words -> Data], NEW g \in [Words -> Data],
           \A u \in Words : f[u] = g[u]
    PROVE  f = g
OBVIOUS

(* Copying or keeping the line and then setting the called word gives the  *)
(* LLC's line with that word set, unless the copy was only partly valid.   *)
LEMMA FillsLine ==
    ASSUME TypeOK, Coherent, NEW c \in Cores, NEW a \in Addrs,
           Resident(c, LineOf(a)), ~PartialFill(c, a), NEW x \in Data
    PROVE  [CopiedLine(c, LineOf(a), data[c][LineOf(a)])
              EXCEPT ![WordOf(a)] = x]
             = [llc[LineOf(a)] EXCEPT ![WordOf(a)] = x]
<1> DEFINE l == LineOf(a)
           w == WordOf(a)
           line == CopiedLine(c, l, data[c][l])
<1>1. l \in Lines /\ w \in Words
  BY AddressTypes
<1>2. line \in [Words -> Data] /\ llc[l] \in [Words -> Data]
  BY <1>1, CopiedLineType DEF TypeOK
<1>3. \A u \in Words \ {w} : line[u] = llc[l][u]
  <2>1. CASE Owners(c, l) # {}
    <3>1. Max(Owners(c, l)) \in Owners(c, l)
      <4>1. Owners(c, l) \subseteq Cores
        BY <1>1, SnoopTypes
      <4> QED
        BY <2>1, <4>1, MaxOfCores
    <3>2. data[Max(Owners(c, l))][l] = llc[l]
      BY <1>1, <3>1 DEF Owners, Snooped, Coherent, ValidStates
    <3> QED
      BY <2>1, <3>2 DEF CopiedLine
  <2>2. CASE Owners(c, l) = {} /\ state[c][l] \in ValidStates
    BY <1>1, <2>2 DEF CopiedLine, Coherent
  <2>3. CASE Owners(c, l) = {} /\ state[c][l] \notin ValidStates
    BY <1>1, <2>3 DEF CopiedLine, PartialFill
  <2> QED
    BY <2>1, <2>2, <2>3
<1> HIDE DEF line
<1> DEFINE f == [line EXCEPT ![w] = x]
           g == [llc[l] EXCEPT ![w] = x]
<1>4. f \in [Words -> Data] /\ g \in [Words -> Data]
  BY <1>1, <1>2
<1>5. \A u \in Words : f[u] = g[u]
  BY <1>1, <1>2, <1>3
<1>6. f = g
  <2> HIDE DEF f, g
  <2> QED
    BY <1>4, <1>5, SameLine
<1> QED
  BY <1>6 DEF line

(* The word of the last sharer, if there is one, is the LLC's.             *)
LEMMA SharedWordIsLLCs ==
    ASSUME TypeOK, Coherent, NEW c \in Cores, NEW l \in Lines, NEW w \in Words,
           Sharers(c, l) # {}
    PROVE  data[Max(Sharers(c, l))][l][w] = llc[l][w]
<1>1. Max(Sharers(c, l)) \in Sharers(c, l)
  BY SnoopTypes, MaxOfCores
<1> QED
  BY <1>1 DEF Sharers, Snooped, Coherent

LEMMA WriteKeepsCoherence ==
    ASSUME StateInv, Coherent, NEW c \in Cores, NEW a \in Addrs,
           NEW v \in Values, cache_write(c, a, v),
           ~OverwrittenByOwner(c, a), ~PartialFill(c, a)
    PROVE  Coherent'
<1> DEFINE l == LineOf(a)
           w == WordOf(a)
<1>1. l \in Lines /\ w \in Words /\ v \in Data /\ TypeOK
  BY AddressTypes DEF Data, StateInv
<1>2. llc' = [llc EXCEPT ![l][w] = v]
  BY DEF cache_write, WriteHitModified, WriteHitUpgrade, WriteMiss, update_llc
<1>3. /\ llc'[l] = [llc[l] EXCEPT ![w] = v]
      /\ \A m \in Lines : m # l => llc'[m] = llc[m]
  BY <1>1, <1>2 DEF TypeOK
<1>4. SUFFICES ASSUME NEW o \in Cores, NEW m \in Lines,
                      state'[o][m] \in ValidStates
               PROVE  data'[o][m] = llc'[m]
  BY DEF Coherent
<1>5. CASE WriteHitModified(c, a, v)
  <2>1. state' = state /\ data' = [data EXCEPT ![c][l][w] = v]
        /\ state[c][l] = "MODIFIED"
    BY <1>5 DEF WriteHitModified
  <2>2. data[o][m] = llc[m]
    BY <1>4, <2>1 DEF Coherent
  <2>3. m = l => o = c
    BY <1>1, <1>4, <2>1, SingleWriterMeans DEF StateInv
  <2>4. CASE m = l
    BY <1>1, <1>3, <2>1, <2>2, <2>3, <2>4 DEF TypeOK
  <2>5. CASE m # l
    BY <1>1, <1>3, <2>1, <2>2, <2>5 DEF TypeOK
  <2> QED
    BY <2>4, <2>5
<1>6. ASSUME NEW drawn, NEW evicted, Owning(c, l, a, drawn, evicted),
             data'[c][l] = [llc[l] EXCEPT ![w] = v],
             \A k \in Lines : k # l /\ state'[c][k] # "ABSENT" =>
                                  data'[c][k] = data[c][k],
             \A p \in Cores : p # c => data'[p] = data[p]
      PROVE  data'[o][m] = llc'[m]
  <2>1. CASE m = l
    <3>1. o = c
      BY <1>1, <1>4, <1>6, <2>1, OwningStates DEF ValidStates
    <3> QED
      BY <1>3, <1>6, <2>1, <3>1
  <2>2. CASE m # l
    <3>1. state[o][m] \in ValidStates
      BY <1>1, <1>4, <1>6, <2>2, OwningStates DEF ValidStates
    <3>2. data'[o][m] = data[o][m]
      BY <1>4, <1>6, <2>2 DEF ValidStates
    <3> QED
      BY <1>3, <2>2, <3>1, <3>2 DEF Coherent
  <2> QED
    BY <2>1, <2>2
<1>7. CASE WriteHitUpgrade(c, a, v)
  <2>1. PICK drawn : Owning(c, l, a, drawn, {})
    BY <1>7 DEF WriteHitUpgrade
  <2>2. Resident(c, l)
    BY <1>7 DEF WriteHitUpgrade, Resident
  <2> DEFINE new == [CopiedLine(c, l, data[c][l]) EXCEPT ![w] = v]
  <2>3. data' = [data EXCEPT ![c][l] = new]
    BY <1>7 DEF WriteHitUpgrade
  <2>4. new = [llc[l] EXCEPT ![w] = v]
    BY <1>1, <2>2, FillsLine
  <2> HIDE DEF new
  <2>5. /\ data'[c][l] = new
        /\ \A k \in Lines : k # l => data'[c][k] = data[c][k]
        /\ \A p \in Cores : p # c => data'[p] = data[p]
    BY <1>1, <2>3 DEF TypeOK
  <2> QED
    BY <1>6, <2>1, <2>4, <2>5
<1>8. CASE WriteMiss(c, a, v)
  <2>1. PICK drawn : Owning(c, l, a, drawn, Evicted(c, l))
    BY <1>8 DEF WriteMiss
  <2>2. ~Resident(c, l) /\ Owners(c, l) = {}
    BY <1>8 DEF WriteMiss, OverwrittenByOwner
  <2> DEFINE new == [EmptyLine EXCEPT ![w] = v]
  <2>3. data' = [data EXCEPT ![c] =
                   [k \in Lines |-> IF k = l THEN new
                                    ELSE IF k \in Evicted(c, l) THEN EmptyLine
                                    ELSE data[c][k]]]
    BY <1>8, <2>2 DEF WriteMiss, CopiedLine
  <2>4. new = [llc[l] EXCEPT ![w] = v]
    <3>1. \A u \in Words \ {w} : EmptyLine[u] = llc[l][u]
      BY <2>2 DEF PartialFill, Resident, ValidStates
    <3>2. EmptyLine \in [Words -> Data] /\ llc[l] \in [Words -> Data]
      BY <1>1, EmptyLineType DEF TypeOK
    <3> QED
      BY <1>1, <3>1, <3>2
  <2> HIDE DEF new
  <2>5. /\ data'[c][l] = new
        /\ \A p \in Cores : p # c => data'[p] = data[p]
    BY <1>1, <2>3 DEF TypeOK
  <2>6. ASSUME NEW k \in Lines, k # l, state'[c][k] # "ABSENT"
        PROVE  data'[c][k] = data[c][k]
    <3>1. k \notin Evicted(c, l)
      BY <2>1, <2>6 DEF Owning
    <3> QED
      BY <1>1, <2>3, <2>6, <3>1 DEF TypeOK
  <2> QED
    BY <1>6, <2>1, <2>4, <2>5, <2>6
<1> QED
  BY <1>5, <1>7, <1>8 DEF cache_write

LEMMA ReadKeepsCoherence ==
    ASSUME StateInv, Coherent, NEW c \in Cores, NEW a \in Addrs,
           cache_read(c, a), ~PartialFill(c, a), ~LostVictim(c, a)
    PROVE  Coherent'
<1> DEFINE l == LineOf(a)
           w == WordOf(a)
           last == data[Max(Sharers(c, l))][l][w]
<1>1. l \in Lines /\ w \in Words /\ TypeOK
  BY AddressTypes DEF StateInv
<1>2. llc' = llc
  BY DEF cache_read, ReadHit, ReadVictimized, ReadInvalid, ReadMiss,
     ReadNotInSystem, protocolVars
<1>3. llc[l] \in [Words -> Data] /\ llc[l][w] \in Data
  BY <1>1 DEF TypeOK
<1>4. CASE state' = state /\ data' = data
  BY <1>2, <1>4 DEF Coherent
<1>5. ASSUME Sharing(c, l), Resident(c, l), NEW valid, valid = llc[l][w],
             data' = [data EXCEPT ![c][l] =
                        [CopiedLine(c, l, data[c][l]) EXCEPT ![w] = valid]]
      PROVE  Coherent'
  <2> SUFFICES ASSUME NEW o \in Cores, NEW m \in Lines,
                      state'[o][m] \in ValidStates
               PROVE  data'[o][m] = llc[m]
    BY <1>2 DEF Coherent
  <2> DEFINE new == [CopiedLine(c, l, data[c][l]) EXCEPT ![w] = valid]
  <2>1. new = llc[l]
    <3>1. new = [llc[l] EXCEPT ![w] = valid]
      BY <1>1, <1>3, <1>5, FillsLine
    <3>2. [llc[l] EXCEPT ![w] = valid] = llc[l]
      <4> DEFINE f == [llc[l] EXCEPT ![w] = valid]
      <4>1. f \in [Words -> Data] /\ \A u \in Words : f[u] = llc[l][u]
        BY <1>1, <1>3, <1>5
      <4> HIDE DEF f
      <4>2. f = llc[l]
        BY <1>3, <4>1, SameLine
      <4> QED
        BY <4>2 DEF f
    <3> QED
      BY <3>1, <3>2
  <2> HIDE DEF new
  <2>2. data' = [data EXCEPT ![c][l] = new]
    BY <1>5 DEF new
  <2>3. CASE o = c /\ m = l
    BY <1>1, <2>1, <2>2, <2>3 DEF TypeOK
  <2>4. CASE ~(o = c /\ m = l)
    <3>1. data'[o][m] = data[o][m]
      BY <1>1, <2>2, <2>4 DEF TypeOK
    <3>2. state[o][m] \in ValidStates
      <4>1. o \in Sharers(c, l) => state[o][l] \in ValidStates
        BY DEF Sharers
      <4> QED
        BY <1>1, <1>5, <2>4, <4>1, SharingStates
    <3> QED
      BY <3>1, <3>2 DEF Coherent
  <2> QED
    BY <2>3, <2>4
<1>6. CASE ReadVictimized(c, a)
  <2>1. Sharers(c, l) # {} /\ Resident(c, l)
    BY <1>6 DEF ReadVictimized, LostVictim, Resident
  <2>2. last = llc[l][w]
    BY <1>1, <2>1, SharedWordIsLLCs
  <2>3. /\ Sharing(c, l)
        /\ data' = [data EXCEPT ![c][l] =
                      [CopiedLine(c, l, data[c][l]) EXCEPT ![w] = last]]
    BY <1>6, <2>1 DEF ReadVictimized
  <2> QED
    BY <1>5, <2>1, <2>2, <2>3
<1>7. CASE ReadInvalid(c, a)
  <2> DEFINE valid == IF Sharers(c, l) = {} THEN llc[l][w] ELSE last
  <2>1. valid = llc[l][w] /\ Resident(c, l)
    BY <1>1, <1>7, SharedWordIsLLCs DEF ReadInvalid, Resident
  <2>2. \/ UNCHANGED <<state, data>>
        \/ /\ Sharing(c, l)
           /\ data' = [data EXCEPT ![c][l] =
                         [CopiedLine(c, l, data[c][l]) EXCEPT ![w] = valid]]
    BY <1>7, Zenon DEF ReadInvalid
  <2> HIDE DEF valid
  <2> QED
    BY <1>4, <1>5, <2>1, <2>2
<1>8. CASE ReadMiss(c, a)
  <2> SUFFICES ASSUME NEW o \in Cores, NEW m \in Lines,
                      state'[o][m] \in ValidStates
               PROVE  data'[o][m] = llc[m]
    BY <1>2 DEF Coherent
  <2>1. data'[o][m] = IF m = l /\ (o = c \/ o \in Owners(c, l)) THEN llc[l]
                      ELSE IF o = c /\ m \in Evicted(c, l) THEN EmptyLine
                      ELSE data[o][m]
    BY <1>8 DEF ReadMiss
  <2>2. state'[o][m] = IF m = l /\ (o = c \/ o \in Owners(c, l)) THEN "SHARED"
                       ELSE IF o = c /\ m \in Evicted(c, l) THEN "ABSENT"
                       ELSE state[o][m]
    BY <1>8 DEF ReadMiss
  <2> QED
    BY <2>1, <2>2 DEF Coherent, ValidStates
<1>9. CASE ReadHit(c, a) \/ ReadNotInSystem(c, a)
  BY <1>4, <1>9 DEF ReadHit, ReadNotInSystem, protocolVars
<1> QED
  BY <1>6, <1>7, <1>8, <1>9 DEF cache_read

(* Valid copies and the LLC part company only in a write miss over another *)
(* core's MODIFIED line, in a fill of a single word of a stale or zero     *)
(* line, and in reading a victim that has lost all its valid copies.       *)
THEOREM CoherenceLossExplainedHolds == Spec => CoherenceLossExplained
<1> DEFINE Goal ==
       Coherent /\ ~Coherent' =>
          \E c \in Cores, a \in Addrs :
              /\ CalledBy(c, a)
              /\ \/ OverwrittenByOwner(c, a)
                 \/ PartialFill(c, a)
                 \/ LostVictim(c, a)
<1>1. StateInv /\ [Next]_vars => [Goal]_vars
  <2> SUFFICES ASSUME StateInv, Next, Coherent, ~Coherent'
               PROVE  \E c \in Cores, a \in Addrs :
                         /\ CalledBy(c, a)
                         /\ \/ OverwrittenByOwner(c, a)
                            \/ PartialFill(c, a)
                            \/ LostVictim(c, a)
    OBVIOUS
  <2>1. PICK c \in Cores, a \in Addrs : CalledBy(c, a)
    BY DEF Next, CalledBy
  <2>2. \/ OverwrittenByOwner(c, a)
        \/ PartialFill(c, a)
        \/ LostVictim(c, a)
    BY <2>1, WriteKeepsCoherence, ReadKeepsCoherence DEF CalledBy
  <2> QED
    BY <2>1, <2>2
<1>2. Spec => [][Goal]_vars
  BY <1>1, StateInvariant, PTL DEF Spec
<1> QED
  BY <1>2, PTL DEF CoherenceLossExplained

-----------------------------------------------------------------------------
(* Where a word can come from                                              *)

(* The words a cell may come to hold in a call that writes new (or, with   *)
(* new empty, in a read) at address a: what some cache or the LLC holds in *)
(* that very cell, zero, or the word written.                              *)
Sources(m, u, a, new) ==
    {data[p][m][u] : p \in Cores} \union {llc[m][u], 0}
        \union (IF <<m, u>> = Location(a) THEN new ELSE {})

LEMMA CopiedFromSources ==
    ASSUME TypeOK, NEW c \in Cores, NEW l \in Lines, NEW u \in Words,
           NEW own, NEW S, own[u] \in S,
           \A p \in Cores : data[p][l][u] \in S
    PROVE  CopiedLine(c, l, own)[u] \in S
<1>1. CASE Owners(c, l) = {}
  BY <1>1 DEF CopiedLine
<1>2. CASE Owners(c, l) # {}
  <2>1. Max(Owners(c, l)) \in Cores
    BY <1>2, SnoopTypes, MaxOfCores
  <2> QED
    BY <1>2, <2>1 DEF CopiedLine
<1> QED
  BY <1>1, <1>2

(* A line filled from a copy, with one word set to x.                      *)
LEMMA FillFromSources ==
    ASSUME TypeOK, NEW c \in Cores, NEW a \in Addrs, NEW u \in Words,
           NEW x, NEW S, u = WordOf(a) => x \in S,
           \A p \in Cores : data[p][LineOf(a)][u] \in S
    PROVE  [CopiedLine(c, LineOf(a), data[c][LineOf(a)])
              EXCEPT ![WordOf(a)] = x][u] \in S
<1> DEFINE line == CopiedLine(c, LineOf(a), data[c][LineOf(a)])
<1>1. LineOf(a) \in Lines /\ WordOf(a) \in Words
  BY AddressTypes
<1>2. line \in [Words -> Data]
  BY <1>1, CopiedLineType DEF TypeOK
<1>3. line[u] \in S
  BY <1>1, CopiedFromSources
<1> HIDE DEF line
<1>4. [line EXCEPT ![WordOf(a)] = x][u] \in S
  BY <1>1, <1>2, <1>3
<1> QED
  BY <1>4 DEF line

LEMMA WriteSources ==
    ASSUME TypeOK, NEW c \in Cores, NEW a \in Addrs, NEW v \in Values,
           cache_write(c, a, v), NEW m \in Lines, NEW u \in Words
    PROVE  /\ llc'[m][u] \in Sources(m, u, a, {v})
           /\ \A o \in Cores : data'[o][m][u] \in Sources(m, u, a, {v})
<1> DEFINE l == LineOf(a)
           w == WordOf(a)
           S == Sources(m, u, a, {v})
<1>1. l \in Lines /\ w \in Words
  BY AddressTypes
<1>2. /\ 0 \in S /\ llc[m][u] \in S
      /\ \A p \in Cores : data[p][m][u] \in S
      /\ m = l /\ u = w => v \in S
  BY DEF Sources, Location
<1> HIDE DEF S
<1>3. llc'[m][u] \in S
  <2>1. llc' = [llc EXCEPT ![l][w] = v]
    BY DEF cache_write, WriteHitModified, WriteHitUpgrade, WriteMiss,
       update_llc
  <2> QED
    BY <1>1, <1>2, <2>1 DEF TypeOK
<1>4. ASSUME NEW o \in Cores PROVE data'[o][m][u] \in S
  <2>1. CASE WriteHitModified(c, a, v)
    <3>1. data' = [data EXCEPT ![c][l][w] = v]
      BY <2>1 DEF WriteHitModified
    <3> QED
      BY <1>1, <1>2, <3>1 DEF TypeOK
  <2>2. CASE WriteHitUpgrade(c, a, v)
    <3> DEFINE new == [CopiedLine(c, l, data[c][l]) EXCEPT ![w] = v]
    <3>1. data' = [data EXCEPT ![c][l] = new]
      BY <2>2 DEF WriteHitUpgrade
    <3>2. m = l => new[u] \in S
      BY <1>2, FillFromSources
    <3> HIDE DEF new
    <3> QED
      BY <1>1, <1>2, <3>1, <3>2 DEF TypeOK
  <2>3. CASE WriteMiss(c, a, v)
    <3> DEFINE own == [EmptyLine EXCEPT ![w] = v]
               new == CopiedLine(c, l, own)
    <3>1. data' = [data EXCEPT ![c] =
                     [k \in Lines |-> IF k = l THEN new
                                      ELSE IF k \in Evicted(c, l) THEN EmptyLine
                                      ELSE data[c][k]]]
      BY <2>3 DEF WriteMiss
    <3>2. m = l => new[u] \in S
      <4>1. m = l => own[u] \in S
        BY <1>1, <1>2 DEF EmptyLine
      <4> HIDE DEF own
      <4> QED
        BY <1>1, <1>2, <4>1, CopiedFromSources
    <3> HIDE DEF new
    <3>3. CASE o = c
      <4>1. data'[o][m] = IF m = l THEN new
                          ELSE IF m \in Evicted(c, l) THEN EmptyLine
                          ELSE data[c][m]
        BY <3>1, <3>3 DEF TypeOK
      <4>2. EmptyLine[u] = 0
        BY DEF EmptyLine
      <4> QED
        BY <1>2, <3>2, <4>1, <4>2
    <3>4. CASE o # c
      BY <1>2, <3>1, <3>4 DEF TypeOK
    <3> QED
      BY <3>3, <3>4
  <2> QED
    BY <2>1, <2>2, <2>3 DEF cache_write
<1> QED
  BY <1>3, <1>4 DEF S

LEMMA ReadSources ==
    ASSUME TypeOK, NEW c \in Cores, NEW a \in Addrs, cache_read(c, a),
           NEW m \in Lines, NEW u \in Words, NEW o \in Cores
    PROVE  /\ llc' = llc
           /\ data'[o][m][u] \in Sources(m, u, a, {})
<1> DEFINE l == LineOf(a)
           w == WordOf(a)
           S == Sources(m, u, a, {})
           last == data[Max(Sharers(c, l))][l][w]
<1>1. l \in Lines /\ w \in Words
  BY AddressTypes
<1>2. /\ 0 \in S /\ llc[m][u] \in S
      /\ \A p \in Cores : data[p][m][u] \in S
  BY DEF Sources
<1> HIDE DEF S
<1>3. m = l /\ u = w /\ Sharers(c, l) # {} => last \in S
  <2>1. Sharers(c, l) # {} => Max(Sharers(c, l)) \in Cores
    BY <1>1, SnoopTypes, MaxOfCores
  <2> QED
    BY <1>2, <2>1
<1>4. llc' = llc
  BY DEF cache_read, ReadHit, ReadVictimized, ReadInvalid, ReadMiss,
     ReadNotInSystem, protocolVars
<1> SUFFICES data'[o][m][u] \in S
  BY <1>4 DEF S
<1>5. ASSUME NEW valid, m = l /\ u = w => valid \in S,
             data' = [data EXCEPT ![c][l] =
                        [CopiedLine(c, l, data[c][l]) EXCEPT ![w] = valid]]
      PROVE  data'[o][m][u] \in S
  <2> DEFINE new == [CopiedLine(c, l, data[c][l]) EXCEPT ![w] = valid]
  <2>1. data' = [data EXCEPT ![c][l] = new]
    BY <1>5
  <2>2. m = l => new[u] \in S
    BY <1>2, <1>5, FillFromSources
  <2> HIDE DEF new
  <2> QED
    BY <1>1, <1>2, <2>1, <2>2 DEF TypeOK
<1>6. CASE data' = data
  BY <1>2, <1>6
<1>7. CASE ReadVictimized(c, a)
  <2> DEFINE valid == IF Sharers(c, l) = {} THEN 0 ELSE last
  <2>1. data' = [data EXCEPT ![c][l] =
                   [CopiedLine(c, l, data[c][l]) EXCEPT ![w] = valid]]
    BY <1>7 DEF ReadVictimized
  <2>2. m = l /\ u = w => valid \in S
    BY <1>2, <1>3
  <2> HIDE DEF valid
  <2> QED
    BY <1>5, <2>1, <2>2
<1>8. CASE ReadInvalid(c, a)
  <2> DEFINE valid == IF Sharers(c, l) = {} THEN llc[l][w] ELSE last
  <2>1. \/ data' = data
        \/ data' = [data EXCEPT ![c][l] =
                      [CopiedLine(c, l, data[c][l]) EXCEPT ![w] = valid]]
    BY <1>8, Zenon DEF ReadInvalid
  <2>2. m = l /\ u = w => valid \in S
    BY <1>2, <1>3
  <2> HIDE DEF valid
  <2> QED
    BY <1>5, <1>6, <2>1, <2>2
<1>9. CASE ReadMiss(c, a)
  <2>1. data'[o][m] = IF m = l /\ (o = c \/ o \in Owners(c, l)) THEN llc[l]
                      ELSE IF o = c /\ m \in Evicted(c, l) THEN EmptyLine
                      ELSE data[o][m]
    BY <1>9 DEF ReadMiss
  <2>2. EmptyLine[u] = 0
    BY DEF EmptyLine
  <2> QED
    BY <1>2, <2>1, <2>2
<1>10. CASE ReadHit(c, a) \/ ReadNotInSystem(c, a)
  BY <1>6, <1>10 DEF ReadHit, ReadNotInSystem, protocolVars
<1> QED
  BY <1>7, <1>8, <1>9, <1>10 DEF cache_read

-----------------------------------------------------------------------------
(* The invariant: the history's type, its agreement with the LLC's tags    *)
(* (what the LLC lacks was never written), and NoThinAir.                  *)

NothingUnheld ==
    \A l \in Lines, w \in Words : l \notin llc_lines => written[<<l, w>>] = {}

MemoryInv ==
    /\ StateInv
    /\ written \in [Locations -> SUBSET Values]
    /\ NothingUnheld
    /\ NoThinAir

LEMMA LocationTypes ==
    ASSUME NEW a \in Addrs
    PROVE  Location(a) \in Locations
BY AddressTypes DEF Location, Locations

LEMMA WriteKeepsHistory ==
    ASSUME MemoryInv, NEW c \in Cores, NEW a \in Addrs, NEW v \in Values,
           HWrite(c, a, v)
    PROVE  /\ written' \in [Locations -> SUBSET Values]
           /\ NothingUnheld'
           /\ NoThinAir'
<1>1. /\ TypeOK /\ cache_write(c, a, v)
      /\ written' = [written EXCEPT ![Location(a)] = @ \union {v}]
      /\ written \in [Locations -> SUBSET Values]
  BY DEF MemoryInv, StateInv, HWrite
<1>2. Location(a) \in Locations
  BY LocationTypes
<1>3. written' \in [Locations -> SUBSET Values]
  BY <1>1, <1>2
<1>4. \A x \in Locations :
         written'[x] = IF x = Location(a) THEN written[x] \union {v}
                       ELSE written[x]
  BY <1>1, <1>2
<1>5. NothingUnheld'
  <2> SUFFICES ASSUME NEW l \in Lines, NEW w \in Words, l \notin llc_lines'
               PROVE  written'[<<l, w>>] = {}
    BY DEF NothingUnheld
  <2>1. llc_lines' = llc_lines \union {LineOf(a)}
    BY <1>1, WriteStates
  <2>2. <<l, w>> \in Locations /\ <<l, w>> # Location(a)
    BY <2>1 DEF Locations, Location
  <2> QED
    BY <1>4, <2>1, <2>2 DEF MemoryInv, NothingUnheld
<1>6. NoThinAir'
  <2> SUFFICES ASSUME NEW l \in Lines, NEW w \in Words
               PROVE  /\ llc'[l][w] \in written'[<<l, w>>] \union {0}
                      /\ \A o \in Cores :
                            data'[o][l][w] \in written'[<<l, w>>] \union {0}
    BY DEF NoThinAir
  <2>1. <<l, w>> \in Locations
    BY DEF Locations
  <2>2. Sources(l, w, a, {v}) \subseteq written'[<<l, w>>] \union {0}
    <3>1. /\ written[<<l, w>>] \subseteq written'[<<l, w>>]
          /\ <<l, w>> = Location(a) => v \in written'[<<l, w>>]
      BY <1>4, <2>1
    <3>2. /\ llc[l][w] \in written[<<l, w>>] \union {0}
          /\ \A p \in Cores : data[p][l][w] \in written[<<l, w>>] \union {0}
      BY DEF MemoryInv, NoThinAir
    <3> QED
      BY <3>1, <3>2 DEF Sources
  <2> QED
    BY <1>1, <2>2, WriteSources
<1> QED
  BY <1>3, <1>5, <1>6

LEMMA ReadKeepsHistory ==
    ASSUME MemoryInv, NEW c \in Cores, NEW a \in Addrs, HRead(c, a)
    PROVE  /\ written' \in [Locations -> SUBSET Values]
           /\ NothingUnheld'
           /\ NoThinAir'
<1>1. /\ TypeOK /\ cache_read(c, a) /\ written' = written
      /\ written \in [Locations -> SUBSET Values]
  BY DEF MemoryInv, StateInv, HRead
<1>2. NothingUnheld'
  <2>1. llc_lines' = llc_lines
    BY <1>1 DEF cache_read, ReadHit, ReadVictimized, ReadInvalid, ReadMiss,
       ReadNotInSystem, protocolVars
  <2> QED
    BY <1>1, <2>1 DEF MemoryInv, NothingUnheld
<1>3. NoThinAir'
  <2> SUFFICES ASSUME NEW l \in Lines, NEW w \in Words
               PROVE  /\ llc'[l][w] \in written[<<l, w>>] \union {0}
                      /\ \A o \in Cores :
                            data'[o][l][w] \in written[<<l, w>>] \union {0}
    BY <1>1 DEF NoThinAir
  <2>1. Sources(l, w, a, {}) \subseteq written[<<l, w>>] \union {0}
    BY DEF Sources, MemoryInv, NoThinAir
  <2>2. llc' = llc
    BY <1>1 DEF cache_read, ReadHit, ReadVictimized, ReadInvalid, ReadMiss,
       ReadNotInSystem, protocolVars
  <2> QED
    BY <1>1, <2>1, <2>2, ReadSources DEF MemoryInv, NoThinAir
<1> QED
  BY <1>1, <1>2, <1>3

LEMMA HistoryAddsNothing == HSpec => Spec
<1>1. HInit => Init
  BY DEF HInit
<1>2. [HNext]_hvars => [Next]_vars
  <2>1. HNext => Next
    BY DEF HNext, HWrite, HRead, Next
  <2> QED
    BY <2>1 DEF hvars
<1> QED
  BY <1>1, <1>2, PTL DEF HSpec, Spec

LEMMA MemoryInvariant == HSpec => []MemoryInv
<1>1. HInit /\ StateInv => MemoryInv
  <2> SUFFICES ASSUME HInit, StateInv PROVE MemoryInv
    OBVIOUS
  <2>1. written = [x \in Locations |-> {}]
    BY DEF HInit
  <2>2. \A l \in Lines, w \in Words :
            /\ llc[l][w] = 0
            /\ \A c \in Cores : data[c][l][w] = 0
    BY DEF HInit, Init, EmptyLine
  <2>3. \A l \in Lines, w \in Words : written[<<l, w>>] = {}
    BY <2>1 DEF Locations
  <2> QED
    BY <2>1, <2>2, <2>3 DEF MemoryInv, NothingUnheld, NoThinAir
<1>2. MemoryInv /\ [HNext]_hvars /\ StateInv' => MemoryInv'
  <2> SUFFICES ASSUME MemoryInv, [HNext]_hvars, StateInv' PROVE MemoryInv'
    OBVIOUS
  <2>1. CASE HNext
    BY <2>1, WriteKeepsHistory, ReadKeepsHistory DEF HNext, MemoryInv
  <2>2. CASE UNCHANGED hvars
    BY <2>2 DEF hvars, vars, MemoryInv, NothingUnheld, NoThinAir
  <2> QED
    BY <2>1, <2>2
<1>3. HSpec => []StateInv
  BY HistoryAddsNothing, StateInvariant, PTL
<1> QED
  BY <1>1, <1>2, <1>3, PTL DEF HSpec

(* No path through the controller ever moves a word to another cell, or    *)
(* makes one up.                                                           *)
THEOREM NoThinAirHolds == HSpec => []NoThinAir
BY MemoryInvariant, PTL DEF MemoryInv

-----------------------------------------------------------------------------
(* Refinement, step by step.                                               *)

LEMMA MemWritten ==
    ASSUME TypeOK, NEW a \in Addrs, NEW v \in Values, update_llc(a, v)
    PROVE  [x \in Locations |-> llc[x[1]][x[2]]]'
             = [[x \in Locations |-> llc[x[1]][x[2]]] EXCEPT ![Location(a)] = v]
<1>1. LineOf(a) \in Lines /\ WordOf(a) \in Words /\ Location(a) \in Locations
  BY AddressTypes, LocationTypes
<1>2. llc' = [llc EXCEPT ![LineOf(a)][WordOf(a)] = v]
  BY DEF update_llc
<1>3. \A l \in Lines, w \in Words :
         llc'[l][w] = IF <<l, w>> = Location(a) THEN v ELSE llc[l][w]
  BY <1>1, <1>2 DEF TypeOK, Location
<1>4. \A x \in Locations : /\ x[1] \in Lines /\ x[2] \in Words
                           /\ x = <<x[1], x[2]>>
  BY DEF Locations
<1>5. \A x \in Locations :
         llc'[x[1]][x[2]] = IF x = Location(a) THEN v ELSE llc[x[1]][x[2]]
  BY <1>3, <1>4
<1> QED
  BY <1>1, <1>5

LEMMA WriteImplements ==
    ASSUME MemoryInv, NEW c \in Cores, NEW a \in Addrs, NEW v \in Values,
           HWrite(c, a, v)
    PROVE  Memory!Next
<1>1. /\ TypeOK /\ cache_write(c, a, v)
      /\ written' = [written EXCEPT ![Location(a)] = @ \union {v}]
  BY DEF MemoryInv, StateInv, HWrite
<1>2. update_llc(a, v) /\ UNCHANGED result
  BY <1>1 DEF cache_write, WriteHitModified, WriteHitUpgrade, WriteMiss
<1>3. Memory!Write(Location(a), v)
  BY <1>1, <1>2, MemWritten DEF Memory!Write
<1> QED
  BY <1>3, LocationTypes DEF Memory!Next

(* What each read answers, in the terms of ApproximateMemory.              *)
LEMMA ReadAnswers ==
    ASSUME MemoryInv, NEW c \in Cores, NEW a \in Addrs, cache_read(c, a)
    PROVE  \/ /\ written[Location(a)] = {}
              /\ result' = [speculated |-> FALSE, not_in_system |-> TRUE,
                            valid_data |-> 0, invalid_data |-> 0]
           \/ \E valid, invalid \in written[Location(a)] \union {0},
                 spec \in BOOLEAN :
                /\ spec => check_address(a)
                /\ Returns(spec, valid, invalid)
<1> DEFINE l == LineOf(a)
           w == WordOf(a)
           S == written[Location(a)] \union {0}
           own == data[c][l][w]
           last == data[Max(Sharers(c, l))][l][w]
<1>1. l \in Lines /\ w \in Words
  BY AddressTypes
<1>2. 0 \in S /\ own \in S /\ llc[l][w] \in S
  BY <1>1 DEF MemoryInv, NoThinAir, Location
<1>3. Sharers(c, l) # {} => last \in S
  <2>1. Sharers(c, l) # {} => Max(Sharers(c, l)) \in Cores
    BY <1>1, SnoopTypes, MaxOfCores
  <2> QED
    BY <1>1, <2>1 DEF MemoryInv, NoThinAir, Location
<1>4. l \notin llc_lines => written[Location(a)] = {}
  BY <1>1 DEF MemoryInv, NothingUnheld, Location
<1>5. SUFFICES \/ /\ l \notin llc_lines
                  /\ result' = [speculated |-> FALSE, not_in_system |-> TRUE,
                                valid_data |-> 0, invalid_data |-> 0]
               \/ \E valid, invalid \in S, spec \in BOOLEAN :
                    /\ spec => check_address(a)
                    /\ Returns(spec, valid, invalid)
  BY <1>4
<1> HIDE DEF S
<1>6. CASE ReadHit(c, a)
  BY <1>2, <1>6 DEF ReadHit
<1>7. CASE ReadVictimized(c, a)
  <2> DEFINE valid == IF Sharers(c, l) = {} THEN 0 ELSE last
  <2>1. \/ check_address(a) /\ Returns(TRUE, valid, own)
        \/ Returns(FALSE, valid, own)
    BY <1>7, Zenon DEF ReadVictimized
  <2>2. valid \in S
    BY <1>2, <1>3
  <2> HIDE DEF valid
  <2> QED
    BY <1>2, <2>1, <2>2
<1>8. CASE ReadInvalid(c, a)
  <2> DEFINE valid == IF Sharers(c, l) = {} THEN llc[l][w] ELSE last
  <2>1. \/ /\ l \notin llc_lines
           /\ result' = [speculated |-> FALSE, not_in_system |-> TRUE,
                         valid_data |-> 0, invalid_data |-> 0]
        \/ Returns(FALSE, valid, own)
    BY <1>8, Zenon DEF ReadInvalid
  <2>2. valid \in S
    BY <1>2, <1>3
  <2> HIDE DEF valid
  <2> QED
    BY <1>2, <2>1, <2>2
<1>9. CASE ReadMiss(c, a)
  BY <1>2, <1>9 DEF ReadMiss
<1>10. CASE ReadNotInSystem(c, a)
  BY <1>10 DEF ReadNotInSystem
<1> QED
  BY <1>6, <1>7, <1>8, <1>9, <1>10 DEF cache_read

LEMMA ReadImplements ==
    ASSUME MemoryInv, NEW c \in Cores, NEW a \in Addrs, HRead(c, a)
    PROVE  Memory!Next
<1> DEFINE x == Location(a)
<1>1. x \in Locations
  BY LocationTypes
<1>2. cache_read(c, a) /\ written' = written /\ llc' = llc
  BY DEF HRead, cache_read, ReadHit, ReadVictimized, ReadInvalid, ReadMiss,
     ReadNotInSystem, protocolVars
<1>3. UNCHANGED <<[y \in Locations |-> llc[y[1]][y[2]]], written>>
  BY <1>2
<1>4. check_address(a) =>
         x \in {Location(b) : b \in {d \in Addrs : check_address(d)}}
  OBVIOUS
<1>5. Memory!ReadNothing(x) \/ Memory!Read(x)
  <2>1. CASE /\ written[x] = {}
             /\ result' = [speculated |-> FALSE, not_in_system |-> TRUE,
                           valid_data |-> 0, invalid_data |-> 0]
    BY <1>3, <2>1 DEF Memory!ReadNothing
  <2>2. ASSUME NEW valid \in written[x] \union {0},
               NEW invalid \in written[x] \union {0},
               NEW spec \in BOOLEAN,
               spec => check_address(a), Returns(spec, valid, invalid)
        PROVE  Memory!Read(x)
    BY <1>3, <1>4, <2>2 DEF Memory!Read, Returns
  <2> QED
    BY <1>2, <2>1, <2>2, ReadAnswers
<1> QED
  BY <1>1, <1>5 DEF Memory!Next

(* A write takes effect in the shared memory when cache_write returns, and *)
(* reads answer, speculate and fail only as ApproximateMemory allows.      *)
THEOREM ImplementsMemoryHolds == HSpec => ImplementsMemory
<1>1. HInit => Memory!Init
  <2> SUFFICES ASSUME HInit PROVE Memory!Init
    OBVIOUS
  <2>1. [x \in Locations |-> llc[x[1]][x[2]]] = [x \in Locations |-> 0]
    BY DEF HInit, Init, EmptyLine, Locations
  <2> QED
    BY <2>1 DEF HInit, Init, Memory!Init
<1>2. MemoryInv /\ [HNext]_hvars => [Memory!Next]_Memory!vars
  <2> SUFFICES ASSUME MemoryInv, [HNext]_hvars
               PROVE  [Memory!Next]_Memory!vars
    OBVIOUS
  <2>1. CASE HNext
    BY <2>1, WriteImplements, ReadImplements DEF HNext
  <2>2. CASE UNCHANGED hvars
    BY <2>2 DEF hvars, vars, Memory!vars
  <2> QED
    BY <2>1, <2>2
<1> QED
  BY <1>1, <1>2, MemoryInvariant, PTL DEF HSpec, ImplementsMemory, Memory!Spec
=============================================================================
