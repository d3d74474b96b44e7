-------------------------- MODULE ControllerProofs --------------------------
(***************************************************************************)
(* The two controllers keep the same lines in the same states and count    *)
(* alike, and the stand-alone one loses coherence of data in one way, for  *)
(* every number of cores, geometry, program and tuning.                    *)
(***************************************************************************)
EXTENDS Controllers, ReplacementProofs

(* The two name cores, lines and sets alike.                               *)
LEMMA SameNames ==
    /\ Sim!Cores = Cores /\ Sim!Lines = Lines
    /\ Sim!ValidStates = ValidStates
    /\ \A a : Sim!LineOf(a) = LineOf(a)
    /\ \A l : Sim!SetOf(l) = SetOf(l)
BY DEF Sim!Cores, Cores, Sim!Lines, Lines, Sim!ValidStates, ValidStates,
       Sim!LineOf, LineOf, Sim!SetOf, SetOf

(* The two count in the same way, too.                                     *)
LEMMA SameCardinality == \A S : Sim!Cardinality(S) = Cardinality(S)
BY DEF Sim!Cardinality, Cardinality

(* No address is in the stand-alone controller's range.                    *)
LEMMA NothingApproximable ==
    ASSUME NEW a \in Addrs
    PROVE  ~Sim!check_address(a)
BY AddrsAssumption, MagicAssumption DEF Sim!check_address

(* What the stand-alone controller's variables are between two calls.      *)
SimTypeOK ==
    /\ sim_state \in [Cores -> [Lines -> CacheStates \union {"ABSENT"}]]
    /\ sim_time_accessed \in [Cores -> [Lines -> Nat]]

(* While the stand-alone program runs the clocks agree, and no call has    *)
(* been answered with not_in_system.                                       *)
LockstepInv ==
    /\ StateInv
    /\ ReplacementInv
    /\ SimTypeOK
    /\ SameProtocol
    /\ sim_status # "exited"
    /\ SimRuns => sim_global_time = global_time /\ ~result.not_in_system

-----------------------------------------------------------------------------
(* In such a state both see the same caches.                               *)

LEMMA SameSets ==
    ASSUME LockstepInv, NEW c \in Cores, NEW l \in Lines
    PROVE  /\ Sim!Resident(c, l) <=> Resident(c, l)
           /\ Sim!Snooped(c, l) = Snooped(c, l)
           /\ Sim!Sharers(c, l) = Sharers(c, l)
           /\ Sim!SetLines(c, l) = SetLines(c, l)
<1>1. \A o \in Cores, m \in Lines :
         /\ Sim!Resident(o, m) <=> Resident(o, m)
         /\ sim_state[o][m] \in ValidStates <=> state[o][m] \in ValidStates
  BY DEF LockstepInv, SameProtocol, WithoutVictims, Sim!Resident, Resident,
         ValidStates
<1>2. Sim!Snooped(c, l) = Snooped(c, l)
  BY <1>1, SameNames DEF Sim!Snooped, Snooped
<1>3. Sim!Sharers(c, l) = Sharers(c, l)
  BY <1>1, <1>2, SameNames DEF Sim!Sharers, Sharers, Snooped
<1>4. Sim!SetLines(c, l) = SetLines(c, l)
  BY <1>1, SameNames DEF Sim!SetLines, SetLines
<1> QED
  BY <1>1, <1>2, <1>3, <1>4

(* The scan for the least recent line finds the same one.                  *)
LEMMA SameLRU ==
    ASSUME LockstepInv, NEW c \in Cores, NEW l \in Lines, SetLines(c, l) # {}
    PROVE  Sim!LRU(c, l) = LRU(c, l)
<1>1. TypeOK /\ DistinctStamps
  BY DEF LockstepInv, ReplacementInv
<1>2. /\ LRU(c, l) \in SetLines(c, l)
      /\ \A m \in SetLines(c, l) :
            time_accessed[c][LRU(c, l)] <= time_accessed[c][m]
  BY <1>1, LRUIsLeast
<1>3. \A m \in SetLines(c, l) :
         /\ m \in Lines /\ Resident(c, m)
         /\ sim_time_accessed[c][m] = time_accessed[c][m]
         /\ time_accessed[c][m] \in Nat
  BY <1>1 DEF SetLines, LockstepInv, SameProtocol, TypeOK
<1>4. \E m \in Sim!SetLines(c, l) :
         \A n \in Sim!SetLines(c, l) :
            sim_time_accessed[c][m] <= sim_time_accessed[c][n]
  BY <1>2, <1>3, SameSets
<1>5. /\ Sim!LRU(c, l) \in SetLines(c, l)
      /\ \A n \in SetLines(c, l) :
            sim_time_accessed[c][Sim!LRU(c, l)] <= sim_time_accessed[c][n]
  BY <1>4, SameSets, Zenon DEF Sim!LRU
<1>6. time_accessed[c][Sim!LRU(c, l)] = time_accessed[c][LRU(c, l)]
  BY <1>2, <1>3, <1>5
<1> QED
  BY <1>1, <1>2, <1>3, <1>5, <1>6 DEF DistinctStamps

(* A missing line takes the place of the same line in both; a resident one *)
(* takes nobody's.                                                         *)
LEMMA SameEvicted ==
    ASSUME LockstepInv, NEW c \in Cores, NEW l \in Lines
    PROVE  /\ Resident(c, l) => Sim!Evicted(c, l) = {}
           /\ ~Resident(c, l) => Sim!Evicted(c, l) = Evicted(c, l)
<1>1. Resident(c, l) => Sim!Evicted(c, l) = {}
  BY SameSets DEF Sim!Evicted
<1>2. ASSUME ~Resident(c, l)
      PROVE  Sim!Evicted(c, l) = Evicted(c, l)
  <2>1. CASE Cardinality(SetLines(c, l)) < L1_SET_ASSOCIATIVITY
    BY <1>2, <2>1, SameSets, SameCardinality DEF Sim!Evicted, Evicted
  <2>2. CASE ~(Cardinality(SetLines(c, l)) < L1_SET_ASSOCIATIVITY)
    <3>1. Evicted(c, l) = {LRU(c, l)} /\ Sim!Evicted(c, l) = {Sim!LRU(c, l)}
      BY <1>2, <2>2, SameSets, SameCardinality DEF Sim!Evicted, Evicted
    <3>2. SetLines(c, l) # {}
      BY <3>1, EvictedIsLRU DEF LockstepInv, ReplacementInv
    <3> QED
      BY <3>1, <3>2, SameLRU
  <2> QED
    BY <2>1, <2>2
<1> QED
  BY <1>1, <1>2

-----------------------------------------------------------------------------
(* What one call does to a line's stamp and state, in both controllers.    *)

(* A snooping call stamps the same lines, in whatever order it snoops and  *)
(* inserts.                                                                *)
LEMMA SameStamps ==
    ASSUME LockstepInv, SimRuns, NEW c \in Cores, NEW l \in Lines,
           global_time' = global_time + 1, Sim!Stamp(c, l),
           \/ Resident(c, l) /\ Touch(c, l)
           \/ ~Resident(c, l) /\ TouchInserting(c, l)
    PROVE  /\ sim_global_time' = global_time'
           /\ sim_time_accessed' \in [Cores -> [Lines -> Nat]]
           /\ \A o \in Cores, m \in Lines :
                sim_time_accessed'[o][m] = time_accessed'[o][m]
<1>1. /\ sim_global_time = global_time
      /\ \A o \in Cores, m \in Lines :
            /\ sim_time_accessed[o][m] = time_accessed[o][m]
            /\ time_accessed[o][m] \in Nat
      /\ global_time \in Nat
  BY DEF LockstepInv, SameProtocol, StateInv, TypeOK
<1>2. Sim!Snooped(c, l) = Snooped(c, l)
  BY SameSets
<1>3. /\ sim_global_time' = global_time + 1
      /\ sim_time_accessed' =
            [o \in Cores |->
                [m \in Lines |->
                    IF m = l /\ (o = c \/ o \in Snooped(c, l))
                    THEN global_time + 1
                    ELSE IF o = c /\ m \in Sim!Evicted(c, l) THEN 0
                    ELSE sim_time_accessed[o][m]]]
  BY <1>1, <1>2, SameNames DEF Sim!Stamp
<1>4. sim_time_accessed' \in [Cores -> [Lines -> Nat]]
  BY <1>1, <1>3
<1>5. ASSUME Resident(c, l), Touch(c, l), NEW o \in Cores, NEW m \in Lines
      PROVE  sim_time_accessed'[o][m] = time_accessed'[o][m]
  <2>1. sim_time_accessed'[o][m] =
           IF m = l /\ (o = c \/ o \in Snooped(c, l)) THEN global_time + 1
           ELSE time_accessed[o][m]
    BY <1>1, <1>3, <1>5, SameEvicted
  <2>2. time_accessed'[o] =
           IF o = c \/ o \in Snooped(c, l)
           THEN [time_accessed[o] EXCEPT ![l] = global_time + 1]
           ELSE time_accessed[o]
    BY <1>5 DEF Touch
  <2>3. time_accessed[o] \in [Lines -> Nat]
    BY DEF LockstepInv, StateInv, TypeOK
  <2> QED
    BY <2>1, <2>2, <2>3
<1>6. ASSUME ~Resident(c, l), TouchInserting(c, l),
             NEW o \in Cores, NEW m \in Lines
      PROVE  sim_time_accessed'[o][m] = time_accessed'[o][m]
  <2>1. Sim!Evicted(c, l) = Evicted(c, l)
    BY <1>6, SameEvicted
  <2> QED
    BY <1>1, <1>3, <1>6, <2>1 DEF TouchInserting
<1> QED
  BY <1>3, <1>4, <1>5, <1>6

(* The states that a snooping call of the stand-alone controller leaves.   *)
Becoming(c, l, own, other, o, m) ==
    IF m = l
    THEN IF o = c THEN own
         ELSE IF o \in Sharers(c, l) THEN other[o]
         ELSE WithoutVictims(state[o][m])
    ELSE IF o = c /\ ~Resident(c, l) /\ m \in Evicted(c, l)
    THEN "ABSENT"
    ELSE WithoutVictims(state[o][m])

LEMMA BecomesStates ==
    ASSUME LockstepInv, NEW c \in Cores, NEW l \in Lines, NEW words,
           NEW own \in CacheStates, NEW other \in [Cores -> CacheStates],
           Sim!Becomes(c, l, own, words, other)
    PROVE  /\ sim_state' \in [Cores -> [Lines -> CacheStates \union {"ABSENT"}]]
           /\ \A o \in Cores, m \in Lines :
                sim_state'[o][m] = Becoming(c, l, own, other, o, m)
<1>1. \A o \in Cores, m \in Lines :
         /\ sim_state[o][m] = WithoutVictims(state[o][m])
         /\ sim_state[o][m] \in CacheStates \union {"ABSENT"}
  BY DEF LockstepInv, SameProtocol, SimTypeOK
<1>2. Sim!Sharers(c, l) = Sharers(c, l)
  BY SameSets
<1>3. sim_state' =
         [o \in Cores |->
             [m \in Lines |->
                 IF m = l
                 THEN IF o = c THEN own
                      ELSE IF o \in Sharers(c, l) THEN other[o]
                      ELSE sim_state[o][m]
                 ELSE IF o = c /\ m \in Sim!Evicted(c, l) THEN "ABSENT"
                 ELSE sim_state[o][m]]]
  BY <1>2, SameNames DEF Sim!Becomes
<1>4. \A m : m \in Sim!Evicted(c, l) <=> ~Resident(c, l) /\ m \in Evicted(c, l)
  BY SameEvicted
<1> QED
  BY <1>1, <1>3, <1>4 DEF Becoming

(* A write makes the caller the owner; what it takes from the others is    *)
(* invalid in the one and invalid or a victim in the other, whichever      *)
(* copies the random numbers pick.                                         *)
LEMMA SameOwning ==
    ASSUME LockstepInv, NEW c \in Cores, NEW a \in Addrs, NEW words,
           NEW drawn, NEW evicted, NEW other \in [Cores -> {"INVALID"}],
           Owning(c, LineOf(a), a, drawn, evicted),
           evicted = IF Resident(c, LineOf(a)) THEN {}
                     ELSE Evicted(c, LineOf(a)),
           Sim!Becomes(c, LineOf(a), "MODIFIED", words, other)
    PROVE  /\ sim_state' \in [Cores -> [Lines -> CacheStates \union {"ABSENT"}]]
           /\ \A o \in Cores, m \in Lines :
                sim_state'[o][m] = WithoutVictims(state'[o][m])
<1> DEFINE l == LineOf(a)
<1>1. l \in Lines /\ "MODIFIED" \in CacheStates /\ "INVALID" \in CacheStates
  BY AddressTypes DEF CacheStates, ValidStates
<1>2. \A o \in Cores : other[o] = "INVALID"
  OBVIOUS
<1>3. other \in [Cores -> CacheStates]
  BY <1>1, <1>2
<1>4. Sim!Becomes(c, l, "MODIFIED", words, other)
  OBVIOUS
<1> HIDE DEF l
<1>5. /\ sim_state' \in [Cores -> [Lines -> CacheStates \union {"ABSENT"}]]
      /\ \A o \in Cores, m \in Lines :
           sim_state'[o][m] = Becoming(c, l, "MODIFIED", other, o, m)
  BY <1>1, <1>3, <1>4, BecomesStates
<1>6. ASSUME NEW o \in Cores, NEW m \in Lines
      PROVE  sim_state'[o][m] = WithoutVictims(state'[o][m])
  <2>1. state'[o][m] =
           IF m = l
           THEN IF o = c THEN "MODIFIED"
                ELSE IF o \in Sharers(c, l) THEN Demoted(a, drawn, o)
                     ELSE state[o][m]
           ELSE IF o = c /\ m \in evicted THEN "ABSENT" ELSE state[o][m]
    BY DEF Owning, l
  <2>2. WithoutVictims(Demoted(a, drawn, o)) = "INVALID"
    BY DEF Demoted, WithoutVictims
  <2>3. WithoutVictims("MODIFIED") = "MODIFIED"
        /\ WithoutVictims("ABSENT") = "ABSENT"
    BY DEF WithoutVictims
  <2>4. m \in evicted <=> ~Resident(c, l) /\ m \in Evicted(c, l)
    BY DEF l
  <2> QED
    BY <1>2, <1>5, <2>1, <2>2, <2>3, <2>4 DEF Becoming
<1> QED
  BY <1>5, <1>6

(* The copies that a write of the stand-alone controller takes.            *)
LEMMA AlwaysInvalid ==
    ASSUME NEW a \in Addrs, NEW picks
    PROVE  [o \in Cores |-> Sim!Demoted(a, o \in picks)]
                \in [Cores -> {"INVALID"}]
<1>1. ASSUME NEW o \in Cores PROVE Sim!Demoted(a, o \in picks) = "INVALID"
  BY NothingApproximable, Zenon DEF Sim!Demoted
<1>2. \A o \in Cores : Sim!Demoted(a, o \in picks) \in {"INVALID"}
  BY <1>1, Zenon
<1> QED
  BY <1>2, Zenon

(* A read that finds no valid copy of its own shares the line; where it is *)
(* missing it takes the place of the evicted one.                          *)
LEMMA SameSharing ==
    ASSUME LockstepInv, NEW c \in Cores, NEW a \in Addrs, NEW words,
           NEW other \in [Cores -> {"SHARED"}],
           \/ Resident(c, LineOf(a)) /\ Sharing(c, LineOf(a))
           \/ ReadMiss(c, a),
           Sim!Becomes(c, LineOf(a), "SHARED", words, other)
    PROVE  /\ sim_state' \in [Cores -> [Lines -> CacheStates \union {"ABSENT"}]]
           /\ \A o \in Cores, m \in Lines :
                sim_state'[o][m] = WithoutVictims(state'[o][m])
<1> DEFINE l == LineOf(a)
<1>1. l \in Lines /\ "SHARED" \in CacheStates /\ TypeOK
  BY AddressTypes DEF CacheStates, ValidStates, LockstepInv, StateInv
<1>2. \A o \in Cores : other[o] = "SHARED"
  OBVIOUS
<1>3. other \in [Cores -> CacheStates]
  BY <1>1, <1>2
<1>4. Sim!Becomes(c, l, "SHARED", words, other)
  OBVIOUS
<1>5. \/ Resident(c, l) /\ Sharing(c, l)
      \/ ReadMiss(c, a)
  OBVIOUS
<1>6. ReadMiss(c, a) =>
         /\ ~Resident(c, l)
         /\ \A o \in Cores, m \in Lines :
              state'[o][m] =
                  IF m = l /\ (o = c \/ o \in Owners(c, l)) THEN "SHARED"
                  ELSE IF o = c /\ m \in Evicted(c, l) THEN "ABSENT"
                  ELSE state[o][m]
  BY DEF ReadMiss
<1> HIDE DEF l
<1>7. /\ sim_state' \in [Cores -> [Lines -> CacheStates \union {"ABSENT"}]]
      /\ \A o \in Cores, m \in Lines :
           sim_state'[o][m] = Becoming(c, l, "SHARED", other, o, m)
  BY <1>1, <1>3, <1>4, BecomesStates
<1>8. \A o \in Cores :
         /\ o \in Owners(c, l) => o \in Sharers(c, l)
         /\ o \in Sharers(c, l) /\ o \notin Owners(c, l) =>
               state[o][l] = "SHARED"
  BY DEF Owners, Sharers, ValidStates
<1>9. ASSUME NEW o \in Cores, NEW m \in Lines
      PROVE  sim_state'[o][m] = WithoutVictims(state'[o][m])
  <2>1. WithoutVictims("SHARED") = "SHARED"
        /\ WithoutVictims("ABSENT") = "ABSENT"
    BY DEF WithoutVictims
  <2>2. CASE Resident(c, l) /\ Sharing(c, l)
    <3>1. state'[o] = IF o = c \/ o \in Sharers(c, l)
                      THEN [state[o] EXCEPT ![l] = "SHARED"] ELSE state[o]
      BY <2>2 DEF Sharing
    <3>2. state[o] \in [Lines -> CacheStates \union {"ABSENT"}]
      BY <1>1 DEF TypeOK
    <3>3. state'[o][m] = IF m = l /\ (o = c \/ o \in Sharers(c, l))
                         THEN "SHARED" ELSE state[o][m]
      BY <1>1, <3>1, <3>2
    <3> QED
      BY <1>2, <1>7, <2>1, <2>2, <3>3 DEF Becoming
  <2>3. CASE ReadMiss(c, a)
    <3>1. /\ ~Resident(c, l)
          /\ state'[o][m] =
                IF m = l /\ (o = c \/ o \in Owners(c, l)) THEN "SHARED"
                ELSE IF o = c /\ m \in Evicted(c, l) THEN "ABSENT"
                ELSE state[o][m]
      BY <1>6, <2>3
    <3> QED
      BY <1>2, <1>7, <1>8, <2>1, <3>1 DEF Becoming
  <2> QED
    BY <1>5, <2>2, <2>3
<1> QED
  BY <1>7, <1>9

-----------------------------------------------------------------------------
(* One call of both controllers.                                           *)

(* What they have in common afterwards.                                    *)
InStep ==
    /\ sim_state \in [Cores -> [Lines -> CacheStates \union {"ABSENT"}]]
    /\ \A c \in Cores, l \in Lines :
          sim_state[c][l] = WithoutVictims(state[c][l])
    /\ sim_time_accessed \in [Cores -> [Lines -> Nat]]
    /\ \A c \in Cores, l \in Lines :
          sim_time_accessed[c][l] = time_accessed[c][l]
    /\ sim_llc_lines = llc_lines
    /\ sim_global_time = global_time

(* A hit that snoops nobody stamps one line and leaves the states alone.   *)
LEMMA SameHit ==
    ASSUME LockstepInv, SimRuns, NEW c \in Cores, NEW l \in Lines,
           global_time' = global_time + 1, state' = state,
           time_accessed' = [time_accessed EXCEPT ![c][l] = global_time + 1],
           sim_global_time' = sim_global_time + 1, sim_state' = sim_state,
           sim_time_accessed' =
               [sim_time_accessed EXCEPT ![c][l] = sim_global_time + 1],
           sim_llc_lines' = llc_lines'
    PROVE  InStep'
<1>1. /\ sim_global_time = global_time
      /\ global_time + 1 \in Nat
      /\ sim_state \in [Cores -> [Lines -> CacheStates \union {"ABSENT"}]]
      /\ sim_time_accessed \in [Cores -> [Lines -> Nat]]
      /\ time_accessed \in [Cores -> [Lines -> Nat]]
      /\ \A o \in Cores, m \in Lines :
            /\ sim_state[o][m] = WithoutVictims(state[o][m])
            /\ sim_time_accessed[o][m] = time_accessed[o][m]
  BY DEF LockstepInv, SameProtocol, SimTypeOK, StateInv, TypeOK
<1>2. \A o \in Cores, m \in Lines :
         sim_state'[o][m] = WithoutVictims(state'[o][m])
  BY <1>1
<1>3. sim_time_accessed' \in [Cores -> [Lines -> Nat]]
  BY <1>1
<1>4. \A o \in Cores, m \in Lines :
         sim_time_accessed'[o][m] = time_accessed'[o][m]
  BY <1>1
<1> QED
  BY <1>1, <1>2, <1>3, <1>4 DEF InStep, WithoutVictims

LEMMA WriteInStep ==
    ASSUME LockstepInv, SimRuns, NEW c \in Cores, NEW a \in Addrs,
           NEW v \in Values, cache_write(c, a, v), Sim!cache_write(c, a, v)
    PROVE  InStep' /\ sim_status' = sim_status /\ result' = result
<1> DEFINE l == LineOf(a)
<1>1. /\ l \in Lines /\ Sim!LineOf(a) = l
      /\ sim_llc_lines = llc_lines
      /\ sim_state[c][l] = WithoutVictims(state[c][l])
  BY AddressTypes, SameNames DEF LockstepInv, SameProtocol
<1>2. /\ sim_status' = sim_status /\ result' = result
      /\ llc_lines' = llc_lines \union {l}
      /\ sim_llc_lines' = sim_llc_lines \union {l}
  <2>1. result' = result /\ llc_lines' = llc_lines \union {l}
    BY DEF cache_write, WriteHitModified, WriteHitUpgrade, WriteMiss,
       update_llc
  <2>2. sim_status' = sim_status /\ Sim!update_llc(a, v)
    BY DEF Sim!cache_write, Sim!WriteHitModified, Sim!WriteHitUpgrade,
       Sim!WriteMiss
  <2> QED
    BY <1>1, <2>1, <2>2 DEF Sim!update_llc
<1>3. CASE WriteHitModified(c, a, v)
  <2>1. sim_state[c][l] = "MODIFIED"
    BY <1>1, <1>3 DEF WriteHitModified, WithoutVictims
  <2>2. Sim!WriteHitModified(c, a, v)
    BY <1>1, <2>1, Zenon DEF Sim!cache_write, Sim!WriteHitUpgrade,
       Sim!WriteMiss, Sim!Resident
  <2> QED
    BY <1>1, <1>2, <1>3, <2>2, SameHit
       DEF WriteHitModified, Sim!WriteHitModified, Tick
<1>4. CASE WriteHitUpgrade(c, a, v) \/ WriteMiss(c, a, v)
  <2> DEFINE evicted == IF Resident(c, l) THEN {} ELSE Evicted(c, l)
  <2>1. /\ global_time' = global_time + 1
        /\ \/ Resident(c, l) /\ Touch(c, l)
           \/ ~Resident(c, l) /\ TouchInserting(c, l)
        /\ \E drawn : Owning(c, l, a, drawn, evicted)
        /\ state[c][l] # "MODIFIED"
    BY <1>4 DEF WriteHitUpgrade, WriteMiss, Tick, Resident
  <2>2. sim_state[c][l] # "MODIFIED"
    BY <1>1, <2>1 DEF WithoutVictims
  <2>3. Sim!WriteHitUpgrade(c, a, v) \/ Sim!WriteMiss(c, a, v)
    BY <1>1, <2>2 DEF Sim!cache_write, Sim!WriteHitModified
  <2>4. /\ Sim!Stamp(c, l)
        /\ \E words, picks :
              Sim!Becomes(c, l, "MODIFIED", words,
                          [o \in Sim!Cores |-> Sim!Demoted(a, o \in picks)])
    BY <1>1, <2>3, Zenon DEF Sim!WriteHitUpgrade, Sim!WriteMiss
  <2>5. \E other \in [Cores -> {"INVALID"}] : \E words :
            Sim!Becomes(c, l, "MODIFIED", words, other)
    <3>1. PICK words, picks :
             Sim!Becomes(c, l, "MODIFIED", words,
                         [o \in Cores |-> Sim!Demoted(a, o \in picks)])
      BY <2>4, SameNames, Zenon
    <3>2. [o \in Cores |-> Sim!Demoted(a, o \in picks)]
             \in [Cores -> {"INVALID"}]
      BY AlwaysInvalid, Zenon
    <3> DEFINE other == [o \in Cores |-> Sim!Demoted(a, o \in picks)]
    <3>3. Sim!Becomes(c, l, "MODIFIED", words, other)
      BY <3>1, Zenon
    <3>4. other \in [Cores -> {"INVALID"}]
      BY <3>2, Zenon
    <3> HIDE DEF other
    <3> QED
      BY <3>3, <3>4
  <2>6. PICK other \in [Cores -> {"INVALID"}] :
            \E words : Sim!Becomes(c, l, "MODIFIED", words, other)
    BY <2>5
  <2>7. PICK drawn : Owning(c, l, a, drawn, evicted)
    BY <2>1
  <2>8. /\ sim_state' \in [Cores -> [Lines -> CacheStates \union {"ABSENT"}]]
        /\ \A o \in Cores, m \in Lines :
             sim_state'[o][m] = WithoutVictims(state'[o][m])
    <3>1. PICK words : Sim!Becomes(c, l, "MODIFIED", words, other)
      BY <2>6
    <3> QED
      BY <2>7, <3>1, SameOwning
  <2>9. /\ sim_global_time' = global_time'
        /\ sim_time_accessed' \in [Cores -> [Lines -> Nat]]
        /\ \A o \in Cores, m \in Lines :
             sim_time_accessed'[o][m] = time_accessed'[o][m]
    BY <1>1, <2>1, <2>4, SameStamps
  <2> QED
    BY <1>1, <1>2, <2>8, <2>9 DEF InStep, WithoutVictims
<1> QED
  BY <1>2, <1>3, <1>4 DEF cache_write

(* The word and the ownership come from one copy or another, or from the   *)
(* LLC; in the same states the two controllers take the same path, and     *)
(* only the one for a line that is nowhere ends the stand-alone program.   *)
LEMMA ReadInStep ==
    ASSUME LockstepInv, SimRuns, NEW c \in Cores, NEW a \in Addrs,
           cache_read(c, a), Sim!cache_read(c, a)
    PROVE  \/ InStep' /\ sim_status' = sim_status /\ ~result'.not_in_system
           \/ /\ sim_status' = "crashed" /\ result'.not_in_system
              /\ UNCHANGED <<state, time_accessed, llc_lines, sim_state,
                             sim_time_accessed, sim_llc_lines>>
<1> DEFINE l == LineOf(a)
<1>1. /\ l \in Lines /\ Sim!LineOf(a) = l
      /\ sim_llc_lines = llc_lines
      /\ sim_state[c][l] = WithoutVictims(state[c][l])
      /\ Resident(c, l) => l \in llc_lines
  BY AddressTypes, SameNames
     DEF LockstepInv, SameProtocol, StateInv, Inclusion
<1>2. ASSUME NEW words, Sim!Stamp(c, l),
             Sim!Becomes(c, l, "SHARED", words, [o \in Sim!Cores |-> "SHARED"]),
             UNCHANGED sim_llc_lines, UNCHANGED llc_lines, Tick,
             \/ Resident(c, l) /\ Sharing(c, l) /\ Touch(c, l)
             \/ ReadMiss(c, a)
      PROVE  InStep'
  <2>1. ReadMiss(c, a) => ~Resident(c, l) /\ TouchInserting(c, l)
    BY DEF ReadMiss
  <2>2. global_time' = global_time + 1
    BY <1>2 DEF Tick
  <2>3. [o \in Cores |-> "SHARED"] \in [Cores -> {"SHARED"}]
    OBVIOUS
  <2>4. Sim!Becomes(c, l, "SHARED", words, [o \in Cores |-> "SHARED"])
    BY <1>2, SameNames
  <2>5. /\ sim_state' \in [Cores -> [Lines -> CacheStates \union {"ABSENT"}]]
        /\ \A o \in Cores, m \in Lines :
             sim_state'[o][m] = WithoutVictims(state'[o][m])
    BY <1>2, <2>3, <2>4, SameSharing
  <2>6. /\ sim_global_time' = global_time'
        /\ sim_time_accessed' \in [Cores -> [Lines -> Nat]]
        /\ \A o \in Cores, m \in Lines :
             sim_time_accessed'[o][m] = time_accessed'[o][m]
    BY <1>1, <1>2, <2>1, <2>2, SameStamps
  <2> QED
    BY <1>1, <1>2, <2>5, <2>6 DEF InStep, WithoutVictims
<1>3. CASE ReadHit(c, a)
  <2>1. sim_state[c][l] \in ValidStates
    BY <1>1, <1>3 DEF ReadHit, WithoutVictims, ValidStates
  <2>2. Sim!ReadHit(c, a)
    BY <1>1, <2>1, Zenon DEF Sim!cache_read, Sim!ReadInvalid, Sim!ReadMiss,
       Sim!ReadNowhere, Sim!Resident, ValidStates
  <2>3. InStep'
    BY <1>1, <1>3, <2>2, SameHit DEF ReadHit, Sim!ReadHit, Tick
  <2>4. sim_status' = sim_status /\ ~result'.not_in_system
    BY <1>3, <2>2 DEF ReadHit, Sim!ReadHit, Returns
  <2> QED
    BY <2>3, <2>4
<1>4. CASE ReadVictimized(c, a) \/ ReadInvalid(c, a)
  <2>1. Resident(c, l) /\ WithoutVictims(state[c][l]) = "INVALID"
    BY <1>4 DEF ReadVictimized, ReadInvalid, Resident, WithoutVictims
  <2>2. Sharing(c, l) /\ Touch(c, l) /\ Tick /\ UNCHANGED llc_lines
    <3>1. CASE ReadVictimized(c, a)
      BY <3>1, Zenon DEF ReadVictimized
    <3>2. CASE ReadInvalid(c, a)
      BY <1>1, <2>1, <3>2, Zenon DEF ReadInvalid
    <3> QED
      BY <1>4, <3>1, <3>2
  <2>3. ~result'.not_in_system
    <3>1. \E speculated, valid, invalid : Returns(speculated, valid, invalid)
      <4>1. CASE ReadVictimized(c, a)
        BY <4>1, Zenon DEF ReadVictimized
      <4>2. CASE ReadInvalid(c, a)
        BY <1>1, <2>1, <4>2, Zenon DEF ReadInvalid
      <4> QED
        BY <1>4, <4>1, <4>2
    <3> QED
      BY <3>1 DEF Returns
  <2>4. Sim!ReadInvalid(c, a)
    BY <1>1, <2>1 DEF Sim!cache_read, Sim!ReadHit, Sim!ReadMiss,
       Sim!ReadNowhere, Sim!Resident, Sim!ValidStates
  <2>5. /\ Sim!Stamp(c, l) /\ UNCHANGED sim_llc_lines
        /\ sim_status' = sim_status
        /\ \E words : Sim!Becomes(c, l, "SHARED", words,
                                  [o \in Sim!Cores |-> "SHARED"])
    BY <1>1, <2>1, <2>4, Zenon DEF Sim!ReadInvalid
  <2> QED
    BY <1>2, <2>1, <2>2, <2>3, <2>5
<1>5. CASE ReadMiss(c, a)
  <2>1. ~Resident(c, l) /\ l \in llc_lines /\ Tick /\ UNCHANGED llc_lines
        /\ ~result'.not_in_system
    BY <1>5 DEF ReadMiss, Returns
  <2>2. sim_state[c][l] = "ABSENT"
    BY <1>1, <2>1 DEF Resident, WithoutVictims
  <2>3. Sim!ReadMiss(c, a)
    BY <1>1, <2>1, <2>2 DEF Sim!cache_read, Sim!ReadHit, Sim!ReadInvalid,
       Sim!ReadNowhere, Sim!ValidStates
  <2>4. /\ Sim!Stamp(c, l) /\ UNCHANGED sim_llc_lines
        /\ sim_status' = sim_status
        /\ \E words : Sim!Becomes(c, l, "SHARED", words,
                                  [o \in Sim!Cores |-> "SHARED"])
    BY <1>1, <2>3, Zenon DEF Sim!ReadMiss
  <2> QED
    BY <1>2, <1>5, <2>1, <2>4
<1>6. CASE ReadNotInSystem(c, a)
  <2>1. /\ ~Resident(c, l) /\ l \notin llc_lines /\ result'.not_in_system
        /\ UNCHANGED <<state, time_accessed, llc_lines>>
    BY <1>6 DEF ReadNotInSystem, protocolVars
  <2>2. sim_state[c][l] = "ABSENT"
    BY <1>1, <2>1 DEF Resident, WithoutVictims
  <2>3. Sim!ReadNowhere(c, a)
    BY <1>1, <2>1, <2>2 DEF Sim!cache_read, Sim!ReadHit, Sim!ReadInvalid,
       Sim!ReadMiss, Sim!ValidStates
  <2> QED
    BY <2>1, <2>3 DEF Sim!ReadNowhere
<1> QED
  BY <1>3, <1>4, <1>5, <1>6 DEF cache_read

-----------------------------------------------------------------------------
(* The invariant and the theorems.                                         *)

(* The tool's controller is not held up by the other one.                  *)
LEMMA ToolsBehaviour == BothSpec => Spec
<1>1. BothInit => Init
  BY DEF BothInit
<1>2. [BothNext]_<<vars, simVars>> => [Next]_vars
  <2>1. BothNext => Next
    BY Zenon DEF BothNext, BothWrite, BothRead, Next
  <2>2. UNCHANGED <<vars, simVars>> => UNCHANGED vars
    OBVIOUS
  <2> QED
    BY <2>1, <2>2
<1> QED
  BY <1>1, <1>2, PTL DEF BothSpec, Spec

(* A call of both, from a state in lockstep.                               *)
LEMMA CallInStep ==
    ASSUME LockstepInv, BothNext
    PROVE  /\ SimTypeOK' /\ SameProtocol' /\ sim_status' # "exited"
           /\ SimRuns' => sim_global_time' = global_time'
                          /\ ~result'.not_in_system
           /\ sim_status' = "crashed" <=>
                /\ \E c \in Cores, a \in Addrs : cache_read(c, a)
                /\ result'.not_in_system
<1>1. LockstepInv /\ SimRuns
  BY DEF BothNext, BothWrite, BothRead
<1>2. CASE \E c \in Cores, a \in Addrs, v \in Values : BothWrite(c, a, v)
  <2>1. PICK c \in Cores, a \in Addrs, v \in Values : BothWrite(c, a, v)
    BY <1>2
  <2>2. InStep' /\ sim_status' = sim_status /\ result' = result
    BY <1>1, <2>1, WriteInStep DEF BothWrite
  <2>3. ~result'.not_in_system /\ sim_status' = "running"
    BY <1>1, <2>2 DEF LockstepInv, SimRuns
  <2> QED
    BY <2>2, <2>3 DEF InStep, SimTypeOK, SameProtocol
<1>3. CASE \E c \in Cores, a \in Addrs : BothRead(c, a)
  <2>1. PICK c \in Cores, a \in Addrs : BothRead(c, a)
    BY <1>3
  <2>2. cache_read(c, a)
    BY <2>1 DEF BothRead
  <2>3. \/ InStep' /\ sim_status' = sim_status /\ ~result'.not_in_system
        \/ /\ sim_status' = "crashed" /\ result'.not_in_system
           /\ UNCHANGED <<state, time_accessed, llc_lines, sim_state,
                          sim_time_accessed, sim_llc_lines>>
    BY <1>1, <2>1, ReadInStep DEF BothRead
  <2>4. CASE InStep' /\ sim_status' = sim_status /\ ~result'.not_in_system
    BY <1>1, <2>4 DEF InStep, SimTypeOK, SameProtocol, SimRuns
  <2>5. CASE /\ sim_status' = "crashed" /\ result'.not_in_system
             /\ UNCHANGED <<state, time_accessed, llc_lines, sim_state,
                            sim_time_accessed, sim_llc_lines>>
    <3>1. SimTypeOK' /\ SameProtocol'
      BY <1>1, <2>5 DEF LockstepInv, SimTypeOK, SameProtocol, WithoutVictims
    <3>2. \E c_1 \in Cores, a_1 \in Addrs : cache_read(c_1, a_1)
      BY <2>2, Zenon
    <3> QED
      BY <2>5, <3>1, <3>2 DEF SimRuns
  <2> QED
    BY <2>3, <2>4, <2>5
<1> QED
  BY <1>2, <1>3 DEF BothNext

LEMMA LockstepInvariant == BothSpec => []LockstepInv
<1>1. BothInit /\ StateInv /\ ReplacementInv => LockstepInv
  <2> SUFFICES ASSUME BothInit, StateInv, ReplacementInv PROVE LockstepInv
    OBVIOUS
  <2>1. SimTypeOK
    BY SameNames DEF BothInit, Sim!Init, SimTypeOK
  <2>2. SameProtocol
    BY SameNames DEF BothInit, Init, Sim!Init, SameProtocol, WithoutVictims
  <2>3. /\ sim_status = "running" /\ sim_global_time = 0 /\ global_time = 0
        /\ ~result.not_in_system
    BY DEF BothInit, Init, Sim!Init
  <2> QED
    BY <2>1, <2>2, <2>3 DEF LockstepInv
<1>2. LockstepInv /\ StateInv' /\ ReplacementInv'
         /\ [BothNext]_<<vars, simVars>> => LockstepInv'
  <2>1. ASSUME LockstepInv, StateInv', ReplacementInv', BothNext
        PROVE  LockstepInv'
    BY <2>1, CallInStep DEF LockstepInv
  <2>2. ASSUME LockstepInv, StateInv', ReplacementInv',
               UNCHANGED <<vars, simVars>>
        PROVE  LockstepInv'
    <3>1. /\ SimTypeOK' /\ SameProtocol' /\ sim_status' # "exited"
          /\ SimRuns' => sim_global_time' = global_time'
                         /\ ~result'.not_in_system
      BY <2>2 DEF vars, simVars, LockstepInv, SimTypeOK, SameProtocol,
         WithoutVictims, SimRuns
    <3> QED
      BY <2>2, <3>1 DEF LockstepInv
  <2> QED
    BY <2>1, <2>2
<1> QED
  BY <1>1, <1>2, ToolsBehaviour, StateInvariant, ReplacementInvariant, PTL
     DEF BothSpec

(* The two controllers hold the same lines in the same caches, with the    *)
(* same ownership and the same age, but for victims that are invalid, as   *)
(* long as both run and after every legal order of calls.                  *)
THEOREM SameProtocolHolds == BothSpec => []SameProtocol
BY LockstepInvariant, PTL DEF LockstepInv

(* The stand-alone program dies exactly at the first read that the tool's  *)
(* controller answers with not_in_system, and never exits for a line that  *)
(* it cannot find, on any geometry.                                        *)
THEOREM DiesOfUnwrittenReadsHolds == BothSpec => DiesOfUnwrittenReads
<1> DEFINE Dies == /\ sim_status' # "exited"
                   /\ sim_status' = "crashed" <=>
                         /\ \E c \in Cores, a \in Addrs : cache_read(c, a)
                         /\ result'.not_in_system
<1>1. LockstepInv /\ [BothNext]_<<vars, simVars>> => [Dies]_<<vars, simVars>>
  <2>1. ASSUME LockstepInv, BothNext PROVE Dies
    BY <2>1, CallInStep
  <2> QED
    BY <2>1
<1> QED
  BY <1>1, LockstepInvariant, PTL DEF BothSpec, DiesOfUnwrittenReads

-----------------------------------------------------------------------------
(* The stand-alone controller's words.                                     *)

(* The words are words of the program, and zero where no line is.          *)
SimDataOK ==
    /\ sim_data \in [Cores -> [Lines -> [Sim!Offsets -> Data]]]
    /\ sim_llc \in [Lines -> [Sim!Offsets -> Data]]
    /\ \A c \in Cores, l \in Lines :
          sim_state[c][l] = "ABSENT" => sim_data[c][l] = Sim!EmptyLine

LEMMA SimWords ==
    /\ Sim!EmptyLine \in [Sim!Offsets -> Data]
    /\ \A a \in Addrs : Sim!Offset(a) \in Sim!Offsets
    /\ \A f, g \in [Sim!Offsets -> Data] :
          (\A w \in Sim!Offsets : f[w] = g[w]) => f = g
<1>1. Sim!EmptyLine \in [Sim!Offsets -> Data]
  BY DEF Sim!EmptyLine, Data
<1>2. \A a \in Addrs : Sim!Offset(a) \in Sim!Offsets
  BY DEF Sim!Offsets
<1> QED
  BY <1>1, <1>2

(* The words that a snooping call leaves, and what keeps them coherent:    *)
(* the caller's line is what the LLC now has, and the others either lose   *)
(* their copies or find the LLC's line as it was.                          *)
LEMMA BecomesWords ==
    ASSUME LockstepInv, SimDataOK, NEW c \in Cores, NEW l \in Lines,
           NEW words \in [Sim!Offsets -> Data], NEW own \in ValidStates,
           NEW to \in {"INVALID", "SHARED"}, NEW other \in [Cores -> {to}],
           Sim!Becomes(c, l, own, words, other),
           sim_llc' \in [Lines -> [Sim!Offsets -> Data]],
           \A m \in Lines : m # l => sim_llc'[m] = sim_llc[m]
    PROVE  /\ SimDataOK'
           /\ /\ SimCoherent /\ words = sim_llc'[l]
              /\ to = "SHARED" => sim_llc'[l] = sim_llc[l]
              => SimCoherent'
<1>1. own \in CacheStates /\ own # "ABSENT"
  BY DEF CacheStates, ValidStates
<1>2. other \in [Cores -> CacheStates] /\ \A o \in Cores : other[o] = to
  BY DEF CacheStates, ValidStates
<1>3. \A o \in Cores, m \in Lines :
         sim_state'[o][m] =
             IF m = l
             THEN IF o = c THEN own
                  ELSE IF o \in Sharers(c, l) THEN to
                  ELSE WithoutVictims(state[o][m])
             ELSE IF o = c /\ ~Resident(c, l) /\ m \in Evicted(c, l)
             THEN "ABSENT"
             ELSE WithoutVictims(state[o][m])
  <2>1. own \in CacheStates /\ other \in [Cores -> CacheStates]
    BY <1>1, <1>2
  <2>2. \A o \in Cores, m \in Lines :
           sim_state'[o][m] = Becoming(c, l, own, other, o, m)
    BY <2>1, BecomesStates
  <2> QED
    BY <1>2, <2>2 DEF Becoming
<1>4. \A m : m \in Sim!Evicted(c, l) <=> ~Resident(c, l) /\ m \in Evicted(c, l)
  BY SameEvicted
<1>5. sim_data' = [sim_data EXCEPT ![c] =
                     [m \in Lines |->
                         IF m = l THEN words
                         ELSE IF m \in Sim!Evicted(c, l) THEN Sim!EmptyLine
                         ELSE sim_data[c][m]]]
  BY SameNames DEF Sim!Becomes
<1>6. /\ sim_data' \in [Cores -> [Lines -> [Sim!Offsets -> Data]]]
      /\ \A o \in Cores, m \in Lines :
           sim_data'[o][m] =
               IF o = c /\ m = l THEN words
               ELSE IF o = c /\ ~Resident(c, l) /\ m \in Evicted(c, l)
               THEN Sim!EmptyLine
               ELSE sim_data[o][m]
  BY <1>4, <1>5, SimWords DEF SimDataOK
<1>7. \A o \in Cores, m \in Lines :
         sim_state[o][m] = WithoutVictims(state[o][m])
  BY DEF LockstepInv, SameProtocol
<1>8. ASSUME NEW o \in Cores, NEW m \in Lines, sim_state'[o][m] = "ABSENT"
      PROVE  sim_data'[o][m] = Sim!EmptyLine
  <2>1. ~(o = c /\ m = l)
    BY <1>1, <1>3, <1>8
  <2>2. CASE o = c /\ ~Resident(c, l) /\ m \in Evicted(c, l)
    BY <1>6, <2>1, <2>2
  <2>3. CASE ~(o = c /\ ~Resident(c, l) /\ m \in Evicted(c, l))
    <3>1. sim_state[o][m] = "ABSENT"
      BY <1>3, <1>7, <1>8, <2>1, <2>3
    <3> QED
      BY <1>6, <2>1, <2>3, <3>1 DEF SimDataOK
  <2> QED
    BY <2>2, <2>3
<1>9. SimDataOK'
  BY <1>6, <1>8 DEF SimDataOK, Sim!EmptyLine, Sim!Offsets
<1>10. ASSUME SimCoherent, words = sim_llc'[l],
              to = "SHARED" => sim_llc'[l] = sim_llc[l],
              NEW o \in Cores, NEW m \in Lines,
              sim_state'[o][m] \in ValidStates
       PROVE  sim_data'[o][m] = sim_llc'[m]
  <2>1. CASE o = c /\ m = l
    BY <1>6, <1>10, <2>1
  <2>2. CASE o # c /\ m = l
    <3>1. sim_data'[o][m] = sim_data[o][m]
      BY <1>6, <2>2
    <3>2. state[o][l] \in ValidStates => o \in Sharers(c, l)
      BY <2>2 DEF Sharers, Snooped, Resident, ValidStates
    <3>3. o \in Sharers(c, l)
      BY <1>3, <1>10, <2>2, <3>2 DEF WithoutVictims, ValidStates
    <3>4. to = "SHARED" /\ state[o][l] \in ValidStates
      BY <1>3, <1>10, <2>2, <3>3 DEF ValidStates, Sharers
    <3>5. sim_state[o][l] \in ValidStates
      BY <1>7, <3>4 DEF WithoutVictims, ValidStates
    <3> QED
      BY <1>10, <2>2, <3>1, <3>4, <3>5 DEF SimCoherent
  <2>3. CASE m # l
    <3>1. /\ ~(o = c /\ ~Resident(c, l) /\ m \in Evicted(c, l))
          /\ sim_state[o][m] \in ValidStates
      BY <1>3, <1>7, <1>10, <2>3 DEF ValidStates
    <3>2. sim_data'[o][m] = sim_data[o][m]
      BY <1>6, <2>3, <3>1
    <3> QED
      BY <1>10, <2>3, <3>1, <3>2 DEF SimCoherent
  <2> QED
    BY <2>1, <2>2, <2>3
<1> QED
  BY <1>9, <1>10 DEF SimCoherent

(* A write puts its word into the caller's line and into the LLC's, the    *)
(* rest of which it leaves alone.                                          *)
LEMMA SimWriteWords ==
    ASSUME LockstepInv, SimDataOK, SimRuns, NEW c \in Cores, NEW a \in Addrs,
           NEW v \in Values, Sim!cache_write(c, a, v)
    PROVE  SimDataOK' /\ (SimCoherent /\ ~SimPartialFill(c, a) => SimCoherent')
<1> DEFINE l == LineOf(a)
           w == Sim!Offset(a)
           words == [sim_data[c][l] EXCEPT ![w] = v]
<1>1. /\ l \in Lines /\ Sim!LineOf(a) = l /\ v \in Data
      /\ w \in Sim!Offsets
      /\ sim_data[c][l] \in [Sim!Offsets -> Data]
      /\ sim_llc \in [Lines -> [Sim!Offsets -> Data]]
  BY AddressTypes, SameNames, SimWords DEF SimDataOK, Data
<1>2. sim_llc' = [sim_llc EXCEPT ![l][w] = v]
  BY <1>1 DEF Sim!cache_write, Sim!WriteHitModified, Sim!WriteHitUpgrade,
     Sim!WriteMiss, Sim!update_llc
<1>3. /\ sim_llc' \in [Lines -> [Sim!Offsets -> Data]]
      /\ sim_llc'[l] = [sim_llc[l] EXCEPT ![w] = v]
      /\ \A m \in Lines : m # l => sim_llc'[m] = sim_llc[m]
  BY <1>1, <1>2
<1>4. words \in [Sim!Offsets -> Data]
  BY <1>1
<1>5. ASSUME SimCoherent, ~SimPartialFill(c, a) PROVE words = sim_llc'[l]
  <2>1. \A u \in Sim!Offsets \ {w} : sim_data[c][l][u] = sim_llc[l][u]
    BY <1>1, <1>5 DEF SimCoherent, SimPartialFill
  <2>2. \A u \in Sim!Offsets : words[u] = sim_llc'[l][u]
    BY <1>1, <1>3, <2>1
  <2> HIDE DEF words
  <2> QED
    BY <1>1, <1>3, <1>4, <2>2, SimWords
<1>6. CASE Sim!WriteHitModified(c, a, v)
  <2>1. /\ sim_state' = sim_state /\ sim_state[c][l] = "MODIFIED"
        /\ sim_data' = [sim_data EXCEPT ![c][l][w] = v]
    BY <1>1, <1>6 DEF Sim!WriteHitModified
  <2>2. /\ sim_data' \in [Cores -> [Lines -> [Sim!Offsets -> Data]]]
        /\ sim_data'[c][l] = words
        /\ \A o \in Cores, m \in Lines :
             ~(o = c /\ m = l) => sim_data'[o][m] = sim_data[o][m]
    BY <1>1, <2>1 DEF SimDataOK
  <2> HIDE DEF words
  <2>3. SimDataOK'
    <3>1. ASSUME NEW o \in Cores, NEW m \in Lines, sim_state'[o][m] = "ABSENT"
          PROVE  sim_data'[o][m] = Sim!EmptyLine
      <4>1. ~(o = c /\ m = l)
        BY <2>1, <3>1
      <4> QED
        BY <2>1, <2>2, <3>1, <4>1 DEF SimDataOK
    <3> QED
      BY <1>3, <2>2, <3>1 DEF SimDataOK, Sim!EmptyLine, Sim!Offsets
  <2>4. ASSUME SimCoherent, ~SimPartialFill(c, a),
               NEW o \in Cores, NEW m \in Lines,
               sim_state'[o][m] \in ValidStates
        PROVE  sim_data'[o][m] = sim_llc'[m]
    <3>1. CASE o = c /\ m = l
      BY <1>5, <2>2, <2>4, <3>1
    <3>2. CASE m # l
      BY <1>3, <2>1, <2>2, <2>4, <3>2 DEF SimCoherent
    <3>3. CASE o # c /\ m = l
      <4>1. state[c][l] = "MODIFIED" /\ state[o][l] \in ValidStates
        BY <1>1, <2>1, <2>4, <3>3 DEF LockstepInv, SameProtocol,
           WithoutVictims, ValidStates
      <4> QED
        BY <1>1, <3>3, <4>1, SingleWriterMeans DEF LockstepInv, StateInv
    <3> QED
      BY <3>1, <3>2, <3>3
  <2> QED
    BY <2>3, <2>4 DEF SimCoherent
<1>7. CASE Sim!WriteHitUpgrade(c, a, v) \/ Sim!WriteMiss(c, a, v)
  <2>1. PICK picks :
            Sim!Becomes(c, l, "MODIFIED", words,
                        [o \in Cores |-> Sim!Demoted(a, o \in picks)])
    <3>1. CASE Sim!WriteHitUpgrade(c, a, v)
      BY <1>1, <3>1, SameNames, Zenon DEF Sim!WriteHitUpgrade
    <3>2. CASE Sim!WriteMiss(c, a, v)
      <4>1. sim_data[c][l] = Sim!EmptyLine
        BY <1>1, <3>2 DEF Sim!WriteMiss, Sim!Resident, SimDataOK
      <4> QED
        BY <1>1, <3>2, <4>1, SameNames, Zenon DEF Sim!WriteMiss
    <3> QED
      BY <1>7, <3>1, <3>2
  <2>2. \E other \in [Cores -> {"INVALID"}] :
            Sim!Becomes(c, l, "MODIFIED", words, other)
    <3> DEFINE other == [o \in Cores |-> Sim!Demoted(a, o \in picks)]
    <3>1. Sim!Becomes(c, l, "MODIFIED", words, other)
      BY <2>1, Zenon
    <3>2. other \in [Cores -> {"INVALID"}]
      BY AlwaysInvalid, Zenon
    <3> HIDE DEF other
    <3> QED
      BY <3>1, <3>2
  <2> HIDE DEF words
  <2>3. PICK other \in [Cores -> {"INVALID"}] :
            Sim!Becomes(c, l, "MODIFIED", words, other)
    BY <2>2
  <2>4. "MODIFIED" \in ValidStates /\ "INVALID" \in {"INVALID", "SHARED"}
    BY DEF ValidStates
  <2>5. /\ SimDataOK'
        /\ SimCoherent /\ words = sim_llc'[l] => SimCoherent'
    BY <1>1, <1>3, <1>4, <2>3, <2>4, BecomesWords
  <2> QED
    BY <1>5, <2>5
<1> QED
  BY <1>6, <1>7 DEF Sim!cache_write

(* A read changes no word of the LLC.  The word it fills in is the LLC's,  *)
(* if the copies it may take it from are coherent.                         *)
LEMMA SimReadWords ==
    ASSUME LockstepInv, SimDataOK, SimRuns, NEW c \in Cores, NEW a \in Addrs,
           Sim!cache_read(c, a)
    PROVE  SimDataOK' /\ (SimCoherent /\ ~SimPartialFill(c, a) => SimCoherent')
<1> DEFINE l == LineOf(a)
           w == Sim!Offset(a)
           lastSharer == CHOOSE o \in Sim!Sharers(c, l) :
                            \A p \in Sim!Sharers(c, l) : p <= o
           valid == IF Sim!Sharers(c, l) = {} THEN sim_llc[l][w]
                    ELSE sim_data[lastSharer][l][w]
           filled == [sim_data[c][l] EXCEPT ![w] = valid]
<1>1. /\ l \in Lines /\ Sim!LineOf(a) = l /\ w \in Sim!Offsets
      /\ sim_data[c][l] \in [Sim!Offsets -> Data]
      /\ sim_llc \in [Lines -> [Sim!Offsets -> Data]]
  BY AddressTypes, SameNames, SimWords DEF SimDataOK
<1>2. sim_llc' = sim_llc
  BY DEF Sim!cache_read, Sim!ReadHit, Sim!ReadInvalid, Sim!ReadMiss,
     Sim!ReadNowhere
<1>3. CASE sim_state' = sim_state /\ sim_data' = sim_data
  BY <1>2, <1>3 DEF SimDataOK, SimCoherent, Sim!EmptyLine, Sim!Offsets
<1>4. ASSUME NEW words \in [Sim!Offsets -> Data],
             Sim!Becomes(c, l, "SHARED", words, [o \in Sim!Cores |-> "SHARED"])
      PROVE  SimDataOK' /\ (SimCoherent /\ words = sim_llc[l] => SimCoherent')
  <2> DEFINE other == [o \in Cores |-> "SHARED"]
  <2>1. Sim!Becomes(c, l, "SHARED", words, other)
    BY <1>4, SameNames
  <2>2. other \in [Cores -> {"SHARED"}]
    OBVIOUS
  <2>3. "SHARED" \in ValidStates /\ "SHARED" \in {"INVALID", "SHARED"}
    BY DEF ValidStates
  <2> HIDE DEF other
  <2>4. /\ SimDataOK'
        /\ SimCoherent /\ words = sim_llc'[l] => SimCoherent'
    BY <1>1, <1>2, <2>1, <2>2, <2>3, BecomesWords
  <2> QED
    BY <1>2, <2>4
<1>5. CASE Sim!ReadInvalid(c, a)
  <2>1. Sim!Becomes(c, l, "SHARED", filled, [o \in Sim!Cores |-> "SHARED"])
    BY <1>1, <1>5, Zenon DEF Sim!ReadInvalid
  <2>2. Sim!Sharers(c, l) # {} =>
           /\ lastSharer \in Cores
           /\ sim_state[lastSharer][l] \in ValidStates
    <3>1. Sim!Sharers(c, l) = Sharers(c, l) /\ Sharers(c, l) \subseteq Cores
      BY <1>1, SameSets, SnoopTypes
    <3>2. Sharers(c, l) # {} =>
             \E o \in Sharers(c, l) : \A p \in Sharers(c, l) : p <= o
      BY <3>1, MaxOfCores
    <3>3. Sharers(c, l) # {} => lastSharer \in Sharers(c, l)
      BY <3>1, <3>2, Zenon
    <3> HIDE DEF lastSharer
    <3> QED
      BY <1>1, <3>1, <3>3 DEF Sharers, Snooped, LockstepInv, SameProtocol,
         WithoutVictims, ValidStates
  <2> HIDE DEF lastSharer
  <2>3. valid \in Data
    BY <1>1, <2>2 DEF SimDataOK
  <2>4. SimCoherent => valid = sim_llc[l][w]
    BY <1>1, <2>2 DEF SimCoherent
  <2> HIDE DEF valid
  <2>5. filled \in [Sim!Offsets -> Data]
    BY <1>1, <2>3
  <2>6. ASSUME SimCoherent, ~SimPartialFill(c, a) PROVE filled = sim_llc[l]
    <3>1. sim_state[c][l] \notin ValidStates
      BY <1>1, <1>5 DEF Sim!ReadInvalid, ValidStates
    <3>2. \A u \in Sim!Offsets \ {w} : sim_data[c][l][u] = sim_llc[l][u]
      BY <1>1, <2>6, <3>1 DEF SimPartialFill
    <3>3. \A u \in Sim!Offsets : filled[u] = sim_llc[l][u]
      BY <1>1, <2>4, <2>6, <3>2
    <3> HIDE DEF filled
    <3> QED
      BY <1>1, <2>5, <3>3, SimWords
  <2> HIDE DEF filled
  <2> QED
    BY <1>4, <2>1, <2>5, <2>6
<1>6. CASE Sim!ReadMiss(c, a)
  <2>1. Sim!Becomes(c, l, "SHARED", sim_llc[l], [o \in Sim!Cores |-> "SHARED"])
    BY <1>1, <1>6, Zenon DEF Sim!ReadMiss
  <2> QED
    BY <1>1, <1>4, <2>1
<1>7. CASE Sim!ReadHit(c, a) \/ Sim!ReadNowhere(c, a)
  BY <1>3, <1>7 DEF Sim!ReadHit, Sim!ReadNowhere
<1> QED
  BY <1>5, <1>6, <1>7 DEF Sim!cache_read

LEMMA SimDataInvariant == BothSpec => []SimDataOK
<1>1. BothInit => SimDataOK
  BY SameNames, SimWords DEF BothInit, Sim!Init, SimDataOK
<1>2. LockstepInv /\ SimDataOK /\ [BothNext]_<<vars, simVars>> => SimDataOK'
  <2>1. ASSUME LockstepInv, SimDataOK, BothNext PROVE SimDataOK'
    BY <2>1, SimWriteWords, SimReadWords DEF BothNext, BothWrite, BothRead
  <2>2. ASSUME SimDataOK, UNCHANGED <<vars, simVars>> PROVE SimDataOK'
    BY <2>2 DEF simVars, SimDataOK, Sim!EmptyLine, Sim!Offsets
  <2> QED
    BY <2>1, <2>2
<1> QED
  BY <1>1, <1>2, LockstepInvariant, PTL DEF BothSpec

(* The stand-alone controller's valid copies part with its LLC in one way  *)
(* only: a copy becomes valid by one word while others are stale or zero.  *)
THEOREM SimCoherenceLossHolds == BothSpec => SimCoherenceLoss
<1> DEFINE Loss == SimCoherent /\ ~SimCoherent' =>
                       \E c \in Cores, a \in Addrs :
                           CalledBy(c, a) /\ SimPartialFill(c, a)
<1>1. LockstepInv /\ SimDataOK /\ [BothNext]_<<vars, simVars>>
         => [Loss]_<<vars, simVars>>
  <2>1. ASSUME LockstepInv, SimDataOK, BothNext, SimCoherent, ~SimCoherent'
        PROVE  \E c \in Cores, a \in Addrs :
                   CalledBy(c, a) /\ SimPartialFill(c, a)
    <3>1. PICK c \in Cores, a \in Addrs :
             (\E v \in Values : BothWrite(c, a, v)) \/ BothRead(c, a)
      BY <2>1, Zenon DEF BothNext
    <3>2. CalledBy(c, a)
      BY <3>1, Zenon DEF CalledBy, BothWrite, BothRead
    <3>3. SimPartialFill(c, a)
      BY <2>1, <3>1, SimWriteWords, SimReadWords DEF BothWrite, BothRead
    <3> QED
      BY <3>2, <3>3
  <2> QED
    BY <2>1
<1> QED
  BY <1>1, LockstepInvariant, SimDataInvariant, PTL
     DEF BothSpec, SimCoherenceLoss

-----------------------------------------------------------------------------
(* The counters of the two.                                                *)

SimStats ==
    [success_addr_bound : Nat, failed_addr_bound : Nat, speculate_cases : Nat,
     total_cases : Nat, bus_transactions : Nat]

(* A private cache's counters are the tool's, but for more LLC reads.      *)
Ahead(t, s) ==
    /\ [t EXCEPT !.num_read_from_llc = s.num_read_from_llc] = s
    /\ s.num_read_from_llc >= t.num_read_from_llc

SameTotals ==
    /\ sim_stats.bus_transactions = stats.bus_transactions
    /\ sim_stats.total_cases = stats.total_cases
    /\ sim_stats.success_addr_bound + sim_stats.failed_addr_bound
         = stats.speculate_cases
    /\ sim_stats.speculate_cases = stats.speculate_cases

CountersInv ==
    /\ sim_stats \in SimStats
    /\ sim_cache_stats \in [Cores -> Cache_stat]
    /\ SimRuns =>
          SameTotals /\ \A c \in Cores : Ahead(cache_stats[c], sim_cache_stats[c])

(* Two records of a cache's counters, field by field.                      *)
LEMMA AheadMeans ==
    ASSUME NEW t \in Cache_stat, NEW s \in Cache_stat
    PROVE  Ahead(t, s) <=>
             /\ s.num_access = t.num_access
             /\ s.num_reads_hits = t.num_reads_hits
             /\ s.num_writes_hits = t.num_writes_hits
             /\ s.num_read_misses = t.num_read_misses
             /\ s.num_write_misses = t.num_write_misses
             /\ s.num_write_to_llc = t.num_write_to_llc
             /\ s.num_read_from_llc >= t.num_read_from_llc
BY DEF Ahead, Cache_stat

LEMMA AccessCounted ==
    ASSUME NEW s \in Cache_stat
    PROVE  [s EXCEPT !.num_access = @ + 1] \in Cache_stat
<1>1. s.num_access + 1 \in Nat
  BY DEF Cache_stat
<1> QED
  BY <1>1, Zenon DEF Cache_stat

(* Whatever a call counts, the order stays: a read of an invalid copy may  *)
(* add an LLC read to the one where the other saw a victim.                *)
LEMMA StaysAhead ==
    ASSUME NEW t \in Cache_stat, NEW s \in Cache_stat, Ahead(t, s)
    PROVE  /\ Ahead([t EXCEPT !.num_access = @ + 1],
                    [s EXCEPT !.num_access = @ + 1])
           /\ Ahead([t EXCEPT !.num_access = @ + 1, !.num_writes_hits = @ + 1,
                              !.num_write_to_llc = @ + 1],
                    [s EXCEPT !.num_access = @ + 1, !.num_writes_hits = @ + 1,
                              !.num_write_to_llc = @ + 1])
           /\ Ahead([t EXCEPT !.num_access = @ + 1, !.num_write_misses = @ + 1,
                              !.num_write_to_llc = @ + 1],
                    [s EXCEPT !.num_access = @ + 1, !.num_write_misses = @ + 1,
                              !.num_write_to_llc = @ + 1])
           /\ Ahead([t EXCEPT !.num_access = @ + 1, !.num_reads_hits = @ + 1],
                    [s EXCEPT !.num_access = @ + 1, !.num_reads_hits = @ + 1])
           /\ \A x, y \in {0, 1} : x <= y =>
                Ahead([t EXCEPT !.num_access = @ + 1, !.num_reads_hits = @ + 1,
                                !.num_read_from_llc = @ + x],
                      [s EXCEPT !.num_access = @ + 1, !.num_reads_hits = @ + 1,
                                !.num_read_from_llc = @ + y])
           /\ \A y \in {0, 1} :
                Ahead([t EXCEPT !.num_access = @ + 1, !.num_reads_hits = @ + 1],
                      [s EXCEPT !.num_access = @ + 1, !.num_reads_hits = @ + 1,
                                !.num_read_from_llc = @ + y])
           /\ Ahead([t EXCEPT !.num_access = @ + 1, !.num_read_misses = @ + 1,
                              !.num_read_from_llc = @ + 1],
                    [s EXCEPT !.num_access = @ + 1, !.num_read_misses = @ + 1,
                              !.num_read_from_llc = @ + 1])
<1>1. /\ s.num_access = t.num_access
      /\ s.num_reads_hits = t.num_reads_hits
      /\ s.num_writes_hits = t.num_writes_hits
      /\ s.num_read_misses = t.num_read_misses
      /\ s.num_write_misses = t.num_write_misses
      /\ s.num_write_to_llc = t.num_write_to_llc
      /\ s.num_read_from_llc >= t.num_read_from_llc
      /\ t.num_read_from_llc \in Nat /\ s.num_read_from_llc \in Nat
  BY AheadMeans DEF Cache_stat
<1>2. Ahead([t EXCEPT !.num_access = @ + 1],
           [s EXCEPT !.num_access = @ + 1])
  <2> DEFINE t1 == [t EXCEPT !.num_access = @ + 1]
             s1 == [s EXCEPT !.num_access = @ + 1]
  <2>1. t1 \in Cache_stat /\ s1 \in Cache_stat
    BY OwnCounters, AccessCounted
  <2> QED
    BY <1>1, <2>1, AheadMeans DEF Cache_stat
<1>3. Ahead([t EXCEPT !.num_access = @ + 1,
                      !.num_writes_hits = @ + 1,
                      !.num_write_to_llc = @ + 1],
           [s EXCEPT !.num_access = @ + 1,
                      !.num_writes_hits = @ + 1,
                      !.num_write_to_llc = @ + 1])
  <2> DEFINE t1 == [t EXCEPT !.num_access = @ + 1,
                          !.num_writes_hits = @ + 1,
                          !.num_write_to_llc = @ + 1]
             s1 == [s EXCEPT !.num_access = @ + 1,
                          !.num_writes_hits = @ + 1,
                          !.num_write_to_llc = @ + 1]
  <2>1. t1 \in Cache_stat /\ s1 \in Cache_stat
    BY OwnCounters
  <2> QED
    BY <1>1, <2>1, AheadMeans DEF Cache_stat
<1>4. Ahead([t EXCEPT !.num_access = @ + 1,
                      !.num_write_misses = @ + 1,
                      !.num_write_to_llc = @ + 1],
           [s EXCEPT !.num_access = @ + 1,
                      !.num_write_misses = @ + 1,
                      !.num_write_to_llc = @ + 1])
  <2> DEFINE t1 == [t EXCEPT !.num_access = @ + 1,
                          !.num_write_misses = @ + 1,
                          !.num_write_to_llc = @ + 1]
             s1 == [s EXCEPT !.num_access = @ + 1,
                          !.num_write_misses = @ + 1,
                          !.num_write_to_llc = @ + 1]
  <2>1. t1 \in Cache_stat /\ s1 \in Cache_stat
    BY OwnCounters
  <2> QED
    BY <1>1, <2>1, AheadMeans DEF Cache_stat
<1>5. Ahead([t EXCEPT !.num_access = @ + 1,
                      !.num_reads_hits = @ + 1],
           [s EXCEPT !.num_access = @ + 1,
                      !.num_reads_hits = @ + 1])
  <2> DEFINE t1 == [t EXCEPT !.num_access = @ + 1,
                          !.num_reads_hits = @ + 1]
             s1 == [s EXCEPT !.num_access = @ + 1,
                          !.num_reads_hits = @ + 1]
  <2>1. t1 \in Cache_stat /\ s1 \in Cache_stat
    BY OwnCounters
  <2> QED
    BY <1>1, <2>1, AheadMeans DEF Cache_stat
<1>6. Ahead([t EXCEPT !.num_access = @ + 1,
                      !.num_read_misses = @ + 1,
                      !.num_read_from_llc = @ + 1],
           [s EXCEPT !.num_access = @ + 1,
                      !.num_read_misses = @ + 1,
                      !.num_read_from_llc = @ + 1])
  <2> DEFINE t1 == [t EXCEPT !.num_access = @ + 1,
                          !.num_read_misses = @ + 1,
                          !.num_read_from_llc = @ + 1]
             s1 == [s EXCEPT !.num_access = @ + 1,
                          !.num_read_misses = @ + 1,
                          !.num_read_from_llc = @ + 1]
  <2>1. t1 \in Cache_stat /\ s1 \in Cache_stat
    BY OwnCounters
  <2>2. /\ s1.num_access = t1.num_access
        /\ s1.num_reads_hits = t1.num_reads_hits
        /\ s1.num_writes_hits = t1.num_writes_hits
        /\ s1.num_read_misses = t1.num_read_misses
        /\ s1.num_write_misses = t1.num_write_misses
        /\ s1.num_write_to_llc = t1.num_write_to_llc
    BY <1>1 DEF Cache_stat
  <2>3. s1.num_read_from_llc >= t1.num_read_from_llc
    BY <1>1 DEF Cache_stat
  <2> HIDE DEF t1, s1
  <2>4. Ahead(t1, s1)
    BY <2>1, <2>2, <2>3, AheadMeans
  <2> QED
    BY <2>4 DEF t1, s1
<1>7. ASSUME NEW x \in {0, 1}, NEW y \in {0, 1}, x <= y
      PROVE  Ahead([t EXCEPT !.num_access = @ + 1, !.num_reads_hits = @ + 1,
                             !.num_read_from_llc = @ + x],
                   [s EXCEPT !.num_access = @ + 1, !.num_reads_hits = @ + 1,
                             !.num_read_from_llc = @ + y])
  <2> DEFINE t1 == [t EXCEPT !.num_access = @ + 1, !.num_reads_hits = @ + 1,
                             !.num_read_from_llc = @ + x]
             s1 == [s EXCEPT !.num_access = @ + 1, !.num_reads_hits = @ + 1,
                             !.num_read_from_llc = @ + y]
  <2>1. t1 \in Cache_stat /\ s1 \in Cache_stat
    <3>1. \A r \in Cache_stat :
             /\ r.num_access + 1 \in Nat /\ r.num_reads_hits + 1 \in Nat
             /\ r.num_read_from_llc + x \in Nat
             /\ r.num_read_from_llc + y \in Nat
      BY DEF Cache_stat
    <3> QED
      BY <3>1, Zenon DEF Cache_stat
  <2>2. /\ s1.num_access = t1.num_access
        /\ s1.num_reads_hits = t1.num_reads_hits
        /\ s1.num_writes_hits = t1.num_writes_hits
        /\ s1.num_read_misses = t1.num_read_misses
        /\ s1.num_write_misses = t1.num_write_misses
        /\ s1.num_write_to_llc = t1.num_write_to_llc
    BY <1>1 DEF Cache_stat
  <2>3. s1.num_read_from_llc >= t1.num_read_from_llc
    BY <1>1, <1>7 DEF Cache_stat
  <2> HIDE DEF t1, s1
  <2>4. Ahead(t1, s1)
    BY <2>1, <2>2, <2>3, AheadMeans
  <2> QED
    BY <2>4 DEF t1, s1
<1>8. ASSUME NEW y \in {0, 1}
      PROVE  Ahead([t EXCEPT !.num_access = @ + 1, !.num_reads_hits = @ + 1],
                   [s EXCEPT !.num_access = @ + 1, !.num_reads_hits = @ + 1,
                             !.num_read_from_llc = @ + y])
  <2>1. [t EXCEPT !.num_access = @ + 1, !.num_reads_hits = @ + 1,
                  !.num_read_from_llc = @ + 0]
          = [t EXCEPT !.num_access = @ + 1, !.num_reads_hits = @ + 1]
    <3>1. t.num_read_from_llc + 0 = t.num_read_from_llc
      BY <1>1
    <3> QED
      BY <3>1, Zenon DEF Cache_stat
  <2>2. 0 \in {0, 1} /\ 0 <= y
    OBVIOUS
  <2> QED
    BY <1>7, <2>1, <2>2
<1> QED
  BY <1>2, <1>3, <1>4, <1>5, <1>6, <1>7, <1>8

LEMMA SameCountCall ==
    ASSUME CountersInv, SimRuns, TypeOK, NEW c \in Cores, NEW snooped,
           NEW own \in Cache_stat, NEW simOwn \in Cache_stat,
           Ahead(own, simOwn), CountCall(c, snooped, own),
           Sim!CountCall(c, snooped, simOwn)
    PROVE  /\ sim_cache_stats' \in [Cores -> Cache_stat]
           /\ \A o \in Cores : Ahead(cache_stats'[o], sim_cache_stats'[o])
<1>1. /\ sim_cache_stats \in [Cores -> Cache_stat]
      /\ cache_stats \in [Cores -> Cache_stat]
      /\ \A o \in Cores : Ahead(cache_stats[o], sim_cache_stats[o])
  BY DEF CountersInv, TypeOK
<1>2. sim_cache_stats' =
         [o \in Cores |->
             IF o = c THEN simOwn
             ELSE IF o \in snooped
                  THEN [sim_cache_stats[o] EXCEPT !.num_access = @ + 1]
                  ELSE sim_cache_stats[o]]
  BY SameNames DEF Sim!CountCall
<1>3. sim_cache_stats' \in [Cores -> Cache_stat]
  BY <1>1, <1>2, AccessCounted
<1>4. ASSUME NEW o \in Cores
      PROVE  Ahead(cache_stats'[o], sim_cache_stats'[o])
  <2>1. CASE o = c
    BY <1>2, <2>1 DEF CountCall
  <2>2. CASE o # c /\ o \in snooped
    <3>1. /\ cache_stats'[o] = [cache_stats[o] EXCEPT !.num_access = @ + 1]
          /\ sim_cache_stats'[o] =
                [sim_cache_stats[o] EXCEPT !.num_access = @ + 1]
      BY <1>2, <2>2, Zenon DEF CountCall
    <3> DEFINE t == cache_stats[o]
               r == sim_cache_stats[o]
    <3>2. t \in Cache_stat /\ r \in Cache_stat /\ Ahead(t, r)
      BY <1>1
    <3> HIDE DEF t, r
    <3>3. Ahead([t EXCEPT !.num_access = @ + 1],
                [r EXCEPT !.num_access = @ + 1])
      BY <3>2, StaysAhead
    <3> QED
      BY <3>1, <3>3, Zenon DEF t, r
  <2>3. CASE o # c /\ o \notin snooped
    BY <1>1, <1>2, <2>3 DEF CountCall
  <2> QED
    BY <2>1, <2>2, <2>3
<1> QED
  BY <1>3, <1>4

(* A snooping write counts the same on the bus; it draws as many copies in *)
(* both, and the stand-alone controller counts each on one side of its     *)
(* bound.                                                                  *)
LEMMA SameSnoopCounts ==
    ASSUME CountersInv, SimRuns, LockstepInv,
           NEW c \in Cores, NEW a \in Addrs, NEW drawn, NEW bus \in Nat,
           NEW picks \in Sim!Draws(Sharers(c, LineOf(a))),
           CountSnoops(a, Sharers(c, LineOf(a)), drawn, bus),
           Sim!CountSnoops(a, c, picks, bus),
           sim_stats'.speculate_cases = stats'.speculate_cases
    PROVE  sim_stats' \in SimStats /\ SameTotals'
<1> DEFINE l == LineOf(a)
           met == Cardinality(Sharers(c, l))
           picked == Cardinality(picks)
           inside == IF Sim!check_address(a) THEN picked ELSE 0
           outside == IF Sim!check_address(a) THEN 0 ELSE picked
<1>1. /\ l \in Lines /\ Sim!LineOf(a) = l /\ TypeOK
      /\ Sim!Sharers(c, l) = Sharers(c, l)
  BY AddressTypes, SameNames, SameSets DEF LockstepInv, StateInv
<1>2. /\ met \in Nat /\ picked \in Nat /\ inside \in Nat /\ outside \in Nat
      /\ inside + outside = picked
  <2>1. Sharers(c, l) \subseteq Cores /\ picks \subseteq Sharers(c, l)
    BY <1>1, SnoopTypes DEF Sim!Draws
  <2> QED
    BY <2>1, CoresFinite
<1>3. sim_stats' = [sim_stats EXCEPT
                       !.bus_transactions = @ + bus,
                       !.total_cases = @ + met,
                       !.speculate_cases = @ + picked,
                       !.success_addr_bound = @ + inside,
                       !.failed_addr_bound = @ + outside]
  BY <1>1, SameCardinality DEF Sim!CountSnoops
<1> HIDE DEF met, picked, inside, outside
<1>4. /\ sim_stats' \in SimStats
      /\ sim_stats'.bus_transactions = sim_stats.bus_transactions + bus
      /\ sim_stats'.total_cases = sim_stats.total_cases + met
      /\ sim_stats'.speculate_cases = sim_stats.speculate_cases + picked
      /\ sim_stats'.success_addr_bound = sim_stats.success_addr_bound + inside
      /\ sim_stats'.failed_addr_bound = sim_stats.failed_addr_bound + outside
      /\ sim_stats \in SimStats
  <2>1. sim_stats \in SimStats
    BY DEF CountersInv
  <2>2. /\ sim_stats.bus_transactions + bus \in Nat
        /\ sim_stats.total_cases + met \in Nat
        /\ sim_stats.speculate_cases + picked \in Nat
        /\ sim_stats.success_addr_bound + inside \in Nat
        /\ sim_stats.failed_addr_bound + outside \in Nat
    BY <1>2, <2>1 DEF SimStats
  <2>3. sim_stats' \in SimStats
    BY <1>3, <2>1, <2>2, Zenon DEF SimStats
  <2>4. sim_stats' = [success_addr_bound |-> sim_stats.success_addr_bound + inside,
                      failed_addr_bound |-> sim_stats.failed_addr_bound + outside,
                      speculate_cases |-> sim_stats.speculate_cases + picked,
                      total_cases |-> sim_stats.total_cases + met,
                      bus_transactions |-> sim_stats.bus_transactions + bus]
    BY <1>3, <2>1, Zenon DEF SimStats
  <2> QED
    BY <2>1, <2>2, <2>3, <2>4
<1>5. /\ stats'.bus_transactions = stats.bus_transactions + bus
      /\ stats'.total_cases = stats.total_cases + met
  BY <1>1 DEF CountSnoops, TypeOK, System_stats, met
<1>6. sim_stats'.success_addr_bound + sim_stats'.failed_addr_bound
        = sim_stats'.speculate_cases
  <2>1. sim_stats.success_addr_bound + sim_stats.failed_addr_bound
          = sim_stats.speculate_cases
    BY DEF CountersInv, SameTotals
  <2> QED
    BY <1>2, <1>4, <2>1 DEF SimStats
<1> QED
  BY <1>4, <1>5, <1>6 DEF CountersInv, SameTotals

LEMMA SameWriteCounts ==
    ASSUME CountersInv, LockstepInv, NEW c \in Cores, NEW a \in Addrs,
           NEW v \in Values, BothWrite(c, a, v)
    PROVE  CountersInv'
<1> DEFINE l == LineOf(a)
           t == cache_stats[c]
           r == sim_cache_stats[c]
<1>1. /\ l \in Lines /\ Sim!LineOf(a) = l /\ TypeOK /\ SimRuns
      /\ Sim!Sharers(c, l) = Sharers(c, l)
      /\ Sim!Snooped(c, l) = Snooped(c, l)
      /\ sim_state[c][l] = WithoutVictims(state[c][l])
      /\ cache_write(c, a, v) /\ Sim!cache_write(c, a, v)
      /\ sim_stats'.speculate_cases = stats'.speculate_cases
  BY AddressTypes, SameNames, SameSets
     DEF LockstepInv, StateInv, SameProtocol, BothWrite
<1>2. t \in Cache_stat /\ r \in Cache_stat /\ Ahead(t, r)
  BY <1>1 DEF CountersInv, TypeOK
<1>3. CASE WriteHitModified(c, a, v)
  <2>1. sim_state[c][l] = "MODIFIED"
    BY <1>1, <1>3 DEF WriteHitModified, WithoutVictims
  <2>2. Sim!WriteHitModified(c, a, v)
    BY <1>1, <2>1, Zenon DEF Sim!cache_write, Sim!WriteHitUpgrade,
       Sim!WriteMiss, Sim!Resident
  <2> DEFINE own(x) == [x EXCEPT !.num_access = @ + 1,
                                 !.num_writes_hits = @ + 1,
                                 !.num_write_to_llc = @ + 1]
  <2>3. /\ CountCall(c, {}, own(t)) /\ Sim!CountCall(c, {}, own(r))
        /\ stats' = stats /\ sim_stats' = sim_stats
    BY <1>3, <2>2, Zenon DEF WriteHitModified, Sim!WriteHitModified
  <2>4. own(t) \in Cache_stat /\ own(r) \in Cache_stat /\ Ahead(own(t), own(r))
    <3> HIDE DEF t, r
    <3> QED
      BY <1>2, OwnCounters, StaysAhead
  <2> HIDE DEF own
  <2>5. /\ sim_cache_stats' \in [Cores -> Cache_stat]
        /\ \A o \in Cores : Ahead(cache_stats'[o], sim_cache_stats'[o])
    BY <1>1, <2>3, <2>4, SameCountCall
  <2> QED
    BY <1>1, <2>3, <2>5 DEF CountersInv, SameTotals
<1>4. CASE WriteHitUpgrade(c, a, v)
  <2>1. sim_state[c][l] \in {"SHARED", "INVALID"}
    BY <1>1, <1>4 DEF WriteHitUpgrade, WithoutVictims
  <2>2. Sim!WriteHitUpgrade(c, a, v)
    BY <1>1, <2>1, Zenon DEF Sim!cache_write, Sim!WriteHitModified,
       Sim!WriteMiss, Sim!Resident
  <2> DEFINE own(x) == [x EXCEPT !.num_access = @ + 1,
                                 !.num_writes_hits = @ + 1,
                                 !.num_write_to_llc = @ + 1]
  <2>3. /\ CountCall(c, Snooped(c, l), own(t))
        /\ Sim!CountCall(c, Snooped(c, l), own(r))
    BY <1>1, <1>4, <2>2, Zenon DEF WriteHitUpgrade, Sim!WriteHitUpgrade
  <2>4. own(t) \in Cache_stat /\ own(r) \in Cache_stat /\ Ahead(own(t), own(r))
    <3> HIDE DEF t, r
    <3> QED
      BY <1>2, OwnCounters, StaysAhead
  <2> HIDE DEF own
  <2>5. /\ sim_cache_stats' \in [Cores -> Cache_stat]
        /\ \A o \in Cores : Ahead(cache_stats'[o], sim_cache_stats'[o])
    BY <1>1, <2>3, <2>4, SameCountCall
  <2>6. PICK drawn : CountSnoops(a, Sharers(c, l), drawn, 1)
    BY <1>4, Zenon DEF WriteHitUpgrade
  <2>7. PICK picks \in Sim!Draws(Sharers(c, l)) : Sim!CountSnoops(a, c, picks, 1)
    BY <1>1, <2>2, Zenon DEF Sim!WriteHitUpgrade
  <2>8. 1 \in Nat
    OBVIOUS
  <2>9. sim_stats' \in SimStats /\ SameTotals'
    BY <1>1, <2>6, <2>7, <2>8, SameSnoopCounts
  <2> QED
    BY <2>5, <2>9 DEF CountersInv
<1>5. CASE WriteMiss(c, a, v)
  <2>1. sim_state[c][l] = "ABSENT"
    BY <1>1, <1>5 DEF WriteMiss, Resident, WithoutVictims
  <2>2. Sim!WriteMiss(c, a, v)
    BY <1>1, <2>1 DEF Sim!cache_write, Sim!WriteHitModified,
       Sim!WriteHitUpgrade
  <2> DEFINE own(x) == [x EXCEPT !.num_access = @ + 1,
                                 !.num_write_misses = @ + 1,
                                 !.num_write_to_llc = @ + 1]
  <2>3. /\ CountCall(c, Snooped(c, l), own(t))
        /\ Sim!CountCall(c, Snooped(c, l), own(r))
    BY <1>1, <1>5, <2>2, Zenon DEF WriteMiss, Sim!WriteMiss
  <2>4. own(t) \in Cache_stat /\ own(r) \in Cache_stat /\ Ahead(own(t), own(r))
    <3> HIDE DEF t, r
    <3> QED
      BY <1>2, OwnCounters, StaysAhead
  <2> HIDE DEF own
  <2>5. /\ sim_cache_stats' \in [Cores -> Cache_stat]
        /\ \A o \in Cores : Ahead(cache_stats'[o], sim_cache_stats'[o])
    BY <1>1, <2>3, <2>4, SameCountCall
  <2>6. PICK drawn : CountSnoops(a, Sharers(c, l), drawn, num_cores)
    BY <1>5, Zenon DEF WriteMiss
  <2>7. PICK picks \in Sim!Draws(Sharers(c, l)) :
            Sim!CountSnoops(a, c, picks, num_cores)
    BY <1>1, <2>2, Zenon DEF Sim!WriteMiss
  <2>8. num_cores \in Nat
    BY CoresAssumption
  <2>9. sim_stats' \in SimStats /\ SameTotals'
    BY <1>1, <2>6, <2>7, <2>8, SameSnoopCounts
  <2> QED
    BY <2>5, <2>9 DEF CountersInv
<1> QED
  BY <1>1, <1>3, <1>4, <1>5 DEF cache_write

(* A read that leaves the caller's cache is one bus transaction in both.   *)
LEMMA SameBusCount ==
    ASSUME CountersInv, SimRuns, TypeOK,
           \/ stats' = [stats EXCEPT !.bus_transactions = @ + 1]
           \/ stats' = [stats EXCEPT !.bus_transactions = @ + 1,
                                     !.success = @ + 1]
           \/ stats' = [stats EXCEPT !.bus_transactions = @ + 1,
                                     !.same_line = @ + 1],
           Sim!CountBus
    PROVE  sim_stats' \in SimStats /\ SameTotals'
<1>1. /\ stats'.bus_transactions = stats.bus_transactions + 1
      /\ stats'.total_cases = stats.total_cases
      /\ stats'.speculate_cases = stats.speculate_cases
  BY DEF TypeOK, System_stats
<1>2. sim_stats \in SimStats /\ SameTotals
  BY DEF CountersInv
<1>3. sim_stats' = [sim_stats EXCEPT !.bus_transactions = @ + 1]
  BY DEF Sim!CountBus
<1> QED
  BY <1>1, <1>2, <1>3 DEF SimStats, SameTotals

LEMMA SameReadCounts ==
    ASSUME CountersInv, LockstepInv, NEW c \in Cores, NEW a \in Addrs,
           BothRead(c, a)
    PROVE  CountersInv'
<1> DEFINE l == LineOf(a)
           t == cache_stats[c]
           r == sim_cache_stats[c]
           y == IF Sharers(c, l) = {} THEN 1 ELSE 0
           hit(x) == [x EXCEPT !.num_access = @ + 1, !.num_reads_hits = @ + 1]
           refill(x) == [x EXCEPT !.num_access = @ + 1,
                                  !.num_reads_hits = @ + 1,
                                  !.num_read_from_llc = @ + y]
           miss(x) == [x EXCEPT !.num_access = @ + 1, !.num_read_misses = @ + 1,
                                !.num_read_from_llc = @ + 1]
<1>1. /\ l \in Lines /\ Sim!LineOf(a) = l /\ TypeOK /\ SimRuns
      /\ Sim!Sharers(c, l) = Sharers(c, l)
      /\ Sim!Snooped(c, l) = Snooped(c, l)
      /\ sim_state[c][l] = WithoutVictims(state[c][l])
      /\ sim_llc_lines = llc_lines
      /\ cache_read(c, a) /\ Sim!cache_read(c, a)
  BY AddressTypes, SameNames, SameSets
     DEF LockstepInv, StateInv, SameProtocol, BothRead
<1>2. t \in Cache_stat /\ r \in Cache_stat /\ Ahead(t, r)
  BY <1>1 DEF CountersInv, TypeOK
<1>3. /\ \A x \in {t, r} : /\ hit(x) \in Cache_stat
                           /\ refill(x) \in Cache_stat
                           /\ miss(x) \in Cache_stat
      /\ Ahead(hit(t), hit(r)) /\ Ahead(refill(t), refill(r))
      /\ Ahead(hit(t), refill(r)) /\ Ahead(miss(t), miss(r))
  <2>1. y \in {0, 1} /\ y <= y
    OBVIOUS
  <2>2. ASSUME NEW x \in {t, r} PROVE refill(x) \in Cache_stat
    <3>1. x \in Cache_stat
      BY <1>2, <2>2
    <3>2. x.num_access + 1 \in Nat /\ x.num_reads_hits + 1 \in Nat
          /\ x.num_read_from_llc + y \in Nat
      BY <3>1, <2>1 DEF Cache_stat
    <3> HIDE DEF y
    <3> QED
      BY <3>1, <3>2, Zenon DEF Cache_stat
  <2> HIDE DEF t, r, y
  <2>3. \A x \in {t, r} : hit(x) \in Cache_stat /\ miss(x) \in Cache_stat
    BY <1>2, OwnCounters
  <2>4. Ahead(hit(t), hit(r)) /\ Ahead(miss(t), miss(r))
    BY <1>2, StaysAhead
  <2>5. Ahead(refill(t), refill(r)) /\ Ahead(hit(t), refill(r))
    BY <1>2, <2>1, StaysAhead
  <2> QED
    BY <2>2, <2>3, <2>4, <2>5
<1>4. ASSUME NEW own \in Cache_stat, NEW simOwn \in Cache_stat,
             Ahead(own, simOwn), NEW snooped,
             CountCall(c, snooped, own), Sim!CountCall(c, snooped, simOwn),
             sim_stats' \in SimStats, SameTotals'
      PROVE  CountersInv'
  BY <1>1, <1>4, SameCountCall DEF CountersInv
<1>5. CASE ReadHit(c, a)
  <2>1. sim_state[c][l] \in ValidStates
    BY <1>1, <1>5 DEF ReadHit, WithoutVictims, ValidStates
  <2>2. Sim!ReadHit(c, a)
    BY <1>1, <2>1, Zenon DEF Sim!cache_read, Sim!ReadInvalid, Sim!ReadMiss,
       Sim!ReadNowhere, Sim!Resident, ValidStates
  <2>3. CountCall(c, {}, hit(t)) /\ Sim!CountCall(c, {}, hit(r))
    BY <1>5, <2>2, Zenon DEF ReadHit, Sim!ReadHit
  <2>4. sim_stats' \in SimStats /\ SameTotals'
    BY <1>1, <1>5, <2>2 DEF ReadHit, Sim!ReadHit, CountersInv, SameTotals
  <2> HIDE DEF hit, refill, miss, t, r
  <2> QED
    BY <1>3, <1>4, <2>3, <2>4
<1>6. CASE ReadVictimized(c, a) \/ ReadInvalid(c, a)
  <2>1. sim_state[c][l] = "INVALID"
    BY <1>1, <1>6 DEF ReadVictimized, ReadInvalid, WithoutVictims
  <2>2. Sim!ReadInvalid(c, a)
    BY <1>1, <2>1 DEF Sim!cache_read, Sim!ReadHit, Sim!ReadMiss,
       Sim!ReadNowhere, Sim!Resident, Sim!ValidStates
  <2>3. Sim!CountCall(c, Snooped(c, l), refill(r)) /\ Sim!CountBus
    BY <1>1, <2>2, Zenon DEF Sim!ReadInvalid
  <2>4. \/ CountCall(c, Snooped(c, l), hit(t))
        \/ CountCall(c, Snooped(c, l), refill(t))
    BY <1>6, Zenon DEF ReadVictimized, ReadInvalid
  <2>5. \/ stats' = [stats EXCEPT !.bus_transactions = @ + 1]
        \/ stats' = [stats EXCEPT !.bus_transactions = @ + 1,
                                  !.success = @ + 1]
        \/ stats' = [stats EXCEPT !.bus_transactions = @ + 1,
                                  !.same_line = @ + 1]
    BY <1>6, Zenon DEF ReadVictimized, ReadInvalid, within_threshold
  <2>6. sim_stats' \in SimStats /\ SameTotals'
    BY <1>1, <2>3, <2>5, SameBusCount
  <2> HIDE DEF hit, refill, miss, t, r
  <2> QED
    BY <1>3, <1>4, <2>3, <2>4, <2>6
<1>7. CASE ReadMiss(c, a)
  <2>1. sim_state[c][l] = "ABSENT" /\ l \in llc_lines
    BY <1>1, <1>7 DEF ReadMiss, Resident, WithoutVictims
  <2>2. Sim!ReadMiss(c, a)
    BY <1>1, <2>1 DEF Sim!cache_read, Sim!ReadHit, Sim!ReadInvalid,
       Sim!ReadNowhere, Sim!ValidStates
  <2>3. /\ CountCall(c, Snooped(c, l), miss(t))
        /\ Sim!CountCall(c, Snooped(c, l), miss(r)) /\ Sim!CountBus
        /\ stats' = [stats EXCEPT !.bus_transactions = @ + 1]
    BY <1>1, <1>7, <2>2, Zenon DEF ReadMiss, Sim!ReadMiss
  <2>4. sim_stats' \in SimStats /\ SameTotals'
    BY <1>1, <2>3, SameBusCount
  <2> HIDE DEF hit, refill, miss, t, r
  <2> QED
    BY <1>3, <1>4, <2>3, <2>4
<1>8. CASE ReadNotInSystem(c, a)
  <2>1. sim_state[c][l] = "ABSENT" /\ l \notin llc_lines
    BY <1>1, <1>8 DEF ReadNotInSystem, Resident, WithoutVictims
  <2>2. Sim!ReadNowhere(c, a)
    BY <1>1, <2>1 DEF Sim!cache_read, Sim!ReadHit, Sim!ReadInvalid,
       Sim!ReadMiss, Sim!ValidStates
  <2> QED
    BY <2>2 DEF Sim!ReadNowhere, CountersInv, SimRuns
<1> QED
  BY <1>1, <1>5, <1>6, <1>7, <1>8 DEF cache_read

LEMMA CountersInvariant == BothSpec => []CountersInv
<1>1. BothInit => CountersInv
  <2> SUFFICES ASSUME BothInit PROVE CountersInv
    OBVIOUS
  <2>1. sim_stats \in SimStats /\ SameTotals
    BY DEF BothInit, Init, Sim!Init, SimStats, SameTotals
  <2> DEFINE zero == [num_access |-> 0, num_reads_hits |-> 0,
                      num_writes_hits |-> 0, num_read_misses |-> 0,
                      num_write_misses |-> 0, num_read_from_llc |-> 0,
                      num_write_to_llc |-> 0]
  <2>2. zero \in Cache_stat
    BY DEF Cache_stat
  <2>3. /\ sim_cache_stats = [c \in Cores |-> zero]
        /\ cache_stats = [c \in Cores |-> zero]
    BY SameNames DEF BothInit, Init, Sim!Init
  <2>4. Ahead(zero, zero)
    BY <2>2, AheadMeans DEF Cache_stat
  <2> HIDE DEF zero
  <2> QED
    BY <2>1, <2>2, <2>3, <2>4 DEF CountersInv
<1>2. LockstepInv /\ CountersInv /\ [BothNext]_<<vars, simVars>>
         => CountersInv'
  <2>1. ASSUME LockstepInv, CountersInv, BothNext PROVE CountersInv'
    BY <2>1, SameWriteCounts, SameReadCounts DEF BothNext
  <2>2. ASSUME CountersInv, UNCHANGED <<vars, simVars>> PROVE CountersInv'
    BY <2>2 DEF vars, simVars, CountersInv, SameTotals, SimRuns
  <2> QED
    BY <2>1, <2>2
<1> QED
  BY <1>1, <1>2, LockstepInvariant, PTL DEF BothSpec

(* The two controllers count alike, but for the side of the bound that a   *)
(* speculated copy is counted on, and for the words that the stand-alone   *)
(* one fetches from the LLC where the other reads a victim.                *)
THEOREM SameCountersHolds == BothSpec => []SameCounters
<1>1. CountersInv => SameCounters
  <2> SUFFICES ASSUME CountersInv, SimRuns
               PROVE  /\ SameTotals
                      /\ \A c \in Cores :
                           Ahead(cache_stats[c], sim_cache_stats[c])
    BY DEF SameCounters, SameTotals, Ahead
  <2> QED
    BY DEF CountersInv
<1> QED
  BY <1>1, CountersInvariant, PTL
=============================================================================
