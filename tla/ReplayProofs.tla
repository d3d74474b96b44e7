---------------------------- MODULE ReplayProofs ----------------------------
(***************************************************************************)
(* The replay of recorded instructions is even, and complete when it ends, *)
(* for every number of cores and whatever they recorded.                   *)
(***************************************************************************)
EXTENDS Replay, ArithmeticLemmas

(* The turn passes to the next core, and from the last one to the first.   *)
LEMMA NextTurnIs ==
    ASSUME counter \in Cores
    PROVE  NextTurn = IF counter = num_cores - 1 THEN 0 ELSE counter + 1
<1>1. num_cores \in Nat \ {0} /\ counter \in 0 .. num_cores - 1
  BY CoresAssumption DEF Cores
<1>2. CASE counter = num_cores - 1
  <2>1. (num_cores * 1 + 0) % num_cores = 0
    BY <1>1, DivisionUnique
  <2>2. counter + 1 = num_cores * 1 + 0
    BY <1>1, <1>2
  <2> QED
    BY <1>2, <2>1, <2>2 DEF NextTurn
<1>3. CASE counter # num_cores - 1
  <2>1. counter + 1 \in 0 .. num_cores - 1
    BY <1>1, <1>3
  <2>2. (num_cores * 0 + (counter + 1)) % num_cores = counter + 1
    BY <1>1, <2>1, DivisionUnique
  <2>3. num_cores * 0 + (counter + 1) = counter + 1
    BY <1>1
  <2> QED
    BY <1>3, <2>2, <2>3 DEF NextTurn
<1> QED
  BY <1>2, <1>3

LEMMA NextTurnType ==
    ASSUME counter \in Cores
    PROVE  NextTurn \in Cores
BY NextTurnIs, CoresAssumption DEF Cores

(* A call of the controller counts once in each of the two counters.       *)
LEMMA CallsCount ==
    ASSUME NEW c, NEW a, NEW v, cache_read(c, a) \/ cache_write(c, a, v)
    PROVE  total_instr' = total_instr + 1 /\ global_time' = global_time + 1
BY Zenon
   DEF cache_read, cache_write, ReadHit, ReadVictimized, ReadInvalid, ReadMiss,
       ReadNotInSystem, WriteHitModified, WriteHitUpgrade, WriteMiss, Tick

-----------------------------------------------------------------------------
(* In its round r a replay has called min(r, recorded) instructions of     *)
(* each core, and one more of those whose turn has been.                   *)
Least(m, n) == IF m <= n THEN m ELSE n

Turns(r, c) == IF c < counter THEN r + 1 ELSE r

InRound(r) ==
    \A c \in Cores : indexes[c] = Least(Turns(r, c), Len(instruction_map[c]))

ReplayInv ==
    /\ total_instr \in Nat
    /\ ReplayTypeOK
    /\ replaying => \E r \in Nat : InRound(r)

(* A step that leaves the replay's variables alone.                        *)
LEMMA ReplayUnchanged ==
    ASSUME ReplayInv, UNCHANGED replayVars, total_instr' \in Nat
    PROVE  ReplayInv'
BY DEF ReplayInv, ReplayTypeOK, replayVars, InRound, Turns

LEMMA RecordKeeps ==
    ASSUME ReplayInv, NEW c \in Cores, NEW instr \in Instr, Record(c, instr)
    PROVE  ReplayInv'
<1>1. /\ instruction_map \in [Cores -> Seq(Instr)]
      /\ indexes \in [Cores -> Nat]
      /\ total_instr \in Nat
  BY DEF ReplayInv, ReplayTypeOK
<1> DEFINE longer == Append(instruction_map[c], instr)
           lists == [instruction_map EXCEPT ![c] = longer]
<1>2. longer \in Seq(Instr) /\ Len(longer) = Len(instruction_map[c]) + 1
  BY <1>1
<1>3. instruction_map' = lists /\ UNCHANGED <<replaying, indexes, counter, finished_instr>>
  BY DEF Record
<1>4. lists \in [Cores -> Seq(Instr)]
  <2> HIDE DEF longer
  <2> DEFINE S == Seq(Instr)
  <2>1. instruction_map \in [Cores -> S] /\ longer \in S
    BY <1>1, <1>2
  <2> HIDE DEF S
  <2>2. lists \in [Cores -> S]
    BY <2>1
  <2> QED
    BY <2>2 DEF S
<1>5. \A d \in Cores : indexes[d] <= Len(lists[d])
  <2> SUFFICES ASSUME NEW d \in Cores PROVE indexes[d] <= Len(lists[d])
    OBVIOUS
  <2>1. indexes[d] <= Len(instruction_map[d]) /\ indexes[d] \in Nat
        /\ Len(instruction_map[d]) \in Nat
    BY <1>1 DEF ReplayInv, ReplayTypeOK
  <2>2. Len(lists[d]) = IF d = c THEN Len(instruction_map[d]) + 1
                        ELSE Len(instruction_map[d])
    BY <1>1, <1>2
  <2> QED
    BY <2>1, <2>2
<1> HIDE DEF lists
<1> QED
  BY <1>1, <1>3, <1>4, <1>5 DEF Record, ReplayInv, ReplayTypeOK

LEMMA StartKeeps ==
    ASSUME ReplayInv, Start
    PROVE  ReplayInv'
<1>1. 0 \in Cores
  BY CoresAssumption DEF Cores
<1>2. /\ instruction_map' \in [Cores -> Seq(Instr)]
      /\ indexes' = [c \in Cores |-> 0]
      /\ counter' = 0 /\ replaying' = TRUE
      /\ total_instr' \in Nat /\ finished_instr' \in Nat
  BY DEF Start, ReplayInv, ReplayTypeOK, vars
<1>3. \A c \in Cores : Len(instruction_map'[c]) \in Nat
  BY <1>2
<1>4. InRound(0)'
  BY <1>1, <1>2, <1>3 DEF InRound, Turns, Least, Cores
<1> QED
  BY <1>1, <1>2, <1>3, <1>4 DEF ReplayInv, ReplayTypeOK

(* A turn of the loop: the core whose turn it is replays its next          *)
(* instruction if it has one, and the turn passes on.                      *)
LEMMA TurnKeepsRounds ==
    ASSUME ReplayInv, replaying, counter' = NextTurn,
           instruction_map' = instruction_map,
           indexes' = IF Exhausted(counter) THEN indexes
                      ELSE [indexes EXCEPT ![counter] = @ + 1]
    PROVE  /\ \E r \in Nat : InRound(r)'
           /\ indexes' \in [Cores -> Nat]
           /\ \A c \in Cores : indexes'[c] <= Len(instruction_map'[c])
           /\ counter' \in Cores
<1>1. /\ instruction_map \in [Cores -> Seq(Instr)]
      /\ indexes \in [Cores -> Nat]
      /\ counter \in Cores
  BY DEF ReplayInv, ReplayTypeOK
<1>2. \A c \in Cores : Len(instruction_map[c]) \in Nat /\ c \in Int
  BY <1>1 DEF Cores
<1>3. PICK r \in Nat : InRound(r)
  BY DEF ReplayInv
<1> DEFINE length == Len(instruction_map[counter])
<1>4. indexes[counter] = Least(r, length) /\ length \in Nat
  BY <1>1, <1>2, <1>3 DEF InRound, Turns, Cores
<1>5. indexes'[counter] = Least(r + 1, length)
  <2>1. CASE Exhausted(counter)
    BY <1>4, <2>1 DEF Exhausted, Least
  <2>2. CASE ~Exhausted(counter)
    BY <1>1, <1>4, <2>2 DEF Exhausted, Least
  <2> QED
    BY <2>1, <2>2
<1>6. \A c \in Cores \ {counter} : indexes'[c] = indexes[c]
  BY <1>1
<1>7. indexes' \in [Cores -> Nat]
  BY <1>1
<1>8. counter' \in Cores
  BY <1>1, NextTurnType
<1>9. \E q \in Nat : InRound(q)'
  <2>1. CASE counter = num_cores - 1
    <3>1. counter' = 0
      BY <1>1, <2>1, NextTurnIs
    <3>2. \A c \in Cores : indexes'[c] = Least(r + 1, Len(instruction_map[c]))
      <4> SUFFICES ASSUME NEW c \in Cores
                   PROVE  indexes'[c] = Least(r + 1, Len(instruction_map[c]))
        OBVIOUS
      <4>1. CASE c = counter
        BY <1>5, <4>1
      <4>2. CASE c # counter
        <5>1. c < counter
          BY <2>1, <4>2, CoresAssumption DEF Cores
        <5>2. Turns(r, c) = r + 1
          BY <5>1 DEF Turns
        <5> QED
          BY <1>3, <1>6, <4>2, <5>2 DEF InRound
      <4> QED
        BY <4>1, <4>2
    <3>3. InRound(r + 1)'
      BY <3>1, <3>2 DEF InRound, Turns, Cores
    <3> QED
      BY <3>3
  <2>2. CASE counter # num_cores - 1
    <3>1. counter' = counter + 1
      BY <1>1, <2>2, NextTurnIs
    <3>2. \A c \in Cores :
            indexes'[c] = Least(IF c < counter + 1 THEN r + 1 ELSE r,
                                Len(instruction_map[c]))
      <4> SUFFICES ASSUME NEW c \in Cores
                   PROVE  indexes'[c] = Least(IF c < counter + 1 THEN r + 1 ELSE r,
                                              Len(instruction_map[c]))
        OBVIOUS
      <4>1. CASE c = counter
        <5>1. c < counter + 1
          BY <1>2, <4>1
        <5> QED
          BY <1>5, <4>1, <5>1
      <4>2. CASE c # counter
        <5>1. (c < counter + 1) <=> (c < counter)
          BY <1>1, <4>2 DEF Cores
        <5> QED
          BY <1>3, <1>6, <4>2, <5>1 DEF InRound, Turns
      <4> QED
        BY <4>1, <4>2
    <3>3. InRound(r)'
      BY <3>1, <3>2 DEF InRound, Turns
    <3> QED
      BY <3>3
  <2> QED
    BY <2>1, <2>2
<1>10. \A c \in Cores : indexes'[c] <= Len(instruction_map'[c])
  <2>1. \A c \in Cores : indexes[c] <= Len(instruction_map[c])
    BY DEF ReplayInv, ReplayTypeOK
  <2>2. indexes'[counter] <= length
    BY <1>4, <1>5 DEF Least
  <2> QED
    BY <1>6, <2>1, <2>2
<1> QED
  BY <1>7, <1>8, <1>9, <1>10

LEMMA LoopKeeps ==
    ASSUME ReplayInv, Loop
    PROVE  ReplayInv'
<1>1. CASE PrintStats
  BY <1>1 DEF PrintStats, ReplayInv, ReplayTypeOK, vars
<1>2. CASE Skip
  <2>1. /\ total_instr' \in Nat /\ finished_instr' \in Nat
        /\ instruction_map' \in [Cores -> Seq(Instr)] /\ replaying'
    BY <1>2 DEF Skip, ReplayInv, ReplayTypeOK, vars
  <2> QED
    BY <1>2, <2>1, TurnKeepsRounds DEF Skip, ReplayInv, ReplayTypeOK
<1>3. CASE Replayed
  <2>1. total_instr' = total_instr + 1
    BY <1>3, CallsCount DEF Replayed
  <2>2. /\ total_instr' \in Nat /\ finished_instr' \in Nat
        /\ instruction_map' \in [Cores -> Seq(Instr)] /\ replaying'
    BY <1>3, <2>1 DEF Replayed, ReplayInv, ReplayTypeOK
  <2> QED
    BY <1>3, <2>2, TurnKeepsRounds DEF Replayed, ReplayInv, ReplayTypeOK
<1> QED
  BY <1>1, <1>2, <1>3 DEF Loop

LEMMA ReplayInvariant == ReplaySpec => []ReplayInv
<1>1. ReplayInit => ReplayInv
  <2> SUFFICES ASSUME ReplayInit PROVE ReplayInv
    OBVIOUS
  <2>1. 0 \in Cores
    BY CoresAssumption DEF Cores
  <2>2. /\ instruction_map = [c \in Cores |-> <<>>]
        /\ indexes = [c \in Cores |-> 0]
        /\ replaying = FALSE /\ counter = 0 /\ finished_instr = 0
        /\ total_instr = 0
    BY DEF ReplayInit, Init
  <2>3. instruction_map \in [Cores -> Seq(Instr)]
    <3>1. <<>> \in Seq(Instr)
      OBVIOUS
    <3> DEFINE S == Seq(Instr)
           none == << >>
    <3>2. none \in S
      BY <3>1
    <3> HIDE DEF S
    <3>3. [c \in Cores |-> none] \in [Cores -> S]
      BY <3>2
    <3> QED
      BY <2>2, <3>3 DEF S
  <2>4. indexes \in [Cores -> Nat]
    BY <2>2
  <2>5. \A c \in Cores : indexes[c] <= Len(instruction_map[c])
    BY <2>2
  <2> QED
    BY <2>1, <2>2, <2>3, <2>4, <2>5 DEF ReplayInv, ReplayTypeOK
<1>2. ReplayInv /\ [ReplayNext]_allVars => ReplayInv'
  <2> SUFFICES ASSUME ReplayInv, [ReplayNext]_allVars PROVE ReplayInv'
    OBVIOUS
  <2>1. ASSUME NEW c \in Cores, NEW a \in Addrs, fake_read(c, a)
        PROVE  ReplayInv'
    BY <2>1, RecordKeeps DEF fake_read, Instr, Data
  <2>2. ASSUME NEW c \in Cores, NEW a \in Addrs, NEW v \in Values,
               fake_write(c, a, v)
        PROVE  ReplayInv'
    BY <2>2, RecordKeeps DEF fake_write, Instr, Data
  <2>3. ASSUME NEW c \in Cores, NEW a \in Addrs, Direct(c, a)
        PROVE  ReplayInv'
    BY <2>3, CallsCount, ReplayUnchanged DEF Direct, ReplayInv
  <2>4. CASE UNCHANGED allVars
    BY <2>4, ReplayUnchanged DEF allVars, vars, ReplayInv
  <2> QED
    BY <2>1, <2>2, <2>3, <2>4, StartKeeps, LoopKeeps DEF ReplayNext
<1> QED
  BY <1>1, <1>2, PTL DEF ReplaySpec

(* Every list is read within its bounds, by whichever core's turn.         *)
THEOREM ReplayTypeCorrect == ReplaySpec => []ReplayTypeOK
BY ReplayInvariant, PTL DEF ReplayInv

(* No core is two instructions ahead of one that has any left, for every   *)
(* number of cores and all lists.                                          *)
THEOREM RoundRobinHolds == ReplaySpec => []RoundRobin
<1>1. ReplayInv => RoundRobin
  <2> SUFFICES ASSUME ReplayInv, replaying, NEW c \in Cores, NEW d \in Cores
               PROVE  indexes[c] <= indexes[d] + 1 \/ Exhausted(d)
    BY DEF RoundRobin
  <2>1. PICK r \in Nat : InRound(r)
    BY DEF ReplayInv
  <2>2. /\ Len(instruction_map[c]) \in Nat
        /\ Len(instruction_map[d]) \in Nat
        /\ counter \in Int
    BY DEF ReplayInv, ReplayTypeOK, Cores
  <2>3. /\ indexes[c] = Least(Turns(r, c), Len(instruction_map[c]))
        /\ indexes[d] = Least(Turns(r, d), Len(instruction_map[d]))
    BY <2>1 DEF InRound
  <2> QED
    BY <2>2, <2>3 DEF Least, Turns, Exhausted, Cores
<1> QED
  BY <1>1, ReplayInvariant, PTL

-----------------------------------------------------------------------------
(* What the counters say.  An instruction that is recorded and then        *)
(* replayed counts twice in total_instr and once in global_time, so the    *)
(* loop is right to stop only if nothing else has been called.             *)

CountInv ==
    /\ global_time \in Nat
    /\ total_instr = global_time + Recorded
    /\ replaying => /\ finished_instr + 2 * Done = global_time + Recorded
                    /\ Done <= global_time

(* The sum over the cores, and the lengths of their lists.                 *)
Total(f) == SumFunctionOnSet(f, Cores)
Lengths(lists) == [c \in Cores |-> Len(lists[c])]

LEMMA CoresAreFinite == IsFiniteSet(Cores)
BY CoresAssumption, FS_Interval DEF Cores

LEMMA Totals ==
    ASSUME ReplayTypeOK
    PROVE  /\ Recorded = Total(Lengths(instruction_map)) /\ Recorded \in Int
           /\ Done = Total(indexes) /\ Done \in Int
           /\ Done <= Recorded
           /\ Done = Recorded => \A c \in Cores : Exhausted(c)
<1> DEFINE f == Lengths(instruction_map)
<1>1. \A c \in Cores : /\ f[c] = Len(instruction_map[c])
                      /\ f[c] \in Int /\ indexes[c] \in Int
                      /\ indexes[c] <= f[c]
  BY DEF ReplayTypeOK, Lengths
<1>2. Recorded = Total(f) /\ Done = Total(indexes)
  BY DEF Recorded, Done, SumFunction, Total, Lengths, ReplayTypeOK
<1> HIDE DEF f
<1>3. Total(f) \in Int /\ Total(indexes) \in Int
  BY <1>1, CoresAreFinite, SumType DEF Total
<1>4. /\ Total(indexes) <= Total(f)
      /\ Total(indexes) = Total(f) => \A c \in Cores : indexes[c] = f[c]
  BY <1>1, CoresAreFinite, SumCompares DEF Total
<1>5. Total(indexes) = Total(f) => \A c \in Cores : Exhausted(c)
  BY <1>1, <1>4 DEF Exhausted
<1> QED
  BY <1>2, <1>3, <1>4, <1>5 DEF f

LEMMA RecordCounts ==
    ASSUME ReplayTypeOK, ReplayTypeOK', NEW c \in Cores, NEW instr \in Instr,
           Record(c, instr)
    PROVE  Recorded' = Recorded + 1
<1> DEFINE f == Lengths(instruction_map)
           g == Lengths(instruction_map')
<1>1. Recorded = Total(f) /\ Recorded' = Total(g) /\ Total(f) \in Int
  <2>1. Recorded' = Total(g)
    BY DEF Recorded, SumFunction, Total, Lengths
  <2> QED
    BY <2>1, Totals
<1>2. /\ \A d \in Cores : f[d] \in Int
      /\ g[c] = f[c] + 1
      /\ \A d \in Cores \ {c} : g[d] = f[d]
  BY DEF Record, ReplayTypeOK, Lengths
<1> HIDE DEF f, g
<1>3. Total(g) = Total(f) + g[c] - f[c]
  <2>1. f[c] \in Int /\ g[c] \in Int
    BY <1>2
  <2> QED
    BY <1>2, <2>1, CoresAreFinite, SumChanges DEF Total
<1> QED
  BY <1>1, <1>2, <1>3

LEMMA ReplayedCounts ==
    ASSUME ReplayTypeOK, ReplayTypeOK', Replayed
    PROVE  Done' = Done + 1
<1>1. counter \in Cores /\ indexes \in [Cores -> Nat] /\ indexes' \in [Cores -> Nat]
  BY DEF ReplayTypeOK
<1>2. Done = Total(indexes) /\ Done' = Total(indexes') /\ Total(indexes) \in Int
  <2>1. Done' = Total(indexes')
    BY <1>1 DEF Done, SumFunction, Total
  <2> QED
    BY <2>1, Totals
<1>3. /\ \A d \in Cores : indexes[d] \in Int
      /\ indexes'[counter] = indexes[counter] + 1
      /\ \A d \in Cores \ {counter} : indexes'[d] = indexes[d]
  BY <1>1 DEF Replayed
<1>4. indexes'[counter] \in Int
  BY <1>1
<1>5. Total(indexes') = Total(indexes) + indexes'[counter] - indexes[counter]
  BY <1>1, <1>3, <1>4, CoresAreFinite, SumChanges DEF Total
<1> QED
  BY <1>1, <1>2, <1>3, <1>5

LEMMA StartCounts ==
    ASSUME ReplayTypeOK', Start
    PROVE  Done' = 0
<1>1. indexes' = [c \in Cores |-> 0]
  BY DEF Start
<1> DEFINE none == [c \in Cores |-> 0]
<1>2. Total(none) = 0
  BY CoresAreFinite, SumOfZeros DEF Total
<1>3. Done' = Total(none)
  BY <1>1 DEF Done, SumFunction, Total
<1> QED
  BY <1>2, <1>3

LEMMA CountStep ==
    ASSUME ReplayInv, ReplayInv', CountInv, [ReplayNext]_allVars
    PROVE  CountInv'
<1>1. /\ ReplayTypeOK /\ ReplayTypeOK' /\ finished_instr \in Nat
      /\ total_instr \in Nat /\ global_time \in Nat
      /\ Recorded \in Int /\ Done \in Int
  BY Totals DEF ReplayInv, ReplayTypeOK, CountInv
<1>2. total_instr = global_time + Recorded
  BY DEF CountInv
<1>3. ASSUME NEW c \in Cores, NEW instr \in Instr, Record(c, instr)
      PROVE  CountInv'
  <2>1. /\ Recorded' = Recorded + 1
        /\ total_instr' = total_instr + 1 /\ global_time' = global_time
        /\ ~replaying'
    BY <1>1, <1>3, RecordCounts DEF Record
  <2> QED
    BY <1>1, <1>2, <2>1 DEF CountInv
<1>4. ASSUME NEW c \in Cores, NEW a \in Addrs, Direct(c, a)
      PROVE  CountInv'
  <2>1. /\ total_instr' = total_instr + 1 /\ global_time' = global_time + 1
    BY <1>4, CallsCount DEF Direct
  <2>2. Recorded' = Recorded /\ ~replaying'
    BY <1>4 DEF Direct, replayVars, Recorded
  <2> QED
    BY <1>1, <1>2, <2>1, <2>2 DEF CountInv
<1>5. CASE Start
  <2>1. Done' = 0 /\ Recorded' = Recorded /\ finished_instr' = total_instr
        /\ global_time' = global_time /\ total_instr' = total_instr
    BY <1>1, <1>5, StartCounts DEF Start, Recorded, vars
  <2> QED
    BY <1>1, <1>2, <2>1 DEF CountInv
<1>6. CASE Skip \/ PrintStats \/ UNCHANGED allVars
  <2>1. /\ Done' = Done /\ Recorded' = Recorded
        /\ finished_instr' = finished_instr
        /\ global_time' = global_time /\ total_instr' = total_instr
        /\ replaying' => replaying
    BY <1>6 DEF Skip, PrintStats, allVars, replayVars, vars, Done, Recorded
  <2> QED
    BY <2>1 DEF CountInv
<1>7. CASE Replayed
  <2>1. total_instr' = total_instr + 1 /\ global_time' = global_time + 1
    BY <1>7, CallsCount DEF Replayed
  <2>2. Done' = Done + 1
    BY <1>1, <1>7, ReplayedCounts
  <2>3. /\ Recorded' = Recorded /\ replaying
        /\ finished_instr' = finished_instr - 1
    BY <1>7 DEF Replayed, Recorded
  <2> QED
    BY <1>1, <1>2, <2>1, <2>2, <2>3 DEF CountInv
<1> QED
  BY <1>3, <1>4, <1>5, <1>6, <1>7
     DEF ReplayNext, Loop, fake_read, fake_write, Instr, Data

LEMMA CountInvariant == ReplaySpec => []CountInv
<1>1. ReplayInit => CountInv
  <2> SUFFICES ASSUME ReplayInit PROVE CountInv
    OBVIOUS
  <2> DEFINE f == [c \in Cores |-> Len(instruction_map[c])]
  <2>1. /\ global_time = 0 /\ total_instr = 0 /\ ~replaying
        /\ \A c \in Cores : f[c] = 0
    BY DEF ReplayInit, Init
  <2> HIDE DEF f
  <2>2. Total(f) = 0
    BY <2>1, CoresAreFinite, SumOfZeros DEF Total
  <2>3. Recorded = 0
    BY <2>2 DEF Recorded, SumFunction, Total, f
  <2> QED
    BY <2>1, <2>3 DEF CountInv
<1>2. ReplayInv /\ ReplayInv' /\ CountInv /\ [ReplayNext]_allVars => CountInv'
  BY CountStep
<1> QED
  BY <1>1, <1>2, ReplayInvariant, PTL DEF ReplaySpec

(* Statistics are printed for all that was recorded, each instruction      *)
(* called once, and for nothing else, whatever the program recorded,       *)
(* called or replayed before: where something else was called the loop     *)
(* does not end.                                                           *)
THEOREM PrintsWhatWasRecordedHolds == ReplaySpec => PrintsWhatWasRecorded
<1>1. ASSUME ReplayInv, CountInv, PrintStats
      PROVE  (\A c \in Cores : Exhausted(c)) /\ global_time = Recorded
  <2>1. /\ global_time \in Nat /\ Recorded \in Int /\ Done \in Int
        /\ Done <= Recorded /\ Done <= global_time
        /\ 2 * Done = global_time + Recorded
    BY <1>1, Totals DEF ReplayInv, CountInv, PrintStats
  <2>2. Done = Recorded /\ global_time = Recorded
    BY <2>1
  <2> QED
    BY <1>1, <2>2, Totals DEF ReplayInv
<1>2. ReplayInv /\ CountInv =>
        (PrintStats => /\ \A c \in Cores : Exhausted(c)
                       /\ global_time = Recorded)
  BY <1>1
<1> QED
  BY <1>2, ReplayInvariant, CountInvariant, PTL DEF PrintsWhatWasRecorded
=============================================================================
