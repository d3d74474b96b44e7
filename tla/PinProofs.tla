----------------------------- MODULE PinProofs -----------------------------
(***************************************************************************)
(* The Pin tool drives the cache controller as the controller's own        *)
(* specification allows, and patches nothing but approximable memory, for  *)
(* every number of threads, geometry, element size and choice of ranges.   *)
(***************************************************************************)
EXTENDS PinTool, CacheProofs

StepType == [do : {"RecordMemRead", "RecordMemReadAfter", "RecordMemWrite",
                   "read", "write"}, at : Addrs]

LEMMA InstructionTypes ==
    ASSUME NEW i \in Instructions
    PROVE  i \in Seq(StepType) /\ i # <<>>
<1>1. \A a \in Addrs :
        /\ Step("RecordMemRead", a) \in StepType
        /\ Step("RecordMemReadAfter", a) \in StepType
        /\ Step("RecordMemWrite", a) \in StepType
        /\ Step("read", a) \in StepType
        /\ Step("write", a) \in StepType
  BY DEF Step, StepType
<1>2. CASE \E a \in Addrs : i = Load(a)
  BY <1>1, <1>2 DEF Load
<1>3. CASE \E a \in Addrs : i = Store(a)
  BY <1>1, <1>3 DEF Store
<1>4. CASE \E a \in Addrs : i = Update(a)
  BY <1>1, <1>4 DEF Update
<1>5. CASE \E a \in Addrs, b \in Addrs : i = Compare(a, b)
  BY <1>1, <1>5 DEF Compare
<1>6. CASE \E a \in Addrs, b \in Addrs : i = Push(a, b)
  BY <1>1, <1>6 DEF Push
<1>7. CASE \E a \in Addrs, b \in Addrs : i = Movs(a, b)
  BY <1>1, <1>7 DEF Movs
<1> QED
  BY <1>2, <1>3, <1>4, <1>5, <1>6, <1>7 DEF Instructions

LEMMA TakesType ==
    ASSUME PinTypeOK, NEW c \in Cores, NEW do, NEW a \in Addrs,
           Takes(c, do, a)
    PROVE  todo' \in [Cores -> Seq(StepType)]
<1>1. todo \in [Cores -> Seq(StepType)]
  BY DEF PinTypeOK, StepType
<1>2. PICK i \in (IF todo[c] = <<>> THEN Instructions ELSE {todo[c]}) :
        todo' = [todo EXCEPT ![c] = Tail(i)]
  BY DEF Takes
<1>3. i \in Seq(StepType) /\ i # <<>>
  BY <1>1, <1>2, InstructionTypes
<1>4. Tail(i) \in Seq(StepType)
  BY <1>3
<1> QED
  BY <1>1, <1>2, <1>4

LEMMA PatchedType ==
    ASSUME memory \in [Addrs -> Elements], NEW a \in Addrs, NEW word \in Nat
    PROVE  Patched(a, word) \in [Addrs -> Elements]
<1>1. word % Base \in Elements
  BY BaseAssumption DEF Elements
<1> QED
  BY <1>1 DEF Patched

(* The 8 bytes read at an element's address are a word of the controller.  *)
LEMMA SafeCopyType ==
    ASSUME memory \in [Addrs -> Elements], NEW a \in Addrs
    PROVE  SafeCopy(a) \in Values
<1>1. memory[a] \in Elements /\ 0 \in Elements
  BY BaseAssumption DEF Elements
<1>2. a + 4 \in Addrs => memory[a + 4] \in Elements
  OBVIOUS
<1>3. CASE element_size = 8
  BY <1>1, <1>3, WordsAssumption DEF SafeCopy
<1>4. CASE element_size = 4
  <2> DEFINE next == IF a + 4 \in Addrs THEN memory[a + 4] ELSE 0
  <2>1. next \in Elements
    BY <1>1, <1>2
  <2>2. memory[a] + Base * next \in Values
    BY <1>1, <1>4, <2>1, WordsAssumption
  <2> QED
    BY <1>4, <2>2 DEF SafeCopy
<1> QED
  BY <1>3, <1>4, ElementAssumption

LEMMA HeadType ==
    ASSUME NEW S, NEW s \in Seq(S), s # <<>>
    PROVE  Head(s) \in S
OBVIOUS

LEMMA DataAreNaturals == Data \subseteq Nat
BY ValuesAssumption DEF Data

(* Replacing one core's entries for one address.                           *)
LEMMA RevertsUpdate ==
    ASSUME reverts \in [Cores -> [Addrs -> Seq(Data)]],
           NEW c \in Cores, NEW a \in Addrs, NEW s \in Seq(Data),
           reverts' = [reverts EXCEPT ![c][a] = s]
    PROVE  reverts' \in [Cores -> [Addrs -> Seq(Data)]]
<1> DEFINE S == Seq(Data)
<1>1. reverts \in [Cores -> [Addrs -> S]] /\ s \in S
  OBVIOUS
<1> HIDE DEF S
<1>2. [reverts EXCEPT ![c][a] = s] \in [Cores -> [Addrs -> S]]
  BY <1>1
<1> QED
  BY <1>2 DEF S

LEMMA ResultType ==
    ASSUME TypeOK'
    PROVE  /\ result'.valid_data \in Data
           /\ result'.invalid_data \in Data
BY DEF TypeOK, Read_tuple

-----------------------------------------------------------------------------
(* One lemma per callback: what it does to the types.                      *)

ToolTypes == TypeOK /\ PinTypeOK

LEMMA RecordMemReadTypes ==
    ASSUME ToolTypes, NEW c \in Cores, NEW a \in Addrs, RecordMemRead(c, a)
    PROVE  ToolTypes'
<1>1. TypeOK'
  BY ReadTypes DEF ToolTypes, RecordMemRead
<1>2. todo' \in [Cores -> Seq(StepType)]
  BY TakesType DEF ToolTypes, RecordMemRead
<1>3. /\ result'.valid_data \in Data
      /\ result'.invalid_data \in Nat
  BY <1>1, ResultType, DataAreNaturals
<1>4. /\ memory \in [Addrs -> Elements]
      /\ speculated \in [Cores -> BOOLEAN]
      /\ reverts \in [Cores -> [Addrs -> Seq(Data)]]
      /\ stored' \in [Addrs -> Elements]
  BY DEF ToolTypes, PinTypeOK, RecordMemRead
<1>5. memory' \in [Addrs -> Elements]
  BY <1>3, <1>4, PatchedType DEF RecordMemRead
<1>6. reverts' \in [Cores -> [Addrs -> Seq(Data)]]
  <2>1. Append(reverts[c][a], result'.valid_data) \in Seq(Data)
    BY <1>3, <1>4
  <2>2. \/ reverts' = reverts
        \/ reverts' = [reverts EXCEPT ![c][a] =
                            Append(reverts[c][a], result'.valid_data)]
    BY DEF RecordMemRead
  <2>3. CASE reverts' = reverts
    BY <1>4, <2>3
  <2> QED
    BY <1>4, <2>1, <2>2, <2>3, RevertsUpdate
<1>7. speculated' \in [Cores -> BOOLEAN]
  BY <1>4 DEF RecordMemRead
<1> QED
  BY <1>1, <1>2, <1>4, <1>5, <1>6, <1>7 DEF ToolTypes, PinTypeOK, StepType

LEMMA RecordMemReadAfterTypes ==
    ASSUME ToolTypes, NEW c \in Cores, NEW a \in Addrs,
           RecordMemReadAfter(c, a)
    PROVE  ToolTypes'
<1>1. TypeOK'
  BY DEF ToolTypes, RecordMemReadAfter, vars, TypeOK
<1>2. todo' \in [Cores -> Seq(StepType)]
  BY TakesType DEF ToolTypes, RecordMemReadAfter
<1>3. /\ memory \in [Addrs -> Elements]
      /\ speculated \in [Cores -> BOOLEAN]
      /\ reverts \in [Cores -> [Addrs -> Seq(Data)]]
      /\ stored' \in [Addrs -> Elements]
  BY DEF ToolTypes, PinTypeOK, RecordMemReadAfter
<1>4. memory' \in [Addrs -> Elements]
  <2>1. reverts[c][a] \in Seq(Data)
    BY <1>3
  <2>2. reverts[c][a] # <<>> => Head(reverts[c][a]) \in Data
    BY <2>1, HeadType
  <2>3. CASE UNCHANGED memory
    BY <1>3, <2>3
  <2>4. CASE /\ reverts[c][a] # <<>>
             /\ memory' = Patched(a, Head(reverts[c][a]))
    <3>1. Head(reverts[c][a]) \in Nat
      BY <2>2, <2>4, DataAreNaturals
    <3> QED
      BY <1>3, <2>4, <3>1, PatchedType
  <2> QED
    BY <2>3, <2>4 DEF RecordMemReadAfter
<1>5. reverts' \in [Cores -> [Addrs -> Seq(Data)]]
  <2>1. \/ reverts' = reverts
        \/ reverts' = [reverts EXCEPT ![c][a] = <<>>]
    BY DEF RecordMemReadAfter
  <2>2. <<>> \in Seq(Data)
    OBVIOUS
  <2>3. CASE reverts' = reverts
    BY <1>3, <2>3
  <2> QED
    BY <1>3, <2>1, <2>2, <2>3, RevertsUpdate
<1>6. speculated' \in [Cores -> BOOLEAN]
  BY <1>3 DEF RecordMemReadAfter
<1> QED
  BY <1>1, <1>2, <1>3, <1>4, <1>5, <1>6 DEF ToolTypes, PinTypeOK, StepType

LEMMA RecordMemWriteTypes ==
    ASSUME ToolTypes, NEW c \in Cores, NEW a \in Addrs, RecordMemWrite(c, a)
    PROVE  ToolTypes'
<1>1. SafeCopy(a) \in Values
  BY SafeCopyType DEF ToolTypes, PinTypeOK
<1>2. TypeOK'
  BY <1>1, WriteTypes DEF ToolTypes, RecordMemWrite
<1>3. todo' \in [Cores -> Seq(StepType)]
  BY TakesType DEF ToolTypes, RecordMemWrite
<1> QED
  BY <1>2, <1>3 DEF ToolTypes, PinTypeOK, StepType, RecordMemWrite

LEMMA ExecuteTypes ==
    ASSUME ToolTypes, NEW c \in Cores, NEW a \in Addrs,
           ExecuteRead(c, a) \/ ExecuteWrite(c, a)
    PROVE  ToolTypes'
<1>1. TypeOK'
  BY DEF ToolTypes, ExecuteRead, ExecuteWrite, vars, TypeOK
<1>2. todo' \in [Cores -> Seq(StepType)]
  BY TakesType DEF ToolTypes, ExecuteRead, ExecuteWrite
<1>3. memory' \in [Addrs -> Elements] /\ stored' \in [Addrs -> Elements]
  BY DEF ToolTypes, PinTypeOK, ExecuteRead, ExecuteWrite
<1> QED
  BY <1>1, <1>2, <1>3
     DEF ToolTypes, PinTypeOK, StepType, ExecuteRead, ExecuteWrite

LEMMA ToolTypesHold == PinSpec => []ToolTypes
<1>1. PinInit => ToolTypes
  <2> SUFFICES ASSUME PinInit PROVE ToolTypes
    OBVIOUS
  <2>1. TypeOK
    BY InitTypes DEF PinInit
  <2>2. PinTypeOK
    BY DEF PinInit, PinTypeOK
  <2> QED
    BY <2>1, <2>2 DEF ToolTypes
<1>2. ToolTypes /\ [PinNext]_pinVars => ToolTypes'
  <2> SUFFICES ASSUME ToolTypes, [PinNext]_pinVars PROVE ToolTypes'
    OBVIOUS
  <2>1. CASE PinNext
    BY <2>1, RecordMemReadTypes, RecordMemReadAfterTypes,
       RecordMemWriteTypes, ExecuteTypes DEF PinNext
  <2>2. CASE UNCHANGED pinVars
    BY <2>2 DEF pinVars, toolVars, vars, ToolTypes, TypeOK, PinTypeOK
  <2> QED
    BY <2>1, <2>2
<1> QED
  BY <1>1, <1>2, PTL DEF PinSpec

(* Every variable of the tool keeps its type: a patch or a restore never   *)
(* leaves in an element what does not fit in it.                           *)
THEOREM PinTypeCorrect == PinSpec => []PinTypeOK
BY ToolTypesHold, PTL DEF ToolTypes

(* Whatever the threads do, the controller is called as its specification  *)
(* allows: what is proved of Spec holds under the tool.                    *)
THEOREM ToolDrivesController == PinSpec => Spec
<1>1. PinInit => Init
  BY DEF PinInit
<1>2. ToolTypes /\ [PinNext]_pinVars => [Next]_vars
  <2> SUFFICES ASSUME ToolTypes, [PinNext]_pinVars PROVE [Next]_vars
    OBVIOUS
  <2>1. \A c \in Cores, a \in Addrs : RecordMemRead(c, a) => Next
    BY DEF RecordMemRead, Next
  <2>2. \A c \in Cores, a \in Addrs : RecordMemWrite(c, a) => Next
    BY SafeCopyType DEF RecordMemWrite, Next, ToolTypes, PinTypeOK
  <2>3. \A c \in Cores, a \in Addrs :
          \/ RecordMemReadAfter(c, a)
          \/ ExecuteRead(c, a)
          \/ ExecuteWrite(c, a)
          => UNCHANGED vars
    BY DEF RecordMemReadAfter, ExecuteRead, ExecuteWrite
  <2>4. UNCHANGED pinVars => UNCHANGED vars
    BY DEF pinVars
  <2> QED
    BY <2>1, <2>2, <2>3, <2>4 DEF PinNext
<1> QED
  BY <1>1, <1>2, ToolTypesHold, PTL DEF PinSpec, Spec
-----------------------------------------------------------------------------
(* Only approximable elements are patched, and only they have an entry to  *)
(* restore.                                                                *)

Approximable(a) == memory_bound(a) /\ check_address(a)

PatchInv ==
    /\ PatchesOnlyApproximable
    /\ \A c \in Cores, a \in Addrs : reverts[c][a] # <<>> => Approximable(a)

(* The controller speculates on approximable addresses only.               *)
LEMMA SpeculatesOnApproximable ==
    ASSUME NEW c \in Cores, NEW a \in Addrs, cache_read(c, a),
           result'.speculated
    PROVE  check_address(a)
<1>1. CASE ReadVictimized(c, a)
  BY <1>1 DEF ReadVictimized, Returns
<1>2. CASE ReadHit(c, a) \/ ReadMiss(c, a)
  BY <1>2 DEF ReadHit, ReadMiss, Returns
<1>3. CASE ReadInvalid(c, a)
  BY <1>3 DEF ReadInvalid, Returns
<1>4. CASE ReadNotInSystem(c, a)
  BY <1>4 DEF ReadNotInSystem
<1> QED
  BY <1>1, <1>2, <1>3, <1>4 DEF cache_read

(* A step that touches memory at one approximable address, or writes there *)
(* what the program does, and leaves the other addresses alone.            *)
LEMMA PatchKeeps ==
    ASSUME PinTypeOK, PatchInv, NEW a \in Addrs, NEW word,
           \/ memory' = memory
           \/ memory' = Patched(a, word) /\ Approximable(a),
           stored' = stored
    PROVE  PatchesOnlyApproximable'
<1> SUFFICES ASSUME NEW b \in Addrs, memory'[b] # stored'[b]
             PROVE  Approximable(b)
  BY DEF PatchesOnlyApproximable, Approximable, memory_bound, check_address
<1>1. CASE memory'[b] = memory[b]
  BY <1>1 DEF PatchInv, PatchesOnlyApproximable, Approximable
<1>2. CASE memory'[b] # memory[b]
  BY <1>2 DEF Patched, PinTypeOK
<1> QED
  BY <1>1, <1>2

LEMMA PatchInvariant == PinSpec => []PatchInv
<1>1. PinInit => PatchInv
  BY DEF PinInit, PatchInv, PatchesOnlyApproximable
<1>2. ToolTypes /\ PatchInv /\ [PinNext]_pinVars => PatchInv'
  <2> SUFFICES ASSUME ToolTypes, PatchInv, [PinNext]_pinVars PROVE PatchInv'
    OBVIOUS
  <2>1. PinTypeOK /\ reverts \in [Cores -> [Addrs -> Seq(Data)]]
    BY DEF ToolTypes, PinTypeOK
  <2>2. ASSUME NEW c \in Cores, NEW a \in Addrs, RecordMemRead(c, a)
        PROVE  PatchInv'
    <3>1. CASE UNCHANGED <<memory, reverts>>
      BY <2>1, <2>2, <3>1
         DEF RecordMemRead, PatchInv, PatchesOnlyApproximable, Approximable,
             memory_bound, check_address
    <3>2. CASE /\ memory_bound(a)
               /\ result'.speculated
               /\ memory' = Patched(a, result'.invalid_data)
               /\ reverts' = [reverts EXCEPT ![c][a] =
                                  Append(@, result'.valid_data)]
      <4>1. Approximable(a)
        BY <2>2, <3>2, SpeculatesOnApproximable
           DEF RecordMemRead, Approximable
      <4>2. PatchesOnlyApproximable'
        BY <2>1, <2>2, <3>2, <4>1, PatchKeeps DEF RecordMemRead
      <4>3. \A d \in Cores, b \in Addrs :
              d # c \/ b # a => reverts'[d][b] = reverts[d][b]
        BY <2>1, <3>2
      <4> QED
        BY <4>1, <4>2, <4>3
           DEF PatchInv, Approximable, memory_bound, check_address
    <3> QED
      BY <2>2, <3>1, <3>2 DEF RecordMemRead
  <2>3. ASSUME NEW c \in Cores, NEW a \in Addrs, RecordMemReadAfter(c, a)
        PROVE  PatchInv'
    <3>1. CASE UNCHANGED <<memory, reverts>>
      BY <2>1, <2>3, <3>1
         DEF RecordMemReadAfter, PatchInv, PatchesOnlyApproximable,
             Approximable, memory_bound, check_address
    <3>2. CASE /\ reverts[c][a] # <<>>
               /\ memory' = Patched(a, Head(reverts[c][a]))
               /\ reverts' = [reverts EXCEPT ![c][a] = <<>>]
      <4>1. Approximable(a)
        BY <3>2 DEF PatchInv
      <4>2. PatchesOnlyApproximable'
        BY <2>1, <2>3, <3>2, <4>1, PatchKeeps DEF RecordMemReadAfter
      <4>3. \A d \in Cores, b \in Addrs :
              d # c \/ b # a => reverts'[d][b] = reverts[d][b]
        BY <2>1, <3>2
      <4> QED
        BY <4>1, <4>2, <4>3
           DEF PatchInv, Approximable, memory_bound, check_address
    <3> QED
      BY <2>3, <3>1, <3>2 DEF RecordMemReadAfter
  <2>4. ASSUME NEW c \in Cores, NEW a \in Addrs, ExecuteWrite(c, a)
        PROVE  PatchInv'
    <3>1. PICK x \in Elements : /\ memory' = [memory EXCEPT ![a] = x]
                                /\ stored' = [stored EXCEPT ![a] = x]
                                /\ reverts' = reverts
      BY <2>4 DEF ExecuteWrite
    <3>2. \A b \in Addrs : memory'[b] # stored'[b] => memory[b] # stored[b]
      BY <2>1, <3>1 DEF PinTypeOK
    <3> QED
      BY <3>1, <3>2 DEF PatchInv, PatchesOnlyApproximable, Approximable,
                        memory_bound, check_address
  <2>5. CASE UNCHANGED <<memory, stored, reverts>>
    BY <2>5 DEF PatchInv, PatchesOnlyApproximable, Approximable,
                memory_bound, check_address
  <2> QED
    BY <2>2, <2>3, <2>4, <2>5
       DEF PinNext, RecordMemWrite, ExecuteRead, pinVars, toolVars
<1> QED
  BY <1>1, <1>2, ToolTypesHold, PTL DEF PinSpec

(* Outside the approximable ranges the program's memory is always what the *)
(* program put there: no patch and no restore touches a neighbour.         *)
THEOREM PatchesOnlyApproximableHolds == PinSpec => []PatchesOnlyApproximable
BY PatchInvariant, PTL DEF PatchInv

(* A tool whose patched range holds no address of the controller's         *)
(* approximable range, as falseSharing.cpp's, never changes what the       *)
(* program sees.                                                           *)
THEOREM TransparentHolds ==
    ASSUME \A a \in Addrs : ~(memory_bound(a) /\ check_address(a))
    PROVE  PinSpec => []Transparent
<1>1. ToolTypes /\ PatchInv => Transparent
  <2> SUFFICES ASSUME ToolTypes, PatchInv PROVE memory = stored
    BY DEF Transparent
  <2>1. \A a \in Addrs : memory[a] = stored[a]
    BY DEF PatchInv, PatchesOnlyApproximable
  <2> QED
    BY <2>1 DEF ToolTypes, PinTypeOK
<1> QED
  BY <1>1, ToolTypesHold, PatchInvariant, PTL
-----------------------------------------------------------------------------
(* Where no instruction reads two operands, a core has at most the read    *)
(* under way to restore.                                                   *)

(* What is left of an instruction that has not called RecordMemRead, or    *)
(* never does, and of one that has called it for the element at a.         *)
Unread ==
    {<<>>} \union {<<Step("write", b)>> : b \in Addrs}
    \union {<<Step("RecordMemRead", a), Step("write", b),
              Step("RecordMemReadAfter", a)>> : a \in Addrs, b \in Addrs}

Reading(a) ==
    {<<Step("read", a), Step("RecordMemReadAfter", a)>>,
     <<Step("RecordMemReadAfter", a)>>}
    \union {<<Step("RecordMemWrite", b), Step("write", b),
              Step("RecordMemReadAfter", a)>> : b \in Addrs}
    \union {<<Step("write", b), Step("RecordMemReadAfter", a)>> : b \in Addrs}

Idle(c) ==
    /\ todo[c] \in Unread
    /\ ~speculated[c]
    /\ \A a \in Addrs : reverts[c][a] = <<>>

Restoring(c, a) ==
    /\ todo[c] \in Reading(a)
    /\ speculated[c] <=> reverts[c][a] # <<>>
    /\ reverts[c][a] # <<>> => memory_bound(a) /\ Len(reverts[c][a]) = 1
    /\ \A b \in Addrs \ {a} : reverts[c][b] = <<>>

RestoreInv == \A c \in Cores : Idle(c) \/ \E a \in Addrs : Restoring(c, a)

OtherSteps == {"read", "write", "RecordMemWrite"}

LEMMA StepParts ==
    \A x, y, a, b : Step(x, a) = Step(y, b) => x = y /\ a = b
BY DEF Step

(* The first step of what reads nothing so far starts the read, or reads   *)
(* nothing either.                                                         *)
LEMMA UnreadGoesOn ==
    ASSUME "compare" \notin Kinds, NEW i,
           i \in Instructions \/ (i \in Unread /\ i # <<>>)
    PROVE  \/ \E a \in Addrs : /\ Head(i) = Step("RecordMemRead", a)
                              /\ Tail(i) \in Reading(a)
           \/ \E a \in Addrs, do \in OtherSteps :
                 Head(i) = Step(do, a) /\ Tail(i) \in Unread
<1>1. CASE \E a \in Addrs : i = Load(a)
  BY <1>1 DEF Load, Reading
<1>2. CASE \E a \in Addrs : i = Store(a)
  BY <1>2 DEF Store, Unread, OtherSteps
<1>3. CASE \E a \in Addrs : i = Update(a)
  BY <1>3 DEF Update, Reading
<1>4. CASE \E a \in Addrs, b \in Addrs : i = Push(a, b)
  BY <1>4 DEF Push, Reading
<1>5. CASE \E a \in Addrs, b \in Addrs : i = Movs(a, b)
  BY <1>5 DEF Movs, Unread, OtherSteps
<1>6. CASE \E b \in Addrs : i = <<Step("write", b)>>
  BY <1>6 DEF Unread, OtherSteps
<1>7. CASE \E a \in Addrs, b \in Addrs :
             i = <<Step("RecordMemRead", a), Step("write", b),
                   Step("RecordMemReadAfter", a)>>
  BY <1>7 DEF Reading
<1>8. CASE i \in Instructions
  BY <1>8, <1>1, <1>2, <1>3, <1>4, <1>5 DEF Instructions
<1>9. CASE i \in Unread /\ i # <<>>
  BY <1>9, <1>6, <1>7 DEF Unread
<1> QED
  BY <1>8, <1>9

(* What has read the element at a ends in the call that restores it.       *)
LEMMA ReadingGoesOn ==
    ASSUME NEW a \in Addrs, NEW i \in Reading(a)
    PROVE  /\ i # <<>>
           /\ \/ Head(i) = Step("RecordMemReadAfter", a) /\ Tail(i) = <<>>
              \/ \E b \in Addrs, do \in OtherSteps :
                    Head(i) = Step(do, b) /\ Tail(i) \in Reading(a)
<1>1. CASE i = <<Step("read", a), Step("RecordMemReadAfter", a)>>
  BY <1>1 DEF Reading, OtherSteps
<1>2. CASE i = <<Step("RecordMemReadAfter", a)>>
  BY <1>2
<1>3. CASE \E b \in Addrs : i = <<Step("RecordMemWrite", b), Step("write", b),
                                Step("RecordMemReadAfter", a)>>
  BY <1>3 DEF Reading, OtherSteps
<1>4. CASE \E b \in Addrs : i = <<Step("write", b),
                                Step("RecordMemReadAfter", a)>>
  BY <1>4 DEF Reading, OtherSteps
<1> QED
  BY <1>1, <1>2, <1>3, <1>4 DEF Reading

(* What a thread that takes a step was doing, and what it does next.       *)
LEMMA Continues ==
    ASSUME "compare" \notin Kinds, NEW c \in Cores, NEW a \in Addrs, NEW do,
           todo \in [Cores -> Seq(StepType)],
           Idle(c) \/ \E b \in Addrs : Restoring(c, b),
           Takes(c, do, a)
    PROVE  \/ /\ do = "RecordMemRead"
              /\ Idle(c) /\ todo'[c] \in Reading(a)
           \/ /\ do = "RecordMemReadAfter"
              /\ Restoring(c, a) /\ todo'[c] = <<>>
           \/ /\ do \in OtherSteps
              /\ \/ Idle(c) /\ todo'[c] \in Unread
                 \/ \E b \in Addrs : Restoring(c, b) /\ todo'[c] \in Reading(b)
<1>1. PICK i \in (IF todo[c] = <<>> THEN Instructions ELSE {todo[c]}) :
        /\ Head(i) = Step(do, a)
        /\ todo'[c] = Tail(i)
  BY DEF Takes
<1>2. CASE Idle(c)
  <2>1. i \in Instructions \/ (i \in Unread /\ i # <<>>)
    BY <1>1, <1>2 DEF Idle
  <2>2. CASE \E b \in Addrs : /\ Head(i) = Step("RecordMemRead", b)
                             /\ Tail(i) \in Reading(b)
    <3>1. PICK b \in Addrs : /\ Head(i) = Step("RecordMemRead", b)
                             /\ Tail(i) \in Reading(b)
      BY <2>2
    <3>2. do = "RecordMemRead" /\ b = a
      BY <1>1, <3>1, StepParts
    <3> QED
      BY <1>1, <1>2, <3>1, <3>2
  <2>3. CASE \E b \in Addrs, x \in OtherSteps :
               Head(i) = Step(x, b) /\ Tail(i) \in Unread
    <3>1. PICK b \in Addrs, x \in OtherSteps :
            Head(i) = Step(x, b) /\ Tail(i) \in Unread
      BY <2>3
    <3>2. do = x
      BY <1>1, <3>1, StepParts
    <3> QED
      BY <1>1, <1>2, <3>1, <3>2
  <2> QED
    BY <2>1, <2>2, <2>3, UnreadGoesOn
<1>3. ASSUME NEW r \in Addrs, Restoring(c, r)
      PROVE  \/ /\ do = "RecordMemReadAfter"
                /\ Restoring(c, a) /\ todo'[c] = <<>>
             \/ /\ do \in OtherSteps
                /\ Restoring(c, r) /\ todo'[c] \in Reading(r)
  <2>1. todo[c] \in Reading(r)
    BY <1>3 DEF Restoring
  <2>2. i = todo[c] /\ i \in Reading(r)
    BY <1>1, <2>1, ReadingGoesOn
  <2>3. CASE Head(i) = Step("RecordMemReadAfter", r) /\ Tail(i) = <<>>
    <3>1. do = "RecordMemReadAfter" /\ r = a
      BY <1>1, <2>3, StepParts
    <3> QED
      BY <1>1, <1>3, <2>3, <3>1
  <2>4. CASE \E b \in Addrs, x \in OtherSteps :
               Head(i) = Step(x, b) /\ Tail(i) \in Reading(r)
    <3>1. PICK b \in Addrs, x \in OtherSteps :
            Head(i) = Step(x, b) /\ Tail(i) \in Reading(r)
      BY <2>4
    <3>2. do = x
      BY <1>1, <3>1, StepParts
    <3> QED
      BY <1>1, <1>3, <3>1, <3>2
  <2> QED
    BY <2>2, <2>3, <2>4, ReadingGoesOn
<1> QED
  BY <1>2, <1>3

(* Steps of one core leave the other cores as they were.                   *)
LEMMA OthersUndisturbed ==
    ASSUME PinTypeOK, NEW c \in Cores, NEW a \in Addrs, NEW do,
           Takes(c, do, a),
           NEW d \in Cores, d # c,
           speculated'[d] = speculated[d], reverts'[d] = reverts[d],
           Idle(d) \/ \E b \in Addrs : Restoring(d, b)
    PROVE  Idle(d)' \/ \E b \in Addrs : Restoring(d, b)'
<1>1. todo'[d] = todo[d]
  BY DEF Takes, PinTypeOK
<1> QED
  BY <1>1 DEF Idle, Unread, Restoring, memory_bound, Reading, Step

(* A read finds the core with nothing to restore.                          *)
LEMMA ReadRestores ==
    ASSUME "compare" \notin Kinds, PinTypeOK, RestoreInv,
           NEW c \in Cores, NEW a \in Addrs, RecordMemRead(c, a)
    PROVE  Restoring(c, a)'
<1>1. /\ todo \in [Cores -> Seq(StepType)]
      /\ speculated \in [Cores -> BOOLEAN]
      /\ reverts \in [Cores -> [Addrs -> Seq(Data)]]
  BY DEF PinTypeOK, StepType
<1>2. Takes(c, "RecordMemRead", a)
  BY DEF RecordMemRead
<1>3. Idle(c) /\ todo'[c] \in Reading(a)
  <2>1. Idle(c) \/ \E b \in Addrs : Restoring(c, b)
    BY DEF RestoreInv
  <2>2. "RecordMemRead" # "RecordMemReadAfter"
        /\ "RecordMemRead" \notin OtherSteps
    BY DEF OtherSteps
  <2> QED
    BY <1>1, <1>2, <2>1, <2>2, Continues, Zenon
<1>4. todo'[c] \in Reading(a)
  BY <1>3
<1>5. ~speculated[c] /\ \A b \in Addrs : reverts[c][b] = <<>>
  BY <1>3 DEF Idle
<1>6. CASE UNCHANGED <<speculated, reverts>>
  BY <1>4, <1>5, <1>6 DEF Restoring, Reading, Step
<1>7. CASE /\ memory_bound(a)
           /\ speculated' = [speculated EXCEPT ![c] = TRUE]
           /\ reverts' = [reverts EXCEPT ![c][a] =
                              Append(@, result'.valid_data)]
  <2>1. speculated'[c]
    BY <1>1, <1>7
  <2>2. reverts'[c][a] = <<result'.valid_data>>
    <3>1. reverts'[c][a] = Append(reverts[c][a], result'.valid_data)
      BY <1>1, <1>7
    <3>2. reverts[c][a] = <<>>
      BY <1>5
    <3> QED
      BY <3>1, <3>2
  <2>3. \A b \in Addrs \ {a} : reverts'[c][b] = <<>>
    BY <1>1, <1>5, <1>7
  <2>4. reverts'[c][a] # <<>> /\ Len(reverts'[c][a]) = 1
    BY <2>2
  <2> QED
    BY <1>4, <1>7, <2>1, <2>3, <2>4
       DEF Restoring, Reading, Step, memory_bound
<1> QED
  BY <1>6, <1>7 DEF RecordMemRead

(* The call after the read restores it, and ends the instruction.          *)
LEMMA ReadAfterRestores ==
    ASSUME "compare" \notin Kinds, PinTypeOK, RestoreInv,
           NEW c \in Cores, NEW a \in Addrs, RecordMemReadAfter(c, a)
    PROVE  Idle(c)'
<1>1. /\ todo \in [Cores -> Seq(StepType)]
      /\ speculated \in [Cores -> BOOLEAN]
      /\ reverts \in [Cores -> [Addrs -> Seq(Data)]]
  BY DEF PinTypeOK, StepType
<1>2. Takes(c, "RecordMemReadAfter", a)
  BY DEF RecordMemReadAfter
<1>3. Restoring(c, a) /\ todo'[c] = <<>>
  <2>1. Idle(c) \/ \E b \in Addrs : Restoring(c, b)
    BY DEF RestoreInv
  <2>2. "RecordMemReadAfter" # "RecordMemRead"
        /\ "RecordMemReadAfter" \notin OtherSteps
    BY DEF OtherSteps
  <2> QED
    BY <1>1, <1>2, <2>1, <2>2, Continues, Zenon
<1>4. Restoring(c, a) /\ todo'[c] \in Unread
  BY <1>3 DEF Unread
<1>5. CASE reverts[c][a] # <<>>
  <2>1. speculated[c] /\ memory_bound(a)
    BY <1>4, <1>5 DEF Restoring
  <2>2. /\ reverts' = [reverts EXCEPT ![c][a] = <<>>]
        /\ speculated' = [speculated EXCEPT ![c] = FALSE]
    BY <1>5, <2>1 DEF RecordMemReadAfter
  <2>3. \A d \in Addrs : reverts'[c][d] = <<>>
    BY <1>1, <1>4, <2>2 DEF Restoring
  <2> QED
    BY <1>1, <1>4, <2>2, <2>3 DEF Idle
<1>6. CASE reverts[c][a] = <<>>
  <2>1. UNCHANGED <<reverts, speculated>>
    BY <1>6 DEF RecordMemReadAfter
  <2> QED
    BY <1>4, <1>6, <2>1 DEF Idle, Restoring
<1> QED
  BY <1>5, <1>6

(* A write, the call before it or the instruction itself, leaves what is   *)
(* to restore as it was; so does the instruction's read.                   *)
LEMMA WriteRestores ==
    ASSUME "compare" \notin Kinds, PinTypeOK, RestoreInv,
           NEW c \in Cores, NEW a \in Addrs,
           \/ Takes(c, "RecordMemWrite", a)
           \/ Takes(c, "read", a)
           \/ Takes(c, "write", a),
           UNCHANGED <<speculated, reverts>>
    PROVE  Idle(c)' \/ \E b \in Addrs : Restoring(c, b)'
<1>1. todo \in [Cores -> Seq(StepType)]
  BY DEF PinTypeOK, StepType
<1>2. \/ Idle(c) /\ todo'[c] \in Unread
      \/ \E b \in Addrs : Restoring(c, b) /\ todo'[c] \in Reading(b)
  BY <1>1, Continues DEF RestoreInv, OtherSteps
<1>3. CASE Idle(c) /\ todo'[c] \in Unread
  BY <1>3 DEF Idle, Unread, Step
<1>4. ASSUME NEW b \in Addrs, Restoring(c, b), todo'[c] \in Reading(b)
      PROVE  Restoring(c, b)'
  BY <1>4 DEF Restoring, Reading, Step, memory_bound
<1> QED
  BY <1>2, <1>3, <1>4

(* Whatever its threads do, a core without two-operand reads has at most   *)
(* the read under way to restore, and the call that restores it is still   *)
(* to come: one flag per core is then enough.                              *)
THEOREM RevertsPendingHolds ==
    ASSUME "compare" \notin Kinds
    PROVE  PinSpec => []RevertsPending
<1>1. PinInit => RestoreInv
  BY DEF PinInit, RestoreInv, Idle, Unread
<1>2. ToolTypes /\ RestoreInv /\ [PinNext]_pinVars => RestoreInv'
  <2> SUFFICES ASSUME ToolTypes, RestoreInv, [PinNext]_pinVars
               PROVE  RestoreInv'
    OBVIOUS
  <2>1. PinTypeOK
    BY DEF ToolTypes
  <2>2. ASSUME NEW c \in Cores, NEW a \in Addrs, NEW do, Takes(c, do, a),
               \A d \in Cores \ {c} : /\ speculated'[d] = speculated[d]
                                      /\ reverts'[d] = reverts[d],
               Idle(c)' \/ \E b \in Addrs : Restoring(c, b)'
        PROVE  RestoreInv'
    <3> SUFFICES ASSUME NEW d \in Cores
                 PROVE  Idle(d)' \/ \E b \in Addrs : Restoring(d, b)'
      BY DEF RestoreInv
    <3>1. CASE d = c
      BY <2>2, <3>1
    <3>2. CASE d # c
      <4>1. Idle(d) \/ \E b \in Addrs : Restoring(d, b)
        BY DEF RestoreInv
      <4>2. speculated'[d] = speculated[d] /\ reverts'[d] = reverts[d]
        BY <2>2, <3>2
      <4> QED
        BY <2>1, <2>2, <3>2, <4>1, <4>2, OthersUndisturbed
    <3> QED
      BY <3>1, <3>2
  <2>3. ASSUME NEW c \in Cores, NEW a \in Addrs, RecordMemRead(c, a)
        PROVE  RestoreInv'
    <3>1. \A d \in Cores \ {c} : /\ speculated'[d] = speculated[d]
                                 /\ reverts'[d] = reverts[d]
      BY <2>1, <2>3 DEF RecordMemRead, PinTypeOK
    <3> QED
      BY <2>1, <2>2, <2>3, <3>1, ReadRestores DEF RecordMemRead
  <2>4. ASSUME NEW c \in Cores, NEW a \in Addrs, RecordMemReadAfter(c, a)
        PROVE  RestoreInv'
    <3>1. \A d \in Cores \ {c} : /\ speculated'[d] = speculated[d]
                                 /\ reverts'[d] = reverts[d]
      BY <2>1, <2>4 DEF RecordMemReadAfter, PinTypeOK
    <3> QED
      BY <2>1, <2>2, <2>4, <3>1, ReadAfterRestores DEF RecordMemReadAfter
  <2>5. ASSUME NEW c \in Cores, NEW a \in Addrs,
               \/ RecordMemWrite(c, a)
               \/ ExecuteRead(c, a)
               \/ ExecuteWrite(c, a)
        PROVE  RestoreInv'
    <3>1. /\ UNCHANGED <<speculated, reverts>>
          /\ \/ Takes(c, "RecordMemWrite", a)
             \/ Takes(c, "read", a)
             \/ Takes(c, "write", a)
      BY <2>5 DEF RecordMemWrite, ExecuteRead, ExecuteWrite
    <3>2. Idle(c)' \/ \E b \in Addrs : Restoring(c, b)'
      BY <2>1, <3>1, WriteRestores
    <3> QED
      BY <2>2, <3>1, <3>2
  <2>6. CASE UNCHANGED toolVars
    <3>1. todo' = todo /\ speculated' = speculated /\ reverts' = reverts
      BY <2>6 DEF toolVars
    <3>2. ASSUME NEW d \in Cores
          PROVE  Idle(d)' \/ \E b \in Addrs : Restoring(d, b)'
      <4>1. CASE Idle(d)
        BY <3>1, <4>1 DEF Idle, Unread, Step
      <4>2. CASE \E b \in Addrs : Restoring(d, b)
        BY <3>1, <4>2 DEF Restoring, Reading, Step, memory_bound
      <4> QED
        BY <4>1, <4>2 DEF RestoreInv
    <3> QED
      BY <3>2 DEF RestoreInv
  <2> QED
    BY <2>3, <2>4, <2>5, <2>6 DEF PinNext, pinVars
<1>3. RestoreInv => RevertsPending
  <2> SUFFICES ASSUME RestoreInv, NEW c \in Cores,
                      NEW pending, pending = {a \in Addrs : reverts[c][a] # <<>>}
               PROVE  /\ speculated[c] <=> pending # {}
                      /\ \A a \in pending :
                            /\ pending = {a}
                            /\ Len(reverts[c][a]) = 1
                            /\ \E i \in DOMAIN todo[c] :
                                  todo[c][i] = Step("RecordMemReadAfter", a)
    BY DEF RevertsPending
  <2>1. CASE Idle(c)
    BY <2>1 DEF Idle
  <2>2. CASE \E a \in Addrs : Restoring(c, a)
    <3>1. PICK a \in Addrs : Restoring(c, a)
      BY <2>2
    <3>2. pending \subseteq {a} /\ (pending # {} <=> reverts[c][a] # <<>>)
      BY <3>1 DEF Restoring
    <3>3. \E i \in DOMAIN todo[c] : todo[c][i] = Step("RecordMemReadAfter", a)
      <4>1. todo[c] \in Reading(a)
        BY <3>1 DEF Restoring
      <4> QED
        BY <4>1 DEF Reading
    <3> QED
      BY <3>1, <3>2, <3>3 DEF Restoring
  <2> QED
    BY <2>1, <2>2 DEF RestoreInv
<1> QED
  BY <1>1, <1>2, <1>3, ToolTypesHold, PTL DEF PinSpec
=============================================================================
