------------------------------ MODULE PinTool ------------------------------
(***************************************************************************)
(* The Pin tools of source/tools/18742 around the cache controller:        *)
(* testpin.cpp for the matrix program and falseSharing.cpp for the sum     *)
(* program, which differ only in the constants below.  Each instruction    *)
(* of an instrumented thread runs between calls of the tool:               *)
(* RecordMemRead before a read, which may patch the program's memory with  *)
(* the stale word of a victimized line, RecordMemReadAfter after it, which *)
(* restores the memory, and RecordMemWrite before a write.  Each call runs *)
(* under pinLock, but the lock is not held from one call to the next, nor  *)
(* while the instruction itself runs.                                      *)
(*                                                                         *)
(* Pin's threads 0 and 1 are not instrumented; thread tid is core tid - 2. *)
(***************************************************************************)
EXTENDS CacheSystem, Sequences

CONSTANTS
    element_size,   \* bytes of an array element: 4 (int) or 8 (unsigned long)
    Base,           \* elements hold 0 .. Base - 1
    bounds,         \* pairs <<start, end>>: what memory_bound accepts
    Kinds           \* the instructions the program is made of

ASSUME ElementAssumption ==
    element_size \in {4, 8} /\ \A a \in Addrs : a % element_size = 0
ASSUME BaseAssumption == Base \in Nat \ {0}
ASSUME BoundsAssumption == \A r \in bounds : r[1] \in Nat /\ r[2] \in Nat
ASSUME KindsAssumption ==
    Kinds \subseteq {"load", "store", "update", "move", "compare"}

Elements == 0 .. Base - 1

VARIABLES
    memory,         \* memory[a]: the program's element at address a
    stored,         \* stored[a]: what the program itself last put there
    todo,           \* todo[c]: what is left of the thread's instruction
    speculated,     \* speculated[c]: the core has a read to restore
    reverts         \* reverts[c][a]: the words of revert_vector's entries
                    \* for core c and address a, oldest first

toolVars == <<memory, stored, todo, speculated, reverts>>
pinVars == <<vars, toolVars>>

memory_bound(a) == \E r \in bounds : r[1] <= a /\ a < r[2]

(* The 8 bytes PIN_SafeCopy finds at a: for 4-byte elements, the element   *)
(* and the next one.  What lies past the program's elements is zero.       *)
SafeCopy(a) ==
    IF element_size = 8 THEN memory[a]
    ELSE memory[a] + Base * (IF a + 4 \in Addrs THEN memory[a + 4] ELSE 0)

ASSUME WordsAssumption ==
    /\ Elements \subseteq Values
    /\ element_size = 4 =>
          \A x, y \in Elements : x + Base * y \in Values

(* Faults: the word is not cut to the element's size; it is assigned       *)
(* through a pointer to long, next element included.                       *)
Patched_Uncut(a, word) == [memory EXCEPT ![a] = word]
Patched_Long(a, word) ==
    [b \in Addrs |->
        IF b = a THEN word % Base
        ELSE IF b = a + 4 THEN (word \div Base) % Base ELSE memory[b]]

(* memory after a word was assigned to the element at a, cut to its size.  *)
Patched(a, word) == [memory EXCEPT ![a] = word % Base]

-----------------------------------------------------------------------------
(* What happens, in order, when an instruction that reads or writes the    *)
(* elements at these addresses runs: all calls before it, operand by       *)
(* operand, the instruction, and the calls after it.                       *)
Step(do, a) == [do |-> do, at |-> a]

Load(a) == <<Step("RecordMemRead", a), Step("read", a),
             Step("RecordMemReadAfter", a)>>
Store(a) == <<Step("RecordMemWrite", a), Step("write", a)>>
Update(a) == <<Step("RecordMemRead", a), Step("RecordMemWrite", a),
               Step("write", a), Step("RecordMemReadAfter", a)>>
(* From one operand to another, whichever of the two comes first.          *)
Push(a, b) == <<Step("RecordMemRead", a), Step("RecordMemWrite", b),
                Step("write", b), Step("RecordMemReadAfter", a)>>
Movs(a, b) == <<Step("RecordMemWrite", b), Step("RecordMemRead", a),
                Step("write", b), Step("RecordMemReadAfter", a)>>
Compare(a, b) == <<Step("RecordMemRead", a), Step("RecordMemRead", b),
                   Step("read", a), Step("RecordMemReadAfter", a),
                   Step("RecordMemReadAfter", b)>>

Instructions ==
    (IF "load" \in Kinds THEN {Load(a) : a \in Addrs} ELSE {})
    \union (IF "store" \in Kinds THEN {Store(a) : a \in Addrs} ELSE {})
    \union (IF "update" \in Kinds THEN {Update(a) : a \in Addrs} ELSE {})
    \union (IF "move" \in Kinds
            THEN {Push(a, b) : a \in Addrs, b \in Addrs}
                 \union {Movs(a, b) : a \in Addrs, b \in Addrs} ELSE {})
    \union (IF "compare" \in Kinds
            THEN {Compare(a, b) : a \in Addrs, b \in Addrs} ELSE {})

(* The thread's next step is this one: of the instruction it is in, or the *)
(* first of whichever instruction it comes to.                             *)
Takes(c, do, a) ==
    \E i \in (IF todo[c] = <<>> THEN Instructions ELSE {todo[c]}) :
        /\ Head(i) = Step(do, a)
        /\ todo' = [todo EXCEPT ![c] = Tail(i)]

-----------------------------------------------------------------------------
PinInit ==
    /\ Init
    /\ memory \in [Addrs -> Elements]
    /\ stored = memory
    /\ todo = [c \in Cores |-> <<>>]
    /\ speculated = [c \in Cores |-> FALSE]
    /\ reverts = [c \in Cores |-> [a \in Addrs |-> <<>>]]

(* A speculated read of a word that differs from the valid one puts it in  *)
(* the program's memory, and the valid one in the revert list.             *)
RecordMemRead(c, a) ==
    /\ Takes(c, "RecordMemRead", a)
    /\ cache_read(c, a)
    /\ IF /\ memory_bound(a)
          /\ result'.speculated
          /\ result'.valid_data # result'.invalid_data
       THEN /\ memory' = Patched(a, result'.invalid_data)
            /\ reverts' = [reverts EXCEPT ![c][a] =
                                Append(@, result'.valid_data)]
            /\ speculated' = [speculated EXCEPT ![c] = TRUE]
       ELSE UNCHANGED <<memory, reverts, speculated>>
    /\ UNCHANGED stored

(* Fault: the core's flag stays up after the restore.                      *)
RecordMemReadAfter_FlagStays(c, a) ==
    /\ Takes(c, "RecordMemReadAfter", a)
    /\ IF speculated[c] /\ memory_bound(a) /\ reverts[c][a] # <<>>
       THEN /\ memory' = Patched(a, Head(reverts[c][a]))
            /\ reverts' = [reverts EXCEPT ![c][a] = <<>>]
       ELSE UNCHANGED <<memory, reverts>>
    /\ UNCHANGED <<vars, stored, speculated>>

(* The revert list is walked from its end: every entry of this core and    *)
(* address is stored and erased, so that the oldest one prevails.          *)
RecordMemReadAfter(c, a) ==
    /\ Takes(c, "RecordMemReadAfter", a)
    /\ IF speculated[c] /\ memory_bound(a) /\ reverts[c][a] # <<>>
       THEN /\ memory' = Patched(a, Head(reverts[c][a]))
            /\ reverts' = [reverts EXCEPT ![c][a] = <<>>]
            /\ speculated' = [speculated EXCEPT ![c] = FALSE]
       ELSE UNCHANGED <<memory, reverts, speculated>>
    /\ UNCHANGED <<vars, stored>>

(* Called before the write: the word recorded is the one it will replace.  *)
RecordMemWrite(c, a) ==
    /\ Takes(c, "RecordMemWrite", a)
    /\ cache_write(c, a, SafeCopy(a))
    /\ UNCHANGED <<memory, stored, speculated, reverts>>

(* The instruction itself.                                                 *)
ExecuteRead(c, a) ==
    /\ Takes(c, "read", a)
    /\ UNCHANGED <<vars, memory, stored, speculated, reverts>>

ExecuteWrite(c, a) ==
    /\ Takes(c, "write", a)
    /\ \E x \in Elements :
          /\ memory' = [memory EXCEPT ![a] = x]
          /\ stored' = [stored EXCEPT ![a] = x]
    /\ UNCHANGED <<vars, speculated, reverts>>

PinNext ==
    \E c \in Cores, a \in Addrs :
        \/ RecordMemRead(c, a)
        \/ RecordMemReadAfter(c, a)
        \/ RecordMemWrite(c, a)
        \/ ExecuteRead(c, a)
        \/ ExecuteWrite(c, a)

PinSpec == PinInit /\ [][PinNext]_pinVars

-----------------------------------------------------------------------------
(* What the program can rely on.                                           *)

PinTypeOK ==
    /\ memory \in [Addrs -> Elements]
    /\ stored \in [Addrs -> Elements]
    /\ todo \in [Cores -> Seq([do : {"RecordMemRead", "RecordMemReadAfter",
                                     "RecordMemWrite", "read", "write"},
                               at : Addrs])]
    /\ speculated \in [Cores -> BOOLEAN]
    /\ reverts \in [Cores -> [Addrs -> Seq(Data)]]

(* Outside the approximable arrays the program's memory is always what the *)
(* program put there, whatever its threads and the tool's callbacks do:    *)
(* in particular the elements that share a cache word, or a line, with an  *)
(* approximable one.                                                       *)
PatchesOnlyApproximable ==
    \A a \in Addrs :
        memory[a] # stored[a] => memory_bound(a) /\ check_address(a)

(* Where the tool patches only what the controller never victimizes, it    *)
(* is transparent: falseSharing.cpp passes psum to the controller and      *)
(* bounds its patches to sum.                                              *)
Transparent == memory = stored

(* Between its instructions a core has nothing left to restore, and within *)
(* one at most the read under way: one flag per core is enough for         *)
(* instructions that read one operand.                                     *)
RevertsPending ==
    \A c \in Cores :
        LET pending == {a \in Addrs : reverts[c][a] # <<>>} IN
        /\ speculated[c] <=> pending # {}
        /\ \A a \in pending :
              /\ pending = {a}
              /\ Len(reverts[c][a]) = 1
              /\ \E i \in DOMAIN todo[c] :
                    todo[c][i] = Step("RecordMemReadAfter", a)

(* testpin.cpp:147-148: the revert stores the "old memory value": when all *)
(* threads are between instructions memory is what the program put there.  *)
RevertRestoresMemory ==
    (\A c \in Cores : todo[c] = <<>>) => memory = stored

(* testpin.cpp:274-275: the cache is written "after write occurs", "to     *)
(* pull the real written value": once a write has run, the LLC has it.     *)
CacheHasWrittenValue ==
    [][\A c \in Cores, a \in Addrs :
          ExecuteWrite(c, a) => llc'[LineOf(a)][WordOf(a)] = SafeCopy(a)']_pinVars
=============================================================================
