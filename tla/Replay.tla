------------------------------- MODULE Replay -------------------------------
(***************************************************************************)
(* The recorder of cache_system.h: fake_read and fake_write put an         *)
(* instruction on its core's list, and print_parallel_stats feeds the      *)
(* lists to the controller round robin before it prints the statistics.    *)
(* The replay loop counts down total_instr, which the controller's own     *)
(* calls also advance.                                                     *)
(***************************************************************************)
EXTENDS CacheSystem, Sequences

VARIABLES
    instruction_map,    \* instruction_map[c]: what core c recorded
    replaying,          \* print_parallel_stats is in its loop
    indexes,            \* indexes[c]: instructions of core c replayed
    counter,            \* whose turn it is
    finished_instr      \* turns the loop believes are left

replayVars == <<instruction_map, replaying, indexes, counter, finished_instr>>
allVars == <<vars, replayVars>>

Instr == [read : BOOLEAN, addr : Addrs, data : Data]

ReplayInit ==
    /\ Init
    /\ instruction_map = [c \in Cores |-> <<>>]
    /\ replaying = FALSE
    /\ indexes = [c \in Cores |-> 0]
    /\ counter = 0
    /\ finished_instr = 0

(* Fault: the instruction is recorded and not counted.                     *)
Record_Uncounted(c, instr) ==
    /\ ~replaying
    /\ instruction_map' =
          [instruction_map EXCEPT ![c] = Append(instruction_map[c], instr)]
    /\ UNCHANGED <<total_instr, global_time, protocolVars, statVars, result>>
    /\ UNCHANGED <<replaying, indexes, counter, finished_instr>>

(* What fake_read and fake_write share.                                    *)
Record(c, instr) ==
    /\ ~replaying
    /\ instruction_map' =
          [instruction_map EXCEPT ![c] = Append(instruction_map[c], instr)]
    /\ total_instr' = total_instr + 1
    /\ UNCHANGED <<global_time, protocolVars, statVars, result>>
    /\ UNCHANGED <<replaying, indexes, counter, finished_instr>>

fake_read(c, a) == Record(c, [read |-> TRUE, addr |-> a, data |-> 0])

fake_write(c, a, v) == Record(c, [read |-> FALSE, addr |-> a, data |-> v])

(* A call of the controller that is not recorded, as the tools make them.  *)
Direct(c, a) ==
    /\ ~replaying
    /\ cache_read(c, a) \/ \E v \in Values : cache_write(c, a, v)
    /\ UNCHANGED replayVars

-----------------------------------------------------------------------------
(* print_parallel_stats                                                    *)

Start ==
    /\ ~replaying
    /\ replaying' = TRUE
    /\ finished_instr' = total_instr
    /\ counter' = 0
    /\ indexes' = [c \in Cores |-> 0]
    /\ UNCHANGED <<vars, instruction_map>>

(* Only counter % num_cores is ever looked at.                             *)
NextTurn == (counter + 1) % num_cores

Exhausted(c) == Len(instruction_map[c]) <= indexes[c]

(* Faults: the turn does not pass on; an index runs past the list.         *)
Skip_SameTurn ==
    /\ replaying
    /\ finished_instr > 0
    /\ Exhausted(counter)
    /\ UNCHANGED allVars
Skip_Advances ==
    /\ replaying
    /\ finished_instr > 0
    /\ Exhausted(counter)
    /\ counter' = NextTurn
    /\ indexes' = [indexes EXCEPT ![counter] = @ + 1]
    /\ UNCHANGED <<vars, instruction_map, replaying, finished_instr>>

(* A core with nothing left loses its turn.                                *)
Skip ==
    /\ replaying
    /\ finished_instr > 0
    /\ Exhausted(counter)
    /\ counter' = NextTurn
    /\ UNCHANGED <<vars, instruction_map, replaying, indexes, finished_instr>>

(* Fault: a core keeps its turn until it has nothing left.                 *)
Replayed_SameTurn ==
    /\ replaying
    /\ finished_instr > 0
    /\ ~Exhausted(counter)
    /\ LET instr == instruction_map[counter][indexes[counter] + 1] IN
          IF instr.read THEN cache_read(counter, instr.addr)
          ELSE cache_write(counter, instr.addr, instr.data)
    /\ indexes' = [indexes EXCEPT ![counter] = @ + 1]
    /\ finished_instr' = finished_instr - 1
    /\ UNCHANGED <<instruction_map, replaying, counter>>

(* The next instruction of the core whose turn it is goes to the           *)
(* controller.                                                             *)
Replayed ==
    /\ replaying
    /\ finished_instr > 0
    /\ ~Exhausted(counter)
    /\ LET instr == instruction_map[counter][indexes[counter] + 1] IN
          IF instr.read THEN cache_read(counter, instr.addr)
          ELSE cache_write(counter, instr.addr, instr.data)
    /\ indexes' = [indexes EXCEPT ![counter] = @ + 1]
    /\ finished_instr' = finished_instr - 1
    /\ counter' = NextTurn
    /\ UNCHANGED <<instruction_map, replaying>>

(* The loop ends, and the statistics are printed.                          *)
PrintStats ==
    /\ replaying
    /\ finished_instr = 0
    /\ replaying' = FALSE
    /\ UNCHANGED <<vars, instruction_map, indexes, counter, finished_instr>>

Loop == Skip \/ Replayed \/ PrintStats

-----------------------------------------------------------------------------
ReplayNext ==
    \/ \E c \in Cores, a \in Addrs :
          \/ fake_read(c, a)
          \/ \E v \in Values : fake_write(c, a, v)
          \/ Direct(c, a)
    \/ Start
    \/ Loop

(* Once entered, the loop runs: it waits for nobody.                       *)
ReplaySpec == ReplayInit /\ [][ReplayNext]_allVars /\ WF_allVars(Loop)

-----------------------------------------------------------------------------
(* The number of instructions recorded, and of those replayed so far.      *)
Recorded == SumFunction([c \in Cores |-> Len(instruction_map[c])])
Done == SumFunction(indexes)

(* No list is read past its end.                                           *)
ReplayTypeOK ==
    /\ instruction_map \in [Cores -> Seq(Instr)]
    /\ replaying \in BOOLEAN
    /\ indexes \in [Cores -> Nat]
    /\ \A c \in Cores : indexes[c] <= Len(instruction_map[c])
    /\ counter \in Cores
    /\ finished_instr \in Nat

(* The replay interleaves the cores evenly, whatever the lengths of their  *)
(* lists: no core is two instructions ahead of one that has any left.      *)
RoundRobin ==
    replaying =>
        \A c, d \in Cores : indexes[c] <= indexes[d] + 1 \/ Exhausted(d)

(* Statistics are printed only when the controller has been called for the *)
(* recorded instructions, for each once, and for nothing else: never after *)
(* a part of the replay, and never again once they have been printed.      *)
PrintsWhatWasRecorded ==
    [][PrintStats => /\ \A c \in Cores : Exhausted(c)
                     /\ global_time = Recorded]_allVars

(* A replay that counts no more than what is recorded returns.  With calls *)
(* that were not recorded, or replayed before, in its count it never does: *)
(* print_parallel_stats can be used once, by a program that only records.  *)
ReplayReturns ==
    (replaying /\ finished_instr + Done = Recorded) ~> ~replaying
=============================================================================
