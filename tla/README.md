# Nanxidactyl in TLA+

Nanxidactyl asks what a multiprocessor would save, and lose, if a core could go
on using a stale cache line. A Pin tool runs a multithreaded program under a
simulated cache system. When one core writes a line another core has a valid
copy of, the simulator may mark that copy VICTIMIZED instead of INVALID, if the
written address lies in memory the program declared approximable. The next read
of a victimized copy gets both the stale word and the valid one; the tool puts
the stale word into the program's memory for the length of the read, so that the
program really computes with it.

This directory specifies and verifies that system. Every definition is
translated from the code; `PROJECT.json` says from which lines.

## 1. The system

Everything the project itself wrote is small and lives in three places; the rest
of the repository is the Intel Pin 3.18 kit.

| part | files | state | operations |
|---|---|---|---|
| cache controller | `source/tools/18742/cache_system.h` | the private caches, the LLC, a clock, the approximable ranges, the counters | `cache_write`, `cache_read`; `fake_read`, `fake_write` and `print_parallel_stats`, a recorder that nothing in the tools calls now |
| cache geometry | `source/tools/18742/cache.h` | lines in vectors of sets | `address_convert` |
| Pin tool, matrix | `source/tools/18742/testpin.cpp` | a list of reads to restore, one `speculated` flag per core, the program's memory | `RecordMemRead`, `RecordMemReadAfter`, `RecordMemWrite`, `ThreadStart` |
| Pin tool, sum | `source/tools/18742/falseSharing.cpp` | the same | the same, with 8-byte elements and other ranges |
| matrix workload | `MatrixMultiply/` | matrices A, B and C, a barrier | `threadedmult`, `matrixmult` by each thread |
| sum workloads | `FalseSharing/` | an array, the shared sum, a mutex | `main_func`, `SumParallel` by each thread |
| synchronisation demo | `SimpleMultithread/Multithread.c` | a shared variable, a mutex, a barrier | `main`, `simpleThread` by each thread |
| stand-alone simulator | `CacheSimulator/` | an earlier controller inside `test.cpp` | its own `cache_write` and `cache_read` |
| leftovers | `18742/cache.cpp`, `cache_system.cpp`, `llc.h`, `conglomerate.cpp`, `OldCacheSimulator/` | | not built by any makefile, or not compilable |
| instruction counters | `nanxiSim.cpp`, `yang_threadID.cpp`, `inscount0.cpp` | one counter | count, print |

How they interact. Pin calls the tool before and after every memory operand of
every instrumented instruction. Each of the three callbacks takes `pinLock`,
calls at most one method of the controller, may patch or restore the program's
memory, and releases the lock. So a call of the controller is atomic, but an
instruction is not: between the call before it, the instruction and the call
after it, the other threads run. Nothing is persisted and no messages are sent;
there is no crash, loss or timeout to model, and none is modelled.

What is hard here:

* the four states of a line move in four different snoop loops, written out
  separately in `cache_write` (upgrade, miss) and `cache_read` (victimized,
  invalid, miss), each with its own order of copying, demoting and counting;
* a line becomes valid by one word at a time: a write miss allocates a line of
  zeros, a refill fetches one word, and the state is the whole line's;
* a snoop also updates the time stamps and counters of other cores' caches, on
  which replacement and the printed results rest;
* the restore of a patched word comes in a later callback than the patch;
* the workloads are the programs whose results the tool makes approximate: what
  a run loses can be told apart from an ordinary race only if they have none of
  their own. They rest on barriers, slices and a mutex;
* there are two controllers, and the stand-alone one differs in what it copies,
  in which order it inserts and snoops, and in what it does when a line is
  nowhere.

What makes each part correct is in section 3. The hazards, each at its line, are
in `PROJECT.json`.

## 2. The modules

| module | what it is |
|---|---|
| `AddressConvert` | the split of an address into tag, set index and word index, and the same split by line number |
| `CacheSystem` | the controller: one action per path through `cache_write` and `cache_read` |
| `CacheProperties` | what the controller promises, and what its comments promise |
| `ApproximateMemory` | the abstract specification: a memory with approximate reads and no caches |
| `CacheHistory` | `CacheSystem` with a history of written words, and the refinement of `ApproximateMemory` |
| `Replay` | the recorder of the controller: recorded instructions replayed round robin, on top of `CacheSystem` |
| `PinTool` | the callbacks, the instructions between them and the program's memory, on top of `CacheSystem` |
| `Simulator` | the stand-alone controller of `CacheSimulator/test.cpp` |
| `Controllers` | the two controllers in lockstep, `INSTANCE Simulator` beside `CacheSystem` |
| `Pthreads` | what a barrier and a mutex do (external) |
| `MatrixMultiply`, `SumParallel`, `Multithread` | the three workloads, on top of `Pthreads` |
| `MCCacheSystem`, `MCCacheHistory`, `MCPinTool`, `MCControllers`, `MCWorkloads` | small instances for TLC; `MCWorkloads` has the three workloads and the recorder, one of them in each behaviour |
| `ArithmeticLemmas` | lemmas on division, induction and sums that the proofs share |
| `CacheProofs`, `ReplacementProofs`, `MemoryProofs`, `ControllerProofs`, `ReplayProofs`, `PinProofs`, `WorkloadProofs` | theorems |

### CacheSystem and the code

A line is named by its line number, address `div` line size. `CacheProofs`
proves that two addresses agree on the tag and the set index `address_convert`
computes exactly when they agree on the line number, so the name loses nothing.
The vectors of a set are a set of lines: the code finds a line by its tag and
picks the LRU line by its stamp, and `DistinctStamps` says that order in the
vector cannot matter.

| TLA+ | code |
|---|---|
| `state[c][l]`, `data[c][l]`, `time_accessed[c][l]` | the `Line` in `caches[c]`; "ABSENT" when `lookup_line` returns NULL |
| `llc_lines`, `llc` | the lines of `llc` and their words; the LLC never evicts |
| `stats`, `accuracy`, `cache_stats` | `System_stats`, the tallies of `within_threshold`, `Cache_stat` |
| `result` | the `Read_tuple` last returned |
| `WriteHitModified`, `WriteHitUpgrade`, `WriteMiss` | the three branches of `cache_write` |
| `ReadHit`, `ReadVictimized`, `ReadInvalid`, `ReadMiss`, `ReadNotInSystem` | the five outcomes of `cache_read` |
| `Owners`, `Max(Owners)` | a snoop loop visits cores in index order and copies each MODIFIED line over the caller's: the last one stays |
| `Draws` | `rand()` against `speculation_percent`: nobody at 0, everybody at 100, any subset between. The constant is in hundredths of the code's fraction; the tools pass 1, here 100 |
| `WithinThousandths` | the floating-point relative difference, in integers: thresholds are thousandths, a difference from zero is infinite |

Words are numbers from a set `Values`; zero is the initial word. Counters are
unbounded naturals: the code's are 64 bits wide and the runs of the simulator
far shorter. What is left out of the controller is the text of the statistics.

### Replay and the code

`fake_read` and `fake_write` append to `instruction_map[c]` and count;
`print_parallel_stats` is a loop, so it is `Start`, then a `Skip` or a
`Replayed` per turn, then `PrintStats`. While it runs nothing else does (it would
hold `pinLock`), so the other actions wait for `~replaying`. `Direct` is a call
that was not recorded, as the tools make them. The loop counts down
`finished_instr`, which starts at `total_instr`, and `total_instr` counts
recorded instructions and calls of the controller alike. So the count is right
the first time only, for a program that does nothing but record; otherwise the
loop skips from core to core for ever, with every list exhausted. That is why
`ReplayReturns` has a hypothesis, and `PrintsWhatWasRecorded` none: statistics
are printed for a right count or not at all. `counter` is kept modulo
`num_cores`, all the code looks at. Nothing in the tools calls the recorder now;
its calls are commented out in both.

### PinTool and the code

`todo[c]` is what is left of the instruction thread `c + 2` is in, a sequence of
steps in the order `Instruction` inserts the calls: `Load` and `Store` have one
memory operand, `Update` one that is both read and written, `Push` and `Movs` one
that is read and another that is written, in either order of the operands,
`Compare` two that are read (`IARG_MEMORYOP_EA` of a string instruction). The
program runs any instructions of the kinds in `Kinds` at any addresses and writes
any elements, so that what holds here holds for each of the workloads. `memory` is what the program sees and `stored`
what it put there: the tool is the only reason for the two to differ.
`reverts[c][a]` is the part of `revert_vector` that `RecordMemReadAfter` looks
at, core by core and address by address; the order of entries for different
cores or addresses is never looked at.

An instance of testpin.cpp has 4-byte elements, so the word `PIN_SafeCopy` reads
is an element and its neighbour (`memory[a] + Base * memory[a+4]`, elements
being below `Base`), and a patch keeps only the lower half (`% Base`). An
instance of falseSharing.cpp has 8-byte elements and different ranges for the
controller (`psum`) and for the patch (`sum`). Accesses are of element size and
aligned; what lies after the last element is zero. The instruction's own read is
a step that changes nothing: what a program does with the value is any write it
makes later.

### Simulator, Controllers and the code

`Simulator` has the same kind of state as `CacheSystem`, under the same names,
and one action per path of `test.cpp`; `Controllers` gives it variables of its
own (`sim_...`) and calls both controllers with the same operation of the same
core, drawing the same random numbers (a joint step has the same number of
speculated copies on both sides). What differs in the code, and in the model:

| | tool (`cache_system.h`) | stand-alone (`test.cpp`) |
|---|---|---|
| owner's line on an upgrade, write miss or refill | copied over the caller's | not copied |
| owner met by a read miss | gets the LLC's words | keeps its own |
| order on a write miss | snoop, then insert | insert, then snoop |
| word of a line | `(address mod line) / 8` | byte offset, `address mod line` |
| approximable range | start included, end not | `address >= start && address < start`: empty |
| victimized copies | yes | none, since no address is in range |
| read of a line that is nowhere | `not_in_system` | an empty `Line` is inserted and its word read through a null pointer: the program dies |

So `Offsets` are the words that an address reaches, `status` is the process, and
`within_threshold` with the victimized path of `cache_read` is left out as
unreachable. A joint behaviour ends when the stand-alone program does. Nothing
of the tool's protocol is lost by that: the call that ends it, `ReadNotInSystem`,
changes the counters, the clock and the answer only.

`Controllers` is where the two are compared. `SameProtocol`: they hold the same
lines in the same states with the same stamps, a victimized line being an invalid
one. `SameCounters`: they count the same but for the words a victim's reader takes
from the LLC and for what becomes of a speculated copy; the stand-alone program
settles each of the copies that the tool speculates as in range or not. That it
finds none in range is the fault of `test.cpp:65`, which `SimSpeculatesInRange`
and its violating run are about, and no other property or theorem rests on it. `DiesOfUnwrittenReads`: the program dies at
exactly the reads the tool answers with `not_in_system`, and its `exit(-1)` is
never reached. `SimCoherenceLoss`: of the three ways in which the tool loses
coherence of data only the partial fill is older than the tool; the owner's copy
that overwrites a written word came with it.

### The workloads and the code

A thread's step is one access of shared memory, or one call of the library.

* `MatrixMultiply`: `at[t]` holds the three loop counters; `Multiply` is one
  term of one entry of C (the entry of C and of B read, that of C written),
  `Update` one entry of B from one of C. `FirstWait` and `SecondWait` arrive at
  the barrier, `BeginMultiply` and `BeginUpdate` are its return. An entry is its
  row and column; n = m as in `Matrix.h`. The largest entry of the ten
  iterations is 137,806,482, so the entries are integers without a width.
* `SumParallel`: `sum += A[i]` is `LoadSum` and `StoreSum`, `pthread_mutex_lock`
  and `unlock` one step each. `sum` starts at `ELEMENT_COUNT` (line
  178), so that what is printed at line 162 is more than the array's sum by that
  much. `correct_sum` is what line 185 prints as the correct one: the number of
  elements. The two disagree (`PrintsCorrectSum`, a violating run).
* `Multithread`: `PTHREAD_SYNC`, a macro of the build, is a variable chosen in
  the initial state and never changed, so that one run has both builds. `main`
  may fail to create a thread (`CreateFails`): it returns, and the threads that
  were created end with the process.
* `Pthreads` is external. A barrier is the set of threads blocked in it; the
  last thread to arrive empties it. A thread that has arrived goes on once it is
  not in the set any more. A mutex is the set of its holders.

## 3. What TLC checks

| run | instance | shows |
|---|---|---|
| `protocol` | 2 cores, 2 lines, one with 2 words in use of which one approximable, 1 way, words {1,2}, written words remembered; 20,747 states | `TypeOK`, `VictimizedIsApproximable`, `NoThinAir`, `CoherenceLossExplained`, `ImplementsMemory` |
| `three_cores` | both controllers, 3 cores, 2 lines, one with 2 words in use, 1 way, words {0,1}; 36,206 states | `SingleWriter`, `Inclusion`: a snoop loop meets two sharers at once; `SimCoherenceLoss` |
| `replacement` | both controllers, 2 cores, 2 sets of 2 ways, 3 lines competing for one set and 1 alone in the other; 12,870 states | `DistinctStamps`, `WithinAssociativity`, `EvictsLeastRecent`, `SameProtocol`, `DiesOfUnwrittenReads` |
| `statistics` | both controllers, 2 cores, the first 5 calls, real counters; 700,111 states | `VictimsAccounted`, `SpeculationCounted`, `EachCallCountedOnce`, `TalliesAgree`, `SameCounters` |
| `test_pin` | 2 threads, two ints in one cache word, one approximable, instructions of every kind that reads at most one operand; 193,713 states | `PinTypeOK`, `PatchesOnlyApproximable`, `RevertsPending` |
| `workloads` | 3 threads and 4 x 4 matrices for 2 iterations; 3 threads and 7 elements; 3 threads with 2 additions each, both builds; a recorder with 3 cores, up to 4 recorded instructions and up to 1 call beside them; 125,100 states | `MatrixTypeOK`, `NoRace`, `MatricesInStep`, `SumTypeOK`, `SumAccounts`, `NoLostUpdate`, `SeenIsFinal`, `LostUpdatesBounded`, that each program ends, and of the replay `ReplayTypeOK`, `RoundRobin`, `PrintsWhatWasRecorded`, `ReplayReturns` |

Bounds. One way per set is enough to evict on the second line, so each line's
history of eviction and re-allocation is explored; `replacement` has two ways
and two sets, so that an LRU choice and the independence of sets are real. Two
words of a line are needed for a line to be valid in one word only. Two cores
show every pair of states, three show a snoop loop with two victims. Five calls
are the shortest history in which a copy is made, victimized, read back and
victimized again by the other side; each counter property is broken by its
mutant within that bound. Four recorded instructions on three cores give lists
of every shape up to a difference of four, with one, two or all cores recording.

Loads, stores, updates and moves (`Push`, `Movs`) of `test_pin` are every kind
that `RevertsPending` allows; it is false of `Compare`, which no run has. The
instance of falseSharing.cpp has no run either: what is special about it, ranges
that do not meet, is `TransparentHolds`, and the other theorems hold for 8-byte
elements as for 4-byte ones.

The matrix instance has a row left over for the last thread and slices of
different size, the sum instance an element left over; two iterations make every
thread come back to each barrier, and B of the second iteration depend on all of
C of the first. Three adders of two are the smallest demo in which several stale
stores can follow one another, down to the bound of `LostUpdatesBounded`.

Views. Time is unbounded, so the runs of the controller and the tool other than
`statistics`, `address_bound` and `margin` use a VIEW: the states, the words, the
LLC, and in place of the stamps their order within each set of a cache. No guard reads `global_time`, a
counter or `result`; stamps are only compared within a set, and a new stamp is
larger than all. Two states with the same view therefore have the same successors
up to the view, and the properties of these runs either depend on the view alone
or on a single step, which TLC evaluates on the real states. Two statements do
neither: that no stamp is in the future (`DistinctStamps`), which the theorem
covers, and that the stamps of the two controllers are equal (`SameProtocol`),
which is checked in the states TLC keeps, one per view. `ReplacementView` leaves
the words out too: no word influences a state. `SimView` leaves out the stamps,
since a set of one line has no choice to make, and the tool's words, which that
run's properties do not mention. `statistics` has no view and stops after
`MaxTime` calls (hence CHECK_DEADLOCK FALSE; `address_bound` and `margin` likewise). The other
runs of `Controllers` switch it off because the stand-alone program may die, and
`workloads` and `correct_sum` because their programs end; that they do not stop
before is liveness in `workloads`. The recorder there is bounded by its number of
instructions and calls.

Fairness. Controller and tool are passive: the program's threads call them and
every call ends, so no fairness is assumed of a call. The one loop that can fail
to end is the replay's. It waits for no other thread, so weak fairness of
`Loop` is what the code does, and `ReplayReturns` is its liveness property. The
workloads are threads of the operating system: weak fairness of `main` and of
each thread says that a thread that can run will, and is assumed of nothing else.
The mutex need not be fair: a thread may be overtaken at it, but the others ask
for it only a finite number of times. `MatrixProgramEnds`, `SumProgramEnds` and
`MultithreadProgramEnds` are what that yields: no thread is left at a barrier
that the others have passed, none waits for a mutex that nobody will release,
and the process of the demo ends also if a thread cannot be created.

### Coherence of data

The plain statement "every valid copy equals the write-through LLC" is false of
this code, and it is worth knowing exactly how. `CoherenceLossExplained` says
that a call which makes a coherent system incoherent is one of three:

1. `OverwrittenByOwner`: a write miss while another core owns the line. The new
   line is built with the written word and then overwritten with the owner's.
2. `PartialFill`: a copy becomes valid by one word while its others are stale or
   zero.
3. `LostVictim`: a victimized copy is read when no valid copy is left; the
   LLC is not asked and the word becomes zero.

So the comment at `cache_system.h:617` ("Use valid data" on a hit) does not hold
even with one core: write a word, let the line be evicted, write another word of
the line, and a read of the first one hits and returns zero (case 2). Nor does
the one at 629 ("Find valid data in other caches") when there is none (case 3).

What still holds is `ImplementsMemory`: every answer is a word once written to
that very location (or the initial zero), answers are marked speculated only in
approximable memory, and a read fails only where nothing was written.

### Comments the code does not keep

Each is a run that TLC must find violated; `PROJECT.json` quotes the comment.

| run | property | what happens |
|---|---|---|
| `lost_word` | `WriterKeepsItsWord` | case 1 above: the writer's own copy lacks the word it wrote |
| `margin` | `SuccessIsWithinMargin` | `within_threshold` is always true, so `success` counts every victim |
| `revert_memory` | `RevertRestoresMemory` | the restore stores the controller's valid word over whatever is there |
| `old_value` | `CacheHasWrittenValue` | the write is recorded before it happens, with the word it replaces |
| `address_bound` | `SimSpeculatesInRange` | the stand-alone controller compares an address with the start of the range twice, so that it finds none in it |
| `correct_sum` | `PrintsCorrectSum` | the sum printed is not the one printed as correct, which is the number of elements |

## 4. What is proved

All proofs are checked by TLAPS for every value of the constants, from the named
assumptions: a line is a positive multiple of 8 bytes, there is at least one set,
core and way, addresses are a finite set of naturals, words and ranges are
naturals, and (for the tool) elements are words and so are two ints packed in
one, and accesses are aligned. The workloads have at least one thread, and for
the matrices one row and one iteration.

* `ArithmeticLemmas`: the library's induction theorems take an operator, which
  the provers cannot instantiate; a least element of a set, from the well-founded
  order on the naturals, gives induction over a set of numbers or of finite sets
  instead (`NaturalInduction`, `FiniteInduction`). With it the sum of the
  community modules, a CHOOSE of a recursive function, is shown to exist and to
  be unique (`SumRecursion`), and to follow a change of one summand
  (`SumChanges`, `SumFalls`).
* `CacheProofs`: `TagAndIndexNameTheLine` and `SetOfLine`, by uniqueness of
  integer division, justify naming lines by number.
* `CacheProofs`: `StateInv` = `TypeOK`, `SingleWriter`, `Inclusion` and
  `VictimizedIsApproximable` together is inductive. The first part has one
  lemma per shared piece of the calls (what a copied line, a tick, a count
  yields) and one step per path; the others rest on three facts about how a call
  changes states: a write gives ownership (`Owning`), a refill shares
  (`Sharing`), a read miss inserts. The statistics need no invariant
  but themselves: `SpeculationCountedHolds` since the copies drawn are among the
  valid ones a write meets; `TalliesAgreeHolds` since a difference within one
  threshold is within every wider one (`WiderThreshold`);
  `EachCallCountedOnceHolds` since every path adds one to the four counters of
  its caller and no call to those of the others (`OneMore`), so that the sum over
  the cores follows the clock; `VictimsAccountedHolds` since a write adds at most the copies drawn to the set
  of victims (`VictimsOfWrite`), and a read takes the one it is about to count
  out of it (`VictimsOfRead`).
* `ReplacementProofs`: `ReplacementInv` adds `DistinctStamps` and
  `WithinAssociativity`. The stamps are needed for the other: only because no
  two are equal is the LRU line one line, and only because it is resident and
  leaves does the set stay within its ways. `EvictsLeastRecentHolds` is the
  action property from the same invariant.
* `MemoryProofs`: `CoherenceLossExplainedHolds`. By contraposition: outside
  the three cases every path either leaves valid copies alone, writes the same
  word to the copy and the LLC, or copies a line that equals the LLC's. For what
  words can be anywhere, `MemoryInv` adds `NoThinAir` and that what the LLC does not
  hold was never written. The key lemma, `Sources`, bounds the words a cell can
  come to hold in one call: cells of the same location, zero, or the word
  written. `ImplementsMemoryHolds` is then the step simulation of
  `ApproximateMemory`.
* `ControllerProofs`, for the two controllers called alike: `SameProtocolHolds`
  and `DiesOfUnwrittenReadsHolds`. `LockstepInv` adds the tool's own invariants
  to `SameProtocol`: with the same states both see the same sharers (`SameSets`);
  with distinct stamps both evict the same line (`SameLRU`, `SameEvicted`), as
  each picks a line for which no other is older; and `Inclusion` keeps the
  stand-alone controller out of its `exit`. Then each path of one has its path
  of the other (`WriteInStep`, `ReadInStep`), whichever copies the random
  numbers pick: a victim of the one is an invalid copy of the other. On top of
  that, `SimCoherenceLossHolds` needs that a line that is not in a cache has zero
  words there (`SimDataOK`), so that a write miss is a fill like the others, and
  `SameCountersHolds` needs that the two have drawn equally many copies
  (`CountersInv`). It holds whatever the stand-alone range accepts: a copy drawn is
  counted on one side of the bound or the other.
* `ReplayProofs`: `ReplayTypeCorrect` and `RoundRobinHolds`. The invariant names
  the round r the replay is in: each core has had the lesser of its instructions
  and r of them called, or r + 1 if its turn in the round has been (`InRound`).
  `RoundRobin` alone is not inductive, as it does not say who is ahead.
  `PrintsWhatWasRecordedHolds` adds `CountInv`: the loop counter and twice the
  instructions replayed make up the clock and the instructions recorded, as each
  turn takes one from the counter while the controller's call adds one to the
  clock. At the end the counter is zero, the clock is at least what was replayed,
  and no more than what was recorded was: all three are equal.
* `PinProofs`: `ToolDrivesController` (`PinSpec => Spec`): the tool calls the
  controller only with words and addresses its specification allows, so every
  theorem above holds under the tool. `PatchesOnlyApproximableHolds` needs the
  invariant that only approximable addresses have an entry to restore;
  `TransparentHolds` follows for ranges that do not meet. `RevertsPendingHolds`
  assumes there are no two-operand reads (two such reads would share one flag,
  and the second would never be restored) and rests on `RestoreInv`, which ties what is left of the
  instruction to what is left to restore: nothing before the instruction's read of
  its operand (`Unread`), at most that operand from there to the call after it
  (`Reading`), whatever the instruction writes meanwhile.
* `WorkloadProofs`: for the matrices `BarrierInv` says that there is a round r
  such that every thread has arrived at a barrier r times, and those blocked in
  it once more (`InRound`; `ArrivedTimes` counts). So two threads that are past
  the same barrier are in the same phase of the same iteration (`SameIteration`),
  and within a phase `SlicesApart`, by monotony of t * (n div NUM_CORES), keeps
  their rows apart: `NoRaceHolds`. For the sum `NoLostUpdateHolds` needs that
  a thread between load and store is the only holder of the mutex, and that what
  it loaded is still the sum. For the demo `SeenIsFinalHolds` needs that with
  synchronization a thread is past the barrier only if all have arrived.

  `MatricesInStepHolds` compares the threads with `Sequentially`, a recursive
  function of the iteration. `SequentiallyIterates` shows that it exists, by
  induction. `DataInv` then gives every entry of B and C in terms of its own
  thread: how many terms of the product of this iteration it has had
  (`AddedTerms`, from the thread's loop counters), and whether it has been
  computed anew. That B and C as a whole are those of one iteration when they are
  read follows from `SameIteration`; the invariant is inductive only with the
  whole of B, since each term uses rows of others.

  `SumAccountsHolds`: the set of elements stored (`Added`) gains the one a store
  adds, which was not in it, as slices are apart; and since the mutex makes what
  was loaded the sum there is, the sum gains the same. When all are stored
  the slices make up the array but for the remainder of the division
  (`SlicesLeaveRemainder`).

  `LostUpdatesBoundedHolds`: above, a thread never stores more than the additions
  reached (`Total`). Below, without synchronization: a thread past its first
  addition has loaded at least one, so that once each thread is at its last
  addition what the last store leaves is at least two. `LostInv` says so of
  what is loaded and of what is stored.

* `SumComesToItsEnd`, `MultithreadComesToItsEnd`, `MatrixComesToItsEnd`: what can
  be said of termination without fairness, for every number of threads. The steps
  left (`SumStepsLeft`, `MTStepsLeft`, `MatrixStepsLeft`, naturals that add up over
  the threads) fall at every step, so no behaviour goes on for ever; and until the
  end the condition of some action holds (`SumCanMove`, `MTCanMove`,
  `MatrixCanMove`: the guards of the actions), so that none stops before. For
  the mutex that needs its holder to be able to go on; for the demo's barrier
  (`WaitInv`), that it is empty once all have arrived; for that of the matrices
  (`EndInv`), that it is never full, and that a thread cannot wait for one that
  is done: it would have arrived more than twice an iteration (`MatrixMoves`).

Every safety property of the passing runs is proved. Only model-checked are the
liveness properties: `ReplayReturns`, `MatrixProgramEnds`, `SumProgramEnds` and
`MultithreadProgramEnds`, as fairness and ENABLED are beyond the prover. For the
last three the theorems above are the part of them that can be proved; the rest
is that the system runs a thread that can run. `ReplayReturns` has no such part: its loop
calls the controller, and that the calls are always possible is a matter of
ENABLED. The violating runs have no theorem; their counterexamples are the
result.

## 5. Reading a violation

The violating runs are short: each trace is a list of calls. `lost_word` is two
calls: core 0 writes a word and core 1 writes the same word; core 1's copy then
holds core 0's word, and the LLC core 1's. A change of the code that repairs one
of them turns the run into a passing one, and the same property can then be moved
to `protocol`, `test_pin`, `statistics` or `workloads`. `address_bound` is two
calls as well: one core writes a line and another writes an approximable word of
it; the tool's controller counts the copy as in range, the stand-alone one as
outside.

## 6. What is not modelled

* The Intel Pin 3.18 kit: third-party headers, libraries, documentation and
  sample tools. It is nearly all of the repository, so any share of the
  repository's lines that this project covers is small; of the lines of its own
  code that are built and keep state, nearly all are covered.
* `FalseSharing/sumParallel.cpp`, where the mutex around the shared sum is
  commented out: it does not compile (`sum` and `std::cout` are not declared).
  The fault `Lock_Missing` of `SumParallel` is what it would do.
  `originalFalseSharing.c` has one thread and is not built.
* In `CacheSimulator`, `cache_system.cpp` and `cache_system_victimized.cpp`: the
  makefile does not build them. In `18742`, `cache.cpp`, `cache_system.cpp`,
  `llc.h` and `conglomerate.cpp`: no makefile builds them, or they do not
  compile. `OldCacheSimulator` is a skeleton that does not compile.
* The instruction counters: nothing interacts.
* Image lookup, `ret_pin_data`, clock readings, output files and their wording:
  pure I/O. `print_system_stats` writes what the counters hold.
* Threads of the workloads that cannot be created, in two of the three. In
  `MatrixMultiply.cpp:122` std::thread throws and the process terminates; in
  `sumParallel.c:136` the result of `pthread_create` is ignored, and line 142 would
  join an identifier that was never set. `Spawn` and `StartThread` always succeed.
  `Multithread.c` checks the result, and `CreateFails` is that path.
* A crash, loss or timeout: nothing is persisted and no message is sent.

Worth adding if the code grows: the provenance of loaded words under the tool
for 8-byte elements, and the replay for a controller that gives `total_instr` a
count of its own, in which `ReplayReturns` would lose its hypothesis.
