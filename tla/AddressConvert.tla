--------------------------- MODULE AddressConvert ---------------------------
(***************************************************************************)
(* address_convert of source/tools/18742/cache.h: how a cache splits a     *)
(* byte address into tag, set index and word index by shifting.  NUM_BLOCKS*)
(* is the number of bytes of a line (2^BLOCK_SIZE), a word is 8 bytes and  *)
(* L1_NUM_SETS and LLC_NUM_SETS are powers of two, so each shift is a      *)
(* division or a remainder.                                                *)
(***************************************************************************)
EXTENDS Integers

CONSTANTS
    NUM_BLOCKS,     \* bytes of a line
    L1_NUM_SETS,    \* sets of a private cache
    LLC_NUM_SETS    \* sets of the shared cache

ASSUME LineAssumption ==
    NUM_BLOCKS \in Nat \ {0} /\ NUM_BLOCKS % 8 = 0
ASSUME SetsAssumption ==
    L1_NUM_SETS \in Nat \ {0} /\ LLC_NUM_SETS \in Nat \ {0}

(* What a cache of num_sets sets makes of an address.                      *)
tag(addr, num_sets) == addr \div (NUM_BLOCKS * num_sets)
index(addr, num_sets) == (addr % (NUM_BLOCKS * num_sets)) \div NUM_BLOCKS
block_index(addr) == (addr % NUM_BLOCKS) \div 8

(* A line holds NUM_BLOCKS / 8 words.                                      *)
Words == 0 .. (NUM_BLOCKS \div 8) - 1

(* The same split by line number: two addresses share tag and index, in    *)
(* either cache, exactly when they share the line number.                  *)
LineOf(addr) == addr \div NUM_BLOCKS
WordOf(addr) == block_index(addr)
SetOf(line) == line % L1_NUM_SETS
=============================================================================
