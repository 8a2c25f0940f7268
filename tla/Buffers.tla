------------------------------ MODULE Buffers ------------------------------
(***************************************************************************)
(* The buffer of liboidadb (odb_buffer_new, odbv_buffer_map,               *)
(* odbv_buffer_unmap, odb_buffer_free): one bit per block, kept in words   *)
(* of WordBits bits, says which blocks the user has mapped.                *)
(***************************************************************************)
EXTENDS Naturals, FiniteSets

CONSTANTS
    bcount,     \* blocks in the buffer
    WordBits,   \* bits of a word of map_statev: 32 in the code
    UIntMod,    \* boff and blockc are unsigned int: 2^32 in the code
    Offsets     \* bound: the block offsets callers use

ASSUME BuffersAssumption ==
    /\ bcount \in Nat \ {0}
    /\ WordBits \in Nat \ {0}
    /\ UIntMod \in Nat /\ bcount < UIntMod
    /\ Offsets \subseteq 0 .. UIntMod - 1

VARIABLES
    map_statev, \* the bits that are set
    state,      \* "live", "freeing" (inside odb_buffer_free), "freed"
    i,          \* the loop counter of odb_buffer_free
    err,        \* its err
    mdata,      \* the region the last successful map handed out
    held        \* history: how many times each block is handed out

vars == <<map_statev, state, i, err, mdata, held>>
-----------------------------------------------------------------------------
Slots == 0 .. bcount - 1

Region(boff, blockc) == { b \in 0 .. UIntMod - 1 :
                            boff <= b /\ b < (boff + blockc) % UIntMod }

OutOfBounds(boff, blockc) ==
    blockc > bcount \/ (boff + blockc) % UIntMod > bcount

\* Mutant: a region is refused only when all of it is mapped.
odbv_buffer_map_all(boff, blockc) ==
    /\ state = "live"
    /\ ~OutOfBounds(boff, blockc)
    /\ ~(Region(boff, blockc) \subseteq map_statev)
    /\ map_statev' = map_statev \cup Region(boff, blockc)
    /\ mdata' = <<boff, blockc>>
    /\ held' = [b \in Slots |-> IF b \in Region(boff, blockc) THEN held[b] + 1 ELSE held[b]]
    /\ UNCHANGED <<state, i, err>>

\* (A call that returns ODB_EOUTBOUNDS or ODB_EMAPPED changes nothing.)
odbv_buffer_map(boff, blockc) ==
    /\ state = "live"
    /\ ~OutOfBounds(boff, blockc)
    /\ Region(boff, blockc) \cap map_statev = {}
    /\ map_statev' = map_statev \cup Region(boff, blockc)
    /\ mdata' = <<boff, blockc>>
    /\ held' = [b \in Slots |-> IF b \in Region(boff, blockc) THEN held[b] + 1 ELSE held[b]]
    /\ UNCHANGED <<state, i, err>>

odbv_buffer_unmap(boff, blockc) ==
    /\ state = "live"
    /\ ~OutOfBounds(boff, blockc)
    /\ Region(boff, blockc) \subseteq map_statev
    /\ map_statev' = map_statev \ Region(boff, blockc)
    /\ held' = [b \in Slots |-> IF b \in Region(boff, blockc) THEN held[b] - 1 ELSE held[b]]
    /\ UNCHANGED <<state, i, err, mdata>>
-----------------------------------------------------------------------------
odb_buffer_free ==
    /\ state = "live"
    /\ state' = "freeing"
    /\ i' = 0
    /\ err' = "OK"
    /\ UNCHANGED <<map_statev, mdata, held>>

\* The bits of the word that holds bit b.
Word(b) == { j \in 0 .. WordBits - 1 : (b \div WordBits) * WordBits + j \in map_statev }

\* The blocks the inner loop unmaps on this turn.
Victims == { i * WordBits + j : j \in Word(i) }

\* Mutant: words are skipped without looking at them.
FreeTurnSkips ==
    /\ state = "freeing" /\ i < bcount
    /\ i' = i + WordBits + 1
    /\ UNCHANGED <<map_statev, state, err, mdata, held>>

\* One turn of the outer loop.  A block that cannot be unmapped (out of
\* bounds, or not mapped) makes the result ODB_ECRIT.
FreeTurn ==
    /\ state = "freeing" /\ i < bcount
    /\ IF i % WordBits = 0 /\ Word(i) = {}
       THEN /\ i' = i + WordBits + 1
            /\ UNCHANGED <<map_statev, err>>
       ELSE /\ map_statev' = map_statev \ { b \in Victims : b < bcount }
            /\ err' = IF \E b \in Victims : b >= bcount \/ b \notin map_statev
                      THEN "ECRIT" ELSE err
            /\ i' = i + 1
    /\ UNCHANGED <<state, mdata, held>>

FreeDone ==
    /\ state = "freeing" /\ i >= bcount
    /\ state' = "freed"
    /\ UNCHANGED <<map_statev, i, err, mdata, held>>
-----------------------------------------------------------------------------
Init ==
    /\ map_statev = {}
    /\ state = "live"
    /\ i = 0
    /\ err = "OK"
    /\ mdata = <<0, 0>>
    /\ held = [b \in Slots |-> 0]

Next ==
    \/ \E boff \in Offsets, blockc \in 1 .. bcount :
         odbv_buffer_map(boff, blockc) \/ odbv_buffer_unmap(boff, blockc)
    \/ odb_buffer_free \/ FreeTurn \/ FreeDone

Spec == Init /\ [][Next]_vars
-----------------------------------------------------------------------------
\* What odbv_buffer_map hands out lies inside the buffer; a block is out at most
\* once, and the bits stand for exactly the blocks that are out, whatever regions
\* were mapped and unmapped.
MapsExclusive ==
    /\ mdata[1] + mdata[2] <= bcount
    /\ state = "live" =>
         \A b \in Slots : held[b] = IF b \in map_statev THEN 1 ELSE 0

\* odb_buffer_free "will automatically unmap any outstanding map".
FreeUnmaps == state = "freed" => err = "OK" /\ map_statev = {}
=============================================================================
