---------------------------- MODULE BuffersProofs ----------------------------
(***************************************************************************)
(* Theorems about Buffers, for every size of buffer and of word.  Each has *)
(* the hypothesis without which the code breaks the property (section 6 of *)
(* the README): offsets that do not wrap, a bit map of one word.           *)
(***************************************************************************)
EXTENDS Buffers, TLAPS

USE BuffersAssumption

\* boff + blockc does not wrap around at the width of an unsigned int.
NoWrap == \A o \in Offsets : o + bcount < UIntMod

\* map_statev is one word.
OneWord == bcount <= WordBits
-----------------------------------------------------------------------------
\* The bits are those of blocks, and they count who holds them.  Once
\* odb_buffer_free has looked at its word, the word is empty.
IInv ==
    /\ map_statev \subseteq Slots
    /\ state \in {"live", "freeing", "freed"}
    /\ i \in Nat
    /\ held \in [Slots -> Nat]
    /\ mdata \in Nat \X Nat
    /\ NoWrap => mdata[1] + mdata[2] <= bcount
    /\ state = "live" => \A b \in Slots : held[b] = IF b \in map_statev THEN 1 ELSE 0
    /\ OneWord /\ state = "freeing" => err = "OK" /\ (i = 0 \/ map_statev = {})
    /\ OneWord => FreeUnmaps

\* The remainder of a number is itself below the modulus.
LEMMA Wrap ==
    ASSUME NEW m \in Nat \ {0}, NEW y \in Nat, y < 2 * m
    PROVE  y % m = IF y < m THEN y ELSE y - m
<1>1. ASSUME NEW x \in 0 .. m - 1 PROVE x % m = x /\ (x + m) % m = x  OBVIOUS
<1>2. CASE y < m
  <2>1. y \in 0 .. m - 1  BY <1>2
  <2> QED  BY <1>1, <1>2, <2>1
<1>3. CASE ~(y < m)
  <2>1. y - m \in 0 .. m - 1 /\ (y - m) + m = y  BY <1>3
  <2>2. ((y - m) + m) % m = y - m  BY <1>1, <2>1
  <2> QED  BY <1>3, <2>1, <2>2
<1> QED  BY <1>2, <1>3

\* A region that passes the bounds check lies in the buffer; one whose end
\* wraps around is empty.
LEMMA RegionInside ==
    ASSUME NEW boff \in Offsets, NEW blockc \in 1 .. bcount, ~OutOfBounds(boff, blockc)
    PROVE  /\ Region(boff, blockc) \subseteq Slots
           /\ NoWrap => boff + blockc <= bcount
<1>1. boff \in 0 .. UIntMod - 1 /\ boff \in Nat /\ blockc \in Nat  OBVIOUS
<1> DEFINE w == boff + blockc
<1>2. w \in Nat /\ w < 2 * UIntMod /\ UIntMod \in Nat \ {0}  BY <1>1
<1>3. NoWrap => w < UIntMod  BY <1>1 DEF NoWrap
<1>4. w % UIntMod <= bcount /\ w % UIntMod \in Nat  BY <1>2 DEF OutOfBounds
<1>5. Region(boff, blockc) \subseteq Slots
  <2>1. SUFFICES ASSUME NEW b \in 0 .. UIntMod - 1, b < w % UIntMod  PROVE b \in Slots
     BY DEF Region
  <2> HIDE DEF w
  <2> QED  BY <1>4, <2>1 DEF Slots
<1> HIDE DEF w
<1>6. NoWrap => w % UIntMod = w  BY <1>2, <1>3, Wrap
<1>7. NoWrap => w <= bcount  BY <1>4, <1>6
<1> QED  BY <1>5, <1>7 DEF w

LEMMA MapStep ==
    ASSUME IInv, NEW boff \in Offsets, NEW blockc \in 1 .. bcount,
           odbv_buffer_map(boff, blockc)
    PROVE  IInv'
<1> DEFINE R == Region(boff, blockc)
<1>1. /\ state = "live" /\ ~OutOfBounds(boff, blockc) /\ R \cap map_statev = {}
      /\ map_statev' = map_statev \cup R /\ mdata' = <<boff, blockc>>
      /\ held' = [b \in Slots |-> IF b \in R THEN held[b] + 1 ELSE held[b]]
      /\ state' = state /\ i' = i /\ err' = err
   BY DEF odbv_buffer_map
<1>2. R \subseteq Slots /\ (NoWrap => boff + blockc <= bcount)  BY <1>1, RegionInside
<1> HIDE DEF R
<1>3. map_statev' \subseteq Slots  BY <1>1, <1>2 DEF IInv
<1>4. held' \in [Slots -> Nat]  BY <1>1 DEF IInv
<1>5. boff \in Nat /\ blockc \in Nat  OBVIOUS
<1>6. \A b \in Slots : held'[b] = IF b \in map_statev' THEN 1 ELSE 0
   BY <1>1, <1>2 DEF IInv
<1> QED  BY <1>1, <1>2, <1>3, <1>4, <1>5, <1>6 DEF IInv, FreeUnmaps

LEMMA UnmapStep ==
    ASSUME IInv, NEW boff \in Offsets, NEW blockc \in 1 .. bcount,
           odbv_buffer_unmap(boff, blockc)
    PROVE  IInv'
<1> DEFINE R == Region(boff, blockc)
<1>1. /\ state = "live" /\ R \subseteq map_statev
      /\ map_statev' = map_statev \ R /\ mdata' = mdata
      /\ held' = [b \in Slots |-> IF b \in R THEN held[b] - 1 ELSE held[b]]
      /\ state' = state /\ i' = i /\ err' = err
   BY DEF odbv_buffer_unmap
<1> HIDE DEF R
<1>2. \A b \in Slots : held[b] = IF b \in map_statev THEN 1 ELSE 0  BY <1>1 DEF IInv
<1>3. held' \in [Slots -> Nat]  BY <1>1, <1>2
<1>4. \A b \in Slots : held'[b] = IF b \in map_statev' THEN 1 ELSE 0  BY <1>1, <1>2
<1> QED  BY <1>1, <1>3, <1>4 DEF IInv, FreeUnmaps

\* The first turn of odb_buffer_free empties the word, the others find it empty.
LEMMA FreeTurnStep ==
    ASSUME IInv, FreeTurn
    PROVE  IInv'
<1>1. state = "freeing" /\ i < bcount /\ UNCHANGED <<state, mdata, held>>  BY DEF FreeTurn
<1>2. map_statev' \subseteq map_statev  BY DEF FreeTurn
<1>3. i' \in Nat /\ i' # 0  BY DEF FreeTurn, IInv
<1>4. ASSUME OneWord  PROVE err' = "OK" /\ map_statev' = {}
  <2>1. err = "OK"  BY <1>1, <1>4 DEF IInv
  <2>2. CASE map_statev = {}
    <3>1. Victims = {}  BY <2>2 DEF Victims, Word
    <3> QED  BY <1>2, <2>1, <2>2, <3>1 DEF FreeTurn
  <2>3. CASE map_statev # {} /\ i = 0
    <3>1. \A b \in map_statev : b \in 0 .. WordBits - 1 /\ b < bcount
       BY <1>4 DEF IInv, Slots, OneWord
    <3>2. (0 \div WordBits) * WordBits = 0
      <4>1. 0 \div WordBits = 0  OBVIOUS
      <4> QED  BY <4>1
    <3>3. Word(i) = map_statev
      <4>1. \A j \in 0 .. WordBits - 1 : (i \div WordBits) * WordBits + j = j  BY <2>3, <3>2
      <4> QED  BY <3>1, <4>1 DEF Word
    <3>4. Victims = map_statev
      <4>1. \A b \in map_statev : i * WordBits + b = b  BY <2>3, <3>1
      <4> QED  BY <3>3, <4>1 DEF Victims
    <3> QED  BY <2>1, <2>3, <3>1, <3>3, <3>4 DEF FreeTurn
  <2> QED  BY <1>1, <1>4, <2>2, <2>3 DEF IInv
<1> QED  BY <1>1, <1>2, <1>3, <1>4 DEF IInv, FreeUnmaps

LEMMA Inductive == Spec => []IInv
<1>1. Init => IInv
  <2> SUFFICES ASSUME Init  PROVE IInv  OBVIOUS
  <2> USE DEF Init
  <2>1. mdata[1] + mdata[2] <= bcount  OBVIOUS
  <2> QED  BY <2>1 DEF IInv, FreeUnmaps
<1>2. IInv /\ [Next]_vars => IInv'
  <2> SUFFICES ASSUME IInv, [Next]_vars  PROVE IInv'  OBVIOUS
  <2>1. CASE \E boff \in Offsets, blockc \in 1 .. bcount :
               odbv_buffer_map(boff, blockc) \/ odbv_buffer_unmap(boff, blockc)
     BY <2>1, MapStep, UnmapStep
  <2>2. CASE odb_buffer_free  BY <2>2 DEF odb_buffer_free, IInv, FreeUnmaps
  <2>3. CASE FreeTurn  BY <2>3, FreeTurnStep
  <2>4. CASE FreeDone
    <3>1. /\ state = "freeing" /\ state' = "freed" /\ i # 0
          /\ UNCHANGED <<map_statev, i, err, mdata, held>>
       BY <2>4 DEF FreeDone, IInv
    <3> QED  BY <3>1 DEF IInv, FreeUnmaps
  <2>5. CASE UNCHANGED vars  BY <2>5 DEF vars, IInv, FreeUnmaps
  <2> QED  BY <2>1, <2>2, <2>3, <2>4, <2>5 DEF Next
<1> QED  BY <1>1, <1>2, PTL DEF Spec

\* odbv_buffer_map hands out regions inside the buffer and no block twice, for
\* callers whose boff + blockc does not wrap around.
THEOREM MapsAreExclusive ==
    ASSUME NoWrap
    PROVE  Spec => []MapsExclusive
<1>1. IInv => MapsExclusive  BY DEF IInv, MapsExclusive
<1> QED  BY <1>1, Inductive, PTL

\* Whatever boff and blockc are, the bits of map_statev stand for exactly the
\* blocks that are out, each of them once.
THEOREM BitsCountMaps ==
    Spec => [](state = "live" => \A b \in Slots : held[b] = IF b \in map_statev THEN 1 ELSE 0)
<1>1. IInv => (state = "live" => \A b \in Slots : held[b] = IF b \in map_statev THEN 1 ELSE 0)
   BY DEF IInv
<1> QED  BY <1>1, Inductive, PTL

\* odb_buffer_free of a buffer whose bits fit into one word unmaps all that is
\* mapped and reports no error.
THEOREM FreeUnmapsAll ==
    ASSUME OneWord
    PROVE  Spec => []FreeUnmaps
<1>1. IInv => FreeUnmaps  BY DEF IInv
<1> QED  BY <1>1, Inductive, PTL
=============================================================================
