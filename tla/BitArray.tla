------------------------------- MODULE BitArray -------------------------------
(***************************************************************************)
(* class BitArray of src/sn-cfg/src/agent/stats.cpp and its copy in        *)
(* src/sn-p4/src/agent/stats.cpp: which values of a metric a filter lets   *)
(* pass, one bit each, in words.  A word is the set of the positions of    *)
(* its bits that are 1.                                                    *)
(***************************************************************************)
EXTENDS Integers

CONSTANT WordBits   \* NBITS_PER_WORD, 64

ASSUME BitArrayAssumption == WordBits \in Nat \ {0}

FullMask == 0 .. WordBits - 1

NWords(n) == IF n > WordBits THEN (n + WordBits - 1) \div WordBits ELSE 1

Words(n) == 0 .. NWords(n) - 1

\* _upper_mask: the bits of the last word that stand for a value.
UpperMask(n) == IF n % WordBits > 0 THEN 0 .. (n % WordBits) - 1 ELSE FullMask

\* What set_all puts into a word.
Mask(n, w) == IF w = NWords(n) - 1 THEN UpperMask(n) ELSE FullMask

\* The arrays of n bits.
IsArray(a) ==
  /\ a = [nbits |-> a.nbits, words |-> a.words]
  /\ a.nbits \in Nat \ {0}
  /\ a.words \in [Words(a.nbits) -> SUBSET FullMask]
  /\ \A w \in Words(a.nbits) : a.words[w] \subseteq Mask(a.nbits, w)

ClearAll(n) == [nbits |-> n, words |-> [w \in Words(n) |-> {}]]
SetAll(n)   == [nbits |-> n, words |-> [w \in Words(n) |-> Mask(n, w)]]

AssignAll(n, value) == IF value THEN SetAll(n) ELSE ClearAll(n)

\* pos is unsigned: a negative number of the caller is past the end.
InArray(a, pos) == 0 <= pos /\ pos < a.nbits

IsBitSet(a, pos) == InArray(a, pos) /\ pos % WordBits \in a.words[pos \div WordBits]

SetBit(a, pos) ==
  IF InArray(a, pos)
  THEN [nbits |-> a.nbits,
        words |-> [a.words EXCEPT ![pos \div WordBits] = @ \cup {pos % WordBits}]]
  ELSE a

ClearBit(a, pos) ==
  IF InArray(a, pos)
  THEN [nbits |-> a.nbits,
        words |-> [a.words EXCEPT ![pos \div WordBits] = @ \ {pos % WordBits}]]
  ELSE a

AssignBit(a, pos, value) == IF value THEN SetBit(a, pos) ELSE ClearBit(a, pos)

IsAllSet(a)     == \A w \in Words(a.nbits) : a.words[w] = Mask(a.nbits, w)
IsAllCleared(a) == \A w \in Words(a.nbits) : a.words[w] = {}

\* The exclusive or of each word with its mask.
Flip(word, mask) == (word \ mask) \cup (mask \ word)
NegateAll(a) ==
  [nbits |-> a.nbits,
   words |-> [w \in Words(a.nbits) |-> Flip(a.words[w], Mask(a.nbits, w))]]

And(a, b) ==
  [nbits |-> a.nbits, words |-> [w \in Words(a.nbits) |-> a.words[w] \cap b.words[w]]]
Or(a, b) ==
  [nbits |-> a.nbits, words |-> [w \in Words(a.nbits) |-> a.words[w] \cup b.words[w]]]

\* The values that the array stands for.
Ones(a) == {pos \in 0 .. a.nbits - 1 : IsBitSet(a, pos)}
=============================================================================
