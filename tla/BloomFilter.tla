----------------------------- MODULE BloomFilter -----------------------------
(***************************************************************************)
(* BloomFilterService (src/src/detection/bloom-filter.service.ts): which   *)
(* source addresses were seen before.  No other service calls it.          *)
(*                                                                         *)
(* An element is the sequence of the character codes of an address.  The   *)
(* hash is computed in integers of 32 bits with a sign.                    *)
(*                                                                         *)
(* A definition marked "Mutant of" is no part of the specification: it is  *)
(* a bug the next definition could have, which the properties must catch.  *)
(***************************************************************************)
EXTENDS Integers, Sequences, FiniteSets

CONSTANTS
    Size,        \* bits of the array, 1000 in the code
    HashCount,   \* hash functions, 5 in the code
    SignBit      \* the weight of the sign of a hash, 2^31 in the code

ASSUME BloomAssumption ==
    Size \in Nat \ {0} /\ HashCount \in Nat \ {0} /\ SignBit \in Nat \ {0}

VARIABLES
    bitArray,   \* the indexes of the bits that are set
    offered,    \* history: the elements that were processed
    news        \* history: those that were answered to be new, as often

bloomVars == <<bitArray, offered, news>>

-----------------------------------------------------------------------------
\* What `& 0xffffffff` leaves of an integer: its last bits, with a sign.
Wrapped(n) ==
    LET low == n % (2 * SignBit) IN
    IF low >= SignBit THEN low - 2 * SignBit ELSE low

\* The hash before its sign is dropped.
SignedHash(input, seed) ==
    LET upTo[n \in 0..Len(input)] ==
          IF n = 0 THEN seed ELSE Wrapped(upTo[n - 1] * 31 + input[n])
    IN  upTo[Len(input)]

\* Mutant of Hash: Math.abs is missing.
HashWithSign(input, seed) == SignedHash(input, seed)

\* Math.abs has no overflow: the least integer gets a positive one.
Hash(input, seed) ==
    LET hash == SignedHash(input, seed) IN IF hash < 0 THEN -hash ELSE hash

\* The remainder has the sign of the dividend.
Remainder(n) == IF n < 0 THEN -((-n) % Size) ELSE n % Size

HashFunctions(element) == {Remainder(Hash(element, i)) : i \in 0..(HashCount - 1)}

\* A write beside the array is ignored, and a read there finds no one.
SetIn(bits, indexes) == bits \cup (indexes \cap 0..(Size - 1))

Check(bits, element) == HashFunctions(element) \subseteq bits

\* Mutant of Add: the bits of the element before are cleared.
AddAlone(element) == bitArray' = SetIn({}, HashFunctions(element))

Add(element) == bitArray' = SetIn(bitArray, HashFunctions(element))

-----------------------------------------------------------------------------
BloomInit == bitArray = {} /\ offered = {} /\ news = <<>>

\* processPacket: TRUE is the answer that the source was seen.
Seen(element) == Check(bitArray, element) /\ UNCHANGED <<bitArray, news>>

New(element) ==
    /\ ~Check(bitArray, element)
    /\ Add(element)
    /\ news' = Append(news, element)

ProcessPacket(element) ==
    /\ Seen(element) \/ New(element)
    /\ offered' = offered \cup {element}

\* Whoever calls the service may offer any text.
BloomNext == \E element \in Seq(Nat) : ProcessPacket(element)

BloomSpec == BloomInit /\ [][BloomNext]_bloomVars

-----------------------------------------------------------------------------
(* A source that was processed is seen ever after and is never called new    *)
(* twice, though its hashes may be the least integer there is and one array  *)
(* serves all sources.                                                       *)
NoFalseNegative ==
    /\ \A e \in offered : Check(bitArray, e)
    /\ Cardinality({news[i] : i \in DOMAIN news}) = Len(news)
=============================================================================
