------------------------------- MODULE IjonHash -------------------------------
(***************************************************************************)
(* What the annotations of ijon.h compute before they call the runtime:    *)
(* the hash of their place in the source, of their stack and of what they  *)
(* compare, and the distances (ijon-llvm-rt.o.c).  Words are numbers, with *)
(* their width; a string is the sequence of its characters.                *)
(***************************************************************************)
EXTENDS Integers, SequencesExt

CONSTANTS
  StateValues,  \* 2^32: values of a uint32_t
  HashShifts,   \* <<2^30, 2^27, 2^31>>: what the shifts of the hash divide by
  HashFactors,  \* its two factors, odd
  BitXor(_, _)  \* bitwise exclusive or

ASSUME WordAssumption == StateValues \in Nat /\ StateValues > 1
ASSUME HashAssumption ==
  /\ HashShifts \in (Nat \ {0}) \X (Nat \ {0}) \X (Nat \ {0})
  /\ HashFactors \in Nat \X Nat /\ \A i \in 1 .. 2 : HashFactors[i] % 2 = 1

UInt32 == 0 .. StateValues - 1
ASSUME XorAssumption == \A x, y \in UInt32 : BitXor(x, y) \in UInt32

HashValues == StateValues * StateValues

\* x ^ (x >> k), with the i-th shift
Mixed(x, i) == BitXor(x, x \div HashShifts[i])

simple_hash(x) ==
  LET first == (Mixed(x, 1) * HashFactors[1]) % HashValues
  IN Mixed((Mixed(first, 2) * HashFactors[2]) % HashValues, 3)

\* The two words side by side; a negative char is extended by its sign.
hashint(old, val) == simple_hash(old * StateValues + (val % StateValues)) % StateValues

hashmem(old, val) == FoldLeft(hashint, hashint(old, Len(val)), val)

\* ijon_hashstr(__LINE__, __FILE__)
SiteHash(site) == hashmem(site.line, site.file)

\* ijon_hashstack_libgcc, of the return addresses on the stack
hashstack(frames) ==
  FoldLeft(LAMBDA res, frame : BitXor(res, simple_hash(frame)), 0, frames) % StateValues

\* How long two strings are the same.
strdist(a, b) == Len(LongestCommonPrefix({a, b}))

\* _IJON_ABS_DIST
AbsDist(x, y) == IF x < y THEN y - x ELSE x - y

\* __builtin_popcount
PopCount(x) == Cardinality({k \in 0 .. StateValues : (x \div 2^k) % 2 = 1})
===============================================================================
