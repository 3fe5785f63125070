-------------------------------- MODULE Hash --------------------------------
(***************************************************************************)
(* ProtectedStack/hash.cpp: the position-dependent additive checksum that  *)
(* protects the stack's struct and its elements.                           *)
(*                                                                         *)
(* A byte is a signed char, -128..127.  The running sum is a uint64_t; its *)
(* value is represented by the signed number it is congruent to modulo     *)
(* 2^64, which is exact while the sum stays far below 2^63 in magnitude,   *)
(* as it does for every block TLC looks at.                                *)
(***************************************************************************)
EXTENDS Integers, FiniteSetsExt

Byte == -128..127

(* One turn of the loop of roll().  `val >> 7' of a negative signed char   *)
(* is -1, so the disjunction sets every bit: this is a rotation only for   *)
(* 0..63, a change of sign for 64..127, and it sticks at -1 for the rest.  *)
Roll1(val) ==
    IF val < 0 THEN -1 ELSE IF val < 64 THEN 2 * val ELSE 2 * val - 256

roll(ch, n) ==
    LET turn[i \in 0..7] == IF i = 0 THEN ch ELSE Roll1(turn[i - 1])
    IN  turn[n % 8]

(* hash % mod with the default mod, (hash_t)-1 = 2^64 - 1: the sums that   *)
(* are 2^64 - 1 modulo 2^64, that is -1, become 0 and no other changes.    *)
Reduce(sum) == IF sum = -1 THEN 0 ELSE sum

(* compute_hash of a block given as a function on 0..size-1.               *)
ComputeHash(bytes, size) ==
    Reduce(MapThenSumSet(LAMBDA i : roll(bytes[i], i), 0..(size - 1)))

(***************************************************************************)
(* The same checksum over a block of eight-byte words.  Byte j of a word   *)
(* lies at an offset that is j modulo 8, so a word contributes the same    *)
(* amount wherever it lies.  Words are -2^15..2^15-1 in two's complement:  *)
(* their upper six bytes repeat the sign, and each of them rolls to -1 or  *)
(* to 0.                                                                   *)
(***************************************************************************)
SignedByte(v) == ((v + 128) % 256) - 128

WordHash(w) ==
    SignedByte(w) + Roll1(SignedByte(w \div 256)) + (IF w < 0 THEN -6 ELSE 0)

ComputeWordsHash(words) == Reduce(MapThenSumSet(LAMBDA i : WordHash(words[i]), DOMAIN words))
=============================================================================
