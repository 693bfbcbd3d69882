----------------------------- MODULE PearsonHash -----------------------------
(***************************************************************************)
(* MVTree::PearsonHash (mvtree.cc): the one-byte hash kept per slot in the *)
(* volatile leaf descriptor, with 0 reserved for "empty slot".             *)
(*                                                                         *)
(*   auto hash = (uint8_t) size;                                           *)
(*   for (size_t i = size; i > 0;) hash = TABLE[hash ^ data[--i]];         *)
(*   return (hash == 0) ? 1 : hash;                                        *)
(*                                                                         *)
(* data is `const char *`.  Where char is signed (x86 ABIs), a byte of     *)
(* 0x80 or above is a negative int, and `hash ^ data[i]` is a negative     *)
(* index: the read before the table is undefined behaviour, modelled as    *)
(* any byte.  The hash is therefore a SET of possible results; the code is *)
(* deterministic exactly when that set is a singleton.                     *)
(***************************************************************************)
EXTENDS Integers, Sequences, SequencesExt, Bitwise

CONSTANT CharIsSigned   \* TRUE where the ABI makes plain char signed

ASSUME CharIsSigned \in BOOLEAN

\* PEARSON_LOOKUP_TABLE (RFC 3074), index i at position i+1.
PEARSON_LOOKUP_TABLE ==
  << 251, 175, 119, 215, 81, 14, 79, 191, 103, 49, 181, 143, 186, 157, 0, 232,
     31, 32, 55, 60, 152, 58, 17, 237, 174, 70, 160, 144, 220, 90, 57, 223,
     59, 3, 18, 140, 111, 166, 203, 196, 134, 243, 124, 95, 222, 179, 197, 65,
     180, 48, 36, 15, 107, 46, 233, 130, 165, 30, 123, 161, 209, 23, 97, 16,
     40, 91, 219, 61, 100, 10, 210, 109, 250, 127, 22, 138, 29, 108, 244, 67,
     207, 9, 178, 204, 74, 98, 126, 249, 167, 116, 34, 77, 193, 200, 121, 5,
     20, 113, 71, 35, 128, 13, 182, 94, 25, 226, 227, 199, 75, 27, 41, 245,
     230, 224, 43, 225, 177, 26, 155, 150, 212, 142, 218, 115, 241, 73, 88, 105,
     39, 114, 62, 255, 192, 201, 145, 214, 168, 158, 221, 148, 154, 122, 12, 84,
     82, 163, 44, 139, 228, 236, 205, 242, 217, 11, 187, 146, 159, 64, 86, 239,
     195, 42, 106, 198, 118, 112, 184, 172, 87, 2, 173, 117, 176, 229, 247, 253,
     137, 185, 99, 164, 102, 147, 45, 66, 231, 52, 141, 211, 194, 206, 246, 238,
     56, 110, 78, 248, 63, 240, 189, 93, 92, 51, 53, 183, 19, 171, 72, 50,
     33, 104, 101, 69, 8, 252, 83, 120, 76, 135, 85, 54, 202, 125, 188, 213,
     96, 235, 136, 208, 162, 129, 190, 132, 156, 38, 47, 1, 7, 254, 24, 4,
     216, 131, 89, 21, 28, 133, 37, 153, 149, 80, 170, 68, 6, 169, 234, 151 >>

\* The int value of `hash ^ data[i]`: a signed char b >= 0x80 is b - 256,
\* sign-extended, so the XOR keeps the high ones and the result is negative.
TableIndex(h, b) ==
  IF CharIsSigned /\ b >= 128 THEN (h ^^ b) - 256 ELSE h ^^ b

\* The bytes `TABLE[x]` may yield: one inside the table, any outside it.
TableRead(x) ==
  IF x \in 0..255 THEN {PEARSON_LOOKUP_TABLE[x + 1]} ELSE 0..255

\* Mutant: the loop runs head to tail, for (i = 0; i < size; i++).
RECURSIVE ChainForward(_, _, _)
ChainForward(data, i, H) ==
  IF i = 0 THEN H
  ELSE ChainForward(data, i - 1,
         UNION {TableRead(TableIndex(h, data[Len(data) - i + 1])) : h \in H})

\* The loop from i = size down to 1, over the set of possible accumulators.
RECURSIVE Chain(_, _, _)
Chain(data, i, H) ==
  IF i = 0 THEN H
  ELSE Chain(data, i - 1, UNION {TableRead(TableIndex(h, data[i])) : h \in H})

\* Mutant: the final hash is returned as is, 0 included.
PearsonHashNoRemap(data) == Chain(data, Len(data), {Len(data) % 256})

\* The results MVTree::PearsonHash(data, size) may return.
PearsonHash(data) ==
  {IF h = 0 THEN 1 ELSE h : h \in Chain(data, Len(data), {Len(data) % 256})}

\* Reference definition, from the hash's contract rather than the loop:
\* fold the unsigned bytes tail to head, starting from the length, and
\* remap 0 to 1.
ReferenceHash(data) ==
  LET h == FoldRight(LAMBDA b, acc : PEARSON_LOOKUP_TABLE[(acc ^^ b) + 1],
                     data, Len(data) % 256)
  IN IF h = 0 THEN 1 ELSE h
=============================================================================
