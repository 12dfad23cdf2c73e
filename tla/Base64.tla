------------------------------- MODULE Base64 -------------------------------
(***************************************************************************)
(* include/utils/encoding.h: base64_encode and base64_decode. A byte is a  *)
(* number below 256, a base64 character its place in base64_chars, and Pad *)
(* is '='.                                                                 *)
(***************************************************************************)
EXTENDS Integers, Sequences

Pad == 64

(* Mutant of Encode: one character less before the padding. *)
EncodePaddedTooSoon(bytes) ==
    LET size == Len(bytes)
        byte(i) == IF i <= size THEN bytes[i] ELSE 0
    IN [k \in 1..(4 * ((size + 2) \div 3)) |->
        LET i == 3 * ((k - 1) \div 4)
            q == (k - 1) % 4
        IN IF i + q >= size /\ q > 0 THEN Pad
           ELSE CASE q = 0 -> byte(i + 1) \div 4
                  [] q = 1 -> (byte(i + 1) % 4) * 16 + byte(i + 2) \div 16
                  [] q = 2 -> (byte(i + 2) % 16) * 4 + byte(i + 3) \div 64
                  [] q = 3 -> byte(i + 3) % 64]

(* Three bytes are four characters; one or two bytes at the end are filled *)
(* up with zeros, and the characters that come of zeros only are Pad.      *)
Encode(bytes) ==
    LET size == Len(bytes)
        byte(i) == IF i <= size THEN bytes[i] ELSE 0
    IN [k \in 1..(4 * ((size + 2) \div 3)) |->
        LET i == 3 * ((k - 1) \div 4)
            q == (k - 1) % 4
        IN IF i + q > size THEN Pad
           ELSE CASE q = 0 -> byte(i + 1) \div 4
                  [] q = 1 -> (byte(i + 1) % 4) * 16 + byte(i + 2) \div 16
                  [] q = 2 -> (byte(i + 2) % 16) * 4 + byte(i + 3) \div 64
                  [] q = 3 -> byte(i + 3) % 64]

(* Decoding stops at the first Pad. Of a last group of i characters come   *)
(* i - 1 bytes.                                                            *)
Decode(chars) ==
    LET ends == { k \in 1..Len(chars) : chars[k] = Pad }
        size == IF ends = {} THEN Len(chars)
                ELSE (CHOOSE k \in ends : \A l \in ends : k <= l) - 1
        rest == IF size % 4 = 0 THEN 0 ELSE (size % 4) - 1
    IN [j \in 1..(3 * (size \div 4) + rest) |->
        LET k == 4 * ((j - 1) \div 3) + ((j - 1) % 3) + 1
        IN CASE j % 3 = 1 -> (chars[k] * 4 + chars[k + 1] \div 16) % 256
             [] j % 3 = 2 -> ((chars[k] % 16) * 16 + chars[k + 1] \div 4) % 256
             [] j % 3 = 0 -> ((chars[k] % 4) * 64 + chars[k + 1]) % 256]
=============================================================================
