------------------------------- MODULE Base64 -------------------------------
(***************************************************************************)
(* base64/base64.c on sequences of bytes.  The loops of the code collect   *)
(* three or four characters and handle a group when it is full, then what  *)
(* is left; here a group is found by its place.                            *)
(***************************************************************************)
EXTENDS Integers, Sequences

Pad == 61        \* '='

\* The alphabet A-Z a-z 0-9 + /, in ASCII.
b64_alphabet ==
  [n \in 0 .. 63 |-> IF n < 26 THEN 65 + n ELSE IF n < 52 THEN 71 + n ELSE IF n < 62 THEN n - 4
                     ELSE IF n = 62 THEN 43 ELSE 47]

\* -1 for any other character, as an unsigned char.
b64_lookup(c) ==
  IF \E n \in 0 .. 63 : b64_alphabet[n] = c THEN CHOOSE n \in 0 .. 63 : b64_alphabet[n] = c ELSE 255

a3_to_a4(a) == <<a[1] \div 4, 16 * (a[1] % 4) + a[2] \div 16, 4 * (a[2] % 16) + a[3] \div 64, a[3] % 64>>

a4_to_a3(a) ==
  <<(4 * a[1] + (a[2] % 64) \div 16) % 256, (16 * (a[2] % 16) + (a[3] % 64) \div 4) % 256,
    (64 * (a[3] % 4) + a[4]) % 256>>

\* Group g of n elements of s, with zeros behind its end.
Group(s, g, n) == [k \in 1 .. n |-> IF n * g + k <= Len(s) THEN s[n * g + k] ELSE 0]

base64_encode(input) ==
  [k \in 1 .. 4 * ((Len(input) + 2) \div 3) |->
     LET g == (k - 1) \div 4
         j == (k - 1) % 4
     IN IF 3 * g + j > Len(input) THEN Pad ELSE b64_alphabet[a3_to_a4(Group(input, g, 3))[j + 1]]]

\* Up to the first padding character; a group of i characters at the end gives i - 1.
base64_decode(input) ==
  LET pads == {k \in 1 .. Len(input) : input[k] = Pad}
      text == IF pads = {} THEN input ELSE SubSeq(input, 1, (CHOOSE k \in pads : \A l \in pads : k <= l) - 1)
      four(g) == [k \in 1 .. 4 |-> b64_lookup(Group(text, g, 4)[k])]
      left == Len(text) % 4
  IN [k \in 1 .. 3 * (Len(text) \div 4) + (IF left = 0 THEN 0 ELSE left - 1) |->
        a4_to_a3(four((k - 1) \div 3))[((k - 1) % 3) + 1]]

\* The length that a text of this length stands for, less its padding.  (For an
\* empty one the code looks at the byte in front of it.)
base64_dec_len(input) ==
  LET data == {k \in 1 .. Len(input) : input[k] # Pad}
      numEq == Len(input) - (IF data = {} THEN 0 ELSE CHOOSE k \in data : \A l \in data : l <= k)
  IN (6 * Len(input)) \div 8 - numEq
=============================================================================
