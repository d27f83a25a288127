---------------------------- MODULE MCEncryption ----------------------------
(***************************************************************************)
(* Small instances of Encryption for TLC.                                  *)
(***************************************************************************)
EXTENDS Encryption

KeyText(alphabet, chars, pad, newlines, value) ==
  [alphabet |-> alphabet, chars |-> chars, pad |-> pad,
   newlines |-> newlines, value |-> value]

MCEmptyKey == KeyText("base64", 0, 0, 0, 0)

\* A key of 32 bytes in base64, as it is and from a file that ends its line; a
\* second one; one in hexadecimal, as it is and from such a file; base64 of 33
\* bytes; a text only hexadecimal accepts, and with a line end neither; other
\* characters; nothing but a line end.
MCKeyTexts ==
  {MCEmptyKey,
   KeyText("base64", 44, 1, 0, 1), KeyText("base64", 44, 1, 1, 1),
   KeyText("hex", 44, 1, 0, 2),
   KeyText("hex", 64, 0, 0, 3), KeyText("hex", 64, 0, 1, 3),
   KeyText("base64", 44, 0, 0, 4),
   KeyText("hex", 42, 0, 0, 6), KeyText("hex", 42, 0, 1, 6),
   KeyText("other", 44, 0, 0, 7),
   KeyText("base64", 0, 0, 1, 0)}

MCEmptyText == [base64 |-> TRUE, bytes |-> 0, id |-> 0]

\* Texts that do not decode, decode to too little, and decode to enough.
MCPlaintexts ==
  {MCEmptyText, [base64 |-> FALSE, bytes |-> 0, id |-> 1],
   [base64 |-> TRUE, bytes |-> NonceSize + TagSize - 1, id |-> 2],
   [base64 |-> TRUE, bytes |-> NonceSize + TagSize, id |-> 3]}
=============================================================================
