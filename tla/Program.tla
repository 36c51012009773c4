------------------------------ MODULE Program ------------------------------
(***************************************************************************)
(* A program's container (src/src/program.rs) as a tool uses it: words     *)
(* taken from an image, decoded, edited, encoded again, saved and read     *)
(* back.  A byte is the set of its 1 bits, byte 1 the first of the file.   *)
(***************************************************************************)
EXTENDS Codec, Sequences

CONSTANTS
  ProgLen,      \* PROGRAM_LEN                                   128
  Images,       \* the byte files a host may read
  Edits,        \* the instructions a tool may write
  MaxImports,   \* bound: how many files are read
  MaxEdits      \* bound: how many slots are rewritten

ASSUME ContainerAssumption ==
  /\ ProgLen \in Nat \ {0} /\ MaxImports \in Nat /\ MaxEdits \in Nat
  /\ \A b \in Images : b \in Seq(SUBSET (0 .. 7))
  /\ \A i \in Edits : Encodable(i)

Slots == 0 .. ProgLen - 1

NopWord == {0, 4}

VARIABLES
  words,      \* the program
  image,      \* the file last saved; empty before
  imports, edits

\* What the program means and meant when it was saved, kept beside the code.
VARIABLES meaning, saved

vars == <<words, image, imports, edits, meaning, saved>>

-----------------------------------------------------------------------------
Instructions(ws) == [s \in Slots |-> Decode(ws[s])]

FromInstructions(is) == [s \in Slots |-> Encode(is[s])]

\* Byte k of a word in big-endian order, k counted from 0.
ByteOf(w, k) == {b \in 0 .. 7 : 8 * (3 - k) + b \in w}

\* A slip for the mutation runs: the bytes are read in little-endian order.
WordAtLittle(bytes, s) == {j \in 0 .. 31 : (j % 8) \in bytes[4 * s + 1 + (j \div 8)]}

\* The word of slot s, from the four bytes that start at 4 s.
WordAt(bytes, s) == {j \in 0 .. 31 : (j % 8) \in bytes[4 * s + 4 - (j \div 8)]}

Accepted(bytes) == Len(bytes) % 4 = 0 /\ Len(bytes) <= 4 * ProgLen

\* from_bytes of an accepted file: short programs are padded with NOP.
FromBytes(bytes) ==
  [s \in Slots |-> IF 4 * s < Len(bytes) THEN WordAt(bytes, s) ELSE NopWord]

ToBytes(ws) == [j \in 1 .. 4 * ProgLen |-> ByteOf(ws[(j - 1) \div 4], (j - 1) % 4)]

-----------------------------------------------------------------------------
Init ==
  /\ words = [s \in Slots |-> NopWord]
  /\ image = <<>> /\ imports = 0 /\ edits = 0
  /\ meaning = Instructions(words) /\ saved = meaning

\* A file from elsewhere; a refused one leaves the program as it was.
Import(bytes) ==
  /\ imports < MaxImports /\ imports' = imports + 1
  /\ words' = IF Accepted(bytes) THEN FromBytes(bytes) ELSE words
  /\ meaning' = IF Accepted(bytes) THEN Instructions(words') ELSE meaning
  /\ UNCHANGED <<image, edits, saved>>

\* to_bytes, and from_bytes on what it wrote.
Save ==
  /\ image' = ToBytes(words) /\ saved' = meaning
  /\ UNCHANGED <<words, imports, edits, meaning>>

Reload ==
  /\ image # <<>> /\ Accepted(image)
  /\ words' = FromBytes(image) /\ meaning' = saved
  /\ UNCHANGED <<image, imports, edits, saved>>

\* The program is decoded and encoded again, as a tool that edits nothing.
Rebuild ==
  /\ words' = FromInstructions(Instructions(words))
  /\ UNCHANGED <<image, imports, edits, meaning, saved>>

\* The same with one slot rewritten.
Edit(s, i) ==
  /\ edits < MaxEdits /\ edits' = edits + 1
  /\ words' = FromInstructions([Instructions(words) EXCEPT ![s] = i])
  /\ meaning' = [meaning EXCEPT ![s] = i]
  /\ UNCHANGED <<image, imports, saved>>

Next ==
  \/ \E b \in Images : Import(b)
  \/ Save \/ Reload \/ Rebuild
  \/ \E s \in Slots, i \in Edits : Edit(s, i)

Spec == Init /\ [][Next]_vars

-----------------------------------------------------------------------------
\* Through saving, reading back, rebuilding and editing in any order, the
\* words mean what was imported and written, although encode may change them
\* (Instruction::decode, Instruction::encode).
MeaningKept == Instructions(words) = meaning

\* What SpinASM wrote is kept bit for bit when a tool rebuilds it (the
\* comment on encode: "for every canonical word, encode(decode(w)) == w").
CanonicalKept ==
  [][Rebuild /\ (\A s \in Slots : Canonical(words[s])) => words' = words]_vars

\* The saved file holds the program that was saved, in a length that a
\* reader accepts (Program::to_bytes, Program::from_bytes).
FileFaithful ==
  image # <<>> => Accepted(image) /\ Instructions(FromBytes(image)) = saved
=============================================================================
