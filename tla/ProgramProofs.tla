--------------------------- MODULE ProgramProofs ---------------------------
(***************************************************************************)
(* What a program means survives any sequence of a tool's operations, and  *)
(* so does what SpinASM wrote, bit for bit, when nothing is edited.        *)
(***************************************************************************)
EXTENDS Program, CodecProofs

-----------------------------------------------------------------------------
(* Files.                                                                  *)

\* The byte order of reading is that of writing.
LEMMA BytesBack ==
  ASSUME NEW ws \in [Slots -> Word]
  PROVE  /\ Len(ToBytes(ws)) = 4 * ProgLen
         /\ FromBytes(ToBytes(ws)) = ws
<1> DEFINE file == ToBytes(ws)
<1>1. ProgLen \in Nat \ {0}
  BY ContainerAssumption
<1>2. /\ \A j \in 1 .. 4 * ProgLen : file[j] = ByteOf(ws[(j - 1) \div 4], (j - 1) % 4)
      /\ Len(file) = 4 * ProgLen
  BY <1>1 DEF ToBytes
<1> HIDE DEF file
<1>3. ASSUME NEW s \in Slots PROVE WordAt(file, s) = ws[s]
  <2>1. s \in Int /\ 0 <= s /\ s <= ProgLen - 1
    BY <1>1 DEF Slots
  <2>2. ASSUME NEW j \in 0 .. 31
        PROVE  (j % 8) \in file[4 * s + 4 - (j \div 8)] <=> j \in ws[s]
    <3> DEFINE q == j \div 8
               r == j % 8
               k == 4 * s + 4 - q
    <3>1. q \in 0 .. 3 /\ r \in 0 .. 7 /\ j = 8 * q + r
      OBVIOUS
    <3> HIDE DEF q, r
    <3>2. k \in 1 .. 4 * ProgLen
      BY <1>1, <2>1, <3>1
    <3>3. (k - 1) \div 4 = s /\ (k - 1) % 4 = 3 - q
      BY <2>1, <3>1
    <3> HIDE DEF k
    <3>4. file[k] = ByteOf(ws[s], 3 - q)
      BY <1>2, <3>2, <3>3
    <3>5. 8 * (3 - (3 - q)) + r = j
      BY <3>1
    <3>6. r \in ByteOf(ws[s], 3 - q) <=> j \in ws[s]
      BY <3>1, <3>5 DEF ByteOf
    <3> QED BY <3>4, <3>6 DEF q, r, k
  <2>3. ws[s] \subseteq 0 .. 31
    BY DEF Word
  <2>4. WordAt(file, s) = {j \in 0 .. 31 : j \in ws[s]}
    BY <2>2 DEF WordAt
  <2> QED BY <2>3, <2>4
<1>4. \A s \in Slots : 4 * s < Len(file)
  BY <1>1, <1>2 DEF Slots
<1>5. FromBytes(file) = [s \in Slots |-> ws[s]]
  BY <1>3, <1>4 DEF FromBytes
<1> QED BY <1>2, <1>5 DEF file

\* Every file gives words.
LEMMA FileWords ==
  ASSUME NEW bytes
  PROVE  FromBytes(bytes) \in [Slots -> Word]
<1>1. \A s \in Slots : WordAt(bytes, s) \in Word
  BY DEF WordAt, Word
<1>2. NopWord \in Word
  BY DEF NopWord, Word
<1> QED BY <1>1, <1>2 DEF FromBytes

-----------------------------------------------------------------------------
(* The container.                                                          *)

\* The program holds words and means what it should; so does the file.
ContainerInv ==
  /\ words \in [Slots -> Word]
  /\ MeaningKept
  /\ image # <<>> => /\ Len(image) = 4 * ProgLen
                     /\ Instructions(FromBytes(image)) = saved

\* Rebuilding a program of encodable instructions.
LEMMA BuildBack ==
  ASSUME NEW is, DOMAIN is = Slots, is = [s \in Slots |-> is[s]],
         \A s \in Slots : Encodable(is[s])
  PROVE  /\ FromInstructions(is) \in [Slots -> Word]
         /\ Instructions(FromInstructions(is)) = is
<1>1. \A s \in Slots : Encode(is[s]) \in Word /\ Decode(Encode(is[s])) = is[s]
  BY EncodeWord, DecodeEncode
<1> QED BY <1>1 DEF FromInstructions, Instructions

LEMMA ContainerInit == Init => ContainerInv
<1> SUFFICES ASSUME Init PROVE ContainerInv
  OBVIOUS
<1>1. NopWord \in Word
  BY DEF NopWord, Word
<1> QED BY <1>1 DEF Init, ContainerInv, MeaningKept

LEMMA ContainerStep == ContainerInv /\ [Next]_vars => ContainerInv'
<1> SUFFICES ASSUME ContainerInv, [Next]_vars PROVE ContainerInv'
  OBVIOUS
<1>1. /\ words \in [Slots -> Word] /\ Instructions(words) = meaning
      /\ \A s \in Slots : Encodable(meaning[s])
      /\ DOMAIN meaning = Slots /\ meaning = [s \in Slots |-> meaning[s]]
  <2>1. words \in [Slots -> Word] /\ Instructions(words) = meaning
    BY DEF ContainerInv, MeaningKept
  <2>2. \A s \in Slots : meaning[s] = Decode(words[s]) /\ words[s] \in Word
    BY <2>1 DEF Instructions
  <2> QED BY <2>1, <2>2, DecodeTotal DEF Instructions
<1>2. ASSUME NEW b \in Images, Import(b) PROVE ContainerInv'
  BY <1>2, FileWords DEF Import, ContainerInv, MeaningKept, Instructions
<1>3. CASE Save
  BY <1>1, <1>3, BytesBack DEF Save, ContainerInv, MeaningKept
<1>4. CASE Reload
  BY <1>4, FileWords DEF Reload, ContainerInv, MeaningKept
<1>5. CASE Rebuild
  <2>1. words' = FromInstructions(meaning)
    BY <1>1, <1>5 DEF Rebuild
  <2> QED BY <1>1, <1>5, <2>1, BuildBack DEF Rebuild, ContainerInv, MeaningKept
<1>6. ASSUME NEW s \in Slots, NEW i \in Edits, Edit(s, i) PROVE ContainerInv'
  <2>1. words' = FromInstructions(meaning') /\ meaning' = [meaning EXCEPT ![s] = i]
    BY <1>1, <1>6 DEF Edit
  <2>2. /\ DOMAIN meaning' = Slots /\ meaning' = [t \in Slots |-> meaning'[t]]
        /\ \A t \in Slots : Encodable(meaning'[t])
    BY <1>1, <2>1, ContainerAssumption
  <2>3. ASSUME NEW m, m = meaning'
        PROVE  FromInstructions(m) \in [Slots -> Word] /\ Instructions(FromInstructions(m)) = m
    <3>1. DOMAIN m = Slots /\ m = [t \in Slots |-> m[t]] /\ \A t \in Slots : Encodable(m[t])
      BY <2>2, <2>3, Zenon
    <3> QED BY <3>1, BuildBack, Zenon
  <2>4. words' \in [Slots -> Word] /\ Instructions(words') = meaning'
    BY <2>1, <2>3, Zenon
  <2>5. image' = image /\ saved' = saved
    BY <1>6 DEF Edit
  <2> QED BY <2>4, <2>5, Zenon DEF ContainerInv, MeaningKept
<1>7. CASE UNCHANGED vars
  BY <1>7 DEF vars, ContainerInv, MeaningKept
<1> QED BY <1>2, <1>3, <1>4, <1>5, <1>6, <1>7 DEF Next

\* However a tool saves, reads back, rebuilds and edits a program of any
\* length, the program means what was imported and written.
THEOREM ProgramMeaningKept == Spec => []MeaningKept
<1>1. ContainerInv => MeaningKept
  BY DEF ContainerInv
<1> QED BY <1>1, ContainerInit, ContainerStep, PTL DEF Spec

\* A saved file is accepted by a reader and holds the program that was saved.
THEOREM ProgramFileFaithful == Spec => []FileFaithful
<1>1. ContainerInv => FileFaithful
  <2> SUFFICES ASSUME ContainerInv, image # <<>> PROVE Accepted(image)
    BY DEF ContainerInv, FileFaithful
  <2>1. Len(image) = 4 * ProgLen /\ ProgLen \in Nat
    BY ContainerAssumption DEF ContainerInv
  <2> QED BY <2>1 DEF Accepted
<1> QED BY <1>1, ContainerInit, ContainerStep, PTL DEF Spec

\* A tool that rebuilds a program SpinASM wrote changes no bit of it.
THEOREM ProgramCanonicalKept == Spec => CanonicalKept
<1>1. ASSUME ContainerInv, Rebuild, \A s \in Slots : Canonical(words[s])
      PROVE  words' = words
  <2>1. words \in [Slots -> Word]
    BY <1>1 DEF ContainerInv
  <2>2. words' = [s \in Slots |-> Encode(Decode(words[s]))]
    BY <1>1 DEF Rebuild, FromInstructions, Instructions
  <2>3. \A s \in Slots : Encode(Decode(words[s])) = words[s]
    BY <1>1, EncodeDecode
  <2> QED BY <2>1, <2>2, <2>3
<1>2. ContainerInv => [Rebuild /\ (\A s \in Slots : Canonical(words[s])) => words' = words]_vars
  BY <1>1
<1> QED BY <1>2, ContainerInit, ContainerStep, PTL DEF Spec, CanonicalKept
=============================================================================
