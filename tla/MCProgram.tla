----------------------------- MODULE MCProgram -----------------------------
(***************************************************************************)
(* An instance of Program for TLC: files of one word of each opcode with   *)
(* every single unused, field and type bit set or cleared, files of more   *)
(* words than one, files a reader refuses, and edits at the ends of every  *)
(* field.                                                                  *)
(***************************************************************************)
EXTENDS Program

Low(code) == {b \in 0 .. 4 : (code \div 2 ^ b) % 2 = 1}
High == {{}, 5 .. 31} \cup {{b} : b \in 5 .. 31} \cup {(5 .. 31) \ {b} : b \in 5 .. 31}
SampleWords == {Low(code) \cup h : code \in 0 .. 31, h \in High}

FileOf(w) == [j \in 1 .. 4 |-> ByteOf(w, j - 1)]

\* Canonical words in every slot, and lengths that are refused.
Rmpa == Low(1) \cup {8, 9, 21, 31}
Jam1 == Low(19) \cup {6, 7}
MCImages ==
  {FileOf(w) : w \in SampleWords}
    \cup {<<>>, FileOf(Rmpa), FileOf(Rmpa) \o FileOf(Jam1), FileOf(Jam1) \o FileOf({0, 2, 31}),
          SubSeq(FileOf(Rmpa), 1, 3), FileOf(Jam1) \o <<{}>>,
          FileOf(Rmpa) \o FileOf(Jam1) \o FileOf(Rmpa)}

\* A field at its ends: zero, all ones, the sign alone.
Ends(fd) == {Extend(p, fd) : p \in {{}, 0 .. fd.len - 1, {fd.len - 1}}}
EndsOf(op) ==
  LET with(m, e) == [op |-> op, field |-> [n \in DOMAIN Layout(op) |->
                                            IF n = m THEN e ELSE Extend({0}, Layout(op)[n])]]
  IN  UNION {{with(m, e) : e \in Ends(Layout(op)[m])} : m \in DOMAIN Layout(op)}
MCEdits == EndsOf("RMPA") \cup EndsOf("CHO_SOF")
=============================================================================
