------------------------------- MODULE MCFfi -------------------------------
(***************************************************************************)
(* An instance of Ffi for TLC: a 5-bit usize in which the slot of index 4  *)
(* starts at 0 again, banks short by a byte, whole and of two slots, rates *)
(* at both ends of both ranges.                                            *)
(***************************************************************************)
EXTENDS Ffi

MCHostRates == {NaN, -1, 0, 999, 1000, 1000000, 1000001}
MCChipRates == {NaN, 4095, 4096, 262144, 262145}
MCBankLens == {0, 15, 16, 31}
MCIndexes == {0, 1, 3, 4}

\* A message longer than the widest buffer, one with a NUL, one that just fits.
MCMessages == [null |-> <<65, 66, 67>>, utf8 |-> <<65, 0, 66>>, none |-> <<>>,
               syntax |-> <<65, 66, 67, 68, 69, 70, 71, 72, 73>>]
=============================================================================
