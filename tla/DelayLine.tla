----------------------------- MODULE DelayLine -----------------------------
(***************************************************************************)
(* What delay RAM promises a program (src/src/vm.rs, README "Delay RAM"):  *)
(* a line of samples addressed from the present.  A sample stored at       *)
(* address a is read at address a + k after k passes; what leaves the end  *)
(* comes back at address 0.  Loading a program silences the line, or, when *)
(* the host keeps it, leaves every sample in it in the same order, from an *)
(* address nobody promises.                                                *)
(*                                                                         *)
(* The program is the line's environment.  ask is the access it makes      *)
(* next, and the step that follows grants it and does nothing else:        *)
(*   "read"   the sample at address at, to be left in got;                 *)
(*   "write"  the sample v at address at;                                  *)
(*   "none"   an instruction that leaves the line alone;                   *)
(*   "end"    the pass is over;                                            *)
(*   "host"   between passes, when only the host can touch the line.       *)
(* The accesses of a pass are told apart by their slot: none is granted by *)
(* a step that changes nothing.                                            *)
(***************************************************************************)
EXTENDS Integers

CONSTANTS
  Size,      \* the number of samples in the line, at least one
  Floors     \* the contents a freshly powered chip may show

VARIABLES
  line,      \* the sample at each address
  keep,      \* whether a load keeps the line
  got,       \* the sample last read, which WRAP takes
  ask        \* the access the program makes next

At == 0 .. Size - 1
Empty == [a \in At |-> 0]

\* The line l read from address k on.
From(l, k) == [a \in At |-> l[(a + k) % Size]]

Init == line = Empty /\ keep = FALSE /\ got = 0

\* An instruction is given what the line holds at its address.
Read == /\ ask.kind = "read"
        /\ got' = line[ask.at % Size]
        /\ UNCHANGED <<line, keep>>

\* An instruction stores its sample at its address and nowhere else.
Write == /\ ask.kind = "write"
         /\ line' = [line EXCEPT ![ask.at % Size] = ask.v]
         /\ UNCHANGED <<keep, got>>

Pass == ask.kind = "none" /\ UNCHANGED <<line, keep, got>>

\* A pass ends: every sample is one address further away.
Advance == ask.kind = "end" /\ line' = From(line, -1) /\ UNCHANGED <<keep, got>>

Load == /\ \/ ~keep /\ line' = Empty
           \/ keep /\ \E k \in At : line' = From(line, k)
        /\ got' = 0 /\ UNCHANGED keep

Clear == line' = Empty /\ got' = 0 /\ UNCHANGED keep

PowerUp == (\E f \in Floors, k \in At : line' = From(f, k)) /\ UNCHANGED <<keep, got>>

Keep(b) == keep' = b /\ UNCHANGED <<line, got>>

\* The host's other calls, a frame of input among them.
Other == UNCHANGED <<line, keep, got>>

Host == /\ ask.kind = "host"
        /\ Load \/ Clear \/ PowerUp \/ Other \/ \E b \in BOOLEAN : Keep(b)

Next == Read \/ Write \/ Pass \/ Advance \/ Host

Spec == Init /\ [][Next]_<<line, keep, got, ask>>
=============================================================================
