------------------------- MODULE MCStreamResampler -------------------------
(* Converters of four taps: integer and fractional ratios, up, down and as *)
(* far down as the kernel is long.                                         *)
EXTENDS StreamResampler

SomeRates == {<<1, 1>>, <<2, 3>>, <<3, 2>>, <<1, 3>>, <<7, 2>>, <<4, 1>>}
=============================================================================
