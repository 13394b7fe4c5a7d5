--------------------------- MODULE MCActiveSource ---------------------------
(* Instances of ActiveSource for TLC: an audio receiver in the first HDMI input and a  *)
(* playback device two levels behind it.                                               *)
EXTENDS ActiveSource, TLC

Bus == (5 :> <<1, 0, 0, 0>>) @@ (4 :> <<1, 1, 2, 0>>)
=============================================================================
