------------------------------ MODULE MCBitMap ------------------------------
(* Runs of BitMap.  Three bytes of four bits, the last one with three bits of *)
(* padding, hold every case of the arithmetic: an extent inside one byte, a  *)
(* shared first byte, a whole byte, and a rest of one or more bits.          *)
EXTENDS BitMap

=============================================================================
