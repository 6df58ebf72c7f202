------------------------------ MODULE MCNifoTlv ------------------------------
(* Small instances of NifoTlv for TLC: a body of NIFO_SIZE + 5 bytes holds  *)
(* two empty TLVs and a byte, so headers are cut and values take up to      *)
(* three nodes.                                                             *)
EXTENDS NifoTlv

AllLens == 0 .. 9
=============================================================================
