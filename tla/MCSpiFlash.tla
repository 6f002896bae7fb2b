----------------------------- MODULE MCSpiFlash -----------------------------
(* A small instance of SpiFlash: slot A in two sectors, the first one, of    *)
(* the padding of its VBLOCK, all zeros; slot B and the GBB in one each.     *)
EXTENDS SpiFlash

ThreeRegions == {<<1, 2>>, <<3, 3>>, <<4, 4>>}
=============================================================================
