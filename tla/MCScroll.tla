------------------------------ MODULE MCScroll ------------------------------
(* A short frame that starts at the border of the nametables (239) or below *)
(* it, in the attribute rows (255).                                         *)
EXTENDS Scroll

MCScrollByte == {239, 255}
MCAddressByte == {172}
MCMask == {<<TRUE, FALSE>>, <<FALSE, TRUE>>}
MCControlByte == {0, 7}
=============================================================================
