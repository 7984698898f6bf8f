--------------------------- MODULE MCEncodePicture ---------------------------
(* A small instance of EncodePicture for TLC.  There is one surface and    *)
(* one coded buffer, so there is nothing to permute.                       *)
EXTENDS EncodePicture
=============================================================================
