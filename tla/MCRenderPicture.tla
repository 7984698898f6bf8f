--------------------------- MODULE MCRenderPicture ---------------------------
(* Small instance of RenderPicture for TLC.                                *)
EXTENDS RenderPicture
=============================================================================
