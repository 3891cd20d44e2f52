--------------------------- MODULE OutputFramesMC ---------------------------
(* OutputFrames with every setting.                                        *)
EXTENDS OutputFrames

MCSettings == [late : BOOLEAN, fail : BOOLEAN, toggle : BOOLEAN]
=============================================================================
