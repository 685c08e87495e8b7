----------------------------- MODULE MCMiniDFS -----------------------------
\* Instances of miniDFS for TLC: segments of two bytes.
EXTENDS MiniDFS, TLC

\* Three bytes are two segments; two are a segment and an empty one.
OneAndTwo == ("a" :> 3) @@ ("b" :> 2)
Three == ("a" :> 3)
=============================================================================
