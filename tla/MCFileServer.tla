---------------------------- MODULE MCFileServer ----------------------------
(* The instances of FileServer for TLC.  Chunks are of two bytes and sizes *)
(* are added modulo four: small is a file of two chunks, the last of them  *)
(* short, large one whose sum wraps to nothing, and empty has no chunk.    *)
EXTENDS FileServer, TLC

CONSTANTS c1, c2, io1, io2, small, large, empty

InBytes == small :> 3 @@ large :> 4 @@ empty :> 0
InChunks == small :> 2 @@ large :> 2 @@ empty :> 0

SizesInBytes == [n \in Names |-> InBytes[n]]
SizesInChunks == [n \in Names |-> InChunks[n]]

(* Two pages on two io loops; the user of one of them starts more, and may *)
(* upload files of every size.                                             *)
TwoLoops == c1 :> io1 @@ c2 :> io2
Disks == c1 :> {small, large, empty} @@ c2 :> {small}
Some == c1 :> 3 @@ c2 :> 2
=============================================================================
