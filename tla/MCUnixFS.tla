------------------------------ MODULE MCUnixFS ------------------------------
(* Instances of UnixFS for TLC.                                            *)
EXTENDS UnixFS

(* A tree of two levels above its leaves, the last of which is short; a    *)
(* file of two chunks and one of one, which share its leaves; an empty one.*)
FilesOfAllKinds == { <<1, 2, 3, 4, 5>>, <<1, 2, 3, 4>>, <<1, 2>>, <<>> }

SomeSlices == { <<0, 0>>, <<1, 3>>, <<4, 2>> }
=============================================================================
