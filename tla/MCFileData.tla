----------------------------- MODULE MCFileData -----------------------------
(* An instance of FileData: two chunks of two bytes, two handles that are  *)
(* interchangeable.                                                        *)
EXTENDS FileData, TLC

HandleSymmetry == Permutations(Handles)

(* Nothing reads the latest write but the step that makes it.              *)
WithoutLast == <<memory, overrun, disk>>
=============================================================================
