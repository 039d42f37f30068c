-------------------------- MODULE MCBatchUploader --------------------------
(***************************************************************************)
(* Small instances of the batch uploader for TLC.                          *)
(***************************************************************************)
EXTENDS BatchUploaderProperties, TLC

\* Every thread uses every writer.
SharedUsers == [w \in Writers |-> Threads]
DataSymmetry == Permutations(Data)
=============================================================================
