------------------------------ MODULE MCNdmsView ------------------------------
(***************************************************************************)
(* NdmsView for TLC: commands are interchangeable in runs that check       *)
(* safety only.                                                            *)
(***************************************************************************)
EXTENDS NdmsView, TLC

CommandSymmetry == Permutations(Commands)

=============================================================================
