---------------------------- MODULE MCOcrService ----------------------------
(* The OCR service on small instances.  Its requests and its file store     *)
(* share nothing, so they are checked one after the other and not           *)
(* interleaved: each moves only while the other is in its initial state.    *)
EXTENDS OcrService, OcrFiles, TLC

Sizes == [f \in Files |-> IF f = "large" THEN 2 ELSE 1]

MCInit == Init /\ FilesInit

MCNext ==
    \/ Next /\ FilesInit /\ UNCHANGED filesVars
    \/ FilesNext /\ Init /\ UNCHANGED vars

MCSpec == MCInit /\ [][MCNext]_<<vars, filesVars>> /\ Fairness
=============================================================================
