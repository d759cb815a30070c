----------------------- MODULE MCDetectionBatchStream -----------------------
(* Instances of DetectionBatchStream for TLC. *)
EXTENDS DetectionBatchStream, TLC

\* One input, split in two chunks: the tasks that use MaxProcessedIndexBatcher.
OneInput == {0}
OneInputChunks == (0 :> 2)
OneInputRanks == (0 :> <<1, 2>>)

\* Two choices; a chunk of choice 1 lies between the two chunks of choice 0.
TwoChoices == {0, 1}
TwoChoicesChunks == (0 :> 2) @@ (1 :> 1)
TwoChoicesRanks == (0 :> <<1, 3>>) @@ (1 :> <<2>>)
=============================================================================
