------------------ MODULE MCStreamingClassificationWithGen ------------------
(* Instances of StreamingClassificationWithGen for TLC. *)
EXTENDS StreamingClassificationWithGen

AllRequests == [input : BOOLEAN, output : BOOLEAN]
=============================================================================
