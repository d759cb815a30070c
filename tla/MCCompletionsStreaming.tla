----------------------- MODULE MCCompletionsStreaming -----------------------
(* Instances of CompletionsStreaming for TLC. *)
EXTENDS CompletionsStreaming

\* Input detectors, and chunk detectors, whole-document detectors or neither.
OutputRequests == {r \in [input : {TRUE}, chunk : BOOLEAN, whole : BOOLEAN] : ~(r.chunk /\ r.whole)}
=============================================================================
