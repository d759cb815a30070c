--------------------- MODULE MCChatCompletionsStreaming ---------------------
(* Instances of ChatCompletionsStreaming for TLC. *)
EXTENDS ChatCompletionsStreaming

AllRequests == [input : BOOLEAN, chunk : BOOLEAN, whole : BOOLEAN]

\* Only chunk detectors, with or without whole-document ones.
ChunkRequests == [input : {FALSE}, chunk : {TRUE}, whole : BOOLEAN]

\* With and without chunk detectors; the other detectors are always there.
FullRequests == [input : {TRUE}, chunk : BOOLEAN, whole : {TRUE}]
=============================================================================
