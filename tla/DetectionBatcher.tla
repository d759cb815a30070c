-------------------------- MODULE DetectionBatcher --------------------------
(***************************************************************************)
(* The two DetectionBatcher implementations                                *)
(* (src/orchestrator/types/detection_batcher/): a BTreeMap from a key to   *)
(* the vector of detection sets received for it.  A key is a chunk for     *)
(* MaxProcessedIndexBatcher and a (chunk, choice) pair for                 *)
(* CompletionBatcher; it is written <<choice, n>> here, n numbering the    *)
(* chunks of the choice in the order its chunker emits them.  A detection  *)
(* set is represented by the detector it comes from.  An absent entry of   *)
(* the map is the empty sequence: push never leaves an empty vector.       *)
(***************************************************************************)
EXTENDS Integers, Sequences, FiniteSets

CONSTANTS
    Detectors,   \* the detectors applied to every chunk
    Choices,     \* input ids: the choices of a completion, or {0}
    NumChunks,   \* NumChunks[c]: how many chunks choice c is split into
    ChunkRank,   \* ChunkRank[c][n]: rank of chunk n of choice c in Chunk's Ord
    BatcherKind  \* which implementation is used

ASSUME DetectorsAssumption == IsFiniteSet(Detectors) /\ Detectors # {}
ASSUME ChoicesAssumption == IsFiniteSet(Choices) /\ Choices # {} /\ Choices \subseteq Nat
ASSUME NumChunksAssumption == NumChunks \in [Choices -> Nat]
\* A chunker emits the chunks of one input in text order.
ASSUME ChunkRankAssumption ==
    \A c \in Choices :
        /\ ChunkRank[c] \in [1 .. NumChunks[c] -> Nat]
        /\ \A m, n \in 1 .. NumChunks[c] : m < n => ChunkRank[c][m] < ChunkRank[c][n]
\* MaxProcessedIndexBatcher is only used by the tasks that have one input.
ASSUME BatcherKindAssumption ==
    /\ BatcherKind \in {"Completion", "MaxProcessedIndex"}
    /\ BatcherKind = "MaxProcessedIndex" => Choices = {0}
-----------------------------------------------------------------------------
Keys == UNION {{c} \X (1 .. NumChunks[c]) : c \in Choices}

\* The key push files the n-th chunk of a choice under: the completion
\* batcher keeps the choice, the other one drops the input id ...
CompletionKey(c, n) == <<c, n>>

\* ... and pop_batch reports input id 0 for every batch.
MaxProcessedIndexKey(c, n) == <<0, n>>

KeyOf(c, n) ==
    IF BatcherKind = "Completion" THEN CompletionKey(c, n) ELSE MaxProcessedIndexKey(c, n)

\* Chunk's Ord compares the place in the text (input and character indices),
\* never the text itself.
ChunkBefore(a, b) == ChunkRank[a[1]][a[2]] < ChunkRank[b[1]][b[2]]
SameChunkPlace(a, b) == ChunkRank[a[1]][a[2]] = ChunkRank[b[1]][b[2]]

\* Order of the BTreeMap's keys: the chunk first, then the choice.
KeyBefore(a, b) == ChunkBefore(a, b) \/ (SameChunkPlace(a, b) /\ a[1] < b[1])
-----------------------------------------------------------------------------
EmptyBatcher == [key \in Keys |-> <<>>]

Occupied(state) == {key \in Keys : state[key] # <<>>}

\* push: a new entry, or one more detection set at the end of an existing one.
Push(state, key, detector) == [state EXCEPT ![key] = Append(@, detector)]

\* first_key_value
IsFirstKey(state, key) ==
    /\ key \in Occupied(state)
    /\ \A other \in Occupied(state) \ {key} : KeyBefore(key, other)

\* Mutant: any complete entry, not only the first.
CanPopAny(state, key) ==
    /\ key \in Occupied(state)
    /\ Len(state[key]) = Cardinality(Detectors)

\* Mutant: the first entry, complete or not.
CanPopPartial(state, key) == IsFirstKey(state, key)

\* pop_batch returns a batch iff the first entry has one set per detector.
CanPop(state, key) ==
    /\ IsFirstKey(state, key)
    /\ Len(state[key]) = Cardinality(Detectors)

\* pop_first
Remove(state, key) == [state EXCEPT ![key] = <<>>]

IsEmpty(state) == Occupied(state) = {}
=============================================================================
