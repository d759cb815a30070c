---------------------------- MODULE BatchChannel ----------------------------
(***************************************************************************)
(* What a DetectionBatchStream promises to the handler that reads it: a    *)
(* log of batches, per choice in chunk order and none of them twice, each  *)
(* with one detection set of every detector, which ends with an error, is  *)
(* closed, or is left by its reader.  It does not promise every batch.     *)
(***************************************************************************)
EXTENDS Integers, Sequences

CONSTANTS Choices, Detectors, NumDetectors

VARIABLES
    log,     \* what the reader has received
    status   \* "open", "failed", "closed" or "left"

channelVars == <<log, status>>

Batch == [tag : {"batch"}, choice : Choices, chunk : Nat, dets : Seq(Detectors)]
OneOfEach(dets) ==
    /\ Len(dets) = NumDetectors
    /\ \A d \in Detectors : \E k \in DOMAIN dets : dets[k] = d
-----------------------------------------------------------------------------
Init == log = <<>> /\ status = "open"

\* The last batch may be the one after which the stream is closed.
Deliver(b) ==
    /\ status = "open" /\ status' \in {"open", "closed"}
    /\ b \in Batch
    /\ \A i \in DOMAIN log :
           (log[i].tag = "batch" /\ log[i].choice = b.choice) => log[i].chunk < b.chunk
    /\ OneOfEach(b.dets)
    /\ log' = Append(log, b)

Fail ==
    /\ status = "open" /\ status' = "failed"
    /\ log' = Append(log, [tag |-> "error"])

Close == status = "open" /\ status' = "closed" /\ UNCHANGED log

\* The reader drops the stream.
Leave == status \in {"open", "closed"} /\ status' = "left" /\ UNCHANGED log

Next ==
    \/ \E i \in DOMAIN log' : Deliver(log'[i])
    \/ Fail \/ Close \/ Leave

Spec == Init /\ [][Next]_channelVars
=============================================================================
